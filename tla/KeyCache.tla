------------------------------ MODULE KeyCache ------------------------------
(* What the persisted key registry promises: a cache of the registry that  *)
(* is replaced as a whole by the registry in memory, and from which a      *)
(* restarted router takes all of it, a part that is still admissible, or   *)
(* nothing.                                                                *)
EXTENDS Integers

CONSTANTS ID,    \* key IDs
          Hash,  \* hashes of the bearer tokens
          None   \* no hash

VARIABLES running,  \* the router serves
          keys,     \* the registry in memory: the hash of every key ID
          version,  \* and its version; 0 before the first push
          disk      \* the registry a restart would find

vars == <<running, keys, version, disk>>

Empty == [i \in ID |-> None]
Blank == [keys |-> Empty, ver |-> 0]

(* The registries that hold some of the keys of k.                         *)
Within(k) == {[i \in ID |-> IF i \in s THEN k[i] ELSE None] : s \in SUBSET ID}

Init == running = FALSE /\ keys = Empty /\ version = 0 /\ disk = Blank

(* A push from key-sync takes effect in memory.                            *)
Push ==
    /\ running
    /\ \E k \in [ID -> Hash \cup {None}] : keys' = k
    /\ version' \in Nat /\ version' >= version
    /\ UNCHANGED <<running, disk>>

(* The store holds what memory holds.                                      *)
Save == running /\ disk' = [keys |-> keys, ver |-> version] /\ UNCHANGED <<running, keys, version>>

(* The whole snapshot is given up before the router serves.                *)
Discard == ~running /\ disk' = Blank /\ UNCHANGED <<running, keys, version>>

Restore ==
    /\ ~running /\ running'
    /\ keys' \in Within(disk.keys) /\ version' = disk.ver
    /\ disk' = [keys |-> keys', ver |-> disk.ver]

(* The store cannot be used: the router starts empty and saves nothing.    *)
Degrade == ~running /\ running' /\ UNCHANGED <<keys, version, disk>>

Stop == running /\ ~running' /\ keys' = Empty /\ version' = 0 /\ UNCHANGED disk

Next == Push \/ Save \/ Discard \/ Restore \/ Degrade \/ Stop

Spec == Init /\ [][Next]_vars
=============================================================================
