------------------------------ MODULE PinStore ------------------------------
(***************************************************************************)
(* One shard of semantic.PinStore: the map of pins, the shard's list of    *)
(* pins by last use, and one such list per owner. Keys of other shards     *)
(* never meet these. The shard's mutex makes Get, Put and Delete atomic,   *)
(* but each reads the clock, at t, before it locks.                        *)
(*                                                                         *)
(* An owner's list is in the map owners or was dropped from it while Put   *)
(* still held it; a pin pushed on a dropped list is not listed. A dropped  *)
(* list is empty or holds only such pins, and no operation finds it again. *)
(***************************************************************************)
EXTENDS Integers, Sequences, SequencesExt, FiniteSets

CONSTANTS Owner, perShard, perOwnerCap

ASSUME PinAssumption == perShard \in Nat \ {0} /\ perOwnerCap \in Nat \ {0}

VARIABLES
    m,       \* pinShard.m, a partial function from keys to entries
    lru,     \* pinShard.lru, front first
    owners   \* [Owner -> its list, front first; empty for none]

pinVars == <<m, lru, owners>>

PinInit == m = [k \in {} |-> 0] /\ lru = << >> /\ owners = [o \in Owner |-> << >>]

expired(e, t) == t > e.expires \/ (e.deadline # 0 /\ t > e.deadline)

-----------------------------------------------------------------------------
(* The shard's three indexes as one record, so that removals can follow    *)
(* one another within one operation.                                       *)
Shard == [m |-> m, lru |-> lru, owners |-> owners]

Without(s, k) == SelectSeq(s, LAMBDA x : x # k)
ToFront(s, k) == <<k>> \o Without(s, k)
Drop(f, k) == [x \in DOMAIN f \ {k} |-> f[x]]

remove(sh, k) ==
    [m |-> Drop(sh.m, k), lru |-> Without(sh.lru, k),
     owners |-> [sh.owners EXCEPT ![k.owner] = Without(@, k)]]

(* Remove the pins behind the last live one.                               *)
evictExpiredTail(sh, t) ==
    LET live == {i \in DOMAIN sh.lru : ~expired(sh.m[sh.lru[i]], t)}
        keep == IF live = {} THEN 0 ELSE CHOOSE i \in live : \A j \in live : j <= i
    IN  FoldLeft(remove, sh, SubSeq(sh.lru, keep + 1, Len(sh.lru)))

(* Plausible bug: the most recently used pins go.                          *)
EvictFront(sh, s, n) == FoldLeft(remove, sh, SubSeq(s, 1, Len(s) - n))

(* Keep the n most recently used pins of a list s of the shard.            *)
Evict(sh, s, n) == FoldLeft(remove, sh, SubSeq(s, n + 1, Len(s)))

(* The new entry goes on the list ol that Put found or made. When evicting *)
(* to the owner's cap emptied a list found in the map, that list was       *)
(* dropped from the map and the entry goes on it all the same.             *)
Insert(sh, k, e) ==
    LET o == k.owner
        capped == Evict(sh, sh.owners[o], perOwnerCap - 1)
        dropped == sh.owners[o] # << >> /\ capped.owners[o] = << >>
    IN  [m |-> [x \in DOMAIN capped.m \cup {k} |-> IF x = k THEN e ELSE capped.m[x]],
         lru |-> <<k>> \o capped.lru,
         owners |-> IF dropped THEN capped.owners
                    ELSE [capped.owners EXCEPT ![o] = <<k>> \o @]]

Becomes(sh) == m' = sh.m /\ lru' = sh.lru /\ owners' = sh.owners

-----------------------------------------------------------------------------
(* The operations.                                                         *)

Hit(k, t) == k \in DOMAIN m /\ ~expired(m[k], t)

Get(k, t) ==
    \/ k \notin DOMAIN m /\ UNCHANGED pinVars
    \/ k \in DOMAIN m /\ expired(m[k], t) /\ Becomes(remove(Shard, k))
    \/ /\ Hit(k, t)
       /\ m' = [m EXCEPT ![k].expires = t + m[k].ttl]
       /\ lru' = ToFront(lru, k)
       /\ owners' = IF Contains(owners[k.owner], k)
                    THEN [owners EXCEPT ![k.owner] = ToFront(@, k)] ELSE owners

Put(k, model, route, ttl, maxAge, t) ==
    LET e == [model |-> model, route |-> route, ttl |-> ttl, expires |-> t + ttl,
              deadline |-> IF maxAge = 0 THEN 0 ELSE t + maxAge]
        old == IF k \in DOMAIN m THEN remove(Shard, k) ELSE Shard
        fresh == evictExpiredTail(old, t)
        roomy == Evict(fresh, fresh.lru, perShard - 1)
    IN  IF ttl = 0 THEN UNCHANGED pinVars ELSE Becomes(Insert(roomy, k, e))

Delete(k) ==
    IF k \in DOMAIN m THEN Becomes(remove(Shard, k)) ELSE UNCHANGED pinVars

-----------------------------------------------------------------------------
PinsOf(o) == {k \in DOMAIN m : k.owner = o}

(* The map and the lists hold the same pins: the shard's list has each pin *)
(* once, and an owner's list is the shard's, reduced to that owner, in the *)
(* same order; the shard stays within its capacity and, when more than one *)
(* pin per owner is allowed, so does each owner. (With a cap of one pin    *)
(* the detached list of Insert makes the owner exceed it.)                 *)
ListsAgree ==
    /\ ToSet(lru) = DOMAIN m /\ Len(lru) = Cardinality(DOMAIN m)
    /\ \A o \in Owner : owners[o] = SelectSeq(lru, LAMBDA k : k.owner = o)
    /\ Cardinality(DOMAIN m) <= perShard
    /\ \A o \in Owner : Cardinality(PinsOf(o)) <= perOwnerCap

Behind(s, k) == {s[i] : i \in {j \in DOMAIN s : \E h \in DOMAIN s : s[h] = k /\ h < j}}
LastLive(s, k, t) == \A x \in Behind(s, k) : expired(m[x], t)
=============================================================================
