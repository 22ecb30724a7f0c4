------------------------------ MODULE KeyStore ------------------------------
(* The dynamic key registry and the store it is persisted in: the pushes   *)
(* of the key-sync service (dynamic_key.go), the writes, the retries and   *)
(* the load at startup (key_store.go), and the generations of records the  *)
(* store keeps on disk (key_store_badger.go). A write may fail and the     *)
(* router may crash between and within the steps of a write.               *)
EXTENDS Integers, Sequences, FiniteSets

CONSTANTS ID,         \* key IDs, integers: the order records are read in
          Hash,       \* hashes of the bearer tokens
          None,       \* no key, no hash
          MaxVer,     \* bound: versions key-sync pushes
          MaxGen,     \* bound: no push is taken at this generation
          Cleanup,    \* whether deleting skipped records may fail
          Budgets     \* bound: the crashes and failures of a behaviour

ASSUME KeyStoreAssumption ==
    /\ ID \subseteq Nat /\ None \notin ID \cup Hash
    /\ MaxVer \in Nat /\ MaxGen \in Nat \ {0} /\ Cleanup \in BOOLEAN

VARIABLES proc,      \* down, loading, up
          open,      \* a store is wired (it is not in memory-only mode)
          byID,      \* the registry: the hash of a key ID
          byHash,    \* and the key ID of a hash
          version,   \* version of the registry; 0 is the empty one
          store,     \* BadgerKeyStore: live generation and confirmation
          dirty, retrying, closed,   \* keyStoreState
          job,       \* the write under persistMu
          meta,      \* on disk: the meta record
          recs,      \* on disk: the key records <<generation, ID, hash>>
          maxAge,    \* input: whether snapshots can be too old
          log,       \* the pushes of key-sync so far, one per version
          revoked,   \* history: the <<ID, hash>> acknowledged pushes ended
          synced,    \* history: age of the last full replace
          budget

memVars == <<byID, byHash, version>>
flags == <<dirty, retrying, closed>>
diskVars == <<meta, recs>>
history == <<log, revoked, synced>>
vars == <<proc, open, memVars, store, flags, job, diskVars, maxAge, history, budget>>

-----------------------------------------------------------------------------
Empty == [i \in ID |-> None]
Unhashed == [h \in Hash |-> None]
Registry == {k \in [ID -> Hash \cup {None}] :
               \A i, j \in ID : k[i] = k[j] /\ k[i] # None => i = j}
Push == [kind : {"upsert"}, id : ID, hash : Hash] \cup [kind : {"delete"}, id : ID]
          \cup [kind : {"replace"}, keys : Registry]

(* Ages are told apart only by MaxAge. SavedAt is never before ConfirmedAt, *)
(* so the older of the two is ConfirmedAt.                                 *)
Age == {"never", "fresh", "old"}
Older(a) == IF a = "fresh" THEN "old" ELSE a

NoMeta == [st |-> "none", gen |-> 0, ver |-> 0, conf |-> "never"]
NoJob == [st |-> "idle", by |-> "sync", keys |-> Empty, ver |-> 0, conf |-> "never",
          id |-> None, hash |-> None]

Holds(k, h) == \E i \in ID : k[i] = h
hashIndex(k) == [h \in Hash |-> IF Holds(k, h) THEN CHOOSE i \in ID : k[i] = h ELSE None]

Gen(g) == {r \in recs : r[1] = g}
Records(g, k) == {<<g, i, k[i]>> : i \in {j \in ID : k[j] # None}}
Live == [i \in ID |-> IF \E h \in Hash : <<meta.gen, i, h>> \in recs
                        THEN CHOOSE h \in Hash : <<meta.gen, i, h>> \in recs ELSE None]

Init ==
    /\ proc = "down" /\ open = FALSE
    /\ byID = Empty /\ byHash = Unhashed /\ version = 0
    /\ store = [gen |-> 0, conf |-> "never"]
    /\ dirty = FALSE /\ retrying = FALSE /\ closed = FALSE
    /\ job = NoJob /\ meta = NoMeta /\ recs = {}
    /\ maxAge \in BOOLEAN
    /\ log = <<>> /\ revoked = {} /\ synced = "never"
    /\ budget \in Budgets

Fault == budget.faults > 0 /\ budget' = [budget EXCEPT !.faults = @ - 1]

-----------------------------------------------------------------------------
(* Mutations. The memory change and the store write of one push are made   *)
(* under persistMu, which the job stands for.                              *)

Collides(p) == p.kind = "upsert" /\ byHash[p.hash] \notin {None, p.id}

Applied(p) == CASE p.kind = "upsert" -> [byID EXCEPT ![p.id] = p.hash]
                [] p.kind = "delete" -> [byID EXCEPT ![p.id] = None]
                [] p.kind = "replace" -> p.keys

(* The hash a key had before it was rotated stops authenticating.          *)
Reindexed(p) ==
    CASE p.kind = "upsert" -> [h \in Hash |-> CASE h = p.hash -> p.id
                                                [] h # p.hash /\ h = byID[p.id] -> None
                                                [] OTHER -> byHash[h]]
      [] p.kind = "delete" -> [h \in Hash |-> IF h = byID[p.id] /\ byHash[h] = p.id
                                                THEN None ELSE byHash[h]]
      [] p.kind = "replace" -> hashIndex(p.keys)

(* A write of a whole generation, and one transaction.                     *)
Whole(by, k, v, c) ==
    [st |-> "clear", by |-> by, keys |-> k, ver |-> v, conf |-> c, id |-> None, hash |-> None]
Generation(by, k, v, c) == Whole(by, k, v, IF c = "never" THEN store.conf ELSE c)
Txn(v, i, h, c) ==
    [st |-> "txn", by |-> "sync", keys |-> Empty, ver |-> v,
     conf |-> IF c = "never" THEN store.conf ELSE c, id |-> i, hash |-> h]
Only(i, h) == [Empty EXCEPT ![i] = h]

(* A delete writes the meta record only.                                   *)
WriteKeepsRecord(p, v) ==
    IF p.kind = "replace" THEN Generation("sync", p.keys, v, "fresh")
    ELSE IF store.gen = 0 THEN Generation("sync", Applied(p), v, "never")
    ELSE IF p.kind = "upsert" THEN Txn(v, p.id, p.hash, "never") ELSE Txn(v, None, None, "never")

(* The write the store is asked for: BadgerKeyStore.Upsert, Delete, Touch  *)
(* or ReplaceAll.                                                          *)
StoreWrite(p, v) ==
    CASE p.kind = "upsert" /\ store.gen = 0 -> Generation("sync", Only(p.id, p.hash), v, "never")
      [] p.kind = "upsert" /\ store.gen > 0 -> Txn(v, p.id, p.hash, "never")
      [] p.kind = "delete" /\ store.gen = 0 -> Generation("sync", Empty, v, "never")
      [] p.kind = "delete" /\ store.gen > 0 -> Txn(v, p.id, None, "never")
      [] p.kind = "replace" /\ p.keys # byID -> Generation("sync", p.keys, v, "fresh")
      [] p.kind = "replace" /\ p.keys = byID /\ store.gen = 0 -> Generation("sync", Empty, v, "fresh")
      [] p.kind = "replace" /\ p.keys = byID /\ store.gen > 0 -> Txn(v, None, None, "fresh")

(* The next write does not repair a failed one.                            *)
persistOne(p, v) == StoreWrite(p, v)

(* After a failed write the next one rewrites the whole registry.          *)
persistLocked(p, v) ==
    IF dirty THEN Generation("sync", Applied(p), v, IF p.kind = "replace" THEN "fresh" ELSE "never")
    ELSE StoreWrite(p, v)

(* The keys a push gives, and those it ends.                               *)
Given(p) == CASE p.kind = "upsert" -> {<<p.id, p.hash>>}
              [] p.kind = "delete" -> {}
              [] p.kind = "replace" -> {r \in ID \X Hash : p.keys[r[1]] = r[2]}
Ended(p) == (IF p.kind = "replace" THEN ID \X Hash ELSE {p.id} \X Hash) \ Given(p)

Mutate(p, v) ==
    /\ byID' = Applied(p) /\ byHash' = Reindexed(p) /\ version' = v
    /\ synced' = IF p.kind = "replace" THEN "fresh" ELSE synced
    /\ revoked' = revoked \ Given(p)
    /\ IF ~open THEN UNCHANGED <<job, flags>>
       ELSE IF closed THEN dirty' = TRUE /\ UNCHANGED <<job, retrying, closed>>
       ELSE job' = persistLocked(p, v) /\ UNCHANGED flags

(* A push arrives: a new one, or again one already sent. An older version  *)
(* and a hash of another key are refused.                                  *)
Deliver ==
    /\ proc = "up" /\ job.st = "idle" /\ store.gen < MaxGen
    /\ \E v \in 1..MaxVer :
         /\ v <= Len(log) + 1 /\ v >= version
         /\ \E p \in IF v <= Len(log) THEN {log[v]} ELSE Push :
              /\ ~Collides(p) /\ Mutate(p, v)
              /\ log' = IF v <= Len(log) THEN log ELSE Append(log, p)
    /\ UNCHANGED <<proc, open, store, diskVars, maxAge, budget>>

-----------------------------------------------------------------------------
(* The store. A batch of writes or deletes that is cut short has made any  *)
(* part of its changes.                                                    *)
Between(from, to) == {(from \cap to) \cup s : s \in SUBSET ((from \ to) \cup (to \ from))}

Target == store.gen + 1
BatchTo == CASE job.st = "clear" -> recs \ Gen(Target)
             [] job.st = "batch" -> recs \cup Records(Target, job.keys)
             [] job.st = "drop" -> recs \ Gen(store.gen - 1)
             [] OTHER -> recs

Succeeds(j) ==
    /\ job' = NoJob /\ dirty' = FALSE /\ UNCHANGED <<closed, budget>>
    /\ retrying' = (retrying /\ j.by # "retry")
    /\ revoked' = IF j.by = "sync" THEN revoked \cup Ended(log[version]) ELSE revoked

(* A retry that fails is the last one.                                     *)
FailsForGood(j) ==
    /\ Fault /\ job' = NoJob /\ dirty' = TRUE /\ UNCHANGED <<closed, revoked>>
    /\ retrying' = (j.by # "retry")

Fails(j) ==
    /\ Fault /\ job' = NoJob /\ dirty' = TRUE /\ UNCHANGED <<closed, revoked>>
    /\ retrying' = TRUE

ClearGeneration ==
    /\ job.st = "clear"
    /\ recs' = BatchTo /\ job' = [job EXCEPT !.st = "batch"]
    /\ UNCHANGED <<proc, open, memVars, store, flags, meta, maxAge, history, budget>>

WriteBatch ==
    /\ job.st = "batch"
    /\ recs' = BatchTo /\ job' = [job EXCEPT !.st = "flip"]
    /\ UNCHANGED <<proc, open, memVars, store, flags, meta, maxAge, history, budget>>

FlipMeta ==
    /\ job.st = "flip"
    /\ meta' = [st |-> "ok", gen |-> Target, ver |-> job.ver, conf |-> job.conf]
    /\ store' = [gen |-> Target, conf |-> job.conf]
    /\ job' = [job EXCEPT !.st = "drop"]
    /\ UNCHANGED <<proc, open, memVars, flags, recs, maxAge, history, budget>>

(* The previous generation is dropped, and the write is done.              *)
DropGeneration ==
    /\ job.st = "drop" /\ job.by # "load"
    /\ recs' = BatchTo /\ Succeeds(job)
    /\ UNCHANGED <<proc, open, memVars, store, meta, maxAge, log, synced>>

(* One transaction: a record, and the meta record with it.                 *)
Transaction ==
    /\ job.st = "txn"
    /\ recs' = IF job.id = None THEN recs
               ELSE {r \in recs : ~(r[1] = store.gen /\ r[2] = job.id)}
                      \cup (IF job.hash = None THEN {} ELSE {<<store.gen, job.id, job.hash>>})
    /\ meta' = [meta EXCEPT !.ver = job.ver, !.conf = job.conf]
    /\ store' = [store EXCEPT !.conf = job.conf]
    /\ Succeeds(job)
    /\ UNCHANGED <<proc, open, memVars, maxAge, log, synced>>

WriteFails ==
    /\ job.st # "idle" /\ job.by # "load" /\ Fails(job)
    /\ recs' \in Between(recs, BatchTo)
    /\ UNCHANGED <<proc, open, memVars, store, meta, maxAge, log, synced>>

(* The retry counts as a confirmation.                                     *)
retryConfirms ==
    /\ proc = "up" /\ retrying /\ job.st = "idle"
    /\ IF closed \/ ~dirty THEN retrying' = FALSE /\ UNCHANGED job
       ELSE job' = Generation("retry", byID, version, "fresh") /\ UNCHANGED retrying
    /\ UNCHANGED <<proc, open, memVars, store, dirty, closed, diskVars, maxAge, history, budget>>

(* The background retry.                                                   *)
retryLoop ==
    /\ proc = "up" /\ retrying /\ job.st = "idle"
    /\ IF closed \/ ~dirty THEN retrying' = FALSE /\ UNCHANGED job
       ELSE job' = Generation("retry", byID, version, "never") /\ UNCHANGED retrying
    /\ UNCHANGED <<proc, open, memVars, store, dirty, closed, diskVars, maxAge, history, budget>>

-----------------------------------------------------------------------------
(* Startup, shutdown and crashes.                                          *)

(* A snapshot that was never confirmed, or too long ago, is not used.      *)
TooOld == maxAge /\ meta.conf # "fresh"

(* What is left of a snapshot without the records refused: in the order of *)
(* the IDs, the first key of a hash.                                       *)
Kept(k, refused) ==
    [i \in ID |-> IF i \notin refused /\ \A j \in ID : j < i /\ j \notin refused => k[j] # k[i]
                    THEN k[i] ELSE None]

Start ==
    /\ proc = "down" /\ proc' = "loading" /\ open' = TRUE
    /\ UNCHANGED <<memVars, store, flags, job, diskVars, maxAge, history, budget>>

(* BadgerKeyStore.Load on a store with no meta record.                     *)
LoadFresh ==
    /\ proc = "loading" /\ job.st = "idle" /\ meta.st = "none"
    /\ proc' = "up" /\ store' = [gen |-> 0, conf |-> "never"]
    /\ UNCHANGED <<open, memVars, flags, job, diskVars, maxAge, history, budget>>

(* The snapshot is discarded: Reset writes an empty generation without a   *)
(* confirmation.                                                           *)
LoadDiscard ==
    /\ proc = "loading" /\ job.st = "idle"
    /\ \/ meta.st = "bad" /\ store' = [gen |-> 0, conf |-> "never"] /\ recs' = recs
       \/ /\ meta.st = "ok" /\ TooOld /\ store' = [gen |-> meta.gen, conf |-> "never"]
          /\ recs' = Gen(meta.gen)
    /\ job' = Whole("load", Empty, 0, "never")
    /\ UNCHANGED <<proc, open, memVars, flags, meta, maxAge, history, budget>>

Discarded ==
    /\ job.st = "drop" /\ job.by = "load"
    /\ recs' = BatchTo /\ job' = NoJob /\ proc' = "up" /\ synced' = "never"
    /\ UNCHANGED <<open, memVars, store, flags, meta, maxAge, log, revoked, budget>>

(* The records of the live generation, without those that do not verify or *)
(* decode, have expired or are not admitted: they are deleted.             *)
LoadRestore ==
    /\ proc = "loading" /\ job.st = "idle" /\ meta.st = "ok" /\ ~TooOld
    /\ \E refused \in SUBSET {i \in ID : Live[i] # None} :
         LET kept == Kept(Live, refused)
             skipped == Records(meta.gen, Live) \ Records(meta.gen, kept)
         IN /\ IF refused = {} THEN UNCHANGED budget ELSE Fault
            /\ byID' = kept /\ byHash' = hashIndex(kept)
            /\ \/ recs' = Gen(meta.gen) \ skipped
               \/ Cleanup /\ recs' \in Between(Gen(meta.gen), Gen(meta.gen) \ skipped)
    /\ version' = meta.ver
    /\ store' = [gen |-> meta.gen, conf |-> meta.conf]
    /\ proc' = "up"
    /\ UNCHANGED <<open, flags, job, meta, maxAge, history>>

(* The store cannot be opened, read or reset: memory-only, and empty.      *)
DegradeKeyStore ==
    /\ proc = "loading" /\ Fault
    /\ proc' = "up" /\ open' = FALSE /\ job' = NoJob
    /\ recs' \in Between(recs, BatchTo)
    /\ UNCHANGED <<memVars, store, flags, meta, maxAge, history>>

CloseKeyStore ==
    /\ proc = "up" /\ open /\ ~closed /\ job.st = "idle"
    /\ closed' = TRUE
    /\ UNCHANGED <<proc, open, memVars, store, dirty, retrying, job, diskVars, maxAge, history, budget>>

Forget ==
    /\ proc' = "down" /\ open' = FALSE
    /\ byID' = Empty /\ byHash' = Unhashed /\ version' = 0
    /\ store' = [gen |-> 0, conf |-> "never"]
    /\ dirty' = FALSE /\ retrying' = FALSE /\ closed' = FALSE /\ job' = NoJob
    /\ UNCHANGED <<maxAge, history>>

(* A crash, in any step.                                                   *)
Crash ==
    /\ proc # "down" /\ Fault /\ Forget
    /\ recs' \in Between(recs, BatchTo) /\ UNCHANGED meta

(* The next start has another secret, or is another release: the meta      *)
(* record does not verify or has another schema.                           *)
MetaUnusable ==
    /\ proc = "down" /\ meta.st = "ok" /\ Fault
    /\ meta' = [meta EXCEPT !.st = "bad"]
    /\ UNCHANGED <<proc, open, memVars, store, flags, job, recs, maxAge, history>>

TimePasses ==
    /\ budget.time > 0 /\ budget' = [budget EXCEPT !.time = @ - 1]
    /\ meta' = [meta EXCEPT !.conf = Older(@)] /\ store' = [store EXCEPT !.conf = Older(@)]
    /\ job' = [job EXCEPT !.conf = Older(@)] /\ synced' = Older(synced)
    /\ UNCHANGED <<proc, open, memVars, flags, recs, maxAge, log, revoked>>

Load == Start \/ LoadFresh \/ LoadDiscard \/ Discarded \/ LoadRestore
Write == ClearGeneration \/ WriteBatch \/ FlipMeta \/ DropGeneration \/ Transaction

Next == \/ Deliver \/ Write \/ WriteFails \/ retryLoop
        \/ Load \/ DegradeKeyStore \/ CloseKeyStore \/ Crash \/ MetaUnusable \/ TimePasses

Spec == Init /\ [][Next]_vars

(* The router runs: writes and loads go on, and the retry timer fires.     *)
Fairness == WF_vars(Write) /\ WF_vars(Load) /\ WF_vars(retryLoop)

FairSpec == Spec /\ Fairness

-----------------------------------------------------------------------------
(* Every variable has its type.                                            *)
TypeOK ==
    /\ proc \in {"down", "loading", "up"} /\ open \in BOOLEAN
    /\ byID \in Registry /\ byHash \in [Hash -> ID \cup {None}] /\ version \in 0..MaxVer
    /\ store.gen \in Nat /\ store.conf \in Age
    /\ dirty \in BOOLEAN /\ retrying \in BOOLEAN /\ closed \in BOOLEAN
    /\ job.st \in {"idle", "clear", "batch", "flip", "drop", "txn"}
    /\ meta.st \in {"none", "ok", "bad"} /\ meta.conf \in Age
    /\ \A r \in recs : r[1] \in Nat /\ r[2] \in ID /\ r[3] \in Hash

(* A push that was acknowledged is not undone by a crash: a key or hash it *)
(* ended does not authenticate until it is pushed again, whatever a        *)
(* restart restores (key_store.go: no "revocation that would come back     *)
(* after a restart"). Keys authenticate by their hash, and the index of    *)
(* hashes is that of the registry.                                         *)
RevokedStaysOut ==
    /\ byHash = hashIndex(byID)
    /\ \A i \in ID : <<i, byID[i]>> \notin revoked

(* Unless a failed write is still to be repaired, the store holds the      *)
(* registry: what a crash after an acknowledgement would restore.          *)
View == IF meta.st = "ok" THEN [keys |-> Live, ver |-> meta.ver] ELSE [keys |-> Empty, ver |-> 0]
StoreCurrent == proc = "up" /\ open /\ job.st = "idle" /\ ~dirty
                  => View = [keys |-> byID, ver |-> version]

(* A stored confirmation is never younger than the last full replace from  *)
(* key-sync, so a snapshot no replace confirmed within the max age is not  *)
(* restored (KeyStoreLoadOptions.MaxAge).                                  *)
ConfirmationTrue ==
    meta.st = "ok" => /\ meta.conf = "fresh" => synced = "fresh"
                      /\ meta.conf = "old" => synced # "never"

(* A failed write is repaired while the router runs, by the retry or by a  *)
(* later push (retryLoop).                                                 *)
Repaired == dirty ~> ~dirty \/ closed \/ proc # "up"

(* The store keeps the promise of a cache that changes as a whole.         *)
Cache == INSTANCE KeyCache WITH running <- proc = "up", keys <- byID, disk <- View
CacheSpec == Cache!Spec
=============================================================================
