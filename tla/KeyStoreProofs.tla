--------------------------- MODULE KeyStoreProofs ---------------------------
(***************************************************************************)
(* For any keys, pushes and generations, and any crashes and failed writes *)
(* between them: a stored confirmation is never younger than the last full *)
(* replace; and, while the records skipped by a load can be deleted, the   *)
(* store implements KeyCache and no acknowledged revocation is undone.     *)
(***************************************************************************)
EXTENDS KeyStore, TLAPS

USE ZenonT(10), SMTT(60)

KeySet == [ID -> Hash \cup {None}]
Stores == [gen : Nat, conf : Age]
Metas == [st : {"none", "ok", "bad"}, gen : Nat, ver : Nat, conf : Age]
Jobs == [st : {"idle", "clear", "batch", "flip", "drop", "txn"},
         by : {"sync", "retry", "load"}, keys : KeySet, ver : Nat, conf : Age,
         id : ID \cup {None}, hash : Hash \cup {None}]

Shape ==
    /\ proc \in {"down", "loading", "up"} /\ open \in BOOLEAN
    /\ byID \in KeySet /\ version \in Nat
    /\ store \in Stores /\ job \in Jobs /\ meta \in Metas
    /\ dirty \in BOOLEAN /\ retrying \in BOOLEAN /\ closed \in BOOLEAN
    /\ log \in Seq(Push) /\ synced \in Age

-----------------------------------------------------------------------------
(* Age c is not that of a replace younger than the last one.               *)
Backed(c) == (c = "fresh" => synced = "fresh") /\ (c = "old" => synced # "never")

(* Every copy of the confirmation is backed, not only the one on disk, and *)
(* a load that gives the snapshot up writes none.                          *)
Confirmed ==
    /\ Backed(store.conf) /\ Backed(job.conf) /\ (meta.st = "ok" => Backed(meta.conf))
    /\ job.st # "idle" /\ job.by = "load" => job.conf = "never" /\ store.conf = "never"
    /\ job.st = "drop" /\ job.by = "load" => meta.conf = "never"

ConfInv == Shape /\ Confirmed

-----------------------------------------------------------------------------
(* What the records R hold at generation g.                                *)
LiveOf(R, g) ==
    [i \in ID |-> IF \E h \in Hash : <<g, i, h>> \in R
                    THEN CHOOSE h \in Hash : <<g, i, h>> \in R ELSE None]
RecordsAre(R, g, k) == \A i \in ID, h \in Hash : <<g, i, h>> \in R <=> k[i] = h
OneEach(R, g) ==
    \A i \in ID : \A a, b \in Hash : <<g, i, a>> \in R /\ <<g, i, b>> \in R => a = b

SameRecords(R, S, g) == \A i \in ID, h \in Hash : <<g, i, h>> \in R <=> <<g, i, h>> \in S

(* A write belongs to a router that serves, or is the reset of one that    *)
(* loads; the retry loop runs only with a store.                           *)
Process ==
    /\ proc # "up" => byID = Empty /\ version = 0 /\ ~dirty /\ ~retrying
    /\ proc = "loading" => open
    /\ job.st # "idle" => open /\ proc # "down" /\ (proc = "loading" <=> job.by = "load")
    /\ ~open => ~retrying

(* The store works on the generation the meta record names.                *)
Attached ==
    /\ meta.st = "ok" => meta.gen > 0
    /\ open /\ (proc = "up" \/ job.st # "idle")
         => store.gen = IF meta.st = "ok" THEN meta.gen ELSE 0

(* The disk holds the registry in memory.                                  *)
Saved == IF meta.st = "ok" THEN meta.ver = version /\ RecordsAre(recs, meta.gen, byID)
                           ELSE version = 0 /\ byID = Empty

(* How far a write is. The new generation is complete before the meta      *)
(* record names it, and a transaction makes the difference between the     *)
(* disk and the memory.                                                    *)
Written ==
    /\ job.st \in {"clear", "batch", "flip"} => job.keys = byID /\ job.ver = version
    /\ job.st = "batch" => \A i \in ID, h \in Hash : <<Target, i, h>> \notin recs
    /\ job.st = "flip" => RecordsAre(recs, Target, byID)
    /\ job.st = "drop" => meta.st = "ok" /\ Saved
    /\ job.st = "txn" =>
         /\ meta.st = "ok" /\ job.ver = version /\ job.by = "sync"
         /\ \A i \in ID, h \in Hash :
              byID[i] = h <=> IF i = job.id THEN job.hash = h ELSE <<meta.gen, i, h>> \in recs

Stored ==
    /\ meta.st = "ok" => OneEach(recs, meta.gen)
    /\ proc = "up" /\ open /\ job.st = "idle" /\ ~dirty => Saved

CacheInv == Shape /\ Process /\ Attached /\ Written /\ Stored

-----------------------------------------------------------------------------
(* byHash is the inverse of byID.                                          *)
Indexed(b, k) == \A i \in ID, h \in Hash : b[h] = i <=> k[i] = h

(* Nothing revoked is in memory or on disk, and the push being written     *)
(* ends nothing that memory still holds.                                   *)
Revocations ==
    /\ byHash \in [Hash -> ID \cup {None}] /\ byID \in Registry /\ Indexed(byHash, byID)
    /\ \A i \in ID : <<i, byID[i]>> \notin revoked
    /\ revoked \subseteq ID \X Hash
    /\ meta.st = "ok" => \A i \in ID, h \in Hash : <<meta.gen, i, h>> \in recs => <<i, h>> \notin revoked
    /\ job.st # "idle" /\ job.by = "sync" =>
         /\ version \in 1..Len(log)
         /\ \A i \in ID : <<i, byID[i]>> \notin Ended(log[version])
KeyInv == CacheInv /\ Revocations

-----------------------------------------------------------------------------
(* Shapes of pushes and writes.                                            *)

LEMMA PushKinds ==
  ASSUME NEW p \in Push
  PROVE  \/ p.kind = "upsert" /\ p.id \in ID /\ p.hash \in Hash
         \/ p.kind = "delete" /\ p.id \in ID
         \/ p.kind = "replace" /\ p.keys \in Registry
  BY DEF Push

LEMMA RegistryKeys == Registry \subseteq KeySet /\ Empty \in Registry
  BY DEF Registry, KeySet, Empty

LEMMA NoJobShape == NoJob \in Jobs
  BY RegistryKeys DEF NoJob, Jobs, Age

LEMMA AppliedKeys ==
  ASSUME Shape, NEW p \in Push
  PROVE  Applied(p) \in KeySet
  BY PushKinds, RegistryKeys DEF Shape, Applied, KeySet

(* A write of a whole generation, and one of a record.                     *)
LEMMA WholeShape ==
  ASSUME NEW b \in {"sync", "retry", "load"}, NEW k \in KeySet, NEW v \in Nat, NEW c \in Age
  PROVE  Whole(b, k, v, c) \in Jobs
  BY DEF Whole, Jobs

LEMMA GenerationShape ==
  ASSUME Shape, NEW b \in {"sync", "retry", "load"}, NEW k \in KeySet, NEW v \in Nat, NEW c \in Age
  PROVE  Generation(b, k, v, c) \in Jobs
  <1>1. (IF c = "never" THEN store.conf ELSE c) \in Age
    BY DEF Shape, Stores
  <1> QED
    BY <1>1, WholeShape DEF Generation

LEMMA TxnShape ==
  ASSUME Shape, NEW v \in Nat, NEW i \in ID \cup {None}, NEW h \in Hash \cup {None}, NEW c \in Age
  PROVE  Txn(v, i, h, c) \in Jobs
  <1>1. (IF c = "never" THEN store.conf ELSE c) \in Age
    BY DEF Shape, Stores
  <1> QED
    BY <1>1, RegistryKeys DEF Txn, Jobs

LEMMA PersistShape ==
  ASSUME Shape, NEW p \in Push, NEW v \in Nat
  PROVE  persistLocked(p, v) \in Jobs
  <1>1. "never" \in Age /\ "fresh" \in Age /\ "sync" \in {"sync", "retry", "load"}
    BY DEF Age
  <1>2. Applied(p) \in KeySet /\ Empty \in KeySet
    BY AppliedKeys, RegistryKeys
  <1>3. CASE dirty
    BY <1>1, <1>2, <1>3, GenerationShape DEF persistLocked
  <1>4. CASE ~dirty
    <2>1. StoreWrite(p, v) \in Jobs
      <3>0. store.gen \in Nat
        BY DEF Shape, Stores
      <3>1. CASE p.kind = "upsert" /\ p.id \in ID /\ p.hash \in Hash
        <4>1. Only(p.id, p.hash) \in KeySet
          BY <3>1 DEF Only, Empty, KeySet
        <4>2. Generation("sync", Only(p.id, p.hash), v, "never") \in Jobs /\ Txn(v, p.id, p.hash, "never") \in Jobs
          BY <1>1, <3>1, <4>1, GenerationShape, TxnShape
        <4> QED
          BY SMTT(60), <3>0, <3>1, <4>2 DEF StoreWrite
      <3>2. CASE p.kind = "delete" /\ p.id \in ID
        <4>1. Generation("sync", Empty, v, "never") \in Jobs /\ Txn(v, p.id, None, "never") \in Jobs
          BY <1>1, <1>2, <3>2, GenerationShape, TxnShape
        <4> QED
          BY SMTT(60), <3>0, <3>2, <4>1 DEF StoreWrite
      <3>3. CASE p.kind = "replace" /\ p.keys \in Registry
        <4>1. /\ Generation("sync", Empty, v, "fresh") \in Jobs
              /\ Generation("sync", p.keys, v, "fresh") \in Jobs
              /\ Txn(v, None, None, "fresh") \in Jobs
          BY <1>1, <1>2, <3>3, RegistryKeys, GenerationShape, TxnShape
        <4> QED
          BY SMTT(60), <3>0, <3>3, <4>1 DEF StoreWrite
      <3> QED
        BY <3>1, <3>2, <3>3, PushKinds
    <2> QED
      BY <1>4, <2>1 DEF persistLocked
  <1> QED
    BY <1>3, <1>4 DEF Shape

(* A push that arrives is one of the log, in which it is number v.         *)
LEMMA DeliverEffect ==
  ASSUME Shape, Deliver
  PROVE  \E p \in Push, v \in Nat :
           /\ v >= version /\ ~Collides(p) /\ Mutate(p, v)
           /\ log' \in Seq(Push) /\ v \in 1..Len(log') /\ log'[v] = p
           /\ proc = "up" /\ job.st = "idle"
           /\ UNCHANGED <<proc, open, store, meta, recs>>
  <1>1. PICK v \in 1..MaxVer :
          /\ v <= Len(log) + 1 /\ v >= version
          /\ \E p \in IF v <= Len(log) THEN {log[v]} ELSE Push :
               /\ ~Collides(p) /\ Mutate(p, v)
               /\ log' = IF v <= Len(log) THEN log ELSE Append(log, p)
    BY DEF Deliver
  <1>2. PICK p \in IF v <= Len(log) THEN {log[v]} ELSE Push :
               /\ ~Collides(p) /\ Mutate(p, v)
               /\ log' = IF v <= Len(log) THEN log ELSE Append(log, p)
    BY <1>1
  <1>3. log \in Seq(Push) /\ v \in Nat /\ v >= 1
    BY SMTT(60), KeyStoreAssumption, <1>1 DEF Shape
  <1>4. p \in Push /\ log' \in Seq(Push) /\ v \in 1..Len(log') /\ log'[v] = p
    <2>1. CASE v <= Len(log)
      BY SMTT(60), <1>2, <1>3, <2>1
    <2>2. CASE ~(v <= Len(log))
      <3>1. v = Len(log) + 1
        BY SMTT(60), <1>1, <1>3, <2>2
      <3> QED
        BY SMTT(60), <1>2, <1>3, <2>2, <3>1
    <2> QED
      BY <2>1, <2>2
  <1>5. proc = "up" /\ job.st = "idle" /\ UNCHANGED <<proc, open, store, meta, recs>>
    BY DEF Deliver, diskVars
  <1> QED
    BY <1>1, <1>2, <1>3, <1>4, <1>5

LEMMA ShapeInit == Init => Shape
  <1> SUFFICES ASSUME Init PROVE Shape
    OBVIOUS
  <1>1. proc = "down" /\ open = FALSE /\ dirty = FALSE /\ retrying = FALSE /\ closed = FALSE
    BY DEF Init
  <1>2. byID \in KeySet /\ version \in Nat /\ job \in Jobs
    BY RegistryKeys, NoJobShape DEF Init
  <1>3. store \in Stores
    BY DEF Init, Stores, Age
  <1>4. meta \in Metas
    BY DEF Init, NoMeta, Metas, Age
  <1>5. log \in Seq(Push) /\ synced \in Age
    BY SMTT(60) DEF Init, Age
  <1> QED
    BY <1>1, <1>2, <1>3, <1>4, <1>5 DEF Shape

LEMMA KeptKeys ==
  ASSUME NEW k \in KeySet, NEW s
  PROVE  Kept(k, s) \in KeySet
  BY DEF Kept, KeySet

LEMMA LiveKeys == Live \in KeySet
  BY DEF Live, KeySet

LEMMA ShapeStep == Shape /\ [Next]_vars => Shape'
  <1> SUFFICES ASSUME Shape, [Next]_vars PROVE Shape'
    OBVIOUS
  <1> USE DEF memVars, flags, diskVars, history
  <1>j. NoJob \in Jobs /\ Empty \in KeySet /\ "never" \in Age /\ "fresh" \in Age /\ "sync" \in {"sync", "retry", "load"}
    BY NoJobShape, RegistryKeys DEF Age
  <1>1. CASE Deliver
    <2>1. PICK p \in Push, v \in Nat :
             /\ v >= version /\ ~Collides(p) /\ Mutate(p, v)
             /\ log' \in Seq(Push) /\ v \in 1..Len(log') /\ log'[v] = p
             /\ proc = "up" /\ job.st = "idle"
             /\ UNCHANGED <<proc, open, store, meta, recs>>
      BY <1>1, DeliverEffect
    <2>2. byID' \in KeySet /\ version' \in Nat
      BY <2>1, AppliedKeys DEF Mutate
    <2>3. job' \in Jobs /\ dirty' \in BOOLEAN /\ retrying' \in BOOLEAN /\ closed' \in BOOLEAN
      BY <2>1, PersistShape DEF Mutate, Shape
    <2>4. synced' \in Age
      BY <1>j, <2>1 DEF Mutate, Shape
    <2> QED
      BY <2>1, <2>2, <2>3, <2>4 DEF Shape
  <1>2. CASE ClearGeneration
    BY <1>2 DEF ClearGeneration, Shape, Jobs
  <1>3. CASE WriteBatch
    BY <1>3 DEF WriteBatch, Shape, Jobs
  <1>4. CASE FlipMeta
    <2>1. meta' \in Metas /\ store' \in Stores
      BY SMTT(60), <1>4 DEF FlipMeta, Shape, Jobs, Stores, Metas, Target
    <2>2. job' \in Jobs
      BY <1>4 DEF FlipMeta, Shape, Jobs
    <2> QED
      BY <1>4, <2>1, <2>2 DEF FlipMeta, Shape
  <1>5. CASE DropGeneration
    BY <1>5, <1>j DEF DropGeneration, Succeeds, Shape
  <1>6. CASE Transaction
    <2>1. meta' \in Metas /\ store' \in Stores
      BY <1>6 DEF Transaction, Shape, Jobs, Stores, Metas
    <2> QED
      BY <1>6, <1>j, <2>1 DEF Transaction, Succeeds, Shape
  <1>7. CASE WriteFails
    BY <1>7, <1>j DEF WriteFails, Fails, Shape
  <1>8. CASE retryLoop
    <2>1. Generation("retry", byID, version, "never") \in Jobs
      BY <1>j, GenerationShape DEF Shape
    <2> QED
      BY <1>8, <2>1 DEF retryLoop, Shape
  <1>9. CASE Start
    BY <1>9 DEF Start, Shape
  <1>10. CASE LoadFresh
    BY <1>10, <1>j DEF LoadFresh, Shape, Stores
  <1>11. CASE LoadDiscard
    <2>1. job' \in Jobs
      BY <1>11, <1>j, WholeShape DEF LoadDiscard
    <2>2. store' \in Stores
      BY SMTT(60), <1>11, <1>j DEF LoadDiscard, Shape, Stores, Metas
    <2> QED
      BY <1>11, <2>1, <2>2 DEF LoadDiscard, Shape
  <1>12. CASE Discarded
    BY <1>12, <1>j DEF Discarded, Shape
  <1>13. CASE LoadRestore
    <2>1. byID' \in KeySet
      BY <1>13, KeptKeys, LiveKeys DEF LoadRestore
    <2>2. version' \in Nat /\ store' \in Stores
      BY <1>13 DEF LoadRestore, Shape, Metas, Stores
    <2> QED
      BY <1>13, <2>1, <2>2 DEF LoadRestore, Shape
  <1>14. CASE DegradeKeyStore
    BY <1>14, <1>j DEF DegradeKeyStore, Shape
  <1>15. CASE CloseKeyStore
    BY <1>15 DEF CloseKeyStore, Shape
  <1>16. CASE Crash
    BY <1>16, <1>j DEF Crash, Forget, Shape, Stores
  <1>17. CASE MetaUnusable
    BY <1>17 DEF MetaUnusable, Shape, Metas
  <1>18. CASE TimePasses
    <2>1. /\ meta' = [meta EXCEPT !.conf = Older(@)] /\ store' = [store EXCEPT !.conf = Older(@)]
          /\ job' = [job EXCEPT !.conf = Older(@)] /\ synced' = Older(synced)
          /\ UNCHANGED <<proc, open, byID, version, dirty, retrying, closed, log>>
      BY <1>18 DEF TimePasses
    <2>2. \A a \in Age : Older(a) \in Age
      BY DEF Age, Older
    <2>3. meta' \in Metas /\ store' \in Stores
      BY <2>1, <2>2 DEF Shape, Metas, Stores
    <2>4. job' \in Jobs /\ synced' \in Age
      BY <2>1, <2>2 DEF Shape, Jobs
    <2> QED
      BY <2>1, <2>3, <2>4 DEF Shape
  <1>19. CASE UNCHANGED vars
    BY <1>19 DEF vars, Shape
  <1> QED
    BY <1>1, <1>2, <1>3, <1>4, <1>5, <1>6, <1>7, <1>8, <1>9, <1>10, <1>11, <1>12, <1>13, <1>14,
       <1>15, <1>16, <1>17, <1>18, <1>19 DEF Next, Write, Load

(* The write of a push: its confirmation is new only if it is a replace.   *)
LEMMA PersistFields ==
  ASSUME Shape, NEW p \in Push, NEW v \in Nat
  PROVE  LET j == persistLocked(p, v)
         IN  /\ j.by = "sync" /\ j.ver = v /\ j.st \in {"clear", "txn"}
             /\ j.conf = IF p.kind = "replace" THEN "fresh" ELSE store.conf
  <1>1. \A k, c : LET j == Generation("sync", k, v, c)
                  IN  /\ j.by = "sync" /\ j.ver = v /\ j.st = "clear"
                      /\ j.conf = IF c = "never" THEN store.conf ELSE c
    BY DEF Generation, Whole
  <1>2. \A i, h, c : LET j == Txn(v, i, h, c)
                     IN  /\ j.by = "sync" /\ j.ver = v /\ j.st = "txn"
                         /\ j.conf = IF c = "never" THEN store.conf ELSE c
    BY DEF Txn
  <1>3. store.gen \in Nat
    BY DEF Shape, Stores
  <1>4. CASE dirty
    BY <1>1, <1>4 DEF persistLocked
  <1>5. CASE ~dirty
    <2>1. persistLocked(p, v) = StoreWrite(p, v)
      BY <1>5 DEF persistLocked
    <2>2. CASE p.kind = "upsert"
      BY SMTT(60), <1>1, <1>2, <1>3, <2>1, <2>2 DEF StoreWrite
    <2>3. CASE p.kind = "delete"
      BY SMTT(60), <1>1, <1>2, <1>3, <2>1, <2>3 DEF StoreWrite
    <2>4. CASE p.kind = "replace"
      BY SMTT(60), <1>1, <1>2, <1>3, <2>1, <2>4 DEF StoreWrite
    <2> QED
      BY <2>2, <2>3, <2>4, PushKinds
  <1> QED
    BY <1>4, <1>5 DEF Shape

LEMMA ConfirmedInit == Init => Confirmed
  BY SMTT(60) DEF Init, Confirmed, Backed, NoJob, NoMeta

LEMMA ConfirmedStep == ConfInv /\ [Next]_vars => Confirmed'
  <1> SUFFICES ASSUME Shape, Confirmed, [Next]_vars PROVE Confirmed'
    BY DEF ConfInv
  <1> USE DEF memVars, flags, diskVars, history
  <1>j. NoJob.st = "idle" /\ NoJob.conf = "never"
    BY DEF NoJob
  <1>1. CASE Deliver
    <2>1. PICK p \in Push, v \in Nat :
             /\ v >= version /\ ~Collides(p) /\ Mutate(p, v)
             /\ log' \in Seq(Push) /\ v \in 1..Len(log') /\ log'[v] = p
             /\ proc = "up" /\ job.st = "idle"
             /\ UNCHANGED <<proc, open, store, meta, recs>>
      BY <1>1, DeliverEffect
    <2>2. synced' = IF p.kind = "replace" THEN "fresh" ELSE synced
      BY <2>1 DEF Mutate
    <2>3. \A c \in Age : Backed(c) => Backed(c)'
      BY <2>2 DEF Backed, Age
    <2>4. Backed(store.conf)' /\ (meta.st = "ok" => Backed(meta.conf))'
      BY <2>1, <2>3 DEF Confirmed, Shape, Stores, Metas
    <2>5. CASE job' = job
      BY <2>1, <2>3, <2>4, <2>5 DEF Confirmed, Shape, Jobs
    <2>6. CASE job' = persistLocked(p, v)
      <3>1. job'.by = "sync" /\ job'.conf = IF p.kind = "replace" THEN "fresh" ELSE store.conf
        BY <2>6, PersistFields
      <3>2. Backed(job.conf)'
        BY <2>1, <2>2, <2>4, <3>1 DEF Backed
      <3> QED
        BY <2>4, <3>1, <3>2 DEF Confirmed
    <2> QED
      BY <2>1, <2>5, <2>6 DEF Mutate
  <1>2. CASE ClearGeneration
    BY <1>2 DEF ClearGeneration, Confirmed, Backed, Shape, Jobs
  <1>3. CASE WriteBatch
    BY <1>3 DEF WriteBatch, Confirmed, Backed, Shape, Jobs
  <1>4. CASE FlipMeta
    <2>1. /\ meta'.conf = job.conf /\ store'.conf = job.conf /\ synced' = synced
          /\ job'.conf = job.conf /\ job'.st = "drop" /\ job'.by = job.by /\ job.st # "idle"
      BY <1>4 DEF FlipMeta, Shape, Jobs
    <2> QED
      BY <2>1 DEF Confirmed, Backed
  <1>5. CASE DropGeneration
    <2>1. UNCHANGED <<store, meta, synced>> /\ job' = NoJob
      BY <1>5 DEF DropGeneration, Succeeds
    <2> QED
      BY <1>j, <2>1 DEF Confirmed, Backed
  <1>6. CASE Transaction
    <2>1. meta'.conf = job.conf /\ store'.conf = job.conf /\ synced' = synced /\ job' = NoJob
      BY <1>6 DEF Transaction, Succeeds, Shape, Metas, Stores
    <2> QED
      BY <1>j, <2>1 DEF Confirmed, Backed
  <1>7. CASE WriteFails
    <2>1. UNCHANGED <<store, meta, synced>> /\ job' = NoJob
      BY <1>7 DEF WriteFails, Fails
    <2> QED
      BY <1>j, <2>1 DEF Confirmed, Backed
  <1>8. CASE retryLoop
    <2>1. UNCHANGED <<store, meta, synced>>
      BY <1>8 DEF retryLoop
    <2>2. job' = job \/ (job'.by = "retry" /\ job'.conf = store.conf)
      <3>1. LET g == Generation("retry", byID, version, "never") IN g.by = "retry" /\ g.conf = store.conf
        BY DEF Generation, Whole
      <3>2. job' \in {job, Generation("retry", byID, version, "never")}
        BY <1>8 DEF retryLoop
      <3> QED
        BY <3>1, <3>2
    <2> QED
      BY <2>1, <2>2 DEF Confirmed, Backed
  <1>9. CASE Start
    BY <1>9 DEF Start, Confirmed, Backed
  <1>10. CASE LoadFresh
    BY <1>10 DEF LoadFresh, Confirmed, Backed
  <1>11. CASE LoadDiscard
    <2>1. /\ store'.conf = "never" /\ job'.conf = "never" /\ job'.st = "clear"
          /\ meta' = meta /\ synced' = synced
      BY SMTT(60), <1>11 DEF LoadDiscard, Whole
    <2> QED
      BY <2>1 DEF Confirmed, Backed
  <1>12. CASE Discarded
    <2>1. UNCHANGED <<store, meta>> /\ job' = NoJob /\ job.st = "drop" /\ job.by = "load"
      BY <1>12 DEF Discarded
    <2> QED
      BY <1>j, <2>1 DEF Confirmed, Backed
  <1>13. CASE LoadRestore
    <2>1. store'.conf = meta.conf /\ meta.st = "ok" /\ UNCHANGED <<job, meta, synced>> /\ job.st = "idle"
      BY <1>13 DEF LoadRestore
    <2> QED
      BY <2>1 DEF Confirmed, Backed
  <1>14. CASE DegradeKeyStore
    <2>1. UNCHANGED <<store, meta, synced>> /\ job' = NoJob
      BY <1>14 DEF DegradeKeyStore
    <2> QED
      BY <1>j, <2>1 DEF Confirmed, Backed
  <1>15. CASE CloseKeyStore
    BY <1>15 DEF CloseKeyStore, Confirmed, Backed
  <1>16. CASE Crash
    <2>1. UNCHANGED <<meta, synced>> /\ job' = NoJob /\ store'.conf = "never"
      BY <1>16 DEF Crash, Forget
    <2> QED
      BY <1>j, <2>1 DEF Confirmed, Backed
  <1>17. CASE MetaUnusable
    <2>1. UNCHANGED <<store, job, synced>> /\ meta'.st = "bad" /\ meta'.conf = meta.conf
      BY <1>17 DEF MetaUnusable, Shape, Metas
    <2> QED
      BY <2>1 DEF Confirmed, Backed
  <1>18. CASE TimePasses
    <2>1. /\ meta' = [meta EXCEPT !.conf = Older(@)] /\ store' = [store EXCEPT !.conf = Older(@)]
          /\ job' = [job EXCEPT !.conf = Older(@)] /\ synced' = Older(synced)
      BY <1>18 DEF TimePasses
    <2>2. /\ meta'.st = meta.st /\ meta'.conf = Older(meta.conf) /\ store'.conf = Older(store.conf)
          /\ job'.st = job.st /\ job'.by = job.by /\ job'.conf = Older(job.conf)
      BY <2>1 DEF Shape, Metas, Stores, Jobs
    <2>3. \A c \in Age : Backed(c) => Backed(Older(c))'
      BY <2>1 DEF Backed, Older, Shape, Age
    <2>4. meta.conf \in Age /\ store.conf \in Age /\ job.conf \in Age /\ Older("never") = "never"
      BY DEF Shape, Metas, Stores, Jobs, Older
    <2> QED
      BY <2>2, <2>3, <2>4 DEF Confirmed, Backed
  <1>19. CASE UNCHANGED vars
    BY <1>19 DEF vars, Confirmed, Backed
  <1> QED
    BY <1>1, <1>2, <1>3, <1>4, <1>5, <1>6, <1>7, <1>8, <1>9, <1>10, <1>11, <1>12, <1>13, <1>14,
       <1>15, <1>16, <1>17, <1>18, <1>19 DEF Next, Write, Load

(* A snapshot is restored only on the strength of a full replace: neither  *)
(* a retry, nor a reset, nor a transaction makes a stored confirmation     *)
(* younger than the last one (KeyStoreLoadOptions.MaxAge).                 *)
THEOREM ConfirmationHolds == Spec => []ConfirmationTrue
  <1>1. Init => ConfInv
    BY ShapeInit, ConfirmedInit DEF ConfInv
  <1>2. ConfInv /\ [Next]_vars => ConfInv'
    BY ShapeStep, ConfirmedStep DEF ConfInv
  <1>3. ConfInv => ConfirmationTrue
    BY DEF ConfInv, Confirmed, Backed, ConfirmationTrue
  <1> QED
    BY <1>1, <1>2, <1>3, PTL DEF Spec

-----------------------------------------------------------------------------
(* Records on disk.                                                        *)

LEMMA LiveIs ==
  ASSUME NEW R, NEW g, NEW k \in KeySet, RecordsAre(R, g, k)
  PROVE  LiveOf(R, g) = k /\ OneEach(R, g)
  <1>1. OneEach(R, g)
    BY DEF RecordsAre, OneEach
  <1>2. ASSUME NEW i \in ID
        PROVE  LiveOf(R, g)[i] = k[i]
    <2>1. CASE \E h \in Hash : <<g, i, h>> \in R
      <3>1. PICK h \in Hash : <<g, i, h>> \in R
        BY <2>1
      <3>2. \A a \in Hash : <<g, i, a>> \in R => a = h
        BY <1>1, <3>1 DEF OneEach
      <3>3. (CHOOSE a \in Hash : <<g, i, a>> \in R) = h
        BY <3>1, <3>2
      <3> QED
        BY <2>1, <3>1, <3>3 DEF LiveOf, RecordsAre
    <2>2. CASE ~ \E h \in Hash : <<g, i, h>> \in R
      BY <2>2 DEF LiveOf, RecordsAre, KeySet
    <2> QED
      BY <2>1, <2>2
  <1> QED
    BY <1>1, <1>2 DEF LiveOf, KeySet

LEMMA LiveRecords ==
  ASSUME NEW R, NEW g, OneEach(R, g)
  PROVE  LiveOf(R, g) \in KeySet /\ RecordsAre(R, g, LiveOf(R, g))
  <1>1. LiveOf(R, g) \in KeySet
    BY DEF LiveOf, KeySet
  <1>2. ASSUME NEW i \in ID, NEW h \in Hash
        PROVE  <<g, i, h>> \in R <=> LiveOf(R, g)[i] = h
    <2>1. CASE \E a \in Hash : <<g, i, a>> \in R
      <3>1. PICK a \in Hash : <<g, i, a>> \in R
        BY <2>1
      <3>2. \A b \in Hash : <<g, i, b>> \in R => b = a
        BY <3>1 DEF OneEach
      <3>3. (CHOOSE b \in Hash : <<g, i, b>> \in R) = a
        BY <3>1, <3>2
      <3> QED
        BY <2>1, <3>1, <3>2, <3>3 DEF LiveOf
    <2>2. CASE ~ \E a \in Hash : <<g, i, a>> \in R
      BY <2>2, KeyStoreAssumption DEF LiveOf
    <2> QED
      BY <2>1, <2>2
  <1> QED
    BY <1>1, <1>2 DEF RecordsAre

LEMMA SameIs ==
  ASSUME NEW R, NEW S, NEW g, SameRecords(R, S, g)
  PROVE  /\ OneEach(R, g) => OneEach(S, g) /\ LiveOf(R, g) = LiveOf(S, g)
         /\ \A k : RecordsAre(R, g, k) => RecordsAre(S, g, k)
  <1>1. \A k : RecordsAre(R, g, k) => RecordsAre(S, g, k)
    BY DEF SameRecords, RecordsAre
  <1>2. OneEach(R, g) => LiveOf(R, g) \in KeySet /\ RecordsAre(S, g, LiveOf(R, g))
    BY <1>1, LiveRecords
  <1> QED
    BY <1>1, <1>2, LiveIs

LEMMA BetweenSame ==
  ASSUME NEW R, NEW T, NEW g, SameRecords(R, T, g), NEW S \in Between(R, T)
  PROVE  SameRecords(R, S, g)
  BY DEF SameRecords, Between

(* The steps of a write leave the generation in use alone.                 *)
LEMMA BatchSame ==
  ASSUME Shape, Attached, Process, meta.st = "ok", job.st # "idle"
  PROVE  SameRecords(recs, BatchTo, meta.gen)
  <1>1. store.gen = meta.gen /\ meta.gen \in Nat
    BY DEF Shape, Attached, Process, Metas
  <1>2. CASE job.st = "clear"
    BY SMTT(60), <1>1, <1>2 DEF SameRecords, BatchTo, Gen, Target
  <1>3. CASE job.st = "batch"
    BY SMTT(60), <1>1, <1>3 DEF SameRecords, BatchTo, Records, Target
  <1>4. CASE job.st = "drop"
    BY SMTT(60), <1>1, <1>4 DEF SameRecords, BatchTo, Gen, Target
  <1>5. CASE job.st \notin {"clear", "batch", "drop"}
    BY <1>5 DEF SameRecords, BatchTo
  <1> QED
    BY <1>2, <1>3, <1>4, <1>5

LEMMA CutSame ==
  ASSUME Shape, Attached, Process, meta.st = "ok", NEW S \in Between(recs, BatchTo)
  PROVE  SameRecords(recs, S, meta.gen)
  <1>1. CASE job.st = "idle"
    <2>1. BatchTo = recs
      BY <1>1 DEF BatchTo
    <2> QED
      BY <2>1, BetweenSame DEF SameRecords
  <1>2. CASE job.st # "idle"
    BY <1>2, BatchSame, BetweenSame
  <1> QED
    BY <1>1, <1>2

(* What a step that keeps the live records keeps.                          *)
DiskKept ==
    /\ meta'.st = meta.st /\ meta'.gen = meta.gen /\ meta'.ver = meta.ver
    /\ meta.st = "ok" => SameRecords(recs, recs', meta.gen)

LEMMA ViewIs == View = IF meta.st = "ok" THEN [keys |-> LiveOf(recs, meta.gen), ver |-> meta.ver]
                                         ELSE [keys |-> Empty, ver |-> 0]
  BY DEF View, Live, LiveOf

LEMMA KeptView ==
  ASSUME Stored, DiskKept
  PROVE  /\ View' = View
         /\ (meta.st = "ok" => OneEach(recs, meta.gen))'
         /\ Saved /\ version' = version /\ byID' = byID => Saved'
  <1>1. meta.st = "ok" => OneEach(recs', meta.gen) /\ LiveOf(recs', meta.gen) = LiveOf(recs, meta.gen)
    BY SMTT(60), SameIs DEF Stored, DiskKept
  <1>2. View' = IF meta.st = "ok" THEN [keys |-> LiveOf(recs', meta.gen), ver |-> meta.ver]
                                  ELSE [keys |-> Empty, ver |-> 0]
    BY DEF View, Live, LiveOf, DiskKept, Empty
  <1>3. View' = View
    BY <1>1, <1>2, ViewIs
  <1>4. (meta.st = "ok" => OneEach(recs, meta.gen))'
    BY <1>1 DEF DiskKept
  <1>5. ASSUME Saved, version' = version, byID' = byID PROVE Saved'
    BY <1>5, SameIs DEF Saved, DiskKept, Empty
  <1> QED
    BY <1>3, <1>4, <1>5

(* The write of a push makes the disk hold what the push leaves in memory. *)
LEMMA PersistWritten ==
  ASSUME CacheInv, proc = "up", open, job.st = "idle", NEW p \in Push, NEW v \in Nat
  PROVE  LET j == persistLocked(p, v)
         IN  /\ j.st = "clear" => j.keys = Applied(p)
             /\ j.st = "txn" =>
                  /\ meta.st = "ok"
                  /\ \A i \in ID, h \in Hash : Applied(p)[i] = h <=>
                       IF i = j.id THEN j.hash = h ELSE <<meta.gen, i, h>> \in recs
  <1> DEFINE j == persistLocked(p, v)
  <1>0. Shape /\ None \notin ID \cup Hash
    BY KeyStoreAssumption DEF CacheInv
  <1>1. \A k, c : LET w == Generation("sync", k, v, c) IN w.st = "clear" /\ w.keys = k
    BY DEF Generation, Whole
  <1>2. \A i, h, c : LET w == Txn(v, i, h, c) IN w.st = "txn" /\ w.id = i /\ w.hash = h
    BY DEF Txn
  <1>3. CASE dirty
    BY <1>1, <1>3 DEF persistLocked
  <1>4. CASE ~dirty
    <2>1. j = StoreWrite(p, v)
      BY <1>4 DEF persistLocked
    <2>2. store.gen \in Nat /\ byID \in KeySet
      BY <1>0 DEF Shape, Stores
    <2>3. store.gen = 0 => byID = Empty
      BY SMTT(60), <1>4 DEF CacheInv, Attached, Stored, Saved
    <2>4. store.gen > 0 => meta.st = "ok" /\ RecordsAre(recs, meta.gen, byID)
      BY SMTT(60), <1>4, <2>2 DEF CacheInv, Attached, Stored, Saved
    <2>5. CASE p.kind = "upsert" /\ p.id \in ID /\ p.hash \in Hash
      <3>1. Applied(p) = [byID EXCEPT ![p.id] = p.hash]
        BY <2>5 DEF Applied
      <3>2. CASE store.gen = 0
        <4>1. j = Generation("sync", Only(p.id, p.hash), v, "never")
          BY SMTT(60), <2>1, <2>5, <3>2 DEF StoreWrite
        <4>2. Only(p.id, p.hash) = Applied(p)
          BY <2>3, <3>1, <3>2 DEF Only
        <4> QED
          BY SMTT(60), <1>1, <4>1, <4>2
      <3>3. CASE store.gen > 0
        <4>1. j = Txn(v, p.id, p.hash, "never")
          BY SMTT(60), <2>1, <2>5, <3>3 DEF StoreWrite
        <4>2. \A i \in ID, h \in Hash :
                Applied(p)[i] = h <=> IF i = p.id THEN p.hash = h ELSE <<meta.gen, i, h>> \in recs
          BY <2>2, <2>4, <3>1, <3>3 DEF RecordsAre, KeySet
        <4> QED
          BY SMTT(60), <1>2, <2>4, <3>3, <4>1, <4>2
      <3> QED
        BY SMTT(60), <2>2, <3>2, <3>3
    <2>6. CASE p.kind = "delete" /\ p.id \in ID
      <3>1. Applied(p) = [byID EXCEPT ![p.id] = None]
        BY <2>6 DEF Applied
      <3>2. CASE store.gen = 0
        <4>1. j = Generation("sync", Empty, v, "never")
          BY SMTT(60), <2>1, <2>6, <3>2 DEF StoreWrite
        <4>2. Empty = Applied(p)
          BY <2>3, <3>1, <3>2 DEF Empty
        <4> QED
          BY <1>1, <4>1, <4>2
      <3>3. CASE store.gen > 0
        <4>1. j = Txn(v, p.id, None, "never")
          BY SMTT(60), <2>1, <2>6, <3>3 DEF StoreWrite
        <4>2. \A i \in ID, h \in Hash :
                Applied(p)[i] = h <=> IF i = p.id THEN None = h ELSE <<meta.gen, i, h>> \in recs
          BY <2>2, <2>4, <3>1, <3>3 DEF RecordsAre, KeySet
        <4> QED
          BY SMTT(60), <1>2, <2>4, <3>3, <4>1, <4>2
      <3> QED
        BY SMTT(60), <2>2, <3>2, <3>3
    <2>7. CASE p.kind = "replace" /\ p.keys \in Registry
      <3>1. Applied(p) = p.keys
        BY <2>7 DEF Applied
      <3>2. CASE p.keys # byID
        BY SMTT(60), <1>1, <2>1, <2>7, <3>1, <3>2 DEF StoreWrite
      <3>3. CASE p.keys = byID /\ store.gen = 0
        <4>1. j = Generation("sync", Empty, v, "fresh")
          BY SMTT(60), <2>1, <2>7, <3>3 DEF StoreWrite
        <4> QED
          BY SMTT(60), <1>1, <2>3, <3>1, <3>3, <4>1
      <3>4. CASE p.keys = byID /\ store.gen > 0
        <4>1. j = Txn(v, None, None, "fresh")
          BY SMTT(60), <2>1, <2>7, <3>4 DEF StoreWrite
        <4> QED
          BY SMTT(60), <1>0, <1>2, <2>4, <3>1, <3>4, <4>1 DEF RecordsAre
      <3> QED
        BY SMTT(60), <2>2, <3>2, <3>3, <3>4
    <2> QED
      BY <2>5, <2>6, <2>7, PushKinds
  <1> QED
    BY <1>0, <1>3, <1>4 DEF Shape

-----------------------------------------------------------------------------
(* The steps. Each keeps the invariant and is a step of KeyCache, or       *)
(* changes nothing there.                                                  *)
Rest == Process /\ Attached /\ Written /\ Stored
AsCache == [Cache!Next]_(Cache!vars)

LEMMA InitCache == Init => CacheInv /\ Cache!Init
  <1> SUFFICES ASSUME Init PROVE CacheInv /\ Cache!Init
    OBVIOUS
  <1>1. /\ proc = "down" /\ open = FALSE /\ byID = Empty /\ version = 0
        /\ dirty = FALSE /\ retrying = FALSE
    BY DEF Init
  <1>2. job.st = "idle" /\ meta.st = "none"
    BY DEF Init, NoJob, NoMeta
  <1>3. Rest
    BY <1>1, <1>2 DEF Rest, Process, Attached, Written, Stored
  <1>4. Cache!Init
    BY <1>1, <1>2, ViewIs DEF Cache!Init, Cache!Blank, Cache!Empty, Empty
  <1> QED
    BY <1>3, <1>4, ShapeInit DEF CacheInv, Rest

(* Steps after which no write is in progress and the disk is as it was.    *)
LEMMA IdleStep ==
  ASSUME CacheInv, DiskKept, job'.st = "idle",
         store' = store, UNCHANGED <<proc, open, byID, version>>,
         dirty' = FALSE => (dirty = FALSE /\ job.st = "idle") \/ Saved,
         retrying' = TRUE => retrying = TRUE \/ (open /\ proc = "up"),
         proc # "up" => dirty' = FALSE, dirty' \in BOOLEAN, retrying' \in BOOLEAN
  PROVE  Rest' /\ AsCache
  <1>1. View' = View /\ (meta.st = "ok" => OneEach(recs, meta.gen))'
    BY KeptView DEF CacheInv
  <1>2. Process'
    BY DEF CacheInv, Process, Shape, Empty
  <1>3. Attached'
    BY DEF CacheInv, Attached, DiskKept
  <1>4. Written'
    BY DEF Written
  <1>5. Stored'
    BY <1>1, KeptView DEF CacheInv, Stored
  <1>6. AsCache
    BY <1>1 DEF AsCache, Cache!vars
  <1> QED
    BY <1>2, <1>3, <1>4, <1>5, <1>6 DEF Rest

LEMMA DeliverStep ==
  ASSUME CacheInv, Deliver
  PROVE  Rest' /\ AsCache
  <1>1. PICK p \in Push, v \in Nat :
           /\ v >= version /\ ~Collides(p) /\ Mutate(p, v)
           /\ log' \in Seq(Push) /\ v \in 1..Len(log') /\ log'[v] = p
           /\ proc = "up" /\ job.st = "idle"
           /\ UNCHANGED <<proc, open, store, meta, recs>>
    BY DeliverEffect DEF CacheInv
  <1>2. byID' = Applied(p) /\ version' = v /\ Applied(p) \in KeySet
    BY <1>1, AppliedKeys DEF Mutate, CacheInv
  <1>3. View' = View /\ (meta.st = "ok" => OneEach(recs, meta.gen))'
    BY <1>1, KeptView DEF CacheInv, DiskKept, SameRecords
  <1>4. AsCache
    <2>1. Cache!Push
      BY <1>1, <1>2, <1>3 DEF Cache!Push, KeySet
    <2> QED
      BY <2>1 DEF AsCache, Cache!Next
  <1>5. CASE ~open \/ closed
    <2>1. job' = job /\ retrying' = retrying /\ (open => dirty' = TRUE)
      BY <1>1, <1>5 DEF Mutate, flags, CacheInv, Shape
    <2>2. Process' /\ Attached' /\ Written' /\ Stored'
      BY <1>1, <1>3, <2>1 DEF CacheInv, Process, Attached, Written, Stored
    <2> QED
      BY <1>4, <2>2 DEF Rest
  <1>6. CASE open /\ ~closed
    <2>1. job' = persistLocked(p, v) /\ UNCHANGED <<dirty, retrying>>
      BY <1>1, <1>6 DEF Mutate, flags
    <2>2. job'.by = "sync" /\ job'.ver = v /\ job'.st \in {"clear", "txn"}
      BY <2>1, PersistFields DEF CacheInv
    <2>3. Process' /\ Attached' /\ Stored'
      BY <1>1, <1>3, <1>6, <2>1, <2>2 DEF CacheInv, Process, Attached, Stored
    <2>4. Written'
      BY <1>1, <1>2, <1>6, <2>1, <2>2, PersistWritten DEF Written
    <2> QED
      BY <1>4, <2>3, <2>4 DEF Rest
  <1> QED
    BY <1>5, <1>6

LEMMA ClearStep ==
  ASSUME CacheInv, ClearGeneration
  PROVE  Rest' /\ AsCache
  <1>1. /\ job.st = "clear" /\ recs' = BatchTo /\ job' = [job EXCEPT !.st = "batch"]
        /\ UNCHANGED <<proc, open, byID, version, store, dirty, retrying, meta>>
    BY DEF ClearGeneration, memVars, flags
  <1>2. /\ job'.st = "batch" /\ job'.by = job.by /\ job'.keys = job.keys /\ job'.ver = job.ver
    BY <1>1 DEF CacheInv, Shape, Jobs
  <1>3. DiskKept
    BY <1>1, BatchSame DEF CacheInv, DiskKept
  <1>4. View' = View /\ (meta.st = "ok" => OneEach(recs, meta.gen))'
    BY <1>3, KeptView DEF CacheInv
  <1>5. Process' /\ Attached' /\ Stored'
    BY <1>1, <1>2, <1>4 DEF CacheInv, Process, Attached, Stored
  <1>6. \A i \in ID, h \in Hash : <<Target, i, h>> \notin recs'
    BY <1>1 DEF BatchTo, Gen
  <1>7. Written'
    BY <1>1, <1>2, <1>6 DEF CacheInv, Written, Target
  <1>8. AsCache
    BY <1>1, <1>4 DEF AsCache, Cache!vars
  <1> QED
    BY <1>5, <1>7, <1>8 DEF Rest

LEMMA BatchStep ==
  ASSUME CacheInv, WriteBatch
  PROVE  Rest' /\ AsCache
  <1>1. /\ job.st = "batch" /\ recs' = BatchTo /\ job' = [job EXCEPT !.st = "flip"]
        /\ UNCHANGED <<proc, open, byID, version, store, dirty, retrying, meta>>
    BY DEF WriteBatch, memVars, flags
  <1>2. /\ job'.st = "flip" /\ job'.by = job.by /\ job'.keys = job.keys /\ job'.ver = job.ver
    BY <1>1 DEF CacheInv, Shape, Jobs
  <1>3. DiskKept
    BY <1>1, BatchSame DEF CacheInv, DiskKept
  <1>4. View' = View /\ (meta.st = "ok" => OneEach(recs, meta.gen))'
    BY <1>3, KeptView DEF CacheInv
  <1>5. Process' /\ Attached' /\ Stored'
    BY <1>1, <1>2, <1>4 DEF CacheInv, Process, Attached, Stored
  <1>6. RecordsAre(recs', Target, byID)
    <2>1. recs' = recs \cup Records(Target, byID)
      BY <1>1 DEF BatchTo, CacheInv, Written
    <2>2. \A i \in ID, h \in Hash : <<Target, i, h>> \notin recs
      BY <1>1 DEF CacheInv, Written
    <2>3. \A i \in ID, h \in Hash : <<Target, i, h>> \in Records(Target, byID) <=> byID[i] = h
      BY KeyStoreAssumption DEF Records
    <2> QED
      BY <2>1, <2>2, <2>3 DEF RecordsAre
  <1>7. Written'
    BY <1>1, <1>2, <1>6 DEF CacheInv, Written, Target
  <1>8. AsCache
    BY <1>1, <1>4 DEF AsCache, Cache!vars
  <1> QED
    BY <1>5, <1>7, <1>8 DEF Rest

(* The new generation is complete; from here on it is the one in use.      *)
LEMMA FlipStep ==
  ASSUME CacheInv, FlipMeta
  PROVE  Rest' /\ AsCache
  <1>1. /\ job.st = "flip" /\ job' = [job EXCEPT !.st = "drop"]
        /\ meta'.st = "ok" /\ meta'.gen = Target /\ meta'.ver = version /\ store'.gen = Target
        /\ UNCHANGED <<proc, open, byID, version, recs, dirty, retrying>>
    BY DEF FlipMeta, memVars, flags, CacheInv, Written
  <1>2. job'.st = "drop" /\ job'.by = job.by
    BY <1>1 DEF CacheInv, Shape, Jobs
  <1>3. RecordsAre(recs, Target, byID) /\ byID \in KeySet /\ Target \in Nat /\ Target > 0
    BY SMTT(60), <1>1 DEF CacheInv, Written, Shape, Stores, Target
  <1>4. OneEach(recs, Target) /\ LiveOf(recs, Target) = byID
    BY <1>3, LiveIs
  <1>5. Process' /\ Attached'
    BY <1>1, <1>2, <1>3 DEF CacheInv, Process, Attached
  <1>6. Saved'
    BY <1>1, <1>3 DEF Saved
  <1>7. Written' /\ Stored'
    BY <1>1, <1>2, <1>4, <1>6 DEF Written, Stored
  <1>8. View' = [keys |-> byID, ver |-> version]
    BY <1>1, <1>4 DEF View, Live, LiveOf
  <1>9. AsCache
    <2>1. CASE proc = "up"
      <3>1. Cache!Save
        BY <1>1, <1>8, <2>1 DEF Cache!Save
      <3> QED
        BY <3>1 DEF AsCache, Cache!Next
    <2>2. CASE proc # "up"
      <3>1. byID = Empty /\ version = 0
        BY <2>2 DEF CacheInv, Process
      <3>2. Cache!Discard
        BY <1>1, <1>8, <2>2, <3>1 DEF Cache!Discard, Cache!Blank, Cache!Empty, Empty
      <3> QED
        BY <3>2 DEF AsCache, Cache!Next
    <2> QED
      BY <2>1, <2>2
  <1> QED
    BY <1>5, <1>7, <1>9 DEF Rest

LEMMA DropStep ==
  ASSUME CacheInv, DropGeneration
  PROVE  Rest' /\ AsCache
  <1>1. /\ job.st = "drop" /\ recs' = BatchTo /\ job' = NoJob /\ dirty' = FALSE
        /\ retrying' = (retrying /\ job.by # "retry")
        /\ UNCHANGED <<proc, open, byID, version, store, meta>>
    BY DEF DropGeneration, Succeeds, memVars
  <1>2. DiskKept /\ Saved /\ job'.st = "idle"
    BY <1>1, BatchSame DEF CacheInv, DiskKept, Written, NoJob
  <1> QED
    BY <1>1, <1>2, IdleStep DEF CacheInv, Shape

LEMMA TransactionStep ==
  ASSUME CacheInv, Transaction
  PROVE  Rest' /\ AsCache
  <1>1. /\ job.st = "txn" /\ job' = NoJob /\ dirty' = FALSE
        /\ retrying' = (retrying /\ job.by # "retry")
        /\ meta' = [meta EXCEPT !.ver = job.ver, !.conf = job.conf]
        /\ store' = [store EXCEPT !.conf = job.conf]
        /\ UNCHANGED <<proc, open, byID, version>>
    BY DEF Transaction, Succeeds, memVars
  <1>2. recs' = IF job.id = None THEN recs
                ELSE {r \in recs : ~(r[1] = store.gen /\ r[2] = job.id)}
                       \cup (IF job.hash = None THEN {} ELSE {<<store.gen, job.id, job.hash>>})
    BY DEF Transaction
  <1>3. /\ meta.st = "ok" /\ job.ver = version /\ open /\ job.id \in ID \cup {None}
        /\ store.gen = meta.gen /\ meta.gen > 0 /\ None \notin ID \cup Hash
        /\ job.hash \in Hash \cup {None}
    BY <1>1, KeyStoreAssumption DEF CacheInv, Written, Process, Attached, Shape, Jobs
  <1>4. meta'.st = "ok" /\ meta'.gen = meta.gen /\ meta'.ver = version /\ store'.gen = store.gen
    BY <1>1, <1>3 DEF CacheInv, Shape, Metas, Stores
  <1>5. RecordsAre(recs', meta.gen, byID)
    <2> SUFFICES ASSUME NEW i \in ID, NEW h \in Hash
                 PROVE  <<meta.gen, i, h>> \in recs' <=> byID[i] = h
      BY DEF RecordsAre
    <2>1. byID[i] = h <=> IF i = job.id THEN job.hash = h ELSE <<meta.gen, i, h>> \in recs
      BY <1>1 DEF CacheInv, Written
    <2>2. CASE job.id = None
      BY <1>2, <1>3, <2>1, <2>2
    <2>3. CASE job.id # None /\ i = job.id
      BY <1>2, <1>3, <2>1, <2>3
    <2>4. CASE job.id # None /\ i # job.id
      BY <1>2, <1>3, <2>1, <2>4
    <2> QED
      BY <2>2, <2>3, <2>4
  <1>6. OneEach(recs', meta.gen) /\ LiveOf(recs', meta.gen) = byID
    BY <1>5, LiveIs DEF CacheInv, Shape
  <1>7. job'.st = "idle" /\ Saved'
    BY <1>1, <1>4, <1>5 DEF NoJob, Saved
  <1>8. Process' /\ Attached' /\ Written' /\ Stored'
    BY <1>1, <1>3, <1>4, <1>6, <1>7 DEF CacheInv, Process, Attached, Written, Stored
  <1>9. AsCache
    <2>1. proc = "up"
      BY <1>1 DEF CacheInv, Process, Written, Shape
    <2>2. View' = [keys |-> byID, ver |-> version]
      BY <1>4, <1>6 DEF View, Live, LiveOf
    <2>3. Cache!Save
      BY <1>1, <2>1, <2>2 DEF Cache!Save
    <2> QED
      BY <2>3 DEF AsCache, Cache!Next
  <1> QED
    BY <1>8, <1>9 DEF Rest

LEMMA FailStep ==
  ASSUME CacheInv, WriteFails
  PROVE  Rest' /\ AsCache
  <1>1. /\ job.st # "idle" /\ job.by # "load" /\ recs' \in Between(recs, BatchTo)
        /\ job' = NoJob /\ dirty' = TRUE /\ retrying' = TRUE
        /\ UNCHANGED <<proc, open, byID, version, store, meta>>
    BY DEF WriteFails, Fails, memVars
  <1>2. DiskKept /\ job'.st = "idle" /\ open /\ proc = "up"
    BY <1>1, CutSame DEF CacheInv, DiskKept, Process, Shape, NoJob
  <1> QED
    BY <1>1, <1>2, IdleStep

LEMMA RetryStep ==
  ASSUME CacheInv, retryLoop
  PROVE  Rest' /\ AsCache
  <1>1. /\ proc = "up" /\ retrying /\ job.st = "idle"
        /\ UNCHANGED <<proc, open, byID, version, store, dirty, meta, recs>>
    BY DEF retryLoop, memVars, diskVars
  <1>2. DiskKept
    BY <1>1 DEF DiskKept, SameRecords
  <1>3. CASE retrying' = FALSE /\ job' = job
    BY <1>1, <1>2, <1>3, IdleStep DEF CacheInv, Shape
  <1>4. CASE job' = Generation("retry", byID, version, "never") /\ UNCHANGED retrying
    <2>1. job'.st = "clear" /\ job'.by = "retry" /\ job'.keys = byID /\ job'.ver = version
      BY <1>4 DEF Generation, Whole
    <2>2. View' = View /\ (meta.st = "ok" => OneEach(recs, meta.gen))'
      BY <1>2, KeptView DEF CacheInv
    <2>3. Process' /\ Attached' /\ Written' /\ Stored'
      BY <1>1, <1>4, <2>1, <2>2 DEF CacheInv, Process, Attached, Written, Stored
    <2>4. AsCache
      BY <1>1, <2>2 DEF AsCache, Cache!vars
    <2> QED
      BY <2>3, <2>4 DEF Rest
  <1> QED
    BY <1>3, <1>4 DEF retryLoop

LEMMA StartStep ==
  ASSUME CacheInv, Start
  PROVE  Rest' /\ AsCache
  <1>1. /\ proc = "down" /\ proc' = "loading" /\ open' = TRUE
        /\ UNCHANGED <<byID, version, store, dirty, retrying, job, meta, recs>>
    BY DEF Start, memVars, flags, diskVars
  <1>2. job.st = "idle"
    BY <1>1 DEF CacheInv, Process
  <1>3. View' = View /\ (meta.st = "ok" => OneEach(recs, meta.gen))'
    BY <1>1, KeptView DEF CacheInv, DiskKept, SameRecords
  <1>4. Process' /\ Attached' /\ Written' /\ Stored'
    BY <1>1, <1>2, <1>3 DEF CacheInv, Process, Attached, Written, Stored, Empty
  <1>5. AsCache
    BY <1>1, <1>3 DEF AsCache, Cache!vars
  <1> QED
    BY <1>4, <1>5 DEF Rest

LEMMA WithinItself ==
  ASSUME NEW k \in KeySet
  PROVE  k \in Cache!Within(k)
  <1>1. k = [i \in ID |-> IF i \in ID THEN k[i] ELSE None]
    BY DEF KeySet
  <1> QED
    BY <1>1 DEF Cache!Within

LEMMA LoadFreshStep ==
  ASSUME CacheInv, LoadFresh
  PROVE  Rest' /\ AsCache
  <1>1. /\ proc = "loading" /\ job.st = "idle" /\ meta.st = "none"
        /\ proc' = "up" /\ store'.gen = 0
        /\ UNCHANGED <<open, byID, version, dirty, retrying, job, meta, recs>>
    BY DEF LoadFresh, memVars, flags, diskVars
  <1>2. byID = Empty /\ version = 0 /\ open
    BY <1>1 DEF CacheInv, Process
  <1>3. View = [keys |-> Empty, ver |-> 0] /\ View' = [keys |-> Empty, ver |-> 0]
    BY <1>1 DEF View, Empty
  <1>4. Process' /\ Attached' /\ Written' /\ Stored'
    BY <1>1, <1>2 DEF CacheInv, Process, Attached, Written, Stored, Saved, Empty
  <1>5. AsCache
    <2>1. Cache!Restore
      BY <1>1, <1>2, <1>3, WithinItself, RegistryKeys DEF Cache!Restore
    <2> QED
      BY <2>1 DEF AsCache, Cache!Next
  <1> QED
    BY <1>4, <1>5 DEF Rest

LEMMA LoadDiscardStep ==
  ASSUME CacheInv, LoadDiscard
  PROVE  Rest' /\ AsCache
  <1>1. /\ proc = "loading" /\ job.st = "idle" /\ job' = Whole("load", Empty, 0, "never")
        /\ UNCHANGED <<proc, open, byID, version, dirty, retrying, meta>>
    BY DEF LoadDiscard, memVars, flags
  <1>2. job'.st = "clear" /\ job'.by = "load" /\ job'.keys = Empty /\ job'.ver = 0
    BY <1>1 DEF Whole
  <1>3. /\ store'.gen = IF meta.st = "ok" THEN meta.gen ELSE 0
        /\ meta.st = "ok" => recs' = Gen(meta.gen)
    BY SMTT(60) DEF LoadDiscard
  <1>4. DiskKept
    BY <1>1, <1>3 DEF DiskKept, SameRecords, Gen
  <1>5. View' = View /\ (meta.st = "ok" => OneEach(recs, meta.gen))'
    BY <1>4, KeptView DEF CacheInv
  <1>6. Process' /\ Attached' /\ Written' /\ Stored'
    BY <1>1, <1>2, <1>3, <1>5 DEF CacheInv, Process, Attached, Written, Stored, Empty
  <1>7. AsCache
    BY <1>1, <1>5 DEF AsCache, Cache!vars
  <1> QED
    BY <1>6, <1>7 DEF Rest

LEMMA DiscardedStep ==
  ASSUME CacheInv, Discarded
  PROVE  Rest' /\ AsCache
  <1>1. /\ job.st = "drop" /\ job.by = "load" /\ recs' = BatchTo /\ job' = NoJob /\ proc' = "up"
        /\ UNCHANGED <<open, byID, version, store, dirty, retrying, meta>>
    BY DEF Discarded, memVars, flags
  <1>2. proc = "loading" /\ open /\ byID = Empty /\ version = 0 /\ meta.st = "ok" /\ Saved
    BY <1>1 DEF CacheInv, Process, Written
  <1>3. DiskKept
    BY <1>1, BatchSame DEF CacheInv, DiskKept
  <1>4. View' = View /\ (meta.st = "ok" => OneEach(recs, meta.gen))' /\ Saved'
    BY <1>1, <1>2, <1>3, KeptView DEF CacheInv
  <1>5. View = [keys |-> Empty, ver |-> 0]
    BY <1>2, ViewIs, LiveIs, RegistryKeys DEF Saved
  <1>6. job'.st = "idle"
    BY <1>1 DEF NoJob
  <1>7. Process' /\ Attached' /\ Written' /\ Stored'
    BY <1>1, <1>2, <1>4, <1>6 DEF CacheInv, Process, Attached, Written, Stored
  <1>8. AsCache
    <2>1. Cache!Restore
      BY <1>1, <1>2, <1>4, <1>5, WithinItself, RegistryKeys DEF Cache!Restore
    <2> QED
      BY <2>1 DEF AsCache, Cache!Next
  <1> QED
    BY <1>7, <1>8 DEF Rest

(* A load keeps the part of the snapshot it admits, in memory and on disk. *)
LEMMA RestoreStep ==
  ASSUME CacheInv, LoadRestore, ~Cleanup
  PROVE  Rest' /\ AsCache
  <1> DEFINE live == LiveOf(recs, meta.gen)
  <1>1. /\ proc = "loading" /\ job.st = "idle" /\ meta.st = "ok" /\ proc' = "up"
        /\ version' = meta.ver /\ store'.gen = meta.gen
        /\ UNCHANGED <<open, dirty, retrying, job, meta>>
    BY DEF LoadRestore, flags
  <1>2. live \in KeySet /\ RecordsAre(recs, meta.gen, live) /\ Live = live
    BY <1>1, LiveRecords DEF CacheInv, Stored, Live, LiveOf
  <1>3. PICK s \in SUBSET ID :
          /\ byID' = Kept(live, s)
          /\ recs' = Gen(meta.gen) \ (Records(meta.gen, live) \ Records(meta.gen, Kept(live, s)))
    BY <1>2 DEF LoadRestore
  <1> DEFINE kept == Kept(live, s)
  <1>4. kept \in KeySet /\ \A i \in ID : kept[i] \in {live[i], None}
    BY <1>2, KeptKeys DEF Kept
  <1>5. RecordsAre(recs', meta.gen, kept)
    <2> HIDE DEF live, kept
    <2>1. recs' = Gen(meta.gen) \ (Records(meta.gen, live) \ Records(meta.gen, kept))
      BY <1>3 DEF kept
    <2>2. ASSUME NEW k \in KeySet, NEW i \in ID, NEW h \in Hash
          PROVE  <<meta.gen, i, h>> \in Records(meta.gen, k) <=> k[i] = h
      BY KeyStoreAssumption DEF Records
    <2> SUFFICES ASSUME NEW i \in ID, NEW h \in Hash
                 PROVE  <<meta.gen, i, h>> \in recs' <=> kept[i] = h
      BY DEF RecordsAre
    <2>3. <<meta.gen, i, h>> \in recs <=> live[i] = h
      BY <1>2 DEF RecordsAre
    <2>4. kept[i] \in {live[i], None} /\ h # None
      BY <1>4, KeyStoreAssumption
    <2>5. <<meta.gen, i, h>> \in Gen(meta.gen) <=> <<meta.gen, i, h>> \in recs
      BY DEF Gen
    <2> QED
      BY <1>2, <1>4, <2>1, <2>2, <2>3, <2>4, <2>5
  <1>6. OneEach(recs', meta.gen) /\ LiveOf(recs', meta.gen) = kept
    BY <1>4, <1>5, LiveIs
  <1>7. open /\ ~retrying /\ meta.gen > 0
    BY <1>1 DEF CacheInv, Process, Attached
  <1>8. Process' /\ Attached' /\ Written'
    BY <1>1, <1>7 DEF Process, Attached, Written
  <1>9. Saved'
    BY <1>1, <1>3, <1>5 DEF Saved
  <1>10. Stored'
    BY <1>1, <1>6, <1>9 DEF Stored
  <1>11. AsCache
    <2>1. View = [keys |-> live, ver |-> meta.ver] /\ View' = [keys |-> kept, ver |-> meta.ver]
      <3>1. View = [keys |-> live, ver |-> meta.ver]
        BY <1>1, ViewIs
      <3>2. View' = [keys |-> LiveOf(recs', meta'.gen), ver |-> meta'.ver]
        BY <1>1 DEF View, Live, LiveOf
      <3> QED
        BY <1>1, <1>6, <3>1, <3>2
    <2>2. kept \in Cache!Within(live)
      <3> HIDE DEF live, kept
      <3> DEFINE t == {i \in ID : kept[i] = live[i]}
      <3>1. kept = [i \in ID |-> IF i \in t THEN live[i] ELSE None]
        BY <1>4 DEF KeySet
      <3> HIDE DEF t
      <3>2. t \in SUBSET ID
        BY DEF t
      <3> QED
        BY <3>1, <3>2 DEF Cache!Within
    <2>3. Cache!Restore
      BY <1>1, <1>3, <2>1, <2>2 DEF Cache!Restore
    <2> QED
      BY <2>3 DEF AsCache, Cache!Next
  <1> QED
    BY <1>8, <1>10, <1>11 DEF Rest

LEMMA DegradeStep ==
  ASSUME CacheInv, DegradeKeyStore
  PROVE  Rest' /\ AsCache
  <1>1. /\ proc = "loading" /\ proc' = "up" /\ open' = FALSE /\ job' = NoJob
        /\ recs' \in Between(recs, BatchTo)
        /\ UNCHANGED <<byID, version, store, dirty, retrying, meta>>
    BY DEF DegradeKeyStore, memVars, flags
  <1>2. job'.st = "idle" /\ ~retrying
    BY <1>1 DEF NoJob, CacheInv, Process
  <1>3. View' = View /\ (meta.st = "ok" => OneEach(recs, meta.gen))'
    BY <1>1, CutSame, KeptView DEF CacheInv, DiskKept
  <1>4. Process' /\ Attached' /\ Written' /\ Stored'
    BY <1>1, <1>2, <1>3 DEF CacheInv, Process, Attached, Written, Stored
  <1>5. AsCache
    <2>1. Cache!Degrade
      BY <1>1, <1>3 DEF Cache!Degrade
    <2> QED
      BY <2>1 DEF AsCache, Cache!Next
  <1> QED
    BY <1>4, <1>5 DEF Rest

LEMMA CloseStep ==
  ASSUME CacheInv, CloseKeyStore
  PROVE  Rest' /\ AsCache
  <1>1. job.st = "idle" /\ UNCHANGED <<proc, open, byID, version, store, dirty, retrying, job, meta, recs>>
    BY DEF CloseKeyStore, memVars, diskVars
  <1>2. DiskKept
    BY <1>1 DEF DiskKept, SameRecords
  <1>3. /\ job'.st = "idle" /\ dirty' \in BOOLEAN /\ retrying' \in BOOLEAN
        /\ proc # "up" => dirty' = FALSE
    BY <1>1 DEF CacheInv, Process, Shape
  <1> QED
    BY <1>1, <1>2, <1>3, IdleStep

(* A crash may cut a write anywhere; the live records are all there.       *)
LEMMA CrashStep ==
  ASSUME CacheInv, Crash
  PROVE  Rest' /\ AsCache
  <1>1. /\ proc' = "down" /\ open' = FALSE /\ byID' = Empty /\ version' = 0
        /\ dirty' = FALSE /\ retrying' = FALSE /\ job' = NoJob
        /\ recs' \in Between(recs, BatchTo) /\ UNCHANGED meta
    BY DEF Crash, Forget
  <1>2. job'.st = "idle"
    BY <1>1 DEF NoJob
  <1>3. View' = View /\ (meta.st = "ok" => OneEach(recs, meta.gen))'
    BY <1>1, CutSame, KeptView DEF CacheInv, DiskKept
  <1>4. Process' /\ Attached' /\ Written' /\ Stored'
    BY <1>1, <1>2, <1>3 DEF CacheInv, Process, Attached, Written, Stored, Empty
  <1>5. AsCache
    <2>1. CASE proc = "up"
      <3>1. Cache!Stop
        BY <1>1, <1>3, <2>1 DEF Cache!Stop, Cache!Empty, Empty
      <3> QED
        BY <3>1 DEF AsCache, Cache!Next
    <2>2. CASE proc # "up"
      <3>1. byID = Empty /\ version = 0
        BY <2>2 DEF CacheInv, Process
      <3> QED
        BY <1>1, <1>3, <2>2, <3>1 DEF AsCache, Cache!vars
    <2> QED
      BY <2>1, <2>2
  <1> QED
    BY <1>4, <1>5 DEF Rest

LEMMA UnusableStep ==
  ASSUME CacheInv, MetaUnusable
  PROVE  Rest' /\ AsCache
  <1>1. /\ proc = "down" /\ meta' = [meta EXCEPT !.st = "bad"]
        /\ UNCHANGED <<proc, open, byID, version, store, dirty, retrying, job, recs>>
    BY DEF MetaUnusable, memVars, flags
  <1>2. meta'.st = "bad" /\ job.st = "idle"
    BY <1>1 DEF CacheInv, Shape, Metas, Process
  <1>3. Process' /\ Attached' /\ Written' /\ Stored'
    BY <1>1, <1>2 DEF CacheInv, Process, Attached, Written, Stored, Empty
  <1>4. AsCache
    <2>1. View' = [keys |-> Empty, ver |-> 0]
      BY <1>2 DEF View, Empty
    <2>2. Cache!Discard
      BY <1>1, <2>1 DEF Cache!Discard, Cache!Blank, Cache!Empty, Empty
    <2> QED
      BY <2>2 DEF AsCache, Cache!Next
  <1> QED
    BY <1>3, <1>4 DEF Rest

LEMMA TimeStep ==
  ASSUME CacheInv, TimePasses
  PROVE  Rest' /\ AsCache
  <1>1. /\ meta' = [meta EXCEPT !.conf = Older(@)] /\ store' = [store EXCEPT !.conf = Older(@)]
        /\ job' = [job EXCEPT !.conf = Older(@)]
        /\ UNCHANGED <<proc, open, byID, version, dirty, retrying, recs>>
    BY DEF TimePasses, memVars, flags
  <1>2. /\ meta'.st = meta.st /\ meta'.gen = meta.gen /\ meta'.ver = meta.ver /\ store'.gen = store.gen
        /\ job'.st = job.st /\ job'.by = job.by /\ job'.keys = job.keys /\ job'.ver = job.ver
        /\ job'.id = job.id /\ job'.hash = job.hash
    BY <1>1 DEF CacheInv, Shape, Metas, Stores, Jobs
  <1>3. DiskKept
    BY <1>1, <1>2 DEF DiskKept, SameRecords
  <1>4. View' = View /\ (meta.st = "ok" => OneEach(recs, meta.gen))' /\ (Saved => Saved')
    BY <1>1, <1>3, KeptView DEF CacheInv
  <1>5. Process' /\ Attached' /\ Stored'
    BY <1>1, <1>2, <1>4 DEF CacheInv, Process, Attached, Stored, Empty
  <1>6. Written'
    BY SMTT(60), <1>1, <1>2, <1>4 DEF CacheInv, Written, Target
  <1>7. AsCache
    BY <1>1, <1>4 DEF AsCache, Cache!vars
  <1> QED
    BY <1>5, <1>6, <1>7 DEF Rest

LEMMA StutterStep ==
  ASSUME CacheInv, UNCHANGED vars
  PROVE  Rest' /\ AsCache
  <1>1. UNCHANGED <<proc, open, byID, version, store, dirty, retrying, job, meta, recs>>
    BY DEF vars, memVars, flags, diskVars
  <1>2. View' = View
    BY <1>1 DEF View, Live, Empty
  <1>3. Rest'
    BY <1>1 DEF CacheInv, Rest, Process, Attached, Written, Stored, Saved, Target, Empty
  <1> QED
    BY <1>1, <1>2, <1>3 DEF AsCache, Cache!vars

LEMMA CacheInvStep ==
  ASSUME ~Cleanup, CacheInv, [Next]_vars
  PROVE  CacheInv' /\ AsCache
  <1>1. Rest' /\ AsCache
    BY DeliverStep, ClearStep, BatchStep, FlipStep, DropStep, TransactionStep, FailStep, RetryStep,
       StartStep, LoadFreshStep, LoadDiscardStep, DiscardedStep, RestoreStep, DegradeStep,
       CloseStep, CrashStep, UnusableStep, TimeStep, StutterStep DEF Next, Write, Load
  <1>2. Shape'
    BY ShapeStep DEF CacheInv
  <1> QED
    BY <1>1, <1>2 DEF CacheInv, Rest

(* The store implements KeyCache while the records a load skips can be     *)
(* deleted: whatever crashes and failed writes cut short, the snapshot on  *)
(* disk changes only as a whole, to the registry in memory, and a restart  *)
(* takes it, the admissible part of it, or nothing.                        *)
THEOREM StoreIsCache ==
  ASSUME ~Cleanup
  PROVE  Spec => CacheSpec
  <1>1. Init => CacheInv /\ Cache!Init
    BY InitCache
  <1>2. CacheInv /\ [Next]_vars => CacheInv' /\ [Cache!Next]_(Cache!vars)
    BY CacheInvStep DEF AsCache
  <1> QED
    BY <1>1, <1>2, PTL DEF Spec, CacheSpec, Cache!Spec

-----------------------------------------------------------------------------
(* The index of hashes.                                                    *)

LEMMA IndexOf ==
  ASSUME NEW k \in Registry
  PROVE  hashIndex(k) \in [Hash -> ID \cup {None}] /\ Indexed(hashIndex(k), k)
  <1>1. ASSUME NEW h \in Hash, NEW i \in ID, k[i] = h
        PROVE  hashIndex(k)[h] = i
    <2>1. \A j \in ID : k[j] = h => j = i
      BY <1>1, KeyStoreAssumption DEF Registry
    <2>2. (CHOOSE j \in ID : k[j] = h) = i
      BY <1>1, <2>1
    <2> QED
      BY <1>1, <2>2 DEF hashIndex, Holds
  <1>2. ASSUME NEW h \in Hash, \A i \in ID : k[i] # h
        PROVE  hashIndex(k)[h] = None
    BY <1>2 DEF hashIndex, Holds
  <1>3. ASSUME NEW h \in Hash PROVE hashIndex(k)[h] \in ID \cup {None}
    BY <1>1, <1>2
  <1>4. hashIndex(k) \in [Hash -> ID \cup {None}]
    BY <1>3 DEF hashIndex
  <1>5. ASSUME NEW i \in ID, NEW h \in Hash PROVE hashIndex(k)[h] = i <=> k[i] = h
    BY <1>1, <1>2, KeyStoreAssumption
  <1> QED
    BY <1>4, <1>5 DEF Indexed

LEMMA IndexIs ==
  ASSUME NEW k \in Registry, NEW b \in [Hash -> ID \cup {None}], Indexed(b, k)
  PROVE  b = hashIndex(k)
  <1>1. hashIndex(k) \in [Hash -> ID \cup {None}] /\ Indexed(hashIndex(k), k)
    BY IndexOf
  <1>2. ASSUME NEW h \in Hash PROVE b[h] = hashIndex(k)[h]
    <2>1. b[h] \in ID \cup {None} /\ hashIndex(k)[h] \in ID \cup {None}
      BY <1>1
    <2>2. \A i \in ID : b[h] = i <=> hashIndex(k)[h] = i
      BY <1>1 DEF Indexed
    <2> QED
      BY <2>1, <2>2
  <1> QED
    BY SMTT(60), <1>1, <1>2

LEMMA KeptRegistry ==
  ASSUME NEW k \in KeySet, NEW s
  PROVE  Kept(k, s) \in Registry
  <1>1. Kept(k, s) \in KeySet
    BY KeptKeys
  <1>2. ASSUME NEW i \in ID, NEW j \in ID, Kept(k, s)[i] = Kept(k, s)[j], Kept(k, s)[i] # None, i < j
        PROVE  FALSE
    BY <1>2 DEF Kept
  <1>3. ASSUME NEW i \in ID, NEW j \in ID, Kept(k, s)[i] = Kept(k, s)[j], Kept(k, s)[i] # None
        PROVE  i = j
    <2>1. i \in Nat /\ j \in Nat
      BY KeyStoreAssumption
    <2> QED
      BY SMTT(60), <1>2, <1>3, <2>1
  <1> QED
    BY <1>1, <1>3 DEF Registry, KeySet

(* A push that does not collide keeps hashes apart, and the index with it. *)
LEMMA PushIndexed ==
  ASSUME byHash \in [Hash -> ID \cup {None}], byID \in Registry, Indexed(byHash, byID),
         NEW p \in Push, ~Collides(p)
  PROVE  /\ Applied(p) \in Registry /\ Reindexed(p) \in [Hash -> ID \cup {None}]
         /\ Indexed(Reindexed(p), Applied(p))
  <1>0. None \notin ID \cup Hash /\ byID \in KeySet
    BY KeyStoreAssumption, RegistryKeys
  <1>1. CASE p.kind = "upsert" /\ p.id \in ID /\ p.hash \in Hash
    <2>1. Applied(p) = [byID EXCEPT ![p.id] = p.hash]
      BY <1>1 DEF Applied
    <2>2. \A j \in ID : byID[j] = p.hash => j = p.id
      BY SMTT(60), <1>0, <1>1 DEF Collides, Indexed
    <2>3. Applied(p) \in Registry
      BY <1>0, <1>1, <2>1, <2>2 DEF Registry, KeySet
    <2>4. Reindexed(p) = [h \in Hash |-> CASE h = p.hash -> p.id
                                            [] h # p.hash /\ h = byID[p.id] -> None
                                            [] OTHER -> byHash[h]]
      BY <1>1 DEF Reindexed
    <2>5. Reindexed(p) \in [Hash -> ID \cup {None}]
      BY <1>1, <2>4
    <2>6. ASSUME NEW i \in ID, NEW h \in Hash
          PROVE  Reindexed(p)[h] = i <=> Applied(p)[i] = h
      <3>0. /\ byHash[h] = i <=> byID[i] = h
            /\ byHash[h] = p.id <=> byID[p.id] = h
            /\ byHash[h] \in ID \cup {None}
            /\ Applied(p)[i] = IF i = p.id THEN p.hash ELSE byID[i]
        BY SMTT(60), <1>0, <1>1, <2>1 DEF Indexed, KeySet
      <3>1. CASE h = p.hash
        BY <1>0, <1>1, <2>2, <2>4, <3>0, <3>1
      <3>2. CASE h # p.hash /\ h = byID[p.id]
        BY SMTT(60), <1>0, <1>1, <2>4, <3>0, <3>2 DEF Indexed
      <3>3. CASE h # p.hash /\ h # byID[p.id]
        BY <1>0, <1>1, <2>4, <3>0, <3>3
      <3> QED
        BY <3>1, <3>2, <3>3
    <2> QED
      BY <2>3, <2>5, <2>6 DEF Indexed
  <1>2. CASE p.kind = "delete" /\ p.id \in ID
    <2>1. Applied(p) = [byID EXCEPT ![p.id] = None]
      BY <1>2 DEF Applied
    <2>2. Applied(p) \in Registry
      BY <1>0, <1>2, <2>1 DEF Registry, KeySet
    <2>3. Reindexed(p) = [h \in Hash |-> IF h = byID[p.id] /\ byHash[h] = p.id THEN None ELSE byHash[h]]
      BY <1>2 DEF Reindexed
    <2>4. Reindexed(p) \in [Hash -> ID \cup {None}]
      BY <2>3
    <2>5. ASSUME NEW i \in ID, NEW h \in Hash
          PROVE  Reindexed(p)[h] = i <=> Applied(p)[i] = h
      BY SMTT(60), <1>0, <1>2, <2>1, <2>3 DEF Indexed, KeySet
    <2> QED
      BY <2>2, <2>4, <2>5 DEF Indexed
  <1>3. CASE p.kind = "replace" /\ p.keys \in Registry
    <2>1. Applied(p) = p.keys /\ Reindexed(p) = hashIndex(p.keys)
      BY <1>3 DEF Applied, Reindexed
    <2> QED
      BY <1>3, <2>1, IndexOf
  <1> QED
    BY <1>1, <1>2, <1>3, PushKinds

-----------------------------------------------------------------------------
(* Revocations.                                                            *)

(* A push gives what it leaves of its own key, and ends the rest.          *)
LEMMA PushEnds ==
  ASSUME byID \in KeySet, NEW p \in Push
  PROVE  \A i \in ID : /\ <<i, Applied(p)[i]>> \notin Ended(p)
                       /\ <<i, Applied(p)[i]>> \in Given(p) \/ Applied(p)[i] \in {byID[i], None}
  <1> SUFFICES ASSUME NEW i \in ID
               PROVE  /\ <<i, Applied(p)[i]>> \notin Ended(p)
                      /\ <<i, Applied(p)[i]>> \in Given(p) \/ Applied(p)[i] \in {byID[i], None}
    OBVIOUS
  <1>0. None \notin Hash
    BY KeyStoreAssumption
  <1>1. CASE p.kind = "upsert" /\ p.id \in ID /\ p.hash \in Hash
    <2>1. Applied(p)[i] = IF i = p.id THEN p.hash ELSE byID[i]
      BY <1>1 DEF Applied, KeySet
    <2>2. Given(p) = {<<p.id, p.hash>>} /\ Ended(p) = ({p.id} \X Hash) \ {<<p.id, p.hash>>}
      BY <1>1 DEF Given, Ended
    <2> QED
      BY <2>1, <2>2
  <1>2. CASE p.kind = "delete" /\ p.id \in ID
    <2>1. Applied(p)[i] = IF i = p.id THEN None ELSE byID[i]
      BY <1>2 DEF Applied, KeySet
    <2>2. Ended(p) = {p.id} \X Hash
      BY <1>2 DEF Given, Ended
    <2> QED
      BY <1>0, <2>1, <2>2
  <1>3. CASE p.kind = "replace" /\ p.keys \in Registry
    <2>1. Applied(p) = p.keys /\ p.keys[i] \in Hash \cup {None}
      BY <1>3, RegistryKeys DEF Applied, KeySet
    <2>2. /\ Given(p) = {r \in ID \X Hash : p.keys[r[1]] = r[2]}
          /\ Ended(p) = (ID \X Hash) \ Given(p)
      BY <1>3 DEF Given, Ended
    <2> QED
      BY <1>0, <2>1, <2>2
  <1> QED
    BY <1>1, <1>2, <1>3, PushKinds

LEMMA EndedPairs ==
  ASSUME NEW p \in Push
  PROVE  Ended(p) \subseteq ID \X Hash
  BY PushKinds DEF Ended

Clean == \A i \in ID : <<i, byID[i]>> \notin revoked
CleanDisk == meta.st = "ok" => \A i \in ID, h \in Hash : <<meta.gen, i, h>> \in recs => <<i, h>> \notin revoked
Pending ==
    job.st # "idle" /\ job.by = "sync" =>
      /\ version \in 1..Len(log)
      /\ \A i \in ID : <<i, byID[i]>> \notin Ended(log[version])
IndexKept == byHash \in [Hash -> ID \cup {None}] /\ byID \in Registry /\ Indexed(byHash, byID)

LEMMA RevocationsAre ==
  Revocations <=> IndexKept /\ Clean /\ revoked \subseteq ID \X Hash /\ CleanDisk /\ Pending
  BY DEF Revocations, IndexKept, Clean, CleanDisk, Pending

LEMMA RevocationsInit == Init => Revocations
  <1> SUFFICES ASSUME Init PROVE Revocations
    OBVIOUS
  <1>1. byID = Empty /\ byHash = Unhashed /\ revoked = {} /\ meta.st = "none" /\ job.st = "idle"
    BY DEF Init, NoJob, NoMeta
  <1>2. IndexKept
    BY <1>1, RegistryKeys, KeyStoreAssumption DEF IndexKept, Indexed, Empty, Unhashed
  <1> QED
    BY <1>1, <1>2, RevocationsAre DEF Clean, CleanDisk, Pending

(* Steps that leave the registry alone and add no revocation.              *)
LEMMA RevokedKept ==
  ASSUME KeyInv, UNCHANGED <<byID, byHash, version, log, revoked>>,
         DiskKept \/ meta'.st # "ok",
         job'.st # "idle" /\ job'.by = "sync" => job.st # "idle" /\ job.by = "sync"
  PROVE  Revocations'
  <1>1. IndexKept' /\ Clean' /\ (revoked \subseteq ID \X Hash)'
    BY RevocationsAre DEF KeyInv, IndexKept, Clean, Indexed, Registry
  <1>2. CleanDisk'
    BY RevocationsAre DEF KeyInv, CleanDisk, DiskKept, SameRecords
  <1>3. Pending'
    <2> SUFFICES ASSUME job'.st # "idle", job'.by = "sync"
                 PROVE  version' \in 1..Len(log') /\ \A i \in ID : <<i, byID'[i]>> \notin Ended(log'[version'])
      BY DEF Pending, Ended, Given
    <2> QED
      BY RevocationsAre DEF KeyInv, Pending
  <1> QED
    BY <1>1, <1>2, <1>3 DEF Revocations, IndexKept, Clean, CleanDisk, Pending

LEMMA RevokedDeliver ==
  ASSUME KeyInv, Deliver
  PROVE  Revocations'
  <1>0. Shape /\ IndexKept /\ Clean /\ revoked \subseteq ID \X Hash /\ CleanDisk
    BY RevocationsAre DEF KeyInv, CacheInv
  <1>1. PICK p \in Push, v \in Nat :
           /\ v >= version /\ ~Collides(p) /\ Mutate(p, v)
           /\ log' \in Seq(Push) /\ v \in 1..Len(log') /\ log'[v] = p
           /\ proc = "up" /\ job.st = "idle"
           /\ UNCHANGED <<proc, open, store, meta, recs>>
    BY <1>0, DeliverEffect
  <1>2. byID' = Applied(p) /\ byHash' = Reindexed(p) /\ version' = v /\ revoked' = revoked \ Given(p)
    BY <1>1 DEF Mutate
  <1>3. IndexKept'
    <2>1. /\ Applied(p) \in Registry /\ Reindexed(p) \in [Hash -> ID \cup {None}]
          /\ Indexed(Reindexed(p), Applied(p))
      BY <1>0, <1>1, PushIndexed DEF IndexKept
    <2> QED
      BY <1>2, <2>1 DEF IndexKept, Indexed, Registry
  <1>4. byID \in KeySet
    BY <1>0 DEF Shape
  <1>5. Clean'
    <2>1. \A i \in ID : <<i, None>> \notin revoked
      BY <1>0, KeyStoreAssumption
    <2>2. \A i \in ID : <<i, Applied(p)[i]>> \in Given(p) \/ Applied(p)[i] \in {byID[i], None}
      BY <1>4, PushEnds
    <2> QED
      BY <1>0, <1>2, <2>1, <2>2 DEF Clean
  <1>6. CleanDisk' /\ (revoked \subseteq ID \X Hash)'
    BY <1>0, <1>1, <1>2 DEF CleanDisk
  <1>7. Pending'
    <2>1. \A i \in ID : <<i, byID'[i]>> \notin Ended(log'[version'])
      BY <1>1, <1>2, <1>4, PushEnds
    <2> QED
      BY <1>1, <1>2, <2>1 DEF Pending, Ended, Given
  <1> QED
    BY <1>3, <1>5, <1>6, <1>7 DEF Revocations, IndexKept, Clean, CleanDisk, Pending

(* A push is acknowledged: what it ends is revoked, and memory and disk    *)
(* hold none of it.                                                        *)
LEMMA RevokedSucceeds ==
  ASSUME KeyInv, Succeeds(job), job.st # "idle", job.by # "load", Saved', meta'.st = "ok",
         UNCHANGED <<byID, byHash, version, log>>
  PROVE  Revocations'
  <1>0. Shape /\ IndexKept /\ Clean /\ revoked \subseteq ID \X Hash /\ Pending
    BY RevocationsAre DEF KeyInv, CacheInv
  <1>1. /\ job' = NoJob
        /\ revoked' = IF job.by = "sync" THEN revoked \cup Ended(log[version]) ELSE revoked
    BY DEF Succeeds
  <1>2. job.by = "sync" =>
          /\ \A i \in ID : <<i, byID[i]>> \notin Ended(log[version])
          /\ Ended(log[version]) \subseteq ID \X Hash
    BY SMTT(60), <1>0, EndedPairs DEF Pending, Shape
  <1>3. Clean' /\ (revoked \subseteq ID \X Hash)'
    BY <1>0, <1>1, <1>2 DEF Clean
  <1>4. CleanDisk'
    BY <1>3 DEF Clean, CleanDisk, Saved, RecordsAre
  <1>5. IndexKept'
    BY <1>0 DEF IndexKept, Indexed, Registry
  <1>6. Pending'
    BY <1>1 DEF Pending, NoJob
  <1> QED
    BY <1>3, <1>4, <1>5, <1>6 DEF Revocations, IndexKept, Clean, CleanDisk, Pending

LEMMA RevokedFlip ==
  ASSUME KeyInv, FlipMeta, CacheInv'
  PROVE  Revocations'
  <1>0. Shape /\ IndexKept /\ Clean /\ revoked \subseteq ID \X Hash /\ Pending
    BY RevocationsAre DEF KeyInv, CacheInv
  <1>1. /\ job.st = "flip" /\ job' = [job EXCEPT !.st = "drop"]
        /\ UNCHANGED <<byID, byHash, version, log, revoked>>
    BY DEF FlipMeta, memVars, history
  <1>2. job'.st = "drop" /\ job'.by = job.by
    BY <1>0, <1>1 DEF Shape, Jobs
  <1>3. meta'.st = "ok" /\ Saved'
    BY <1>2 DEF CacheInv, Written
  <1>4. Clean' /\ (revoked \subseteq ID \X Hash)' /\ IndexKept'
    BY <1>0, <1>1 DEF Clean, IndexKept, Indexed, Registry
  <1>5. CleanDisk'
    BY <1>3, <1>4 DEF Clean, CleanDisk, Saved, RecordsAre
  <1>6. Pending'
    BY <1>0, <1>1, <1>2 DEF Pending, Ended, Given
  <1> QED
    BY <1>4, <1>5, <1>6 DEF Revocations, IndexKept, Clean, CleanDisk, Pending

(* What a load restores was on disk, and so is not revoked.                *)
LEMMA RevokedRestore ==
  ASSUME KeyInv, LoadRestore, ~Cleanup
  PROVE  Revocations'
  <1>0. Shape /\ revoked \subseteq ID \X Hash /\ CleanDisk
    BY RevocationsAre DEF KeyInv, CacheInv
  <1> DEFINE live == LiveOf(recs, meta.gen)
  <1>1. job.st = "idle" /\ meta.st = "ok" /\ UNCHANGED <<job, meta, log, revoked>>
    BY DEF LoadRestore, history
  <1>2. live \in KeySet /\ RecordsAre(recs, meta.gen, live) /\ Live = live
    BY <1>1, LiveRecords DEF KeyInv, CacheInv, Stored, Live, LiveOf
  <1>3. PICK s \in SUBSET ID :
          /\ byID' = Kept(live, s) /\ byHash' = hashIndex(Kept(live, s))
          /\ recs' = Gen(meta.gen) \ (Records(meta.gen, live) \ Records(meta.gen, Kept(live, s)))
    BY <1>2 DEF LoadRestore
  <1>4. Kept(live, s) \in Registry /\ \A i \in ID : Kept(live, s)[i] \in {live[i], None}
    BY <1>2, KeptRegistry DEF Kept
  <1> HIDE DEF live
  <1>5. IndexKept'
    BY <1>3, <1>4, IndexOf DEF IndexKept
  <1>6. Clean'
    <2> SUFFICES ASSUME NEW i \in ID PROVE <<i, Kept(live, s)[i]>> \notin revoked
      BY <1>1, <1>3 DEF Clean, live
    <2>1. <<i, None>> \notin revoked
      BY <1>0, KeyStoreAssumption
    <2>2. live[i] \in Hash => <<i, live[i]>> \notin revoked
      BY <1>0, <1>1, <1>2 DEF CleanDisk, RecordsAre
    <2>3. live[i] \in Hash \cup {None}
      BY <1>2 DEF KeySet
    <2> QED
      BY <1>4, <2>1, <2>2, <2>3
  <1>7. CleanDisk' /\ (revoked \subseteq ID \X Hash)'
    BY <1>0, <1>1, <1>3 DEF CleanDisk, Gen
  <1>8. Pending'
    BY <1>1 DEF Pending
  <1> QED
    BY <1>5, <1>6, <1>7, <1>8 DEF Revocations, IndexKept, Clean, CleanDisk, Pending

LEMMA RevokedCrash ==
  ASSUME KeyInv, Crash
  PROVE  Revocations'
  <1>0. Shape /\ Attached /\ Process /\ revoked \subseteq ID \X Hash /\ CleanDisk
    BY RevocationsAre DEF KeyInv, CacheInv
  <1>1. /\ byID' = Empty /\ byHash' = Unhashed /\ job' = NoJob
        /\ recs' \in Between(recs, BatchTo) /\ UNCHANGED <<meta, revoked>>
    BY DEF Crash, Forget, history
  <1>2. IndexKept'
    BY <1>1, RegistryKeys, KeyStoreAssumption DEF IndexKept, Indexed, Empty, Unhashed, Registry
  <1>3. Clean'
    BY <1>0, <1>1, KeyStoreAssumption DEF Clean, Empty
  <1>4. CleanDisk' /\ (revoked \subseteq ID \X Hash)'
    BY <1>0, <1>1, CutSame DEF CleanDisk, SameRecords
  <1>5. Pending'
    BY <1>1 DEF Pending, NoJob
  <1> QED
    BY <1>2, <1>3, <1>4, <1>5 DEF Revocations, IndexKept, Clean, CleanDisk, Pending

LEMMA RevocationsStep ==
  ASSUME KeyInv, CacheInv', ~Cleanup, [Next]_vars
  PROVE  Revocations'
  <1> USE DEF memVars, flags, diskVars, history
  <1>0. CacheInv /\ Shape /\ Attached /\ Process
    BY DEF KeyInv, CacheInv
  <1>j. NoJob.st = "idle"
    BY DEF NoJob
  <1>1. CASE Deliver
    BY <1>1, RevokedDeliver
  <1>2. CASE ClearGeneration \/ WriteBatch
    <2>1. /\ job.st \in {"clear", "batch"} /\ recs' = BatchTo
          /\ job' = [job EXCEPT !.st = "batch"] \/ job' = [job EXCEPT !.st = "flip"]
          /\ UNCHANGED <<byID, byHash, version, log, revoked, meta>>
      BY <1>2 DEF ClearGeneration, WriteBatch
    <2>2. job'.by = job.by /\ job.st # "idle"
      BY <1>0, <2>1 DEF Shape, Jobs
    <2>3. DiskKept
      BY <1>0, <2>1, BatchSame DEF DiskKept
    <2> QED
      BY <2>1, <2>2, <2>3, RevokedKept
  <1>3. CASE FlipMeta
    BY <1>3, RevokedFlip
  <1>4. CASE DropGeneration \/ Transaction
    <2>1. /\ job.st # "idle" /\ Succeeds(job) /\ job' = NoJob /\ dirty' = FALSE
          /\ UNCHANGED <<proc, open, byID, byHash, version, log>>
      BY <1>4 DEF DropGeneration, Transaction, Succeeds
    <2>2. proc = "up" /\ open /\ job.by # "load"
      BY <1>0, <1>4 DEF DropGeneration, Transaction, CacheInv, Process, Written, Shape
    <2>3. Saved'
      BY <1>j, <2>1, <2>2 DEF CacheInv, Stored
    <2>4. meta.st = "ok" /\ meta'.st = "ok"
      BY <1>0, <1>4 DEF DropGeneration, Transaction, CacheInv, Written, Shape, Metas
    <2> QED
      BY <2>1, <2>2, <2>3, <2>4, RevokedSucceeds
  <1>5. CASE WriteFails
    <2>1. /\ recs' \in Between(recs, BatchTo) /\ job' = NoJob
          /\ UNCHANGED <<byID, byHash, version, log, revoked, meta>>
      BY <1>5 DEF WriteFails, Fails
    <2>2. DiskKept
      BY <1>0, <2>1, CutSame DEF DiskKept
    <2> QED
      BY <1>j, <2>1, <2>2, RevokedKept
  <1>6. CASE retryLoop
    <2>1. UNCHANGED <<byID, byHash, version, log, revoked, meta, recs>>
      BY <1>6 DEF retryLoop
    <2>2. job' = job \/ job'.by = "retry"
      <3>1. Generation("retry", byID, version, "never").by = "retry"
        BY DEF Generation, Whole
      <3>2. job' \in {job, Generation("retry", byID, version, "never")}
        BY <1>6 DEF retryLoop
      <3> QED
        BY <3>1, <3>2
    <2>3. DiskKept
      BY <2>1 DEF DiskKept, SameRecords
    <2> QED
      BY <2>1, <2>2, <2>3, RevokedKept
  <1>7. CASE Start \/ LoadFresh \/ CloseKeyStore
    <2>1. UNCHANGED <<byID, byHash, version, log, revoked, meta, recs, job>>
      BY <1>7 DEF Start, LoadFresh, CloseKeyStore
    <2>2. DiskKept
      BY <2>1 DEF DiskKept, SameRecords
    <2> QED
      BY <2>1, <2>2, RevokedKept
  <1>8. CASE LoadDiscard
    <2>1. /\ UNCHANGED <<byID, byHash, version, log, revoked, meta>>
          /\ meta.st = "ok" => recs' = Gen(meta.gen)
          /\ job' = Whole("load", Empty, 0, "never")
      BY <1>8 DEF LoadDiscard
    <2>2. DiskKept /\ job'.by = "load"
      BY <2>1 DEF DiskKept, SameRecords, Gen, Whole
    <2> QED
      BY <2>1, <2>2, RevokedKept
  <1>9. CASE Discarded
    <2>1. /\ UNCHANGED <<byID, byHash, version, log, revoked, meta>>
          /\ job.st = "drop" /\ recs' = BatchTo /\ job' = NoJob
      BY <1>9 DEF Discarded
    <2>2. DiskKept
      BY <1>0, <2>1, BatchSame DEF DiskKept
    <2> QED
      BY <1>j, <2>1, <2>2, RevokedKept
  <1>10. CASE LoadRestore
    BY <1>10, RevokedRestore
  <1>11. CASE DegradeKeyStore
    <2>1. /\ recs' \in Between(recs, BatchTo) /\ job' = NoJob
          /\ UNCHANGED <<byID, byHash, version, log, revoked, meta>>
      BY <1>11 DEF DegradeKeyStore
    <2>2. DiskKept
      BY <1>0, <2>1, CutSame DEF DiskKept
    <2> QED
      BY <1>j, <2>1, <2>2, RevokedKept
  <1>12. CASE Crash
    BY <1>12, RevokedCrash
  <1>13. CASE MetaUnusable
    <2>1. /\ UNCHANGED <<byID, byHash, version, log, revoked, job>>
          /\ meta' = [meta EXCEPT !.st = "bad"]
      BY <1>13 DEF MetaUnusable
    <2>2. meta'.st # "ok"
      BY <1>0, <2>1 DEF Shape, Metas
    <2> QED
      BY <2>1, <2>2, RevokedKept
  <1>14. CASE TimePasses
    <2>1. /\ meta' = [meta EXCEPT !.conf = Older(@)] /\ job' = [job EXCEPT !.conf = Older(@)]
          /\ UNCHANGED <<byID, byHash, version, log, revoked, recs>>
      BY <1>14 DEF TimePasses
    <2>2. DiskKept /\ job'.st = job.st /\ job'.by = job.by
      BY <1>0, <2>1 DEF DiskKept, SameRecords, Shape, Metas, Jobs
    <2> QED
      BY <2>1, <2>2, RevokedKept
  <1>15. CASE UNCHANGED vars
    <2>1. UNCHANGED <<byID, byHash, version, log, revoked, meta, recs, job>>
      BY <1>15 DEF vars
    <2>2. DiskKept
      BY <2>1 DEF DiskKept, SameRecords
    <2> QED
      BY <2>1, <2>2, RevokedKept
  <1> QED
    BY <1>1, <1>2, <1>3, <1>4, <1>5, <1>6, <1>7, <1>8, <1>9, <1>10, <1>11, <1>12, <1>13, <1>14,
       <1>15 DEF Next, Write, Load

(* While the records a load skips can be deleted, no crash, failed write   *)
(* or restart lets a key or hash that an acknowledged push ended           *)
(* authenticate again, and the index of hashes is that of the registry.    *)
THEOREM RevocationHolds ==
  ASSUME ~Cleanup
  PROVE  Spec => []RevokedStaysOut
  <1>1. Init => KeyInv
    BY InitCache, RevocationsInit DEF KeyInv
  <1>2. KeyInv /\ [Next]_vars => KeyInv'
    BY CacheInvStep, RevocationsStep DEF KeyInv
  <1>3. KeyInv => RevokedStaysOut
    BY IndexIs DEF KeyInv, Revocations, RevokedStaysOut
  <1> QED
    BY <1>1, <1>2, <1>3, PTL DEF Spec
=============================================================================
