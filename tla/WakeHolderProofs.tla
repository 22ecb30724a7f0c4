-------------------------- MODULE WakeHolderProofs --------------------------
(***************************************************************************)
(* Proofs about WakeHolder, for any requests, models, callers and limits:  *)
(* the counters of the Holder are the requests they stand for and the      *)
(* limits hold (DemandExact), one poll runs per model with held requests   *)
(* (OnePoll), and no request sleeps through an agent that came with a Wake *)
(* (WakeNotMissed).                                                        *)
(*                                                                         *)
(* The argument: every action changes one request, and one entry for that  *)
(* request's model. Exact(e, m) says entry e counts the requests of m.     *)
(* The lemmas show that Joins, Leaves and Undemands keep an entry exact    *)
(* when the request moves, that Put and removeIfIdle then keep the map of  *)
(* entries exact, and that no other model is touched.                      *)
(***************************************************************************)
EXTENDS WakeHolder, TLAPS, FiniteSetTheorems

USE ZenonT(10), SMTT(60)

Callers == Caller \cup {NoCaller}
HeldBy(m, k) == {c \in HeldFor(m) : CallerOf(c) = k}
Wanted(m, k) == {c \in Call : Pending(c) /\ ModelOf[c] = m /\ key[c] = k}

(* Entry e counts the requests of model m, and has a poll while it has     *)
(* requests held.                                                          *)
Exact(e, m) ==
    /\ e.holds = Cardinality(HeldFor(m))
    /\ \A k \in Callers : e.callers[k] = Cardinality(HeldBy(m, k))
    /\ \A k \in Keys : e.demand[k] = Cardinality(Wanted(m, k))
    /\ e.stop = NoPoll <=> HeldFor(m) = {}

Entered ==
    /\ \A m \in Model : Exact(EntryOf(m), m)
    /\ \A m \in Model : m \in DOMAIN models <=> \E c \in Call : Pending(c) /\ ModelOf[c] = m

(* release runs after leave, and a request is new to the polls until it    *)
(* enters.                                                                 *)
Path ==
    \A c \in Call : /\ c \in once => pc[c] \in {"released", "ended"}
                    /\ pc[c] \in {"new", "enter"} => poll[c] = "none" /\ c \notin stopped

HoldInv ==
    /\ TypeOK /\ Path /\ Entered /\ WithinLimits
    /\ total = Cardinality({c \in Call : Held(c)})
    /\ OnePoll /\ WakeNotMissed

-----------------------------------------------------------------------------
(* Finite sets of calls.                                                   *)

LEMMA Counts ==
  ASSUME NEW S \in SUBSET Call
  PROVE  IsFiniteSet(S) /\ Cardinality(S) \in Nat /\ (Cardinality(S) = 0 <=> S = {})
  BY SetsAssumption, FS_Subset, FS_CardinalityType, FS_EmptySet

LEMMA OneMore ==
  ASSUME NEW S \in SUBSET Call, NEW c \in Call, c \notin S
  PROVE  Cardinality(S \cup {c}) = Cardinality(S) + 1
  BY Counts, FS_AddElement

LEMMA OneLess ==
  ASSUME NEW S \in SUBSET Call, NEW c \in S
  PROVE  Cardinality(S \ {c}) = Cardinality(S) - 1 /\ Cardinality(S) > 0
  BY SMTT(60), Counts, FS_RemoveElement

LEMMA Fewer ==
  ASSUME NEW S \in SUBSET Call, NEW T \in SUBSET S
  PROVE  Cardinality(T) <= Cardinality(S)
  BY Counts, FS_Subset

-----------------------------------------------------------------------------
(* The key of a request, and the map of entries.                           *)

LEMMA KeyTypes ==
  ASSUME TypeOK, NEW c \in Call
  PROVE  key[c] \in Keys /\ CallerOf(c) \in Callers /\ ModelOf[c] \in Model
  BY SMTT(60), SetsAssumption DEF TypeOK, Keys, CallerOf, Callers

LEMMA NewHoldType == NewHold \in Entries
  BY DEF NewHold, Entries

LEMMA EntryTypes ==
  ASSUME TypeOK, NEW m \in Model
  PROVE  EntryOf(m) \in Entries
  BY NewHoldType DEF TypeOK, EntryOf

(* An entry put in place.                                                  *)
LEMMA PutEntry ==
  ASSUME TypeOK, NEW m \in Model, NEW e \in Entries, models' = Put(m, e)
  PROVE  /\ models' \in [DOMAIN models' -> Entries] /\ DOMAIN models' = DOMAIN models \cup {m}
         /\ EntryOf(m)' = e
         /\ \A x \in Model \ {m} : EntryOf(x)' = EntryOf(x)
  BY DEF TypeOK, Put, EntryOf, NewHold

Idle(e) == e.holds = 0 /\ \A k \in Keys : e.demand[k] = 0

(* An entry put in place, or removed.                                      *)
LEMMA KeepEntry ==
  ASSUME TypeOK, NEW m \in DOMAIN models, NEW e \in Entries, models' = removeIfIdle(m, e)
  PROVE  /\ models' \in [DOMAIN models' -> Entries]
         /\ DOMAIN models' = IF Idle(e) THEN DOMAIN models \ {m} ELSE DOMAIN models
         /\ EntryOf(m)' = IF Idle(e) THEN NewHold ELSE e
         /\ \A x \in Model \ {m} : EntryOf(x)' = EntryOf(x)
  <1>1. CASE Idle(e)
    BY <1>1 DEF TypeOK, removeIfIdle, Idle, Restrict, EntryOf, NewHold
  <1>2. CASE ~Idle(e)
    <2>1. models' = Put(m, e)
      BY <1>2 DEF removeIfIdle, Idle
    <2>2. m \in Model /\ DOMAIN models \cup {m} = DOMAIN models
      BY DEF TypeOK
    <2> QED
      BY <1>2, <2>1, <2>2, PutEntry
  <1> QED
    BY <1>1, <1>2

-----------------------------------------------------------------------------
(* One request moves; the others stay where they are.                      *)

Moves(c) ==
    /\ key' = key
    /\ \A d \in Call \ {c} : pc'[d] = pc[d] /\ (d \in once' <=> d \in once)

LEMMA OthersStay ==
  ASSUME NEW c \in Call, Moves(c), NEW m \in Model, m # ModelOf[c]
  PROVE  /\ HeldFor(m)' = HeldFor(m)
         /\ \A k \in Callers : HeldBy(m, k)' = HeldBy(m, k)
         /\ \A k \in Keys : Wanted(m, k)' = Wanted(m, k)
         /\ (\E d \in Call : Pending(d) /\ ModelOf[d] = m)' <=> (\E d \in Call : Pending(d) /\ ModelOf[d] = m)
  <1>1. \A d \in Call : ModelOf[d] = m => /\ Held(d)' <=> Held(d)
                                          /\ Pending(d)' <=> Pending(d)
                                          /\ CallerOf(d)' = CallerOf(d) /\ key'[d] = key[d]
    BY DEF Moves, Held, Pending, CallerOf
  <1>2. HeldFor(m)' = HeldFor(m)
    BY <1>1 DEF HeldFor
  <1>3. \A k \in Callers : HeldBy(m, k)' = HeldBy(m, k)
    BY <1>1, <1>2 DEF HeldBy, HeldFor
  <1>4. \A k \in Keys : Wanted(m, k)' = Wanted(m, k)
    BY <1>1 DEF Wanted
  <1> QED
    BY <1>1, <1>2, <1>3, <1>4

(* An exact entry with nothing in it stands for no request.                *)
LEMMA IdleExact ==
  ASSUME key' \in Requests, NEW m \in Model, NEW e \in Entries, Exact(e, m)'
  PROVE  /\ Idle(e) <=> ~ (\E c \in Call : Pending(c) /\ ModelOf[c] = m)'
         /\ Idle(e) => Exact(NewHold, m)'
  <1>1. \A c \in Call : key'[c] \in Keys
    BY SMTT(60), SetsAssumption DEF Keys
  <1>2. HeldFor(m)' \in SUBSET Call /\ \A k : Wanted(m, k)' \in SUBSET Call /\ HeldBy(m, k)' \in SUBSET Call
    BY DEF HeldFor, Wanted, HeldBy
  <1>3. Idle(e) <=> HeldFor(m)' = {} /\ \A k \in Keys : Wanted(m, k)' = {}
    BY <1>2, Counts DEF Exact, Idle
  <1>4. (\A k \in Keys : Wanted(m, k)' = {}) <=> ~ (\E c \in Call : Pending(c) /\ ModelOf[c] = m)'
    BY <1>1 DEF Wanted
  <1>5. ~ (\E c \in Call : Pending(c) /\ ModelOf[c] = m)' => HeldFor(m)' = {}
    BY DEF Pending, HeldFor
  <1>6. ASSUME Idle(e) PROVE Exact(NewHold, m)'
    <2>1. \A k \in Callers : HeldBy(m, k)' = {}
      BY <1>3, <1>6 DEF HeldBy
    <2>2. NewHold.holds = 0 /\ NewHold.stop = NoPoll
          /\ (\A k \in Callers : NewHold.callers[k] = 0) /\ \A k \in Keys : NewHold.demand[k] = 0
      BY DEF NewHold, Callers
    <2> QED
      BY <1>3, <1>6, <2>1, <2>2, FS_EmptySet DEF Exact
  <1> QED
    BY <1>3, <1>4, <1>5, <1>6

LEMMA ExactStays ==
  ASSUME NEW c \in Call, Moves(c), Entered, NEW m \in Model, m # ModelOf[c], EntryOf(m)' = EntryOf(m)
  PROVE  Exact(EntryOf(m), m)'
  BY SMTT(60), OthersStay DEF Entered, Exact

(* A request enters: its model's entry is put in place.                    *)
LEMMA EnteredPut ==
  ASSUME NEW c \in Call, Moves(c), TypeOK, Entered, Pending(c)', NEW e \in Entries,
         models' = Put(ModelOf[c], e), Exact(e, ModelOf[c])'
  PROVE  Entered' /\ models' \in [DOMAIN models' -> Entries] /\ DOMAIN models' \subseteq Model
  <1> DEFINE m == ModelOf[c]
  <1>0. m \in Model
    BY KeyTypes
  <1>1. /\ models' \in [DOMAIN models' -> Entries] /\ DOMAIN models' = DOMAIN models \cup {m}
        /\ EntryOf(m)' = e
        /\ \A x \in Model \ {m} : EntryOf(x)' = EntryOf(x)
    BY <1>0, PutEntry
  <1>2. ASSUME NEW x \in Model
        PROVE  /\ Exact(EntryOf(x), x)'
               /\ (x \in DOMAIN models <=> \E d \in Call : Pending(d) /\ ModelOf[d] = x)'
    <2>1. CASE x = m
      <3>1. Exact(EntryOf(x), x)'
        BY <1>1, <2>1 DEF Exact
      <3> QED
        BY <1>1, <2>1, <3>1
    <2>2. CASE x # m
      BY <1>1, <2>2, ExactStays, OthersStay DEF Entered
    <2> QED
      BY <2>1, <2>2
  <1> QED
    BY <1>0, <1>1, <1>2 DEF Entered, TypeOK

(* A request leaves: its model's entry is kept or removed.                 *)
LEMMA EnteredKeep ==
  ASSUME NEW c \in Call, Moves(c), TypeOK, Entered, Pending(c), NEW e \in Entries,
         models' = removeIfIdle(ModelOf[c], e), key' \in Requests, Exact(e, ModelOf[c])'
  PROVE  Entered' /\ models' \in [DOMAIN models' -> Entries] /\ DOMAIN models' \subseteq Model
  <1> DEFINE m == ModelOf[c]
  <1>0. m \in Model /\ m \in DOMAIN models
    BY KeyTypes DEF Entered
  <1>1. /\ models' \in [DOMAIN models' -> Entries]
        /\ DOMAIN models' = IF Idle(e) THEN DOMAIN models \ {m} ELSE DOMAIN models
        /\ EntryOf(m)' = IF Idle(e) THEN NewHold ELSE e
        /\ \A x \in Model \ {m} : EntryOf(x)' = EntryOf(x)
    BY <1>0, KeepEntry
  <1>2. ASSUME NEW x \in Model
        PROVE  /\ Exact(EntryOf(x), x)'
               /\ (x \in DOMAIN models <=> \E d \in Call : Pending(d) /\ ModelOf[d] = x)'
    <2>1. CASE x = m
      <3>1. /\ Idle(e) <=> ~ (\E d \in Call : Pending(d) /\ ModelOf[d] = m)'
            /\ Idle(e) => Exact(NewHold, m)'
        BY <1>0, IdleExact
      <3>2. Exact(EntryOf(x), x)'
        BY <1>1, <2>1, <3>1 DEF Exact
      <3> QED
        BY <1>0, <1>1, <2>1, <3>1, <3>2
    <2>2. CASE x # m
      BY <1>1, <2>2, ExactStays, OthersStay DEF Entered
    <2> QED
      BY <2>1, <2>2
  <1> QED
    BY <1>0, <1>1, <1>2 DEF Entered, TypeOK

LEMMA MoverJoins ==
  ASSUME NEW c \in Call, Moves(c), ~Held(c), Held(c)', ~Pending(c), Pending(c)'
  PROVE  LET m == ModelOf[c] IN
         /\ HeldFor(m)' = HeldFor(m) \cup {c} /\ c \notin HeldFor(m)
         /\ \A k \in Callers : k = CallerOf(c) => HeldBy(m, k)' = HeldBy(m, k) \cup {c} /\ c \notin HeldBy(m, k)
         /\ \A k \in Callers \ {CallerOf(c)} : HeldBy(m, k)' = HeldBy(m, k)
         /\ \A k \in Keys : k = key[c] => Wanted(m, k)' = Wanted(m, k) \cup {c} /\ c \notin Wanted(m, k)
         /\ \A k \in Keys \ {key[c]} : Wanted(m, k)' = Wanted(m, k)
  <1>1. \A d \in Call \ {c} : (Held(d)' <=> Held(d)) /\ (Pending(d)' <=> Pending(d))
    BY DEF Moves, Held, Pending
  <1>2. \A d \in Call : key'[d] = key[d] /\ CallerOf(d)' = CallerOf(d)
    BY DEF Moves, CallerOf
  <1>3. HeldFor(ModelOf[c])' = HeldFor(ModelOf[c]) \cup {c} /\ c \notin HeldFor(ModelOf[c])
    BY <1>1 DEF HeldFor
  <1>4. /\ \A k \in Callers : k = CallerOf(c) => HeldBy(ModelOf[c], k)' = HeldBy(ModelOf[c], k) \cup {c} /\ c \notin HeldBy(ModelOf[c], k)
        /\ \A k \in Callers \ {CallerOf(c)} : HeldBy(ModelOf[c], k)' = HeldBy(ModelOf[c], k)
    BY <1>2, <1>3 DEF HeldBy, HeldFor
  <1>5. /\ \A k \in Keys : k = key[c] => Wanted(ModelOf[c], k)' = Wanted(ModelOf[c], k) \cup {c} /\ c \notin Wanted(ModelOf[c], k)
        /\ \A k \in Keys \ {key[c]} : Wanted(ModelOf[c], k)' = Wanted(ModelOf[c], k)
    BY <1>1, <1>2 DEF Wanted
  <1> QED
    BY <1>3, <1>4, <1>5

LEMMA MoverLeaves ==
  ASSUME NEW c \in Call, Moves(c), Held(c), ~Held(c)', Pending(c)'
  PROVE  LET m == ModelOf[c] IN
         /\ HeldFor(m)' = HeldFor(m) \ {c} /\ c \in HeldFor(m)
         /\ \A k \in Callers : k = CallerOf(c) => HeldBy(m, k)' = HeldBy(m, k) \ {c} /\ c \in HeldBy(m, k)
         /\ \A k \in Callers \ {CallerOf(c)} : HeldBy(m, k)' = HeldBy(m, k)
         /\ \A k \in Keys : Wanted(m, k)' = Wanted(m, k)
  <1>1. \A d \in Call : (d # c => (Held(d)' <=> Held(d))) /\ (Pending(d)' <=> Pending(d))
    BY DEF Moves, Held, Pending
  <1>2. \A d \in Call : key'[d] = key[d] /\ CallerOf(d)' = CallerOf(d)
    BY DEF Moves, CallerOf
  <1>3. HeldFor(ModelOf[c])' = HeldFor(ModelOf[c]) \ {c} /\ c \in HeldFor(ModelOf[c])
    BY <1>1 DEF HeldFor
  <1>4. /\ \A k \in Callers : k = CallerOf(c) => HeldBy(ModelOf[c], k)' = HeldBy(ModelOf[c], k) \ {c} /\ c \in HeldBy(ModelOf[c], k)
        /\ \A k \in Callers \ {CallerOf(c)} : HeldBy(ModelOf[c], k)' = HeldBy(ModelOf[c], k)
    BY <1>2, <1>3 DEF HeldBy, HeldFor
  <1>5. \A k \in Keys : Wanted(ModelOf[c], k)' = Wanted(ModelOf[c], k)
    BY <1>1, <1>2 DEF Wanted
  <1> QED
    BY <1>3, <1>4, <1>5

LEMMA MoverUndemands ==
  ASSUME NEW c \in Call, Moves(c), ~Held(c), ~Held(c)', Pending(c), ~Pending(c)'
  PROVE  LET m == ModelOf[c] IN
         /\ HeldFor(m)' = HeldFor(m)
         /\ \A k \in Callers : HeldBy(m, k)' = HeldBy(m, k)
         /\ \A k \in Keys : k = key[c] => Wanted(m, k)' = Wanted(m, k) \ {c} /\ c \in Wanted(m, k)
         /\ \A k \in Keys \ {key[c]} : Wanted(m, k)' = Wanted(m, k)
  <1>1. \A d \in Call : (d # c => (Pending(d)' <=> Pending(d))) /\ (Held(d)' <=> Held(d))
    BY DEF Moves, Held, Pending
  <1>2. \A d \in Call : key'[d] = key[d] /\ CallerOf(d)' = CallerOf(d)
    BY DEF Moves, CallerOf
  <1>3. HeldFor(ModelOf[c])' = HeldFor(ModelOf[c])
    BY <1>1 DEF HeldFor
  <1>4. \A k \in Callers : HeldBy(ModelOf[c], k)' = HeldBy(ModelOf[c], k)
    BY <1>2, <1>3 DEF HeldBy, HeldFor
  <1>5. /\ \A k \in Keys : k = key[c] => Wanted(ModelOf[c], k)' = Wanted(ModelOf[c], k) \ {c} /\ c \in Wanted(ModelOf[c], k)
        /\ \A k \in Keys \ {key[c]} : Wanted(ModelOf[c], k)' = Wanted(ModelOf[c], k)
    BY <1>1, <1>2 DEF Wanted
  <1> QED
    BY <1>3, <1>4, <1>5

(* The sets an entry counts are sets of calls.                             *)
LEMMA CallSets ==
  ASSUME NEW m, NEW k
  PROVE  HeldFor(m) \in SUBSET Call /\ HeldBy(m, k) \in SUBSET Call /\ Wanted(m, k) \in SUBSET Call
  BY DEF HeldFor, HeldBy, Wanted

(* The entry that enter leaves is exact.                                   *)
LEMMA JoinsType ==
  ASSUME TypeOK, NEW c \in Call, NEW e \in Entries
  PROVE  Joins(e, c) \in Entries
  <1>1. key[c] \in Keys /\ CallerOf(c) \in Callers
    BY KeyTypes
  <1>2. [e.callers EXCEPT ![CallerOf(c)] = @ + 1] \in [Callers -> Nat]
    BY SMTT(60), <1>1 DEF Entries, Callers
  <1>3. [e.demand EXCEPT ![key[c]] = @ + 1] \in [Keys -> Nat]
    BY SMTT(60), <1>1 DEF Entries
  <1> QED
    BY SMTT(60), <1>2, <1>3 DEF Joins, Entries, Callers

LEMMA JoinsExact ==
  ASSUME NEW c \in Call, Moves(c), TypeOK, ~Held(c), Held(c)', ~Pending(c), Pending(c)',
         NEW e \in Entries, Exact(e, ModelOf[c]), NEW j, j = Joins(e, c)
  PROVE  Exact(j, ModelOf[c])'
  <1> DEFINE m == ModelOf[c]
  <1>0. key[c] \in Keys /\ CallerOf(c) \in Callers /\ c # NoPoll
    BY KeyTypes, SetsAssumption
  <1>1. /\ j.holds = e.holds + 1
        /\ j.callers = [e.callers EXCEPT ![CallerOf(c)] = @ + 1]
        /\ j.demand = [e.demand EXCEPT ![key[c]] = @ + 1]
        /\ j.stop = IF e.stop = NoPoll THEN c ELSE e.stop
    BY DEF Joins
  <1>2. e.callers \in [Callers -> Nat] /\ e.demand \in [Keys -> Nat]
    BY DEF Entries, Callers
  <1>4. /\ HeldFor(m)' = HeldFor(m) \cup {c} /\ c \notin HeldFor(m)
        /\ \A k \in Callers : k = CallerOf(c) => HeldBy(m, k)' = HeldBy(m, k) \cup {c} /\ c \notin HeldBy(m, k)
        /\ \A k \in Callers \ {CallerOf(c)} : HeldBy(m, k)' = HeldBy(m, k)
        /\ \A k \in Keys : k = key[c] => Wanted(m, k)' = Wanted(m, k) \cup {c} /\ c \notin Wanted(m, k)
        /\ \A k \in Keys \ {key[c]} : Wanted(m, k)' = Wanted(m, k)
    BY MoverJoins
  <1>5. j.holds = Cardinality(HeldFor(m)')
    BY SMTT(60), <1>1, <1>4, CallSets, OneMore DEF Exact
  <1>6. ASSUME NEW k \in Callers PROVE j.callers[k] = Cardinality(HeldBy(m, k)')
    <2>1. e.callers[k] = Cardinality(HeldBy(m, k)) /\ HeldBy(m, k) \in SUBSET Call
      BY CallSets DEF Exact
    <2>2. CASE k = CallerOf(c)
      BY SMTT(60), <1>1, <1>2, <1>4, <2>1, <2>2, OneMore
    <2>3. CASE k # CallerOf(c)
      BY <1>1, <1>2, <1>4, <2>1, <2>3
    <2> QED
      BY <2>2, <2>3
  <1>7. ASSUME NEW k \in Keys PROVE j.demand[k] = Cardinality(Wanted(m, k)')
    <2>1. e.demand[k] = Cardinality(Wanted(m, k)) /\ Wanted(m, k) \in SUBSET Call
      BY CallSets DEF Exact
    <2>2. CASE k = key[c]
      BY SMTT(60), <1>1, <1>2, <1>4, <2>1, <2>2, OneMore
    <2>3. CASE k # key[c]
      BY <1>1, <1>2, <1>4, <2>1, <2>3
    <2> QED
      BY <2>2, <2>3
  <1>8. j.stop # NoPoll /\ HeldFor(m)' # {}
    BY <1>0, <1>1, <1>4
  <1> QED
    BY <1>5, <1>6, <1>7, <1>8 DEF Exact

(* The entry that leave leaves is exact, and its counters did not pass 0.  *)
LEMMA LeavesExact ==
  ASSUME NEW c \in Call, Moves(c), TypeOK, Held(c), ~Held(c)', Pending(c)',
         NEW e \in Entries, Exact(e, ModelOf[c]), NEW j, j = Leaves(e, c)
  PROVE  j \in Entries /\ Exact(j, ModelOf[c])' /\ e.holds > 0 /\ e.stop # NoPoll
  <1> DEFINE m == ModelOf[c]
  <1>0. key[c] \in Keys /\ CallerOf(c) \in Callers
    BY KeyTypes
  <1>1. /\ j = [holds |-> j.holds, callers |-> j.callers, demand |-> j.demand, stop |-> j.stop]
        /\ j.holds = e.holds - 1
        /\ j.callers = [e.callers EXCEPT ![CallerOf(c)] = @ - 1]
        /\ j.demand = e.demand
        /\ j.stop = IF e.holds = 1 THEN NoPoll ELSE e.stop
    BY DEF Leaves
  <1>2. e.holds \in Nat /\ e.callers \in [Callers -> Nat] /\ e.demand \in [Keys -> Nat]
        /\ e.stop \in Call \cup {NoPoll}
    BY DEF Entries, Callers
  <1>4. /\ HeldFor(m)' = HeldFor(m) \ {c} /\ c \in HeldFor(m)
        /\ \A k \in Callers : k = CallerOf(c) => HeldBy(m, k)' = HeldBy(m, k) \ {c} /\ c \in HeldBy(m, k)
        /\ \A k \in Callers \ {CallerOf(c)} : HeldBy(m, k)' = HeldBy(m, k)
        /\ \A k \in Keys : Wanted(m, k)' = Wanted(m, k)
    BY MoverLeaves
  <1>5. j.holds = Cardinality(HeldFor(m)') /\ e.holds > 0
    BY SMTT(60), <1>1, <1>4, CallSets, OneLess DEF Exact
  <1>6. ASSUME NEW k \in Callers
        PROVE  j.callers[k] = Cardinality(HeldBy(m, k)') /\ j.callers[k] \in Nat
    <2>1. e.callers[k] = Cardinality(HeldBy(m, k)) /\ HeldBy(m, k) \in SUBSET Call
      BY CallSets DEF Exact
    <2>2. CASE k = CallerOf(c)
      BY SMTT(60), <1>1, <1>2, <1>4, <2>1, <2>2, OneLess
    <2>3. CASE k # CallerOf(c)
      BY <1>1, <1>2, <1>4, <2>1, <2>3
    <2> QED
      BY <2>2, <2>3
  <1>7. \A k \in Keys : j.demand[k] = Cardinality(Wanted(m, k)')
    BY <1>1, <1>4 DEF Exact
  <1>8. e.stop # NoPoll /\ (j.stop = NoPoll <=> HeldFor(m)' = {})
    <2>1. HeldFor(m)' \in SUBSET Call
      BY DEF HeldFor
    <2>2. HeldFor(m)' = {} <=> j.holds = 0
      BY <1>5, <2>1, Counts
    <2>3. e.stop # NoPoll
      BY <1>4 DEF Exact
    <2> QED
      BY SMTT(60), <1>1, <1>2, <2>2, <2>3
  <1>9. j \in Entries
    <2>1. j.callers \in [Callers -> Nat]
      BY <1>1, <1>2, <1>6
    <2>2. j.holds \in Nat /\ j.stop \in Call \cup {NoPoll}
      BY SMTT(60), <1>1, <1>2, <1>5
    <2> QED
      BY <1>1, <1>2, <2>1, <2>2 DEF Entries, Callers
  <1>10. Exact(j, m)'
    BY <1>5, <1>6, <1>7, <1>8 DEF Exact
  <1> QED
    BY <1>5, <1>8, <1>9, <1>10

(* The entry that leaveDemand leaves is exact.                             *)
LEMMA UndemandsExact ==
  ASSUME NEW c \in Call, Moves(c), TypeOK, ~Held(c), ~Held(c)', Pending(c), ~Pending(c)',
         NEW e \in Entries, Exact(e, ModelOf[c]), NEW j, j = Undemands(e, c)
  PROVE  j \in Entries /\ Exact(j, ModelOf[c])' /\ j.stop = e.stop
  <1> DEFINE m == ModelOf[c]
  <1>0. key[c] \in Keys
    BY KeyTypes
  <1>1. /\ j = [holds |-> j.holds, callers |-> j.callers, demand |-> j.demand, stop |-> j.stop]
        /\ j.holds = e.holds /\ j.callers = e.callers /\ j.stop = e.stop
        /\ j.demand = [e.demand EXCEPT ![key[c]] = @ - 1]
    BY DEF Undemands
  <1>2. e.holds \in Nat /\ e.callers \in [Callers -> Nat] /\ e.demand \in [Keys -> Nat]
        /\ e.stop \in Call \cup {NoPoll}
    BY DEF Entries, Callers
  <1>4. /\ HeldFor(m)' = HeldFor(m)
        /\ \A k \in Callers : HeldBy(m, k)' = HeldBy(m, k)
        /\ \A k \in Keys : k = key[c] => Wanted(m, k)' = Wanted(m, k) \ {c} /\ c \in Wanted(m, k)
        /\ \A k \in Keys \ {key[c]} : Wanted(m, k)' = Wanted(m, k)
    BY MoverUndemands
  <1>5. ASSUME NEW k \in Keys
        PROVE  j.demand[k] = Cardinality(Wanted(m, k)') /\ j.demand[k] \in Nat
    <2>1. e.demand[k] = Cardinality(Wanted(m, k)) /\ Wanted(m, k) \in SUBSET Call
      BY CallSets DEF Exact
    <2>2. CASE k = key[c]
      BY SMTT(60), <1>1, <1>2, <1>4, <2>1, <2>2, OneLess
    <2>3. CASE k # key[c]
      BY <1>1, <1>2, <1>4, <2>1, <2>3
    <2> QED
      BY <2>2, <2>3
  <1>6. j \in Entries
    <2>1. j.demand \in [Keys -> Nat]
      BY <1>1, <1>2, <1>5
    <2> QED
      BY <1>1, <1>2, <2>1 DEF Entries, Callers
  <1>7. Exact(j, m)'
    BY <1>1, <1>4, <1>5 DEF Exact
  <1> QED
    BY <1>1, <1>6, <1>7

-----------------------------------------------------------------------------
(* Steps that neither admit a request to the hold nor let one go.          *)

Kept == {c \in Call : Held(c)}

LEMMA SetsStay ==
  ASSUME key' = key, \A d \in Call : (Held(d)' <=> Held(d)) /\ (Pending(d)' <=> Pending(d))
  PROVE  /\ Kept' = Kept
         /\ \A m \in Model : HeldFor(m)' = HeldFor(m)
         /\ \A m \in Model, k \in Callers : HeldBy(m, k)' = HeldBy(m, k)
         /\ \A m \in Model, k \in Keys : Wanted(m, k)' = Wanted(m, k)
  <1>1. \A d \in Call : CallerOf(d)' = CallerOf(d)
    BY DEF CallerOf
  <1>2. \A m \in Model : HeldFor(m)' = HeldFor(m)
    BY DEF HeldFor
  <1>3. \A m \in Model, k \in Callers : HeldBy(m, k)' = HeldBy(m, k)
    BY <1>1, <1>2 DEF HeldBy, HeldFor
  <1>4. \A m \in Model, k \in Keys : Wanted(m, k)' = Wanted(m, k)
    BY DEF Wanted
  <1> QED
    BY <1>2, <1>3, <1>4 DEF Kept

LEMMA EnteredStays ==
  ASSUME Entered, UNCHANGED <<key, models>>,
         \A d \in Call : (Held(d)' <=> Held(d)) /\ (Pending(d)' <=> Pending(d))
  PROVE  Entered'
  <1>1. \A m : EntryOf(m)' = EntryOf(m)
    BY DEF EntryOf, NewHold
  <1>2. ASSUME NEW m \in Model PROVE Exact(EntryOf(m), m)'
    BY <1>1, SetsStay DEF Entered, Exact
  <1>3. \A m \in Model : (m \in DOMAIN models <=> \E c \in Call : Pending(c) /\ ModelOf[c] = m)'
    BY DEF Entered
  <1> QED
    BY <1>2, <1>3 DEF Entered

(* Fewer requests held stay within the limits.                             *)
LEMMA LimitsStay ==
  ASSUME WithinLimits, TypeOK, UNCHANGED <<key, limits>>, \A d \in Call : Held(d)' => Held(d)
  PROVE  WithinLimits'
  <1> DEFINE By(m, k) == {c \in HeldFor(m) : CallerOf(c) = k}
  <1>1. \A d \in Call : CallerOf(d)' = CallerOf(d)
    BY DEF CallerOf
  <1>2. limits \in [PerModel : Nat \ {0}, PerCaller : Nat \ {0}, Total : Nat \ {0}]
    BY LimitsAssumption DEF TypeOK
  <1>3. Kept' \in SUBSET Kept /\ Kept \in SUBSET Call
    BY DEF Kept
  <1>4. Cardinality(Kept') <= limits'.Total
    <2>1. Cardinality(Kept) <= limits.Total
      BY DEF WithinLimits, Kept
    <2>2. Cardinality(Kept') \in Nat /\ Cardinality(Kept) \in Nat /\ Cardinality(Kept') <= Cardinality(Kept)
      BY <1>3, Counts, Fewer
    <2> QED
      BY SMTT(60), <1>2, <2>1, <2>2
  <1>5. ASSUME NEW m \in Model PROVE Cardinality(HeldFor(m)') <= limits'.PerModel
    <2>1. HeldFor(m)' \in SUBSET HeldFor(m) /\ HeldFor(m) \in SUBSET Call
      BY DEF HeldFor
    <2>2. Cardinality(HeldFor(m)') \in Nat /\ Cardinality(HeldFor(m)) \in Nat
          /\ Cardinality(HeldFor(m)') <= Cardinality(HeldFor(m))
      BY <2>1, Counts, Fewer
    <2> QED
      BY SMTT(60), <1>2, <2>2 DEF WithinLimits
  <1>6. ASSUME NEW m \in Model, NEW k \in Caller PROVE Cardinality(By(m, k)') <= limits'.PerCaller
    <2>1. By(m, k)' \in SUBSET By(m, k) /\ By(m, k) \in SUBSET Call
      BY <1>1 DEF HeldFor
    <2>2. Cardinality(By(m, k)) <= limits.PerCaller
      BY DEF WithinLimits
    <2> HIDE DEF By
    <2>3. Cardinality(By(m, k)') \in Nat /\ Cardinality(By(m, k)) \in Nat
          /\ Cardinality(By(m, k)') <= Cardinality(By(m, k))
      BY <2>1, Counts, Fewer
    <2> QED
      BY SMTT(60), <1>2, <2>2, <2>3
  <1> QED
    BY <1>4, <1>5, <1>6 DEF WithinLimits, Kept

LivePolls(m) == {c \in Call : ModelOf[c] = m /\ poll[c] \in {"run", "wake"} /\ c \notin stopped}

LEMMA PollsStay ==
  ASSUME OnePoll,
         \A m \in Model : HeldFor(m)' = HeldFor(m),
         \A m \in Model : HeldFor(m) # {} => EntryOf(m)'.stop = EntryOf(m).stop,
         \A c \in Call : poll'[c] \in {"run", "wake"} /\ c \notin stopped'
                           <=> poll[c] \in {"run", "wake"} /\ c \notin stopped
  PROVE  OnePoll'
  <1>1. \A m \in Model : LivePolls(m)' = LivePolls(m)
    BY DEF LivePolls
  <1>2. ASSUME NEW m \in Model
        PROVE  LivePolls(m)' = IF HeldFor(m)' = {} THEN {} ELSE {EntryOf(m)'.stop}
    BY <1>1 DEF OnePoll, LivePolls
  <1> QED
    BY <1>2 DEF OnePoll, LivePolls

(* What every step without effect on the holds preserves.                  *)
LEMMA QuietStep ==
  ASSUME HoldInv, UNCHANGED <<key, limits, models, total>>,
         \A d \in Call : (Held(d)' <=> Held(d)) /\ (Pending(d)' <=> Pending(d)),
         \A c \in Call : poll'[c] \in {"run", "wake"} /\ c \notin stopped'
                           <=> poll[c] \in {"run", "wake"} /\ c \notin stopped
  PROVE  Entered' /\ WithinLimits' /\ total' = Cardinality({c \in Call : Held(c)})' /\ OnePoll'
  <1>1. Entered' /\ WithinLimits'
    BY EnteredStays, LimitsStay DEF HoldInv
  <1>2. Kept' = Kept /\ \A m \in Model : HeldFor(m)' = HeldFor(m)
    BY SetsStay
  <1>3. \A m : EntryOf(m)' = EntryOf(m)
    BY DEF EntryOf, NewHold
  <1>4. OnePoll'
    BY <1>2, <1>3, PollsStay DEF HoldInv
  <1> QED
    BY <1>1, <1>2, <1>4 DEF HoldInv, Kept

-----------------------------------------------------------------------------
(* A request is admitted to the hold.                                      *)
LEMMA EnterStep ==
  ASSUME HoldInv, NEW c \in Call, enter(c), UNCHANGED inputs
  PROVE  HoldInv'
  <1> DEFINE m == ModelOf[c]
  <1>0. TypeOK /\ Path /\ Entered /\ WithinLimits /\ OnePoll /\ WakeNotMissed
        /\ total = Cardinality(Kept) /\ m \in Model /\ c # NoPoll
    BY KeyTypes, SetsAssumption DEF HoldInv, Kept
  <1>1. PICK e : e = EntryOf(m)
    OBVIOUS
  <1>2. PICK j : j = Joins(e, c)
    OBVIOUS
  <1>3. /\ pc[c] = "enter" /\ ~Full(c) /\ key' = key /\ limits' = limits
        /\ poll' = IF e.stop = NoPoll THEN [poll EXCEPT ![c] = "run"] ELSE poll
        /\ total' = total + 1 /\ models' = Put(m, j)
        /\ ch' = [ch EXCEPT ![c] = "live"] /\ pc' = [pc EXCEPT ![c] = "check"]
        /\ UNCHANGED <<healthy, announced, news, events, outcome, once, slotted, stopped>>
    BY <1>1, <1>2 DEF enter, Goto, inputs, agentVars
  <1>4. e \in Entries /\ j \in Entries /\ Exact(e, m)
    BY <1>0, <1>1, <1>2, EntryTypes, JoinsType DEF Entered
  <1>5. Moves(c) /\ ~Held(c) /\ Held(c)' /\ ~Pending(c) /\ Pending(c)'
    BY <1>0, <1>3 DEF Moves, Held, Pending, TypeOK, Path
  <1>6. Exact(j, m)'
    BY <1>0, <1>2, <1>4, <1>5, JoinsExact
  <1>7. Entered' /\ models' \in [DOMAIN models' -> Entries] /\ DOMAIN models' \subseteq Model
    BY <1>0, <1>3, <1>4, <1>5, <1>6, EnteredPut
  <1>8. Kept' = Kept \cup {c} /\ c \notin Kept /\ Kept \in SUBSET Call
    BY <1>5 DEF Kept, Moves, Held
  <1>9. total' = Cardinality(Kept')
    BY <1>0, <1>3, <1>8, OneMore
  <1>10. TypeOK'
    <2>1. poll' \in [Call -> {"none", "run", "wake", "exit"}] /\ pc' \in [Call -> {"new", "enter", "check", "select", "rechan", "leave",
                        "undemand", "released", "ended", "done"}] /\ ch' \in [Call -> {"none", "live", "closed"}]
      BY <1>0, <1>3 DEF TypeOK
    <2>2. total' \in Nat
      BY SMTT(60), <1>0, <1>3 DEF TypeOK
    <2> QED
      BY <1>0, <1>3, <1>7, <2>1, <2>2 DEF TypeOK
  <1>11. Path'
    BY <1>0, <1>3 DEF Path, TypeOK
  <1>12. WithinLimits'
    <2>0. limits \in [PerModel : Nat \ {0}, PerCaller : Nat \ {0}, Total : Nat \ {0}]
      BY <1>0, LimitsAssumption DEF TypeOK
    <2>1. Cardinality(Kept') <= limits.Total
      BY SMTT(60), <1>0, <1>3, <1>9, <2>0 DEF Full, TypeOK
    <2>2. ASSUME NEW x \in Model PROVE Cardinality(HeldFor(x)') <= limits.PerModel
      <3>1. CASE x = m
        <4>1. j.holds = e.holds + 1 /\ Cardinality(HeldFor(m)') = j.holds /\ e.holds \in Nat
          BY <1>2, <1>4, <1>6 DEF Joins, Exact, Entries
        <4>2. e.holds < limits.PerModel
          BY SMTT(60), <1>1, <1>3, <1>4, <2>0 DEF Full, EntryOf, NewHold, Entries
        <4> QED
          BY SMTT(60), <2>0, <3>1, <4>1, <4>2
      <3>2. CASE x # m
        BY <1>0, <1>5, <3>2, OthersStay DEF WithinLimits
      <3> QED
        BY <3>1, <3>2
    <2>3. ASSUME NEW x \in Model, NEW k \in Caller PROVE Cardinality(HeldBy(x, k)') <= limits.PerCaller
      <3>0. Cardinality(HeldBy(x, k)) <= limits.PerCaller /\ k \in Callers
        BY <1>0 DEF WithinLimits, HeldBy, Callers
      <3>1. CASE x = m /\ k = CallerOf(c)
        <4>1. j.callers[k] = e.callers[k] + 1 /\ Cardinality(HeldBy(m, k)') = j.callers[k] /\ e.callers[k] \in Nat
          BY <1>2, <1>4, <1>6, <3>0, <3>1 DEF Joins, Exact, Entries, Callers
        <4>2. e.callers[k] < limits.PerCaller
          <5>1. k # NoCaller
            BY SetsAssumption
          <5>2. m \in DOMAIN models => ~ (models[m].callers[k] >= limits.PerCaller)
            BY <1>3, <3>1, <5>1 DEF Full
          <5>3. CASE m \in DOMAIN models
            BY SMTT(60), <1>1, <2>0, <4>1, <5>2, <5>3 DEF EntryOf
          <5>4. CASE m \notin DOMAIN models
            <6>1. e.callers[k] = 0
              BY <1>1, <3>0, <5>4 DEF EntryOf, NewHold, Callers
            <6> QED
              BY SMTT(60), <2>0, <6>1
          <5> QED
            BY <5>3, <5>4
        <4> QED
          BY SMTT(60), <2>0, <3>1, <4>1, <4>2
      <3>2. CASE x = m /\ k # CallerOf(c)
        BY <1>5, <3>0, <3>2, MoverJoins
      <3>3. CASE x # m
        BY <1>5, <3>0, <3>3, OthersStay
      <3> QED
        BY <3>1, <3>2, <3>3
    <2> QED
      BY <1>3, <2>1, <2>2, <2>3 DEF WithinLimits, Kept, HeldBy
  <1>13. OnePoll'
    <2>1. EntryOf(m)' = j /\ \A x \in Model \ {m} : EntryOf(x)' = EntryOf(x)
      BY <1>0, <1>3, <1>4, PutEntry
    <2>2. HeldFor(m)' # {} /\ j.stop = IF e.stop = NoPoll THEN c ELSE e.stop
      BY <1>2, <1>5, MoverJoins DEF Joins
    <2>3. ASSUME NEW x \in Model
          PROVE  LivePolls(x)' = IF HeldFor(x)' = {} THEN {} ELSE {EntryOf(x)'.stop}
      <3>0. LivePolls(x) = IF HeldFor(x) = {} THEN {} ELSE {EntryOf(x).stop}
        BY <1>0 DEF OnePoll, LivePolls
      <3>1. CASE x # m
        <4>1. LivePolls(x)' = LivePolls(x)
          BY <1>0, <1>3, <3>1 DEF LivePolls, TypeOK
        <4> QED
          BY <1>5, <2>1, <3>0, <3>1, <4>1, OthersStay
      <3>2. CASE x = m /\ e.stop = NoPoll
        <4>1. LivePolls(x) = {}
          BY <1>4, <3>0, <3>2 DEF Exact
        <4>2. LivePolls(x)' = {c}
          BY SMTT(60), <1>0, <1>3, <3>2, <4>1 DEF LivePolls, TypeOK, Path
        <4> QED
          BY <2>1, <2>2, <3>2, <4>2
      <3>3. CASE x = m /\ e.stop # NoPoll
        <4>1. LivePolls(x)' = LivePolls(x) /\ HeldFor(x) # {}
          BY <1>3, <1>4, <3>3 DEF LivePolls, Exact
        <4> QED
          BY <1>1, <2>1, <2>2, <3>0, <3>3, <4>1
      <3> QED
        BY <3>1, <3>2, <3>3
    <2> QED
      BY <2>3 DEF OnePoll, LivePolls
  <1>14. WakeNotMissed'
    BY <1>0, <1>3 DEF WakeNotMissed, TypeOK
  <1> QED
    BY <1>7, <1>9, <1>10, <1>11, <1>12, <1>13, <1>14 DEF HoldInv, Kept

(* A hold ends.                                                            *)
LEMMA LeaveStep ==
  ASSUME HoldInv, NEW c \in Call, leave(c), UNCHANGED inputs
  PROVE  HoldInv'
  <1> DEFINE m == ModelOf[c]
  <1>0. TypeOK /\ Path /\ Entered /\ WithinLimits /\ OnePoll /\ WakeNotMissed
        /\ total = Cardinality(Kept) /\ m \in Model
    BY KeyTypes DEF HoldInv, Kept
  <1>1. PICK e : e = EntryOf(m)
    OBVIOUS
  <1>2. PICK j : j = Leaves(e, c)
    OBVIOUS
  <1>3. Held(c) /\ Pending(c) /\ pc[c] = "leave" /\ m \in DOMAIN models /\ e = models[m]
    BY <1>0, <1>1 DEF leave, Held, Pending, Entered, EntryOf
  <1>4. /\ key' = key /\ limits' = limits
        /\ total' = total - 1 /\ models' = removeIfIdle(m, j)
        /\ stopped' = IF e.holds = 1 THEN stopped \cup {e.stop} ELSE stopped
        /\ ch' = [ch EXCEPT ![c] = "none"]
        /\ pc' = [pc EXCEPT ![c] = IF outcome[c] = "woken" THEN "released" ELSE "undemand"]
        /\ outcome' = [outcome EXCEPT ![c] = "none"]
        /\ UNCHANGED <<healthy, announced, news, events, once, slotted, poll>>
    BY <1>2, <1>3 DEF leave, Goto, inputs, agentVars
  <1>5. e \in Entries /\ Exact(e, m)
    BY <1>0, <1>1, EntryTypes DEF Entered
  <1>6. pc'[c] \in {"released", "undemand"} /\ c \notin once
    BY <1>0, <1>3, <1>4 DEF TypeOK, Path
  <1>7. Moves(c) /\ ~Held(c)' /\ Pending(c)'
    BY <1>0, <1>4, <1>6 DEF Moves, Held, Pending, TypeOK
  <1>8. j \in Entries /\ Exact(j, m)' /\ e.holds > 0 /\ e.stop # NoPoll
    BY <1>0, <1>2, <1>3, <1>5, <1>7, LeavesExact
  <1>9. Entered' /\ models' \in [DOMAIN models' -> Entries] /\ DOMAIN models' \subseteq Model
    <2>1. key' \in Requests
      BY <1>0, <1>4 DEF TypeOK
    <2> QED
      BY <1>0, <1>3, <1>4, <1>7, <1>8, <2>1, EnteredKeep
  <1>10. Kept' = Kept \ {c} /\ c \in Kept /\ Kept \in SUBSET Call
    BY <1>3, <1>7 DEF Kept, Moves, Held
  <1>11. total' = Cardinality(Kept') /\ total' \in Nat
    BY SMTT(60), <1>0, <1>4, <1>10, OneLess DEF TypeOK
  <1>12. e.stop \in Call /\ stopped' \subseteq Call
    BY <1>0, <1>4, <1>5, <1>8 DEF Entries, TypeOK
  <1>13. TypeOK'
    <2>1. pc' \in [Call -> {"new", "enter", "check", "select", "rechan", "leave",
                            "undemand", "released", "ended", "done"}]
          /\ ch' \in [Call -> {"none", "live", "closed"}]
          /\ outcome' \in [Call -> {"none", "full", "woken", "expired", "gone"}]
      BY <1>0, <1>4 DEF TypeOK
    <2> QED
      BY <1>0, <1>4, <1>9, <1>11, <1>12, <2>1 DEF TypeOK
  <1>14. WithinLimits'
    <2>1. \A d \in Call : Held(d)' => Held(d)
      BY <1>3, <1>7 DEF Moves, Held
    <2> QED
      BY <1>0, <1>4, <2>1, LimitsStay
  <1>15. LivePolls(m) = {e.stop}
    BY <1>0, <1>1, <1>5, <1>8 DEF OnePoll, LivePolls, Exact
  <1>16. Path'
    <2>1. pc[e.stop] \notin {"new", "enter"}
      BY <1>0, <1>15 DEF Path, LivePolls
    <2> QED
      BY <1>0, <1>3, <1>4, <1>6, <2>1 DEF Path, TypeOK
  <1>17. OnePoll'
    <2>1. EntryOf(m)' = (IF Idle(j) THEN NewHold ELSE j)
          /\ \A x \in Model \ {m} : EntryOf(x)' = EntryOf(x)
      BY <1>0, <1>3, <1>4, <1>8, KeepEntry
    <2>2. j.stop = (IF e.holds = 1 THEN NoPoll ELSE e.stop) /\ j.holds = e.holds - 1 /\ e.holds \in Nat
      BY <1>2, <1>5 DEF Leaves, Entries
    <2>3. HeldFor(m)' = {} <=> e.holds = 1
      <3>1. HeldFor(m)' \in SUBSET Call /\ j.holds = Cardinality(HeldFor(m)')
        BY <1>8 DEF HeldFor, Exact
      <3> QED
        BY SMTT(60), <2>2, <3>1, Counts
    <2>4. ASSUME NEW x \in Model
          PROVE  LivePolls(x)' = IF HeldFor(x)' = {} THEN {} ELSE {EntryOf(x)'.stop}
      <3>0. LivePolls(x) = IF HeldFor(x) = {} THEN {} ELSE {EntryOf(x).stop}
        BY <1>0 DEF OnePoll, LivePolls
      <3>1. CASE x # m
        <4>1. LivePolls(x)' = LivePolls(x)
          BY <1>4, <1>15, <3>1 DEF LivePolls
        <4> QED
          BY <1>7, <2>1, <3>0, <3>1, <4>1, OthersStay
      <3>2. CASE x = m /\ e.holds = 1
        BY <1>4, <1>15, <2>3, <3>2 DEF LivePolls
      <3>3. CASE x = m /\ e.holds # 1
        <4>1. LivePolls(x)' = LivePolls(x)
          BY <1>4, <3>3 DEF LivePolls
        <4>2. ~Idle(j)
          BY SMTT(60), <2>2, <3>3 DEF Idle
        <4> QED
          BY <1>15, <2>1, <2>2, <2>3, <3>3, <4>1, <4>2
      <3> QED
        BY <3>1, <3>2, <3>3
    <2> QED
      BY <2>4 DEF OnePoll, LivePolls
  <1>18. WakeNotMissed'
    BY <1>0, <1>4 DEF WakeNotMissed, TypeOK
  <1> QED
    BY <1>9, <1>11, <1>13, <1>14, <1>16, <1>17, <1>18 DEF HoldInv, Kept

(* A request leaves the demand: leaveDemand, or release the first time.    *)
LEMMA DemandStep ==
  ASSUME HoldInv, NEW c \in Call, Demanded(c), UNCHANGED <<key, limits, total, poll, stopped>>,
         pc[c] \in {"undemand", "released", "ended"}, c \notin once, Moves(c), ~Pending(c)'
  PROVE  /\ Entered' /\ WithinLimits' /\ total' = Cardinality({d \in Call : Held(d)})' /\ OnePoll'
         /\ models' \in [DOMAIN models' -> Entries] /\ DOMAIN models' \subseteq Model
  <1> DEFINE m == ModelOf[c]
  <1>0. TypeOK /\ Entered /\ WithinLimits /\ OnePoll /\ total = Cardinality(Kept) /\ m \in Model
    BY KeyTypes DEF HoldInv, Kept
  <1>1. Pending(c) /\ ~Held(c) /\ ~Held(c)'
    BY DEF Pending, Held
  <1>2. PICK e : e = EntryOf(m)
    OBVIOUS
  <1>3. PICK j : j = Undemands(e, c)
    OBVIOUS
  <1>4. m \in DOMAIN models /\ e = models[m] /\ models' = removeIfIdle(m, j)
    BY <1>0, <1>1, <1>2, <1>3 DEF Entered, EntryOf, Demanded
  <1>5. e \in Entries /\ Exact(e, m)
    BY <1>0, <1>2, EntryTypes DEF Entered
  <1>6. j \in Entries /\ Exact(j, m)' /\ j.stop = e.stop
    BY <1>0, <1>1, <1>3, <1>5, UndemandsExact
  <1>7. Entered' /\ models' \in [DOMAIN models' -> Entries] /\ DOMAIN models' \subseteq Model
    <2>1. key' \in Requests
      BY <1>0 DEF TypeOK
    <2> QED
      BY <1>0, <1>1, <1>4, <1>6, <2>1, EnteredKeep
  <1>8. \A d \in Call : Held(d)' <=> Held(d)
    BY <1>1 DEF Moves, Held
  <1>9. WithinLimits' /\ Kept' = Kept /\ \A x \in Model : HeldFor(x)' = HeldFor(x)
    BY <1>0, <1>8, LimitsStay DEF Kept, HeldFor
  <1>10. OnePoll'
    <2>1. EntryOf(m)' = (IF Idle(j) THEN NewHold ELSE j)
          /\ \A x \in Model \ {m} : EntryOf(x)' = EntryOf(x)
      BY <1>0, <1>4, <1>6, KeepEntry
    <2>2. HeldFor(m) # {} => ~Idle(j)
      <3>1. HeldFor(m)' \in SUBSET Call /\ j.holds = Cardinality(HeldFor(m)')
        BY <1>6 DEF HeldFor, Exact
      <3> QED
        BY <1>0, <1>9, <3>1, Counts DEF Idle
    <2>3. \A x \in Model : HeldFor(x) # {} => EntryOf(x)'.stop = EntryOf(x).stop
      BY <1>2, <1>6, <2>1, <2>2
    <2> QED
      BY <1>0, <1>9, <2>3, PollsStay
  <1> QED
    BY <1>0, <1>7, <1>9, <1>10 DEF Kept

-----------------------------------------------------------------------------
(* The remaining steps.                                                    *)

(* The request goes to another place, with the same part in the hold.      *)
LEMMA WalkStep ==
  ASSUME HoldInv, NEW c \in Call, UNCHANGED inputs,
         Arrive(c) \/ EnterFull(c) \/ CheckHealth(c) \/ SelectWake(c) \/ wakeChan(c) \/ Timer(c)
  PROVE  HoldInv'
  <1>0. TypeOK /\ Path /\ WakeNotMissed
    BY DEF HoldInv
  <1>1. /\ UNCHANGED <<key, limits, models, total, poll, stopped, once, slotted>>
        /\ UNCHANGED <<healthy, announced, news, events>>
    BY DEF Arrive, EnterFull, CheckHealth, SelectWake, wakeChan, Timer, SelectKeepAlive, SelectBudget,
           SelectDone, inputs, agentVars, holdVars, pollVars
  <1>2. PICK l \in {"enter", "check", "select", "rechan", "leave", "done"} :
          /\ pc' = [pc EXCEPT ![c] = l]
          /\ l \in {"enter", "done"} => pc[c] \in {"new", "enter"}
          /\ l = "enter" => pc[c] = "new"
          /\ l \in {"check", "select", "rechan", "leave"} => pc[c] \in {"check", "select", "rechan"}
          /\ l = "select" => ~healthy[ModelOf[c]]
    BY DEF Arrive, EnterFull, CheckHealth, SelectWake, wakeChan, Timer, SelectKeepAlive, SelectBudget,
           SelectDone, Goto, EndsAs
  <1>3. ch' \in {ch, [ch EXCEPT ![c] = "live"]} /\ (ch' # ch => pc' = [pc EXCEPT ![c] = "check"])
    BY DEF Arrive, EnterFull, CheckHealth, SelectWake, wakeChan, Timer, SelectKeepAlive, SelectBudget,
           SelectDone, Goto
  <1>4. outcome' \in [Call -> {"none", "full", "woken", "expired", "gone"}]
    BY <1>0 DEF Arrive, EnterFull, CheckHealth, SelectWake, wakeChan, Timer, SelectKeepAlive,
           SelectBudget, SelectDone, EndsAs, TypeOK
  <1>5. TypeOK'
    <2>1. pc' \in [Call -> {"new", "enter", "check", "select", "rechan", "leave",
                            "undemand", "released", "ended", "done"}]
          /\ ch' \in [Call -> {"none", "live", "closed"}]
      BY <1>0, <1>2, <1>3 DEF TypeOK
    <2> QED
      BY <1>0, <1>1, <1>4, <2>1 DEF TypeOK
  <1>6. \A d \in Call : (Held(d)' <=> Held(d)) /\ (Pending(d)' <=> Pending(d))
    BY <1>0, <1>1, <1>2 DEF Held, Pending, TypeOK
  <1>7. Path'
    BY <1>0, <1>1, <1>2 DEF Path, TypeOK
  <1>8. WakeNotMissed'
    BY SMTT(60), <1>0, <1>1, <1>2, <1>3 DEF WakeNotMissed, TypeOK
  <1>9. Entered' /\ WithinLimits' /\ total' = Cardinality({d \in Call : Held(d)})' /\ OnePoll'
    BY <1>1, <1>6, QuietStep
  <1> QED
    BY <1>5, <1>7, <1>8, <1>9 DEF HoldInv

(* leaveDemand, and the callers of release.                                *)
LEMMA ReleaseStep ==
  ASSUME HoldInv, NEW c \in Call, UNCHANGED inputs, leaveDemand(c) \/ gotSlot(c) \/ start(c)
  PROVE  HoldInv'
  <1>0. TypeOK /\ Path /\ WakeNotMissed
    BY DEF HoldInv
  <1>1. /\ UNCHANGED <<key, limits, total, poll, stopped, ch, outcome>>
        /\ UNCHANGED <<healthy, announced, news, events>>
        /\ slotted' \subseteq slotted \cup {c} /\ slotted \subseteq slotted'
    BY DEF leaveDemand, gotSlot, start, inputs, agentVars, pollVars
  <1>2. PICK l \in {"done", "released", "ended"} :
          /\ pc' = [pc EXCEPT ![c] = l]
          /\ l = "done" => pc[c] = "undemand" /\ Demanded(c) /\ once' = once
          /\ l # "done" => pc[c] \in {"released", "ended"} /\ release(c)
    <2>1. CASE leaveDemand(c)
      BY <2>1 DEF leaveDemand, Goto
    <2>2. CASE gotSlot(c)
      <3>1. pc' = [pc EXCEPT ![c] = pc[c]] /\ pc[c] \in {"released", "ended"} /\ release(c)
        BY <1>0, <2>2 DEF gotSlot, TypeOK
      <3> QED
        BY <3>1
    <2>3. CASE start(c)
      BY <2>3 DEF start, Goto
    <2> QED
      BY <2>1, <2>2, <2>3
  <1>3. pc' \in [Call -> {"new", "enter", "check", "select", "rechan", "leave",
                          "undemand", "released", "ended", "done"}]
    BY <1>0, <1>2 DEF TypeOK
  <1>4. CASE c \in once
    <2>1. l # "done" /\ UNCHANGED <<models, once>>
      BY <1>0, <1>2, <1>4 DEF Path, release
    <2>2. \A d \in Call : (Held(d)' <=> Held(d)) /\ (Pending(d)' <=> Pending(d))
      BY <1>0, <1>2, <1>4, <2>1 DEF Held, Pending, TypeOK
    <2>3. Entered' /\ WithinLimits' /\ total' = Cardinality({d \in Call : Held(d)})' /\ OnePoll'
      BY <1>1, <2>1, <2>2, QuietStep
    <2>4. TypeOK'
      BY <1>0, <1>1, <1>3, <2>1 DEF TypeOK
    <2>5. Path' /\ WakeNotMissed'
      BY <1>0, <1>1, <1>2, <2>1 DEF Path, WakeNotMissed, TypeOK
    <2> QED
      BY <2>3, <2>4, <2>5 DEF HoldInv
  <1>5. CASE c \notin once
    <2>1. Demanded(c) /\ once' = (IF l = "done" THEN once ELSE once \cup {c})
      BY <1>2, <1>5 DEF release
    <2>2. Moves(c) /\ ~Pending(c)' /\ pc[c] \in {"undemand", "released", "ended"}
      BY <1>0, <1>1, <1>2, <2>1 DEF Moves, Pending, Held, TypeOK
    <2>3. /\ Entered' /\ WithinLimits' /\ total' = Cardinality({d \in Call : Held(d)})' /\ OnePoll'
          /\ models' \in [DOMAIN models' -> Entries] /\ DOMAIN models' \subseteq Model
      BY <1>1, <1>5, <2>1, <2>2, DemandStep
    <2>4. TypeOK'
      BY <1>0, <1>1, <1>3, <2>1, <2>3 DEF TypeOK
    <2>5. Path' /\ WakeNotMissed'
      BY <1>0, <1>1, <1>2, <2>1 DEF Path, WakeNotMissed, TypeOK
    <2> QED
      BY <2>3, <2>4, <2>5 DEF HoldInv
  <1> QED
    BY <1>4, <1>5

(* The health poll and the agents. A Wake closes the channel of every      *)
(* request held, for the model of a held request has an entry.             *)
LEMMA OutsideStep ==
  ASSUME HoldInv,
         \/ \E c \in Call : PollStep(c) \/ PollStop(c)
         \/ \E m \in Model : (\E b \in BOOLEAN : AgentUp(m, b)) \/ WakeNews(m) \/ AgentDown(m),
         UNCHANGED inputs
  PROVE  HoldInv'
  <1>0. TypeOK /\ Path /\ WakeNotMissed /\ Entered
    BY DEF HoldInv
  <1>1. UNCHANGED <<key, limits, models, total, once, slotted, stopped, pc, outcome>>
    BY DEF PollStep, PollTick, PollWake, PollStop, AgentUp, WakeNews, AgentDown, inputs, holdVars, callVars,
           pollVars
  <1>2. \A d \in Call : (Held(d)' <=> Held(d)) /\ (Pending(d)' <=> Pending(d))
    BY <1>1 DEF Held, Pending
  <1>3. /\ poll' \in [Call -> {"none", "run", "wake", "exit"}]
        /\ \A c \in Call : poll'[c] \in {"run", "wake"} /\ c \notin stopped'
                             <=> poll[c] \in {"run", "wake"} /\ c \notin stopped
        /\ \A c \in Call : poll[c] = "none" => poll'[c] = "none"
    BY SMTT(60), <1>0, <1>1 DEF PollStep, PollTick, PollWake, PollStop, AgentUp, WakeNews, AgentDown, TypeOK, pollVars
  <1>4. Entered' /\ WithinLimits' /\ total' = Cardinality({d \in Call : Held(d)})' /\ OnePoll'
    BY <1>1, <1>2, <1>3, QuietStep
  <1>5. Path'
    BY <1>0, <1>1, <1>3 DEF Path
  <1>6. \A c \in Call : pc[c] = "select" => ModelOf[c] \in DOMAIN models /\ ModelOf[c] \in Model
    BY <1>0, KeyTypes DEF Entered, Pending, Held
  <1>7. TypeOK' /\ WakeNotMissed'
    <2>1. ASSUME NEW c \in Call, PollTick(c) \/ PollStop(c) PROVE TypeOK' /\ WakeNotMissed'
      <3>1. UNCHANGED <<healthy, announced, news, events, ch>>
        BY <2>1 DEF PollTick, PollStop, agentVars, callVars
      <3> QED
        BY <1>0, <1>1, <1>3, <3>1 DEF TypeOK, WakeNotMissed
    <2>2. ASSUME NEW c \in Call, PollWake(c) PROVE TypeOK' /\ WakeNotMissed'
      <3>1. UNCHANGED <<healthy, announced, news, events>> /\ Wake(ModelOf[c])
        BY <2>2 DEF PollWake, agentVars
      <3>2. /\ ch' \in [Call -> {"none", "live", "closed"}]
            /\ \A d \in Call : ch'[d] = "live" => ch[d] = "live"
        BY <1>0, <3>1 DEF Wake, TypeOK
      <3> QED
        BY <1>0, <1>1, <1>3, <3>1, <3>2 DEF TypeOK, WakeNotMissed
    <2>3. ASSUME NEW m \in Model, NEW b \in BOOLEAN, AgentUp(m, b) PROVE TypeOK' /\ WakeNotMissed'
      <3>1. /\ events < MaxEvents /\ ~healthy[m] /\ UNCHANGED ch
            /\ healthy' = [healthy EXCEPT ![m] = TRUE] /\ announced' = [announced EXCEPT ![m] = b]
            /\ news' = (IF b THEN news \cup {m} ELSE news) /\ events' = events + 1
        BY <2>3 DEF AgentUp, callVars
      <3>2. events' \in 0..MaxEvents
        BY SMTT(60), <1>0, <3>1, LimitsAssumption DEF TypeOK
      <3>3. TypeOK'
        BY <1>0, <1>1, <1>3, <3>1, <3>2 DEF TypeOK
      <3>4. WakeNotMissed'
        BY <1>0, <1>1, <1>6, <3>1 DEF TypeOK, WakeNotMissed
      <3> QED
        BY <3>3, <3>4
    <2>4. ASSUME NEW m \in Model, WakeNews(m) PROVE TypeOK' /\ WakeNotMissed'
      <3>1. UNCHANGED <<healthy, announced, events>> /\ Wake(m) /\ news' = news \ {m}
        BY <2>4 DEF WakeNews
      <3>2. /\ ch' \in [Call -> {"none", "live", "closed"}]
            /\ \A d \in Call : ch'[d] = "live" => ch[d] = "live" /\ ~ (ModelOf[d] = m /\ m \in DOMAIN models)
        BY <1>0, <3>1 DEF Wake, TypeOK
      <3>3. TypeOK'
        BY <1>0, <1>1, <1>3, <3>1, <3>2 DEF TypeOK
      <3>4. WakeNotMissed'
        BY <1>0, <1>1, <1>6, <3>1, <3>2 DEF WakeNotMissed
      <3> QED
        BY <3>3, <3>4
    <2>5. ASSUME NEW m \in Model, AgentDown(m) PROVE TypeOK' /\ WakeNotMissed'
      <3>1. /\ events < MaxEvents /\ UNCHANGED <<ch, announced, news>>
            /\ healthy' = [healthy EXCEPT ![m] = FALSE] /\ events' = events + 1
        BY <2>5 DEF AgentDown, callVars
      <3>2. events' \in 0..MaxEvents
        BY SMTT(60), <1>0, <3>1, LimitsAssumption DEF TypeOK
      <3>3. TypeOK'
        BY <1>0, <1>1, <1>3, <3>1, <3>2 DEF TypeOK
      <3>4. WakeNotMissed'
        BY <1>0, <1>1, <1>6, <3>1 DEF TypeOK, WakeNotMissed
      <3> QED
        BY <3>3, <3>4
    <2> QED
      BY <2>1, <2>2, <2>3, <2>4, <2>5 DEF PollStep
  <1> QED
    BY <1>4, <1>5, <1>7 DEF HoldInv

LEMMA HoldInit == Init => HoldInv
  <1> SUFFICES ASSUME Init PROVE HoldInv
    OBVIOUS
  <1>1. TypeOK
    BY SMTT(60), LimitsAssumption, SetsAssumption DEF Init, TypeOK
  <1>2. \A c \in Call : ~Held(c) /\ ~Pending(c)
    BY DEF Init, Held, Pending
  <1>3. \A m, k : HeldFor(m) = {} /\ HeldBy(m, k) = {} /\ Wanted(m, k) = {}
    BY <1>2 DEF HeldFor, HeldBy, Wanted
  <1>4. \A m : EntryOf(m) = NewHold
    BY DEF Init, EntryOf
  <1>5. NewHold.holds = 0 /\ NewHold.stop = NoPoll
        /\ (\A k \in Callers : NewHold.callers[k] = 0) /\ \A k \in Keys : NewHold.demand[k] = 0
    BY DEF NewHold, Callers
  <1>6. Entered
    BY <1>2, <1>3, <1>4, <1>5, FS_EmptySet DEF Entered, Exact, Init
  <1>7. Kept = {} /\ Cardinality({}) = 0
    BY <1>2, FS_EmptySet DEF Kept
  <1>8. total = Cardinality({c \in Call : Held(c)})
    BY <1>7 DEF Kept, Init
  <1>9. WithinLimits
    <2>1. limits \in [PerModel : Nat \ {0}, PerCaller : Nat \ {0}, Total : Nat \ {0}]
      BY <1>1, LimitsAssumption DEF TypeOK
    <2> QED
      BY SMTT(60), <1>3, <1>7, <2>1 DEF WithinLimits, Kept, HeldBy
  <1>10. Path /\ OnePoll /\ WakeNotMissed
    BY <1>3 DEF Init, Path, OnePoll, WakeNotMissed
  <1> QED
    BY <1>1, <1>6, <1>8, <1>9, <1>10 DEF HoldInv

LEMMA HoldStepKeeps == HoldInv /\ [Next]_vars => HoldInv'
  <1> SUFFICES ASSUME HoldInv, [Next]_vars PROVE HoldInv'
    OBVIOUS
  <1>1. CASE UNCHANGED vars
    <2>1. UNCHANGED <<limits, key, healthy, announced, news, events, total, models, pc, ch, outcome, once,
                      slotted, poll, stopped>>
      BY <1>1 DEF vars, inputs, agentVars, holdVars, callVars, pollVars
    <2>2. \A d \in Call : (Held(d)' <=> Held(d)) /\ (Pending(d)' <=> Pending(d))
      BY <2>1 DEF Held, Pending
    <2>3. Entered' /\ WithinLimits' /\ total' = Cardinality({d \in Call : Held(d)})' /\ OnePoll'
      BY <2>1, <2>2, QuietStep
    <2>4. TypeOK' /\ Path' /\ WakeNotMissed'
      BY <2>1 DEF HoldInv, TypeOK, Path, WakeNotMissed
    <2> QED
      BY <2>3, <2>4 DEF HoldInv
  <1>2. CASE Step /\ UNCHANGED inputs
    <2>1. ASSUME NEW c \in Call, Arrive(c) \/ HoldStep(c) \/ Timer(c) PROVE HoldInv'
      BY <1>2, <2>1, WalkStep, EnterStep, LeaveStep, ReleaseStep DEF HoldStep
    <2>2. ASSUME NEW c \in Call, gotSlot(c) \/ start(c) PROVE HoldInv'
      BY <1>2, <2>2, ReleaseStep
    <2> QED
      BY <1>2, <2>1, <2>2, OutsideStep DEF Step
  <1> QED
    BY <1>1, <1>2 DEF Next

(* The Holder's counters are the requests they stand for, an entry lives   *)
(* exactly as long as its requests, and the limits hold, for any number of *)
(* requests, models and callers and any limits.                            *)
THEOREM DemandCorrect == Spec => []DemandExact
  <1>1. HoldInv => DemandExact
    <2> SUFFICES ASSUME HoldInv PROVE DemandExact
      OBVIOUS
    <2>0. TypeOK /\ Entered /\ WithinLimits /\ total = Cardinality({c \in Call : Held(c)})
      BY DEF HoldInv
    <2>1. DOMAIN models = {ModelOf[c] : c \in {d \in Call : Pending(d)}}
      <3>1. \A c \in Call : ModelOf[c] \in Model
        BY <2>0, KeyTypes
      <3>2. DOMAIN models \subseteq Model
        BY <2>0 DEF TypeOK
      <3> QED
        BY <2>0, <3>1, <3>2 DEF Entered
    <2> QED
      BY <2>0, <2>1 DEF DemandExact, Entered, Exact, HeldBy, Wanted, Callers
  <1> QED
    BY <1>1, HoldInit, HoldStepKeeps, PTL DEF Spec

(* Every model with held requests has exactly one poll that has not been   *)
(* told to stop, and no other model has one.                               *)
THEOREM PollUnique == Spec => []OnePoll
  <1>1. HoldInv => OnePoll
    BY DEF HoldInv
  <1> QED
    BY <1>1, HoldInit, HoldStepKeeps, PTL DEF Spec

(* No request sleeps on an open channel once an agent has come with a Wake *)
(* for its model and that call has been made.                              *)
THEOREM WakeSeen == Spec => []WakeNotMissed
  <1>1. HoldInv => WakeNotMissed
    BY DEF HoldInv
  <1> QED
    BY <1>1, HoldInit, HoldStepKeeps, PTL DEF Spec
=============================================================================
