---------------------------- MODULE UsageProofs -----------------------------
(***************************************************************************)
(* The counts that outlive the router's process: the daily token budget of *)
(* a key (Budget) and the lifetime counters of an agent (Counters).  Both  *)
(* are kept in memory, written to disk by flushes and cleared in several   *)
(* steps that other goroutines interleave with.                            *)
(*                                                                         *)
(* For any number of requests, days, faults and any budget: the budget     *)
(* caps what a day grants, and charges nothing twice.  For any number of   *)
(* forwards, registrations, flushes, resets and crashes: no outcome is     *)
(* counted twice, and a reset is not undone by anything that did not       *)
(* overlap it.                                                             *)
(***************************************************************************)
EXTENDS Budget, Counters, TLAPS

USE ZenonT(10), SMTT(60)

-----------------------------------------------------------------------------
(* The daily budget.                                                       *)

(* What the numbers are.                                                   *)
Numbers ==
  /\ day \in Days
  /\ bucket \in [in : BOOLEAN, used : Nat, day : Days]
  /\ disk \in [Days -> Nat] /\ granted \in [Days -> Nat] /\ lost \in [Days -> Nat]
  /\ \A r \in Requests : shape[r].est \in Nat /\ shape[r].out \in Nat

(* Nothing is counted on a day to come, and nothing of today while the     *)
(* bucket is still on another day.                                         *)
NotYet ==
  /\ \A d \in Days : d > day => granted[d] = 0 /\ disk[d] = 0
  /\ bucket.in /\ bucket.day # day => granted[day] = 0 /\ disk[day] = 0

(* Today's count as the next call would find it.                           *)
Used == getOrCreateDaily(day).used

(* All of today's grants but those forgotten are in the count once it is   *)
(* in memory or a call is past its preload; before, in it or on disk.      *)
Known ==
  /\ bucket.in /\ bucket.day = day => granted[day] <= bucket.used + lost[day]
  /\ (loaded # {} \/ day \in gate) /\ reset # "cleared" => granted[day] <= Used + lost[day]
  /\ granted[day] <= Used + lost[day] \/ granted[day] <= disk[day] + lost[day]

CapInv ==
  /\ Numbers /\ NotYet /\ DailyCap
  /\ ~raced => Known

LEMMA MaxIs ==
  ASSUME NEW a \in Int, NEW b \in Int
  PROVE  /\ Max({a, b}) \in {a, b} /\ a <= Max({a, b}) /\ b <= Max({a, b})
<1>1. \E x \in {a, b} : \A y \in {a, b} : x >= y
    BY SMTT(60)
<1>2. Max({a, b}) \in {a, b} /\ \A y \in {a, b} : Max({a, b}) >= y
    BY <1>1 DEF Max
<1> QED
    BY SMTT(60), <1>2

(* Today's count, in either case.                                          *)
LEMMA UsedIs ==
  ASSUME Numbers
  PROVE  /\ Used \in Nat
         /\ getOrCreateDaily(day) \in [in : BOOLEAN, used : Nat, day : Days]
         /\ bucket.in /\ bucket.day = day => Used = bucket.used
         /\ ~(bucket.in /\ bucket.day = day) => Used = 0
  BY DEF Numbers, Used, getOrCreateDaily

LEMMA CapInit == Init => CapInv
<1> SUFFICES ASSUME Init PROVE CapInv
    OBVIOUS
<1>1. 0 \in Days
    BY SMTT(60), BudgetAssumption DEF Days
<1>2. Numbers
  <2>1. \A r \in Requests : shape[r].est \in Nat /\ shape[r].out \in Nat
      BY BudgetAssumption DEF Init
  <2> QED
      BY <1>1, <2>1 DEF Init, Numbers, NoBucket
<1>3. ~bucket.in /\ granted = [d \in Days |-> 0] /\ disk = [d \in Days |-> 0]
      /\ lost = [d \in Days |-> 0] /\ day = 0
    BY DEF Init, NoBucket
<1>4. NotYet /\ granted[day] = 0 /\ lost[day] = 0
    BY <1>1, <1>3 DEF NotYet
<1>5. DailyCap
  <2>1. \A d \in Days : granted[d] = 0 /\ lost[d] = 0
      BY <1>3
  <2> QED
      BY SMTT(60), <2>1, BudgetAssumption DEF DailyCap
<1>6. Known
  <2>1. Used \in Nat
      BY <1>2, UsedIs
  <2> QED
      BY <1>3, <1>4, SMTT(60), <2>1 DEF Known
<1> QED
    BY <1>2, <1>4, <1>5, <1>6 DEF CapInv

(* A step that leaves the daily count alone.                               *)
CountKeptAlone == UNCHANGED <<shape, day, bucket, gate, disk, reset, loaded, granted, lost, raced>>

LEMMA CapQuiet ==
  ASSUME CapInv, CountKeptAlone PROVE CapInv'
  BY DEF CapInv, CountKeptAlone, Numbers, NotYet, DailyCap, Known, Used, getOrCreateDaily

(* A call that is past its preload, and overlaps no clearing, finds all of *)
(* today's grants in the count: whether it only looks or deducts, it       *)
(* leaves them there, and the cap holds.                                   *)
LEMMA CapDeduct ==
  ASSUME CapInv, NEW r \in Requests, r \in loaded, NEW n \in Nat, NEW what,
         allowTokens(r, n, what), UNCHANGED <<shape, day, gate, disk, reset>>
  PROVE  CapInv'
<1> DEFINE b == getOrCreateDaily(day)
           ok == Fits(b, n)
<1>1. Numbers /\ NotYet /\ DailyCap /\ (~raced => Known)
    BY DEF CapInv
<1>2. /\ b \in [in : BOOLEAN, used : Nat, day : Days] /\ b.in = TRUE /\ b.day = day /\ b.used = Used
      /\ day \in Days
    BY <1>1, UsedIs DEF getOrCreateDaily, Used, Numbers
<1>3. /\ bucket' = Deduct(b, n) /\ granted' = [granted EXCEPT ![day] = IF ok THEN @ + n ELSE @]
      /\ raced' = (raced \/ reset = "cleared") /\ lost' = lost
    BY DEF allowTokens
<1>4. ok <=> b.used + n <= TPD
    BY DEF Fits
<1>5. /\ bucket' \in [in : BOOLEAN, used : Nat, day : Days] /\ bucket'.in = TRUE /\ bucket'.day = day
      /\ bucket'.used = IF ok THEN b.used + n ELSE TPD
    BY SMTT(60), <1>2, <1>3, BudgetAssumption DEF Deduct
<1> HIDE DEF b, ok
<1>6. /\ granted' \in [Days -> Nat] /\ granted'[day] = IF ok THEN granted[day] + n ELSE granted[day]
      /\ \A d \in Days : d # day => granted'[d] = granted[d]
    BY SMTT(60), <1>1, <1>2, <1>3 DEF Numbers
<1>7. Numbers'
    BY <1>1, <1>3, <1>5, <1>6 DEF Numbers
<1>8. NotYet'
  <2>1. \A d \in Days : d > day => d # day
      BY SMTT(60), <1>2 DEF Days
  <2> QED
      BY <1>1, <1>5, <1>6, <2>1 DEF NotYet
<1>9. Used' = bucket'.used
    BY <1>5, <1>7 DEF Used, getOrCreateDaily
<1>10. ASSUME ~raced' PROVE DailyCap' /\ Known'
  <2>1. ~raced /\ reset # "cleared"
      BY <1>3, <1>10
  <2>2. granted[day] <= b.used + lost[day]
      BY <1>1, <1>2, <2>1 DEF Known
  <2>3. \A d \in Days : granted[d] <= TPD + lost[d]
      BY <1>1, <2>1 DEF DailyCap
  <2>4. granted[day] \in Nat /\ lost[day] \in Nat /\ b.used \in Nat /\ TPD \in Nat
      BY <1>1, <1>2, BudgetAssumption DEF Numbers
  <2>5. granted'[day] <= bucket'.used + lost[day]
      BY SMTT(60), <1>2, <1>5, <1>6, <2>2, <2>3, <2>4
  <2>6. granted'[day] <= TPD + lost[day]
      BY SMTT(60), <1>2, <1>4, <1>6, <2>2, <2>3, <2>4
  <2>7. DailyCap'
      BY <1>3, <1>6, <2>3, <2>6 DEF DailyCap
  <2>8. Known'
      BY <1>3, <1>9, <2>5 DEF Known
  <2> QED
      BY <2>7, <2>8
<1> QED
    BY <1>7, <1>8, <1>10 DEF CapInv, DailyCap

LEMMA CapPeek ==
  ASSUME CapInv, NEW r \in Requests, reserveInputBudget_Peek(r) PROVE CapInv'
<1> DEFINE b == getOrCreateDaily(day)
<1>1. Numbers /\ NotYet /\ DailyCap /\ (~raced => Known)
    BY DEF CapInv
<1>2. /\ b \in [in : BOOLEAN, used : Nat, day : Days] /\ b.in = TRUE /\ b.day = day /\ b.used = Used
    BY <1>1, UsedIs DEF getOrCreateDaily, Used, Numbers
<1>3. /\ r \in loaded /\ bucket' = b /\ raced' = (raced \/ reset = "cleared")
      /\ UNCHANGED <<shape, day, gate, disk, reset, granted, lost>>
    BY DEF reserveInputBudget_Peek
<1> HIDE DEF b
<1>4. Numbers' /\ NotYet' /\ DailyCap'
    BY <1>1, <1>2, <1>3 DEF Numbers, NotYet, DailyCap
<1>5. Used' = Used
    BY <1>2, <1>3 DEF Used, getOrCreateDaily
<1>6. ASSUME ~raced' PROVE Known'
  <2>1. granted[day] <= Used + lost[day]
      BY <1>1, <1>3, <1>6 DEF Known
  <2> QED
      BY <1>2, <1>3, <1>5, <2>1 DEF Known
<1> QED
    BY <1>4, <1>6 DEF CapInv

(* What is forgotten is added to what was.                                 *)
LEMMA ForgetIs ==
  ASSUME Numbers, NEW kept \in Nat, Forget(kept)
  PROVE  /\ lost' \in [Days -> Nat] /\ \A d \in Days : lost[d] <= lost'[d]
         /\ granted[day] <= kept + lost'[day]
<1>1. day \in Days /\ lost \in [Days -> Nat] /\ granted[day] \in Nat /\ lost[day] \in Nat
    BY DEF Numbers
<1> DEFINE m == Max({lost[day], granted[day] - kept})
<1>2. lost[day] \in Int /\ granted[day] - kept \in Int
    BY SMTT(60), <1>1
<1>3. m \in {lost[day], granted[day] - kept} /\ lost[day] <= m /\ granted[day] - kept <= m
    BY <1>2, MaxIs
<1>4. lost' = [lost EXCEPT ![day] = m]
    BY DEF Forget
<1> HIDE DEF m
<1>5. m \in Nat /\ granted[day] <= kept + m
    BY SMTT(60), <1>1, <1>2, <1>3
<1> QED
    BY SMTT(60), <1>1, <1>3, <1>4, <1>5

(* More forgotten never hurts.                                             *)
LEMMA CapForgets ==
  ASSUME Numbers, DailyCap, lost' \in [Days -> Nat], \A d \in Days : lost[d] <= lost'[d],
         UNCHANGED <<raced, granted>>
  PROVE  DailyCap'
<1>1. ASSUME NEW d \in Days, granted[d] <= TPD + lost[d] PROVE granted[d] <= TPD + lost'[d]
  <2>1. granted[d] \in Nat /\ lost[d] \in Nat /\ lost'[d] \in Nat /\ lost[d] <= lost'[d] /\ TPD \in Nat
      BY BudgetAssumption DEF Numbers
  <2> QED
      BY SMTT(60), <1>1, <2>1
<1> QED
    BY <1>1 DEF DailyCap

(* The first call of a day finds today's grants in the count or on disk,   *)
(* and puts what the disk knows more into the count.  The bucket is not of *)
(* another day then, or there is nothing on disk.                          *)
LEMMA CapPreload ==
  ASSUME CapInv, NEW r \in Requests, ensurePreloaded(r) PROVE CapInv'
<1>1. Numbers /\ NotYet /\ DailyCap /\ (~raced => Known)
    BY DEF CapInv
<1>2. /\ gate' = gate \cup {day} /\ UNCHANGED <<shape, day, disk, reset, granted, raced>>
    BY DEF ensurePreloaded
<1>3. /\ Used \in Nat /\ day \in Days /\ granted[day] \in Nat /\ lost[day] \in Nat /\ disk[day] \in Nat
      /\ bucket \in [in : BOOLEAN, used : Nat, day : Days]
    BY <1>1, UsedIs DEF Numbers
<1>4. CASE (day \in gate \/ disk[day] = 0) /\ UNCHANGED <<bucket, faults, lost>>
  <2>1. Numbers' /\ NotYet' /\ DailyCap' /\ Used' = Used
      BY <1>1, <1>2, <1>4 DEF Numbers, NotYet, DailyCap, Used, getOrCreateDaily
  <2>2. ASSUME ~raced, reset # "cleared" PROVE granted[day] <= Used + lost[day]
    <3>1. Known
        BY <1>1, <2>2
    <3>2. CASE day \in gate
        BY <2>2, <3>1, <3>2 DEF Known
    <3>3. CASE disk[day] = 0
        BY SMTT(60), <1>3, <3>1, <3>3 DEF Known
    <3> QED
        BY <1>4, <3>2, <3>3
  <2>3. ~raced' => Known'
      BY <1>1, <1>2, <1>4, <2>1, <2>2 DEF Known
  <2> QED
      BY <2>1, <2>3 DEF CapInv
<1>5. CASE /\ day \notin gate /\ disk[day] > 0
           /\ bucket' = IF ~bucket.in THEN [in |-> TRUE, used |-> disk[day], day |-> day]
                        ELSE IF bucket.day = day THEN [bucket EXCEPT !.used = Adopt(disk[day])]
                        ELSE bucket
           /\ UNCHANGED <<faults, lost>>
  <2>1. ~bucket.in \/ bucket.day = day
    <3>1. disk[day] # 0
        BY SMTT(60), <1>3, <1>5
    <3> QED
        BY <1>1, <1>3, <3>1 DEF NotYet
  <2>2. Adopt(disk[day]) \in Nat /\ bucket.used <= Adopt(disk[day]) /\ disk[day] <= Adopt(disk[day])
    <3>1. bucket.used \in Nat /\ disk[day] \in Nat /\ bucket.used \in Int /\ disk[day] \in Int
        BY SMTT(60), <1>3
    <3>2. Adopt(disk[day]) \in {bucket.used, disk[day]}
        BY <3>1, MaxIs DEF Adopt
    <3>3. bucket.used <= Adopt(disk[day]) /\ disk[day] <= Adopt(disk[day])
        BY <3>1, MaxIs DEF Adopt
    <3> QED
        BY <3>1, <3>2, <3>3
  <2>3. CASE ~bucket.in
    <3>1. bucket' = [in |-> TRUE, used |-> disk[day], day |-> day]
        BY <1>5, <2>3
    <3>2. Used = 0
        BY <1>1, <2>3, UsedIs
    <3>3. Numbers' /\ NotYet' /\ DailyCap' /\ Used' = disk[day] /\ bucket'.used = disk[day]
        BY SMTT(60), <1>1, <1>2, <1>3, <1>5, <3>1 DEF Numbers, NotYet, DailyCap, Used, getOrCreateDaily
    <3>4. ASSUME ~raced PROVE granted[day] <= disk[day] + lost[day]
        BY SMTT(60), <1>1, <1>3, <3>2, <3>4 DEF Known
    <3> QED
        BY <1>2, <1>5, <3>3, <3>4 DEF CapInv, Known
  <2>4. CASE bucket.in /\ bucket.day = day
    <3> DEFINE a == Adopt(disk[day])
    <3>1. bucket' = [bucket EXCEPT !.used = a]
        BY <1>5, <2>4
    <3>2. Used = bucket.used
        BY <1>1, <2>4, UsedIs
    <3>3. a \in Nat
        BY <2>2
    <3> HIDE DEF a
    <3>4. /\ bucket' \in [in : BOOLEAN, used : Nat, day : Days] /\ bucket'.in /\ bucket'.day = day
          /\ bucket'.used = a
        BY <1>3, <2>4, <3>1, <3>3
    <3>5. Numbers' /\ NotYet' /\ DailyCap' /\ Used' = a
        BY <1>1, <1>2, <1>3, <1>5, <3>4 DEF Numbers, NotYet, DailyCap, Used, getOrCreateDaily
    <3>6. ASSUME ~raced PROVE granted[day] <= a + lost[day]
      <4>1. granted[day] <= Used + lost[day] \/ granted[day] <= disk[day] + lost[day]
          BY <1>1, <3>6 DEF Known
      <4>2. bucket.used <= a /\ disk[day] <= a /\ bucket.used \in Nat
          BY <1>3, <2>2 DEF a
      <4> QED
          BY SMTT(60), <1>3, <3>2, <3>3, <4>1, <4>2
    <3> QED
        BY <1>2, <1>5, <3>4, <3>5, <3>6 DEF CapInv, Known
  <2> QED
      BY <2>1, <2>3, <2>4
<1>6. CASE Forget(getOrCreateDaily(day).used) /\ UNCHANGED bucket
  <2>1. Forget(Used)
      BY <1>6 DEF Used
  <2>2. /\ lost' \in [Days -> Nat] /\ \A d \in Days : lost[d] <= lost'[d]
        /\ granted[day] <= Used + lost'[day]
      BY <1>1, <1>3, <2>1, ForgetIs
  <2>3. DailyCap'
      BY <1>1, <1>2, <2>2, CapForgets
  <2>4. Numbers' /\ NotYet' /\ Used' = Used
      BY <1>1, <1>2, <1>6, <2>2 DEF Numbers, NotYet, Used, getOrCreateDaily
  <2>5. bucket.in /\ bucket.day = day => Used = bucket.used
      BY <1>1, UsedIs
  <2>6. Known'
      BY <1>2, <1>6, <2>2, <2>4, <2>5 DEF Known
  <2> QED
      BY <2>3, <2>4, <2>6 DEF CapInv
<1> QED
    BY <1>4, <1>5, <1>6 DEF ensurePreloaded

(* Midnight: nothing of the new day is granted.                            *)
LEMMA CapMidnight ==
  ASSUME CapInv, Midnight PROVE CapInv'
<1>1. Numbers /\ NotYet /\ DailyCap
    BY DEF CapInv
<1>2. day < MaxDay /\ day' = day + 1 /\ UNCHANGED <<shape, bucket, gate, disk, reset, loaded, granted, lost, raced>>
    BY DEF Midnight, history, request
<1>3. day \in Days /\ day' \in Days /\ day' > day /\ \A d \in Days : d > day' => d > day
    BY SMTT(60), <1>1, <1>2, BudgetAssumption DEF Days, Numbers
<1>4. granted[day'] = 0 /\ disk[day'] = 0
    BY <1>1, <1>3 DEF NotYet
<1>5. Numbers' /\ NotYet' /\ DailyCap'
    BY <1>1, <1>2, <1>3, <1>4 DEF Numbers, NotYet, DailyCap
<1>6. Used' \in Nat /\ lost'[day'] \in Nat /\ (bucket.used)' \in Nat /\ (disk[day])' \in Nat /\ (granted[day])' = 0
  <2>1. Used' \in Nat
      BY <1>5 DEF Numbers, Used, getOrCreateDaily
  <2> QED
      BY <1>2, <1>4, <1>5, <2>1 DEF Numbers
<1>7. Known'
    BY SMTT(60), <1>6 DEF Known
<1> QED
    BY <1>5, <1>7 DEF CapInv

(* A flush stores today's count, which knows all of today's grants.        *)
LEMMA CapFlushed ==
  ASSUME CapInv, disk' \in {Flushed, disk}, reset' \in {reset, "flushed"},
         reset = "cleared" => reset' = reset,
         UNCHANGED <<shape, day, bucket, gate, loaded, granted, lost, raced>>
  PROVE  CapInv'
<1>1. Numbers /\ NotYet /\ DailyCap /\ (~raced => Known)
    BY DEF CapInv
<1>2. Used' = Used
    BY DEF Used, getOrCreateDaily
<1>3. CASE disk' = disk
  <2>1. Numbers' /\ NotYet' /\ DailyCap'
      BY <1>1, <1>3 DEF Numbers, NotYet, DailyCap
  <2>2. ~raced' => Known'
      BY <1>1, <1>2, <1>3 DEF Known
  <2> QED
      BY <2>1, <2>2 DEF CapInv
<1>4. CASE bucket.in /\ bucket.day = day /\ disk' = [disk EXCEPT ![day] = bucket.used]
  <2>1. day \in Days /\ bucket.used \in Nat /\ disk \in [Days -> Nat]
      BY <1>1 DEF Numbers
  <2>2. disk' \in [Days -> Nat] /\ disk'[day] = bucket.used /\ \A d \in Days : d # day => disk'[d] = disk[d]
      BY <1>4, <2>1
  <2>3. \A d \in Days : d > day => d # day
      BY SMTT(60), <2>1 DEF Days
  <2>4. Numbers' /\ DailyCap'
      BY <1>1, <2>2 DEF Numbers, DailyCap
  <2>5. NotYet'
      BY <1>1, <1>4, <2>2, <2>3 DEF NotYet
  <2>6. ~raced' => Known'
      BY <1>1, <1>2, <1>4, <2>2 DEF Known
  <2> QED
      BY <2>4, <2>5, <2>6 DEF CapInv
<1> QED
    BY <1>3, <1>4 DEF Flushed

(* The sweep only removes what is of another day.                          *)
LEMMA CapSweep ==
  ASSUME CapInv, SweepIdle PROVE CapInv'
<1>1. Numbers /\ NotYet /\ DailyCap /\ (~raced => Known)
    BY DEF CapInv
<1>2. /\ bucket' = IF bucket.in /\ bucket.day # day THEN NoBucket ELSE bucket
      /\ gate' = gate \cap {day}
      /\ UNCHANGED <<shape, loaded, day, disk, reset, granted, lost, raced>>
    BY DEF SweepIdle, request, history
<1>3. 0 \in Days
    BY SMTT(60), BudgetAssumption DEF Days
<1>4. Numbers'
    BY <1>1, <1>2, <1>3 DEF Numbers, NoBucket
<1>5. NotYet' /\ DailyCap'
    BY <1>1, <1>2 DEF NotYet, DailyCap, NoBucket
<1>6. Used' = Used
    BY <1>2 DEF Used, getOrCreateDaily, NoBucket
<1>7. ~raced' => Known'
    BY <1>1, <1>2, <1>6 DEF Known, NoBucket
<1> QED
    BY <1>4, <1>5, <1>7 DEF CapInv

(* Clearing the count forgets what the disk does not know.                 *)
LEMMA CapCleared ==
  ASSUME CapInv, bucket' = NoBucket, Forget(disk[day]),
         reset' = "cleared" \/ (loaded' = {} /\ gate' = {}),
         UNCHANGED <<shape, day, disk, granted, raced>>
  PROVE  CapInv'
<1>1. Numbers /\ NotYet /\ DailyCap
    BY DEF CapInv
<1>2. disk[day] \in Nat
    BY <1>1 DEF Numbers
<1>3. /\ lost' \in [Days -> Nat] /\ \A d \in Days : lost[d] <= lost'[d]
      /\ granted[day] <= disk[day] + lost'[day]
    BY <1>1, <1>2, ForgetIs
<1>4. DailyCap'
    BY <1>1, <1>3, CapForgets
<1>5. 0 \in Days
    BY SMTT(60), BudgetAssumption DEF Days
<1>6. Numbers' /\ NotYet'
    BY <1>1, <1>3, <1>5 DEF Numbers, NotYet, NoBucket
<1>7. Known'
    BY <1>3 DEF Known, NoBucket
<1> QED
    BY <1>4, <1>6, <1>7 DEF CapInv

(* Opening the gates again makes the next call read the disk.  A call that *)
(* had its preload behind it is one that overlaps the clearing.            *)
LEMMA CapGates ==
  ASSUME CapInv, Reset_Gates PROVE CapInv'
<1>1. Numbers /\ NotYet /\ DailyCap /\ (~raced => Known)
    BY DEF CapInv
<1>2. /\ reset' = "none" /\ gate' = {} /\ raced' = (raced \/ loaded # {})
      /\ UNCHANGED <<shape, loaded, day, bucket, disk, granted, lost>>
    BY DEF Reset_Gates, request
<1>3. Numbers' /\ NotYet' /\ DailyCap'
    BY <1>1, <1>2 DEF Numbers, NotYet, DailyCap
<1>4. Used' = Used
    BY <1>2 DEF Used, getOrCreateDaily
<1>5. ~raced' => Known'
    BY <1>1, <1>2, <1>4 DEF Known
<1> QED
    BY <1>3, <1>5 DEF CapInv

(* Every other step leaves the daily count alone.                          *)
LEMMA CapStep ==
  ASSUME CapInv, [Next]_vars PROVE CapInv'
<1> USE DEF limits, count, history, request
<1>1. ASSUME NEW r \in Requests, QuotaMiddleware(r) PROVE CapInv'
  <2>1. CountKeptAlone
      BY <1>1 DEF QuotaMiddleware, CountKeptAlone, enforcePerModelQuota, enforceFlatQuota, AllowRequest, Answer
  <2> QED
      BY <2>1, CapQuiet
<1>2. ASSUME NEW r \in Requests, enforcePerKeyRates(r) PROVE CapInv'
  <2>1. CountKeptAlone
      BY <1>2 DEF enforcePerKeyRates, CountKeptAlone, Answer
  <2> QED
      BY <2>1, CapQuiet
<1>3. ASSUME NEW r \in Requests, reserveInputBudget_Charge(r) PROVE CapInv'
  <2>1. shape[r].est \in Nat
      BY DEF CapInv, Numbers
  <2>2. r \in loaded /\ allowTokens(r, shape[r].est, "in") /\ UNCHANGED <<shape, day, gate, disk, reset>>
      BY <1>3 DEF reserveInputBudget_Charge
  <2> QED
      BY <2>1, <2>2, CapDeduct
<1>4. ASSUME NEW r \in Requests, enqueueRequest(r) PROVE CapInv'
  <2>1. CountKeptAlone
      BY <1>4 DEF enqueueRequest, CountKeptAlone, Answer
  <2> QED
      BY <2>1, CapQuiet
<1>5. ASSUME NEW r \in Requests, forwardToAgent(r) PROVE CapInv'
  <2>1. CountKeptAlone
      BY <1>5 DEF forwardToAgent, CountKeptAlone
  <2> QED
      BY <2>1, CapQuiet
<1>6. ASSUME NEW r \in Requests, ChargeAnswer(r) \/ drainStream(r) PROVE CapInv'
  <2>1. shape[r].out \in Nat
      BY DEF CapInv, Numbers
  <2>2. r \in loaded /\ allowTokens(r, shape[r].out, "out") /\ UNCHANGED <<shape, day, gate, disk, reset>>
      BY <1>6 DEF ChargeAnswer, drainStream
  <2> QED
      BY <2>1, <2>2, CapDeduct
<1>7. ASSUME NEW r \in Requests,
             writeSuccessResponse(r) \/ CopyEnds(r) \/ writeErrorResponse(r) \/ awaitResponse_Timeout(r)
      PROVE  CapInv'
  <2>1. CountKeptAlone
      BY <1>7 DEF writeSuccessResponse, CopyEnds, writeErrorResponse, awaitResponse_Timeout, CountKeptAlone, Answer
  <2> QED
      BY <2>1, CapQuiet
<1>8. ASSUME Refill \/ (\E n \in 0..MaxReplicas : Fleet(n)) PROVE CapInv'
  <2>1. CountKeptAlone
      BY <1>8 DEF Refill, Fleet, CountKeptAlone
  <2> QED
      BY <2>1, CapQuiet
<1>9. ASSUME Flush PROVE CapInv'
  <2>1. disk' \in {Flushed, disk} /\ UNCHANGED <<shape, day, bucket, gate, loaded, reset, granted, lost, raced>>
      BY <1>9 DEF Flush
  <2> QED
      BY <2>1, CapFlushed
<1>10. ASSUME Reset_Flush PROVE CapInv'
  <2>1. /\ disk' \in {Flushed, disk} /\ reset = "none" /\ reset' = "flushed"
        /\ UNCHANGED <<shape, day, bucket, gate, loaded, granted, lost, raced>>
      BY <1>10 DEF Reset_Flush
  <2>2. reset # "cleared"
      BY SMTT(60), <2>1
  <2> QED
      BY <2>1, <2>2, CapFlushed
<1>11. ASSUME Reset_Clear \/ Crash PROVE CapInv'
  <2>1. /\ bucket' = NoBucket /\ Forget(disk[day])
        /\ reset' = "cleared" \/ (loaded' = {} /\ gate' = {})
        /\ UNCHANGED <<shape, day, disk, granted, raced>>
      BY <1>11 DEF Reset_Clear, Crash
  <2> QED
      BY <2>1, CapCleared
<1>12. ASSUME UNCHANGED vars PROVE CapInv'
  <2>1. CountKeptAlone
      BY <1>12 DEF vars, CountKeptAlone
  <2> QED
      BY <2>1, CapQuiet
<1> QED
    BY <1>1, <1>2, <1>3, <1>4, <1>5, <1>6, <1>7, <1>8, <1>9, <1>10, <1>11, <1>12,
       CapPreload, CapPeek, CapMidnight, CapSweep, CapGates DEF Next

(* The tokens granted on a day never exceed the daily budget by more than  *)
(* what a crash, a failed read or a failed flush forgot, for any number of *)
(* requests, days and faults and any budget, unless a call on the budget   *)
(* overlaps a reload's clearing (allowTokens, ensurePreloaded, Reset).     *)
THEOREM BudgetCapped == Spec => []DailyCap
<1>1. CapInv => DailyCap
    BY DEF CapInv
<1> QED
    BY <1>1, CapInit, CapStep, PTL DEF Spec

-----------------------------------------------------------------------------
(* Nothing is counted twice.                                               *)

ChargeInv == Numbers /\ NotOvercharged

LEMMA ChargeInit == Init => ChargeInv
<1> SUFFICES ASSUME Init PROVE ChargeInv
    OBVIOUS
<1>1. Numbers
    BY CapInit DEF CapInv
<1>2. \A d \in Days : disk[d] = 0 /\ granted[d] = 0
    BY DEF Init
<1>3. ~bucket.in
    BY DEF Init, NoBucket
<1>4. 0 <= 0
    BY SMTT(60)
<1> QED
    BY <1>1, <1>2, <1>3, <1>4 DEF ChargeInv, NotOvercharged

(* A step that lets the granted amount of a day grow at least as much as   *)
(* its count.                                                              *)
LEMMA ChargeDeduct ==
  ASSUME ChargeInv, Numbers', NEW r \in Requests, NEW n \in Nat, NEW what,
         allowTokens(r, n, what), disk' = disk
  PROVE  ChargeInv'
<1> DEFINE b == getOrCreateDaily(day)
<1>1. Numbers /\ NotOvercharged
    BY DEF ChargeInv
<1>2. /\ bucket' = Deduct(b, n)
      /\ granted' = [granted EXCEPT ![day] = IF Fits(b, n) THEN @ + n ELSE @]
      /\ refused' = IF Fits(b, n) THEN refused ELSE refused \cup {day}
    BY DEF allowTokens
<1>3. /\ b \in [in : BOOLEAN, used : Nat, day : Days] /\ b.in = TRUE /\ b.day = day
      /\ b.used = 0 \/ (bucket.in /\ bucket.day = day /\ b.used = bucket.used)
    BY <1>1, UsedIs DEF getOrCreateDaily, Numbers
<1>4. day \in Days /\ granted \in [Days -> Nat] /\ disk \in [Days -> Nat]
    BY <1>1 DEF Numbers
<1>5. bucket'.day = day /\ (Fits(b, n) => bucket'.used = b.used + n)
    BY <1>2, <1>3 DEF Deduct
<1> HIDE DEF b
<1>6. ASSUME NEW d \in Days \ refused'
      PROVE  disk'[d] <= granted'[d] /\ (bucket'.in /\ bucket'.day = d => bucket'.used <= granted'[d])
  <2>1. d \in Days \ refused
      BY <1>2, <1>6
  <2>2. disk[d] <= granted[d] /\ (bucket.in /\ bucket.day = d => bucket.used <= granted[d])
      BY <1>1, <2>1 DEF NotOvercharged
  <2>3. CASE d # day
    <3>1. granted'[d] = granted[d]
        BY <1>2, <1>4, <2>1, <2>3
    <3> QED
        BY <1>5, <2>2, <2>3, <3>1
  <2>4. CASE d = day
    <3>1. Fits(b, n)
        BY <1>2, <1>6, <2>4
    <3>2. granted'[d] = granted[d] + n
        BY <1>2, <1>4, <2>4, <3>1
    <3>3. granted[d] \in Nat /\ disk[d] \in Nat /\ b.used \in Nat
        BY <1>3, <1>4, <2>4
    <3>4. b.used = 0 \/ b.used <= granted[d]
        BY <1>3, <2>2, <2>4
    <3>5. bucket'.used = b.used + n /\ disk'[d] = disk[d]
        BY <1>5, <3>1
    <3> QED
        BY SMTT(60), <2>2, <3>2, <3>3, <3>4, <3>5
  <2> QED
      BY <2>3, <2>4
<1> QED
    BY <1>6 DEF ChargeInv, NotOvercharged

(* A step that grants nothing, and counts nothing that was not counted for *)
(* the day before.                                                         *)
CountsNoMore ==
  /\ UNCHANGED <<granted, refused>>
  /\ \A d \in Days :
       /\ disk'[d] = disk[d] \/ (bucket.in /\ bucket.day = d /\ disk'[d] = bucket.used)
       /\ bucket'.in /\ bucket'.day = d =>
            \/ bucket'.used \in {0, disk[d]}
            \/ bucket.in /\ bucket.day = d /\ bucket'.used = bucket.used

LEMMA ChargeNoMore ==
  ASSUME ChargeInv, Numbers', CountsNoMore PROVE ChargeInv'
<1>1. ASSUME NEW d \in Days \ refused
      PROVE  disk'[d] <= granted[d] /\ (bucket'.in /\ bucket'.day = d => bucket'.used <= granted[d])
  <2>1. disk[d] <= granted[d] /\ (bucket.in /\ bucket.day = d => bucket.used <= granted[d])
      BY DEF ChargeInv, NotOvercharged
  <2>2. 0 <= granted[d]
      BY SMTT(60) DEF ChargeInv, Numbers
  <2> QED
      BY <2>1, <2>2 DEF CountsNoMore
<1> QED
    BY <1>1 DEF ChargeInv, NotOvercharged, CountsNoMore

LEMMA ChargeStep ==
  ASSUME ChargeInv, Numbers', [Next]_vars PROVE ChargeInv'
<1> USE DEF limits, count, history, request
<1>1. /\ Numbers /\ day \in Days /\ bucket.used \in Nat /\ disk[day] \in Nat
    BY DEF ChargeInv, Numbers
<1>2. ASSUME UNCHANGED <<disk, bucket, granted, refused>> PROVE ChargeInv'
    BY <1>2 DEF ChargeInv, NotOvercharged
<1>3. ASSUME NEW r \in Requests,
             QuotaMiddleware(r) \/ enforcePerKeyRates(r) \/ enqueueRequest(r) \/ forwardToAgent(r)
      PROVE  ChargeInv'
  <2>1. UNCHANGED <<disk, bucket, granted, refused>>
      BY <1>3 DEF QuotaMiddleware, enforcePerKeyRates, enqueueRequest, forwardToAgent
  <2> QED
      BY <2>1, <1>2
<1>4. ASSUME NEW r \in Requests,
             writeSuccessResponse(r) \/ CopyEnds(r) \/ writeErrorResponse(r) \/ awaitResponse_Timeout(r)
      PROVE  ChargeInv'
  <2>1. UNCHANGED <<disk, bucket, granted, refused>>
      BY <1>4 DEF writeSuccessResponse, CopyEnds, writeErrorResponse, awaitResponse_Timeout
  <2> QED
      BY <2>1, <1>2
<1>5. ASSUME Refill \/ (\E n \in 0..MaxReplicas : Fleet(n)) \/ Midnight \/ Reset_Gates \/ UNCHANGED vars
      PROVE  ChargeInv'
  <2>1. UNCHANGED <<disk, bucket, granted, refused>>
      BY <1>5 DEF Refill, Fleet, Midnight, Reset_Gates, vars
  <2> QED
      BY <2>1, <1>2
<1>6. ASSUME NEW r \in Requests, ensurePreloaded(r) PROVE ChargeInv'
  <2>1. UNCHANGED <<disk, granted, refused>>
      BY <1>6 DEF ensurePreloaded
  <2>2. \/ bucket' = bucket
        \/ bucket' = [in |-> TRUE, used |-> disk[day], day |-> day]
        \/ bucket.in /\ bucket.day = day /\ bucket' = [bucket EXCEPT !.used = Adopt(disk[day])]
      BY <1>6 DEF ensurePreloaded
  <2>3. Adopt(disk[day]) \in {bucket.used, disk[day]}
    <3>1. bucket.used \in Int /\ disk[day] \in Int
        BY SMTT(60), <1>1
    <3> QED
        BY <3>1, MaxIs DEF Adopt
  <2>4. bucket \in [in : BOOLEAN, used : Nat, day : Days]
      BY <1>1 DEF Numbers
  <2>5. \/ bucket' = bucket
        \/ bucket'.day = day /\ bucket'.used = disk[day]
        \/ bucket.in /\ bucket.day = day /\ bucket'.day = day /\ bucket'.used = bucket.used
      BY SMTT(60), <2>2, <2>3, <2>4
  <2>6. CountsNoMore
      BY <2>1, <2>5 DEF CountsNoMore
  <2> QED
      BY <2>6, ChargeNoMore
<1>7. ASSUME NEW r \in Requests, reserveInputBudget_Peek(r) PROVE ChargeInv'
  <2>1. UNCHANGED <<disk, granted, refused>> /\ bucket' = getOrCreateDaily(day)
      BY <1>7 DEF reserveInputBudget_Peek
  <2>2. CountsNoMore
      BY <2>1 DEF CountsNoMore, getOrCreateDaily
  <2> QED
      BY <2>2, ChargeNoMore
<1>8. ASSUME NEW r \in Requests, reserveInputBudget_Charge(r) PROVE ChargeInv'
  <2>1. shape[r].est \in Nat /\ allowTokens(r, shape[r].est, "in") /\ disk' = disk
      BY <1>1, <1>8 DEF Numbers, reserveInputBudget_Charge
  <2> QED
      BY <2>1, ChargeDeduct
<1>9. ASSUME NEW r \in Requests, ChargeAnswer(r) \/ drainStream(r) PROVE ChargeInv'
  <2>1. shape[r].out \in Nat /\ allowTokens(r, shape[r].out, "out") /\ disk' = disk
      BY <1>1, <1>9 DEF Numbers, ChargeAnswer, drainStream
  <2> QED
      BY <2>1, ChargeDeduct
<1>10. ASSUME Flush \/ Reset_Flush PROVE ChargeInv'
  <2>1. UNCHANGED <<bucket, granted, refused>> /\ disk' \in {Flushed, disk}
      BY <1>10 DEF Flush, Reset_Flush
  <2>2. \A d \in Days : disk'[d] = disk[d] \/ (bucket.in /\ bucket.day = d /\ disk'[d] = bucket.used)
    <3>1. disk \in [Days -> Nat]
        BY <1>1 DEF Numbers
    <3> QED
        BY <2>1, <3>1 DEF Flushed
  <2>3. CountsNoMore
      BY <2>1, <2>2 DEF CountsNoMore
  <2> QED
      BY <2>3, ChargeNoMore
<1>11. ASSUME SweepIdle \/ Reset_Clear \/ Crash PROVE ChargeInv'
  <2>1. UNCHANGED <<disk, granted, refused>> /\ (bucket' = NoBucket \/ bucket' = bucket)
      BY <1>11 DEF SweepIdle, Reset_Clear, Crash
  <2>2. CountsNoMore
      BY SMTT(60), <2>1 DEF CountsNoMore, NoBucket
  <2> QED
      BY <2>2, ChargeNoMore
<1> QED
    BY <1>3, <1>4, <1>5, <1>6, <1>7, <1>8, <1>9, <1>10, <1>11 DEF Next

(* The count of a day without a refusal is at most what was granted on     *)
(* that day, in memory and on disk: the preload adds nothing twice, and    *)
(* nothing of yesterday is counted today (getOrCreateDaily, Flush).        *)
THEOREM ChargedOnce == Spec => []NotOvercharged
<1>1. ChargeInv => NotOvercharged
    BY DEF ChargeInv
<1>2. CapInv => Numbers
    BY DEF CapInv
<1> QED
    BY <1>1, <1>2, CapInit, CapStep, ChargeInit, ChargeStep, PTL DEF Spec

-----------------------------------------------------------------------------
(* What is answered is paid for, and what a gate refused costs nothing.    *)

Gated == {"rpm", "otpm", "itpm"}

PaidType ==
  /\ pc \in [Requests -> {"quota", "handler", "peek", "charge", "queue", "wait", "copy", "done"}]
  /\ worker \in [Requests -> {"none", "queued", "charge", "drain", "done"}]
  /\ mail \in [Requests -> {"none", "error", "response", "denied"}]
  /\ answer \in [Requests -> Gated \cup {"none", "budget", "late", "full", "ok", "error", "denied", "timeout"}]
  /\ paid \in [Requests -> SUBSET {"in", "out"}]

\* One request: before it is queued no processor works for it; before the
\* rate gates nothing is paid, and a refusal there is its end; a response
\* that was charged is sent only when the charge was granted.
PaidRow(r) ==
  /\ pc[r] \in {"quota", "handler", "peek", "charge", "queue"} => worker[r] = "none" /\ mail[r] = "none"
  /\ pc[r] \in {"quota", "handler"} => paid[r] = {}
  /\ answer[r] \in Gated => pc[r] = "done" /\ worker[r] = "none" /\ paid[r] = {}
  /\ Charged(r) /\ ~shape[r].stream /\ (mail[r] = "response" \/ answer[r] = "ok") => "out" \in paid[r]

PaidInv == PaidType /\ \A r \in Requests : PaidRow(r)

LEMMA PaidInit == Init => PaidInv
  BY SMTT(60) DEF Init, PaidInv, PaidType, PaidRow, Gated

(* A step of one request's handler or processor.                           *)
LEMMA PaidOne ==
  ASSUME PaidInv, NEW r \in Requests, UNCHANGED shape, PaidType', PaidRow(r)',
         \A s \in Requests \ {r} : /\ pc'[s] = pc[s] /\ worker'[s] = worker[s] /\ mail'[s] = mail[s]
                                  /\ answer'[s] = answer[s] /\ paid'[s] = paid[s]
  PROVE  PaidInv'
<1>1. ASSUME NEW s \in Requests, s # r PROVE PaidRow(s)'
  <2>1. pc'[s] = pc[s] /\ worker'[s] = worker[s] /\ mail'[s] = mail[s] /\ answer'[s] = answer[s] /\ paid'[s] = paid[s]
      BY <1>1
  <2>2. PaidRow(s)
      BY DEF PaidInv
  <2> QED
      BY <2>1, <2>2 DEF PaidRow, Charged
<1> QED
    BY <1>1 DEF PaidInv

(* A step that touches no request.                                         *)
LEMMA PaidNone ==
  ASSUME PaidInv, UNCHANGED <<shape, pc, worker, mail, answer, paid>> PROVE PaidInv'
  BY DEF PaidInv, PaidType, PaidRow, Charged

LEMMA PaidStep ==
  ASSUME PaidInv, [Next]_vars PROVE PaidInv'
<1> USE DEF limits, count, history, request
<1>0. PaidType /\ \A r \in Requests : PaidRow(r)
    BY DEF PaidInv
<1>1. ASSUME NEW r \in Requests, QuotaMiddleware(r) PROVE PaidInv'
  <2>1. PaidType'
      BY SMTT(60), <1>0, <1>1 DEF PaidType, Gated, QuotaMiddleware, enforcePerModelQuota, enforceFlatQuota, AllowRequest, Answer
  <2>2. /\ UNCHANGED shape
        /\ \A s \in Requests \ {r} : /\ pc'[s] = pc[s] /\ worker'[s] = worker[s] /\ mail'[s] = mail[s]
                                     /\ answer'[s] = answer[s] /\ paid'[s] = paid[s]
      BY SMTT(60), <1>0, <1>1 DEF PaidType, QuotaMiddleware, enforcePerModelQuota, enforceFlatQuota, AllowRequest, Answer
  <2>3. PaidRow(r)'
      BY SMTT(60), <1>0, <1>1 DEF PaidType, PaidRow, Gated, Charged, QuotaMiddleware, enforcePerModelQuota, enforceFlatQuota, AllowRequest, Answer
  <2> QED
      BY <2>1, <2>2, <2>3, PaidOne
<1>2. ASSUME NEW r \in Requests, enforcePerKeyRates(r) PROVE PaidInv'
  <2>1. PaidType'
      BY SMTT(60), <1>0, <1>2 DEF PaidType, Gated, enforcePerKeyRates, Answer
  <2>2. /\ UNCHANGED shape
        /\ \A s \in Requests \ {r} : /\ pc'[s] = pc[s] /\ worker'[s] = worker[s] /\ mail'[s] = mail[s]
                                     /\ answer'[s] = answer[s] /\ paid'[s] = paid[s]
      BY SMTT(60), <1>0, <1>2 DEF PaidType, enforcePerKeyRates, Answer
  <2>3. PaidRow(r)'
      BY SMTT(60), <1>0, <1>2 DEF PaidType, PaidRow, Gated, Charged, enforcePerKeyRates, Answer
  <2> QED
      BY <2>1, <2>2, <2>3, PaidOne
<1>3. ASSUME NEW r \in Requests, ensurePreloaded(r) PROVE PaidInv'
  <2>1. PaidType'
      BY SMTT(60), <1>0, <1>3 DEF PaidType, Gated, ensurePreloaded
  <2>2. /\ UNCHANGED shape
        /\ \A s \in Requests \ {r} : /\ pc'[s] = pc[s] /\ worker'[s] = worker[s] /\ mail'[s] = mail[s]
                                     /\ answer'[s] = answer[s] /\ paid'[s] = paid[s]
      BY SMTT(60), <1>0, <1>3 DEF PaidType, ensurePreloaded
  <2>3. PaidRow(r)'
      BY SMTT(60), <1>0, <1>3 DEF PaidType, PaidRow, Gated, Charged, ensurePreloaded
  <2> QED
      BY <2>1, <2>2, <2>3, PaidOne
<1>4. ASSUME NEW r \in Requests, reserveInputBudget_Peek(r) PROVE PaidInv'
  <2>1. PaidType'
      BY SMTT(60), <1>0, <1>4 DEF PaidType, Gated, reserveInputBudget_Peek
  <2>2. /\ UNCHANGED shape
        /\ \A s \in Requests \ {r} : /\ pc'[s] = pc[s] /\ worker'[s] = worker[s] /\ mail'[s] = mail[s]
                                     /\ answer'[s] = answer[s] /\ paid'[s] = paid[s]
      BY SMTT(60), <1>0, <1>4 DEF PaidType, reserveInputBudget_Peek
  <2>3. PaidRow(r)'
      BY SMTT(60), <1>0, <1>4 DEF PaidType, PaidRow, Gated, Charged, reserveInputBudget_Peek
  <2> QED
      BY <2>1, <2>2, <2>3, PaidOne
<1>5. ASSUME NEW r \in Requests, reserveInputBudget_Charge(r) PROVE PaidInv'
  <2> DEFINE fits == Fits(getOrCreateDaily(day), shape[r].est)
  <2>0. /\ paid' = [paid EXCEPT ![r] = IF fits THEN @ \cup {"in"} ELSE @]
        /\ pc[r] = "charge" /\ UNCHANGED <<shape, worker, mail>>
        /\ \/ pc' = [pc EXCEPT ![r] = "queue"] /\ UNCHANGED answer
           \/ /\ answer' = [answer EXCEPT ![r] = "late"]
              /\ pc' = [pc EXCEPT ![r] = "done"]
      BY <1>5 DEF reserveInputBudget_Charge, allowTokens
  <2> HIDE DEF fits
  <2>1. PaidType'
      BY SMTT(60), <1>0, <2>0 DEF PaidType, Gated
  <2>2. /\ UNCHANGED shape
        /\ \A s \in Requests \ {r} : /\ pc'[s] = pc[s] /\ worker'[s] = worker[s] /\ mail'[s] = mail[s]
                                     /\ answer'[s] = answer[s] /\ paid'[s] = paid[s]
      BY SMTT(60), <1>0, <2>0 DEF PaidType
  <2>3. PaidRow(r)'
      BY SMTT(60), <1>0, <2>0 DEF PaidType, PaidRow, Gated, Charged
  <2> QED
      BY <2>1, <2>2, <2>3, PaidOne
<1>6. ASSUME NEW r \in Requests, enqueueRequest(r) PROVE PaidInv'
  <2>1. PaidType'
      BY SMTT(60), <1>0, <1>6 DEF PaidType, Gated, enqueueRequest, Answer
  <2>2. /\ UNCHANGED shape
        /\ \A s \in Requests \ {r} : /\ pc'[s] = pc[s] /\ worker'[s] = worker[s] /\ mail'[s] = mail[s]
                                     /\ answer'[s] = answer[s] /\ paid'[s] = paid[s]
      BY SMTT(60), <1>0, <1>6 DEF PaidType, enqueueRequest, Answer
  <2>3. PaidRow(r)'
      BY SMTT(60), <1>0, <1>6 DEF PaidType, PaidRow, Gated, Charged, enqueueRequest, Answer
  <2> QED
      BY <2>1, <2>2, <2>3, PaidOne
<1>7. ASSUME NEW r \in Requests, forwardToAgent(r) PROVE PaidInv'
  <2>1. PaidType'
      BY SMTT(60), <1>0, <1>7 DEF PaidType, Gated, forwardToAgent
  <2>2. /\ UNCHANGED shape
        /\ \A s \in Requests \ {r} : /\ pc'[s] = pc[s] /\ worker'[s] = worker[s] /\ mail'[s] = mail[s]
                                     /\ answer'[s] = answer[s] /\ paid'[s] = paid[s]
      BY SMTT(60), <1>0, <1>7 DEF PaidType, forwardToAgent
  <2>3. PaidRow(r)'
      BY SMTT(60), <1>0, <1>7 DEF PaidType, PaidRow, Gated, Charged, forwardToAgent
  <2> QED
      BY <2>1, <2>2, <2>3, PaidOne
<1>8. ASSUME NEW r \in Requests, ChargeAnswer(r) PROVE PaidInv'
  <2> DEFINE fits == Fits(getOrCreateDaily(day), shape[r].out)
  <2>0. /\ paid' = [paid EXCEPT ![r] = IF fits THEN @ \cup {"out"} ELSE @]
        /\ worker[r] = "charge" /\ UNCHANGED <<shape, pc, answer>>
        /\ mail' = [mail EXCEPT ![r] = IF fits THEN "response" ELSE "denied"]
        /\ worker' = [worker EXCEPT ![r] = "done"]
      BY <1>8 DEF ChargeAnswer, allowTokens
  <2> HIDE DEF fits
  <2>1. PaidType'
      BY SMTT(60), <1>0, <2>0 DEF PaidType, Gated
  <2>2. /\ UNCHANGED shape
        /\ \A s \in Requests \ {r} : /\ pc'[s] = pc[s] /\ worker'[s] = worker[s] /\ mail'[s] = mail[s]
                                     /\ answer'[s] = answer[s] /\ paid'[s] = paid[s]
      BY SMTT(60), <1>0, <2>0 DEF PaidType
  <2>3. PaidRow(r)'
      BY SMTT(60), <1>0, <2>0 DEF PaidType, PaidRow, Gated, Charged
  <2> QED
      BY <2>1, <2>2, <2>3, PaidOne
<1>9. ASSUME NEW r \in Requests, drainStream(r) PROVE PaidInv'
  <2> DEFINE fits == Fits(getOrCreateDaily(day), shape[r].out)
  <2>0. /\ paid' = [paid EXCEPT ![r] = IF fits THEN @ \cup {"out"} ELSE @]
        /\ worker[r] = "drain" /\ UNCHANGED <<shape, pc, mail, answer>>
        /\ worker' = [worker EXCEPT ![r] = "done"]
      BY <1>9 DEF drainStream, allowTokens
  <2> HIDE DEF fits
  <2>1. PaidType'
      BY SMTT(60), <1>0, <2>0 DEF PaidType, Gated
  <2>2. /\ UNCHANGED shape
        /\ \A s \in Requests \ {r} : /\ pc'[s] = pc[s] /\ worker'[s] = worker[s] /\ mail'[s] = mail[s]
                                     /\ answer'[s] = answer[s] /\ paid'[s] = paid[s]
      BY SMTT(60), <1>0, <2>0 DEF PaidType
  <2>3. PaidRow(r)'
      BY SMTT(60), <1>0, <2>0 DEF PaidType, PaidRow, Gated, Charged
  <2> QED
      BY <2>1, <2>2, <2>3, PaidOne
<1>10. ASSUME NEW r \in Requests, writeSuccessResponse(r) PROVE PaidInv'
  <2>1. PaidType'
      BY SMTT(60), <1>0, <1>10 DEF PaidType, Gated, writeSuccessResponse
  <2>2. /\ UNCHANGED shape
        /\ \A s \in Requests \ {r} : /\ pc'[s] = pc[s] /\ worker'[s] = worker[s] /\ mail'[s] = mail[s]
                                     /\ answer'[s] = answer[s] /\ paid'[s] = paid[s]
      BY SMTT(60), <1>0, <1>10 DEF PaidType, writeSuccessResponse
  <2>3. PaidRow(r)'
      BY SMTT(60), <1>0, <1>10 DEF PaidType, PaidRow, Gated, Charged, writeSuccessResponse
  <2> QED
      BY <2>1, <2>2, <2>3, PaidOne
<1>11. ASSUME NEW r \in Requests, CopyEnds(r) PROVE PaidInv'
  <2>1. PaidType'
      BY SMTT(60), <1>0, <1>11 DEF PaidType, Gated, CopyEnds
  <2>2. /\ UNCHANGED shape
        /\ \A s \in Requests \ {r} : /\ pc'[s] = pc[s] /\ worker'[s] = worker[s] /\ mail'[s] = mail[s]
                                     /\ answer'[s] = answer[s] /\ paid'[s] = paid[s]
      BY SMTT(60), <1>0, <1>11 DEF PaidType, CopyEnds
  <2>3. PaidRow(r)'
      BY SMTT(60), <1>0, <1>11 DEF PaidType, PaidRow, Gated, Charged, CopyEnds
  <2> QED
      BY <2>1, <2>2, <2>3, PaidOne
<1>12. ASSUME NEW r \in Requests, writeErrorResponse(r) PROVE PaidInv'
  <2>1. PaidType'
      BY SMTT(60), <1>0, <1>12 DEF PaidType, Gated, writeErrorResponse, Answer
  <2>2. /\ UNCHANGED shape
        /\ \A s \in Requests \ {r} : /\ pc'[s] = pc[s] /\ worker'[s] = worker[s] /\ mail'[s] = mail[s]
                                     /\ answer'[s] = answer[s] /\ paid'[s] = paid[s]
      BY SMTT(60), <1>0, <1>12 DEF PaidType, writeErrorResponse, Answer
  <2>3. PaidRow(r)'
      BY SMTT(60), <1>0, <1>12 DEF PaidType, PaidRow, Gated, Charged, writeErrorResponse, Answer
  <2> QED
      BY <2>1, <2>2, <2>3, PaidOne
<1>13. ASSUME NEW r \in Requests, awaitResponse_Timeout(r) PROVE PaidInv'
  <2>1. PaidType'
      BY SMTT(60), <1>0, <1>13 DEF PaidType, Gated, awaitResponse_Timeout, Answer
  <2>2. /\ UNCHANGED shape
        /\ \A s \in Requests \ {r} : /\ pc'[s] = pc[s] /\ worker'[s] = worker[s] /\ mail'[s] = mail[s]
                                     /\ answer'[s] = answer[s] /\ paid'[s] = paid[s]
      BY SMTT(60), <1>0, <1>13 DEF PaidType, awaitResponse_Timeout, Answer
  <2>3. PaidRow(r)'
      BY SMTT(60), <1>0, <1>13 DEF PaidType, PaidRow, Gated, Charged, awaitResponse_Timeout, Answer
  <2> QED
      BY <2>1, <2>2, <2>3, PaidOne
<1>14. ASSUME Refill \/ (\E n \in 0..MaxReplicas : Fleet(n)) \/ Midnight \/ Flush \/ SweepIdle
              \/ Reset_Flush \/ Reset_Clear \/ Reset_Gates \/ UNCHANGED vars
       PROVE  PaidInv'
  <2>1. UNCHANGED <<shape, pc, worker, mail, answer, paid>>
      BY <1>14 DEF Refill, Fleet, Midnight, Flush, SweepIdle, Reset_Flush, Reset_Clear, Reset_Gates, vars
  <2> QED
      BY <2>1, PaidNone
<1>15. ASSUME Crash PROVE PaidInv'
  <2>1. PaidType'
      BY SMTT(60), <1>0, <1>15 DEF PaidType, Crash
  <2>2. ASSUME NEW r \in Requests PROVE PaidRow(r)'
      BY SMTT(60), <1>0, <1>15 DEF PaidType, PaidRow, Charged, Crash
  <2> QED
      BY <2>1, <2>2 DEF PaidInv
<1> QED
    BY <1>1, <1>2, <1>3, <1>4, <1>5, <1>6, <1>7, <1>8, <1>9, <1>10, <1>11, <1>12, <1>13, <1>14, <1>15 DEF Next

(* A buffered answer reaches its client only when its output was granted,  *)
(* and a request that a rate gate refused has spent nothing of the budget  *)
(* (forwardToAgent, Passthrough, enforcePerKeyRates).                      *)
THEOREM ServedIsPaid == Spec => []PaidAsServed
<1>1. PaidInv => PaidAsServed
    BY DEF PaidInv, PaidRow, PaidAsServed, Gated
<1> QED
    BY <1>1, PaidInit, PaidStep, PTL DEF Spec

-----------------------------------------------------------------------------
(* The lifetime counters of an agent.                                      *)

Counts == [Field -> Nat]
Object == [base : Counts, session : Counts]
Total(x) == Sum(x.base, x.session)

Shape ==
    /\ objs \in Seq(Object) /\ cur \in 0..Len(objs) /\ stored \in Counts
    /\ rec \in [Rec -> [st : {"forward", "add", "done"}, obj : Nat]]
    /\ \A r \in Rec : rec[r].st = "add" => rec[r].obj \in 1..Len(objs)
    /\ boot \in [st : {"idle", "read"}, obj : Nat, h : Counts]
    /\ mon \in [st : {"idle", "load", "built", "delete"}, obj : Nat, h : Counts]
    /\ mon.st = "load" => mon.obj \in 1..Len(objs)
    /\ flush \in [st : {"idle", "locked", "built"}, obj : Nat, h : Counts]
    /\ flush.st = "locked" => flush.obj \in 1..Len(objs)
    /\ wiping \in {"idle", "locked", "swapped"}
    /\ recorded \in Counts /\ since \in Counts /\ overlap \in BOOLEAN

(* No object and no history in anyone's hands holds more than was counted. *)
Bounded ==
    /\ \A o \in 1..Len(objs) : Within(Total(objs[o]), recorded)
    /\ Within(stored, recorded) /\ Within(boot.h, recorded)
    /\ Within(mon.h, recorded) /\ Within(flush.h, recorded)

(* Nor does what can still reach the disk or be shown hold anything from   *)
(* before the last reset. Between the swap and the wipe of a reset the     *)
(* disk is excepted; flushMu keeps flushes out of that window, and a       *)
(* registration in it counts as an overlap.                                *)
Young ==
    /\ cur # 0 => Within(Total(objs[cur]), since)
    /\ mon.st = "load" => Within(Total(objs[mon.obj]), since)
    /\ mon.st = "built" => Within(mon.h, since)
    /\ flush.st = "locked" => Within(Total(objs[flush.obj]), since)
    /\ flush.st = "built" => Within(flush.h, since)
    /\ boot.st = "read" => Within(boot.h, since)
    /\ wiping # "swapped" => Within(stored, since)

Guarded ==
    /\ wiping # "idle" => flush.st = "idle"
    /\ ~overlap => Young
    /\ wiping = "swapped" /\ ~overlap => boot.st = "idle"

CountersInv == Shape /\ Bounded /\ Guarded

-----------------------------------------------------------------------------
(* Vectors of counts.                                                      *)

LEMMA SumCounts ==
  ASSUME NEW a \in Counts, NEW b \in Counts
  PROVE  Sum(a, b) \in Counts
  BY SMTT(60) DEF Sum, Counts

LEMMA ZeroWithin ==
  ASSUME NEW a \in Counts
  PROVE  Zero \in Counts /\ Within(Zero, a) /\ Sum(a, Zero) = a
  BY SMTT(60) DEF Zero, Counts, Within, Sum

LEMMA WithinTrans ==
  ASSUME NEW a \in Counts, NEW b \in Counts, NEW c \in Counts, Within(a, b), Within(b, c)
  PROVE  Within(a, c)
  BY SMTT(60) DEF Counts, Within

LEMMA TotalCounts ==
  ASSUME NEW x \in Object
  PROVE  Total(x) \in Counts
  BY SumCounts DEF Object, Total

(* A count goes up by one.                                                 *)
LEMMA OneMore ==
  ASSUME NEW a \in Counts, NEW f \in Field
  PROVE  LET b == [a EXCEPT ![f] = @ + 1] IN b \in Counts /\ Within(a, b)
  BY SMTT(60) DEF Counts, Within

(* ... and stays within a bound that goes up with it.                      *)
LEMMA BothMore ==
  ASSUME NEW x \in Object, NEW c \in Counts, NEW f \in Field, Within(Total(x), c)
  PROVE  LET y == [x EXCEPT !.session[f] = @ + 1]
             d == [c EXCEPT ![f] = @ + 1]
         IN  y \in Object /\ Within(Total(y), d)
  <1> DEFINE y == [x EXCEPT !.session[f] = @ + 1]
             s == [x.session EXCEPT ![f] = @ + 1]
             d == [c EXCEPT ![f] = @ + 1]
  <1>1. x.session \in Counts /\ x.base \in Counts
    BY DEF Object
  <1>2. s \in Counts /\ d \in Counts
    BY <1>1, OneMore
  <1>3. y = [x EXCEPT !.session = s]
    OBVIOUS
  <1>4. y \in Object /\ y.base = x.base /\ y.session = s
    BY <1>1, <1>2, <1>3 DEF Object
  <1>5. \A g \in Field : x.base[g] + x.session[g] <= c[g]
    BY DEF Within, Total, Sum
  <1>6. \A g \in Field : x.base[g] + s[g] <= d[g]
    BY SMTT(60), <1>1, <1>2, <1>5 DEF Counts
  <1> QED BY <1>4, <1>6 DEF Within, Total, Sum

-----------------------------------------------------------------------------
(* Counting an outcome raises one object's total and the bounds together.  *)
LEMMA Counted ==
  ASSUME Shape, Bounded, NEW o \in 1..Len(objs), NEW f \in Field, Add(o, f)
  PROVE  /\ objs' \in Seq(Object) /\ Len(objs') = Len(objs)
         /\ recorded' \in Counts /\ Within(recorded, recorded')
         /\ since' \in Counts /\ Within(since, since')
         /\ \A p \in 1..Len(objs) :
              /\ Within(Total(objs'[p]), recorded')
              /\ Within(Total(objs[p]), since) => Within(Total(objs'[p]), since')
  <1> USE DEF Shape
  <1> DEFINE y == [objs[o] EXCEPT !.session[f] = @ + 1]
  <1>1. objs[o] \in Object
    BY SMTT(60)
  <1>2. objs' = [objs EXCEPT ![o] = y]
    BY DEF Add
  <1>3. recorded' = [recorded EXCEPT ![f] = @ + 1] /\ since' = [since EXCEPT ![f] = @ + 1]
    BY DEF Add
  <1>4. /\ recorded' \in Counts /\ Within(recorded, recorded')
        /\ since' \in Counts /\ Within(since, since')
    BY <1>3, OneMore
  <1>5. y \in Object /\ Within(Total(y), recorded')
    BY <1>1, <1>3, BothMore DEF Bounded
  <1>6. Within(Total(objs[o]), since) => Within(Total(y), since')
    BY <1>1, <1>3, BothMore
  <1>7. objs' \in Seq(Object) /\ Len(objs') = Len(objs)
        /\ \A p \in 1..Len(objs) : objs'[p] = IF p = o THEN y ELSE objs[p]
    BY SMTT(60), <1>2, <1>5
  <1>8. ASSUME NEW p \in 1..Len(objs), p # o
        PROVE  /\ Within(Total(objs'[p]), recorded')
               /\ Within(Total(objs[p]), since) => Within(Total(objs'[p]), since')
    <2>1. objs'[p] = objs[p] /\ Total(objs[p]) \in Counts
      BY SMTT(60), <1>7, <1>8, TotalCounts
    <2> QED BY <2>1, <1>4, WithinTrans DEF Bounded
  <1> QED BY <1>4, <1>5, <1>6, <1>7, <1>8

(* ... which keeps the invariant.                                          *)
LEMMA CountedKeeps ==
  ASSUME CountersInv, NEW o \in 1..Len(objs), NEW f \in Field, Add(o, f),
         UNCHANGED <<cur, stored, boot, mon, flush, wiping, overlap>>,
         rec' \in [Rec -> [st : {"forward", "add", "done"}, obj : Nat]],
         \A r \in Rec : rec'[r].st = "add" => rec'[r].obj \in 1..Len(objs)
  PROVE  CountersInv'
  <1> USE DEF CountersInv
  <1>1. Shape'
    BY Counted DEF Shape
  <1>2. Bounded'
    <2>1. \A c \in {stored, boot.h, mon.h, flush.h} : c \in Counts /\ Within(c, recorded)
      BY DEF Shape, Bounded
    <2>2. \A c \in {stored, boot.h, mon.h, flush.h} : Within(c, recorded')
      BY <2>1, Counted, WithinTrans DEF Shape
    <2> QED BY <2>2, Counted DEF Bounded
  <1>3. Guarded'
    <2> SUFFICES ASSUME ~overlap PROVE Young'
      BY DEF Guarded
    <2>1. Young
      BY DEF Guarded
    <2>2. \A c \in {stored, boot.h, mon.h, flush.h} : Within(c, since) => Within(c, since')
      <3>1. \A c \in {stored, boot.h, mon.h, flush.h} : c \in Counts
        BY DEF Shape
      <3>2. since \in Counts /\ since' \in Counts /\ Within(since, since')
        BY Counted DEF Shape
      <3> QED BY <3>1, <3>2, WithinTrans
    <2>3. /\ cur' # 0 => Within(Total(objs'[cur']), since')
          /\ mon'.st = "load" => Within(Total(objs'[mon'.obj]), since')
          /\ flush'.st = "locked" => Within(Total(objs'[flush'.obj]), since')
      <3>1. cur # 0 => cur \in 1..Len(objs)
        <4>1. cur \in 0..Len(objs) /\ objs \in Seq(Object)
          BY DEF Shape
        <4> QED BY SMTT(60), <4>1
      <3>2. /\ mon.st = "load" => mon.obj \in 1..Len(objs)
            /\ flush.st = "locked" => flush.obj \in 1..Len(objs)
        BY DEF Shape
      <3> QED BY <2>1, <3>1, <3>2, Counted DEF Young
    <2> QED BY <2>1, <2>2, <2>3 DEF Young
  <1> QED BY <1>1, <1>2, <1>3

(* A new object holds its baseline and leaves the others alone.            *)
LEMMA FreshObject ==
  ASSUME objs \in Seq(Object), NEW base \in Counts, objs' = NewObject(base)
  PROVE  /\ objs' \in Seq(Object) /\ Len(objs') = Len(objs) + 1
         /\ \A p \in 1..Len(objs) : objs'[p] = objs[p]
         /\ Total(objs'[Len(objs')]) = base
  <1> DEFINE x == [base |-> base, session |-> Zero]
  <1>1. x \in Object /\ Total(x) = base
    BY ZeroWithin DEF Object, Total
  <1>2. objs' = Append(objs, x)
    BY DEF NewObject
  <1>3. objs' \in Seq(Object) /\ Len(objs') = Len(objs) + 1
        /\ objs'[Len(objs) + 1] = x /\ \A p \in 1..Len(objs) : objs'[p] = objs[p]
    BY SMTT(60), <1>1, <1>2
  <1> QED BY <1>1, <1>3

(* An object from a history no larger than what was counted, and no older  *)
(* than the reset, may become the current one.                             *)
LEMMA Replaces ==
  ASSUME CountersInv, NEW base \in Counts, objs' = NewObject(base), cur' = Len(objs'),
         Within(base, recorded), ~overlap => Within(base, since), boot' \in {boot, Idle},
         UNCHANGED <<stored, mon, flush, wiping, recorded, since, overlap>>,
         rec' \in [Rec -> [st : {"forward", "add", "done"}, obj : Nat]],
         \A r \in Rec : rec'[r].st = "add" => rec'[r].obj \in 1..Len(objs')
  PROVE  CountersInv'
  <1> USE DEF CountersInv
  <1>1. /\ objs' \in Seq(Object) /\ Len(objs') = Len(objs) + 1
        /\ \A p \in 1..Len(objs) : objs'[p] = objs[p]
        /\ Total(objs'[Len(objs')]) = base
    BY FreshObject DEF Shape
  <1>2. Idle = [st |-> "idle", obj |-> 0, h |-> Zero] /\ Zero \in Counts
        /\ Within(Zero, recorded) /\ Len(objs) \in Nat
    <2>1. recorded \in Counts /\ objs \in Seq(Object)
      BY DEF Shape
    <2>2. Len(objs) \in Nat
      BY SMTT(60), <2>1
    <2> QED BY <2>1, <2>2, ZeroWithin DEF Idle
  <1>3. Shape'
    <2>1. boot' \in [st : {"idle", "read"}, obj : Nat, h : Counts]
      BY SMTT(60), <1>2 DEF Shape
    <2>2. cur' \in 0..Len(objs') /\ \A p \in 1..Len(objs) : p \in 1..Len(objs')
      BY SMTT(60), <1>1, <1>2
    <2> QED BY <1>1, <2>1, <2>2 DEF Shape
  <1>4. Bounded'
    <2>1. \A p \in 1..Len(objs') : p \in 1..Len(objs) \/ p = Len(objs')
      BY SMTT(60), <1>1, <1>2
    <2>2. \A p \in 1..Len(objs') : Within(Total(objs'[p]), recorded)
      BY <1>1, <2>1 DEF Bounded
    <2>3. Within(boot'.h, recorded)
      BY SMTT(60), <1>2 DEF Bounded
    <2> QED BY <2>2, <2>3 DEF Bounded
  <1>5. Guarded'
    <2> SUFFICES ASSUME ~overlap PROVE Young' /\ (wiping = "swapped" => boot'.st = "idle")
      BY DEF Guarded
    <2>1. Young
      BY DEF Guarded
    <2>2. boot'.st = "idle" \/ boot' = boot
      BY SMTT(60), <1>2
    <2>3. /\ mon'.st = "load" => Within(Total(objs'[mon'.obj]), since')
          /\ flush'.st = "locked" => Within(Total(objs'[flush'.obj]), since')
      BY <1>1, <2>1 DEF Young, Shape
    <2> QED BY <1>1, <2>1, <2>2, <2>3 DEF Young, Guarded
  <1> QED BY <1>3, <1>4, <1>5

-----------------------------------------------------------------------------
LEMMA CountsInit == CountersInit => CountersInv
  <1> SUFFICES ASSUME CountersInit PROVE CountersInv
    OBVIOUS
  <1>1. Zero \in Counts /\ Within(Zero, Zero)
    BY SMTT(60) DEF Zero, Counts, Within
  <1>2. Shape
    <2>1. objs \in Seq(Object) /\ Len(objs) = 0
      BY SMTT(60) DEF CountersInit
    <2>2. rec \in [Rec -> [st : {"forward", "add", "done"}, obj : Nat]]
          /\ \A r \in Rec : rec[r].st # "add"
      BY DEF CountersInit
    <2>3. Idle = [st |-> "idle", obj |-> 0, h |-> Zero] /\ boot = Idle /\ mon = Idle /\ flush = Idle
      BY DEF Idle, CountersInit
    <2>4. /\ boot \in [st : {"idle", "read"}, obj : Nat, h : Counts]
          /\ mon \in [st : {"idle", "load", "built", "delete"}, obj : Nat, h : Counts]
          /\ flush \in [st : {"idle", "locked", "built"}, obj : Nat, h : Counts]
          /\ mon.st = "idle" /\ flush.st = "idle"
      BY <1>1, <2>3
    <2>5. cur = 0 /\ stored = Zero /\ wiping = "idle" /\ recorded = Zero /\ since = Zero /\ overlap = FALSE
      BY DEF CountersInit
    <2>6. cur \in 0..Len(objs)
      BY SMTT(60), <2>1, <2>5
    <2> QED BY <1>1, <2>1, <2>2, <2>4, <2>5, <2>6 DEF Shape
  <1>3. Bounded
    BY SMTT(60), <1>1 DEF CountersInit, Bounded, Idle
  <1>4. Guarded
    BY <1>1 DEF CountersInit, Guarded, Young, Idle
  <1> QED BY <1>2, <1>3, <1>4 DEF CountersInv

(* Recording an outcome.                                                   *)
LEMMA Recording ==
  ASSUME CountersInv, NEW r \in Rec, getOrInit(r) \/ RecordOutcome(r)
  PROVE  CountersInv'
  <1> USE DEF CountersInv
  <1>1. CASE getOrInit(r) /\ cur # 0
    <2>1. UNCHANGED <<objs, cur, stored, boot, mon, flush, wiping, recorded, since, overlap>>
          /\ rec' = [rec EXCEPT ![r] = [st |-> "add", obj |-> cur]]
      BY <1>1 DEF getOrInit
    <2>2. Shape'
      BY SMTT(60), <1>1, <2>1 DEF Shape
    <2> QED BY <2>1, <2>2 DEF Bounded, Guarded, Young
  <1>2. CASE getOrInit(r) /\ cur = 0
    <2>1. /\ UNCHANGED <<stored, boot, mon, flush, wiping, recorded, since, overlap>>
          /\ objs' = NewObject(Zero) /\ cur' = Len(objs')
          /\ rec' = [rec EXCEPT ![r] = [st |-> "add", obj |-> Len(objs')]]
      BY <1>2 DEF getOrInit
    <2>2. Zero \in Counts /\ Within(Zero, recorded) /\ Within(Zero, since)
      BY ZeroWithin DEF Shape
    <2>3. Len(objs') = Len(objs) + 1 /\ Len(objs) \in Nat
      BY SMTT(60), <2>1, <2>2, FreshObject DEF Shape
    <2>4. /\ rec' \in [Rec -> [st : {"forward", "add", "done"}, obj : Nat]]
          /\ \A s \in Rec : rec'[s].st = "add" => rec'[s].obj \in 1..Len(objs')
      BY SMTT(60), <2>1, <2>3 DEF Shape
    <2> QED BY <2>1, <2>2, <2>4, Replaces
  <1>3. CASE RecordOutcome(r)
    <2>1. /\ rec[r].obj \in 1..Len(objs) /\ Add(rec[r].obj, "requests")
          /\ rec' = [rec EXCEPT ![r] = [st |-> "done", obj |-> 0]]
          /\ UNCHANGED <<cur, stored, boot, mon, flush, wiping, overlap>>
      BY <1>3 DEF RecordOutcome, Shape
    <2>2. /\ rec' \in [Rec -> [st : {"forward", "add", "done"}, obj : Nat]]
          /\ \A s \in Rec : rec'[s].st = "add" => rec'[s].obj \in 1..Len(objs)
      BY <2>1 DEF Shape
    <2>3. "requests" \in Field
      BY DEF Field
    <2> QED BY <2>1, <2>2, <2>3, CountedKeeps
  <1> QED BY <1>1, <1>2, <1>3

(* A registration.                                                         *)
LEMMA Registering ==
  ASSUME CountersInv, BootstrapRead \/ BootstrapStore
  PROVE  CountersInv'
  <1> USE DEF CountersInv
  <1>1. CASE BootstrapRead
    <2>1. /\ UNCHANGED <<objs, cur, stored, rec, mon, flush, wiping, recorded, since>>
          /\ boot' = [st |-> "read", obj |-> 0, h |-> stored]
          /\ overlap' = (overlap \/ wiping # "idle")
      BY <1>1 DEF BootstrapRead, Idle
    <2>2. Shape'
      BY <2>1 DEF Shape
    <2> QED BY <2>1, <2>2 DEF Bounded, Guarded, Young
  <1>2. CASE BootstrapStore
    <2>1. /\ boot.st = "read" /\ objs' = NewObject(boot.h) /\ cur' = Len(objs')
          /\ boot' = Idle
          /\ UNCHANGED <<stored, rec, mon, flush, wiping, recorded, since, overlap>>
      BY <1>2 DEF BootstrapStore
    <2>2. boot.h \in Counts /\ Within(boot.h, recorded) /\ (~overlap => Within(boot.h, since))
      BY <2>1 DEF Shape, Bounded, Guarded, Young
    <2>3. Len(objs') = Len(objs) + 1 /\ Len(objs) \in Nat
      BY SMTT(60), <2>1, <2>2, FreshObject DEF Shape
    <2>4. /\ rec' \in [Rec -> [st : {"forward", "add", "done"}, obj : Nat]]
          /\ \A s \in Rec : rec'[s].st = "add" => rec'[s].obj \in 1..Len(objs')
      BY SMTT(60), <2>1, <2>3 DEF Shape
    <2> QED BY <2>1, <2>2, <2>4, Replaces
  <1> QED BY <1>1, <1>2

(* The health monitor.                                                     *)
LEMMA Monitoring ==
  ASSUME CountersInv, RecordAgentFailure \/ RecordDisconnect \/ DisconnectBuild
                        \/ DisconnectWrite \/ DeleteState
  PROVE  CountersInv'
  <1> USE DEF CountersInv
  <1>1. CASE RecordAgentFailure
    <2>1. /\ cur \in 1..Len(objs) /\ Add(cur, "agentFailures")
          /\ UNCHANGED <<cur, stored, rec, boot, mon, flush, wiping, overlap>>
      BY SMTT(60), <1>1 DEF RecordAgentFailure, Shape
    <2>2. "agentFailures" \in Field
      BY DEF Field
    <2>3. /\ rec' \in [Rec -> [st : {"forward", "add", "done"}, obj : Nat]]
          /\ \A s \in Rec : rec'[s].st = "add" => rec'[s].obj \in 1..Len(objs)
      BY <2>1 DEF Shape
    <2> QED BY <2>1, <2>2, <2>3, CountedKeeps
  <1>2. CASE RecordDisconnect
    <2>1. /\ cur # 0 /\ mon' = [st |-> "load", obj |-> cur, h |-> Zero]
          /\ UNCHANGED <<objs, cur, stored, rec, boot, flush, wiping, recorded, since, overlap>>
      BY <1>2 DEF RecordDisconnect, Idle
    <2>2. Zero \in Counts /\ Within(Zero, recorded)
      BY ZeroWithin DEF Shape
    <2>3. Shape'
      BY SMTT(60), <2>1, <2>2 DEF Shape
    <2> QED BY <2>1, <2>2, <2>3 DEF Bounded, Guarded, Young
  <1>3. CASE DisconnectBuild
    <2>1. /\ mon.st = "load" /\ mon' = [mon EXCEPT !.st = "built", !.h = Total(objs[mon.obj])]
          /\ UNCHANGED <<objs, cur, stored, rec, boot, flush, wiping, recorded, since, overlap>>
      BY <1>3 DEF DisconnectBuild, buildHistory, Total
    <2>2. Total(objs[mon.obj]) \in Counts /\ Within(Total(objs[mon.obj]), recorded)
      BY SMTT(60), <2>1, TotalCounts DEF Shape, Bounded
    <2>3. Shape' /\ mon'.st = "built" /\ mon'.h = Total(objs[mon.obj])
      BY <2>1, <2>2 DEF Shape
    <2> QED BY <2>1, <2>2, <2>3 DEF Bounded, Guarded, Young
  <1>4. CASE DisconnectWrite
    <2>1. /\ mon.st = "built" /\ stored' = mon.h /\ mon' = [st |-> "delete", obj |-> 0, h |-> Zero]
          /\ UNCHANGED <<objs, cur, rec, boot, flush, wiping, recorded, since, overlap>>
      BY <1>4 DEF DisconnectWrite, Idle
    <2>2. Zero \in Counts /\ Within(Zero, recorded)
      BY ZeroWithin DEF Shape
    <2>3. Shape'
      BY <2>1, <2>2 DEF Shape
    <2> QED BY <2>1, <2>2, <2>3 DEF Bounded, Guarded, Young
  <1>5. CASE DeleteState
    <2>1. /\ cur' = 0 /\ mon' = [st |-> "idle", obj |-> 0, h |-> Zero]
          /\ UNCHANGED <<objs, stored, rec, boot, flush, wiping, recorded, since, overlap>>
      BY <1>5 DEF DeleteState, Idle
    <2>2. Zero \in Counts /\ Within(Zero, recorded) /\ Len(objs) \in Nat
      BY SMTT(60), ZeroWithin DEF Shape
    <2>3. Shape'
      BY SMTT(60), <2>1, <2>2 DEF Shape
    <2> QED BY <2>1, <2>2, <2>3 DEF Bounded, Guarded, Young
  <1> QED BY <1>1, <1>2, <1>3, <1>4, <1>5

(* A flush.                                                                *)
LEMMA Flushing ==
  ASSUME CountersInv, FlushAll \/ FlushBuild \/ FlushWrite
  PROVE  CountersInv'
  <1> USE DEF CountersInv
  <1>1. Zero \in Counts /\ Within(Zero, recorded)
    BY ZeroWithin DEF Shape
  <1>2. CASE FlushAll
    <2>1. /\ cur # 0 /\ wiping = "idle" /\ flush' = [st |-> "locked", obj |-> cur, h |-> Zero]
          /\ UNCHANGED <<objs, cur, stored, rec, boot, mon, wiping, recorded, since, overlap>>
      BY <1>2 DEF FlushAll, flushMuFree, Idle
    <2>2. Shape'
      BY SMTT(60), <1>1, <2>1 DEF Shape
    <2> QED BY <1>1, <2>1, <2>2 DEF Bounded, Guarded, Young
  <1>3. CASE FlushBuild
    <2>1. /\ flush.st = "locked"
          /\ flush' = [flush EXCEPT !.st = "built", !.h = Total(objs[flush.obj])]
          /\ UNCHANGED <<objs, cur, stored, rec, boot, mon, wiping, recorded, since, overlap>>
      BY <1>3 DEF FlushBuild, buildHistory, Total
    <2>2. Total(objs[flush.obj]) \in Counts /\ Within(Total(objs[flush.obj]), recorded)
      BY SMTT(60), <2>1, TotalCounts DEF Shape, Bounded
    <2>3. Shape' /\ flush'.st = "built" /\ flush'.h = Total(objs[flush.obj])
      BY <2>1, <2>2 DEF Shape
    <2> QED BY <2>1, <2>2, <2>3 DEF Bounded, Guarded, Young
  <1>4. CASE FlushWrite
    <2>1. /\ flush.st = "built" /\ stored' = flush.h
          /\ flush' = [st |-> "idle", obj |-> 0, h |-> Zero]
          /\ UNCHANGED <<objs, cur, rec, boot, mon, wiping, recorded, since, overlap>>
      BY <1>4 DEF FlushWrite, Idle
    <2>2. Shape'
      BY <1>1, <2>1 DEF Shape
    <2> QED BY <1>1, <2>1, <2>2 DEF Bounded, Guarded, Young
  <1> QED BY <1>2, <1>3, <1>4

(* A reset: at the swap nothing is younger than zero, and only what an     *)
(* overlap holds is older.                                                 *)
LEMMA Resetting ==
  ASSUME CountersInv, ResetAll \/ ResetSwap \/ ResetWipe
  PROVE  CountersInv'
  <1> USE DEF CountersInv
  <1>1. Zero \in Counts /\ Within(Zero, recorded) /\ Within(Zero, since) /\ Within(Zero, Zero)
    BY ZeroWithin DEF Shape, Zero, Within
  <1>2. CASE ResetAll
    <2>1. /\ wiping = "idle" /\ wiping' = "locked" /\ flush.st = "idle"
          /\ UNCHANGED <<objs, cur, stored, rec, boot, mon, flush, recorded, since, overlap>>
      BY <1>2 DEF ResetAll, flushMuFree
    <2>2. Shape'
      BY <2>1 DEF Shape
    <2> QED BY <2>1, <2>2 DEF Bounded, Guarded, Young
  <1>3. CASE ResetSwap
    <2>1. /\ wiping = "locked" /\ wiping' = "swapped" /\ since' = Zero /\ flush.st = "idle"
          /\ overlap' = (boot.st # "idle" \/ mon.st \in {"load", "built"})
          /\ UNCHANGED <<stored, rec, boot, mon, flush, recorded>>
      BY <1>3 DEF ResetSwap, Guarded
    <2>2. CASE cur = 0
      <3>1. UNCHANGED <<objs, cur>>
        BY <1>3, <2>2 DEF ResetSwap
      <3>2. Shape'
        BY <1>1, <2>1, <3>1 DEF Shape
      <3> QED BY <2>1, <2>2, <3>1, <3>2 DEF Bounded, Guarded, Young
    <2>3. CASE cur # 0
      <3>1. objs' = NewObject(Zero) /\ cur' = Len(objs')
        BY <1>3, <2>3 DEF ResetSwap
      <3>2. /\ objs' \in Seq(Object) /\ Len(objs') = Len(objs) + 1
            /\ \A p \in 1..Len(objs) : objs'[p] = objs[p]
            /\ Total(objs'[Len(objs')]) = Zero /\ Len(objs) \in Nat
        <4>1. objs \in Seq(Object)
          BY DEF Shape
        <4>2. Len(objs) \in Nat
          BY SMTT(60), <4>1
        <4> QED BY <1>1, <3>1, <4>1, <4>2, FreshObject
      <3>3. Shape'
        BY SMTT(60), <1>1, <2>1, <3>1, <3>2 DEF Shape
      <3>4. \A p \in 1..Len(objs') : p \in 1..Len(objs) \/ p = Len(objs')
        BY SMTT(60), <3>2
      <3>5. Bounded'
        BY <1>1, <2>1, <3>2, <3>4 DEF Bounded
      <3> QED BY <1>1, <2>1, <3>1, <3>2, <3>3, <3>5 DEF Guarded, Young
    <2> QED BY <2>2, <2>3
  <1>4. CASE ResetWipe
    <2>1. /\ wiping = "swapped" /\ stored' = Zero /\ wiping' = "idle"
          /\ UNCHANGED <<objs, cur, rec, boot, mon, flush, recorded, since, overlap>>
      BY <1>4 DEF ResetWipe
    <2>2. Shape'
      BY <1>1, <2>1 DEF Shape
    <2> QED BY <1>1, <2>1, <2>2 DEF Bounded, Guarded, Young
  <1> QED BY <1>2, <1>3, <1>4

(* A crash leaves the disk and forgets the rest.                           *)
LEMMA Crashing ==
  ASSUME CountersInv, CountersCrash
  PROVE  CountersInv'
  <1> USE DEF CountersInv
  <1>1. Zero \in Counts /\ Within(Zero, recorded) /\ Len(objs) \in Nat
    BY SMTT(60), ZeroWithin DEF Shape
  <1>2. /\ cur' = 0 /\ boot' = Idle /\ mon' = Idle /\ flush' = Idle /\ wiping' = "idle"
        /\ rec' = [r \in Rec |-> IF rec[r].st = "add" THEN [st |-> "done", obj |-> 0] ELSE rec[r]]
        /\ overlap' = (overlap \/ wiping = "swapped")
        /\ UNCHANGED <<objs, stored, recorded, since>>
    BY DEF CountersCrash
  <1>3. Idle = [st |-> "idle", obj |-> 0, h |-> Zero]
    BY DEF Idle
  <1>4. Shape'
    <2>1. /\ rec' \in [Rec -> [st : {"forward", "add", "done"}, obj : Nat]]
          /\ \A r \in Rec : rec'[r].st # "add"
      BY <1>2 DEF Shape
    <2> QED BY SMTT(60), <1>1, <1>2, <1>3, <2>1 DEF Shape
  <1> QED BY <1>1, <1>2, <1>3, <1>4 DEF Bounded, Guarded, Young

LEMMA CountsNext == CountersInv /\ [CountersNext]_countersVars => CountersInv'
  <1> SUFFICES ASSUME CountersInv, [CountersNext]_countersVars PROVE CountersInv'
    OBVIOUS
  <1>1. CASE UNCHANGED countersVars
    BY <1>1 DEF countersVars, CountersInv, Shape, Bounded, Guarded, Young
  <1> QED
    BY <1>1, Recording, Registering, Monitoring, Flushing, Resetting, Crashing DEF CountersNext

(* The invariant, for every behaviour.                                     *)
LEMMA CountersInvariant == CountersSpec => []CountersInv
  BY CountsInit, CountsNext, PTL DEF CountersSpec

(* Whatever registrations, flushes, removals, resets and crashes do to an  *)
(* agent's history, no outcome is counted twice.                           *)
THEOREM NothingCountedTwice == CountersSpec => []NeverInvented
  <1>1. CountersInv => NeverInvented
    BY SMTT(60) DEF CountersInv, Shape, Bounded, NeverInvented, Totals, buildHistory, Total
  <1> QED BY <1>1, CountersInvariant, PTL

(* flushMu and the order of ResetAll's two steps make a reset last, unless *)
(* a registration, a removal or a crash overlapped it.                     *)
THEOREM ResetLasts == CountersSpec => []ResetHolds
  <1>1. CountersInv => ResetHolds
    BY DEF CountersInv, Shape, Guarded, Young, ResetHolds, Totals, buildHistory, Total
  <1> QED BY <1>1, CountersInvariant, PTL

=============================================================================
