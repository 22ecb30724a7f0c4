------------------------------- MODULE Budget -------------------------------
(***************************************************************************)
(* The token and request limits of one API key: the request-rate gate of   *)
(* QuotaMiddleware, the per-minute input and output rates, the daily token *)
(* budget, and its persistence (BadgerLimiter in internal/auth/quota.go).  *)
(*                                                                         *)
(* Requests of the key run concurrently.  The daily count lives in memory  *)
(* and is written to disk by a periodic flush.  A process that starts, or  *)
(* a new UTC day, makes the first use of the count read the disk first.    *)
(* A configuration reload (SIGHUP) flushes and clears everything in three  *)
(* steps that other goroutines interleave with.                            *)
(*                                                                         *)
(* The key has one daily bucket, whatever bucketKey makes its name: the    *)
(* tenant alone for a flat quota, the tenant and the model for a per-model *)
(* quota.  A deduction on a bucket that a reload removes meanwhile is the  *)
(* deduction just before the removal, so looking the bucket up and using   *)
(* it are one step.                                                        *)
(***************************************************************************)
EXTENDS Integers, FiniteSets, FiniteSetsExt

CONSTANTS Requests,     \* the requests of the key
          Cases,        \* key configurations, each with the requests it meets
          TPD,          \* tokens per day
          RPM,          \* requests per minute (per replica for a per-model quota)
          ITPM, OTPM,   \* input and output tokens per minute
          MaxReplicas,  \* bound on the healthy replicas of the model
          MaxDay,       \* bound on the days the model runs through
          Faults,       \* bound on crashes, failed reads and reloads
          ReadErrors    \* whether a read of the stored count may fail

ASSUME BudgetAssumption ==
  /\ TPD \in Nat /\ MaxDay \in Nat
  /\ \A c \in Cases : \A s \in c.shapes : s.est \in Nat /\ s.out \in Nat

VARIABLES key,          \* the configuration of the key
          shape,        \* what each request asks for, and what comes back
          pc,           \* the stage of each request's handler
          loaded,       \* requests past ensurePreloaded for their next limiter call
          worker,       \* the stage of each request at the processor
          mail,         \* what the processor sent to the waiting handler
          answer,       \* what each client was answered
          rpm,          \* request bucket: [n |-> tokens, burst |-> size], size 0 when absent
          itpm, otpm,   \* tokens in the per-minute buckets
          replicas,     \* healthy replicas of the model
          day,          \* today's UTC day index
          bucket,       \* daily bucket: [in |-> BOOLEAN, used |-> Nat, day |-> day]
          gate,         \* days whose preload has run (initOnce)
          disk,         \* stored count of each day
          reset,        \* progress of a reload
          faults,       \* faults so far
          \* History, for the properties.
          granted,      \* tokens granted on each day
          lost,         \* of those, what a crash or a failed read forgot
          refused,      \* days on which a deduction was refused
          paid,         \* what each request was granted: prompt, output
          raced         \* whether a limiter call overlapped a reload's clearing

limits == <<rpm, itpm, otpm, replicas>>
count == <<day, bucket, gate, disk, reset, faults>>
history == <<granted, lost, refused, paid, raced>>
request == <<pc, loaded, worker, mail, answer>>
vars == <<key, shape, request, limits, count, history>>

Days == 0..MaxDay
NoBucket == [in |-> FALSE, used |-> 0, day |-> 0]
Fresh == [n |-> 0, burst |-> 0]

Init ==
  /\ \E c \in Cases : key = c.key /\ shape \in [Requests -> c.shapes]
  /\ pc = [r \in Requests |-> "quota"]
  /\ loaded = {}
  /\ worker = [r \in Requests |-> "none"]
  /\ mail = [r \in Requests |-> "none"]
  /\ answer = [r \in Requests |-> "none"]
  /\ rpm = Fresh /\ itpm = ITPM /\ otpm = OTPM
  /\ replicas = 1
  /\ day = 0 /\ bucket = NoBucket /\ gate = {}
  /\ disk = [d \in Days |-> 0]
  /\ reset = "none" /\ faults = 0
  /\ granted = [d \in Days |-> 0] /\ lost = [d \in Days |-> 0]
  /\ refused = {} /\ paid = [r \in Requests |-> {}] /\ raced = FALSE

-----------------------------------------------------------------------------
(* Request rate: QuotaMiddleware.                                          *)

Answer(r, what) ==
  /\ answer' = [answer EXCEPT ![r] = what]
  /\ pc' = [pc EXCEPT ![r] = "done"]
  /\ UNCHANGED <<loaded, worker, mail>>

\* The burst of a bucket for rate n: the whole minute (rpmBurstSeconds = 0).
rpmBurst(n) == n

\* The bucket a call with rate n finds: absent ones are made full, and the
\* tokens of an existing one never exceed its present size.
getOrCreateRPM(n) ==
  IF rpm.burst = 0 THEN [n |-> rpmBurst(n), burst |-> rpmBurst(n)]
  ELSE [n |-> Min({rpm.n, rpmBurst(n)}), burst |-> rpmBurst(n)]

AllowRequest(r, n) ==
  LET b == getOrCreateRPM(n) IN
  /\ rpm' = [b EXCEPT !.n = IF @ >= 1 THEN @ - 1 ELSE @]
  /\ IF b.n >= 1
     THEN /\ pc' = [pc EXCEPT ![r] = "handler"]
          /\ UNCHANGED <<loaded, worker, mail, answer>>
     ELSE Answer(r, "rpm")

enforceFlatQuota(r) == AllowRequest(r, RPM)

\* Zero replicas skip the gate (routing answers), unless the request may be
\* held while its model wakes: it then counts as if one replica served it.
QuotaReplicas == IF replicas = 0 /\ key.wakeable THEN 1 ELSE replicas

enforcePerModelQuota(r) ==
  \/ ~key.listed /\ Answer(r, "rpm") /\ UNCHANGED rpm
  \/ /\ key.listed /\ QuotaReplicas = 0
     /\ pc' = [pc EXCEPT ![r] = "handler"]
     /\ UNCHANGED <<loaded, worker, mail, answer, rpm>>
  \/ key.listed /\ QuotaReplicas > 0 /\ AllowRequest(r, RPM * QuotaReplicas)

QuotaMiddleware(r) ==
  /\ pc[r] = "quota"
  /\ IF key.perModel THEN enforcePerModelQuota(r) ELSE enforceFlatQuota(r)
  /\ UNCHANGED <<key, shape, itpm, otpm, replicas, count, history>>

-----------------------------------------------------------------------------
(* Per-minute token rates: enforcePerKeyRates.                             *)

OutputExhausted == otpm < 1
AllowInputRate(n) == itpm >= n

\* The output rate is looked at before the input rate is charged.  Counting
\* requests and embeddings skip both; they are queued as they are.
enforcePerKeyRates(r) ==
  /\ pc[r] = "handler"
  /\ CASE shape[r].kind # "chat" ->
            /\ pc' = [pc EXCEPT ![r] = "queue"]
            /\ UNCHANGED <<loaded, worker, mail, answer, itpm>>
       [] shape[r].kind = "chat" /\ ~key.serverless ->
            /\ pc' = [pc EXCEPT ![r] = "peek"]
            /\ UNCHANGED <<loaded, worker, mail, answer, itpm>>
       [] OTHER ->
            IF OutputExhausted THEN Answer(r, "otpm") /\ UNCHANGED itpm
            ELSE IF ~AllowInputRate(shape[r].est) THEN Answer(r, "itpm") /\ UNCHANGED itpm
            ELSE /\ itpm' = itpm - shape[r].est
                 /\ pc' = [pc EXCEPT ![r] = "peek"]
                 /\ UNCHANGED <<loaded, worker, mail, answer>>
  /\ UNCHANGED <<key, shape, rpm, otpm, replicas, count, history>>

\* One response takes at most one minute's capacity.
ChargeOutputTokens(n) == otpm - Min({n, OTPM})

chargeOutputRate(r) ==
  otpm' = IF key.serverless /\ shape[r].kind = "chat" /\ shape[r].by = "agent"
          THEN ChargeOutputTokens(shape[r].out) ELSE otpm

-----------------------------------------------------------------------------
(* The daily budget: RemainingTokens, allowTokens, ensurePreloaded.        *)

\* The bucket as a limiter call sees it: made if absent, reset on a new day.
getOrCreateDaily(d) ==
  IF bucket.in /\ bucket.day = d THEN bucket ELSE [in |-> TRUE, used |-> 0, day |-> d]

\* The requests whose next step is a call on the daily budget.
Calling(r) == pc[r] \in {"peek", "charge"} \/ worker[r] \in {"charge", "drain"}

\* What a failed read or a stop leaves of the day's count.
Forget(kept) == lost' = [lost EXCEPT ![day] = Max({@, granted[day] - kept})]

\* The first call of a day reads the stored count; the others find the gate
\* shut.  A bucket still on another day is not touched.
MutantAdoptAdds(stored) == bucket.used + stored
MutantAdoptStored(stored) == stored
Adopt(stored) == Max({bucket.used, stored})

ensurePreloaded(r) ==
  /\ Calling(r) /\ r \notin loaded
  /\ loaded' = loaded \cup {r}
  /\ gate' = gate \cup {day}
  /\ \/ /\ day \in gate \/ disk[day] = 0
        /\ UNCHANGED <<bucket, faults, lost>>
     \/ /\ day \notin gate /\ disk[day] > 0
        /\ bucket' = IF ~bucket.in THEN [in |-> TRUE, used |-> disk[day], day |-> day]
                     ELSE IF bucket.day = day THEN [bucket EXCEPT !.used = Adopt(disk[day])]
                     ELSE bucket
        /\ UNCHANGED <<faults, lost>>
     \/ /\ ReadErrors /\ faults < Faults
        /\ day \notin gate /\ disk[day] > 0
        /\ faults' = faults + 1
        /\ Forget(getOrCreateDaily(day).used)
        /\ UNCHANGED bucket
  /\ UNCHANGED <<key, shape, pc, worker, mail, answer, limits, day, disk, reset,
                 granted, refused, paid, raced>>

\* A deduction of n tokens by r, for what ("in" or "out").  A refusal fills
\* the count up to the limit.
Fits(b, n) == b.used + n <= TPD
Deduct(b, n) == [b EXCEPT !.used = IF Fits(b, n) THEN @ + n ELSE TPD]

allowTokens(r, n, what) ==
  LET b == getOrCreateDaily(day)
      ok == Fits(b, n)
  IN /\ bucket' = Deduct(b, n)
     /\ granted' = [granted EXCEPT ![day] = IF ok THEN @ + n ELSE @]
     /\ paid' = [paid EXCEPT ![r] = IF ok THEN @ \cup {what} ELSE @]
     /\ refused' = IF ok THEN refused ELSE refused \cup {day}
     /\ raced' = (raced \/ reset = "cleared")
     /\ loaded' = loaded \ {r}
     /\ UNCHANGED lost

\* reserveInputBudget, its first half: look without charging.
Worst(r) == shape[r].est + shape[r].max

RemainingTokens(b) == Max({TPD - b.used, 0})

reserveInputBudget_Peek(r) ==
  LET b == getOrCreateDaily(day) IN
  /\ pc[r] = "peek" /\ r \in loaded
  /\ bucket' = b
  /\ raced' = (raced \/ reset = "cleared")
  /\ loaded' = loaded \ {r}
  /\ IF Worst(r) > RemainingTokens(b)
     THEN /\ answer' = [answer EXCEPT ![r] = "budget"]
          /\ pc' = [pc EXCEPT ![r] = "done"]
     ELSE /\ pc' = [pc EXCEPT ![r] = "charge"]
          /\ UNCHANGED answer
  /\ UNCHANGED <<key, shape, worker, mail, limits, day, gate, disk, reset, faults,
                 granted, lost, refused, paid>>

\* Its second half: charge the prompt estimate, and honour a late refusal.
reserveInputBudget_Charge(r) ==
  /\ pc[r] = "charge" /\ r \in loaded
  /\ allowTokens(r, shape[r].est, "in")
  /\ IF Fits(getOrCreateDaily(day), shape[r].est)
     THEN pc' = [pc EXCEPT ![r] = "queue"] /\ UNCHANGED answer
     ELSE /\ answer' = [answer EXCEPT ![r] = "late"]
          /\ pc' = [pc EXCEPT ![r] = "done"]
  /\ UNCHANGED <<key, shape, worker, mail, limits, day, gate, disk, reset, faults>>

-----------------------------------------------------------------------------
(* Queue, processor and answer.                                            *)

\* The request is queued, or the queue stays full for five seconds.
enqueueRequest(r) ==
  /\ pc[r] = "queue"
  /\ \/ /\ pc' = [pc EXCEPT ![r] = "wait"]
        /\ worker' = [worker EXCEPT ![r] = "queued"]
        /\ UNCHANGED <<loaded, mail, answer>>
     \/ Answer(r, "full")
  /\ UNCHANGED <<key, shape, limits, count, history>>

\* The backend answers.  A buffered answer of an agent with a known output
\* size goes through the budget first; a stream is handed over at once and
\* charged when it has drained; a provider's answer is not charged.
Charged(r) == shape[r].kind = "chat" /\ shape[r].by = "agent" /\ shape[r].out > 0

forwardToAgent(r) ==
  /\ worker[r] = "queued"
  /\ \/ mail' = [mail EXCEPT ![r] = "error"] /\ worker' = [worker EXCEPT ![r] = "done"]
     \/ /\ Charged(r) /\ ~shape[r].stream
        /\ worker' = [worker EXCEPT ![r] = "charge"] /\ UNCHANGED mail
     \/ /\ ~(Charged(r) /\ ~shape[r].stream)
        /\ mail' = [mail EXCEPT ![r] = "response"]
        /\ worker' = [worker EXCEPT ![r] = IF Charged(r) THEN "drain" ELSE "done"]
  /\ UNCHANGED <<key, shape, pc, loaded, answer, limits, count, history>>

\* The charge of a buffered answer: refused, the answer is thrown away.
ChargeAnswer(r) ==
  /\ worker[r] = "charge" /\ r \in loaded
  /\ allowTokens(r, shape[r].out, "out")
  /\ mail' = [mail EXCEPT ![r] =
                IF Fits(getOrCreateDaily(day), shape[r].out) THEN "response" ELSE "denied"]
  /\ worker' = [worker EXCEPT ![r] = "done"]
  /\ UNCHANGED <<key, shape, pc, answer, limits, day, gate, disk, reset, faults>>

\* The charge of a stream, after its last byte: it can refuse nothing.
drainStream(r) ==
  /\ worker[r] = "drain" /\ r \in loaded
  /\ allowTokens(r, shape[r].out, "out")
  /\ worker' = [worker EXCEPT ![r] = "done"]
  /\ UNCHANGED <<key, shape, pc, mail, answer, limits, day, gate, disk, reset, faults>>

\* The handler receives a response: a buffered one is written and metered
\* here, a stream is copied until the processor closes it.
writeSuccessResponse(r) ==
  /\ pc[r] = "wait" /\ mail[r] = "response"
  /\ answer' = [answer EXCEPT ![r] = "ok"]
  /\ \/ /\ ~shape[r].stream
        /\ pc' = [pc EXCEPT ![r] = "done"]
        /\ chargeOutputRate(r)
     \/ /\ shape[r].stream
        /\ pc' = [pc EXCEPT ![r] = "copy"]
        /\ UNCHANGED otpm
  /\ UNCHANGED <<key, shape, loaded, worker, mail, rpm, itpm, replicas, count, history>>

CopyEnds(r) ==
  /\ pc[r] = "copy" /\ worker[r] = "done"
  /\ pc' = [pc EXCEPT ![r] = "done"]
  /\ chargeOutputRate(r)
  /\ UNCHANGED <<key, shape, loaded, worker, mail, answer, rpm, itpm, replicas, count, history>>

writeErrorResponse(r) ==
  /\ pc[r] = "wait" /\ mail[r] \in {"error", "denied"}
  /\ Answer(r, mail[r])
  /\ UNCHANGED <<key, shape, limits, count, history>>

\* The handler gives up; the processor still finishes, and still charges.
awaitResponse_Timeout(r) ==
  /\ pc[r] = "wait"
  /\ Answer(r, "timeout")
  /\ UNCHANGED <<key, shape, limits, count, history>>

-----------------------------------------------------------------------------
(* Time, the fleet, persistence and faults.                                *)

\* Per-minute buckets refill with time.
Refill ==
  /\ rpm' = [rpm EXCEPT !.n = Min({@ + 1, rpm.burst})]
  /\ itpm' = Min({itpm + 1, ITPM})
  /\ otpm' = Min({otpm + 1, OTPM})
  /\ UNCHANGED <<key, shape, request, replicas, count, history>>

Fleet(n) ==
  /\ key.perModel /\ n # replicas
  /\ replicas' = n
  /\ UNCHANGED <<key, shape, request, rpm, itpm, otpm, count, history>>

Midnight ==
  /\ day < MaxDay
  /\ day' = day + 1
  /\ UNCHANGED <<key, shape, request, limits, bucket, gate, disk, reset, faults, history>>

\* What a flush stores: today's count, and nothing for a bucket of another day.
Flushed == IF bucket.in /\ bucket.day = day THEN [disk EXCEPT ![day] = bucket.used] ELSE disk

Flush ==
  /\ disk' = Flushed
  /\ UNCHANGED <<key, shape, request, limits, day, bucket, gate, reset, faults, history>>

\* The sweep removes full request buckets, and buckets and gates of past days.
SweepIdle ==
  /\ rpm' = IF rpm.n >= rpm.burst THEN Fresh ELSE rpm
  /\ bucket' = IF bucket.in /\ bucket.day # day THEN NoBucket ELSE bucket
  /\ gate' = gate \cap {day}
  /\ UNCHANGED <<key, shape, request, itpm, otpm, replicas, day, disk, reset, faults, history>>

\* BadgerLimiter.Reset, in its three steps.  The flush may fail, and what it
\* did not store is gone with the bucket.
Reset_Flush ==
  /\ reset = "none" /\ faults < Faults
  /\ faults' = faults + 1
  /\ reset' = "flushed"
  /\ disk' \in {Flushed, disk}
  /\ UNCHANGED <<key, shape, request, limits, day, bucket, gate, history>>

Reset_Clear ==
  /\ reset = "flushed"
  /\ reset' = "cleared"
  /\ bucket' = NoBucket /\ rpm' = Fresh
  /\ Forget(disk[day])
  /\ UNCHANGED <<key, shape, request, itpm, otpm, replicas, day, gate, disk, faults,
                 granted, refused, paid, raced>>

Reset_Gates ==
  /\ reset = "cleared"
  /\ reset' = "none"
  /\ gate' = {}
  /\ itpm' = ITPM /\ otpm' = OTPM
  /\ raced' = (raced \/ loaded # {})
  /\ UNCHANGED <<key, shape, request, rpm, replicas, day, bucket, disk, faults,
                 granted, lost, refused, paid>>

\* The process stops and starts again.  A graceful stop is a flush followed
\* by this: the server still serves between the two.
Crash ==
  /\ faults < Faults
  /\ faults' = faults + 1
  /\ pc' = [r \in Requests |-> IF pc[r] = "quota" THEN "quota" ELSE "done"]
  /\ worker' = [r \in Requests |-> IF worker[r] = "none" THEN "none" ELSE "done"]
  /\ loaded' = {}
  /\ rpm' = Fresh /\ itpm' = ITPM /\ otpm' = OTPM
  /\ bucket' = NoBucket /\ gate' = {} /\ reset' = "none"
  /\ Forget(disk[day])
  /\ UNCHANGED <<key, shape, mail, answer, replicas, day, disk, granted, refused, paid, raced>>

Next ==
  \/ \E r \in Requests :
       \/ QuotaMiddleware(r) \/ enforcePerKeyRates(r) \/ ensurePreloaded(r)
       \/ reserveInputBudget_Peek(r) \/ reserveInputBudget_Charge(r)
       \/ enqueueRequest(r) \/ forwardToAgent(r) \/ ChargeAnswer(r) \/ drainStream(r)
       \/ writeSuccessResponse(r) \/ CopyEnds(r) \/ writeErrorResponse(r)
       \/ awaitResponse_Timeout(r)
  \/ Refill \/ (\E n \in 0..MaxReplicas : Fleet(n)) \/ Midnight \/ Flush \/ SweepIdle
  \/ Reset_Flush \/ Reset_Clear \/ Reset_Gates \/ Crash

Spec == Init /\ [][Next]_vars

-----------------------------------------------------------------------------
(* Properties.                                                             *)

TypeOK ==
  /\ pc \in [Requests -> {"quota", "handler", "peek", "charge", "queue", "wait", "copy", "done"}]
  /\ worker \in [Requests -> {"none", "queued", "charge", "drain", "done"}]
  /\ bucket.used \in 0..TPD /\ bucket.day \in Days
  /\ itpm \in 0..ITPM /\ otpm <= OTPM /\ rpm.n \in 0..rpm.burst

\* The tokens granted on a UTC day never exceed the daily budget by more
\* than what a crash, a failed read or a reload's failed flush forgot, as
\* long as no call on the budget overlaps a reload's clearing: concurrent requests,
\* late charges of timed-out requests, restarts and midnight included
\* (allowTokens, ensurePreloaded, Flush).
DailyCap == raced \/ \A d \in Days : granted[d] <= TPD + lost[d]

\* Nothing is counted twice and nothing of another day is counted: the
\* count of a day without a refusal is at most what was granted on that day,
\* in memory and on disk (the rollover of allowTokens, the preload's max).
NotOvercharged ==
  \A d \in Days \ refused :
    /\ disk[d] <= granted[d]
    /\ bucket.in /\ bucket.day = d => bucket.used <= granted[d]

\* A buffered answer of an agent reaches its client only if its output
\* tokens were granted; a refused one is thrown away (forwardToAgent). And a
\* request refused by a rate gate has spent nothing of the daily budget: the
\* gates that deduct come last (Passthrough, enforcePerKeyRates).
PaidAsServed ==
  \A r \in Requests :
    /\ answer[r] = "ok" /\ Charged(r) /\ ~shape[r].stream => "out" \in paid[r]
    /\ answer[r] \in {"rpm", "otpm", "itpm"} => paid[r] = {}

\* The stored count of a day never goes down (the comment on SweepIdle: a
\* bucket must not "reappear without its persisted used-count").
CountKept == [][\A d \in Days : disk'[d] >= disk[d]]_vars

=============================================================================
