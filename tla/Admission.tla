----------------------------- MODULE Admission -----------------------------
(***************************************************************************)
(* The occupancy admission gate of the router: the weighted in-flight      *)
(* accounting of internal/admission (Controller, modelState, Reservation,  *)
(* Reservations) driven by the API handler that takes, trues up and        *)
(* releases the reservations, by the processor goroutine that grows and    *)
(* may release them, and by the janitor that evicts idle states.           *)
(*                                                                         *)
(* A request takes its reservations in the order of PoolOf[r]: stage 1 is  *)
(* the model's pool (the occupancy controller, which parks), stage 2, when *)
(* the key has an occupancy share, the key's pool (the keyAdmission        *)
(* controller, which never parks).                                         *)
(*                                                                         *)
(* A notify channel is named by its state and a generation number: a       *)
(* release installs generation g+1 under the state's mutex and closes      *)
(* generation g only after unlocking.                                      *)
(***************************************************************************)
EXTENDS Integers, Sequences, FiniteSets, FiniteSetsExt, Functions

CONSTANTS
    Req,          \* requests, each served by one handler goroutine
    HeldReq,      \* the requests released from a hold at zero replicas
    Undeclared,   \* the requests that declare no max_tokens: they grow
    ProviderReq,  \* the requests whose policy has a provider fallback
    Pool,         \* keys of the two controllers' maps
    PoolOf,       \* [Req -> the pools a request must reserve, in order]
    StateId,      \* modelState objects the controllers may allocate
    NoState,
    Weights,      \* footprints (input estimate + declared max_tokens)
    Replicas,     \* healthy replica counts pool() may read, floored at 1
    AdmitBudget,  \* policy admit_budget_tokens, per replica
    MaxInflight,  \* policy max_inflight, per replica (0 disables it)
    FracNum, FracDen,    \* the admit fraction
    ShareNum, ShareDen,  \* the key's max_occupancy_share
    Parks,        \* AdmitParkTimeout > 0
    GrowSteps,    \* tokens one streamed chunk adds to an undeclared request
    Deltas,       \* exact prompt tokens minus the estimate
    WeightCap     \* bound: a reservation's weight never grows past it

ASSUME ReqAssumption == /\ IsFiniteSet(Req) /\ HeldReq \subseteq Req
                        /\ Undeclared \subseteq Req /\ ProviderReq \subseteq Req
ASSUME PoolAssumption ==
    /\ PoolOf \in [Req -> Seq(Pool)]
    /\ \A r \in Req : Len(PoolOf[r]) \in 1..2
ASSUME StateAssumption == NoState \notin StateId
ASSUME NumberAssumption ==
    /\ Weights \subseteq Nat
    /\ Replicas \subseteq Nat \ {0}
    /\ AdmitBudget \in Nat /\ MaxInflight \in Nat
    /\ FracNum \in Nat \ {0} /\ FracDen \in Nat \ {0} /\ FracNum <= FracDen
    /\ ShareNum \in Nat \ {0} /\ ShareDen \in Nat \ {0}
    /\ Parks \in BOOLEAN
    /\ GrowSteps \subseteq Nat \ {0}
    /\ Deltas \subseteq Int
    /\ WeightCap \in Nat

VARIABLES
    mapped,   \* Controller.models: [Pool -> StateId \cup {NoState}]
    created,  \* the modelState objects allocated so far
    aged,     \* states whose lastActive is older than the sweep's ttl
    sumW, count, notify,   \* the fields of each modelState
    pc, stage,             \* each handler's position, and the stage it is at
    st, bud, lim, ch,      \* AdmitWithin's locals: state, budget, limit, channel
    foot, delta,           \* footprint, true-up correction
    sent,     \* the request was handed to the processor
    res,      \* [Req -> [stage -> Reservation]]
    proc      \* the processor goroutine's operation on the bundle

ctrlVars  == <<mapped, created, aged>>
stateVars == <<sumW, count, notify>>
callVars  == <<st, bud, lim, ch>>
vars == <<ctrlVars, stateVars, pc, stage, callVars, foot, delta, sent, res, proc>>

Stage == 1..2
Stages(r) == 1..Len(PoolOf[r])

(* A Reservation. status is none before admission, held while released is  *)
(* false, marked once released is set and returned once state.release ran; *)
(* pend is the channel generation the operation in progress has still to   *)
(* close (0 if none), and own the goroutine running it.                    *)
NoRes == [status |-> "none", s |-> NoState, w |-> 0, pend |-> 0, own |-> "handler"]
Idle  == [op |-> "idle", i |-> 1, t |-> 0]

(***************************************************************************)
(* Budgets                                                                 *)
(***************************************************************************)
effectiveBudget(b) ==
    IF b <= 0 THEN 0
    ELSE IF (FracNum * b) \div FracDen < 1 THEN 1 ELSE (FracNum * b) \div FracDen

(* The key's share of the pool, int(share * poolBudget), handed to a       *)
(* controller whose admit fraction is 1.                                   *)
shareBudget(b) == (ShareNum * b) \div ShareDen

budgetAt(i, n) == IF i = 1 THEN effectiveBudget(AdmitBudget * n)
                           ELSE shareBudget(AdmitBudget * n)
limitAt(i, n) == IF i = 1 THEN MaxInflight * n ELSE 0

(* A request over the whole budget can never be admitted.                  *)
Oversized(w, b) == b > 0 /\ w > b

(* The test of tryReserve.                                                 *)
HasRoom(s, w, b, m) == /\ b > 0 => sumW[s] + w <= b
                       /\ m > 0 => count[s] + 1 <= m

Fits(r) == HasRoom(st[r], foot[r], bud[r], lim[r])

(* A channel generation is closed once it was replaced and the releaser    *)
(* that replaced it has run close(ch).                                     *)
Closed(s, g) == /\ g < notify[s]
                /\ \A r \in Req : \A i \in Stages(r) :
                       ~(res[r][i].s = s /\ res[r][i].pend = g)

(***************************************************************************)
(* Goroutine bookkeeping                                                   *)
(***************************************************************************)
(* The goroutine is between two steps of an operation on a reservation.    *)
Busy(r, who) == \E i \in Stages(r) :
    res[r][i].own = who /\ (res[r][i].status = "marked" \/ res[r][i].pend > 0)

(* Reservation i's own mutex is held across the close of an adjust.        *)
Unlocked(r, i) == ~(res[r][i].status = "held" /\ res[r][i].pend > 0)

(* AdmitWithin returns: its locals go out of scope.                        *)
DropCall(r) == /\ st' = [st EXCEPT ![r] = NoState]
               /\ bud' = [bud EXCEPT ![r] = 0]
               /\ lim' = [lim EXCEPT ![r] = 0]
               /\ ch' = [ch EXCEPT ![r] = 0]

(* The first refusal leaves nothing to hand back; a refusal by the share   *)
(* releases the pool reservation already taken.                            *)
Refuse(r) ==
    /\ stage' = [stage EXCEPT ![r] = 1]
    /\ pc' = [pc EXCEPT ![r] = IF stage[r] = 1 THEN "done" ELSE "release"]
    /\ DropCall(r)

Reserve(r) ==
    /\ sumW' = [sumW EXCEPT ![st[r]] = @ + foot[r]]
    /\ count' = [count EXCEPT ![st[r]] = @ + 1]
    /\ res' = [res EXCEPT ![r][stage[r]] =
                 [NoRes EXCEPT !.status = "held", !.s = st[r], !.w = foot[r]]]
    /\ IF stage[r] < Len(PoolOf[r])
       THEN pc' = [pc EXCEPT ![r] = "enter"] /\ stage' = [stage EXCEPT ![r] = @ + 1]
       ELSE pc' = [pc EXCEPT ![r] = "admitted"] /\ UNCHANGED stage
    /\ DropCall(r)
    /\ UNCHANGED notify

----------------------------------------------------------------------------
Init ==
    /\ mapped = [p \in Pool |-> NoState] /\ created = {} /\ aged = {}
    /\ sumW = [s \in StateId |-> 0]
    /\ count = [s \in StateId |-> 0]
    /\ notify = [s \in StateId |-> 1]
    /\ pc = [r \in Req |-> "enter"] /\ stage = [r \in Req |-> 1]
    /\ st = [r \in Req |-> NoState]
    /\ bud = [r \in Req |-> 0] /\ lim = [r \in Req |-> 0] /\ ch = [r \in Req |-> 0]
    /\ foot \in [Req -> Weights]
    /\ delta = [r \in Req |-> 0] /\ sent = [r \in Req |-> FALSE]
    /\ res = [r \in Req |-> [i \in Stage |-> NoRes]]
    /\ proc = [r \in Req |-> Idle]

(***************************************************************************)
(* The handler: admission                                                  *)
(***************************************************************************)
(* The state object the next lookup of an unknown pool allocates.          *)
Fresh == CHOOSE s \in StateId : s \notin created

(* The handler reads the pool's size and calls AdmitWithin, which looks    *)
(* the state up (allocating it) and stamps lastActive.  A request released *)
(* from a hold first gives up when it is larger than the budget.           *)
stateFor(p, r) ==
    \E s \in StateId :
        /\ IF mapped[p] = NoState THEN s \notin created /\ s = Fresh ELSE s = mapped[p]
        /\ mapped' = [mapped EXCEPT ![p] = s]
        /\ created' = created \cup {s}
        /\ aged' = aged \ {s}
        /\ st' = [st EXCEPT ![r] = s]

EnterAdmit(r) ==
    /\ pc[r] = "enter"
    /\ \E n \in Replicas :
         LET b == budgetAt(stage[r], n) IN
         IF r \in HeldReq /\ stage[r] = 1 /\ Oversized(foot[r], b)
         THEN Refuse(r) /\ UNCHANGED ctrlVars
         ELSE /\ stateFor(PoolOf[r][stage[r]], r)
              /\ bud' = [bud EXCEPT ![r] = b]
              /\ lim' = [lim EXCEPT ![r] = limitAt(stage[r], n)]
              /\ pc' = [pc EXCEPT ![r] = "try"]
              /\ UNCHANGED <<stage, ch>>
    /\ UNCHANGED <<stateVars, foot, delta, sent, res, proc>>

(* The first tryReserve, and what AdmitWithin does when it fails.  A       *)
(* request released from a hold parks while its hold budget lasts; the     *)
(* share controller never parks.                                           *)
MayPark(r) == stage[r] = 1 /\ (Parks \/ r \in HeldReq)
MayRefuse(r) == Oversized(foot[r], bud[r]) \/ stage[r] # 1 \/ ~Parks \/ r \in HeldReq

TryFirst(r) ==
    /\ pc[r] = "try"
    /\ \/ Fits(r) /\ Reserve(r)
       \/ ~Fits(r) /\ MayRefuse(r) /\ Refuse(r) /\ UNCHANGED <<stateVars, res>>
       \/ /\ ~Fits(r) /\ MayPark(r) /\ ~Oversized(foot[r], bud[r])
          /\ pc' = [pc EXCEPT ![r] = "loop"]
          /\ UNCHANGED <<stateVars, stage, callVars, res>>
    /\ UNCHANGED <<ctrlVars, foot, delta, sent, proc>>

(* The park loop: the channel is read before the budget is re-checked.     *)
notifyCh(r) ==
    /\ pc[r] = "loop"
    /\ ch' = [ch EXCEPT ![r] = notify[st[r]]]
    /\ pc' = [pc EXCEPT ![r] = "recheck"]
    /\ UNCHANGED <<ctrlVars, stateVars, stage, st, bud, lim, foot, delta, sent, res, proc>>

ParkUnchecked(r) ==
    /\ pc[r] = "recheck"
    /\ pc' = [pc EXCEPT ![r] = "select"]
    /\ UNCHANGED <<ctrlVars, stateVars, stage, callVars, foot, delta, sent, res, proc>>
Recheck(r) ==
    /\ pc[r] = "recheck"
    /\ IF Fits(r) THEN Reserve(r)
       ELSE /\ pc' = [pc EXCEPT ![r] = "select"]
            /\ UNCHANGED <<stateVars, stage, callVars, res>>
    /\ UNCHANGED <<ctrlVars, foot, delta, sent, proc>>

WakeUp(r) ==
    /\ pc[r] = "select" /\ Closed(st[r], ch[r])
    /\ pc' = [pc EXCEPT ![r] = "loop"]
    /\ UNCHANGED <<ctrlVars, stateVars, stage, callVars, foot, delta, sent, res, proc>>

(* The park timer fires or the client goes away.  A request released from  *)
(* a hold reads the pool again and calls AdmitWithin once more while its   *)
(* hold budget lasts.                                                      *)
ParkEnds(r) ==
    /\ pc[r] = "select"
    /\ \/ Refuse(r)
       \/ /\ r \in HeldReq /\ pc' = [pc EXCEPT ![r] = "enter"]
          /\ DropCall(r) /\ UNCHANGED stage
    /\ UNCHANGED <<ctrlVars, stateVars, foot, delta, sent, res, proc>>

(***************************************************************************)
(* The handler: after admission                                            *)
(***************************************************************************)
(* A later gate (key rates, daily budget, body, full work queue) rejects   *)
(* the request, or it is handed to the processor.                          *)
RejectLater(r) ==
    /\ pc[r] = "admitted"
    /\ pc' = [pc EXCEPT ![r] = "release"] /\ stage' = [stage EXCEPT ![r] = 1]
    /\ UNCHANGED <<ctrlVars, stateVars, callVars, foot, delta, sent, res, proc>>

Enqueue(r) ==
    /\ pc[r] = "admitted"
    /\ pc' = [pc EXCEPT ![r] = "await"] /\ sent' = [sent EXCEPT ![r] = TRUE]
    /\ UNCHANGED <<ctrlVars, stateVars, stage, callVars, foot, delta, res, proc>>

(* awaitResponse: a response whose usage is exact is trued up first; an    *)
(* error, a timeout or an estimated usage goes straight to the release.    *)
Respond(r) ==
    /\ pc[r] = "await"
    /\ stage' = [stage EXCEPT ![r] = 1]
    /\ \/ \E d \in Deltas : /\ delta' = [delta EXCEPT ![r] = d]
                            /\ pc' = [pc EXCEPT ![r] = "adjust"]
       \/ pc' = [pc EXCEPT ![r] = "release"] /\ UNCHANGED delta
    /\ UNCHANGED <<ctrlVars, stateVars, callVars, foot, sent, res, proc>>

(* A true-up gives back no more than the reservation still holds.          *)
TrueUp(r, v) == IF delta[r] < -v.w THEN -v.w ELSE delta[r]

(* Reservation.Adjust on each reservation of the bundle in turn.           *)
Adjust(r) ==
    LET i == stage[r]
        v == res[r][i]
        d == TrueUp(r, v)
    IN  /\ pc[r] = "adjust" /\ ~Busy(r, "handler") /\ Unlocked(r, i)
        /\ IF v.status # "held" \/ d = 0
           THEN UNCHANGED <<sumW, notify, res>>
           ELSE /\ sumW' = [sumW EXCEPT ![v.s] = IF @ + d < 0 THEN 0 ELSE @ + d]
                /\ notify' = [notify EXCEPT ![v.s] = IF d < 0 THEN @ + 1 ELSE @]
                /\ res' = [res EXCEPT ![r][i] =
                     [v EXCEPT !.w = @ + d, !.own = "handler",
                               !.pend = IF d < 0 THEN notify[v.s] ELSE 0]]
        /\ IF i < Len(PoolOf[r])
           THEN stage' = [stage EXCEPT ![r] = i + 1] /\ UNCHANGED <<pc, delta>>
           ELSE /\ stage' = [stage EXCEPT ![r] = 1]
                /\ pc' = [pc EXCEPT ![r] = "release"]
                /\ delta' = [delta EXCEPT ![r] = 0]
        /\ UNCHANGED <<ctrlVars, count, callVars, foot, sent, proc>>

(* Plausible bug: a second Release is not told from the first.             *)
MarkAgain(r, i, who) ==
    IF res[r][i].s # NoState
    THEN res' = [res EXCEPT ![r][i] = [@ EXCEPT !.status = "marked", !.own = who]]
    ELSE UNCHANGED res

(* The deferred Release of the bundle: Reservation.Release sets released   *)
(* under the reservation's mutex, once.                                    *)
Mark(r, i, who) ==
    IF res[r][i].status = "held"
    THEN res' = [res EXCEPT ![r][i] = [@ EXCEPT !.status = "marked", !.own = who]]
    ELSE UNCHANGED res

HandlerForgets(r) ==
    /\ pc[r] = "release" /\ ~Busy(r, "handler")
    /\ pc' = [pc EXCEPT ![r] = "return"]
    /\ UNCHANGED <<ctrlVars, stateVars, stage, callVars, foot, delta, sent, res, proc>>
HandlerRelease(r) ==
    /\ pc[r] = "release" /\ ~Busy(r, "handler") /\ Unlocked(r, stage[r])
    /\ Mark(r, stage[r], "handler")
    /\ IF stage[r] < Len(PoolOf[r])
       THEN stage' = [stage EXCEPT ![r] = @ + 1] /\ UNCHANGED pc
       ELSE pc' = [pc EXCEPT ![r] = "return"] /\ UNCHANGED stage
    /\ UNCHANGED <<ctrlVars, stateVars, callVars, foot, delta, sent, proc>>

HandlerReturn(r) ==
    /\ pc[r] = "return" /\ ~Busy(r, "handler")
    /\ pc' = [pc EXCEPT ![r] = "done"]
    /\ UNCHANGED <<ctrlVars, stateVars, stage, callVars, foot, delta, sent, res, proc>>

(***************************************************************************)
(* The rest of a release, whichever goroutine marked the reservation       *)
(***************************************************************************)
(* modelState.release, under the state's mutex.                            *)
Release(r, i) ==
    LET v == res[r][i] IN
    /\ v.status = "marked"
    /\ sumW' = [sumW EXCEPT ![v.s] = IF @ - v.w < 0 THEN 0 ELSE @ - v.w]
    /\ count' = [count EXCEPT ![v.s] = IF @ - 1 < 0 THEN 0 ELSE @ - 1]
    /\ notify' = [notify EXCEPT ![v.s] = @ + 1]
    /\ res' = [res EXCEPT ![r][i] = [v EXCEPT !.status = "returned", !.pend = notify[v.s]]]
    /\ UNCHANGED <<ctrlVars, pc, stage, callVars, foot, delta, sent, proc>>

(* close(ch), after the mutex is unlocked.                                 *)
CloseCh(r, i) ==
    LET v == res[r][i] IN
    /\ v.pend > 0
    /\ res' = [res EXCEPT ![r][i] = IF v.status = "returned"
                                   THEN [NoRes EXCEPT !.status = "returned"]
                                   ELSE [v EXCEPT !.pend = 0]]
    /\ UNCHANGED <<ctrlVars, stateVars, pc, stage, callVars, foot, delta, sent, proc>>

(***************************************************************************)
(* The processor goroutine                                                 *)
(***************************************************************************)
(* A streamed chunk: Reservations.Grow on each reservation in turn.  It    *)
(* may come after the handler timed out and released.                      *)
StartGrow(r) ==
    /\ sent[r] /\ proc[r].op = "idle"
    /\ \E t \in GrowSteps :
         /\ \A i \in Stages(r) : res[r][i].w + t <= WeightCap
         /\ proc' = [proc EXCEPT ![r] = [op |-> "grow", i |-> 1, t |-> t]]
    /\ UNCHANGED <<ctrlVars, stateVars, pc, stage, callVars, foot, delta, sent, res>>

GrowReleased(r) ==
    LET i == proc[r].i
        v == res[r][i]
    IN  /\ proc[r].op = "grow" /\ Unlocked(r, i) /\ v.s # NoState
        /\ sumW' = [sumW EXCEPT ![v.s] = @ + proc[r].t]
        /\ res' = [res EXCEPT ![r][i] = [v EXCEPT !.w = @ + proc[r].t]]
        /\ proc' = [proc EXCEPT ![r] =
                IF i < Len(PoolOf[r]) THEN [@ EXCEPT !.i = i + 1] ELSE Idle]
        /\ UNCHANGED <<ctrlVars, count, notify, pc, stage, callVars, foot, delta, sent>>
Grow(r) ==
    LET i == proc[r].i
        v == res[r][i]
    IN  /\ proc[r].op = "grow" /\ Unlocked(r, i)
        /\ IF v.status = "held" /\ r \in Undeclared
           THEN /\ sumW' = [sumW EXCEPT ![v.s] = @ + proc[r].t]
                /\ res' = [res EXCEPT ![r][i] = [v EXCEPT !.w = @ + proc[r].t]]
           ELSE UNCHANGED <<sumW, res>>
        /\ proc' = [proc EXCEPT ![r] =
                IF i < Len(PoolOf[r]) THEN [@ EXCEPT !.i = i + 1] ELSE Idle]
        /\ UNCHANGED <<ctrlVars, count, notify, pc, stage, callVars, foot, delta, sent>>

(* The request is handed to a cloud provider, which holds no KV cache: the *)
(* processor releases the bundle while the handler still waits.            *)
StartFallback(r) ==
    /\ r \in ProviderReq /\ sent[r] /\ proc[r].op = "idle"
    /\ proc' = [proc EXCEPT ![r] = [op |-> "fallback", i |-> 1, t |-> 0]]
    /\ UNCHANGED <<ctrlVars, stateVars, pc, stage, callVars, foot, delta, sent, res>>

FallbackRelease(r) ==
    LET i == proc[r].i IN
    /\ proc[r].op = "fallback" /\ ~Busy(r, "proc") /\ Unlocked(r, i)
    /\ Mark(r, i, "proc")
    /\ proc' = [proc EXCEPT ![r] =
           IF i < Len(PoolOf[r]) THEN [@ EXCEPT !.i = i + 1] ELSE [@ EXCEPT !.op = "gone"]]
    /\ UNCHANGED <<ctrlVars, stateVars, pc, stage, callVars, foot, delta, sent>>

(***************************************************************************)
(* The janitor                                                             *)
(***************************************************************************)
InAdmit(r) == pc[r] \in {"try", "loop", "recheck", "select"}

(* More than the sweep's ttl passes since a state's last lookup.  The ttl  *)
(* (limiterIdleTTL, 15 minutes) outlasts every AdmitWithin call, so no     *)
(* call that looked the state up is still running.                         *)
Age(s) ==
    /\ s \in Range(mapped) \ (aged \cup {NoState})
    /\ \A r \in Req : ~(InAdmit(r) /\ st[r] = s)
    /\ aged' = aged \cup {s}
    /\ UNCHANGED <<mapped, created, stateVars, pc, stage, callVars, foot, delta, sent, res, proc>>

(* Bound: a state object is left for the next lookup of every evicted pool. *)
StateLeft == Cardinality(created) + Cardinality({q \in Pool : mapped[q] = NoState})
                < Cardinality(StateId)

(* Plausible bug: a state is evicted by its age alone.                     *)
SweepAged(p) ==
    /\ mapped[p] # NoState /\ StateLeft
    /\ mapped[p] \in aged
    /\ mapped' = [mapped EXCEPT ![p] = NoState]
    /\ UNCHANGED <<created, aged, stateVars, pc, stage, callVars, foot, delta, sent, res, proc>>

SweepIdle(p) ==
    /\ mapped[p] # NoState /\ StateLeft
    /\ sumW[mapped[p]] = 0 /\ count[mapped[p]] = 0 /\ mapped[p] \in aged
    /\ mapped' = [mapped EXCEPT ![p] = NoState]
    /\ UNCHANGED <<created, aged, stateVars, pc, stage, callVars, foot, delta, sent, res, proc>>

----------------------------------------------------------------------------
(* All requests were answered: the instance has served its workload.       *)
Finished == \A r \in Req : pc[r] = "done" /\ proc[r].op \in {"idle", "gone"}
Quiet == Finished /\ UNCHANGED vars

Admit(r) == EnterAdmit(r) \/ TryFirst(r) \/ notifyCh(r) \/ Recheck(r) \/ WakeUp(r)
Serve(r) == \/ RejectLater(r) \/ Enqueue(r) \/ Respond(r) \/ Adjust(r)
            \/ HandlerRelease(r) \/ HandlerReturn(r)
Process(r) == StartGrow(r) \/ Grow(r) \/ StartFallback(r) \/ FallbackRelease(r)
Complete(r) == \E i \in Stages(r) : Release(r, i) \/ CloseCh(r, i)
Janitor == (\E s \in StateId : Age(s)) \/ (\E p \in Pool : SweepIdle(p))

Next == \/ \E r \in Req : \/ Admit(r) \/ ParkEnds(r) \/ Serve(r)
                          \/ Process(r) \/ Complete(r)
        \/ Janitor
        \/ Quiet

Spec == Init /\ [][Next]_vars

(* Every goroutine keeps running; the handler's wait for a response is     *)
(* bounded by h.timeout.  Nothing is assumed of the park timer, of the     *)
(* client, of streamed chunks or of the janitor.                           *)
Fairness == \A r \in Req : /\ WF_vars(Admit(r)) /\ WF_vars(Serve(r))
                           /\ WF_vars(Grow(r) \/ FallbackRelease(r))
                           /\ WF_vars(Complete(r))
FairSpec == Spec /\ Fairness

----------------------------------------------------------------------------
(* Every variable stays within its type.                                   *)
ReservationType ==
    [status : {"none", "held", "marked", "returned"}, s : StateId \cup {NoState},
     w : Nat, pend : Nat, own : {"handler", "proc"}]
CtrlType == /\ mapped \in [Pool -> StateId \cup {NoState}]
            /\ created \subseteq StateId /\ aged \subseteq StateId
StateType == /\ sumW \in [StateId -> Nat] /\ count \in [StateId -> Nat]
             /\ notify \in [StateId -> Nat \ {0}]
FlowType == /\ pc \in [Req -> {"enter", "try", "loop", "recheck", "select", "admitted",
                              "await", "adjust", "release", "return", "done"}]
            /\ stage \in [Req -> Stage] /\ foot \in [Req -> Nat]
            /\ delta \in [Req -> Int] /\ sent \in [Req -> BOOLEAN]
CallType == /\ st \in [Req -> StateId \cup {NoState}]
            /\ bud \in [Req -> Nat] /\ lim \in [Req -> Nat] /\ ch \in [Req -> Nat]
ResType == res \in [Req -> [Stage -> ReservationType]]
ProcType == proc \in [Req -> [op : {"idle", "grow", "fallback", "gone"}, i : Stage, t : Nat]]
TypeOK == CtrlType /\ StateType /\ FlowType /\ CallType /\ ResType /\ ProcType

(* The reservations a state still carries: held ones, and released ones    *)
(* whose weight has not been returned yet.                                 *)
Charges(s) == {c \in Req \X Stage :
                 res[c[1]][c[2]].status \in {"held", "marked"} /\ res[c[1]][c[2]].s = s}

(* The tokens those reservations weigh, each named by its reservation and  *)
(* its rank in it: there are as many as the weights add up to.             *)
Tokens(s) == UNION {{c} \X (1..res[c[1]][c[2]].w) : c \in Charges(s)}

(* The shared sum of a state is exactly the weights of the reservations it *)
(* carries, so growing, true-up, double release and late chunks neither    *)
(* leak budget nor free another request's, and release's clamp at zero is  *)
(* never what keeps the sum right.                                         *)
Conservation == \A s \in StateId : sumW[s] = Cardinality(Tokens(s))

(* The in-flight count that max_inflight bounds is exactly the number of   *)
(* reservations the state carries.                                         *)
CountExact == \A s \in StateId : count[s] = Cardinality(Charges(s))

(* AdmitWithin never misses a release: a request parked on a channel that  *)
(* is still the state's current one has no room, so whatever makes room    *)
(* for it will also replace, and then close, the channel it waits on.      *)
NoLostWakeup ==
    \A r \in Req : pc[r] = "select" /\ ch[r] = notify[st[r]] => ~Fits(r)

(* SweepIdle never splits a pool in two: whoever is being admitted by a    *)
(* state, or is charged to one, shares it with the next request to look    *)
(* the pool up.                                                            *)
NoOrphanState ==
    \A r \in Req :
        /\ InAdmit(r) => st[r] = mapped[PoolOf[r][stage[r]]]
        /\ \A i \in Stages(r) : res[r][i].status \in {"held", "marked"} =>
               res[r][i].s = mapped[PoolOf[r][i]]

(* A handler that returned left no reservation held: a refused share hands *)
(* back the pool's reservation, and every exit path releases the bundle.   *)
NothingLeftHeld ==
    \A r \in Req : pc[r] = "done" =>
        \A i \in Stages(r) : res[r][i].status # "held"

(* A request waiting for room leaves the gate without the help of its park *)
(* timer, because the requests it waits for return their weight, and what  *)
(* was reserved comes back: no reservation stays charged forever.          *)
AllReturned == <>[]((\A r \in Req : ~InAdmit(r)) /\ \A s \in StateId : count[s] = 0)

(* A key's share of the pool bounds what its requests hold in flight, even *)
(* when the share is a small fraction of a small pool: the admitted        *)
(* footprints of the key's pool stay within the share, or consist of the   *)
(* floor of one token that keeps a small budget from reading as unlimited. *)
ShareBounds ==
    \A r \in Req : Len(PoolOf[r]) = 2 /\ res[r][2].status = "held" =>
        sumW[res[r][2].s] * ShareDen
            <= Max({ShareNum * AdmitBudget * n : n \in Replicas} \cup {ShareDen})
=============================================================================
