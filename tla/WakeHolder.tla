----------------------------- MODULE WakeHolder -----------------------------
(***************************************************************************)
(* Requests held while their model is scaled to zero: the WakeHold         *)
(* middleware, wake.Holder (Hold, Wake, the health poll, the pending       *)
(* demand), and the callers of the release function it returns.            *)
(*                                                                         *)
(* Holder.mu makes enter, leave, leaveDemand, Wake and wakeChan atomic;    *)
(* everything between two of them interleaves. A wake channel is "live"    *)
(* for the calls that hold the entry's current channel and "closed" for    *)
(* those whose channel Wake has closed and replaced. A poll goroutine is   *)
(* named after the call whose enter started it.                            *)
(***************************************************************************)
EXTENDS Integers, FiniteSets, Functions

CONSTANTS
    Call,       \* requests for models that may be held
    Model,
    ModelOf,    \* [Call -> Model]
    Caller,     \* API keys
    NoCaller,   \* the caller of a request with no key
    Requests,   \* what the calls may be: functions from Call to pairs of a
                \* caller and a request ID; a client's retry resends its ID
    Limits,     \* the limits a Holder may be given
    KeepAlives, \* WakeConfig.KeepAlive > 0
    NoPoll,     \* a nil stop channel
    MaxEvents   \* bound: changes of the models' health

ASSUME SetsAssumption ==
    /\ IsFiniteSet(Call) /\ IsFiniteSet(Model)
    /\ ModelOf \in [Call -> Model]
    /\ Requests \subseteq [Call -> (Caller \cup {NoCaller}) \X Nat]
    /\ NoCaller \notin Caller /\ NoPoll \notin Call
    /\ KeepAlives \in BOOLEAN
ASSUME LimitsAssumption ==
    /\ Limits \subseteq [PerModel : Nat \ {0}, PerCaller : Nat \ {0}, Total : Nat \ {0}]
    /\ MaxEvents \in Nat

Keys == {who[c] : who \in Requests, c \in Call}

VARIABLES
    limits,    \* Holder.limits, fixed at start
    key,       \* [Call -> its caller and request ID]
    healthy,   \* [Model -> some healthy agent serves it]
    announced, \* [Model -> its last agent came with a call of Wake]
    news,      \* models whose agent is in place and Wake not yet called
    events,    \* changes of health so far
    total,     \* Holder.total
    models,    \* Holder.models, a partial function
    pc,        \* [Call -> where the request is]
    ch,        \* [Call -> its wake channel]
    outcome,   \* [Call -> how its hold ended]
    once,      \* calls whose release has run
    slotted,   \* calls whose onSlot hook has been called
    poll,      \* [Call -> the poll goroutine its enter started]
    stopped    \* polls whose stop channel is closed

agentVars == <<healthy, announced, news, events>>
holdVars == <<total, models>>
callVars == <<pc, ch, outcome, once, slotted>>
pollVars == <<poll, stopped>>
inputs == <<limits, key>>
vars == <<inputs, agentVars, holdVars, callVars, pollVars>>

Init ==
    /\ limits \in Limits /\ key \in Requests
    /\ healthy = [m \in Model |-> FALSE] /\ announced = healthy
    /\ news = {} /\ events = 0
    /\ total = 0 /\ models = [m \in {} |-> 0]
    /\ pc = [c \in Call |-> "new"] /\ ch = [c \in Call |-> "none"]
    /\ outcome = [c \in Call |-> "none"] /\ once = {} /\ slotted = {}
    /\ poll = [c \in Call |-> "none"] /\ stopped = {}

-----------------------------------------------------------------------------
(* The holder's state.                                                     *)

CallerOf(c) == key[c][1]

NewHold == [holds |-> 0,
            callers |-> [k \in Caller \cup {NoCaller} |-> 0],
            demand |-> [k \in Keys |-> 0],
            stop |-> NoPoll]

Entries == [holds : Nat, callers : [Caller \cup {NoCaller} -> Nat],
            demand : [Keys -> Nat], stop : Call \cup {NoPoll}]

EntryOf(m) == IF m \in DOMAIN models THEN models[m] ELSE NewHold

Full(c) ==
    \/ total >= limits.Total
    \/ /\ ModelOf[c] \in DOMAIN models
       /\ \/ models[ModelOf[c]].holds >= limits.PerModel
          \/ /\ CallerOf(c) # NoCaller
             /\ models[ModelOf[c]].callers[CallerOf(c)] >= limits.PerCaller

Put(m, e) == [x \in DOMAIN models \cup {m} |-> IF x = m THEN e ELSE models[x]]

removeIfIdle(m, e) ==
    IF e.holds = 0 /\ \A k \in Keys : e.demand[k] = 0
    THEN Restrict(models, DOMAIN models \ {m})
    ELSE Put(m, e)

Goto(c, l) == pc' = [pc EXCEPT ![c] = l]
EndsAs(c, o) == Goto(c, "leave") /\ outcome' = [outcome EXCEPT ![c] = o]

(* Plausible bug: the channel is replaced and not closed.                  *)
WakeReplaces(m) == ch' = ch

(* Close the model's wake channel and replace it.                          *)
Wake(m) ==
    ch' = [c \in Call |-> IF ModelOf[c] = m /\ ch[c] = "live" /\ m \in DOMAIN models
                          THEN "closed" ELSE ch[c]]

-----------------------------------------------------------------------------
(* One request: the middleware, then Hold.                                 *)

(* WakeHold: a request whose model has a healthy agent is not held.        *)
Arrive(c) ==
    /\ pc[c] = "new"
    /\ Goto(c, IF healthy[ModelOf[c]] THEN "done" ELSE "enter")
    /\ UNCHANGED <<agentVars, holdVars, ch, outcome, once, slotted, pollVars>>

(* Plausible bug: a retry with the same ID is not counted, yet leaves.      *)
JoinsOnce(e, c) ==
    [holds |-> e.holds + 1,
     callers |-> [e.callers EXCEPT ![CallerOf(c)] = @ + 1],
     demand |-> [e.demand EXCEPT ![key[c]] = 1],
     stop |-> IF e.stop = NoPoll THEN c ELSE e.stop]

(* The entry with one more request held; the first of them starts a poll.  *)
Joins(e, c) ==
    [holds |-> e.holds + 1,
     callers |-> [e.callers EXCEPT ![CallerOf(c)] = @ + 1],
     demand |-> [e.demand EXCEPT ![key[c]] = @ + 1],
     stop |-> IF e.stop = NoPoll THEN c ELSE e.stop]

(* Plausible bug: the health is not checked again after entering.          *)
EnterSelects(c) ==
    LET e == EntryOf(ModelOf[c]) IN
    /\ pc[c] = "enter" /\ ~Full(c)
    /\ poll' = IF e.stop = NoPoll THEN [poll EXCEPT ![c] = "run"] ELSE poll
    /\ total' = total + 1 /\ models' = Put(ModelOf[c], Joins(e, c))
    /\ ch' = [ch EXCEPT ![c] = "live"] /\ Goto(c, "select")
    /\ UNCHANGED <<agentVars, outcome, once, slotted, stopped>>

enter(c) ==
    LET e == EntryOf(ModelOf[c]) IN
    /\ pc[c] = "enter" /\ ~Full(c)
    /\ poll' = IF e.stop = NoPoll THEN [poll EXCEPT ![c] = "run"] ELSE poll
    /\ total' = total + 1 /\ models' = Put(ModelOf[c], Joins(e, c))
    /\ ch' = [ch EXCEPT ![c] = "live"] /\ Goto(c, "check")
    /\ UNCHANGED <<agentVars, outcome, once, slotted, stopped>>

EnterFull(c) ==
    /\ pc[c] = "enter" /\ Full(c)
    /\ Goto(c, "done")
    /\ UNCHANGED <<agentVars, holdVars, ch, outcome, once, slotted, pollVars>>

(* wait: the top of the loop, then one step per case of the select.        *)
CheckHealth(c) ==
    /\ pc[c] = "check"
    /\ IF healthy[ModelOf[c]] THEN EndsAs(c, "woken")
                              ELSE Goto(c, "select") /\ UNCHANGED outcome
    /\ UNCHANGED <<agentVars, holdVars, ch, once, slotted, pollVars>>

SelectWake(c) ==
    /\ pc[c] = "select" /\ ch[c] = "closed"
    /\ Goto(c, "rechan")
    /\ UNCHANGED <<agentVars, holdVars, ch, outcome, once, slotted, pollVars>>

wakeChan(c) ==
    /\ pc[c] = "rechan"
    /\ ch' = [ch EXCEPT ![c] = "live"] /\ Goto(c, "check")
    /\ UNCHANGED <<agentVars, holdVars, outcome, once, slotted, pollVars>>

SelectKeepAlive(c) ==
    /\ pc[c] = "select" /\ KeepAlives
    /\ \/ Goto(c, "check") /\ UNCHANGED outcome
       \/ EndsAs(c, "gone")
    /\ UNCHANGED <<agentVars, holdVars, ch, once, slotted, pollVars>>

SelectBudget(c) ==
    /\ pc[c] = "select"
    /\ EndsAs(c, IF healthy[ModelOf[c]] THEN "woken" ELSE "expired")
    /\ UNCHANGED <<agentVars, holdVars, ch, once, slotted, pollVars>>

SelectDone(c) ==
    /\ pc[c] = "select"
    /\ EndsAs(c, "gone")
    /\ UNCHANGED <<agentVars, holdVars, ch, once, slotted, pollVars>>

(* The entry with one request less held; the last of them stops the poll.  *)
Leaves(e, c) ==
    [holds |-> e.holds - 1,
     callers |-> [e.callers EXCEPT ![CallerOf(c)] = @ - 1],
     demand |-> e.demand,
     stop |-> IF e.holds = 1 THEN NoPoll ELSE e.stop]

leave(c) ==
    LET e == models[ModelOf[c]] IN
    /\ pc[c] = "leave"
    /\ total' = total - 1 /\ models' = removeIfIdle(ModelOf[c], Leaves(e, c))
    /\ stopped' = IF e.holds = 1 THEN stopped \cup {e.stop} ELSE stopped
    /\ ch' = [ch EXCEPT ![c] = "none"]
    /\ Goto(c, IF outcome[c] = "woken" THEN "released" ELSE "undemand")
    /\ outcome' = [outcome EXCEPT ![c] = "none"]
    /\ UNCHANGED <<agentVars, once, slotted, poll>>

(* The entry without the request in its demand.                            *)
Undemands(e, c) ==
    [holds |-> e.holds, callers |-> e.callers,
     demand |-> [e.demand EXCEPT ![key[c]] = @ - 1], stop |-> e.stop]

Demanded(c) ==
    models' = removeIfIdle(ModelOf[c], Undemands(models[ModelOf[c]], c))

leaveDemand(c) ==
    /\ pc[c] = "undemand"
    /\ Demanded(c) /\ Goto(c, "done")
    /\ UNCHANGED <<agentVars, total, ch, outcome, once, slotted, pollVars>>

(* The function Hold returns with Woken; sync.Once runs its body once.     *)
release(c) == IF c \in once THEN UNCHANGED <<models, once>>
                            ELSE Demanded(c) /\ once' = once \cup {c}

(* gotSlot, on the dispatch goroutine: also after the handler gave up.     *)
gotSlot(c) ==
    /\ pc[c] \in {"released", "ended"} /\ c \notin slotted
    /\ release(c) /\ slotted' = slotted \cup {c}
    /\ UNCHANGED <<agentVars, total, pc, ch, outcome, pollVars>>

(* releasedWriter.start: the response starts or the handler returns.       *)
start(c) ==
    /\ pc[c] = "released"
    /\ release(c) /\ Goto(c, "ended")
    /\ UNCHANGED <<agentVars, total, ch, outcome, slotted, pollVars>>

-----------------------------------------------------------------------------
(* The health poll of a model with held requests.                          *)

PollTick(c) ==
    /\ poll[c] = "run" /\ healthy[ModelOf[c]]
    /\ poll' = [poll EXCEPT ![c] = "wake"]
    /\ UNCHANGED <<agentVars, holdVars, callVars, stopped>>

PollWake(c) ==
    /\ poll[c] = "wake"
    /\ Wake(ModelOf[c]) /\ poll' = [poll EXCEPT ![c] = "run"]
    /\ UNCHANGED <<agentVars, holdVars, pc, outcome, once, slotted, stopped>>

PollStop(c) ==
    /\ poll[c] = "run" /\ c \in stopped
    /\ poll' = [poll EXCEPT ![c] = "exit"]
    /\ UNCHANGED <<agentVars, holdVars, callVars, stopped>>

-----------------------------------------------------------------------------
(* The agents. A registration or a heartbeat makes the model healthy and   *)
(* then calls Wake. A heartbeat that read the agent as healthy just before *)
(* the health monitor marked it unhealthy makes it healthy again in        *)
(* silence.                                                                *)

AgentUp(m, announces) ==
    /\ events < MaxEvents /\ ~healthy[m]
    /\ healthy' = [healthy EXCEPT ![m] = TRUE]
    /\ announced' = [announced EXCEPT ![m] = announces]
    /\ news' = IF announces THEN news \cup {m} ELSE news
    /\ events' = events + 1
    /\ UNCHANGED <<holdVars, callVars, pollVars>>

WakeNews(m) ==
    /\ m \in news /\ news' = news \ {m}
    /\ Wake(m)
    /\ UNCHANGED <<healthy, announced, events, holdVars, pc, outcome, once, slotted, pollVars>>

AgentDown(m) ==
    /\ events < MaxEvents /\ healthy[m]
    /\ healthy' = [healthy EXCEPT ![m] = FALSE]
    /\ events' = events + 1
    /\ UNCHANGED <<announced, news, holdVars, callVars, pollVars>>

-----------------------------------------------------------------------------
HoldStep(c) ==
    \/ enter(c) \/ EnterFull(c) \/ CheckHealth(c) \/ SelectWake(c) \/ wakeChan(c)
    \/ leave(c) \/ leaveDemand(c)

Timer(c) == SelectKeepAlive(c) \/ SelectBudget(c) \/ SelectDone(c)

PollStep(c) == PollTick(c) \/ PollWake(c)

Step ==
    \/ \E c \in Call : Arrive(c) \/ HoldStep(c) \/ Timer(c)
    \/ \E c \in Call : gotSlot(c) \/ start(c)
    \/ \E c \in Call : PollStep(c) \/ PollStop(c)
    \/ \E m \in Model : (\E b \in BOOLEAN : AgentUp(m, b)) \/ WakeNews(m) \/ AgentDown(m)

Next == Step /\ UNCHANGED inputs

Spec == Init /\ [][Next]_vars

(* The goroutines run, tickers tick, and a select with a closed stop       *)
(* channel picks it eventually (Go picks at random). No timer, client or   *)
(* agent is assumed to do anything.                                        *)
FairSpec ==
    /\ Spec
    /\ \A c \in Call : /\ WF_vars(HoldStep(c) /\ UNCHANGED inputs)
                       /\ WF_vars(start(c) /\ UNCHANGED inputs)
                       /\ WF_vars(PollStep(c) /\ UNCHANGED inputs)
                       /\ SF_vars(PollStop(c) /\ UNCHANGED inputs)
    /\ \A m \in Model : WF_vars(WakeNews(m) /\ UNCHANGED inputs)

-----------------------------------------------------------------------------
(* Properties.                                                             *)

Held(c) == pc[c] \in {"check", "select", "rechan", "leave"}
Pending(c) == Held(c) \/ pc[c] = "undemand" \/ (pc[c] \in {"released", "ended"} /\ c \notin once)
HeldFor(m) == {c \in Call : Held(c) /\ ModelOf[c] = m}

TypeOK ==
    /\ limits \in Limits /\ key \in Requests
    /\ healthy \in [Model -> BOOLEAN] /\ announced \in [Model -> BOOLEAN]
    /\ news \subseteq Model /\ events \in 0..MaxEvents
    /\ total \in Nat
    /\ DOMAIN models \subseteq Model
    /\ models \in [DOMAIN models -> Entries]
    /\ pc \in [Call -> {"new", "enter", "check", "select", "rechan", "leave",
                        "undemand", "released", "ended", "done"}]
    /\ ch \in [Call -> {"none", "live", "closed"}]
    /\ outcome \in [Call -> {"none", "full", "woken", "expired", "gone"}]
    /\ once \subseteq Call /\ slotted \subseteq Call /\ stopped \subseteq Call
    /\ poll \in [Call -> {"none", "run", "wake", "exit"}]

(* The requests held exceed no limit, per model, per key or in all.        *)
WithinLimits ==
    /\ Cardinality({c \in Call : Held(c)}) <= limits.Total
    /\ \A m \in Model : /\ Cardinality(HeldFor(m)) <= limits.PerModel
                        /\ \A k \in Caller :
                              Cardinality({c \in HeldFor(m) : CallerOf(c) = k}) <= limits.PerCaller

(* The counters Hold keeps are the requests they stand for: total, holds   *)
(* and callers count the requests held now, and the pending demand counts, *)
(* per caller and request ID, those held or released and not yet given a   *)
(* slot or answered, however release, leave and retries with the same ID   *)
(* interleave. A model has an entry exactly while some request of it is    *)
(* held or in the demand: leave, leaveDemand and wakeChan never find it    *)
(* gone, and none outlives its requests. So the limits hold.               *)
DemandExact ==
    /\ WithinLimits
    /\ DOMAIN models = {ModelOf[c] : c \in {d \in Call : Pending(d)}}
    /\ total = Cardinality({c \in Call : Held(c)})
    /\ \A m \in Model :
          /\ EntryOf(m).holds = Cardinality(HeldFor(m))
          /\ \A k \in Caller \cup {NoCaller} :
                EntryOf(m).callers[k] = Cardinality({c \in HeldFor(m) : CallerOf(c) = k})
          /\ \A k \in Keys : EntryOf(m).demand[k] =
                Cardinality({c \in Call : Pending(c) /\ ModelOf[c] = m /\ key[c] = k})

(* One poll per model while it has held requests, and none otherwise: the  *)
(* entry's stop channel is that of a goroutine that runs and has not been  *)
(* told to stop, and every other poll has been.                            *)
OnePoll ==
    \A m \in Model :
       {c \in Call : ModelOf[c] = m /\ poll[c] \in {"run", "wake"} /\ c \notin stopped}
          = IF HeldFor(m) = {} THEN {} ELSE {EntryOf(m).stop}

(* A request that sleeps on a channel nobody has closed has not missed the *)
(* agent that came with a Wake: that call is still to come. So an agent    *)
(* that registers between the middleware's check and the hold is seen      *)
(* without waiting for the poll.                                           *)
WakeNotMissed ==
    \A c \in Call : LET m == ModelOf[c] IN
       pc[c] = "select" /\ ch[c] = "live" /\ healthy[m] /\ announced[m] => m \in news

(* Once a model stays healthy every request held for it is let go, whether *)
(* or not its agent announced itself, without help from a timer.           *)
HealthyReleases ==
    \A c \in Call : <>[]healthy[ModelOf[c]] => (Held(c) ~> ~Held(c))

(* A poll goroutine ends unless requests of its model are held for ever.   *)
PollsEnd ==
    \A c \in Call : poll[c] = "run" ~> (poll[c] = "exit" \/ HeldFor(ModelOf[c]) # {})
=============================================================================
