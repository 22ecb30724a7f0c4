------------------------------ MODULE Dispatch ------------------------------
(***************************************************************************)
(* Dispatch of the requests for one model: RequestProcessor.Start and      *)
(* dispatchWithPolicy, the policy Session that filters and claims agents,  *)
(* the capacity WaitQueue in which it parks, and the agents' slots.        *)
(*                                                                         *)
(* An agent object is <<a, g>>: every registration of peer a allocates a   *)
(* new domain.Agent, so a request may hold a slot of an object that is no  *)
(* longer in the registry.                                                 *)
(*                                                                         *)
(* buildCandidates lists the objects in one step and reads them one by     *)
(* one, in peer order; a slot is claimed in a later step, and parking is a *)
(* later step again. Freeing a slot and signalling the queue are two       *)
(* steps too.                                                              *)
(***************************************************************************)
EXTENDS Integers, Sequences, FiniteSets

CONSTANTS
    Req,            \* requests for the model
    HeldReq,        \* those released from a hold at zero replicas
    Agent,          \* peers, numbers in the order of their peer IDs
    Capacity,       \* [Agent -> declared capacity]
    Steps,          \* number of policy steps (routing_policy, then fallbacks)
    Match,          \* [1..Steps -> agents the static filter lets through]
    GatedStep,      \* the steps with an exclude_if
    MaxTries,       \* [1..Steps -> forward failures the step allows]
    MaxReconnects,  \* maxReconnectsPerAgent
    QueueDepth,     \* bound of the wait queue; 0 disables it
    MaxConcurrent,  \* size of the processor's semaphore
    HasProvider,    \* the policy has a fallback provider
    Outcomes,       \* [Req -> how its forwards may end, besides by timeout]
    MaxGen,         \* bound: registrations per peer
    Workloads       \* bound: which requests come together with how many
                    \* failures, registrations and gate changes

OutcomeKinds == {"ok", "stream", "invalid", "backend", "disconnected"}

ASSUME SetsAssumption ==
    /\ IsFiniteSet(Req) /\ HeldReq \subseteq Req
    /\ IsFiniteSet(Agent) /\ Agent \subseteq Nat
    /\ Outcomes \in [Req -> SUBSET OutcomeKinds]
    /\ HasProvider \in BOOLEAN
ASSUME PolicyAssumption ==
    /\ Steps \in Nat \ {0}
    /\ Match \in [1..Steps -> SUBSET Agent]
    /\ GatedStep \subseteq 1..Steps
    /\ MaxTries \in [1..Steps -> Nat \ {0}]
    /\ MaxReconnects \in Nat
ASSUME BoundsAssumption ==
    /\ Capacity \in [Agent -> Nat \ {0}]
    /\ QueueDepth \in Nat /\ MaxConcurrent \in Nat \ {0}
    /\ MaxGen \in Nat \ {0}
    /\ Workloads \subseteq [reqs : SUBSET Req, events : Nat]

Obj == Agent \X (1..MaxGen)
NoObj == <<0, 0>>

VARIABLES
    made,     \* [Agent -> registrations so far]; the object listed is the last
    listed,   \* the peers in the registry
    healthy,  \* [Obj -> Healthy and BackendHealthy]
    load,     \* [Obj -> ActiveRequests]
    gate,     \* the peers whose live metrics pass exclude_if
    news,     \* registrations and recoveries that have yet to broadcast
    events,   \* failures, registrations and gate changes still to come
    waiters,  \* WaitQueue.waiters: sequence of [who, ticket]
    next,     \* WaitQueue.next
    token,    \* requests whose wait channel holds a value
    pc,       \* each request's position
    ctx,      \* live, gone (client left) or expired (deadline passed)
    step, tries, failed, reason,   \* the Session
    ticket,   \* Select's place in line (0: none)
    snap, seen,   \* buildCandidates: objects listed, and what each was
    recon,    \* [Req -> [Agent -> free reconnects used]]
    obj,      \* the object chosen, then the one whose slot is held
    cont,     \* what the goroutine does once it has signalled
    attempts, \* PendingRequest.attempts
    stale     \* objects that improved after the scan read them, before parking

agentVars == <<made, listed, healthy, load, gate, news, events>>
queueVars == <<waiters, next, token>>
sessVars  == <<step, tries, failed, reason, ticket, snap, seen, stale>>
vars == <<agentVars, queueVars, pc, ctx, sessVars, recon, obj, cont, attempts>>

(* dispatchWithPolicy is running, so it holds a place of the semaphore;    *)
(* a streamed response is drained by a goroutine of its own.               *)
InDispatch(r) == /\ pc[r] \notin {"chan", "sem", "stream", "ok", "err"}
                 /\ ~(pc[r] = "signal" /\ cont[r] = "drained")

(* The requests whose goroutine holds a slot of o.                         *)
Holders(o) == {r \in Req : pc[r] \in {"held", "forward", "stream"} /\ obj[r] = o}

InLine(r) == \E i \in DOMAIN waiters : waiters[i].who = r

(***************************************************************************)
(* Agents                                                                  *)
(***************************************************************************)
Current(a) == <<a, made[a]>>
Listed == {Current(a) : a \in listed}

(* Object o offers more than it did. A request that has read o already, or *)
(* listed the agents without it, and is not parked yet will not see that.  *)
(* (stale only serves the properties; no action reads it.)                 *)
MissedAt(labels, o) == stale' = [r \in Req |->
    IF pc[r] \in labels /\ o \notin snap[r] \ DOMAIN seen[r]
    THEN stale[r] \cup {o} ELSE stale[r]]
Improve(o) == MissedAt({"scan", "enqueue"}, o)

(* A woken request found the gates of objects closed: the requests still   *)
(* in line miss the slots freed there, as it parks again and wakes nobody. *)
Absorbed(r, objects) == stale' = [q \in Req |->
    IF ticket[r] # 0 /\ InLine(q) THEN stale[q] \cup objects ELSE stale[q]]

(* registry.ListByModel, then the filters of buildCandidates for one agent *)
Class(r, o) ==
    IF ~healthy[o] THEN "unhealthy"
    ELSE IF o[1] \notin Match[step[r]] THEN "filter"
    ELSE IF o[1] \in failed[r] THEN "failed"
    ELSE IF load[o] >= Capacity[o[1]] THEN "full"
    ELSE IF step[r] \in GatedStep /\ o[1] \notin gate THEN "gate"
    ELSE "ok"

(***************************************************************************)
(* The wait queue                                                          *)
(***************************************************************************)
InsertAt(ws, i, w) == SubSeq(ws, 1, i - 1) \o <<w>> \o SubSeq(ws, i, Len(ws))
RemoveAt(ws, i) == SubSeq(ws, 1, i - 1) \o SubSeq(ws, i + 1, Len(ws))

(* slices.Insert at the index sort.Search finds: the first waiter with a   *)
(* later ticket, or the end.                                               *)
InsertByTicket(ws, w) ==
    LET ends == {j \in DOMAIN ws : ws[j].ticket > w.ticket} \cup {Len(ws) + 1}
    IN InsertAt(ws, CHOOSE i \in ends : \A j \in ends : i <= j, w)

Signal ==
    IF waiters = <<>> THEN UNCHANGED <<waiters, token>>
    ELSE /\ waiters' = Tail(waiters)
         /\ token' = token \cup {Head(waiters).who}

SignalCapacity == IF QueueDepth = 0 THEN UNCHANGED <<waiters, token>> ELSE Signal

(***************************************************************************)
(* Init: the requests of a workload are in the request queue, every agent  *)
(* is registered.                                                          *)
(***************************************************************************)
Init ==
    /\ made = [a \in Agent |-> 1] /\ listed = Agent
    /\ healthy = [o \in Obj |-> TRUE] /\ load = [o \in Obj |-> 0]
    /\ gate = Agent /\ news = 0
    /\ waiters = <<>> /\ next = 0 /\ token = {}
    /\ \E w \in Workloads :
         pc = [r \in Req |-> IF r \in w.reqs THEN "chan" ELSE "ok"] /\ events = w.events
    /\ ctx = [r \in Req |-> "live"]
    /\ step = [r \in Req |-> 1] /\ tries = [r \in Req |-> 0]
    /\ failed = [r \in Req |-> {}] /\ reason = [r \in Req |-> "exhausted"]
    /\ ticket = [r \in Req |-> 0]
    /\ snap = [r \in Req |-> {}] /\ seen = [r \in Req |-> <<>>]
    /\ recon = [r \in Req |-> [a \in Agent |-> 0]]
    /\ obj = [r \in Req |-> NoObj] /\ cont = [r \in Req |-> "none"]
    /\ attempts = [r \in Req |-> 0] /\ stale = [r \in Req |-> {}]

Goto(r, l) == pc' = [pc EXCEPT ![r] = l]
Expired(r) == ctx[r] = "expired"
Final == {"ok", "err"}

(* The goroutine moves to l. Answering the request ends its session, whose *)
(* state is dropped.                                                       *)
GotoOrEnd(r, l) ==
    /\ Goto(r, l)
    /\ IF l \in Final
       THEN /\ step' = [step EXCEPT ![r] = 1] /\ tries' = [tries EXCEPT ![r] = 0]
            /\ failed' = [failed EXCEPT ![r] = {}] /\ ticket' = [ticket EXCEPT ![r] = 0]
            /\ reason' = [reason EXCEPT ![r] = "exhausted"]
            /\ recon' = [recon EXCEPT ![r] = [a \in Agent |-> 0]]
            /\ ctx' = [ctx EXCEPT ![r] = "live"]
            /\ attempts' = [attempts EXCEPT ![r] = 0]
       ELSE UNCHANGED <<step, tries, failed, ticket, reason, recon, ctx, attempts>>

(***************************************************************************)
(* RequestProcessor                                                        *)
(***************************************************************************)
(* Start takes the request from the queue and spawns its goroutine.        *)
Start(r) ==
    /\ pc[r] = "chan"
    /\ GotoOrEnd(r, IF Expired(r) THEN "err" ELSE "sem")
    /\ UNCHANGED <<agentVars, queueVars, snap, seen, stale, obj, cont>>

AcquireSem(r) ==
    /\ pc[r] = "sem"
    /\ Cardinality({q \in Req : InDispatch(q)}) < MaxConcurrent
    /\ Goto(r, "check")
    /\ UNCHANGED <<agentVars, queueVars, ctx, sessVars, recon, obj, cont, attempts>>

(* The deadline test at the top of dispatchWithPolicy's loop.              *)
CheckDeadline(r) ==
    /\ pc[r] = "check"
    /\ GotoOrEnd(r, IF Expired(r) THEN "err" ELSE "list")
    /\ UNCHANGED <<agentVars, queueVars, snap, seen, stale, obj, cont>>

(***************************************************************************)
(* Session.Select                                                          *)
(***************************************************************************)
(* advanceStep, and the reset of Select's ticket.                          *)
advanceStep(r) ==
    /\ step' = [step EXCEPT ![r] = @ + 1]
    /\ tries' = [tries EXCEPT ![r] = 0]
    /\ failed' = [failed EXCEPT ![r] = {}]
    /\ ticket' = [ticket EXCEPT ![r] = 0]

sameStep == UNCHANGED <<step, tries, failed, ticket>>

(* buildCandidates' locals go out of scope.                                *)
Forget(r) == /\ snap' = [snap EXCEPT ![r] = {}]
             /\ seen' = [seen EXCEPT ![r] = <<>>]
             /\ stale' = [stale EXCEPT ![r] = {}]

(* The chain is used up: the fallback provider, if any, takes over.        *)
Exhausted(r) ==
    /\ pc[r] = "list" /\ step[r] > Steps
    /\ GotoOrEnd(r, IF HasProvider /\ ~Expired(r) THEN "provider" ELSE "err")
    /\ UNCHANGED <<agentVars, queueVars, snap, seen, stale, obj, cont>>

(* ListByModel. A model with no agent ends the step at once.               *)
ListByModel(r) ==
    /\ pc[r] = "list" /\ step[r] <= Steps
    /\ snap' = [snap EXCEPT ![r] = Listed]
    /\ UNCHANGED <<seen, stale>>
    /\ \/ /\ Listed = {}
          /\ reason' = [reason EXCEPT ![r] = "notfound"]
          /\ advanceStep(r) /\ UNCHANGED pc
       \/ /\ Listed # {}
          /\ Goto(r, "scan")
          /\ sameStep /\ UNCHANGED reason
    /\ UNCHANGED <<agentVars, queueVars, ctx, recon, obj, cont, attempts>>

(* Why a scan found no candidate; in the remaining cases the reason of an  *)
(* earlier scan survives.                                                  *)
ReasonAfter(r, found) ==
    LET Is(c) == {o \in DOMAIN found : found[o] = c} IN
    CASE Is("unhealthy") = DOMAIN found -> "noagents"
      [] Is("full") # {} /\ DOMAIN found = UNION {Is(c) : c \in {"unhealthy", "full", "failed"}}
             -> "nocapacity"
      [] Is("full") = {} /\ Is("gate") = {} /\ reason[r] = "nocapacity" -> "noagents"
      [] OTHER -> reason[r]

(* The scan reads the next agent. After the last one, the step's strategy  *)
(* picks one of the candidates; without a candidate the request parks or   *)
(* moves to the next step.                                                 *)
Scan(r) ==
    /\ pc[r] = "scan"
    /\ LET left == snap[r] \ DOMAIN seen[r]
           o == CHOOSE x \in left : \A y \in left : x[1] <= y[1]
           found == [x \in DOMAIN seen[r] \cup {o} |-> IF x = o THEN Class(r, o) ELSE seen[r][x]]
           good == {x \in DOMAIN found : found[x] = "ok"}
           why == ReasonAfter(r, found)
       IN \/ /\ left # {o}
             /\ seen' = [seen EXCEPT ![r] = found]
             /\ sameStep /\ UNCHANGED <<pc, obj, reason, snap, stale>>
          \/ /\ left = {o} /\ good # {}
             /\ \E x \in good : obj' = [obj EXCEPT ![r] = x]
             /\ Goto(r, "claim") /\ Forget(r)
             /\ sameStep /\ UNCHANGED reason
          \/ /\ left = {o} /\ good = {}
             /\ reason' = [reason EXCEPT ![r] = why]
             /\ \/ /\ why = "nocapacity" /\ QueueDepth > 0
                   /\ seen' = [seen EXCEPT ![r] = found]
                   /\ Absorbed(r, {x \in DOMAIN found : found[x] = "gate"})
                   /\ Goto(r, "enqueue") /\ sameStep /\ UNCHANGED snap
                \/ /\ ~(why = "nocapacity" /\ QueueDepth > 0)
                   /\ Goto(r, "list") /\ advanceStep(r) /\ Forget(r)
             /\ UNCHANGED obj
    /\ UNCHANGED <<agentVars, queueVars, ctx, recon, cont, attempts>>

(* TryAcquireSlot. A lost race selects again, uncharged.                   *)
Claim(r) ==
    /\ pc[r] = "claim"
    /\ \/ /\ load[obj[r]] < Capacity[obj[r][1]]
          /\ load' = [load EXCEPT ![obj[r]] = @ + 1]
          /\ ticket' = [ticket EXCEPT ![r] = 0]
          /\ Goto(r, "held") /\ UNCHANGED obj
       \/ /\ load[obj[r]] >= Capacity[obj[r][1]]
          /\ obj' = [obj EXCEPT ![r] = NoObj]
          /\ Goto(r, "list")
          /\ UNCHANGED <<load, ticket>>
    /\ UNCHANGED <<made, listed, healthy, gate, news, events, queueVars, ctx, step, tries,
                   failed, reason, snap, seen, stale, recon, cont, attempts>>

(* WaitInLine up to the select: refuse a newcomer when the queue is full,  *)
(* otherwise take or keep a ticket and go in line.                         *)
WaitInLine(r) ==
    /\ pc[r] = "enqueue"
    /\ \/ /\ ticket[r] = 0 /\ Len(waiters) >= QueueDepth /\ r \notin HeldReq
          /\ Goto(r, "list") /\ advanceStep(r) /\ Forget(r)
          /\ UNCHANGED queueVars
       \/ /\ ticket[r] # 0 \/ Len(waiters) < QueueDepth \/ r \in HeldReq
          /\ LET t == IF ticket[r] = 0 THEN next + 1 ELSE ticket[r] IN
             /\ ticket' = [ticket EXCEPT ![r] = t]
             /\ next' = IF ticket[r] = 0 THEN t ELSE next
             /\ waiters' = InsertByTicket(waiters, [who |-> r, ticket |-> t])
          /\ Goto(r, "parked")
          /\ UNCHANGED <<token, step, tries, failed, snap, seen, stale>>
    /\ UNCHANGED <<agentVars, ctx, reason, recon, obj, cont, attempts>>

(* The select takes the channel: select an agent again.                    *)
Woken(r) ==
    /\ pc[r] = "parked" /\ r \in token
    /\ token' = token \ {r}
    /\ Goto(r, "list") /\ sameStep /\ Forget(r)
    /\ UNCHANGED <<agentVars, waiters, next, ctx, reason, recon, obj, cont, attempts>>

(* The select takes ctx.Done, which it may even when the channel is ready: *)
(* leave the line, or, already signalled, pass the signal on.              *)
CtxDone(r) ==
    /\ pc[r] = "parked" /\ ctx[r] # "live"
    /\ \/ /\ \E i \in DOMAIN waiters : waiters[i].who = r /\ waiters' = RemoveAt(waiters, i)
          /\ Goto(r, "list") /\ advanceStep(r)
          /\ UNCHANGED token
       \/ /\ ~InLine(r)
          /\ token' = token \ {r}
          /\ Goto(r, "pass")
          /\ sameStep /\ UNCHANGED waiters
    /\ Forget(r)
    /\ UNCHANGED <<agentVars, next, ctx, reason, recon, obj, cont, attempts>>

(* Plausible bug: the signal of a request that gives up is dropped.        *)
PassOnDropped(r) ==
    /\ pc[r] = "pass"
    /\ Goto(r, "list") /\ advanceStep(r)
    /\ UNCHANGED <<agentVars, queueVars, ctx, reason, snap, seen, stale, recon, obj, cont,
                   attempts>>

PassOn(r) ==
    /\ pc[r] = "pass"
    /\ Signal
    /\ Goto(r, "list") /\ advanceStep(r)
    /\ UNCHANGED <<agentVars, next, ctx, reason, snap, seen, stale, recon, obj, cont, attempts>>

(***************************************************************************)
(* Forwarding                                                              *)
(***************************************************************************)
DecrementLoad(r) == /\ load' = [load EXCEPT ![obj[r]] = @ - 1]
                    /\ Improve(obj[r])
                    /\ UNCHANGED <<made, listed, healthy, gate, news, events>>

(* Select returned an agent: give the slot back if the deadline passed     *)
(* meanwhile, otherwise forward.                                           *)
Held(r) ==
    /\ pc[r] = "held"
    /\ \/ /\ Expired(r)
          /\ DecrementLoad(r)
          /\ cont' = [cont EXCEPT ![r] = "err"]
          /\ Goto(r, "signal")
          /\ UNCHANGED attempts
       \/ /\ ~Expired(r)
          /\ attempts' = [attempts EXCEPT ![r] = @ + 1]
          /\ Goto(r, "forward")
          /\ UNCHANGED <<agentVars, stale, cont>>
    /\ UNCHANGED <<queueVars, ctx, step, tries, failed, reason, ticket, snap, seen, recon, obj>>

(* Plausible bug: the deferred release also runs when a stream starts.     *)
StreamReleases(r) ==
    /\ pc[r] = "forward" /\ "stream" \in Outcomes[r]
    /\ DecrementLoad(r)
    /\ Goto(r, "stream")
    /\ UNCHANGED <<queueVars, ctx, step, tries, failed, reason, ticket, snap, seen, recon, obj,
                   cont, attempts>>

(* A streamed response is handed to the client; its slot stays held.       *)
StreamStarts(r) ==
    /\ pc[r] = "forward" /\ "stream" \in Outcomes[r]
    /\ Goto(r, "stream")
    /\ UNCHANGED <<agentVars, queueVars, ctx, sessVars, recon, obj, cont, attempts>>

(* Plausible bug: the drained stream does not give its slot back.          *)
DrainForgets(r) ==
    /\ pc[r] = "stream"
    /\ Goto(r, "ok")
    /\ UNCHANGED <<agentVars, queueVars, ctx, sessVars, recon, obj, cont, attempts>>

DrainEnds(r) ==
    /\ pc[r] = "stream"
    /\ DecrementLoad(r)
    /\ cont' = [cont EXCEPT ![r] = "drained"]
    /\ Goto(r, "signal")
    /\ UNCHANGED <<queueVars, ctx, step, tries, failed, reason, ticket, snap, seen, recon,
                   obj, attempts>>

(* Plausible bug: reconnects are not capped per agent.                     *)
RetryForever(r, out) ==
    CASE out = "ok"                    -> "ok"
      [] out \in {"invalid", "timeout"} -> "err"
      [] out = "disconnected"          -> "retry"
      [] OTHER                         -> "charge"

(* What dispatchWithPolicy does with the outcome of a forward that is not  *)
(* streamed: respond, fail the request, retry for free, or charge a try.   *)
After(r, out) ==
    CASE out = "ok"                    -> "ok"
      [] out \in {"invalid", "timeout"} -> "err"
      [] out = "disconnected" /\ recon[r][obj[r][1]] < MaxReconnects -> "retry"
      [] OTHER                         -> "charge"

(* forwardToAgent returns, releasing the slot.                             *)
ForwardEnds(r) ==
    /\ pc[r] = "forward"
    /\ \E out \in (Outcomes[r] \ {"stream"}) \cup (IF Expired(r) THEN {"timeout"} ELSE {}) :
         /\ cont' = [cont EXCEPT ![r] = After(r, out)]
         /\ recon' = IF After(r, out) = "retry"
                     THEN [recon EXCEPT ![r][obj[r][1]] = @ + 1] ELSE recon
    /\ DecrementLoad(r)
    /\ Goto(r, "signal")
    /\ UNCHANGED <<queueVars, ctx, step, tries, failed, reason, ticket, snap, seen, obj,
                   attempts>>

(* Session.RecordFailure.                                                  *)
RecordFailure(r) ==
    IF tries[r] + 1 >= MaxTries[step[r]] THEN advanceStep(r)
    ELSE /\ tries' = [tries EXCEPT ![r] = @ + 1]
         /\ failed' = [failed EXCEPT ![r] = @ \cup {obj[r][1]}]
         /\ UNCHANGED <<step, ticket>>

(* The rest of slotRelease, then the goroutine goes on.                    *)
SlotSignal(r) ==
    /\ pc[r] = "signal"
    /\ SignalCapacity
    /\ IF cont[r] = "charge"
       THEN /\ RecordFailure(r) /\ Goto(r, "check")
            /\ UNCHANGED <<reason, recon, ctx, attempts>>
       ELSE GotoOrEnd(r, CASE cont[r] \in {"ok", "drained"} -> "ok"
                           [] cont[r] = "err" -> "err"
                           [] OTHER -> "check")
    /\ obj' = [obj EXCEPT ![r] = NoObj]
    /\ cont' = [cont EXCEPT ![r] = "none"]
    /\ UNCHANGED <<agentVars, next, snap, seen, stale>>

(* tryProviderFallback.                                                    *)
ProviderEnds(r) ==
    /\ pc[r] = "provider"
    /\ \E l \in {"ok", "err"} : GotoOrEnd(r, l)
    /\ UNCHANGED <<agentVars, queueVars, snap, seen, stale, obj, cont>>

(***************************************************************************)
(* Deadlines, clients and agents                                           *)
(***************************************************************************)
DeadlinePasses(r) ==
    /\ pc[r] \notin Final \cup {"stream"} /\ ctx[r] # "expired"
    /\ ctx' = [ctx EXCEPT ![r] = "expired"]
    /\ UNCHANGED <<agentVars, queueVars, pc, sessVars, recon, obj, cont, attempts>>

ClientLeaves(r) ==
    /\ pc[r] \notin Final \cup {"stream"} /\ ctx[r] = "live"
    /\ ctx' = [ctx EXCEPT ![r] = "gone"]
    /\ UNCHANGED <<agentVars, queueVars, pc, sessVars, recon, obj, cont, attempts>>

(* What follows a failure, a recovery or a removal, is not counted again.  *)
Event == events > 0 /\ events' = events - 1

(* A disconnect, a missed heartbeat or a failing backend.                  *)
AgentDown(a) ==
    /\ Event /\ a \in listed /\ healthy[Current(a)]
    /\ healthy' = [healthy EXCEPT ![Current(a)] = FALSE]
    /\ UNCHANGED <<made, listed, load, gate, news, queueVars, pc, ctx, sessVars, recon, obj,
                   cont, attempts>>

(* A heartbeat makes the agent usable again; it broadcasts afterwards.     *)
AgentUp(a) ==
    /\ a \in listed /\ ~healthy[Current(a)]
    /\ healthy' = [healthy EXCEPT ![Current(a)] = TRUE]
    /\ news' = news + 1
    /\ Improve(Current(a))
    /\ UNCHANGED <<made, listed, load, gate, events, queueVars, pc, ctx, step, tries, failed,
                   reason, ticket, snap, seen, recon, obj, cont, attempts>>

(* Registration installs a new object, whether or not the peer is listed.  *)
Register(a) ==
    /\ Event /\ made[a] < MaxGen
    /\ made' = [made EXCEPT ![a] = @ + 1]
    /\ listed' = listed \cup {a}
    /\ news' = news + 1
    /\ Improve(<<a, made[a] + 1>>)
    /\ UNCHANGED <<healthy, load, gate, queueVars, pc, ctx, step, tries, failed, reason,
                   ticket, snap, seen, recon, obj, cont, attempts>>

(* The health monitor removes a dead agent.                                *)
Unregister(a) ==
    /\ a \in listed /\ ~healthy[Current(a)]
    /\ listed' = listed \ {a}
    /\ UNCHANGED <<made, healthy, load, gate, news, events, queueVars, pc, ctx, sessVars, recon,
                   obj, cont, attempts>>

(* Live metrics cross an exclude_if threshold. Nothing is signalled.       *)
GateFlips(a) ==
    /\ Event /\ GatedStep # {}
    /\ \/ a \in gate /\ gate' = gate \ {a} /\ UNCHANGED stale
       \/ /\ a \notin gate /\ gate' = gate \cup {a}
          /\ MissedAt({"scan", "enqueue", "parked"}, Current(a))
    /\ UNCHANGED <<made, listed, healthy, load, news, queueVars, pc, ctx, step, tries, failed,
                   reason, ticket, snap, seen, recon, obj, cont, attempts>>

BroadcastCapacity ==
    /\ news > 0
    /\ news' = news - 1
    /\ token' = token \cup {waiters[i].who : i \in DOMAIN waiters}
    /\ waiters' = <<>>
    /\ UNCHANGED <<made, listed, healthy, load, gate, events, next, pc, ctx, sessVars, recon,
                   obj, cont, attempts>>

(***************************************************************************)
(* The specification                                                       *)
(***************************************************************************)
Goroutine(r) ==
    \/ Start(r) \/ AcquireSem(r) \/ CheckDeadline(r) \/ Exhausted(r) \/ ListByModel(r)
    \/ Scan(r) \/ Claim(r) \/ WaitInLine(r) \/ Woken(r) \/ CtxDone(r) \/ PassOn(r)
    \/ Held(r) \/ StreamStarts(r) \/ DrainEnds(r) \/ ForwardEnds(r) \/ SlotSignal(r)
    \/ ProviderEnds(r)

AgentChange(a) == AgentDown(a) \/ AgentUp(a) \/ Register(a) \/ Unregister(a) \/ GateFlips(a)

AllDone == (\A r \in Req : pc[r] \in Final) /\ UNCHANGED vars

Next == \/ \E r \in Req : Goroutine(r) \/ DeadlinePasses(r) \/ ClientLeaves(r)
        \/ \E a \in Agent : AgentChange(a)
        \/ BroadcastCapacity
        \/ AllDone

Spec == Init /\ [][Next]_vars

(* While some goroutine can run, one does: the Go scheduler runs runnable   *)
(* goroutines, an agent's answer or the stream's read deadline ends every   *)
(* forward, and deadlines pass. A request takes finitely many steps, so     *)
(* nothing is needed of each goroutine on its own.                          *)
FairSpec ==
    Spec /\ WF_vars(BroadcastCapacity \/ \E r \in Req : Goroutine(r) \/ DeadlinePasses(r))

(***************************************************************************)
(* Properties                                                              *)
(***************************************************************************)
Labels == {"chan", "sem", "check", "list", "scan", "claim", "enqueue", "parked", "pass",
           "held", "forward", "stream", "signal", "provider", "ok", "err"}
Classes == {"unhealthy", "filter", "failed", "full", "gate", "ok"}

(* Type correctness: in particular no object ever holds more requests than *)
(* its declared capacity, nor fewer than none.                             *)
TypeOK ==
    /\ made \in [Agent -> 1..MaxGen] /\ listed \subseteq Agent
    /\ healthy \in [Obj -> BOOLEAN]
    /\ load \in [Obj -> Nat] /\ \A o \in Obj : load[o] <= Capacity[o[1]]
    /\ gate \subseteq Agent /\ news \in Nat /\ events \in Nat
    /\ waiters \in Seq([who : Req, ticket : Nat \ {0}]) /\ next \in Nat /\ token \subseteq Req
    /\ pc \in [Req -> Labels] /\ ctx \in [Req -> {"live", "gone", "expired"}]
    /\ step \in [Req -> 1..(Steps + 1)] /\ tries \in [Req -> Nat]
    /\ failed \in [Req -> SUBSET Agent]
    /\ reason \in [Req -> {"exhausted", "notfound", "noagents", "nocapacity"}]
    /\ ticket \in [Req -> 0..next]
    /\ snap \in [Req -> SUBSET Obj] /\ stale \in [Req -> SUBSET Obj]
    /\ \A r \in Req : /\ DOMAIN seen[r] \subseteq snap[r]
                      /\ \A o \in DOMAIN seen[r] : seen[r][o] \in Classes
    /\ recon \in [Req -> [Agent -> 0..MaxReconnects]]
    /\ obj \in [Req -> Obj \cup {NoObj}]
    /\ cont \in [Req -> {"none", "ok", "err", "retry", "charge", "drained"}]
    /\ attempts \in [Req -> Nat]

(* Slot ownership (processor.go: DecrementLoad is called exactly once per  *)
(* forward on all paths): an object's ActiveRequests is the number of      *)
(* requests that hold one of its slots, through retries, streams, lost     *)
(* races and re-registrations.                                             *)
SlotsExact == \A o \in Obj : load[o] = Cardinality(Holders(o))

(* The queue is in ticket order, and every parked request either stands in *)
(* it exactly once under its own ticket or has a value in its channel,     *)
(* never both and never neither.                                           *)
QueueOrder ==
    /\ \A i, j \in DOMAIN waiters : i < j => waiters[i].ticket < waiters[j].ticket
    /\ \A i \in DOMAIN waiters : waiters[i].ticket = ticket[waiters[i].who]
    /\ \A r \in Req : pc[r] = "parked" <=> (InLine(r) \/ r \in token)
    /\ \A r \in token : ~InLine(r)

(* Somebody is about to select an agent, or to wake one that will.         *)
Stirring == \/ news > 0
            \/ token # {}
            \/ \E r \in Req : pc[r] \in {"list", "scan", "claim", "enqueue", "pass", "held", "signal"}

(* A waiting request could use a free slot of o.                           *)
Usable(r, o) == InLine(r) /\ o \in Listed /\ Class(r, o) = "ok"

(* While a usable slot is free and a request waits for it, somebody is     *)
(* awake to take it (executor.go: the goroutine wakes when a slot is freed *)
(* or new capacity joins).                                                 *)
FreeSlotWakes == \A r \in Req, o \in Obj : Usable(r, o) => Stirring

(* The same for a model with one agent, apart from three cases: slots      *)
(* freed between a request's scan and its parking, gates that open, which  *)
(* signal nobody, and signals that went to a request whose own step has    *)
(* the gate closed. A slot freed while the request was in line wakes       *)
(* somebody, and no signal is lost to a request whose deadline passed.     *)
(* (With several agents the woken request may take another slot than the   *)
(* one that was freed.)                                                    *)
FreedInLineWakes ==
    \A r \in Req, o \in Obj : Usable(r, o) => Stirring \/ o \in stale[r]

(* A request only waits when waiting can help (buildCandidates: a stale    *)
(* reason must not send the request back to the queue until its deadline): *)
(* its scan saw an agent of its step that was full or behind a gate.       *)
WaitCanHelp == \A r \in Req : pc[r] \in {"enqueue", "parked"} =>
    \E o \in DOMAIN seen[r] : seen[r][o] \in {"full", "gate"}

(* Within a step a request never holds a slot of an agent that it has      *)
(* charged with a failure (Session.RecordFailure, buildCandidates), under  *)
(* whichever registration the agent comes back.                            *)
NotAgain == \A r \in Req :
    pc[r] \in {"held", "forward", "stream"} => obj[r][1] \notin failed[r]

(* The failures that the first i steps allow.                              *)
TriesUpTo[i \in 0..Steps] == IF i = 0 THEN 0 ELSE TriesUpTo[i - 1] + MaxTries[i]

(* A request is forwarded at most once per try of each step, plus the free *)
(* reconnects, and not again within a step to an agent charged with a      *)
(* failure: unreachable agents cannot make a dispatch loop for ever.       *)
AttemptsBounded ==
    /\ \A r \in Req :
         attempts[r] <= TriesUpTo[Steps] + MaxReconnects * Cardinality(Agent)
    /\ NotAgain

(* Every request is answered, with a response or an error, and every slot  *)
(* comes back (dispatchWithPolicy, slotRelease).                           *)
SlotsReturn == <>[]((\A r \in Req : pc[r] \in Final) /\ \A o \in Obj : load[o] = 0)

(* The agent never serves more requests at once than the capacity it       *)
(* declares (cmd/agent: -capacity, maximum concurrent requests).           *)
AgentCapacity == \A a \in Agent :
    Cardinality({r \in Req : pc[r] \in {"forward", "stream"} /\ obj[r][1] = a}) <= Capacity[a]
=============================================================================
