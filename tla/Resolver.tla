------------------------------ MODULE Resolver ------------------------------
(***************************************************************************)
(* Alias resolution: AliasMiddleware and resolveAlias, semantic.Resolver   *)
(* and the pin store they share, for requests that run side by side while  *)
(* agents fail and recover and the policies are reloaded. A request holds  *)
(* on to the configuration it loaded first; it reads whether a candidate   *)
(* is an alias or has a healthy agent as it goes, each candidate once.     *)
(*                                                                         *)
(* A step of a request ends before its next access to shared state. The    *)
(* clock an operation of the store reads before it locks belongs to the    *)
(* step before. Scores and weights are in percent: validateAlias requires  *)
(* the weights of a route to sum to 1.                                     *)
(***************************************************************************)
EXTENDS RequestView, PinStore

CONSTANTS
    Caller,       \* requests in flight at once
    MaxRequests,  \* bound of the requests in all
    Cases,        \* the requests clients send, a sequence of records
                  \* [conversation, owner, header, body, bad, count, allowed]
    Configs,      \* the configurations, a sequence; the first is the initial one
    Model,
    perMessageOverhead,
    MaxTime,      \* bound of the clock
    MaxChanges    \* bound of the outages, recoveries, reloads and lapses of time

ASSUME ResolverAssumption ==
    /\ MaxRequests \in Nat /\ MaxTime \in Nat /\ MaxChanges \in Nat
    /\ \A i \in DOMAIN Cases : Cases[i].owner \in Owner /\ Cases[i].allowed \subseteq Model

VARIABLES
    config,   \* the configuration in force (Executor.state), an index of Configs
    healthy,  \* models with a healthy agent
    now,
    req,      \* [Caller -> the request it serves]
    left      \* what remains of the bounds: [requests, changes]

vars == <<m, lru, owners, config, healthy, now, req, left>>

NoEntry == [model |-> "none", route |-> "none"]
Idle == [pc |-> "idle"]
NoPlan == [task |-> "none"]

(* seen and stuck: the task's pin and the conversation's affinity entry as *)
(* the store returned them. memo: why each candidate was rejected, "" for  *)
(* an eligible one.                                                        *)
NewRequest(i) ==
    [pc |-> "alias", case |-> i, cfg |-> 0, t |-> 0, plan |-> NoPlan, memo |-> [x \in {} |-> ""],
     seen |-> NoEntry, stuck |-> NoEntry, model |-> "none", route |-> "none", source |-> "none"]

Init ==
    /\ PinInit
    /\ config = 1 /\ healthy = Model /\ now = 0
    /\ req = [p \in Caller |-> Idle]
    /\ left = [requests |-> MaxRequests, changes |-> MaxChanges]

-----------------------------------------------------------------------------
(* What a request computes from its body and the configuration it loaded,  *)
(* without a look at shared state.                                         *)

EstimateTokens(v) ==
    IF v.estimatorBytes > perMessageOverhead * Len(v.messages)
    THEN v.estimatorBytes ELSE perMessageOverhead * Len(v.messages)

requirementsOf(f) ==
    {x \in {"no_tool_calling", "no_vision", "no_structured_output", "no_reasoning"} :
        CASE x = "no_tool_calling" -> \/ f.has_tools > 0 \/ f.tool_result_turns > 0
                                      \/ f.assistant_tool_call_turns > 0
          [] x = "no_vision" -> f.image_count > 0
          [] x = "no_structured_output" -> f.needs_structured_output > 0
          [] x = "no_reasoning" -> f.needs_reasoning > 0}

(* A signal is [keywords, feature, gte, lte, weight], with the bounds of a *)
(* feature declared without any being those of "greater than zero".        *)
matchSignal(s, f) ==
    IF s.keywords # {} THEN s.keywords \cap f.window # {}
    ELSE f[s.feature] >= s.gte /\ f[s.feature] <= s.lte

scoreRoutes(g, f) ==
    [r \in DOMAIN g.routes |->
        Total(g.routes[r].signals, LAMBDA s : IF matchSignal(s, f) THEN s.weight ELSE 0)]

routeIndex(g, name) == {r \in DOMAIN g.routes : g.routes[r].name = name}
indexOf(g, name) == CHOOSE r \in routeIndex(g, name) : TRUE
anyPinned(g) == \E r \in DOMAIN g.routes : g.routes[r].pinTask

(* The best route that reaches its own minimum, if any: 0 for none.        *)
argmax(g, scores) ==
    LET able == {r \in DOMAIN g.routes : scores[r] >= g.routes[r].minScore} IN
    IF able = {} THEN 0
    ELSE CHOOSE r \in able : \A x \in able :
            scores[x] < scores[r] \/ (scores[x] = scores[r] /\ x >= r)

FirstRoute(g, scores, countOnly) ==
    LET best == argmax(g, scores) IN
    IF ~countOnly /\ best # 0 /\ scores[best] > 0 /\ scores[best] >= g.abstainBelow
    THEN [index |-> best, source |-> "scored"]
    ELSE [index |-> indexOf(g, g.defaultRoute),
          source |-> IF countOnly THEN "count_tokens" ELSE "default"]

(* Plausible bug: the route chosen first, then only the default route.     *)
FirstThenDefault(g, first, scores) ==
    LET def == indexOf(g, g.defaultRoute) IN
    IF def = first THEN <<first>> ELSE <<first, def>>

routeOrder(g, first, scores) ==
    LET def == indexOf(g, g.defaultRoute)
        better(a, b) == scores[a] > scores[b] \/ (scores[a] = scores[b] /\ a < b)
    IN  (IF def = first THEN <<first>> ELSE <<first, def>>)
        \o SetToSortSeq(DOMAIN g.routes \ {first, def}, better)

(* A route's candidates in the order it prefers them, unknown sizes last.  *)
Preferred(g, r) ==
    LET cands == g.routes[r].candidates
        size(i) == g.profiles[cands[i]].size
        prefer == g.routes[r].prefer
        known(i, j) == size(i) # 0 /\ size(j) # 0
        precedes(i, j) == \/ prefer # "order" /\ size(i) # 0 /\ size(j) = 0
                          \/ prefer = "smallest" /\ known(i, j) /\ size(i) < size(j)
                          \/ prefer = "largest" /\ known(i, j) /\ size(i) > size(j)
        before(i, j) == precedes(i, j) \/ (~precedes(j, i) /\ i < j)
        order == SetToSortSeq(DOMAIN cands, before)
    IN  [i \in DOMAIN order |-> cands[order[i]]]

(* The candidates in the order the routes are tried, with their routes.    *)
TryOrder(g, first, scores) ==
    LET order == routeOrder(g, first, scores)
        Of(r) == LET c == Preferred(g, r)
                 IN  [n \in DOMAIN c |-> [model |-> c[n], route |-> g.routes[r].name]]
    IN  FlattenSeq([n \in DOMAIN order |-> Of(order[n])])

routeHasCandidate(g, route, model) ==
    \E r \in routeIndex(g, route) : Contains(g.routes[r].candidates, model)

pinStale(g, route, model) ==
    \/ ~routeHasCandidate(g, route, model)
    \/ ~g.routes[indexOf(g, route)].pinTask

(* Plausible bugs: the health of a model is looked at before its place on  *)
(* the key's allowlist; an outage drops the entry.                         *)
HealthFirst(model, g, allowed, plan) ==
    IF model \in Configs[config].aliases THEN "is_alias"
    ELSE IF model \notin healthy THEN "no_healthy_agent"
    ELSE IF model \notin allowed THEN "not_allowed"
    ELSE IF plan.needs \cap g.profiles[model].lacks # {} THEN "no_vision"
    ELSE ""
KeepsCapabilityOnly(reason) ==
    reason \in {"no_tool_calling", "no_vision", "no_structured_output", "no_reasoning"}

(* Why the model cannot serve the request, "" when it can, from the        *)
(* configuration in force (IsAlias), the agents, and the loaded            *)
(* configuration g (profiles). Only candidates have an estimate.           *)
checkEligible(model, g, allowed, plan) ==
    LET lacks == plan.needs \cap g.profiles[model].lacks
        window == g.profiles[model].contextWindow
    IN  IF model \in Configs[config].aliases THEN "is_alias"
        ELSE IF model \notin allowed THEN "not_allowed"
        ELSE IF lacks # {} THEN CHOOSE x \in lacks : TRUE
        ELSE IF window > 0 /\ plan.tokens > (window * g.contextBuffer) \div 100
             THEN "context_window"
        ELSE IF model \notin healthy THEN "no_healthy_agent"
        ELSE ""

keepsEntry(reason) == \/ reason = "no_healthy_agent"
                      \/ reason \in {"no_tool_calling", "no_vision",
                                     "no_structured_output", "no_reasoning"}

(* The answer to a request that no candidate can serve.                    *)
Classify(filtered) ==
    LET reasons == {filtered[x] : x \in DOMAIN filtered} \ {"pinned_but"}
        allowed == reasons \ {"not_allowed"}
        unable == {"no_tool_calling", "no_vision", "no_structured_output", "no_reasoning"}
    IN  CASE allowed = {} /\ reasons # {} -> "forbidden"
          [] allowed = {"context_window"} -> "too_long"
          [] /\ allowed \notin {{}, {"context_window"}}
             /\ allowed \subseteq unable \cup {"context_window"} -> "unsupported"
          [] OTHER -> "unavailable"

Planned(scores, first, v, f, c, g) ==
    [task |-> TaskKey(c.header, c.owner, v), needs |-> requirementsOf(f),
     tokens |-> EstimateTokens(v) + v.maxOutputTokens, first |-> first, scores |-> scores,
     tries |-> TryOrder(g, first.index, scores)]
Scored(v, f, c, g) ==
    LET scores == scoreRoutes(g, f) IN
    Planned(scores, FirstRoute(g, scores, c.count), v, f, c, g)

(* The local values of Resolve for a request c under configuration g.      *)
Plan(c, g) ==
    LET v == ParseView(c.body, g.stripMarkers) IN Scored(v, Extract(v, g.recentTurns), c, g)

-----------------------------------------------------------------------------
(* The same for a request in flight.                                       *)

Case(p) == Cases[req[p].case]
Loaded(p) == Configs[req[p].cfg]
TaskOf(p) == req[p].plan.task
pinnable(p) == ~Case(p).count /\ anyPinned(Loaded(p))
affinity(p) == ~Case(p).count /\ Loaded(p).affinityTTL > 0

Remember(p, model) ==
    IF model \in DOMAIN req[p].memo THEN req[p].memo
    ELSE [x \in DOMAIN req[p].memo \cup {model} |->
             IF x = model THEN checkEligible(model, Loaded(p), Case(p).allowed, req[p].plan)
             ELSE req[p].memo[x]]

keepEntry(p) ==
    LET e == req[p].seen IN
    /\ e # NoEntry /\ ~pinStale(Loaded(p), e.route, e.model)
    /\ keepsEntry(req[p].memo[e.model])

(* The route chosen now is better than the conversation's by the margin.   *)
BetterRoute(p, e) ==
    LET g == Loaded(p)
        plan == req[p].plan
    IN  /\ g.routes[plan.first.index].name # e.route
        /\ plan.scores[plan.first.index] >= plan.scores[indexOf(g, e.route)] + g.affinityMargin

keepSticky(p) ==
    LET e == req[p].stuck IN
    /\ e # NoEntry /\ routeHasCandidate(Loaded(p), e.route, e.model) /\ ~BetterRoute(p, e)
    /\ keepsEntry(req[p].memo[e.model])

FilteredOut(p) ==
    LET cands == {x.model : x \in ToSet(req[p].plan.tries)}
        pinned == IF req[p].seen = NoEntry THEN {} ELSE {req[p].seen.model}
    IN  [x \in (cands \cap DOMAIN req[p].memo) \cup pinned |->
            IF x \in cands THEN req[p].memo[x] ELSE "pinned_but"]

Set(p, r) == req' = [req EXCEPT ![p] = r]

(* What follows the task pin: the affinity entry if the alias keeps        *)
(* conversations, else the candidates.                                     *)
AfterPin(p) == IF affinity(p) THEN "getSticky" ELSE "try"

-----------------------------------------------------------------------------
(* The steps of a request.                                                 *)

(* AliasMiddleware: the model named is an alias at this moment.            *)
Arrive(p) ==
    /\ req[p] = Idle /\ left.requests > 0 /\ Configs[config].exists
    /\ \E i \in DOMAIN Cases : Set(p, NewRequest(i))
    /\ left' = [left EXCEPT !.requests = @ - 1]
    /\ UNCHANGED <<m, lru, owners, config, healthy, now>>

(* resolveAlias loads the configuration: an alias removed meanwhile is a   *)
(* plain model name, a task header too long or a malformed body a 400.     *)
Load(p) ==
    /\ req[p].pc = "alias"
    /\ LET g == Configs[config]
           r == [req[p] EXCEPT !.cfg = config, !.t = now]
       IN  IF ~g.exists \/ Case(p).bad
           THEN Set(p, [r EXCEPT !.pc = "answered",
                                 !.source = IF g.exists THEN "invalid" ELSE "plain"])
           ELSE Set(p, [r EXCEPT !.plan = Plan(Case(p), g), !.pc =
                           IF ~Case(p).count /\ anyPinned(g) THEN "getPin"
                           ELSE IF ~Case(p).count /\ g.affinityTTL > 0 THEN "getSticky"
                           ELSE "try"])
    /\ UNCHANGED <<m, lru, owners, config, healthy, now, left>>

GetPin(p) ==
    LET k == TaskOf(p)
        hit == Hit(k, req[p].t)
    IN  /\ req[p].pc = "getPin"
        /\ Get(k, req[p].t)
        /\ Set(p, IF hit THEN [req[p] EXCEPT !.pc = "checkPin",
                                  !.seen = [model |-> m[k].model, route |-> m[k].route]]
                  ELSE [req[p] EXCEPT !.pc = AfterPin(p), !.t = now])
        /\ UNCHANGED <<config, healthy, now, left>>

CheckPin(p) ==
    LET e == req[p].seen
        stale == pinStale(Loaded(p), e.route, e.model)
        memo == IF stale THEN req[p].memo ELSE Remember(p, e.model)
    IN  /\ req[p].pc = "checkPin"
        /\ Set(p, IF ~stale /\ memo[e.model] = ""
                  THEN [req[p] EXCEPT !.pc = "answered", !.memo = memo, !.source = "pinned",
                                      !.model = e.model, !.route = e.route]
                  ELSE IF ~stale /\ keepsEntry(memo[e.model])
                  THEN [req[p] EXCEPT !.pc = AfterPin(p), !.memo = memo, !.t = now]
                  ELSE [req[p] EXCEPT !.pc = "dropPin", !.memo = memo])
        /\ UNCHANGED <<m, lru, owners, config, healthy, now, left>>

DropPin(p) ==
    /\ req[p].pc = "dropPin"
    /\ Delete(TaskOf(p))
    /\ Set(p, [req[p] EXCEPT !.pc = AfterPin(p), !.t = now])
    /\ UNCHANGED <<config, healthy, now, left>>

(* stickyChoice up to the look at the entry.                               *)
GetSticky(p) ==
    LET k == affinityKey(TaskOf(p))
        e == [model |-> m[k].model, route |-> m[k].route]
    IN  /\ req[p].pc = "getSticky"
        /\ Get(k, req[p].t)
        /\ Set(p, IF ~Hit(k, req[p].t) THEN [req[p] EXCEPT !.pc = "try"]
                  ELSE [req[p] EXCEPT !.stuck = e,
                           !.pc = IF ~routeHasCandidate(Loaded(p), e.route, e.model)
                                  THEN "dropSticky"
                                  ELSE IF BetterRoute(p, e) THEN "try" ELSE "checkSticky"])
        /\ UNCHANGED <<config, healthy, now, left>>

CheckSticky(p) ==
    LET e == req[p].stuck
        memo == Remember(p, e.model)
        reason == memo[e.model]
    IN  /\ req[p].pc = "checkSticky"
        /\ Set(p, IF reason = ""
                  THEN [req[p] EXCEPT !.pc = "answered", !.memo = memo, !.source = "affinity",
                                      !.model = e.model, !.route = e.route]
                  ELSE [req[p] EXCEPT !.memo = memo,
                                      !.pc = IF keepsEntry(reason) THEN "try" ELSE "dropSticky"])
        /\ UNCHANGED <<m, lru, owners, config, healthy, now, left>>

DropSticky(p) ==
    /\ req[p].pc = "dropSticky"
    /\ Delete(affinityKey(TaskOf(p)))
    /\ Set(p, [req[p] EXCEPT !.pc = "try"])
    /\ UNCHANGED <<config, healthy, now, left>>

(* The entry the chosen candidate is stored under.                         *)
StoreKey(p, route) ==
    IF keepEntry(p) THEN {}
    ELSE IF pinnable(p) /\ Loaded(p).routes[indexOf(Loaded(p), route)].pinTask THEN {TaskOf(p)}
    ELSE IF affinity(p) /\ ~keepSticky(p) THEN {affinityKey(TaskOf(p))}
    ELSE {}

(* One candidate: the first not yet rejected. With none left the request   *)
(* fails with the status of Classify.                                      *)
Rejected(p, model) == model \in DOMAIN req[p].memo /\ req[p].memo[model] # ""

TryNext(p, x) ==
    LET memo == Remember(p, x.model)
        first == req[p].plan.first
    IN  IF memo[x.model] # "" THEN [req[p] EXCEPT !.memo = memo]
        ELSE [req[p] EXCEPT !.memo = memo, !.t = now, !.model = x.model, !.route = x.route,
                 !.source = IF x.route = Loaded(p).routes[first.index].name
                            THEN first.source ELSE "fallback",
                 !.pc = IF StoreKey(p, x.route) = {} THEN "answered" ELSE "put"]

Try(p) ==
    LET rest == SelectSeq(req[p].plan.tries, LAMBDA x : ~Rejected(p, x.model)) IN
    /\ req[p].pc = "try"
    /\ Set(p, IF rest = << >>
              THEN [req[p] EXCEPT !.pc = "answered", !.source = Classify(FilteredOut(p))]
              ELSE TryNext(p, rest[1]))
    /\ UNCHANGED <<m, lru, owners, config, healthy, now, left>>

PutChoice(p) ==
    LET g == Loaded(p)
        ttl(k) == IF k.kind = "task" THEN g.routes[indexOf(g, req[p].route)].pinTTL
                  ELSE g.affinityTTL
    IN  /\ req[p].pc = "put"
        /\ \E k \in StoreKey(p, req[p].route) :
              Put(k, req[p].model, req[p].route, ttl(k), g.pinMaxAge, req[p].t)
        /\ Set(p, [req[p] EXCEPT !.pc = "answered"])
        /\ UNCHANGED <<config, healthy, now, left>>

(* The chain goes on with the model patched into the body, or an error is  *)
(* written.                                                                *)
Leave(p) ==
    /\ req[p].pc = "answered"
    /\ Set(p, Idle)
    /\ UNCHANGED <<m, lru, owners, config, healthy, now, left>>

-----------------------------------------------------------------------------
(* The surroundings.                                                       *)

Health ==
    /\ left.changes > 0
    /\ left' = [left EXCEPT !.changes = @ - 1]
    /\ \E x \in Model : healthy' = (healthy \ {x}) \cup ({x} \ healthy)
    /\ UNCHANGED <<m, lru, owners, config, now, req>>

Reload ==
    /\ left.changes > 0
    /\ left' = [left EXCEPT !.changes = @ - 1]
    /\ \E g \in DOMAIN Configs \ {config} : config' = g
    /\ UNCHANGED <<m, lru, owners, healthy, now, req>>

Pass ==
    /\ left.changes > 0
    /\ left' = [left EXCEPT !.changes = @ - 1]
    /\ \E t \in now + 1..MaxTime : now' = t
    /\ UNCHANGED <<m, lru, owners, config, healthy, req>>

Step(p) ==
    \/ Arrive(p) \/ Load(p) \/ GetPin(p) \/ CheckPin(p) \/ DropPin(p) \/ GetSticky(p)
    \/ CheckSticky(p) \/ DropSticky(p) \/ Try(p) \/ PutChoice(p) \/ Leave(p)

Next == (\E p \in Caller : Step(p)) \/ Health \/ Reload \/ Pass

Spec == Init /\ [][Next]_vars

-----------------------------------------------------------------------------
(* Properties.                                                             *)

Keyed(p) == req[p].pc \notin {"idle", "alias"} /\ req[p].source \notin {"plain", "invalid"}
CandidatesOf(p) ==
    UNION {ToSet(Loaded(p).routes[r].candidates) : r \in DOMAIN Loaded(p).routes}

(* Candidates the key may use that have what the request needs and room    *)
(* for it: only an outage keeps it from them.                              *)
Able(p) ==
    {c \in CandidatesOf(p) \cap Case(p).allowed :
        LET profile == Loaded(p).profiles[c] IN
        /\ req[p].plan.needs \cap profile.lacks = {}
        /\ \/ profile.contextWindow = 0
           \/ req[p].plan.tokens * 100 <= profile.contextWindow * Loaded(p).contextBuffer}

Failed(p) == req[p].source \in {"forbidden", "too_long", "unsupported", "unavailable"}

(* A request resolves whenever one of the alias's candidates is usable     *)
(* (routeOrder): it fails only after it looked at every candidate of every *)
(* route and found it unable, and a candidate that is able to serve it was *)
(* down, or had become an alias, when it looked. When it resolves, it is   *)
(* to a candidate of the loaded configuration that is able to serve it,    *)
(* also when a pin made under an older configuration named the model.      *)
UsableFound ==
    \A p \in Caller : req[p].pc = "answered" /\ Keyed(p) =>
        IF Failed(p)
        THEN /\ \A c \in CandidatesOf(p) : c \in DOMAIN req[p].memo /\ req[p].memo[c] # ""
             /\ \A c \in Able(p) : req[p].memo[c] \in {"no_healthy_agent", "is_alias"}
        ELSE /\ routeHasCandidate(Loaded(p), req[p].route, req[p].model)
             /\ req[p].model \in Able(p)

(* The status of a failure tells the client what to do (failureResponse):  *)
(* a 503 only when waiting can help, because a candidate able to serve the *)
(* request was down or the configuration is at fault; a 403 only when the  *)
(* key may use no candidate; a 400 only when no candidate that the key may *)
(* use could ever serve the request, whatever agents are up.               *)
FailureTold ==
    \A p \in Caller : req[p].pc = "answered" =>
        /\ req[p].source = "unavailable" =>
              Able(p) # {} \/ \E c \in CandidatesOf(p) : req[p].memo[c] = "is_alias"
        /\ req[p].source = "forbidden" => CandidatesOf(p) \cap Case(p).allowed = {}
        /\ req[p].source \in {"too_long", "unsupported"} =>
              Able(p) = {} /\ CandidatesOf(p) \cap Case(p).allowed # {}

(* The requests of one conversation have one task key, whatever the agent  *)
(* harness injects into their messages, and two conversations of a key     *)
(* have two (TaskKey: "Agent harnesses keep the fingerprint inputs stable  *)
(* for a whole task").                                                     *)
OneTask ==
    \A p, q \in Caller : Keyed(p) /\ Keyed(q) /\ req[p].cfg = req[q].cfg =>
        (TaskOf(p) = TaskOf(q)) <=> (Case(p).conversation = Case(q).conversation)

(* The key of the entry a request is about to drop or store.               *)
Touches(p) ==
    CASE req[p].pc = "dropPin" -> {TaskOf(p)}
      [] req[p].pc = "dropSticky" -> {affinityKey(TaskOf(p))}
      [] req[p].pc = "put" -> StoreKey(p, req[p].route)
      [] OTHER -> {}

(* What entitles a request to drop or replace the entry of k: it found     *)
(* none, or one that left the configuration it loaded, or (affinity) its   *)
(* chosen route is better by the margin, or the entry's model can serve no *)
(* later turn either.                                                      *)
Entitled(p, k) ==
    LET e == IF k.kind = "task" THEN req[p].seen ELSE req[p].stuck
        g == Loaded(p)
    IN  \/ e = NoEntry
        \/ ~routeHasCandidate(g, e.route, e.model)
        \/ k.kind = "task" /\ ~g.routes[indexOf(g, e.route)].pinTask
        \/ k.kind = "affinity" /\ BetterRoute(p, e)
        \/ req[p].memo[e.model] \in {"is_alias", "not_allowed", "context_window"}

(* A task keeps its model through an outage and through a turn the model   *)
(* lacks a capability for: a live pin or affinity entry is dropped or      *)
(* changed only by a request of the same task that is entitled to, or to   *)
(* make room. So the task returns to its model on the next turn it fits.   *)
EntryKept ==
    [][\A k \in DOMAIN m : ~expired(m[k], now) /\ (k \in DOMAIN m' => m'[k].model # m[k].model) =>
          \E p \in Caller : /\ req'[p] # req[p] /\ Touches(p) # {}
                            /\ k \in Touches(p) => Entitled(p, k)]_vars

(* A pin that is still alive gives way to another key's pin only when the  *)
(* shard is full, or its own owner is at the cap, and it is the least      *)
(* recently used live pin of that list. So a busy API key does not push    *)
(* out the pins of others while there is room.                             *)
EvictsLRU ==
    [][\A p \in Caller : \A k \in DOMAIN m \ DOMAIN m' :
          req[p].pc = "put" /\ req'[p].pc = "answered" /\ ~expired(m[k], now) =>
             \/ Cardinality(DOMAIN m) = perShard /\ LastLive(lru, k, now)
             \/ /\ \E x \in Touches(p) : x.owner = k.owner
                /\ Cardinality(PinsOf(k.owner)) = perOwnerCap
                /\ LastLive(owners[k.owner], k, now)]_vars
=============================================================================
