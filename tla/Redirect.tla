------------------------------ MODULE Redirect ------------------------------
(***************************************************************************)
(* Cross-site redirects (internal/redirect, internal/api/redirect.go): one *)
(* client request and the routers of several policlouds.  A router without *)
(* a healthy agent for the model answers 307 with a signed token; the      *)
(* client repeats the request at the sibling, which runs the same chain of *)
(* middleware: authentication by the token, the body limit, RedirectTarget,*)
(* the alias, RedirectDecision, and last the quota and the handler.        *)
(*                                                                         *)
(* An attempt is one HTTP request of the client.  The goroutines of two    *)
(* attempts, the pushes of the map, the agents that come and go and the    *)
(* clocks interleave between the stages of the chain.  A hash of a body is *)
(* the body; a body is its text and the model it names.  The path is the   *)
(* same on every hop, so the token's path always matches.                  *)
(***************************************************************************)
EXTENDS Integers, Sequences, FiniteSets

CONSTANTS
    Sites,       \* the policlouds, one router each
    Models,      \* the concrete models
    Alias,       \* the virtual model name
    Aliased,     \* the sites whose policy defines the alias
    Allowed,     \* the models the client's key may use
    Country,     \* Country[s]: where a site is
    EU,          \* the sites in the EU
    Home,        \* Home[s]: score(keyID, model, s), the rank in the home set
    BySession,   \* BySession[s]: score(session, model, s)
    Docs,        \* the sibling maps that are pushed
    Requests,    \* the requests a client may send
    Serving,     \* the sites that may have healthy agents at first, or None
    MaxHops,     \* redirect.MaxHops
    HomeSize,    \* redirect.homeSize
    SlowBody,    \* TRUE: an upload may outlast the token's last seconds
    Faults       \* how many faults, map pushes and health changes happen

VARIABLES
    attempts,    \* the client's HTTP requests, in the order it sent them
    waits,       \* the attempt whose answer the client waits for
    tokens,      \* the claims of every token signed; the index is its jti
    verdict,     \* verdict[t]: what Signer.Verify of token t says at its site
    sibling,     \* sibling[s]: the sibling map of s
    fresh,       \* fresh[s]: its hints have not expired
    healthy,     \* healthy[s]: the models with a healthy agent at s
    known,       \* the sites whose key registry holds the client's key
    seen,        \* seen[s]: the token IDs in the ReplayGuard of s
    accepted,    \* accepted[s]: the accepted uses, since s started (history)
    refusals,    \* tokens refused to a request that was then served (history)
    faults       \* what is left of Faults

vars == <<attempts, waits, tokens, verdict, sibling, fresh, healthy, known,
          seen, accepted, refusals, faults>>

None == 0
NoBody == [text |-> "none", model |-> Alias]

\* MapDoc before the first push: version 0 and no policlouds.
NoDoc == [version |-> 0, sites |-> {}, places |-> {}, wakes |-> {},
          cold |-> {}, full |-> {}]

\* validatePlacement: a model is placed only at policlouds of the same map, and
\* a hint or scale_from_zero belongs to a placement.
ValidDoc(doc) ==
    /\ doc.places \subseteq Models \X doc.sites
    /\ doc.wakes \cup doc.cold \cup doc.full \subseteq doc.places

Countries == {Country[s] : s \in Sites}

Headers == {r.hdr : r \in Requests}

ASSUME RedirectAssumption ==
    /\ None \notin Sites /\ Alias \notin Models /\ Allowed \subseteq Models
    /\ "nowhere" \notin Countries /\ SlowBody \in BOOLEAN /\ Faults \in Nat
    /\ \A r \in Requests : /\ r.site \in Sites /\ r.model \in Models \cup {Alias}
                           /\ r.big \in BOOLEAN /\ r.keeps \in BOOLEAN /\ r.followed = 0
    \* Scores are numbers: any sites have a best one.
    /\ \A S \in SUBSET Sites : S # {} =>
          \E s \in S : \A r \in S : BySession[s] >= BySession[r]

\* Scope.Contains: an unknown scope contains nothing.
Contains(scope, s) ==
    \/ scope = "all"
    \/ scope = "EU" /\ s \in EU
    \/ scope \in Countries /\ Country[s] = scope

\* What RequestIDMiddleware gives every request before anything else: its own
\* ID, and no redirect.  The model is the one peekModel reads in the body.
Arrives(i, site, request, token, auth, body) ==
    [site |-> site, stage |-> "auth", tok |-> token, auth |-> auth,
     body |-> body, hdr |-> request.hdr, big |-> request.big,
     rid |-> i, info |-> FALSE, cached |-> body, client |-> NoBody,
     model |-> body.model, answer |-> "none", next |-> None,
     root |-> i, keeps |-> request.keeps, followed |-> request.followed]

Init ==
    /\ \E r \in Requests :
          attempts = <<Arrives(1, r.site, r, None, TRUE,
                               [text |-> "sent", model |-> r.model])>>
    /\ waits = 1
    /\ tokens = <<>>
    /\ verdict = <<>>
    /\ \E doc \in {d \in Docs : ValidDoc(d)} : sibling = [s \in Sites |-> doc]
    /\ fresh = [s \in Sites |-> TRUE]
    /\ \E s \in Serving : healthy = [r \in Sites |-> IF r = s THEN Models ELSE {}]
    /\ known = Sites
    /\ seen = [s \in Sites |-> {}]
    /\ accepted = [s \in Sites |-> <<>>]
    /\ refusals = 0
    /\ faults = Faults

a(i) == attempts[i]
At(i, stage) == a(i).stage = stage

\* A middleware calls the next one, or answers the request.
Passed(at, stage) == [at EXCEPT !.stage = stage]
Answered(at, answer) == [at EXCEPT !.stage = "done", !.answer = answer]

world == <<sibling, fresh, healthy, known, faults>>
signed == <<tokens, verdict>>

(***************************************************************************)
(* Authentication (tokenAuth.Authenticate inside AuthMiddleware).          *)
(***************************************************************************)

\* tokenAuth.inScope: everything but "all" needs this site in the map.
inScope(s, scope) ==
    \/ scope = "all"
    \/ s \in sibling[s].sites /\ Contains(scope, s)

\* tokenAuth.check: signature, expiry, issue time, site and scope.
check(s, t) ==
    /\ verdict[t] = "valid"
    /\ tokens[t].site = s
    /\ inScope(s, tokens[t].scope)

MutantOnKey(i) ==
    IF a(i).auth /\ a(i).site \in known
    THEN Passed(a(i), "target")
    ELSE a(i)

\* A request without a token, or whose token is refused, is authenticated by
\* its Authorization header: a fresh request, or a 401.
onKey(i) ==
    IF a(i).auth /\ a(i).site \in known
    THEN Passed(a(i), "target")
    ELSE Answered(a(i), "unauthorized")

\* The request runs on its token's claims.
Verified(at) == [at EXCEPT !.stage = "target", !.info = TRUE]

\* resolveKey: the key of the header, or the key the token names.  A header
\* that does not authenticate is the answer; an unknown key ID refuses the
\* token.  Both are a 401 here, for the client has one key.
tokenAuth(i) ==
    IF check(a(i).site, a(i).tok) /\ a(i).site \in known
    THEN Verified(a(i))
    ELSE onKey(i)

Authenticate(i) ==
    /\ At(i, "auth")
    /\ LET at == IF a(i).tok = None THEN onKey(i) ELSE tokenAuth(i)
       IN  /\ attempts' = [attempts EXCEPT ![i] = at]
           /\ refusals' = refusals +
                IF a(i).tok # None /\ ~at.info /\ at.stage = "target" THEN 1 ELSE 0
    /\ UNCHANGED <<waits, signed, world, seen, accepted>>

(***************************************************************************)
(* BodyLimitMiddleware and RedirectTarget.                                 *)
(***************************************************************************)

\* replaceTopLevelModel: every other byte of the body is kept.
replaceTopLevelModel(body, model) == [body EXCEPT !.model = model]

\* The accepted request adopts the token's request ID and model; the bytes
\* the client sent are kept beside the rewritten ones.
Adopt(at, c) ==
    [at EXCEPT !.stage = "alias", !.rid = c.rid, !.root = c.root,
               !.client = at.body, !.model = c.model,
               !.cached = replaceTopLevelModel(at.body, c.model)]

MutantFirst(s, t) == t \notin seen[s] \/ verdict[t] = "valid"

\* ReplayGuard.First: an entry counts until its token can no longer verify.
\* The sweep drops the others.
First(s, t) == ~ (t \in seen[s] /\ verdict[t] # "late")
Recorded(s, t) == {k \in seen[s] : verdict[k] # "late"} \cup {t}

\* A token refused for its body or its second use: with a key it becomes a
\* fresh request, without one it is a 401.
Afresh(at) == [at EXCEPT !.stage = "alias", !.info = FALSE]
Refuse(at) == IF at.auth THEN Afresh(at) ELSE Answered(at, "unauthorized")

RedirectTarget(i) ==
    /\ At(i, "target")
    /\ LET s == a(i).site
           t == a(i).tok
           passes == ~a(i).big /\ a(i).info /\ tokens[t].body = a(i).body
           at == CASE a(i).big -> Answered(a(i), "too_large")
                   [] ~a(i).big /\ ~a(i).info -> Passed(a(i), "alias")
                   [] passes /\ First(s, t) -> Adopt(a(i), tokens[t])
                   [] OTHER -> Refuse(a(i))
       IN  /\ attempts' = [attempts EXCEPT ![i] = at]
           /\ seen' = IF passes THEN [seen EXCEPT ![s] = Recorded(s, t)] ELSE seen
           /\ accepted' = IF at.client # NoBody
                          THEN [accepted EXCEPT ![s] = Append(@, t)]
                          ELSE accepted
           /\ refusals' = refusals +
                IF a(i).info /\ ~at.info /\ at.stage = "alias" THEN 1 ELSE 0
    /\ UNCHANGED <<waits, signed, world>>

(***************************************************************************)
(* AliasMiddleware.                                                        *)
(***************************************************************************)

Resolved(at, m) ==
    [at EXCEPT !.stage = "decide", !.model = m, !.client = at.cached,
               !.cached = replaceTopLevelModel(@, m)]

\* resolveAlias: any model the key may use that has a healthy agent here, and
\* the body rewritten; without one the request is answered.  Another model
\* name, or a site without the alias, passes.
resolveAlias(i) ==
    LET candidates == Allowed \cap healthy[a(i).site]
    IN  \/ \E m \in candidates :
              attempts' = [attempts EXCEPT ![i] = Resolved(a(i), m)]
        \/ /\ candidates = {}
           /\ attempts' = [attempts EXCEPT ![i] = Answered(a(i), "unavailable")]

AliasMiddleware(i) ==
    /\ At(i, "alias")
    /\ \/ /\ a(i).model = Alias /\ a(i).site \in Aliased
          /\ resolveAlias(i)
       \/ /\ ~ (a(i).model = Alias /\ a(i).site \in Aliased)
          /\ attempts' = [attempts EXCEPT ![i] = Passed(a(i), "decide")]
    /\ UNCHANGED <<waits, signed, world, seen, accepted, refusals>>

(***************************************************************************)
(* RedirectDecision.                                                       *)
(***************************************************************************)

\* requestedScope: the header, else this site's country, else no site at all.
requestedScope(s, hdr) ==
    IF hdr # "absent" THEN hdr
    ELSE IF s \in sibling[s].sites THEN Country[s] ELSE "nowhere"

best(S, rank) == CHOOSE s \in S : \A r \in S : rank[s] >= rank[r]

\* The placements of the model inside the scope, without this site and the
\* request's origin: the first HomeSize of them by the key's rank.
homeSet(s, model, from, scope) ==
    LET cands == {r \in Sites \ {s, from} :
                    <<model, r>> \in sibling[s].places /\ Contains(scope, r)}
    IN  {r \in cands : Cardinality({q \in cands : Home[q] > Home[r]}) < HomeSize}

\* wakeable: the one "may be held here" rule.  The hints: a missing one is warm
\* and not full.
wakeable(doc, model, r) == <<model, r>> \in doc.wakes
warm(doc, model, r) == <<model, r>> \notin doc.cold
isFull(doc, model, r) == <<model, r>> \in doc.full

\* Map.Target: the session's first choice; while the hints are fresh, nothing
\* when every sibling is cold and the model may be woken here, else the first
\* eligible warm site, the first eligible cold one, or the first of all.
Target(s, model, from, scope) ==
    LET home == homeSet(s, model, from, scope)
        doc == sibling[s]
        warmOnes == {r \in home : warm(doc, model, r)}
        eligible == {r \in home : /\ ~isFull(doc, model, r)
                                  /\ warm(doc, model, r) \/ wakeable(doc, model, r)}
    IN  IF home = {} THEN None
        ELSE IF ~fresh[s] THEN best(home, BySession)
        ELSE IF wakeable(doc, model, s) /\ warmOnes = {} THEN None
        ELSE IF eligible \cap warmOnes # {} THEN best(eligible \cap warmOnes, BySession)
        ELSE IF eligible # {} THEN best(eligible, BySession)
        ELSE best(home, BySession)

MutantBody(at) == at.cached

\* clientBody: the copy kept before a rewrite, else the cached body.
clientBody(at) == IF at.client # NoBody THEN at.client ELSE at.cached

MutantClaimsScope(i, target, hop, from, scope) ==
    [site |-> target, hop |-> hop + 1, from |-> from, scope |-> "all",
     model |-> a(i).model, rid |-> a(i).rid, body |-> clientBody(a(i)),
     root |-> a(i).root, by |-> a(i).site]
\* The claims the redirecting router signs.
Claims(i, target, hop, from, scope) ==
    [site |-> target, hop |-> hop + 1, from |-> from, scope |-> scope,
     model |-> a(i).model, rid |-> a(i).rid, body |-> clientBody(a(i)),
     root |-> a(i).root, by |-> a(i).site]

\* Signer.Verify at the target: with a secret it does not hold, or a clock that
\* is behind, it refuses the token.  Each such token is a fault.
Verdicts == IF faults = 0 THEN {"valid"} ELSE {"valid", "early", "foreign"}

\* The 307 names the token to come back with.
Redirected(at, t) == [at EXCEPT !.stage = "done", !.answer = "redirected", !.next = t]

\* The request stays here: the quota, the hold and the handler follow.
Stays(i) == attempts' = [attempts EXCEPT ![i] = Passed(a(i), "serve")]

RedirectDecision(i) ==
    /\ At(i, "decide")
    /\ LET s == a(i).site
           c == IF a(i).info THEN tokens[a(i).tok] ELSE [hop |-> 0, from |-> s]
           scope == IF a(i).info THEN c.scope ELSE requestedScope(s, a(i).hdr)
           target == Target(s, a(i).model, c.from, scope)
           here == \/ a(i).model \notin Allowed
                   \/ c.hop >= MaxHops
                   \/ a(i).model \in healthy[s]
       IN  \/ /\ here
              /\ Stays(i)
              /\ UNCHANGED <<tokens, verdict, faults>>
           \/ /\ ~here /\ scope = "bad"
              /\ attempts' = [attempts EXCEPT ![i] = Answered(a(i), "bad_scope")]
              /\ UNCHANGED <<tokens, verdict, faults>>
           \/ /\ ~here /\ scope # "bad" /\ target = None
              /\ Stays(i)
              /\ UNCHANGED <<tokens, verdict, faults>>
           \/ /\ ~here /\ scope # "bad" /\ target # None
              /\ tokens' = Append(tokens, Claims(i, target, c.hop, c.from, scope))
              /\ \E v \in Verdicts :
                    /\ verdict' = Append(verdict, v)
                    /\ faults' = IF v = "valid" THEN faults ELSE faults - 1
              /\ attempts' = [attempts EXCEPT ![i] = Redirected(a(i), Len(tokens) + 1)]
    /\ UNCHANGED <<waits, sibling, fresh, healthy, known, seen, accepted, refusals>>

\* The handler, after the quota: 403, the agents, or no agent (held, or 404).
Serve(i) ==
    /\ At(i, "serve")
    /\ attempts' = [attempts EXCEPT ![i] = Answered(a(i),
          IF a(i).model \notin Allowed THEN "forbidden"
          ELSE IF a(i).model \in healthy[a(i).site] THEN "served"
          ELSE "unserved")]
    /\ UNCHANGED <<waits, signed, world, seen, accepted, refusals>>

(***************************************************************************)
(* The client, and what changes around the requests.                       *)
(***************************************************************************)

\* The client repeats the request at the Location it was given.  Most clients
\* drop Authorization when the host changes.
Follow ==
    /\ a(waits).answer = "redirected"
    /\ LET t == a(waits).next
           request == [a(waits) EXCEPT !.followed = @ + 1]
       IN  attempts' = Append(attempts,
                Arrives(Len(attempts) + 1, tokens[t].site, request, t,
                        a(waits).keeps, a(waits).body))
    /\ waits' = Len(attempts) + 1
    /\ UNCHANGED <<signed, world, seen, accepted, refusals>>

\* The client gives up on an answer and sends the same request again, perhaps
\* with a body its library encodes anew.  The first attempt runs on.
Resend ==
    /\ faults > 0
    /\ a(waits).tok # None
    /\ a(waits).answer # "redirected"
    /\ \E text \in {"sent", "encoded"} :
          attempts' = Append(attempts,
              Arrives(Len(attempts) + 1, a(waits).site, a(waits), a(waits).tok,
                      a(waits).auth, [a(waits).body EXCEPT !.text = text]))
    /\ waits' = Len(attempts) + 1
    /\ faults' = faults - 1
    /\ UNCHANGED <<signed, sibling, fresh, healthy, known, seen, accepted, refusals>>

\* ReplaceSiblingMap: an invalid map or a lower version is refused and changes
\* nothing, an equal version is a replay.
Replace(s, doc) ==
    /\ faults > 0
    /\ ValidDoc(doc)
    /\ doc.version >= sibling[s].version
    /\ doc # sibling[s]
    /\ sibling' = [sibling EXCEPT ![s] = doc]
    /\ fresh' = [fresh EXCEPT ![s] = TRUE]
    /\ faults' = faults - 1
    /\ UNCHANGED <<attempts, waits, signed, healthy, known, seen, accepted, refusals>>

HintsExpire(s) ==
    /\ faults > 0 /\ fresh[s]
    /\ fresh' = [fresh EXCEPT ![s] = FALSE]
    /\ faults' = faults - 1
    /\ UNCHANGED <<attempts, waits, signed, sibling, healthy, known, seen, accepted, refusals>>

\* Agents come and go (healthyAgentCount).
Health(s) ==
    /\ faults > 0
    /\ healthy' = [healthy EXCEPT ![s] = Models \ @]
    /\ faults' = faults - 1
    /\ UNCHANGED <<attempts, waits, signed, sibling, fresh, known, seen, accepted, refusals>>

\* The key registry of a site drops the key.
Revoke(s) ==
    /\ faults > 0 /\ s \in known
    /\ known' = known \ {s}
    /\ faults' = faults - 1
    /\ UNCHANGED <<attempts, waits, signed, sibling, fresh, healthy, seen, accepted, refusals>>

\* The clock of the token's site reaches its issue time, or its expiry.
Tick(t) ==
    /\ \/ verdict[t] = "early" /\ verdict' = [verdict EXCEPT ![t] = "valid"]
       \/ /\ verdict[t] = "valid"
          /\ SlowBody \/ \A i \in DOMAIN attempts : ~ (At(i, "target") /\ a(i).tok = t)
          /\ verdict' = [verdict EXCEPT ![t] = "late"]
    /\ faults > 0
    /\ faults' = faults - 1
    /\ UNCHANGED <<attempts, waits, tokens, sibling, fresh, healthy, known,
                   seen, accepted, refusals>>

\* A router restarts: its map, its replay guard and its requests are gone.
Restart(s) ==
    /\ faults > 0
    /\ sibling' = [sibling EXCEPT ![s] = NoDoc]
    /\ seen' = [seen EXCEPT ![s] = {}]
    /\ accepted' = [accepted EXCEPT ![s] = <<>>]
    /\ attempts' = [i \in DOMAIN attempts |->
          IF a(i).site = s /\ ~At(i, "done") THEN Answered(a(i), "lost") ELSE a(i)]
    /\ faults' = faults - 1
    /\ UNCHANGED <<waits, signed, fresh, healthy, known, refusals>>

Middleware(i) ==
    \/ Authenticate(i) \/ RedirectTarget(i) \/ AliasMiddleware(i)
    \/ RedirectDecision(i) \/ Serve(i)

Next ==
    \/ \E i \in DOMAIN attempts : Middleware(i)
    \/ Follow
    \/ Resend
    \/ \E t \in DOMAIN tokens : Tick(t)
    \/ \E s \in Sites :
          \/ \E doc \in Docs : Replace(s, doc)
          \/ HintsExpire(s) \/ Health(s) \/ Revoke(s) \/ Restart(s)

\* Every handler goroutine runs on, and the client follows its redirect.
Spec == Init /\ [][Next]_vars /\ WF_vars(Follow)
             /\ WF_vars(\E i \in DOMAIN attempts : Middleware(i))

(***************************************************************************)
(* Properties.                                                             *)
(***************************************************************************)

\* Types of the state.
TypeOK ==
    /\ waits \in DOMAIN attempts
    /\ \A i \in DOMAIN attempts :
          /\ a(i).stage \in {"auth", "target", "alias", "decide", "serve", "done"}
          /\ a(i).tok \in {None} \cup DOMAIN tokens
          /\ a(i).rid \in DOMAIN attempts
          /\ a(i).model \in Models \cup {Alias}
    /\ \A t \in DOMAIN tokens : tokens[t].site \in Sites /\ tokens[t].hop \in 1..MaxHops
    /\ DOMAIN verdict = DOMAIN tokens
    /\ seen \in [Sites -> SUBSET DOMAIN tokens]
    /\ known \subseteq Sites
    /\ faults \in 0..Faults

\* Attempt i runs on its token's claims.
Adopted(i) == a(i).info /\ a(i).client # NoBody

\* A redirected request is taken only by a site inside the scope it asked for
\* at the router it landed on, whatever the maps of the routers in between
\* say: the scope travels in the token and RedirectDecision never widens it.
ScopeKept ==
    \A i \in DOMAIN attempts : Adopted(i) =>
        Contains(IF a(i).hdr = "absent" THEN Country[a(a(i).root).site]
                                        ELSE a(i).hdr, a(i).site)

\* Every hop of a request carries the ID, the model and the origin of the
\* router it landed on, and is signed for the bytes the client will send
\* again, also after the body was rewritten with another model: an alias is
\* resolved once, the logs of the hops match, and no sibling refuses a body
\* the client never changed (RedirectTarget, clientBody).
SameRequest ==
    /\ \A i \in DOMAIN attempts : Adopted(i) =>
          LET root == a(a(i).root)
          IN  /\ a(i).rid = root.rid
              /\ a(i).model = root.model
              /\ tokens[a(i).tok].from = root.site
    /\ \A i \in DOMAIN attempts : a(i).next # None =>
          tokens[a(i).next].body = a(i).body

\* Since it started, a router accepts a token once, however often the client
\* sends the request and however the attempts interleave; and a request
\* refused on any check never uses a token up (ReplayGuard.First is asked
\* last, after the body).
UsedOnce ==
    \A s \in Sites :
        /\ \A j, k \in DOMAIN accepted[s] : accepted[s][j] = accepted[s][k] => j = k
        /\ \A t \in seen[s] : \E k \in DOMAIN accepted[s] : accepted[s][k] = t

\* The client follows at most MaxHops redirects for each time its token was
\* refused and it started afresh: the hop count in the token and the excluded
\* origin stop a request that no site can serve.
HopsBounded ==
    \A i \in DOMAIN attempts : a(i).followed <= MaxHops * (refusals + 1)

\* redirect.MaxHops: "a request that has already been redirected this many
\* times is never redirected again".
LoopGuard ==
    \A i \in DOMAIN attempts : a(i).followed <= MaxHops

\* A client that follows its redirects gets an answer in the end, for good.
RequestEnds ==
    <>[](At(waits, "done") /\ a(waits).answer # "redirected")
=============================================================================
