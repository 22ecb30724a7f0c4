--------------------------- MODULE RedirectProofs ---------------------------
(***************************************************************************)
(* Proofs about Redirect, for any sites, models, maps and requests: what a *)
(* redirected request carries is what its first router decided (ScopeKept, *)
(* SameRequest), and a router accepts a token once (UsedOnce).             *)
(***************************************************************************)
EXTENDS Redirect, TLAPS

USE ZenonT(10), SMTT(60)

Names == Models \cup {Alias}
Sent == [text : {"sent", "encoded"}, model : Names]
Bodies == Sent \cup {NoBody}
Scopes == Headers \cup Countries \cup {"nowhere"}
Stages == {"auth", "target", "alias", "decide", "serve", "done"}
Answers == {"none", "unauthorized", "too_large", "unavailable", "bad_scope", "redirected",
            "forbidden", "served", "unserved", "lost"}

Attempt == [site : Sites, stage : Stages, tok : Nat, auth : BOOLEAN, body : Sent, hdr : Headers,
            big : BOOLEAN, rid : Nat, info : BOOLEAN, cached : Sent, client : Bodies, model : Names,
            answer : Answers, next : Nat, root : Nat, keeps : BOOLEAN, followed : Nat]
Claim == [site : Sites, hop : Int, from : Sites, scope : Scopes, model : Names, rid : Nat,
          body : Sent, root : Nat, by : Sites]

Shape ==
    /\ attempts \in Seq(Attempt) /\ Len(attempts) > 0 /\ waits \in 1..Len(attempts)
    /\ tokens \in Seq(Claim)
    /\ verdict \in Seq({"valid", "early", "foreign", "late"}) /\ Len(verdict) = Len(tokens)
    /\ seen \in [Sites -> SUBSET Nat] /\ accepted \in [Sites -> Seq(Nat)]

(* The scope the client asked for at the router where attempt r landed.    *)
Asked(r) == IF a(1).hdr = "absent" THEN Country[a(r).site] ELSE a(1).hdr

(* What an attempt carries, along the chain of middleware.                 *)
Carried(i) ==
    /\ a(i).hdr = a(1).hdr /\ a(i).tok \in 0..Len(tokens) /\ a(i).next \in 0..Len(tokens)
    /\ a(i).root \in 1..Len(attempts)
    /\ a(i).client # NoBody => a(i).client = a(i).body
    /\ a(i).client = NoBody => a(i).cached = a(i).body
    /\ a(i).stage \in {"auth", "target"} => a(i).client = NoBody
    /\ a(i).stage = "alias" /\ ~a(i).info => a(i).client = NoBody
    /\ a(i).stage = "auth" => ~a(i).info
    /\ a(i).info => a(i).tok # None /\ Contains(tokens[a(i).tok].scope, a(i).site)
    /\ a(i).info /\ a(i).stage \in {"alias", "decide", "serve"} => a(i).client # NoBody
    /\ ~Adopted(i) => a(i).root = i /\ a(i).rid = i
    /\ Adopted(i) => LET c == tokens[a(i).tok]
                     IN  a(i).root = c.root /\ a(i).rid = c.rid /\ a(i).model = c.model
    /\ a(i).next # None => tokens[a(i).next].body = a(i).body
    /\ a(i).answer = "redirected" => a(i).next # None

(* What a token carries: the decision of its first router, whose request   *)
(* is over.                                                                *)
Signed(t) ==
    LET c == tokens[t] IN
    /\ c.root \in 1..Len(attempts) /\ At(c.root, "done") /\ ~Adopted(c.root)
    /\ c.rid = a(c.root).rid /\ c.model = a(c.root).model /\ c.from = a(c.root).site
    /\ c.scope = Asked(c.root) /\ c.model \in Allowed

RouteInv ==
    /\ Shape
    /\ \A i \in 1..Len(attempts) : Carried(i)
    /\ \A t \in 1..Len(tokens) : Signed(t)

(* What router s holds of the tokens it accepted: each once, in its replay *)
(* guard until it can no longer verify, and nothing else in the guard.     *)
Memory(s) ==
    /\ \A k \in 1..Len(accepted[s]) :
          /\ accepted[s][k] \in 1..Len(tokens)
          /\ accepted[s][k] \in seen[s] \/ verdict[accepted[s][k]] = "late"
    /\ \A j, k \in 1..Len(accepted[s]) : accepted[s][j] = accepted[s][k] => j = k
    /\ \A t \in seen[s] : \E k \in 1..Len(accepted[s]) : accepted[s][k] = t

(* A token under way to RedirectTarget still verifies.                     *)
Pending(i) == At(i, "target") /\ a(i).info => verdict[a(i).tok] = "valid"

UseInv ==
    /\ RouteInv
    /\ \A s \in Sites : Memory(s)
    /\ \A i \in 1..Len(attempts) : Pending(i)

-----------------------------------------------------------------------------
(* Records.                                                                *)

LEMMA AnsweredFields ==
  ASSUME NEW at \in Attempt, NEW answer \in Answers, NEW b, b = Answered(at, answer)
  PROVE  /\ b \in Attempt /\ b.stage = "done" /\ b.answer = answer
         /\ b.site = at.site /\ b.tok = at.tok /\ b.body = at.body /\ b.hdr = at.hdr
         /\ b.rid = at.rid /\ b.info = at.info /\ b.cached = at.cached /\ b.client = at.client
         /\ b.model = at.model /\ b.next = at.next /\ b.root = at.root
  BY DEF Answered, Attempt, Stages

LEMMA StagedFields ==
  ASSUME NEW at \in Attempt, NEW st \in Stages, NEW b, b = Passed(at, st)
  PROVE  /\ b \in Attempt /\ b.stage = st /\ b.answer = at.answer
         /\ b.site = at.site /\ b.tok = at.tok /\ b.body = at.body /\ b.hdr = at.hdr
         /\ b.rid = at.rid /\ b.info = at.info /\ b.cached = at.cached /\ b.client = at.client
         /\ b.model = at.model /\ b.next = at.next /\ b.root = at.root
  BY DEF Passed, Attempt

LEMMA VerifiedFields ==
  ASSUME NEW at \in Attempt, NEW b, b = Verified(at)
  PROVE  /\ b \in Attempt /\ b.stage = "target" /\ b.info = TRUE /\ b.answer = at.answer
         /\ b.site = at.site /\ b.tok = at.tok /\ b.body = at.body /\ b.hdr = at.hdr
         /\ b.rid = at.rid /\ b.cached = at.cached /\ b.client = at.client
         /\ b.model = at.model /\ b.next = at.next /\ b.root = at.root
  BY DEF Verified, Attempt, Stages

LEMMA AfreshFields ==
  ASSUME NEW at \in Attempt, NEW b, b = Afresh(at)
  PROVE  /\ b \in Attempt /\ b.stage = "alias" /\ b.info = FALSE /\ b.answer = at.answer
         /\ b.site = at.site /\ b.tok = at.tok /\ b.body = at.body /\ b.hdr = at.hdr
         /\ b.rid = at.rid /\ b.cached = at.cached /\ b.client = at.client
         /\ b.model = at.model /\ b.next = at.next /\ b.root = at.root
  BY DEF Afresh, Attempt, Stages

LEMMA Rewritten ==
  ASSUME NEW b \in Sent, NEW m \in Names
  PROVE  replaceTopLevelModel(b, m) \in Sent
  BY DEF replaceTopLevelModel, Sent

LEMMA AdoptFields ==
  ASSUME NEW at \in Attempt, NEW c \in Claim, NEW b, b = Adopt(at, c)
  PROVE  /\ b \in Attempt /\ b.stage = "alias" /\ b.rid = c.rid /\ b.root = c.root /\ b.answer = at.answer
         /\ b.client = at.body /\ b.model = c.model
         /\ b.site = at.site /\ b.tok = at.tok /\ b.body = at.body /\ b.hdr = at.hdr
         /\ b.info = at.info /\ b.next = at.next
  <1>1. at.body \in Sent /\ c.model \in Names /\ c.rid \in Nat /\ c.root \in Nat
    BY DEF Attempt, Claim
  <1>2. replaceTopLevelModel(at.body, c.model) \in Sent
    BY <1>1, Rewritten
  <1> QED
    BY <1>1, <1>2 DEF Adopt, Attempt, Stages, Bodies

LEMMA AliasedFields ==
  ASSUME NEW at \in Attempt, NEW m \in Names, NEW b, b = Resolved(at, m)
  PROVE  /\ b \in Attempt /\ b.stage = "decide" /\ b.client = at.cached /\ b.model = m /\ b.answer = at.answer
         /\ b.site = at.site /\ b.tok = at.tok /\ b.body = at.body /\ b.hdr = at.hdr
         /\ b.rid = at.rid /\ b.info = at.info /\ b.next = at.next /\ b.root = at.root
  <1>1. at.cached \in Sent
    BY DEF Attempt
  <1>2. replaceTopLevelModel(at.cached, m) \in Sent
    BY <1>1, Rewritten
  <1> QED
    BY <1>1, <1>2 DEF Resolved, Attempt, Stages, Bodies

LEMMA SentIsNotNone == NoBody \notin Sent
  BY DEF NoBody, Sent

-----------------------------------------------------------------------------
(* One attempt takes a step of the chain; the others stay as they are.     *)

(* Tokens are only ever added.                                             *)
TokensKept ==
    /\ tokens' \in Seq(Claim) /\ Len(tokens') >= Len(tokens)
    /\ \A k \in 1..Len(tokens) : tokens'[k] = tokens[k]

LEMMA TokenIn ==
  ASSUME tokens \in Seq(Claim), NEW i, Carried(i)
  PROVE  /\ a(i).tok # None => a(i).tok \in 1..Len(tokens)
         /\ a(i).info => a(i).tok # None
         /\ Adopted(i) => a(i).tok # None
  <1>1. a(i).tok \in 0..Len(tokens) /\ (a(i).info => a(i).tok # None)
    BY DEF Carried
  <1> QED
    BY SMTT(60), <1>1 DEF None, Adopted

LEMMA CarriedStays ==
  ASSUME TokensKept, tokens \in Seq(Claim), NEW j, Carried(j), a(j)' = a(j), a(1)'.hdr = a(1).hdr,
         Len(attempts) \in Nat, Len(attempts') \in Nat, Len(attempts') >= Len(attempts)
  PROVE  Carried(j)'
  <1>1. Adopted(j)' <=> Adopted(j)
    BY DEF Adopted
  <1>2. a(j).tok # None => a(j).tok \in 1..Len(tokens) /\ tokens'[a(j).tok] = tokens[a(j).tok]
    BY SMTT(60) DEF Carried, None, TokensKept
  <1>3. a(j).next # None => a(j).next \in 1..Len(tokens) /\ tokens'[a(j).next] = tokens[a(j).next]
    BY SMTT(60) DEF Carried, None, TokensKept
  <1>4. a(j).tok \in 0..Len(tokens') /\ a(j).next \in 0..Len(tokens') /\ a(j).root \in 1..Len(attempts')
    BY SMTT(60) DEF Carried, TokensKept
  <1>5. Adopted(j) => a(j).tok # None
    BY DEF Carried, Adopted
  <1>6. Contains(tokens[a(j).tok].scope, a(j).site) /\ a(j).tok # None
          => Contains(tokens[a(j).tok].scope, a(j).site)'
    BY <1>2 DEF Contains
  <1> QED
    BY <1>1, <1>2, <1>3, <1>4, <1>5, <1>6 DEF Carried

LEMMA SignedStays ==
  ASSUME TokensKept, NEW t \in 1..Len(tokens), NEW c, c = tokens[t], Signed(t),
         attempts'[c.root] = attempts[c.root], a(1)'.hdr = a(1).hdr,
         Len(attempts) \in Nat, Len(attempts') \in Nat, Len(attempts') >= Len(attempts)
  PROVE  Signed(t)'
  <1>1. tokens'[t] = c
    BY DEF TokensKept
  <1>2. /\ At(c.root, "done")' <=> At(c.root, "done")
        /\ Adopted(c.root)' <=> Adopted(c.root)
        /\ a(c.root)' = a(c.root)
    BY DEF At, Adopted, a
  <1>3. Asked(c.root)' = Asked(c.root)
    BY <1>2 DEF Asked
  <1> QED
    BY SMTT(60), <1>1, <1>2, <1>3 DEF Signed

LEMMA OneMoves ==
  ASSUME RouteInv, NEW i \in 1..Len(attempts), NEW at \in Attempt,
         attempts' = [attempts EXCEPT ![i] = at], TokensKept,
         ~At(i, "done"), at.hdr = a(i).hdr, at.site = a(i).site, Carried(i)'
  PROVE  /\ attempts' \in Seq(Attempt) /\ Len(attempts') = Len(attempts)
         /\ \A j \in 1..Len(attempts') : Carried(j)'
         /\ \A t \in 1..Len(tokens) : Signed(t)'
  <1>1. /\ attempts \in Seq(Attempt) /\ Len(attempts) > 0 /\ tokens \in Seq(Claim)
        /\ \A j \in 1..Len(attempts) : Carried(j)
        /\ \A t \in 1..Len(tokens) : Signed(t)
    BY DEF RouteInv, Shape
  <1>2. /\ attempts' \in Seq(Attempt) /\ Len(attempts') = Len(attempts)
        /\ \A j \in 1..Len(attempts) : a(j)' = IF j = i THEN at ELSE a(j)
    BY SMTT(60), <1>1 DEF a
  <1>3. \A j \in 1..Len(attempts) : a(j)'.hdr = a(j).hdr /\ a(j)'.site = a(j).site
    BY <1>2
  <1>4. 1 \in 1..Len(attempts) /\ a(1)'.hdr = a(1).hdr
    BY SMTT(60), <1>1, <1>3
  <1>5. ASSUME NEW j \in 1..Len(attempts) PROVE Carried(j)'
    <2>1. CASE j = i
      BY <2>1
    <2>2. CASE j # i
      <3>1. a(j)' = a(j) /\ Carried(j)
        BY <1>1, <1>2, <2>2
      <3> QED
        BY SMTT(60), <1>1, <1>2, <1>4, <3>1, CarriedStays
    <2> QED
      BY <2>1, <2>2
  <1>6. ASSUME NEW t \in 1..Len(tokens) PROVE Signed(t)'
    <2>1. tokens[t].root \in 1..Len(attempts) /\ At(tokens[t].root, "done") /\ tokens[t].root # i
      BY <1>1 DEF Signed
    <2>2. PICK c : c = tokens[t]
      OBVIOUS
    <2>3. attempts'[c.root] = attempts[c.root]
      BY <1>2, <2>1, <2>2 DEF a
    <2>4. Len(attempts) \in Nat /\ Len(attempts') = Len(attempts) /\ Signed(t)
      BY SMTT(60), <1>1, <1>2
    <2> QED
      BY SMTT(60), <1>4, <2>2, <2>3, <2>4, SignedStays
  <1> QED
    BY <1>2, <1>5, <1>6

(* What a step of the chain keeps.                                         *)
Routed ==
    /\ attempts' \in Seq(Attempt) /\ Len(attempts') = Len(attempts)
    /\ \A j \in 1..Len(attempts') : Carried(j)'
    /\ \A t \in 1..Len(tokens') : Signed(t)'

LEMMA Passes ==
  ASSUME RouteInv, NEW i \in 1..Len(attempts), NEW at \in Attempt,
         attempts' = [attempts EXCEPT ![i] = at], tokens' = tokens, ~At(i, "done"),
         at.site = a(i).site, at.tok = a(i).tok, at.body = a(i).body, at.hdr = a(i).hdr,
         at.rid = a(i).rid, at.info = a(i).info, at.cached = a(i).cached, at.client = a(i).client,
         at.model = a(i).model, at.next = a(i).next, at.root = a(i).root,
         at.stage # "auth", at.answer = "redirected" => a(i).answer = "redirected",
         at.stage = "target" \/ (at.stage = "alias" /\ ~a(i).info) => a(i).client = NoBody,
         at.stage \in {"alias", "decide", "serve"} /\ a(i).info => a(i).client # NoBody
  PROVE  Routed
  <1>1. attempts \in Seq(Attempt) /\ Carried(i) /\ 1 \in 1..Len(attempts)
    BY SMTT(60) DEF RouteInv, Shape
  <1>2. a(i)' = at /\ Len(attempts') = Len(attempts) /\ a(1)'.hdr = a(1).hdr
    BY SMTT(60), <1>1 DEF a
  <1>3. Adopted(i)' <=> Adopted(i)
    BY <1>2 DEF Adopted
  <1>4. Carried(i)'
    BY <1>1, <1>2, <1>3 DEF Carried
  <1>5. TokensKept
    BY SMTT(60) DEF RouteInv, Shape, TokensKept
  <1> QED
    BY <1>4, <1>5, OneMoves DEF Routed

(* The middleware answers the request.                                     *)
LEMMA AnswerPasses ==
  ASSUME RouteInv, NEW i \in 1..Len(attempts), NEW answer \in Answers \ {"redirected"}, ~At(i, "done"),
         attempts' = [attempts EXCEPT ![i] = Answered(a(i), answer)], tokens' = tokens
  PROVE  Routed
  <1>1. PICK at : at = Answered(a(i), answer)
    OBVIOUS
  <1>2. a(i) \in Attempt
    BY SMTT(60) DEF RouteInv, Shape, a
  <1>3. /\ at \in Attempt /\ at.stage = "done" /\ at.answer = answer
        /\ at.site = a(i).site /\ at.tok = a(i).tok /\ at.body = a(i).body /\ at.hdr = a(i).hdr
        /\ at.rid = a(i).rid /\ at.info = a(i).info /\ at.cached = a(i).cached
        /\ at.client = a(i).client /\ at.model = a(i).model /\ at.next = a(i).next
        /\ at.root = a(i).root
    BY SMTT(60), <1>1, <1>2, AnsweredFields
  <1> QED
    BY <1>1, <1>3, Passes

(* The middleware calls the next.                                          *)
LEMMA StagePasses ==
  ASSUME RouteInv, NEW i \in 1..Len(attempts), NEW st \in Stages \ {"auth"}, ~At(i, "done"),
         attempts' = [attempts EXCEPT ![i] = Passed(a(i), st)], tokens' = tokens,
         st = "target" \/ (st = "alias" /\ ~a(i).info) => a(i).client = NoBody,
         st \in {"alias", "decide", "serve"} /\ a(i).info => a(i).client # NoBody
  PROVE  Routed
  <1>1. PICK at : at = Passed(a(i), st)
    OBVIOUS
  <1>2. a(i) \in Attempt
    BY SMTT(60) DEF RouteInv, Shape, a
  <1>3. /\ at \in Attempt /\ at.stage = st /\ at.answer = a(i).answer
        /\ at.site = a(i).site /\ at.tok = a(i).tok /\ at.body = a(i).body /\ at.hdr = a(i).hdr
        /\ at.rid = a(i).rid /\ at.info = a(i).info /\ at.cached = a(i).cached
        /\ at.client = a(i).client /\ at.model = a(i).model /\ at.next = a(i).next
        /\ at.root = a(i).root
    BY SMTT(60), <1>1, <1>2, StagedFields
  <1>4. st # "auth"
    OBVIOUS
  <1> QED
    BY <1>1, <1>3, <1>4, Passes

LEMMA AuthenticateRoutes ==
  ASSUME RouteInv, NEW i \in 1..Len(attempts), Authenticate(i)
  PROVE  Routed
  <1>0. /\ a(i) \in Attempt /\ Carried(i) /\ a(i).stage = "auth" /\ ~a(i).info /\ a(i).client = NoBody
        /\ ~At(i, "done") /\ tokens' = tokens /\ attempts \in Seq(Attempt) /\ tokens \in Seq(Claim)
    <2>1. /\ attempts \in Seq(Attempt) /\ tokens \in Seq(Claim) /\ Carried(i) /\ a(i) \in Attempt
      BY SMTT(60) DEF RouteInv, Shape, a
    <2>2. a(i).stage = "auth" /\ tokens' = tokens
      BY DEF Authenticate, At, signed
    <2> QED
      BY <2>1, <2>2 DEF Carried, At
  <1>k. TokensKept
    BY SMTT(60), <1>0 DEF TokensKept
  <1>1. CASE attempts' = [attempts EXCEPT ![i] = Answered(a(i), "unauthorized")]
    BY <1>0, <1>1, AnswerPasses DEF Answers
  <1>2. CASE attempts' = [attempts EXCEPT ![i] = Passed(a(i), "target")]
    BY <1>0, <1>2, StagePasses DEF Stages
  <1>3. CASE /\ a(i).tok # None /\ check(a(i).site, a(i).tok)
             /\ attempts' = [attempts EXCEPT ![i] = Verified(a(i))]
    <2>0. a(i) \in Attempt
      BY <1>0
    <2>1. PICK at : at = Verified(a(i))
      OBVIOUS
    <2>2. /\ at \in Attempt /\ at.stage = "target" /\ at.info = TRUE /\ at.answer = a(i).answer
          /\ at.site = a(i).site /\ at.tok = a(i).tok /\ at.body = a(i).body /\ at.hdr = a(i).hdr
          /\ at.rid = a(i).rid /\ at.cached = a(i).cached /\ at.client = a(i).client
          /\ at.model = a(i).model /\ at.next = a(i).next /\ at.root = a(i).root
      BY <2>0, <2>1, VerifiedFields
    <2>3. a(i)' = at /\ Len(attempts') = Len(attempts) /\ a(1)'.hdr = a(1).hdr
      BY SMTT(60), <1>0, <1>3, <2>1, <2>2 DEF a
    <2>4. Contains(tokens[a(i).tok].scope, a(i).site)
      BY <1>3 DEF check, inScope, Contains
    <2>5. ~Adopted(i) /\ ~Adopted(i)'
      BY <1>0, <2>2, <2>3 DEF Adopted
    <2>6. Contains(tokens[a(i).tok].scope, a(i).site)'
      BY <1>0, <2>2, <2>3, <2>4 DEF Contains
    <2>7. Carried(i)'
      BY <1>0, <1>3, <2>2, <2>3, <2>5, <2>6 DEF Carried
    <2> QED
      BY <1>0, <1>3, <2>1, <2>2, <2>7, <1>k, OneMoves DEF Routed
  <1> QED
    BY <1>1, <1>2, <1>3 DEF Authenticate, onKey, tokenAuth

LEMMA RedirectTargetRoutes ==
  ASSUME RouteInv, NEW i \in 1..Len(attempts), RedirectTarget(i)
  PROVE  Routed
  <1>0. /\ a(i) \in Attempt /\ Carried(i) /\ a(i).stage = "target" /\ a(i).client = NoBody
        /\ ~At(i, "done") /\ tokens' = tokens /\ attempts \in Seq(Attempt) /\ tokens \in Seq(Claim)
    <2>1. attempts \in Seq(Attempt) /\ tokens \in Seq(Claim) /\ Carried(i)
      BY DEF RouteInv, Shape
    <2>2. a(i) \in Attempt
      BY SMTT(60), <2>1 DEF a
    <2>3. a(i).stage = "target" /\ tokens' = tokens
      BY DEF RedirectTarget, At, signed
    <2>4. a(i).client = NoBody /\ ~At(i, "done")
      BY <2>1, <2>3 DEF Carried, At
    <2> QED
      BY <2>1, <2>2, <2>3, <2>4
  <1>k. TokensKept
    BY SMTT(60), <1>0 DEF TokensKept
  <1>1. CASE \E answer \in {"too_large", "unauthorized"} :
               attempts' = [attempts EXCEPT ![i] = Answered(a(i), answer)]
    BY <1>0, <1>1, AnswerPasses DEF Answers
  <1>2. CASE ~a(i).info /\ attempts' = [attempts EXCEPT ![i] = Passed(a(i), "alias")]
    BY <1>0, <1>2, StagePasses DEF Stages
  <1>3. CASE attempts' = [attempts EXCEPT ![i] = Afresh(a(i))]
    <2>1. PICK at : at = Afresh(a(i))
      OBVIOUS
    <2>2. /\ at \in Attempt /\ at.stage = "alias" /\ at.info = FALSE /\ at.answer = a(i).answer
          /\ at.site = a(i).site /\ at.tok = a(i).tok /\ at.body = a(i).body /\ at.hdr = a(i).hdr
          /\ at.rid = a(i).rid /\ at.cached = a(i).cached /\ at.client = a(i).client
          /\ at.model = a(i).model /\ at.next = a(i).next /\ at.root = a(i).root
      BY <1>0, <2>1, AfreshFields DEF Stages
    <2>3. a(i)' = at /\ Len(attempts') = Len(attempts) /\ a(1)'.hdr = a(1).hdr
      BY SMTT(60), <1>0, <1>3, <2>1, <2>2 DEF a
    <2>4. ~Adopted(i) /\ ~Adopted(i)'
      BY <1>0, <2>2, <2>3 DEF Adopted
    <2>5. Carried(i)'
      BY <1>0, <2>2, <2>3, <2>4 DEF Carried
    <2> QED
      BY <1>0, <1>3, <2>1, <2>2, <2>5, <1>k, OneMoves DEF Routed
  <1>4. CASE a(i).info /\ attempts' = [attempts EXCEPT ![i] = Adopt(a(i), tokens[a(i).tok])]
    <2> DEFINE c == tokens[a(i).tok]
    <2>0. a(i).tok \in 1..Len(tokens) /\ c \in Claim /\ Signed(a(i).tok)
      BY SMTT(60), <1>0, <1>4 DEF Carried, None, RouteInv
    <2>1. PICK at : at = Adopt(a(i), c)
      OBVIOUS
    <2>2. /\ at \in Attempt /\ at.stage = "alias" /\ at.rid = c.rid /\ at.root = c.root /\ at.answer = a(i).answer
          /\ at.client = a(i).body /\ at.model = c.model
          /\ at.site = a(i).site /\ at.tok = a(i).tok /\ at.body = a(i).body /\ at.hdr = a(i).hdr
          /\ at.info = a(i).info /\ at.next = a(i).next
      BY SMTT(60), <1>0, <2>0, <2>1, AdoptFields
    <2>3. a(i)' = at /\ Len(attempts') = Len(attempts) /\ a(1)'.hdr = a(1).hdr
      BY SMTT(60), <1>0, <1>4, <2>1, <2>2 DEF a
    <2>4. at.client # NoBody
      BY <1>0, <2>2, SentIsNotNone DEF Attempt
    <2>5. Adopted(i)'
      BY <1>4, <2>2, <2>3, <2>4 DEF Adopted
    <2>6. c.root \in 1..Len(attempts)
      BY <2>0 DEF Signed
    <2>7. Carried(i)'
      <3>1. /\ a(i)'.hdr = a(1)'.hdr /\ a(i)'.tok \in 0..Len(tokens') /\ a(i)'.next \in 0..Len(tokens')
            /\ a(i)'.root \in 1..Len(attempts')
        BY <1>0, <2>2, <2>3, <2>6 DEF Carried
      <3>2. a(i)'.tok # None /\ Contains(tokens'[a(i)'.tok].scope, a(i)'.site)
        BY <1>0, <1>4, <2>2, <2>3 DEF Carried
      <3>3. /\ a(i)'.next # None => tokens'[a(i)'.next].body = a(i)'.body
            /\ a(i)'.answer = "redirected" => a(i)'.next # None
        BY <1>0, <2>2, <2>3 DEF Carried
      <3>4. LET d == tokens'[a(i)'.tok]
            IN  a(i)'.root = d.root /\ a(i)'.rid = d.rid /\ a(i)'.model = d.model
        BY <1>0, <2>2, <2>3
      <3>5. /\ a(i)'.client # NoBody /\ a(i)'.client = a(i)'.body /\ a(i)'.stage = "alias" /\ a(i)'.info
        BY <1>4, <2>2, <2>3, <2>4
      <3> QED
        BY <2>5, <3>1, <3>2, <3>3, <3>4, <3>5 DEF Carried, Contains
    <2> QED
      BY <1>0, <1>4, <2>1, <2>2, <2>7, <1>k, OneMoves DEF Routed
  <1> QED
    BY <1>0, <1>1, <1>2, <1>3, <1>4 DEF RedirectTarget, Refuse

LEMMA AliasRoutes ==
  ASSUME RouteInv, NEW i \in 1..Len(attempts), AliasMiddleware(i)
  PROVE  Routed
  <1>0. /\ a(i) \in Attempt /\ Carried(i) /\ a(i).stage = "alias"
        /\ ~At(i, "done") /\ tokens' = tokens /\ attempts \in Seq(Attempt) /\ tokens \in Seq(Claim)
    BY SMTT(60) DEF RouteInv, Shape, a, AliasMiddleware, At, signed
  <1>k. TokensKept
    BY SMTT(60), <1>0 DEF TokensKept
  <1>1. CASE attempts' = [attempts EXCEPT ![i] = Answered(a(i), "unavailable")]
    BY <1>0, <1>1, AnswerPasses DEF Answers
  <1>2. CASE attempts' = [attempts EXCEPT ![i] = Passed(a(i), "decide")]
    BY <1>0, <1>2, StagePasses DEF Stages, Carried
  <1>3. ASSUME a(i).model = Alias, NEW m \in Allowed,
               attempts' = [attempts EXCEPT ![i] = Resolved(a(i), m)]
        PROVE  Routed
    <2>1. PICK at : at = Resolved(a(i), m)
      OBVIOUS
    <2>2. /\ at \in Attempt /\ at.stage = "decide" /\ at.client = a(i).cached /\ at.model = m /\ at.answer = a(i).answer
          /\ at.site = a(i).site /\ at.tok = a(i).tok /\ at.body = a(i).body /\ at.hdr = a(i).hdr
          /\ at.rid = a(i).rid /\ at.info = a(i).info /\ at.next = a(i).next /\ at.root = a(i).root
      BY SMTT(60), <1>0, <2>1, AliasedFields, RedirectAssumption DEF Names
    <2>3. a(i)' = at /\ Len(attempts') = Len(attempts) /\ a(1)'.hdr = a(1).hdr
      BY SMTT(60), <1>0, <1>3, <2>1, <2>2 DEF a
    <2>4. ~a(i).info
      <3>1. SUFFICES ASSUME a(i).info PROVE FALSE
        OBVIOUS
      <3>2. Adopted(i) /\ a(i).tok \in 1..Len(tokens)
        BY SMTT(60), <1>0, <3>1 DEF Carried, Adopted, None
      <3>3. Signed(a(i).tok) /\ a(i).model = tokens[a(i).tok].model
        BY <1>0, <3>2 DEF Carried, RouteInv
      <3> QED
        BY <1>3, <3>3, RedirectAssumption DEF Signed
    <2>5. a(i).client = NoBody /\ a(i).cached = a(i).body
      BY <1>0, <2>4 DEF Carried
    <2>6. ~Adopted(i) /\ ~Adopted(i)'
      BY <2>2, <2>3, <2>4 DEF Adopted
    <2>7. Carried(i)'
      BY <1>0, <2>2, <2>3, <2>4, <2>5, <2>6, SentIsNotNone DEF Carried, Attempt
    <2> QED
      BY <1>0, <1>3, <2>1, <2>2, <2>7, <1>k, OneMoves DEF Routed
  <1> QED
    BY <1>1, <1>2, <1>3 DEF AliasMiddleware, resolveAlias

-----------------------------------------------------------------------------
(* A redirect.                                                             *)

LEMMA BestIn ==
  ASSUME NEW S \in SUBSET Sites, S # {}
  PROVE  best(S, BySession) \in S
  BY RedirectAssumption DEF best

(* A target is a site, and there is one only if the scope contains one.    *)
LEMMA TargetIn ==
  ASSUME NEW s, NEW model, NEW from, NEW scope, Target(s, model, from, scope) # None
  PROVE  Target(s, model, from, scope) \in Sites /\ \E r \in Sites : Contains(scope, r)
  <1> DEFINE home == homeSet(s, model, from, scope)
             warmOnes == {r \in home : warm(sibling[s], model, r)}
             eligible == {r \in home : /\ ~isFull(sibling[s], model, r)
                                       /\ warm(sibling[s], model, r) \/ wakeable(sibling[s], model, r)}
  <1>1. home \in SUBSET Sites /\ \A r \in home : Contains(scope, r)
    BY DEF homeSet
  <1>2. home # {}
    BY DEF Target
  <1>3. eligible \in SUBSET home /\ eligible \cap warmOnes \in SUBSET home
    OBVIOUS
  <1> HIDE DEF home
  <1>4. Target(s, model, from, scope) \in
          {None, best(home, BySession)}
            \cup (IF eligible \cap warmOnes # {} THEN {best(eligible \cap warmOnes, BySession)} ELSE {})
            \cup (IF eligible # {} THEN {best(eligible, BySession)} ELSE {})
    BY DEF Target, home
  <1> HIDE DEF warmOnes, eligible
  <1>5. best(home, BySession) \in Sites
    BY <1>1, <1>2, BestIn
  <1>6. eligible # {} => best(eligible, BySession) \in Sites
    BY <1>1, <1>3, BestIn
  <1>7. eligible \cap warmOnes # {} => best(eligible \cap warmOnes, BySession) \in Sites
    BY <1>1, <1>3, BestIn
  <1> QED
    BY <1>1, <1>2, <1>4, <1>5, <1>6, <1>7

LEMMA ClaimFields ==
  ASSUME NEW s \in Sites, NEW h \in Int, NEW f \in Sites, NEW sc \in Scopes, NEW m \in Names,
         NEW r \in Nat, NEW b \in Sent, NEW o \in Nat, NEW y \in Sites, NEW k,
         k = [site |-> s, hop |-> h, from |-> f, scope |-> sc, model |-> m, rid |-> r,
              body |-> b, root |-> o, by |-> y]
  PROVE  /\ k \in Claim /\ k.site = s /\ k.from = f /\ k.scope = sc /\ k.model = m
         /\ k.rid = r /\ k.body = b /\ k.root = o
  BY DEF Claim

(* What RedirectDecision works with.                                       *)
Given(i) == IF a(i).info THEN tokens[a(i).tok] ELSE [hop |-> 0, from |-> a(i).site]
ScopeOf(i) == IF a(i).info THEN Given(i).scope ELSE requestedScope(a(i).site, a(i).hdr)
TargetOf(i) == Target(a(i).site, a(i).model, Given(i).from, ScopeOf(i))
Token(i) == Claims(i, TargetOf(i), Given(i).hop, Given(i).from, ScopeOf(i))

(* The claims a router signs carry on those of the token it was given, or  *)
(* those of its own request.                                               *)
LEMMA ClaimsCarryOn ==
  ASSUME RouteInv, NEW i \in 1..Len(attempts), At(i, "decide"),
         TargetOf(i) # None, a(i).model \in Allowed, NEW k, k = Token(i)
  PROVE  /\ k \in Claim /\ k.body = a(i).body /\ k.root \in 1..Len(attempts)
         /\ k.rid = a(i).rid /\ k.root = a(i).root /\ k.model = a(i).model
         /\ k.scope = Asked(k.root) /\ k.from = a(k.root).site /\ k.model \in Allowed
  <1>0. /\ attempts \in Seq(Attempt) /\ tokens \in Seq(Claim) /\ Carried(i) /\ a(i) \in Attempt
        /\ a(i).stage = "decide"
    BY SMTT(60) DEF RouteInv, Shape, a, At
  <1> PICK c, scope, target : c = Given(i) /\ scope = ScopeOf(i) /\ target = TargetOf(i)
    OBVIOUS
  <1>1. target \in Sites /\ \E r \in Sites : Contains(scope, r)
    BY TargetIn DEF TargetOf
  <1>2. clientBody(a(i)) = a(i).body
    BY <1>0 DEF Carried, clientBody
  <1>3. k = [site |-> target, hop |-> c.hop + 1, from |-> c.from, scope |-> scope,
             model |-> a(i).model, rid |-> a(i).rid, body |-> a(i).body,
             root |-> a(i).root, by |-> a(i).site]
    BY <1>2 DEF Claims, Token
  <1>4. a(i).site \in Sites /\ a(i).model \in Names /\ a(i).rid \in Nat /\ a(i).body \in Sent
        /\ a(i).root \in Nat /\ a(i).root \in 1..Len(attempts) /\ a(i).hdr \in Headers
    BY <1>0 DEF Attempt, Carried
  <1>5. /\ c.hop \in Int /\ c.from \in Sites /\ scope \in Scopes
        /\ scope = Asked(a(i).root) /\ c.from = a(a(i).root).site
    <2>1. CASE a(i).info
      <3>0. a(i).client # NoBody
        BY <1>0, <2>1 DEF Carried
      <3>1. a(i).tok \in 1..Len(tokens) /\ Adopted(i)
        BY <1>0, <2>1, <3>0, TokenIn DEF Adopted
      <3>2. c = tokens[a(i).tok] /\ c \in Claim /\ Signed(a(i).tok)
        BY SMTT(60), <1>0, <2>1, <3>1 DEF RouteInv, Given
      <3>3. c.root = a(i).root /\ scope = c.scope
        BY <1>0, <2>1, <3>1, <3>2 DEF Carried, ScopeOf
      <3>4. c.scope = Asked(c.root) /\ c.from = a(c.root).site
        BY <3>2 DEF Signed
      <3>5. c.hop \in Int /\ c.from \in Sites /\ c.scope \in Scopes
        BY <3>2 DEF Claim
      <3> QED
        BY <3>3, <3>4, <3>5
    <2>2. CASE ~a(i).info
      <3>1. c.hop = 0 /\ c.from = a(i).site /\ scope = requestedScope(a(i).site, a(i).hdr)
        BY <2>2 DEF Given, ScopeOf
      <3>2. a(i).root = i
        BY <1>0, <2>2 DEF Carried, Adopted
      <3>3. scope # "nowhere"
        BY <1>1, RedirectAssumption DEF Contains
      <3>4. a(i).hdr = a(1).hdr
        BY <1>0 DEF Carried
      <3>5. scope = Asked(i)
        BY <3>1, <3>3, <3>4 DEF requestedScope, Asked
      <3>6. scope \in Scopes
        BY <1>4, <3>1 DEF requestedScope, Scopes, Countries
      <3> QED
        BY SMTT(60), <1>4, <3>1, <3>2, <3>5, <3>6
    <2> QED
      BY <2>1, <2>2
  <1>6. PICK h, f, b, m, r, o, y : h = c.hop + 1 /\ f = c.from /\ b = a(i).body /\ m = a(i).model
                                  /\ r = a(i).rid /\ o = a(i).root /\ y = a(i).site
    OBVIOUS
  <1>70. h \in Int
    BY SMTT(60), <1>5, <1>6
  <1>71. f \in Sites /\ b \in Sent /\ m \in Names /\ r \in Nat /\ o \in Nat /\ y \in Sites
    BY <1>4, <1>5, <1>6
  <1>72. target \in Sites /\ scope \in Scopes
    BY <1>1, <1>5
  <1>7. k = [site |-> target, hop |-> h, from |-> f, scope |-> scope, model |-> m, rid |-> r,
             body |-> b, root |-> o, by |-> y]
    BY <1>3, <1>6
  <1>8. /\ k \in Claim /\ k.site = target /\ k.from = f /\ k.scope = scope /\ k.model = m
        /\ k.rid = r /\ k.body = b /\ k.root = o
    BY SMTT(60), <1>72, <1>70, <1>71, <1>7, ClaimFields
  <1> QED
    BY <1>4, <1>5, <1>6, <1>8

LEMMA RedirectDecisionRoutes ==
  ASSUME RouteInv, NEW i \in 1..Len(attempts), RedirectDecision(i)
  PROVE  Routed /\ tokens' \in Seq(Claim) /\ Len(verdict') = Len(tokens')
         /\ verdict' \in Seq({"valid", "early", "foreign", "late"}) /\ TokensKept
  <1>0. /\ a(i) \in Attempt /\ Carried(i) /\ a(i).stage = "decide" /\ At(i, "decide") /\ ~At(i, "done")
        /\ attempts \in Seq(Attempt) /\ tokens \in Seq(Claim) /\ Len(verdict) = Len(tokens)
        /\ verdict \in Seq({"valid", "early", "foreign", "late"})
    <2>1. /\ Carried(i) /\ attempts \in Seq(Attempt) /\ tokens \in Seq(Claim)
          /\ Len(verdict) = Len(tokens) /\ verdict \in Seq({"valid", "early", "foreign", "late"})
      BY DEF RouteInv, Shape
    <2>2. a(i) \in Attempt
      BY SMTT(60), <2>1 DEF a
    <2>3. At(i, "decide")
      BY DEF RedirectDecision
    <2> QED
      BY <2>1, <2>2, <2>3 DEF At
  <1>4. CASE UNCHANGED <<tokens, verdict>> /\ (Stays(i) \/ attempts' = [attempts EXCEPT ![i] = Answered(a(i), "bad_scope")])
    <2>1. Routed
      BY <1>0, <1>4, AnswerPasses, StagePasses DEF Answers, Stages, Stays, Carried
    <2> QED
      BY SMTT(60), <1>0, <1>4, <2>1 DEF TokensKept
  <1>5. CASE /\ a(i).model \in Allowed /\ TargetOf(i) # None
             /\ tokens' = Append(tokens, Token(i))
             /\ \E v \in Verdicts : verdict' = Append(verdict, v)
             /\ attempts' = [attempts EXCEPT ![i] = Redirected(a(i), Len(tokens) + 1)]
    <2>1. PICK k : k = Token(i)
      OBVIOUS
    <2>20. TargetOf(i) # None /\ a(i).model \in Allowed /\ At(i, "decide")
      BY <1>0, <1>5
    <2>2. /\ k \in Claim /\ k.body = a(i).body /\ k.root \in 1..Len(attempts)
          /\ k.rid = a(i).rid /\ k.root = a(i).root /\ k.model = a(i).model
          /\ k.scope = Asked(k.root) /\ k.from = a(k.root).site /\ k.model \in Allowed
      BY <2>20, <2>1, ClaimsCarryOn
    <2>3. /\ tokens' \in Seq(Claim) /\ Len(tokens') = Len(tokens) + 1 /\ tokens'[Len(tokens) + 1] = k
          /\ TokensKept
      BY SMTT(60), <1>0, <1>5, <2>1, <2>2 DEF TokensKept
    <2>40. PICK v : v \in {"valid", "early", "foreign", "late"} /\ verdict' = Append(verdict, v)
      BY <1>5 DEF Verdicts
    <2>4. verdict' \in Seq({"valid", "early", "foreign", "late"}) /\ Len(verdict') = Len(tokens')
      BY SMTT(60), <1>0, <2>3, <2>40
    <2>5. PICK at, n : n = Len(tokens) + 1 /\ at = Redirected(a(i), n)
      OBVIOUS
    <2>50. n \in Nat /\ a(i) \in Attempt /\ at = Redirected(a(i), n)
      BY SMTT(60), <1>0, <2>5
    <2>6. /\ at \in Attempt /\ at.stage = "done" /\ at.next = n
          /\ at.site = a(i).site /\ at.tok = a(i).tok /\ at.body = a(i).body /\ at.hdr = a(i).hdr
          /\ at.rid = a(i).rid /\ at.cached = a(i).cached /\ at.client = a(i).client
          /\ at.info = a(i).info /\ at.model = a(i).model /\ at.root = a(i).root
      BY <2>50 DEF Redirected, Attempt, Stages, Answers
    <2>7. a(i)' = at /\ Len(attempts') = Len(attempts) /\ a(1)'.hdr = a(1).hdr
      BY SMTT(60), <1>0, <1>5, <2>5, <2>6 DEF a
    <2>8. Adopted(i)' <=> Adopted(i)
      BY <2>6, <2>7 DEF Adopted
    <2>9. a(i).tok # None => a(i).tok \in 1..Len(tokens) /\ tokens'[a(i).tok] = tokens[a(i).tok]
      BY <1>0, <2>3, TokenIn DEF TokensKept
    <2>10. Carried(i)'
      <3>1. at.tok \in 0..Len(tokens') /\ at.next \in 0..Len(tokens')
        BY SMTT(60), <1>0, <2>3, <2>5, <2>6 DEF Carried
      <3>2. at.info => at.tok # None /\ Contains(tokens'[at.tok].scope, at.site)
        BY <1>0, <2>6, <2>9 DEF Carried
      <3>3. Contains(tokens[a(i).tok].scope, a(i).site)' <=> Contains(tokens'[at.tok].scope, at.site)
        BY <2>7 DEF Contains
      <3>4. Adopted(i) => a(i).tok # None
        BY <1>0 DEF Carried, Adopted
      <3>5. tokens'[at.next].body = at.body
        BY <2>2, <2>3, <2>5, <2>6
      <3>6. at.root \in 1..Len(attempts')
        BY <1>0, <2>6, <2>7 DEF Carried
      <3>7. at.next # None
        BY SMTT(60), <1>0, <2>5, <2>6 DEF None
      <3> QED
        BY <1>0, <2>6, <2>7, <2>8, <2>9, <3>1, <3>2, <3>3, <3>4, <3>5, <3>6, <3>7 DEF Carried
    <2>11. /\ attempts' \in Seq(Attempt) /\ Len(attempts') = Len(attempts)
           /\ \A j \in 1..Len(attempts') : Carried(j)'
           /\ \A t \in 1..Len(tokens) : Signed(t)'
      BY <1>0, <1>5, <2>3, <2>5, <2>6, <2>10, OneMoves
    <2>12. Signed(n)'
      <3>0. tokens'[n] = k
        BY <2>3, <2>5
      <3>1. CASE Adopted(i)
        <4>1. a(i).tok \in 1..Len(tokens) /\ Signed(a(i).tok) /\ k.root = tokens[a(i).tok].root
              /\ k.rid = tokens[a(i).tok].rid /\ k.model = tokens[a(i).tok].model
          BY SMTT(60), <1>0, <2>2, <3>1 DEF Carried, Adopted, None, RouteInv
        <4>2. /\ At(k.root, "done") /\ ~Adopted(k.root) /\ k.rid = a(k.root).rid
              /\ k.model = a(k.root).model
          BY <4>1 DEF Signed
        <4>3. k.root # i
          BY <1>0, <4>2
        <4>4. a(k.root)' = a(k.root)
          BY SMTT(60), <1>0, <1>5, <2>2, <4>3 DEF a
        <4> QED
          BY <2>2, <2>7, <3>0, <4>2, <4>4 DEF Signed, At, Adopted, Asked
      <3>2. CASE ~Adopted(i)
        <4>1. k.root = i
          BY <1>0, <2>2, <3>2 DEF Carried
        <4>2. a(k.root)' = at /\ ~Adopted(k.root)' /\ At(k.root, "done")'
          BY <2>6, <2>7, <2>8, <3>2, <4>1 DEF At
        <4>3. Asked(k.root)' = Asked(k.root)
          BY <2>6, <2>7, <4>1, <4>2 DEF Asked
        <4> QED
          BY <2>2, <2>6, <2>7, <3>0, <4>1, <4>2, <4>3 DEF Signed
      <3> QED
        BY <3>1, <3>2
    <2>13. Routed
      <3>1. \A t \in 1..Len(tokens') : t \in 1..Len(tokens) \/ t = n
        BY SMTT(60), <1>0, <2>3, <2>5
      <3> QED
        BY <2>11, <2>12, <3>1 DEF Routed
    <2> QED
      BY <2>3, <2>4, <2>13
  <1> QED
    BY <1>4, <1>5 DEF RedirectDecision, Given, ScopeOf, TargetOf, Token

-----------------------------------------------------------------------------
(* The client, and the routers that restart.                               *)

(* A new attempt, as it arrives at a router.                               *)
LEMMA NewAttempt ==
  ASSUME RouteInv, NEW at \in Attempt, attempts' = Append(attempts, at), tokens' = tokens,
         at.hdr = a(1).hdr, at.tok \in 0..Len(tokens), at.next = None,
         at.root = Len(attempts) + 1, at.rid = Len(attempts) + 1, at.client = NoBody,
         at.cached = at.body, at.stage = "auth", ~at.info, at.answer = "none"
  PROVE  /\ attempts' \in Seq(Attempt) /\ Len(attempts') = Len(attempts) + 1
         /\ \A j \in 1..Len(attempts') : Carried(j)'
         /\ \A t \in 1..Len(tokens') : Signed(t)'
  <1>1. /\ attempts \in Seq(Attempt) /\ Len(attempts) > 0 /\ tokens \in Seq(Claim)
        /\ \A j \in 1..Len(attempts) : Carried(j)
        /\ \A t \in 1..Len(tokens) : Signed(t)
    BY DEF RouteInv, Shape
  <1>2. PICK n : n = Len(attempts) + 1
    OBVIOUS
  <1>3. /\ attempts' \in Seq(Attempt) /\ Len(attempts') = n /\ a(n)' = at
        /\ \A j \in 1..Len(attempts) : a(j)' = a(j) /\ attempts'[j] = attempts[j]
    BY SMTT(60), <1>1, <1>2 DEF a
  <1>4. a(1)'.hdr = a(1).hdr /\ Len(attempts) \in Nat /\ Len(attempts') \in Nat
        /\ Len(attempts') >= Len(attempts)
    BY SMTT(60), <1>1, <1>2, <1>3
  <1>5. TokensKept
    BY SMTT(60), <1>1 DEF TokensKept
  <1>6. Carried(n)'
    <2>1. ~Adopted(n)'
      BY <1>3 DEF Adopted
    <2>2. a(n)'.hdr = a(1)'.hdr /\ a(n)'.tok \in 0..Len(tokens') /\ a(n)'.next \in 0..Len(tokens')
          /\ a(n)'.root \in 1..Len(attempts')
      BY SMTT(60), <1>1, <1>2, <1>3, <1>4 DEF None
    <2> QED
      BY <1>2, <1>3, <2>1, <2>2 DEF Carried
  <1>7. ASSUME NEW j \in 1..Len(attempts') PROVE Carried(j)'
    <2>1. CASE j = n
      BY <1>6, <2>1
    <2>2. CASE j # n
      <3>1. j \in 1..Len(attempts)
        BY SMTT(60), <1>1, <1>2, <1>3, <2>2
      <3>2. a(j)' = a(j) /\ Carried(j)
        BY <1>1, <1>3, <3>1
      <3> QED
        BY <1>1, <1>4, <1>5, <3>2, CarriedStays
    <2> QED
      BY <2>1, <2>2
  <1>8. ASSUME NEW t \in 1..Len(tokens) PROVE Signed(t)'
    <2>1. PICK c : c = tokens[t]
      OBVIOUS
    <2>2. Signed(t) /\ c.root \in 1..Len(attempts)
      BY <1>1, <2>1 DEF Signed
    <2>3. attempts'[c.root] = attempts[c.root]
      BY <1>3, <2>2
    <2> QED
      BY <1>4, <1>5, <2>1, <2>2, <2>3, SignedStays
  <1> QED
    BY <1>2, <1>3, <1>7, <1>8

LEMMA FollowRoutes ==
  ASSUME RouteInv, Follow
  PROVE  /\ attempts' \in Seq(Attempt) /\ Len(attempts') = Len(attempts) + 1
         /\ \A j \in 1..Len(attempts') : Carried(j)'
         /\ \A t \in 1..Len(tokens') : Signed(t)'
         /\ waits' \in 1..Len(attempts')
  <1>0. /\ attempts \in Seq(Attempt) /\ Len(attempts) > 0 /\ tokens \in Seq(Claim)
        /\ waits \in 1..Len(attempts) /\ a(waits) \in Attempt /\ Carried(waits)
    BY SMTT(60) DEF RouteInv, Shape, a
  <1>1. PICK n, t, w, request : /\ n = Len(attempts) + 1 /\ t = a(waits).next /\ w = a(waits)
                                /\ request = [w EXCEPT !.followed = @ + 1]
    OBVIOUS
  <1>2. /\ n \in Nat /\ w \in Attempt /\ w.hdr = a(1).hdr /\ w.next = t
        /\ t \in 0..Len(tokens) /\ t # None
    BY SMTT(60), <1>0, <1>1 DEF Carried, Follow
  <1>3. t \in 1..Len(tokens) /\ t \in Nat
    BY SMTT(60), <1>0, <1>2 DEF None
  <1>4. tokens[t] \in Claim /\ tokens[t].site \in Sites
    <2>1. tokens[t] \in Claim
      BY SMTT(60), <1>0, <1>3
    <2> QED
      BY <2>1 DEF Claim
  <1>5. /\ request.hdr = w.hdr /\ request.hdr \in Headers /\ request.big \in BOOLEAN
        /\ request.keeps \in BOOLEAN /\ request.followed \in Nat
        /\ w.keeps \in BOOLEAN /\ w.body \in Sent
    BY SMTT(60), <1>1, <1>2 DEF Attempt
  <1>6. PICK s, au, b, at : /\ s = tokens[t].site /\ au = w.keeps /\ b = w.body
                            /\ at = Arrives(n, s, request, t, au, b)
    OBVIOUS
  <1>60. /\ n \in Nat /\ t \in Nat /\ s \in Sites /\ au \in BOOLEAN /\ b \in Sent /\ b.model \in Names
    BY <1>2, <1>3, <1>4, <1>5, <1>6 DEF Sent
  <1>61. at = Arrives(n, s, request, t, au, b)
    BY <1>6
  <1>7. /\ at \in Attempt /\ at.hdr = request.hdr /\ at.tok = t /\ at.next = None /\ at.root = n
        /\ at.rid = n /\ at.client = NoBody /\ at.cached = at.body /\ at.stage = "auth"
        /\ ~at.info /\ at.answer = "none"
    BY <1>5, <1>60, <1>61 DEF Arrives, Attempt, Stages, Answers, Bodies, None
  <1>8. attempts' = Append(attempts, at) /\ tokens' = tokens /\ waits' = n
    BY <1>1, <1>6 DEF Follow, signed
  <1>9. /\ attempts' \in Seq(Attempt) /\ Len(attempts') = Len(attempts) + 1
        /\ \A j \in 1..Len(attempts') : Carried(j)'
        /\ \A k \in 1..Len(tokens') : Signed(k)'
    BY <1>1, <1>2, <1>5, <1>7, <1>8, NewAttempt
  <1> QED
    BY SMTT(60), <1>0, <1>1, <1>8, <1>9

LEMMA ResendRoutes ==
  ASSUME RouteInv, Resend
  PROVE  /\ attempts' \in Seq(Attempt) /\ Len(attempts') = Len(attempts) + 1
         /\ \A j \in 1..Len(attempts') : Carried(j)'
         /\ \A t \in 1..Len(tokens') : Signed(t)'
         /\ waits' \in 1..Len(attempts')
  <1>0. /\ attempts \in Seq(Attempt) /\ Len(attempts) > 0 /\ tokens \in Seq(Claim)
        /\ waits \in 1..Len(attempts) /\ a(waits) \in Attempt /\ Carried(waits)
    BY SMTT(60) DEF RouteInv, Shape, a
  <1>1. PICK n, w : n = Len(attempts) + 1 /\ w = a(waits)
    OBVIOUS
  <1>2. PICK text \in {"sent", "encoded"} :
          attempts' = Append(attempts,
              Arrives(n, w.site, w, w.tok, w.auth, [w.body EXCEPT !.text = text]))
    BY <1>1 DEF Resend
  <1>3. /\ n \in Nat /\ w \in Attempt /\ w.hdr = a(1).hdr /\ w.tok \in 0..Len(tokens)
    BY SMTT(60), <1>0, <1>1 DEF Carried
  <1>4. /\ w.hdr \in Headers /\ w.big \in BOOLEAN /\ w.keeps \in BOOLEAN /\ w.followed \in Nat
        /\ w.auth \in BOOLEAN /\ w.body \in Sent /\ w.site \in Sites
    BY <1>3 DEF Attempt
  <1>5. PICK b, t, s, au : b = [w.body EXCEPT !.text = text] /\ t = w.tok /\ s = w.site /\ au = w.auth
    OBVIOUS
  <1>6. b \in Sent
    BY <1>2, <1>4, <1>5 DEF Sent
  <1>60. b.model \in Names
    BY <1>6 DEF Sent
  <1>7. PICK at : at = Arrives(n, s, w, t, au, b)
    OBVIOUS
  <1>8. t \in Nat /\ t \in 0..Len(tokens) /\ s \in Sites /\ au \in BOOLEAN
    BY SMTT(60), <1>0, <1>3, <1>4, <1>5
  <1>9. /\ at \in Attempt /\ at.hdr = w.hdr /\ at.tok = t /\ at.next = None /\ at.root = n
        /\ at.rid = n /\ at.client = NoBody /\ at.cached = at.body /\ at.stage = "auth"
        /\ ~at.info /\ at.answer = "none"
    BY <1>3, <1>4, <1>6, <1>60, <1>7, <1>8 DEF Arrives, Attempt, Stages, Answers, Bodies, None
  <1>10. attempts' = Append(attempts, at)
    BY <1>2, <1>5, <1>7
  <1>11. tokens' = tokens /\ waits' = n
    BY <1>1 DEF Resend, signed
  <1>12. /\ attempts' \in Seq(Attempt) /\ Len(attempts') = Len(attempts) + 1
         /\ \A j \in 1..Len(attempts') : Carried(j)'
         /\ \A k \in 1..Len(tokens') : Signed(k)'
    BY <1>1, <1>3, <1>8, <1>9, <1>10, <1>11, NewAttempt
  <1> QED
    BY SMTT(60), <1>0, <1>1, <1>11, <1>12

LEMMA RestartRoutes ==
  ASSUME RouteInv, NEW s \in Sites, Restart(s)
  PROVE  Routed
  <1>0. /\ attempts \in Seq(Attempt) /\ Len(attempts) > 0 /\ tokens \in Seq(Claim)
        /\ \A j \in 1..Len(attempts) : Carried(j) /\ a(j) \in Attempt
        /\ \A t \in 1..Len(tokens) : Signed(t)
    BY SMTT(60) DEF RouteInv, Shape, a
  <1>1. /\ tokens' = tokens
        /\ attempts' = [i \in 1..Len(attempts) |->
             IF a(i).site = s /\ ~At(i, "done") THEN Answered(a(i), "lost") ELSE a(i)]
    BY SMTT(60), <1>0 DEF Restart, signed
  <1>2. ASSUME NEW j \in 1..Len(attempts), NEW b, b = Answered(a(j), "lost")
        PROVE  /\ b \in Attempt /\ b.stage = "done" /\ b.answer = "lost"
               /\ b.site = a(j).site /\ b.tok = a(j).tok /\ b.body = a(j).body /\ b.hdr = a(j).hdr
               /\ b.rid = a(j).rid /\ b.info = a(j).info /\ b.cached = a(j).cached
               /\ b.client = a(j).client /\ b.model = a(j).model /\ b.next = a(j).next
               /\ b.root = a(j).root
    <2>1. a(j) \in Attempt /\ "lost" \in Answers
      BY <1>0 DEF Answers
    <2> QED
      BY SMTT(60), <1>2, <2>1, AnsweredFields
  <1>3. \A j \in 1..Len(attempts) :
          IF a(j).site = s /\ ~At(j, "done") THEN Answered(a(j), "lost") \in Attempt ELSE a(j) \in Attempt
    BY <1>0, <1>2
  <1>4. /\ attempts' \in Seq(Attempt) /\ Len(attempts') = Len(attempts)
        /\ \A j \in 1..Len(attempts) : /\ attempts'[j] = a(j)'
                                       /\ a(j)' = a(j) \/ (~At(j, "done") /\ a(j)' = Answered(a(j), "lost"))
                                       /\ At(j, "done") => a(j)' = a(j)
    BY SMTT(60), <1>0, <1>1, <1>3 DEF a
  <1>5. /\ 1 \in 1..Len(attempts) /\ a(1)'.hdr = a(1).hdr /\ Len(attempts) \in Nat
        /\ Len(attempts') \in Nat /\ Len(attempts') >= Len(attempts)
    <2>1. 1 \in 1..Len(attempts)
      BY SMTT(60), <1>0
    <2>2. a(1)'.hdr = a(1).hdr
      BY <1>2, <1>4, <2>1
    <2> QED
      BY SMTT(60), <1>0, <1>4, <2>1, <2>2
  <1>6. TokensKept
    BY SMTT(60), <1>0, <1>1 DEF TokensKept
  <1>7. ASSUME NEW j \in 1..Len(attempts) PROVE Carried(j)'
    <2>1. CASE a(j)' = a(j)
      BY <1>0, <1>5, <1>6, <2>1, CarriedStays
    <2>2. CASE a(j)' = Answered(a(j), "lost")
      <3>1. PICK b : b = Answered(a(j), "lost")
        OBVIOUS
      <3>2. /\ b \in Attempt /\ b.stage = "done" /\ b.answer = "lost"
            /\ b.site = a(j).site /\ b.tok = a(j).tok /\ b.body = a(j).body /\ b.hdr = a(j).hdr
            /\ b.rid = a(j).rid /\ b.info = a(j).info /\ b.cached = a(j).cached
            /\ b.client = a(j).client /\ b.model = a(j).model /\ b.next = a(j).next
            /\ b.root = a(j).root
        BY <1>2, <3>1
      <3>3. a(j)' = b
        BY <2>2, <3>1
      <3>4. Adopted(j)' <=> Adopted(j)
        BY <3>2, <3>3 DEF Adopted
      <3>5. Carried(j)
        BY <1>0
      <3> QED
        BY <1>1, <1>4, <1>5, <3>2, <3>3, <3>4, <3>5 DEF Carried, Contains
    <2> QED
      BY <1>4, <2>1, <2>2
  <1>8. ASSUME NEW t \in 1..Len(tokens) PROVE Signed(t)'
    <2>1. PICK c : c = tokens[t]
      OBVIOUS
    <2>2. Signed(t) /\ c.root \in 1..Len(attempts) /\ At(c.root, "done")
      BY <1>0, <2>1 DEF Signed
    <2>3. attempts'[c.root] = attempts[c.root]
      BY <1>4, <2>2 DEF a
    <2> QED
      BY <1>5, <1>6, <2>1, <2>2, <2>3, SignedStays
  <1> QED
    BY <1>1, <1>4, <1>7, <1>8 DEF Routed

LEMMA ServeRoutes ==
  ASSUME RouteInv, NEW i \in 1..Len(attempts), Serve(i)
  PROVE  Routed
  <1>1. PICK answer \in {"forbidden", "served", "unserved"} :
          attempts' = [attempts EXCEPT ![i] = Answered(a(i), answer)]
    BY DEF Serve
  <1>2. ~At(i, "done") /\ tokens' = tokens
    BY DEF Serve, At, signed
  <1>3. answer \in Answers \ {"redirected"}
    BY <1>1 DEF Answers
  <1> QED
    BY <1>1, <1>2, <1>3, AnswerPasses

-----------------------------------------------------------------------------
(* The invariant holds at first, and every step keeps it.                  *)

LEMMA RouteInit == Init => RouteInv
  <1> SUFFICES ASSUME Init PROVE RouteInv
    OBVIOUS
  <1>1. PICK request \in Requests :
          attempts = <<Arrives(1, request.site, request, None, TRUE,
                               [text |-> "sent", model |-> request.model])>>
    BY DEF Init
  <1>2. PICK at, b : b = [text |-> "sent", model |-> request.model]
                     /\ at = Arrives(1, request.site, request, None, TRUE, b)
    OBVIOUS
  <1>3. /\ request.site \in Sites /\ request.model \in Names /\ request.big \in BOOLEAN
        /\ request.keeps \in BOOLEAN /\ request.followed = 0 /\ request.hdr \in Headers
    BY <1>1, RedirectAssumption DEF Names, Headers
  <1>4. b \in Sent /\ b.model \in Names
    BY <1>2, <1>3 DEF Sent
  <1>5. PICK rs, rh, rb, rk, rf : rs = request.site /\ rh = request.hdr /\ rb = request.big
                                  /\ rk = request.keeps /\ rf = request.followed
    OBVIOUS
  <1>50. /\ rs \in Sites /\ rh \in Headers /\ rb \in BOOLEAN /\ rk \in BOOLEAN /\ rf = 0
    BY <1>3, <1>5
  <1>51. at = [site |-> rs, stage |-> "auth", tok |-> None, auth |-> TRUE,
               body |-> b, hdr |-> rh, big |-> rb, rid |-> 1, info |-> FALSE, cached |-> b,
               client |-> NoBody, model |-> b.model, answer |-> "none", next |-> None,
               root |-> 1, keeps |-> rk, followed |-> rf]
    BY <1>2, <1>5 DEF Arrives
  <1>6. /\ at \in Attempt /\ at.tok = None /\ at.next = None /\ at.root = 1 /\ at.rid = 1
        /\ at.client = NoBody /\ at.cached = at.body /\ at.stage = "auth" /\ ~at.info
        /\ at.answer = "none"
    BY <1>4, <1>50, <1>51 DEF Attempt, Stages, Answers, Bodies, None
  <1>7. attempts = <<at>>
    BY <1>1, <1>2
  <1>8. attempts \in Seq(Attempt) /\ Len(attempts) = 1 /\ a(1) = at
    BY SMTT(60), <1>6, <1>7 DEF a
  <1>9. /\ tokens = <<>> /\ verdict = <<>> /\ waits = 1
        /\ seen = [s \in Sites |-> {}] /\ accepted = [s \in Sites |-> <<>>]
    BY DEF Init
  <1>10. Shape
    BY SMTT(60), <1>8, <1>9 DEF Shape
  <1>11. Carried(1)
    <2>1. ~Adopted(1)
      BY <1>6, <1>8 DEF Adopted
    <2> QED
      BY SMTT(60), <1>6, <1>8, <1>9, <2>1 DEF Carried, None
  <1> QED
    BY SMTT(60), <1>8, <1>9, <1>10, <1>11 DEF RouteInv

(* A step of the chain changes neither the client nor, but for a redirect, *)
(* the tokens.                                                             *)
LEMMA MiddlewareRoutes ==
  ASSUME RouteInv, NEW i \in 1..Len(attempts), Middleware(i)
  PROVE  RouteInv'
  <1>0. Shape
    BY DEF RouteInv
  <1>1. Routed /\ (RedirectDecision(i) \/ (tokens' = tokens /\ verdict' = verdict))
    <2>1. CASE Authenticate(i)
      BY <2>1, AuthenticateRoutes DEF Authenticate, signed
    <2>2. CASE RedirectTarget(i)
      BY <2>2, RedirectTargetRoutes DEF RedirectTarget, signed
    <2>3. CASE AliasMiddleware(i)
      BY <2>3, AliasRoutes DEF AliasMiddleware, signed
    <2>4. CASE RedirectDecision(i)
      BY <2>4, RedirectDecisionRoutes
    <2>5. CASE Serve(i)
      BY <2>5, ServeRoutes DEF Serve, signed
    <2> QED
      BY <2>1, <2>2, <2>3, <2>4, <2>5 DEF Middleware
  <1>2. /\ tokens' \in Seq(Claim) /\ Len(verdict') = Len(tokens')
        /\ verdict' \in Seq({"valid", "early", "foreign", "late"})
    BY <1>0, <1>1, RedirectDecisionRoutes DEF Shape
  <1>3. waits' = waits
    BY DEF Middleware, Authenticate, RedirectTarget, AliasMiddleware, RedirectDecision, Serve
  <1>4. seen' \in [Sites -> SUBSET Nat] /\ accepted' \in [Sites -> Seq(Nat)]
    <2>1. CASE RedirectTarget(i)
      <3>1. PICK s, t : s = a(i).site /\ t = a(i).tok
        OBVIOUS
      <3>2. s \in Sites /\ t \in Nat
        <4>1. a(i) \in Attempt
          BY SMTT(60), <1>0 DEF Shape, a
        <4> QED
          BY <3>1, <4>1 DEF Attempt
      <3>3. Recorded(s, t) \in SUBSET Nat
        BY <1>0, <3>2 DEF Recorded, Shape
      <3>4. /\ seen' = seen \/ seen' = [seen EXCEPT ![s] = Recorded(s, t)]
            /\ accepted' = accepted \/ accepted' = [accepted EXCEPT ![s] = Append(accepted[s], t)]
        BY <2>1, <3>1 DEF RedirectTarget
      <3>5. Append(accepted[s], t) \in Seq(Nat)
        BY SMTT(60), <1>0, <3>2 DEF Shape
      <3>6. seen' \in [Sites -> SUBSET Nat]
        BY <1>0, <3>3, <3>4 DEF Shape
      <3>7. accepted' \in [Sites -> Seq(Nat)]
        BY <1>0, <3>4, <3>5 DEF Shape
      <3> QED
        BY <3>6, <3>7
    <2>2. CASE ~RedirectTarget(i)
      <3>1. seen' = seen /\ accepted' = accepted
        BY <2>2 DEF Middleware, Authenticate, AliasMiddleware, RedirectDecision, Serve
      <3> QED
        BY <1>0, <3>1 DEF Shape
    <2> QED
      BY <2>1, <2>2
  <1> QED
    BY <1>0, <1>1, <1>2, <1>3, <1>4 DEF RouteInv, Shape, Routed

LEMMA RouteStep == RouteInv /\ [Next]_vars => RouteInv'
  <1> SUFFICES ASSUME RouteInv, [Next]_vars PROVE RouteInv'
    OBVIOUS
  <1>0. Shape /\ attempts \in Seq(Attempt) /\ tokens \in Seq(Claim)
    BY DEF RouteInv, Shape
  <1>1. ASSUME NEW i \in DOMAIN attempts, Middleware(i) PROVE RouteInv'
    BY SMTT(60), <1>0, <1>1, MiddlewareRoutes
  <1>2. CASE Follow
    <2>1. /\ tokens' = tokens /\ verdict' = verdict /\ seen' = seen /\ accepted' = accepted
      BY <1>2 DEF Follow, signed
    <2> QED
      BY SMTT(60), <1>0, <1>2, <2>1, FollowRoutes DEF RouteInv, Shape
  <1>3. CASE Resend
    <2>1. /\ tokens' = tokens /\ verdict' = verdict /\ seen' = seen /\ accepted' = accepted
      BY <1>3 DEF Resend, signed
    <2> QED
      BY SMTT(60), <1>0, <1>3, <2>1, ResendRoutes DEF RouteInv, Shape
  <1>4. ASSUME attempts' = attempts, tokens' = tokens, waits' = waits,
               seen' = seen, accepted' = accepted, Len(verdict') = Len(verdict),
               verdict' \in Seq({"valid", "early", "foreign", "late"})
        PROVE  RouteInv'
    <2>1. \A j : a(j)' = a(j)
      BY <1>4 DEF a
    <2>2. TokensKept /\ Len(attempts) \in Nat
      BY SMTT(60), <1>0, <1>4 DEF TokensKept
    <2>3. ASSUME NEW j \in 1..Len(attempts) PROVE Carried(j)'
      <3>1. Carried(j)
        BY DEF RouteInv
      <3> QED
        BY SMTT(60), <1>0, <1>4, <2>1, <2>2, <3>1, CarriedStays
    <2>4. ASSUME NEW t \in 1..Len(tokens) PROVE Signed(t)'
      <3>1. PICK c : c = tokens[t]
        OBVIOUS
      <3>2. Signed(t) /\ attempts'[c.root] = attempts[c.root] /\ a(1)'.hdr = a(1).hdr
        BY <1>4, <2>1 DEF RouteInv
      <3>3. Len(attempts') \in Nat /\ Len(attempts') >= Len(attempts)
        BY SMTT(60), <1>4, <2>2
      <3> QED
        BY <2>2, <3>1, <3>2, <3>3, SignedStays
    <2> QED
      BY <1>0, <1>4, <2>3, <2>4 DEF RouteInv, Shape
  <1>5. ASSUME NEW t \in DOMAIN tokens, Tick(t) PROVE RouteInv'
    <2>1. /\ attempts' = attempts /\ tokens' = tokens /\ waits' = waits
          /\ seen' = seen /\ accepted' = accepted
          /\ \E v \in {"valid", "late"} : verdict' = [verdict EXCEPT ![t] = v]
      BY <1>5 DEF Tick
    <2>2. Len(verdict') = Len(verdict) /\ verdict' \in Seq({"valid", "early", "foreign", "late"})
      BY SMTT(60), <1>0, <2>1 DEF Shape
    <2> QED
      BY <1>4, <2>1, <2>2
  <1>6. ASSUME NEW s \in Sites,
               (\E doc \in Docs : Replace(s, doc)) \/ HintsExpire(s) \/ Health(s) \/ Revoke(s)
        PROVE  RouteInv'
    <2>1. /\ attempts' = attempts /\ tokens' = tokens /\ waits' = waits
          /\ seen' = seen /\ accepted' = accepted /\ verdict' = verdict
      BY <1>6 DEF Replace, HintsExpire, Health, Revoke, signed
    <2> QED
      BY <1>0, <1>4, <2>1 DEF Shape
  <1>7. ASSUME NEW s \in Sites, Restart(s) PROVE RouteInv'
    <2>1. Routed
      BY <1>7, RestartRoutes
    <2>2. /\ tokens' = tokens /\ verdict' = verdict /\ waits' = waits
          /\ seen' = [seen EXCEPT ![s] = {}] /\ accepted' = [accepted EXCEPT ![s] = <<>>]
      BY <1>7 DEF Restart, signed
    <2> QED
      BY SMTT(60), <1>0, <2>1, <2>2 DEF RouteInv, Shape, Routed
  <1>8. CASE UNCHANGED vars
    BY <1>0, <1>4, <1>8 DEF vars, Shape
  <1> QED
    BY <1>1, <1>2, <1>3, <1>5, <1>6, <1>7, <1>8 DEF Next

(* Whatever the maps of the routers in between say, a redirected request   *)
(* is taken only inside the scope it asked for where it landed             *)
(* (RedirectDecision, tokenAuth.inScope).                                  *)
THEOREM ScopeTravels == Spec => []ScopeKept
  <1>1. RouteInv => ScopeKept
    <2> SUFFICES ASSUME RouteInv, NEW i \in DOMAIN attempts, Adopted(i)
                 PROVE  Contains(IF a(i).hdr = "absent" THEN Country[a(a(i).root).site]
                                                        ELSE a(i).hdr, a(i).site)
      BY DEF ScopeKept
    <2>1. tokens \in Seq(Claim) /\ i \in 1..Len(attempts) /\ Carried(i)
      BY SMTT(60) DEF RouteInv, Shape
    <2>2. a(i).tok \in 1..Len(tokens)
      BY <2>1, TokenIn
    <2>3. PICK c : c = tokens[a(i).tok]
      OBVIOUS
    <2>4. c.scope = Asked(c.root) /\ c.root = a(i).root /\ a(i).hdr = a(1).hdr
      BY <2>1, <2>2, <2>3 DEF RouteInv, Signed, Carried
    <2>5. Contains(c.scope, a(i).site)
      BY <2>1, <2>3 DEF Carried, Adopted
    <2> QED
      BY <2>4, <2>5 DEF Asked
  <1> QED
    BY <1>1, RouteInit, RouteStep, PTL DEF Spec

(* Every hop of a request carries the ID, the model and the origin of the  *)
(* router it landed on, and its token is signed for the bytes the client   *)
(* will send again (RedirectTarget, clientBody).                           *)
THEOREM RequestTravels == Spec => []SameRequest
  <1>1. RouteInv => SameRequest
    <2> SUFFICES ASSUME RouteInv PROVE SameRequest
      OBVIOUS
    <2>0. tokens \in Seq(Claim) /\ DOMAIN attempts = 1..Len(attempts)
      BY SMTT(60) DEF RouteInv, Shape
    <2>1. ASSUME NEW i \in DOMAIN attempts, Adopted(i)
          PROVE  /\ a(i).rid = a(a(i).root).rid /\ a(i).model = a(a(i).root).model
                 /\ tokens[a(i).tok].from = a(a(i).root).site
      <3>1. Carried(i)
        BY <2>0 DEF RouteInv
      <3>2. a(i).tok \in 1..Len(tokens)
        BY <2>0, <2>1, <3>1, TokenIn
      <3>3. PICK c : c = tokens[a(i).tok]
        OBVIOUS
      <3>4. a(i).root = c.root /\ a(i).rid = c.rid /\ a(i).model = c.model
        BY <2>1, <3>1, <3>3 DEF Carried
      <3>5. Signed(a(i).tok)
        BY <3>2 DEF RouteInv
      <3>6. c.rid = a(c.root).rid /\ c.model = a(c.root).model /\ c.from = a(c.root).site
        BY <3>3, <3>5 DEF Signed
      <3> QED
        BY <3>3, <3>4, <3>6
    <2>2. ASSUME NEW i \in DOMAIN attempts, a(i).next # None
          PROVE  tokens[a(i).next].body = a(i).body
      BY <2>0, <2>2 DEF RouteInv, Carried
    <2> QED
      BY <2>1, <2>2 DEF SameRequest
  <1> QED
    BY <1>1, RouteInit, RouteStep, PTL DEF Spec

-----------------------------------------------------------------------------
(* A token is accepted once.                                               *)

LEMMA MemoryStays ==
  ASSUME RouteInv, NEW s \in Sites, Memory(s), seen'[s] = seen[s], accepted'[s] = accepted[s],
         Len(tokens') \in Nat, Len(tokens') >= Len(tokens),
         \A t \in 1..Len(tokens) : verdict[t] = "late" => verdict'[t] = "late"
  PROVE  Memory(s)'
  <1>1. tokens \in Seq(Claim)
    BY DEF RouteInv, Shape
  <1>2. ASSUME NEW k \in 1..Len(accepted[s])
        PROVE  /\ accepted[s][k] \in 1..Len(tokens')
               /\ accepted[s][k] \in seen[s] \/ verdict'[accepted[s][k]] = "late"
    <2>1. accepted[s][k] \in 1..Len(tokens)
      BY DEF Memory
    <2> QED
      BY SMTT(60), <1>1, <2>1 DEF Memory
  <1> QED
    BY <1>2 DEF Memory

LEMMA PendingStays ==
  ASSUME NEW i, Pending(i), a(i)' = a(i), verdict'[a(i).tok] = verdict[a(i).tok]
  PROVE  Pending(i)'
  BY DEF Pending, At

(* A step of the chain that leaves i elsewhere than at RedirectTarget.     *)
LEMMA PendingMoves ==
  ASSUME UseInv, NEW i \in 1..Len(attempts), NEW at, attempts' = [attempts EXCEPT ![i] = at],
         at.stage = "target" /\ at.info => verdict'[at.tok] = "valid",
         \A t \in 1..Len(tokens) : verdict'[t] = verdict[t]
  PROVE  \A j \in 1..Len(attempts') : Pending(j)'
  <1>1. attempts \in Seq(Attempt) /\ tokens \in Seq(Claim) /\ RouteInv
    BY DEF UseInv, RouteInv, Shape
  <1>2. Len(attempts') = Len(attempts) /\ \A j \in 1..Len(attempts) : a(j)' = IF j = i THEN at ELSE a(j)
    BY SMTT(60), <1>1 DEF a
  <1>3. ASSUME NEW j \in 1..Len(attempts) PROVE Pending(j)'
    <2>1. CASE j = i
      BY <1>2, <2>1 DEF Pending, At
    <2>2. CASE j # i
      <3>1. a(j)' = a(j) /\ Pending(j) /\ Carried(j)
        BY <1>2, <2>2 DEF UseInv, RouteInv
      <3>2. a(j).info => a(j).tok \in 1..Len(tokens)
        BY <1>1, <3>1, TokenIn
      <3> QED
        BY <3>1, <3>2 DEF Pending, At
    <2> QED
      BY <2>1, <2>2
  <1> QED
    BY <1>2, <1>3

LEMMA RedirectTargetUses ==
  ASSUME UseInv, NEW i \in 1..Len(attempts), RedirectTarget(i)
  PROVE  (\A s \in Sites : Memory(s)') /\ (\A j \in 1..Len(attempts') : Pending(j)')
  <1>0. /\ RouteInv /\ Shape /\ Carried(i) /\ a(i) \in Attempt /\ Pending(i) /\ At(i, "target")
        /\ tokens' = tokens /\ verdict' = verdict /\ tokens \in Seq(Claim)
    BY SMTT(60) DEF UseInv, RouteInv, Shape, a, RedirectTarget, signed
  <1>1. PICK s, t, at :
          /\ s = a(i).site /\ t = a(i).tok
          /\ attempts' = [attempts EXCEPT ![i] = at]
          /\ at = CASE a(i).big -> Answered(a(i), "too_large")
                   [] ~a(i).big /\ ~a(i).info -> Passed(a(i), "alias")
                   [] (~a(i).big /\ a(i).info /\ tokens[t].body = a(i).body) /\ First(s, t) -> Adopt(a(i), tokens[t])
                   [] OTHER -> Refuse(a(i))
          /\ seen' = IF ~a(i).big /\ a(i).info /\ tokens[t].body = a(i).body
                     THEN [seen EXCEPT ![s] = Recorded(s, t)] ELSE seen
          /\ accepted' = IF at.client # NoBody THEN [accepted EXCEPT ![s] = Append(@, t)] ELSE accepted
    BY DEF RedirectTarget
  <1>2. s \in Sites /\ t \in Nat /\ a(i).client = NoBody
    BY <1>0, <1>1 DEF Attempt, Carried, At
  <1>3. seen \in [Sites -> SUBSET Nat] /\ accepted \in [Sites -> Seq(Nat)]
    BY <1>0 DEF Shape
  <1>4. \A r \in Sites : Memory(r)
    BY DEF UseInv
  <1>5. CASE /\ ~a(i).big /\ a(i).info /\ tokens[t].body = a(i).body /\ First(s, t)
    <2>1. /\ t \in 1..Len(tokens) /\ verdict[t] = "valid"
      BY <1>0, <1>1, <1>5, TokenIn DEF Pending
    <2>2. at = Adopt(a(i), tokens[t]) /\ tokens[t] \in Claim
      BY SMTT(60), <1>0, <1>1, <1>5, <2>1
    <2>3. at.client = a(i).body /\ a(i).body \in Sent /\ at.stage = "alias"
      BY SMTT(60), <1>0, <2>2, AdoptFields DEF Attempt
    <2>4. /\ seen' = [seen EXCEPT ![s] = Recorded(s, t)]
          /\ accepted' = [accepted EXCEPT ![s] = Append(accepted[s], t)]
      BY <1>1, <1>5, <2>3, SentIsNotNone
    <2>5. t \notin seen[s]
      BY <1>5, <2>1 DEF First
    <2>6. \A k \in 1..Len(accepted[s]) : accepted[s][k] # t
      BY SMTT(60), <1>2, <1>4, <2>1, <2>5 DEF Memory
    <2>7. Memory(s)'
      <3>1. PICK old, new, n : old = accepted[s] /\ new = accepted'[s] /\ n = Len(old)
        OBVIOUS
      <3>2. /\ old \in Seq(Nat) /\ n \in Nat /\ Len(new) = n + 1 /\ new[n + 1] = t
            /\ \A k \in 1..n : new[k] = old[k]
        BY SMTT(60), <1>2, <1>3, <2>4, <3>1
      <3>3. \A k \in 1..n : /\ old[k] \in 1..Len(tokens) /\ old[k] # t
                            /\ old[k] \in seen[s] \/ verdict[old[k]] = "late"
        BY <1>2, <1>4, <2>6, <3>1 DEF Memory
      <3>4. seen'[s] = {k \in seen[s] : verdict[k] # "late"} \cup {t}
        BY <1>2, <1>3, <2>4 DEF Recorded
      <3>5. \A k \in 1..(n + 1) : k \in 1..n \/ k = n + 1
        BY SMTT(60), <3>2
      <3>6. ASSUME NEW k \in 1..Len(new)
            PROVE  /\ new[k] \in 1..Len(tokens)
                   /\ new[k] \in seen'[s] \/ verdict[new[k]] = "late"
        <4>1. CASE k = n + 1
          BY <2>1, <3>2, <3>4, <4>1
        <4>2. CASE k \in 1..n
          BY <3>2, <3>3, <3>4, <4>2
        <4> QED
          BY <3>2, <3>5, <4>1, <4>2
      <3>7. \A j, k \in 1..n : old[j] = old[k] => j = k
        BY <1>2, <1>4, <3>1 DEF Memory
      <3>8. \A j, k \in 1..Len(new) : new[j] = new[k] => j = k
        BY <3>2, <3>3, <3>5, <3>7
      <3>9. \A k \in seen[s] : \E j \in 1..n : old[j] = k
        BY <1>2, <1>4, <3>1 DEF Memory
      <3>10. ASSUME NEW u \in seen'[s] PROVE \E k \in 1..Len(new) : new[k] = u
        <4>1. CASE u = t
          BY SMTT(60), <3>2, <4>1
        <4>2. CASE u \in seen[s]
          <5>1. PICK j \in 1..n : old[j] = u
            BY <3>9, <4>2
          <5>2. j \in 1..Len(new) /\ new[j] = u
            BY SMTT(60), <3>2, <5>1
          <5> QED
            BY <5>2
        <4> QED
          BY <3>4, <4>1, <4>2
      <3> QED
        BY <1>0, <3>1, <3>6, <3>8, <3>10 DEF Memory
    <2>8. ASSUME NEW r \in Sites, r # s PROVE Memory(r)'
      <3>1. seen'[r] = seen[r] /\ accepted'[r] = accepted[r]
        BY <1>2, <1>3, <2>4, <2>8
      <3> QED
        BY SMTT(60), <1>0, <1>4, <3>1, MemoryStays
    <2> QED
      BY <1>0, <1>1, <2>3, <2>7, <2>8, PendingMoves
  <1>6. CASE ~(~a(i).big /\ a(i).info /\ tokens[t].body = a(i).body /\ First(s, t))
    <2>1. at.client = NoBody /\ at.stage # "target"
      <3>1. \/ at = Answered(a(i), "too_large") \/ at = Passed(a(i), "alias")
            \/ at = Afresh(a(i)) \/ at = Answered(a(i), "unauthorized")
        BY <1>1, <1>6 DEF Refuse
      <3>2. a(i) \in Attempt /\ a(i).client = NoBody
        BY <1>0, <1>2
      <3> HIDE DEF NoBody
      <3> QED
        BY <3>1, <3>2 DEF Answered, Passed, Afresh, Attempt
    <2>2. accepted' = accepted
      BY <1>1, <2>1
    <2>3. CASE seen' = seen
      <3>1. ASSUME NEW r \in Sites PROVE Memory(r)'
        <4>1. Len(tokens') \in Nat /\ Len(tokens') >= Len(tokens)
          BY SMTT(60), <1>0
        <4> QED
          BY <1>0, <1>4, <2>2, <2>3, <4>1, MemoryStays
      <3> QED
        BY <1>0, <1>1, <2>1, <3>1, PendingMoves
    <2>4. CASE a(i).info /\ t \in seen[s] /\ seen' = [seen EXCEPT ![s] = Recorded(s, t)]
      <3>1. t \in 1..Len(tokens) /\ verdict[t] = "valid"
        BY <1>0, <1>1, <2>4, TokenIn DEF Pending
      <3>2. seen'[s] = {k \in seen[s] : verdict[k] # "late"}
        BY <1>2, <1>3, <2>4, <3>1 DEF Recorded
      <3>3. Memory(s)'
        BY SMTT(60), <1>0, <1>2, <1>4, <2>2, <3>2 DEF Memory
      <3>4. ASSUME NEW r \in Sites, r # s PROVE Memory(r)'
        <4>1. seen'[r] = seen[r] /\ accepted'[r] = accepted[r]
          BY <1>2, <1>3, <2>2, <2>4, <3>4
        <4> QED
          BY SMTT(60), <1>0, <1>4, <4>1, MemoryStays
      <3> QED
        BY <1>0, <1>1, <2>1, <3>3, <3>4, PendingMoves
    <2> QED
      BY <1>1, <1>6, <2>3, <2>4 DEF First
  <1> QED
    BY <1>5, <1>6

LEMMA OtherMiddlewareUses ==
  ASSUME UseInv, NEW i \in 1..Len(attempts), Middleware(i), ~RedirectTarget(i)
  PROVE  (\A s \in Sites : Memory(s)') /\ (\A j \in 1..Len(attempts') : Pending(j)')
  <1>0. /\ RouteInv /\ Carried(i) /\ a(i) \in Attempt /\ tokens \in Seq(Claim)
        /\ verdict \in Seq({"valid", "early", "foreign", "late"}) /\ Len(verdict) = Len(tokens)
        /\ \A s \in Sites : Memory(s)
    BY SMTT(60) DEF UseInv, RouteInv, Shape, a
  <1>1. seen' = seen /\ accepted' = accepted
    BY DEF Middleware, Authenticate, AliasMiddleware, RedirectDecision, Serve
  <1>2. /\ Len(tokens') \in Nat /\ Len(tokens') >= Len(tokens)
        /\ \A t \in 1..Len(tokens) : verdict'[t] = verdict[t]
    <2>1. CASE tokens' = tokens /\ verdict' = verdict
      BY SMTT(60), <1>0, <2>1
    <2>2. CASE RedirectDecision(i)
      <3>1. TokensKept
        BY <1>0, <2>2, RedirectDecisionRoutes
      <3>2. verdict' = verdict \/ \E v : verdict' = Append(verdict, v)
        BY <2>2 DEF RedirectDecision
      <3>3. \A t \in 1..Len(tokens) : verdict'[t] = verdict[t]
        BY SMTT(60), <1>0, <3>2
      <3>4. Len(tokens') \in Nat /\ Len(tokens') >= Len(tokens)
        BY SMTT(60), <3>1 DEF TokensKept
      <3> QED
        BY <3>3, <3>4
    <2> QED
      BY <2>1, <2>2 DEF Middleware, Authenticate, AliasMiddleware, Serve, signed
  <1>3. ASSUME NEW s \in Sites PROVE Memory(s)'
    BY <1>0, <1>1, <1>2, MemoryStays
  <1>4. PICK at : /\ attempts' = [attempts EXCEPT ![i] = at]
                  /\ at.stage = "target" /\ at.info => verdict[at.tok] = "valid" /\ at.tok = a(i).tok
    <2>1. CASE Authenticate(i)
      <3>0. ~a(i).info
        BY <1>0, <2>1 DEF Authenticate, Carried, At
      <3>1. CASE attempts' = [attempts EXCEPT ![i] = Answered(a(i), "unauthorized")]
        <4>1. Answered(a(i), "unauthorized").stage # "target"
          BY <1>0 DEF Answered, Attempt
        <4> QED
          BY <3>1, <4>1
      <3>2. CASE attempts' = [attempts EXCEPT ![i] = Passed(a(i), "target")]
        <4>1. ~Passed(a(i), "target").info
          BY <1>0, <3>0 DEF Passed, Attempt
        <4> QED
          BY <3>2, <4>1
      <3>3. CASE /\ check(a(i).site, a(i).tok)
                 /\ attempts' = [attempts EXCEPT ![i] = Verified(a(i))]
        <4>1. Verified(a(i)).tok = a(i).tok
          BY <1>0 DEF Verified, Attempt
        <4>2. verdict[a(i).tok] = "valid"
          BY <3>3 DEF check
        <4> QED
          BY <3>3, <4>1, <4>2
      <3> QED
        BY <2>1, <3>1, <3>2, <3>3 DEF Authenticate, onKey, tokenAuth
    <2>2. CASE AliasMiddleware(i)
      <3>1. \/ \E m : attempts' = [attempts EXCEPT ![i] = Resolved(a(i), m)]
            \/ attempts' = [attempts EXCEPT ![i] = Answered(a(i), "unavailable")]
            \/ attempts' = [attempts EXCEPT ![i] = Passed(a(i), "decide")]
        BY <2>2 DEF AliasMiddleware, resolveAlias
      <3>2. /\ \A m : Resolved(a(i), m).stage = "decide"
            /\ Answered(a(i), "unavailable").stage = "done"
            /\ Passed(a(i), "decide").stage = "decide"
        BY <1>0 DEF Resolved, Answered, Passed, Attempt
      <3> QED
        BY <3>1, <3>2
    <2>3. CASE RedirectDecision(i)
      <3>1. \/ attempts' = [attempts EXCEPT ![i] = Passed(a(i), "serve")]
            \/ attempts' = [attempts EXCEPT ![i] = Answered(a(i), "bad_scope")]
            \/ \E t : attempts' = [attempts EXCEPT ![i] = Redirected(a(i), t)]
        BY <2>3 DEF RedirectDecision, Stays
      <3>2. /\ \A t : Redirected(a(i), t).stage = "done"
            /\ Answered(a(i), "bad_scope").stage = "done"
            /\ Passed(a(i), "serve").stage = "serve"
        BY <1>0 DEF Redirected, Answered, Passed, Attempt
      <3> QED
        BY <3>1, <3>2
    <2>4. CASE Serve(i)
      <3>1. \E answer : attempts' = [attempts EXCEPT ![i] = Answered(a(i), answer)]
        BY <2>4 DEF Serve
      <3>2. \A answer : Answered(a(i), answer).stage = "done"
        BY <1>0 DEF Answered, Attempt
      <3> QED
        BY <3>1, <3>2
    <2> QED
      BY <2>1, <2>2, <2>3, <2>4 DEF Middleware
  <1>5. at.stage = "target" /\ at.info => verdict'[at.tok] = "valid"
    <2> SUFFICES ASSUME at.stage = "target", at.info PROVE verdict'[at.tok] = "valid"
      OBVIOUS
    <2>1. verdict[at.tok] = "valid" /\ at.tok = a(i).tok
      BY <1>4
    <2>2. CASE RedirectDecision(i)
      <3>1. PICK b : attempts' = [attempts EXCEPT ![i] = b] /\ b.stage # "target"
        <4>1. \/ attempts' = [attempts EXCEPT ![i] = Passed(a(i), "serve")]
              \/ attempts' = [attempts EXCEPT ![i] = Answered(a(i), "bad_scope")]
              \/ \E t : attempts' = [attempts EXCEPT ![i] = Redirected(a(i), t)]
          BY <2>2 DEF RedirectDecision, Stays
        <4>2. /\ \A t : Redirected(a(i), t).stage = "done"
              /\ Answered(a(i), "bad_scope").stage = "done"
              /\ Passed(a(i), "serve").stage = "serve"
          BY <1>0 DEF Redirected, Answered, Passed, Attempt
        <4> QED
          BY <4>1, <4>2
      <3>2. attempts'[i] = b /\ attempts'[i] = at
        <4>1. attempts \in Seq(Attempt)
          BY <1>0 DEF RouteInv, Shape
        <4> QED
          BY SMTT(60), <1>4, <3>1, <4>1
      <3> QED
        BY <3>1, <3>2
    <2>3. CASE ~RedirectDecision(i)
      BY <2>1, <2>3 DEF Middleware, Authenticate, AliasMiddleware, Serve, signed
    <2> QED
      BY <2>2, <2>3
  <1> QED
    BY <1>2, <1>3, <1>4, <1>5, PendingMoves

LEMMA UseStep ==
  ASSUME ~SlowBody, UseInv, [Next]_vars
  PROVE  UseInv'
  <1>0. /\ RouteInv /\ attempts \in Seq(Attempt) /\ tokens \in Seq(Claim)
        /\ verdict \in Seq({"valid", "early", "foreign", "late"}) /\ Len(verdict) = Len(tokens)
        /\ seen \in [Sites -> SUBSET Nat] /\ accepted \in [Sites -> Seq(Nat)]
        /\ \A s \in Sites : Memory(s)
        /\ \A i \in 1..Len(attempts) : Pending(i) /\ Carried(i)
    BY DEF UseInv, RouteInv, Shape
  <1>1. RouteInv'
    BY <1>0, RouteStep
  <1>2. ASSUME NEW i \in DOMAIN attempts, Middleware(i) PROVE UseInv'
    <2>1. i \in 1..Len(attempts)
      BY SMTT(60), <1>0
    <2>2. (\A s \in Sites : Memory(s)') /\ (\A j \in 1..Len(attempts') : Pending(j)')
      BY <1>2, <2>1, RedirectTargetUses, OtherMiddlewareUses
    <2> QED
      BY <1>1, <2>2 DEF UseInv
  <1>3. ASSUME tokens' = tokens, seen' = seen, accepted' = accepted,
               \A t \in 1..Len(tokens) : verdict[t] = "late" => verdict'[t] = "late"
        PROVE  \A s \in Sites : Memory(s)'
    BY SMTT(60), <1>0, <1>3, MemoryStays
  <1>4. CASE Follow \/ Resend
    <2>1. /\ tokens' = tokens /\ verdict' = verdict /\ seen' = seen /\ accepted' = accepted
      BY <1>4 DEF Follow, Resend, signed
    <2>2. PICK at : attempts' = Append(attempts, at) /\ at.stage = "auth"
      BY SMTT(60), <1>4 DEF Follow, Resend, Arrives
    <2>3. ASSUME NEW j \in 1..Len(attempts') PROVE Pending(j)'
      <3>1. CASE j \in 1..Len(attempts)
        <4>1. a(j)' = a(j) /\ Pending(j)
          BY SMTT(60), <1>0, <2>2, <3>1 DEF a
        <4> QED
          BY <2>1, <4>1 DEF Pending, At
      <3>2. CASE j = Len(attempts) + 1
        <4>1. a(j)' = at
          BY SMTT(60), <1>0, <2>2, <3>2 DEF a
        <4> QED
          BY <2>2, <4>1 DEF Pending, At
      <3> QED
        BY SMTT(60), <1>0, <2>2, <3>1, <3>2
    <2> QED
      BY <1>1, <1>3, <2>1, <2>3 DEF UseInv
  <1>5. ASSUME NEW t \in DOMAIN tokens, Tick(t) PROVE UseInv'
    <2>1. /\ attempts' = attempts /\ tokens' = tokens /\ seen' = seen /\ accepted' = accepted
          /\ \A j : a(j)' = a(j)
      BY <1>5 DEF Tick, a
    <2>2. /\ \/ verdict[t] = "early" /\ verdict' = [verdict EXCEPT ![t] = "valid"]
             \/ /\ verdict[t] = "valid"
                /\ \A i \in 1..Len(attempts) : ~ (At(i, "target") /\ a(i).tok = t)
                /\ verdict' = [verdict EXCEPT ![t] = "late"]
      <3>1. \/ verdict[t] = "early" /\ verdict' = [verdict EXCEPT ![t] = "valid"]
            \/ /\ verdict[t] = "valid"
               /\ \A i \in DOMAIN attempts : ~ (At(i, "target") /\ a(i).tok = t)
               /\ verdict' = [verdict EXCEPT ![t] = "late"]
        BY <1>5 DEF Tick
      <3>2. DOMAIN attempts = 1..Len(attempts)
        BY SMTT(60), <1>0
      <3> QED
        BY <3>1, <3>2
    <2>3. t \in 1..Len(tokens)
      BY SMTT(60), <1>0
    <2>4. \A u \in 1..Len(tokens) : verdict'[u] = IF u = t THEN verdict'[t] ELSE verdict[u]
      BY SMTT(60), <1>0, <2>2, <2>3
    <2>5. \A u \in 1..Len(tokens) : verdict[u] = "late" => verdict'[u] = "late"
      BY <2>2, <2>4
    <2>6. ASSUME NEW j \in 1..Len(attempts), At(j, "target"), a(j).info
          PROVE  verdict'[a(j).tok] = "valid"
      <3>1. a(j).tok \in 1..Len(tokens) /\ verdict[a(j).tok] = "valid"
        BY <1>0, <2>6, TokenIn DEF Pending
      <3>2. a(j).tok # t
        BY <2>2, <2>6, <3>1
      <3> QED
        BY <2>4, <3>1, <3>2
    <2>7. ASSUME NEW j \in 1..Len(attempts) PROVE Pending(j)'
      BY <2>1, <2>6 DEF Pending, At
    <2> QED
      BY <1>1, <1>3, <2>1, <2>5, <2>7 DEF UseInv
  <1>6. ASSUME NEW s \in Sites, Restart(s) PROVE UseInv'
    <2>1. /\ tokens' = tokens /\ verdict' = verdict
          /\ seen' = [seen EXCEPT ![s] = {}] /\ accepted' = [accepted EXCEPT ![s] = <<>>]
          /\ attempts' = [i \in 1..Len(attempts) |->
               IF a(i).site = s /\ ~At(i, "done") THEN Answered(a(i), "lost") ELSE a(i)]
      BY SMTT(60), <1>0, <1>6 DEF Restart, signed
    <2>2. Memory(s)'
      <3>1. seen'[s] = {} /\ accepted'[s] = <<>>
        BY <1>0, <2>1
      <3> QED
        BY SMTT(60), <3>1 DEF Memory
    <2>3. ASSUME NEW r \in Sites, r # s PROVE Memory(r)'
      <3>1. seen'[r] = seen[r] /\ accepted'[r] = accepted[r]
        BY <1>0, <2>1, <2>3
      <3> QED
        BY SMTT(60), <1>0, <2>1, <3>1, MemoryStays
    <2>4. ASSUME NEW j \in 1..Len(attempts) PROVE Pending(j)'
      <3>0. a(j) \in Attempt
        BY SMTT(60), <1>0 DEF a
      <3>1. CASE a(j)' = a(j)
        BY <1>0, <2>1, <3>1 DEF Pending, At
      <3>2. CASE a(j)' = Answered(a(j), "lost")
        <4>1. a(j)'.stage = "done"
          BY <3>0, <3>2 DEF Answered, Attempt
        <4> QED
          BY <4>1 DEF Pending, At
      <3> QED
        BY <2>1, <3>1, <3>2 DEF a
    <2>5. Len(attempts') = Len(attempts)
      BY <1>0, <1>6, RestartRoutes DEF Routed
    <2> QED
      BY <1>1, <2>2, <2>3, <2>4, <2>5 DEF UseInv
  <1>7. CASE \/ UNCHANGED vars
             \/ \E s \in Sites : \/ \E doc \in Docs : Replace(s, doc)
                                 \/ HintsExpire(s) \/ Health(s) \/ Revoke(s)
    <2>1. /\ attempts' = attempts /\ tokens' = tokens
          /\ seen' = seen /\ accepted' = accepted /\ verdict' = verdict
      BY <1>7 DEF Replace, HintsExpire, Health, Revoke, signed, vars
    <2>2. \A j \in 1..Len(attempts) : Pending(j)'
      BY <1>0, <2>1 DEF Pending, At, a
    <2> QED
      BY <1>1, <1>3, <2>1, <2>2 DEF UseInv
  <1> QED
    BY <1>2, <1>4, <1>5, <1>6, <1>7 DEF Next

(* A router accepts a token once, and only an accepted one enters its      *)
(* replay guard (ReplayGuard.First), provided an upload never outlasts the *)
(* token's last seconds.                                                   *)
THEOREM TokenUsedOnce ==
  ASSUME ~SlowBody
  PROVE  Spec => []UsedOnce
  <1>1. Init => UseInv
    <2> SUFFICES ASSUME Init PROVE UseInv
      OBVIOUS
    <2>1. RouteInv
      BY RouteInit
    <2>2. ASSUME NEW s \in Sites PROVE Memory(s)
      <3>1. seen[s] = {} /\ accepted[s] = <<>>
        BY DEF Init
      <3> QED
        BY SMTT(60), <3>1 DEF Memory
    <2>3. \A i \in 1..Len(attempts) : ~At(i, "target")
      BY SMTT(60) DEF Init, At, a, Arrives
    <2> QED
      BY <2>1, <2>2, <2>3 DEF UseInv, Pending
  <1>2. UseInv /\ [Next]_vars => UseInv'
    BY UseStep
  <1>3. UseInv => UsedOnce
    <2> SUFFICES ASSUME UseInv, NEW s \in Sites
                 PROVE  /\ \A j, k \in DOMAIN accepted[s] : accepted[s][j] = accepted[s][k] => j = k
                        /\ \A t \in seen[s] : \E k \in DOMAIN accepted[s] : accepted[s][k] = t
      BY DEF UsedOnce
    <2>1. accepted[s] \in Seq(Nat) /\ Memory(s)
      BY DEF UseInv, RouteInv, Shape
    <2>2. DOMAIN accepted[s] = 1..Len(accepted[s])
      BY SMTT(60), <2>1
    <2> QED
      BY <2>1, <2>2 DEF Memory
  <1> QED
    BY <1>1, <1>2, <1>3, PTL DEF Spec
=============================================================================
