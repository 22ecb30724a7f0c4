--------------------------- MODULE AgentLinkProofs ---------------------------
(***************************************************************************)
(* For every number of models, tokens, connections, renewals and faults:   *)
(* connHealthMu keeps a late heartbeat from leaving an agent healthy that  *)
(* has lost its connection, and a renewal of the session leaves no window  *)
(* in which neither of its tokens is valid.                                *)
(***************************************************************************)
EXTENDS AgentLink, TLAPS

USE ZenonT(10), SMTT(60)

-----------------------------------------------------------------------------
(* The shape of the variables the argument reads.                          *)

Beats == [st : {"none", "recv", "got", "ok", "err"}, up : BOOLEAN, ptr : BOOLEAN]

Shape ==
    /\ conns \subseteq Conn
    /\ cur = [tok |-> cur.tok, model |-> cur.model, healthy |-> cur.healthy,
              by |-> cur.by, age |-> cur.age]
    /\ cb \in [Conn -> [st : {"none", "check", "get", "lock"}, ptr : BOOLEAN]]
    /\ backend \in [up : BOOLEAN, ok : BOOLEAN, fails : 0..Threshold]
    /\ beat \in [Token -> Beats]

(* Nobody is healthy when nobody is registered, and a heartbeat that holds *)
(* the registered agent holds one.                                         *)
Registry ==
    /\ cur.tok = None => ~cur.healthy
    /\ \A t \in Token : beat[t].ptr => cur.tok # None

LinkInv == Shape /\ Registry /\ LateHeartbeat

USE DEF Beats, Shape, Registry, LateHeartbeat, Ghost, CallbackPending, LinkInv

(* The invariant holds at the start.                                       *)
LEMMA LinkInit == Init => LinkInv
  BY SMTT(60), LinkAssumption DEF Init, NoAgent, NoCb, NoBeat

(* What leaves the registry, the connections, their callbacks and the      *)
(* heartbeats alone keeps it.                                              *)
LEMMA Elsewhere == LinkInv /\ UNCHANGED <<cur, conns, cb, beat, backend>> => LinkInv'
  OBVIOUS

(* What only takes pointers away from heartbeats keeps it.                 *)
LEMMA FewerPointers ==
  ASSUME LinkInv, UNCHANGED <<cur, conns, cb, backend>>, beat' \in [Token -> Beats],
         \A t \in Token : beat'[t].ptr => beat[t].ptr
  PROVE  LinkInv'
  OBVIOUS

(* After a registration or a removal nobody holds the registered agent.    *)
LEMMA Pointerless ==
  ASSUME LinkInv, Replaced
  PROVE  /\ cb' \in [Conn -> [st : {"none", "check", "get", "lock"}, ptr : BOOLEAN]]
         /\ beat' \in [Token -> Beats] /\ \A t \in Token : ~beat'[t].ptr
  BY DEF Replaced

(* A backend that answers again has no failures counted.                   *)
LEMMA NoFailures == 0 \in 0..Threshold
  BY SMTT(60), LinkAssumption

(* The agent's side never touches the registry.                            *)
LEMMA AgentSide ==
  ASSUME LinkInv, AgentStep \/ Crash \/ Restart \/ BackendFails \/ BackendRecovers PROVE LinkInv'
  <1> USE DEF procVars, netVars, regVars, reqVars
  <1>1. CASE authenticate \/ ReRegister \/ ReRegistered \/ StoreToken \/ Restart
    BY <1>1, Elsewhere DEF authenticate, ReRegister, ReRegistered, StoreToken, Restart
  <1>6. CASE Registered \/ runBackendHealthChecker \/ BackendFails \/ BackendRecovers
    <2>1. UNCHANGED <<cur, conns, cb, beat>>
      BY <1>6 DEF Registered, runBackendHealthChecker, BackendFails, BackendRecovers
    <2>2. CASE Registered
      <3>1. backend' = [backend EXCEPT !.ok = TRUE, !.fails = 0]
        BY <2>2 DEF Registered
      <3>2. backend' \in [up : BOOLEAN, ok : BOOLEAN, fails : 0..Threshold]
        BY <3>1, NoFailures
      <3> QED BY <2>1, <3>2
    <2>3. CASE runBackendHealthChecker
      <3>1. CASE backend.up
        <4>1. backend' = [backend EXCEPT !.ok = TRUE, !.fails = 0]
          BY <2>3, <3>1 DEF runBackendHealthChecker
        <4>2. backend' \in [up : BOOLEAN, ok : BOOLEAN, fails : 0..Threshold]
          BY <4>1, NoFailures
        <4> QED BY <2>1, <4>2
      <3>2. CASE ~backend.up
        <4>1. /\ backend.fails < Threshold
              /\ backend' = [backend EXCEPT !.fails = @ + 1,
                                           !.ok = @ /\ backend.fails + 1 # Threshold]
          BY <2>3, <3>2 DEF runBackendHealthChecker
        <4>2. backend.fails + 1 \in 0..Threshold
          BY SMTT(60), <4>1, LinkAssumption
        <4>3. (backend.ok /\ backend.fails + 1 # Threshold) \in BOOLEAN
          OBVIOUS
        <4>4. backend' \in [up : BOOLEAN, ok : BOOLEAN, fails : 0..Threshold]
          BY <4>1, <4>2, <4>3
        <4> QED BY <2>1, <4>4
      <3> QED BY <3>1, <3>2
    <2>4. CASE BackendFails \/ BackendRecovers
      BY <2>1, <2>4 DEF BackendFails, BackendRecovers
    <2> QED BY <1>6, <2>2, <2>3, <2>4
  <1>2. CASE buildRouterClient
    <2>1. /\ UNCHANGED <<cur, cb, beat, backend>>
          /\ conns' \subseteq Conn /\ conns' # {}
      BY <1>2 DEF buildRouterClient, NewConns
    <2> QED BY <2>1
  <1>3. CASE RegisterFails \/ HeartbeatFails \/ Crash
    <2>1. UNCHANGED <<cur, conns, cb, backend>> /\ beat' = Unbeaten
      BY <1>3 DEF RegisterFails, HeartbeatFails, Crash, Disconnect
    <2> QED BY <2>1, FewerPointers DEF Unbeaten, NoBeat
  <1>4. CASE sendHeartbeat
    <2>1. UNCHANGED <<cur, conns, cb, backend>>
          /\ beat' = [beat EXCEPT ![agent.tok] = [st |-> "recv", up |-> backend.ok, ptr |-> FALSE]]
      BY <1>4 DEF sendHeartbeat
    <2> QED BY <2>1, FewerPointers
  <1>5. CASE HeartbeatAnswered
    <2>1. UNCHANGED <<cur, conns, cb, backend>> /\ beat' = [beat EXCEPT ![agent.hb] = NoBeat]
      BY <1>5 DEF HeartbeatAnswered
    <2> QED BY <2>1, FewerPointers DEF NoBeat
  <1> QED BY <1>1, <1>2, <1>3, <1>4, <1>5, <1>6 DEF AgentStep

(* The handlers: an installed agent is not one a heartbeat has marked, and *)
(* a heartbeat marks an agent healthy only beside a connection.            *)
LEMMA HandlerSide ==
  ASSUME LinkInv, NEW t \in Token, RegisterStep(t) \/ HeartbeatStep(t) \/ DeleteOld(t)
  PROVE  LinkInv'
  <1> USE DEF procVars, netVars, regVars, reqVars
  <1>1. CASE ValidateRegister(t) \/ InstallCheck(t) \/ FinishRegister(t) \/ DeleteOld(t)
    BY <1>1, Elsewhere DEF ValidateRegister, InstallCheck, FinishRegister, DeleteOld
  <1>2. CASE InstallRegister(t)
    <2>1. /\ cur' = [NoAgent EXCEPT !.tok = t, !.model = reg[t].model, !.healthy = reg[t].up]
          /\ Replaced /\ conns' = conns /\ backend' = backend
      BY <1>2 DEF InstallRegister
    <2>2. cur'.tok = t /\ cur'.by = "install"
      BY <2>1 DEF NoAgent
    <2>3. t # None
      BY LinkAssumption
    <2>4. cur' = [tok |-> t, model |-> reg[t].model, healthy |-> reg[t].up,
                  by |-> "install", age |-> "fresh"]
      BY <2>1 DEF NoAgent
    <2>5. Shape'
      BY <2>1, <2>4, Pointerless
    <2> QED BY <2>2, <2>3, <2>5
  <1>3. CASE HeartbeatGet(t)
    <2>1. UNCHANGED <<cur, conns, cb, backend>>
      BY <1>3 DEF HeartbeatGet
    <2>2. beat' \in [Token -> Beats]
      BY <1>3 DEF HeartbeatGet, NoBeat
    <2>3. \A u \in Token : beat'[u].ptr => cur.tok # None
      BY <1>3 DEF HeartbeatGet, NoBeat
    <2> QED BY <2>1, <2>2, <2>3
  <1>4. CASE HeartbeatApply(t)
    <2>1. UNCHANGED <<conns, cb, backend>> /\ beat' = [beat EXCEPT ![t] = Answer(t, peerConnected)]
      BY <1>4 DEF HeartbeatApply
    <2>2. /\ cur' = [tok |-> cur'.tok, model |-> cur'.model, healthy |-> cur'.healthy,
                     by |-> cur'.by, age |-> cur'.age]
          /\ cur'.tok = cur.tok
          /\ cur' = cur \/ (conns # {} /\ beat[t].ptr)
      BY <1>4 DEF HeartbeatApply, peerConnected
    <2>3. beat' \in [Token -> Beats] /\ \A u \in Token : beat'[u].ptr => beat[u].ptr
      BY <2>1 DEF Answer, NoBeat
    <2> QED BY <2>1, <2>2, <2>3
  <1> QED BY <1>1, <1>2, <1>3, <1>4 DEF RegisterStep, HeartbeatStep

(* The network: every connection that closes leaves a callback behind,     *)
(* which goes away only after it has marked the agent, or has found a      *)
(* connection, or nobody registered, or is overtaken by a registration.    *)
LEMMA NetworkSide ==
  ASSUME LinkInv, NEW c \in Conn, DisconnectStep(c) PROVE LinkInv'
  <1> USE DEF procVars, netVars, regVars, reqVars
  <1>1. CASE ConnClosed(c)
    <2>1. UNCHANGED <<cur, beat, backend>> /\ conns' = conns \ {c} /\ cb' = [cb EXCEPT ![c].st = "check"]
      BY <1>1 DEF ConnClosed
    <2>2. Shape' /\ cb'[c].st = "check"
      BY <2>1
    <2> QED BY <2>1, <2>2
  <1>2. CASE DisconnectedCheck(c)
    <2>1. /\ UNCHANGED <<cur, beat, conns, backend>>
          /\ cb' = [cb EXCEPT ![c].st = IF conns # {} THEN "none" ELSE "get"]
      BY <1>2 DEF DisconnectedCheck, peerConnected
    <2>2. Shape' /\ (conns = {} => cb'[c].st = "get")
      BY SMTT(60), <2>1
    <2> QED BY <2>1, <2>2
  <1>3. CASE DisconnectedGet(c)
    <2>1. /\ UNCHANGED <<cur, beat, conns, backend>>
          /\ cb' = [cb EXCEPT ![c] = IF cur.tok = None THEN NoCb ELSE [st |-> "lock", ptr |-> TRUE]]
      BY <1>3 DEF DisconnectedGet
    <2>2. Shape' /\ (cur.tok # None => cb'[c].st = "lock" /\ cb'[c].ptr)
      BY <2>1 DEF NoCb
    <2> QED BY <2>1, <2>2
  <1>4. CASE DisconnectedMark(c)
    <2>1. /\ UNCHANGED <<beat, conns, backend>> /\ cb[c].st = "lock"
          /\ cur' = IF cb[c].ptr THEN [cur EXCEPT !.healthy = FALSE] ELSE cur
          /\ cb' = [cb EXCEPT ![c] = NoCb]
      BY <1>4 DEF DisconnectedMark
    <2>2. Shape' /\ cur'.tok = cur.tok
      BY <2>1 DEF NoCb
    <2>3. CASE cb[c].ptr
      <3>1. ~cur'.healthy
        BY <2>1, <2>3
      <3> QED BY <2>1, <2>2, <3>1
    <2>4. CASE ~cb[c].ptr
      <3>1. cur' = cur /\ \A d \in Conn : d # c => cb'[d] = cb[d]
        BY <2>1, <2>4
      <3>2. CallbackPending => CallbackPending'
        BY <2>1, <2>4, <3>1
      <3> QED BY <2>1, <2>2, <3>1, <3>2
    <2> QED BY <2>3, <2>4
  <1> QED BY <1>1, <1>2, <1>3, <1>4 DEF DisconnectStep

(* The monitor, and time: an agent is only ever marked unhealthy, and a    *)
(* connection closed by the monitor has its callback too.                  *)
LEMMA MonitorSide ==
  ASSUME LinkInv, Expire \/ NetworkDrop \/ Age \/ MonitorStep PROVE LinkInv'
  <1> USE DEF procVars, netVars, regVars, reqVars
  <1>1. CASE Expire \/ NetworkDrop \/ MonitorRead \/ MonitorRecheck
    BY <1>1, Elsewhere DEF Expire, NetworkDrop, MonitorRead, MonitorRecheck
  <1>2. CASE Age \/ MonitorMark
    <2>1. /\ UNCHANGED <<beat, conns, cb, backend>>
          /\ cur' = [tok |-> cur.tok, model |-> cur.model, healthy |-> cur'.healthy,
                     by |-> cur.by, age |-> cur'.age]
          /\ cur'.healthy => cur.healthy
      BY <1>2 DEF Age, MonitorMark
    <2> QED BY SMTT(60), <2>1
  <1>3. CASE MonitorClose
    <2>1. /\ UNCHANGED <<cur, beat, backend>> /\ conns' = {}
          /\ cb' = [c \in Conn |-> IF c \in conns THEN [NoCb EXCEPT !.st = "check"] ELSE cb[c]]
      BY <1>3 DEF MonitorClose
    <2>2. Shape' /\ \A c \in Conn : cb'[c].st = "check" \/ cb'[c] = cb[c]
      BY <2>1 DEF NoCb
    <2>3. conns # {} => CallbackPending'
      BY <2>1 DEF NoCb
    <2>4. conns = {} => cb' = cb
      BY <2>1
    <2> QED BY <2>1, <2>2, <2>3, <2>4
  <1>4. CASE MonitorDrop
    <2>1. cur' = NoAgent /\ Replaced /\ conns' = conns /\ backend' = backend
      BY <1>4 DEF MonitorDrop, Unregister
    <2> QED BY <2>1, Pointerless DEF NoAgent
  <1> QED BY <1>1, <1>2, <1>3, <1>4 DEF MonitorStep

LEMMA LinkNext == LinkInv /\ [Next]_vars => LinkInv'
  <1>1. LinkInv /\ UNCHANGED vars => LinkInv'
    BY Elsewhere DEF vars, procVars, regVars, netVars, reqVars
  <1> QED BY <1>1, AgentSide, HandlerSide, NetworkSide, MonitorSide DEF Next

(* LateHeartbeat holds of every run of one agent and its router, whatever  *)
(* heartbeats, registrations and disconnect callbacks overtake each other. *)
THEOREM NoLateHeartbeat == Spec => []LateHeartbeat
  <1>1. LinkInv => LateHeartbeat
    OBVIOUS
  <1> QED BY <1>1, LinkInit, LinkNext, PTL DEF Spec

HIDE DEF Beats, Registry, LateHeartbeat, Ghost, CallbackPending, LinkInv

-----------------------------------------------------------------------------
(* The tokens: what the router deletes is never the token it registered    *)
(* last.                                                                   *)

Tokens == Token \cup {None}

Regs == [st : {"none", "recv", "check", "install", "finish", "ok", "err"},
         model : Model \cup {None}, old : Tokens, up : BOOLEAN]

TokenShape ==
    /\ agent \in [pc : {"wait", "connect", "registering", "session", "down"}, model : Model,
                  tok : Tokens, new : Tokens, hb : Tokens, exp : BOOLEAN]
    /\ renew \in [st : {"off", "idle", "wait", "store"}, tok : Tokens]
    /\ mon \in [st : {"idle", "mark", "recheck", "close", "drop"},
                ptr : BOOLEAN, dead : BOOLEAN, tok : Tokens]
    /\ reg \in [Token -> Regs]
    /\ timers \subseteq Token /\ cur.tok \in Tokens

(* The token is in a request that has not registered it, or will be.       *)
Coming(t) == \/ reg[t].st \in {"recv", "check", "install"}
             \/ agent.pc = "connect" /\ agent.new = t

(* Nobody has met such a token, and none that could delete it knows it.    *)
Unmet(t) == /\ t \notin timers /\ t # cur.tok /\ t # agent.tok /\ t # mon.tok
            /\ \A u \in Token : t # reg[u].old

(* What is about to be deleted is not registered.                          *)
Outdated == /\ cur.tok \notin timers
            /\ \A t \in Token : reg[t].st = "finish" /\ cur.tok # None => reg[t].old # cur.tok

(* A registration that the router has begun has a valid token.             *)
Admitted == \A t \in Token : reg[t].st \in {"check", "install"} => t \in sess

Done(t) == reg[t].st \in {"finish", "ok"}

(* The router has registered the token that the agent is about to store.   *)
Answered == \/ agent.pc = "registering" /\ Done(agent.new)
            \/ renew.st = "wait" /\ Done(renew.tok)
            \/ renew.st = "store"

(* From then on the agent's own token is not the registered one, and the   *)
(* registered one is valid even if the agent's has passed its TTL.         *)
Renewed == Answered => \/ cur.tok \in sess /\ cur.tok # agent.tok
                       \/ cur.tok = None \/ mon.st = "drop"

Renewal == /\ renew.st # "off" => agent.pc = "session"
           /\ renew.st \in {"wait", "store"} => renew.tok \in Token
           /\ renew.st = "store" => reg[renew.tok].st = "none"
           /\ agent.pc \in {"connect", "registering"} => agent.new \in Token
           /\ agent.pc = "connect" => reg[agent.new].st = "none"

TokenInv ==
    /\ TokenShape /\ Outdated /\ Admitted /\ Renewed /\ Renewal /\ TokenOverlap
    /\ \A t \in Token : Coming(t) => Unmet(t)

LEMMA TokenInit == Init => TokenInv
  <1> SUFFICES ASSUME Init PROVE TokenInv
    OBVIOUS
  <1>1. /\ agent.pc = "wait" /\ agent.tok = None /\ renew = [st |-> "off", tok |-> None]
        /\ \A t \in Token : reg[t] = NoReg
        /\ timers = {} /\ mon = NoMon /\ cur.tok = None
    BY SMTT(60) DEF Init, NoAgent
  <1>2. TokenShape
    BY SMTT(60), <1>1 DEF Init, NoReg, NoMon, TokenShape, Tokens, Regs
  <1> QED BY SMTT(60), <1>1, <1>2 DEF TokenInv, Outdated, Admitted, Renewed, Answered, Done, Renewal,
                            TokenOverlap, Coming, NoReg

(* What leaves the tokens where they are keeps it.                         *)
LEMMA TokensStay ==
  ASSUME TokenInv, UNCHANGED <<renew, reg, timers, sess>>, cur'.tok = cur.tok,
         agent' \in [pc : {"wait", "connect", "registering", "session", "down"}, model : Model,
                     tok : Tokens, new : Tokens, hb : Tokens, exp : BOOLEAN],
         agent'.pc = agent.pc, agent'.tok = agent.tok, agent'.new = agent.new,
         agent'.exp = agent.exp,
         mon' \in [st : {"idle", "mark", "recheck", "close", "drop"},
                   ptr : BOOLEAN, dead : BOOLEAN, tok : Tokens],
         (mon'.st = "drop") = (mon.st = "drop"), mon'.tok \in {mon.tok, cur.tok, None}
  PROVE  TokenInv'
  <1>1. TokenShape'
    BY DEF TokenInv, TokenShape
  <1>2. Outdated' /\ Admitted' /\ Renewed' /\ Renewal' /\ TokenOverlap'
    BY SMTT(60) DEF TokenInv, Outdated, Admitted, Renewed, Answered, Done, Renewal, TokenOverlap
  <1>3. \A t \in Token : Coming(t)' => Unmet(t)'
    BY SMTT(60), LinkAssumption DEF TokenInv, Coming, Unmet
  <1> QED BY <1>1, <1>2, <1>3 DEF TokenInv

(* Sessions that nobody holds are forgotten, and never one that matters.   *)
LEMMA Forgotten ==
  ASSUME sess' = sess \cap Held'
  PROVE  /\ cur'.tok \in sess => cur'.tok \in sess'
         /\ \A t \in Token : reg'[t].st # "none" /\ t \in sess => t \in sess'
  BY DEF Held

(* The agent takes up a token that nobody has met.                         *)
LEMMA Authenticates ==
  ASSUME TokenInv, authenticate \/ buildRouterClient \/ ReRegister PROVE TokenInv'
  <1> USE DEF procVars, netVars, regVars, reqVars
  <1>1. \A t \in NewTokens : /\ t \in Token /\ Unmet(t) /\ reg[t].st = "none"
    BY DEF NewTokens, Held, Unmet
  <1>2. CASE authenticate
    <2>1. PICK t \in NewTokens : /\ sess' = sess \cup {t}
                                 /\ agent' = [agent EXCEPT !.pc = "connect", !.new = t]
      BY <1>2 DEF authenticate, Authenticate, CreateSession
    <2>2. UNCHANGED <<renew, cur, reg, timers, mon>> /\ agent.pc = "wait"
      BY <1>2 DEF authenticate, waitForBackend
    <2>3. agent'.pc = "connect" /\ agent'.new = t /\ agent'.tok = agent.tok
      BY <2>1 DEF TokenInv, TokenShape
    <2>4. TokenShape' /\ t \in Token
      BY <1>1, <2>1, <2>2 DEF TokenInv, TokenShape, Tokens
    <2>5. Outdated' /\ Admitted' /\ Renewed' /\ Renewal' /\ TokenOverlap'
      BY <1>1, <2>1, <2>2, <2>3, <2>4
         DEF TokenInv, Outdated, Admitted, Renewed, Answered, Done, Renewal, TokenOverlap
    <2>6. \A u \in Token : Coming(u)' => Unmet(u)'
      BY SMTT(60), <1>1, <2>1, <2>2, <2>3 DEF TokenInv, Coming, Unmet
    <2> QED BY <2>4, <2>5, <2>6 DEF TokenInv
  <1>3. CASE buildRouterClient
    <2> DEFINE t == agent.new
    <2>1. /\ UNCHANGED <<renew, cur, sess, timers, mon>> /\ agent.pc = "connect"
          /\ agent' = [agent EXCEPT !.pc = "registering"]
          /\ reg' = [reg EXCEPT ![t] = [NoReg EXCEPT !.st = "recv", !.model = agent.model]]
      BY <1>3 DEF buildRouterClient, registerWithRouter
    <2>2. t \in Token /\ renew.st = "off" /\ Coming(t)
      BY <2>1 DEF TokenInv, TokenShape, Renewal, Coming
    <2>3. agent'.pc = "registering" /\ agent'.new = t /\ agent'.tok = agent.tok
      BY <2>1 DEF TokenInv, TokenShape
    <2>4. /\ TokenShape' /\ reg'[t].st = "recv" /\ reg'[t].old = None
          /\ \A u \in Token : u # t => reg'[u] = reg[u]
      BY <2>1, <2>2 DEF TokenInv, TokenShape, Tokens, Regs, NoReg
    <2>5. Outdated' /\ Admitted' /\ Renewed' /\ Renewal' /\ TokenOverlap'
      BY <2>1, <2>2, <2>3, <2>4
         DEF TokenInv, Outdated, Admitted, Renewed, Answered, Done, Renewal, TokenOverlap
    <2>6. ASSUME NEW u \in Token, Coming(u)' PROVE Unmet(u)'
      <3>1. Coming(u)
        BY <2>2, <2>3, <2>4, <2>6 DEF Coming
      <3>2. u # None
        BY LinkAssumption
      <3> QED BY <3>1, <3>2, <2>1, <2>3, <2>4 DEF TokenInv, Unmet
    <2> QED BY <2>4, <2>5, <2>6 DEF TokenInv
  <1>4. CASE ReRegister
    <2>1. PICK t \in NewTokens :
            /\ sess' = sess \cup {t} /\ renew' = [renew EXCEPT !.st = "wait", !.tok = t]
            /\ reg' = [reg EXCEPT ![t] = [NoReg EXCEPT !.st = "recv", !.model = agent.model]]
      BY <1>4 DEF ReRegister, Authenticate, CreateSession, registerWithRouter
    <2>2. UNCHANGED <<agent, cur, timers, mon>> /\ agent.pc = "session"
      BY <1>4 DEF ReRegister
    <2>3. t \in Token /\ renew'.st = "wait" /\ renew'.tok = t
      BY <1>1, <2>1 DEF TokenInv, TokenShape
    <2>4. /\ TokenShape' /\ reg'[t].st = "recv" /\ reg'[t].old = None
          /\ \A u \in Token : u # t => reg'[u] = reg[u]
      <3> DEFINE r == [NoReg EXCEPT !.st = "recv", !.model = agent.model]
      <3>1. agent.model \in Model /\ reg \in [Token -> Regs] /\ renew.st \in {"off", "idle", "wait", "store"}
        BY DEF TokenInv, TokenShape
      <3>2. r \in Regs /\ r.st = "recv" /\ r.old = None
        BY <3>1 DEF Regs, NoReg, Tokens
      <3>3. reg' = [reg EXCEPT ![t] = r]
        BY <2>1
      <3> HIDE DEF r
      <3>4. reg' \in [Token -> Regs] /\ reg'[t] = r /\ \A u \in Token : u # t => reg'[u] = reg[u]
        BY <2>3, <3>1, <3>2, <3>3
      <3>5. renew' \in [st : {"off", "idle", "wait", "store"}, tok : Tokens]
        BY <2>1, <2>3 DEF TokenInv, TokenShape, Tokens
      <3> QED
        BY <2>2, <3>2, <3>4, <3>5 DEF TokenInv, TokenShape
    <2>5. Outdated' /\ Admitted' /\ Renewed' /\ Renewal' /\ TokenOverlap'
      BY <2>1, <2>2, <2>3, <2>4
         DEF TokenInv, Outdated, Admitted, Renewed, Answered, Done, Renewal, TokenOverlap
    <2>6. ASSUME NEW u \in Token, Coming(u)' PROVE Unmet(u)'
      <3>1. Unmet(u)
        BY <1>1, <2>2, <2>4, <2>6 DEF TokenInv, Coming
      <3>2. u # None
        BY LinkAssumption
      <3> QED BY <3>1, <3>2, <2>1, <2>2, <2>4 DEF Unmet
    <2> QED BY <2>4, <2>5, <2>6 DEF TokenInv
  <1> QED BY <1>2, <1>3, <1>4

(* It stores a token only once the router has registered it.               *)
LEMMA StoresToken ==
  ASSUME TokenInv, Registered \/ ReRegistered \/ StoreToken PROVE TokenInv'
  <1> USE DEF procVars, netVars, regVars, reqVars
  <1>1. CASE Registered
    <2> DEFINE t == agent.new
    <2>1. /\ UNCHANGED <<cur, sess, timers, mon>> /\ agent.pc = "registering" /\ reg[t].st = "ok"
          /\ agent' = [agent EXCEPT !.pc = "session", !.tok = t, !.new = None, !.exp = FALSE]
          /\ renew' = [renew EXCEPT !.st = "idle", !.tok = None]
          /\ reg' = [reg EXCEPT ![t] = NoReg]
      BY <1>1 DEF Registered
    <2>2. t \in Token /\ Answered
      BY <2>1 DEF TokenInv, Renewal, Answered, Done
    <2>3. /\ agent'.pc = "session" /\ agent'.tok = t /\ renew'.st = "idle"
      BY <2>1 DEF TokenInv, TokenShape
    <2>4. /\ TokenShape' /\ reg'[t].st = "none" /\ reg'[t].old = None
          /\ \A u \in Token : u # t => reg'[u] = reg[u]
      BY <2>1, <2>2 DEF TokenInv, TokenShape, Tokens, Regs, NoReg
    <2>5. Outdated' /\ Admitted' /\ Renewed' /\ Renewal' /\ TokenOverlap'
      BY <2>1, <2>2, <2>3, <2>4
         DEF TokenInv, Outdated, Admitted, Renewed, Answered, Done, Renewal, TokenOverlap
    <2>6. ASSUME NEW u \in Token, Coming(u)' PROVE Unmet(u)'
      <3>1. u # t /\ Coming(u)
        BY <2>3, <2>4, <2>6 DEF Coming
      <3>2. u # None
        BY LinkAssumption
      <3> QED BY <3>1, <3>2, <2>1, <2>3, <2>4 DEF TokenInv, Unmet
    <2> QED BY <2>4, <2>5, <2>6 DEF TokenInv
  <1>2. CASE ReRegistered
    <2> DEFINE t == renew.tok
    <2>1. /\ UNCHANGED <<agent, cur, timers, mon>> /\ renew.st = "wait"
          /\ \/ reg[t].st = "ok" /\ renew' = [renew EXCEPT !.st = "store"]
             \/ renew' = [renew EXCEPT !.st = "idle", !.tok = None]
          /\ reg' = IF reg[t].st \in {"ok", "err"} THEN [reg EXCEPT ![t] = NoReg] ELSE reg
          /\ sess' = sess \cap Held'
      BY <1>2 DEF ReRegistered
    <2>2. t \in Token /\ (renew'.st = "store" => Answered /\ reg[t].st = "ok")
      BY <2>1 DEF TokenInv, TokenShape, Renewal, Answered, Done
    <2>3. \/ renew'.st = "store" /\ renew'.tok = t
          \/ renew'.st = "idle"
      BY <2>1 DEF TokenInv, TokenShape
    <2>4. /\ TokenShape'
          /\ \A u \in Token : \/ reg'[u] = reg[u]
                              \/ reg'[u].st = "none" /\ reg'[u].old = None
          /\ reg[t].st = "ok" => reg'[t].st = "none"
      <3>1. reg' = reg \/ reg' = [reg EXCEPT ![t] = NoReg]
        BY <2>1
      <3>2. reg[t].st = "ok" => reg' = [reg EXCEPT ![t] = NoReg]
        BY <2>1
      <3>3. renew' \in [st : {"off", "idle", "wait", "store"}, tok : Tokens]
        BY <2>1 DEF TokenInv, TokenShape, Tokens
      <3>4. NoReg \in Regs
        BY DEF NoReg, Regs, Tokens
      <3> QED BY <2>1, <2>2, <3>1, <3>2, <3>3, <3>4 DEF TokenInv, TokenShape, NoReg
    <2>5. /\ cur.tok \in sess => cur.tok \in sess'
          /\ \A u \in Token : reg'[u].st # "none" /\ u \in sess => u \in sess'
      BY <2>1, Forgotten
    <2>6. Outdated' /\ Admitted' /\ Renewed' /\ Renewal' /\ TokenOverlap'
      BY SMTT(60), <2>1, <2>2, <2>3, <2>4, <2>5
         DEF TokenInv, Outdated, Admitted, Renewed, Answered, Done, Renewal, TokenOverlap
    <2>7. ASSUME NEW u \in Token, Coming(u)' PROVE Unmet(u)'
      <3>1. Coming(u)
        BY <2>1, <2>4, <2>7 DEF Coming
      <3>2. u # None
        BY LinkAssumption
      <3> QED BY SMTT(60), <3>1, <3>2, <2>1, <2>4 DEF TokenInv, Unmet
    <2> QED BY <2>4, <2>6, <2>7 DEF TokenInv
  <1>3. CASE StoreToken
    <2> DEFINE t == renew.tok
    <2>1. /\ UNCHANGED <<reg, cur, timers, mon>> /\ renew.st = "store"
          /\ agent' = [agent EXCEPT !.tok = t, !.exp = FALSE]
          /\ renew' = [renew EXCEPT !.st = "idle", !.tok = None]
          /\ sess' = sess \cap Held'
      BY <1>3 DEF StoreToken
    <2>2. t \in Token /\ reg[t].st = "none" /\ agent.pc = "session" /\ Answered
      BY <2>1 DEF TokenInv, Renewal, Answered
    <2>3. agent'.pc = "session" /\ agent'.tok = t /\ renew'.st = "idle"
      BY <2>1, <2>2 DEF TokenInv, TokenShape
    <2>4. TokenShape'
      BY <2>1, <2>2 DEF TokenInv, TokenShape, Tokens
    <2>5. /\ cur.tok \in sess => cur.tok \in sess'
          /\ \A u \in Token : reg'[u].st # "none" /\ u \in sess => u \in sess'
      BY <2>1, Forgotten
    <2>6. Outdated' /\ Admitted' /\ Renewed' /\ Renewal' /\ TokenOverlap'
      BY <2>1, <2>2, <2>3, <2>4, <2>5
         DEF TokenInv, Outdated, Admitted, Renewed, Answered, Done, Renewal, TokenOverlap
    <2>7. ASSUME NEW u \in Token, Coming(u)' PROVE Unmet(u)'
      <3>1. u # t /\ Coming(u)
        BY <2>1, <2>2, <2>3, <2>7 DEF Coming
      <3> QED BY <3>1, <2>1, <2>3 DEF TokenInv, Unmet
    <2> QED BY <2>4, <2>6, <2>7 DEF TokenInv
  <1> QED BY <1>1, <1>2, <1>3

(* A session of the agent ends, or it stops: the requests that the router  *)
(* has begun go on.                                                        *)
LEMMA SessionEnds ==
  ASSUME TokenInv, RegisterFails \/ HeartbeatFails \/ Crash PROVE TokenInv'
  <1> USE DEF procVars, netVars, regVars, reqVars
  <1>1. /\ UNCHANGED <<cur, timers, mon>> /\ renew' = [st |-> "off", tok |-> None]
        /\ reg' = Unanswered /\ sess' = sess \cap Held'
        /\ \/ agent' = [agent EXCEPT !.pc = "wait", !.new = None, !.hb = None]
           \/ agent' = [agent EXCEPT !.pc = "down", !.tok = None, !.new = None, !.hb = None,
                          !.exp = FALSE]
    BY DEF RegisterFails, HeartbeatFails, Crash, Disconnect
  <1>2. agent'.pc \in {"wait", "down"} /\ agent'.tok \in {agent.tok, None} /\ renew'.st = "off"
    BY <1>1 DEF TokenInv, TokenShape
  <1>3. \A t \in Token : reg'[t] = reg[t] \/ reg'[t] = NoReg
    BY <1>1 DEF Unanswered
  <1>4. NoReg \in Regs
    BY DEF NoReg, Regs, Tokens
  <1>5. reg' \in [Token -> Regs]
    BY <1>1, <1>4 DEF Unanswered, TokenInv, TokenShape
  <1>6. TokenShape'
    BY <1>1, <1>5 DEF TokenInv, TokenShape, Tokens
  <1>7. \A t \in Token : reg'[t] = reg[t] \/ (reg'[t].st = "none" /\ reg'[t].old = None)
    BY SMTT(60), <1>3 DEF NoReg
  <1>8. /\ cur.tok \in sess => cur.tok \in sess'
        /\ \A t \in Token : reg'[t].st # "none" /\ t \in sess => t \in sess'
    BY <1>1, Forgotten
  <1>9. Outdated' /\ Admitted' /\ Renewed' /\ Renewal' /\ TokenOverlap'
    BY SMTT(60), <1>1, <1>2, <1>7, <1>8
       DEF TokenInv, Outdated, Admitted, Renewed, Answered, Done, Renewal, TokenOverlap
  <1>10. ASSUME NEW t \in Token, Coming(t)' PROVE Unmet(t)'
    <2>1. Coming(t)
      BY <1>2, <1>7, <1>10 DEF Coming
    <2>2. t # None
      BY LinkAssumption
    <2> QED BY SMTT(60), <2>1, <2>2, <1>1, <1>2, <1>7 DEF TokenInv, Unmet
  <1> QED BY <1>6, <1>9, <1>10 DEF TokenInv

(* The register handler: it lets in a valid token, registers it while it   *)
(* is valid, and has the one it replaced deleted after that.               *)
LEMMA RegisterHandler ==
  ASSUME TokenInv, Shape, NEW t \in Token, RegisterStep(t) PROVE TokenInv'
  <1> USE DEF procVars, netVars, regVars, reqVars
  <1>0. t # None /\ reg[t] \in Regs /\ NoReg \in Regs /\ cur.tok \in Tokens
    BY LinkAssumption DEF TokenInv, TokenShape, NoReg, Tokens, Regs
  <1>1. CASE ValidateRegister(t)
    <2>0. /\ [reg[t] EXCEPT !.st = "check", !.old = cur.tok] \in Regs
          /\ [reg[t] EXCEPT !.st = "check", !.old = cur.tok].st = "check"
          /\ [reg[t] EXCEPT !.st = "check", !.old = cur.tok].old = cur.tok
          /\ [NoReg EXCEPT !.st = "err"] \in Regs /\ [NoReg EXCEPT !.st = "err"].st = "err"
          /\ [NoReg EXCEPT !.st = "err"].old = None /\ NoReg.st = "none" /\ NoReg.old = None
      BY <1>0 DEF NoReg, Regs
    <2>1. PICK n \in Regs : /\ reg' = [reg EXCEPT ![t] = n]
                            /\ \/ t \in sess /\ n.st = "check" /\ n.old = cur.tok
                               \/ n.st \in {"err", "none"} /\ n.old = None
      <3>1. CASE t \in sess
        <4>1. reg' = [reg EXCEPT ![t] = [reg[t] EXCEPT !.st = "check", !.old = cur.tok]]
          BY <1>1, <3>1 DEF ValidateRegister, ValidateSession
        <4> QED BY <2>0, <3>1, <4>1
      <3>2. CASE t \notin sess /\ Waiting(t)
        <4>1. reg' = [reg EXCEPT ![t] = [NoReg EXCEPT !.st = "err"]]
          BY <1>1, <3>2 DEF ValidateRegister, ValidateSession
        <4> QED BY <2>0, <4>1
      <3>3. CASE t \notin sess /\ ~Waiting(t)
        <4>1. reg' = [reg EXCEPT ![t] = NoReg]
          BY <1>1, <3>3 DEF ValidateRegister, ValidateSession
        <4> QED BY <1>0, <2>0, <4>1
      <3> QED BY <3>1, <3>2, <3>3
    <2>2. UNCHANGED <<agent, renew, cur, sess, timers, mon>> /\ reg[t].st = "recv"
      BY <1>1 DEF ValidateRegister, At
    <2>3. n \in Regs /\ \/ t \in sess /\ n.st = "check" /\ n.old = cur.tok
                        \/ n.st \in {"err", "none"} /\ n.old = None
      BY <2>1
    <2>4. reg'[t] = n /\ \A u \in Token : u # t => reg'[u] = reg[u]
      BY <2>1 DEF TokenInv, TokenShape
    <2>5. TokenShape'
      BY <2>1, <2>2, <2>3 DEF TokenInv, TokenShape
    <2>6. Outdated' /\ Admitted' /\ Renewed' /\ Renewal' /\ TokenOverlap'
      BY SMTT(60), <2>2, <2>3, <2>4
         DEF TokenInv, Outdated, Admitted, Renewed, Answered, Done, Renewal, TokenOverlap
    <2>7. ASSUME NEW u \in Token, Coming(u)' PROVE Unmet(u)'
      <3>1. Coming(u) /\ u # None
        BY <2>2, <2>3, <2>4, <2>7, LinkAssumption DEF Coming
      <3> QED BY <3>1, <2>2, <2>3, <2>4 DEF TokenInv, Unmet
    <2> QED BY <2>5, <2>6, <2>7 DEF TokenInv
  <1>2. CASE InstallCheck(t)
    <2> DEFINE n == [reg[t] EXCEPT !.st = "install", !.up = peerConnected]
    <2>1. /\ UNCHANGED <<agent, renew, cur, sess, timers, mon>> /\ reg[t].st = "check"
          /\ reg' = [reg EXCEPT ![t] = n]
      BY <1>2 DEF InstallCheck, At, TokenInv, TokenShape
    <2>2. peerConnected \in BOOLEAN
      BY DEF peerConnected
    <2>3. n \in Regs /\ n.st = "install" /\ n.old = reg[t].old
      BY <1>0, <2>2 DEF Regs
    <2> HIDE DEF n
    <2>4. reg'[t] = n /\ \A u \in Token : u # t => reg'[u] = reg[u]
      BY <2>1 DEF TokenInv, TokenShape
    <2>5. TokenShape'
      BY <2>1, <2>3 DEF TokenInv, TokenShape
    <2>6. Outdated' /\ Admitted' /\ Renewed' /\ Renewal' /\ TokenOverlap'
      BY SMTT(60), <2>1, <2>3, <2>4
         DEF TokenInv, Outdated, Admitted, Renewed, Answered, Done, Renewal, TokenOverlap
    <2>7. ASSUME NEW u \in Token, Coming(u)' PROVE Unmet(u)'
      <3>1. Coming(u)
        BY <2>1, <2>3, <2>4, <2>7 DEF Coming
      <3> QED BY SMTT(60), <3>1, <2>1, <2>3, <2>4 DEF TokenInv, Unmet
    <2> QED BY <2>5, <2>6, <2>7 DEF TokenInv
  <1>3. CASE InstallRegister(t)
    <2> DEFINE n == [reg[t] EXCEPT !.st = "finish"]
    <2>1. /\ UNCHANGED <<agent, renew, sess, timers>> /\ reg[t].st = "install"
          /\ cur' = [NoAgent EXCEPT !.tok = t, !.model = reg[t].model, !.healthy = reg[t].up]
          /\ mon' = [mon EXCEPT !.ptr = FALSE] /\ reg' = [reg EXCEPT ![t] = n]
      BY <1>3 DEF InstallRegister, At
    <2>2. n \in Regs /\ n.st = "finish" /\ n.old = reg[t].old
      BY <1>0 DEF Regs
    <2>3. cur'.tok = t
      BY <2>1 DEF NoAgent
    <2> HIDE DEF n
    <2>4. /\ reg'[t] = n /\ \A u \in Token : u # t => reg'[u] = reg[u]
          /\ mon'.st = mon.st /\ mon'.tok = mon.tok
      BY <2>1 DEF TokenInv, TokenShape
    <2>5. TokenShape'
      <3>1. reg' \in [Token -> Regs]
        BY <2>1, <2>2 DEF TokenInv, TokenShape
      <3>2. mon' \in [st : {"idle", "mark", "recheck", "close", "drop"},
                      ptr : BOOLEAN, dead : BOOLEAN, tok : Tokens]
        BY <2>1 DEF TokenInv, TokenShape
      <3> QED
        BY <2>1, <2>3, <3>1, <3>2 DEF TokenInv, TokenShape, Tokens
    <2>6. Unmet(t) /\ t \in sess
      BY <2>1 DEF TokenInv, Coming, Admitted
    <2>7. Outdated' /\ Admitted' /\ Renewed' /\ Renewal' /\ TokenOverlap'
      BY SMTT(60), <1>0, <2>1, <2>2, <2>3, <2>4, <2>6
         DEF TokenInv, Outdated, Admitted, Renewed, Answered, Done, Renewal, TokenOverlap, Unmet
    <2>8. ASSUME NEW u \in Token, Coming(u)' PROVE Unmet(u)'
      <3>1. u # t /\ Coming(u)
        BY <2>1, <2>2, <2>4, <2>8 DEF Coming, TokenInv, Renewal
      <3> QED BY SMTT(60), <3>1, <2>1, <2>2, <2>3, <2>4 DEF TokenInv, Unmet
    <2> QED BY <2>5, <2>7, <2>8 DEF TokenInv
  <1>4. CASE FinishRegister(t)
    <2>1. PICK n \in {[NoReg EXCEPT !.st = "ok"], NoReg} : reg' = [reg EXCEPT ![t] = n]
      BY <1>4 DEF FinishRegister
    <2>2. /\ UNCHANGED <<agent, renew, cur, sess, mon>> /\ reg[t].st = "finish"
          /\ timers' = timers \cup ({reg[t].old} \ {None})
      BY <1>4 DEF FinishRegister, At
    <2>3. n \in Regs /\ n.st \in {"ok", "none"} /\ n.old = None
      <3>1. /\ [NoReg EXCEPT !.st = "ok"] \in Regs /\ [NoReg EXCEPT !.st = "ok"].st = "ok"
            /\ [NoReg EXCEPT !.st = "ok"].old = None /\ NoReg.st = "none" /\ NoReg.old = None
        BY <1>0 DEF NoReg, Regs
      <3> QED BY <1>0, <2>1, <3>1
    <2>4. reg'[t] = n /\ \A u \in Token : u # t => reg'[u] = reg[u]
      BY <2>1 DEF TokenInv, TokenShape
    <2>5. timers' \subseteq Token
      BY <1>0, <2>2 DEF TokenInv, TokenShape, Tokens, Regs
    <2>6. TokenShape'
      BY <2>1, <2>2, <2>3, <2>5 DEF TokenInv, TokenShape
    <2>7. cur.tok \notin timers'
      BY <2>2 DEF TokenInv, Outdated
    <2>8. Outdated' /\ Admitted' /\ Renewed' /\ Renewal' /\ TokenOverlap'
      BY SMTT(60), <2>2, <2>3, <2>4, <2>7
         DEF TokenInv, Outdated, Admitted, Renewed, Answered, Done, Renewal, TokenOverlap
    <2>9. ASSUME NEW u \in Token, Coming(u)' PROVE Unmet(u)'
      <3>1. Coming(u) /\ u # None
        BY <2>2, <2>3, <2>4, <2>9, LinkAssumption DEF Coming
      <3> QED BY <3>1, <2>2, <2>3, <2>4 DEF TokenInv, Unmet
    <2> QED BY <2>6, <2>8, <2>9 DEF TokenInv
  <1> QED BY <1>1, <1>2, <1>3, <1>4 DEF RegisterStep

(* A monitor that is done holds no token.                                  *)
LEMMA MonNone == None \in Tokens /\ FALSE \in BOOLEAN
  BY DEF Tokens

(* What the router deletes: the tokens of the timers, the one that has     *)
(* passed its TTL, and the one of the agent the monitor removes.           *)
LEMMA Deletes ==
  ASSUME TokenInv, Shape, Expire \/ MonitorClose \/ MonitorDrop \/ \E t \in Token : DeleteOld(t)
  PROVE  TokenInv'
  <1> USE DEF procVars, netVars, regVars, reqVars
  <1>1. ASSUME NEW t \in Token, DeleteOld(t) PROVE TokenInv'
    <2>1. /\ UNCHANGED <<agent, renew, cur, reg, mon>> /\ t \in timers
          /\ timers' = timers \ {t} /\ sess' = sess \ {t}
      BY <1>1 DEF DeleteOld, DeleteSession
    <2>2. t # cur.tok /\ ~Coming(t)
      BY <2>1 DEF TokenInv, Outdated, Unmet
    <2>3. TokenShape'
      BY <2>1 DEF TokenInv, TokenShape
    <2>4. Outdated' /\ Admitted' /\ Renewed' /\ Renewal' /\ TokenOverlap'
      BY <2>1, <2>2 DEF TokenInv, Outdated, Admitted, Renewed, Answered, Done, Renewal,
                        TokenOverlap, Coming
    <2>5. \A u \in Token : Coming(u)' => Unmet(u)'
      BY <2>1 DEF TokenInv, Coming, Unmet
    <2> QED BY <2>3, <2>4, <2>5 DEF TokenInv
  <1>2. CASE Expire
    <2>1. /\ UNCHANGED <<renew, cur, reg, mon, timers>> /\ sess' = sess \ {agent.tok}
          /\ agent' = [agent EXCEPT !.exp = TRUE]
      BY <1>2 DEF Expire, DeleteSession
    <2>2. /\ agent'.pc = agent.pc /\ agent'.tok = agent.tok /\ agent'.new = agent.new
          /\ agent'.exp /\ \A t \in Token : Coming(t) => t # agent.tok
      BY <2>1 DEF TokenInv, TokenShape, Unmet
    <2>3. TokenShape'
      BY <2>1 DEF TokenInv, TokenShape
    <2>4. Outdated' /\ Admitted' /\ Renewed' /\ Renewal' /\ TokenOverlap'
      BY <2>1, <2>2 DEF TokenInv, Outdated, Admitted, Renewed, Answered, Done, Renewal,
                        TokenOverlap, Coming
    <2>5. \A u \in Token : Coming(u)' => Unmet(u)'
      BY <2>1, <2>2 DEF TokenInv, Coming, Unmet
    <2> QED BY <2>3, <2>4, <2>5 DEF TokenInv
  <1>3. CASE MonitorClose
    <2>1. /\ UNCHANGED <<agent, renew, cur, reg, timers>> /\ sess' = sess \ {mon.tok}
          /\ mon' = [NoMon EXCEPT !.st = "drop"]
      BY <1>3 DEF MonitorClose, DeleteSession
    <2>2. /\ mon'.st = "drop" /\ mon'.tok = None
          /\ \A t \in Token : Coming(t) => t # mon.tok /\ t # None
      BY <2>1, LinkAssumption DEF TokenInv, Unmet, NoMon
    <2>3. TokenShape'
      <3>1. mon' = [st |-> "drop", ptr |-> FALSE, dead |-> FALSE, tok |-> None]
        BY <2>1 DEF NoMon
      <3>2. mon' \in [st : {"idle", "mark", "recheck", "close", "drop"},
                      ptr : BOOLEAN, dead : BOOLEAN, tok : Tokens]
        BY <3>1, MonNone
      <3> QED BY <2>1, <3>2 DEF TokenInv, TokenShape
    <2>4. Outdated' /\ Admitted' /\ Renewed' /\ Renewal' /\ TokenOverlap'
      BY <2>1, <2>2 DEF TokenInv, Outdated, Admitted, Renewed, Answered, Done, Renewal,
                        TokenOverlap, Coming
    <2>5. \A u \in Token : Coming(u)' => Unmet(u)'
      BY <2>1, <2>2 DEF TokenInv, Coming, Unmet
    <2> QED BY <2>3, <2>4, <2>5 DEF TokenInv
  <1>4. CASE MonitorDrop
    <2>1. /\ UNCHANGED <<agent, renew, reg, timers>> /\ cur' = NoAgent /\ mon' = NoMon
          /\ sess' = sess \cap Held'
      BY <1>4 DEF MonitorDrop, Unregister
    <2>2. cur'.tok = None /\ mon'.tok = None /\ None \notin Token
      BY <2>1, LinkAssumption DEF NoAgent, NoMon
    <2>3. TokenShape'
      BY <2>1 DEF TokenInv, TokenShape, NoMon, NoAgent, Tokens
    <2>4. \A t \in Token : reg'[t].st # "none" /\ t \in sess => t \in sess'
      BY <2>1, Forgotten
    <2>5. Outdated' /\ Admitted' /\ Renewed' /\ Renewal' /\ TokenOverlap'
      BY <2>1, <2>2, <2>3, <2>4 DEF TokenInv, TokenShape, Outdated, Admitted, Renewed, Answered,
                                    Done, Renewal, TokenOverlap
    <2>6. \A u \in Token : Coming(u)' => Unmet(u)'
      BY <2>1, <2>2 DEF TokenInv, Coming, Unmet
    <2> QED BY <2>3, <2>5, <2>6 DEF TokenInv
  <1> QED BY <1>1, <1>2, <1>3, <1>4

(* Heartbeats, connections, the backend and the rest of the monitor leave  *)
(* the tokens where they are.                                              *)
LEMMA Others ==
  ASSUME TokenInv, Shape,
         \/ runBackendHealthChecker \/ BackendFails \/ BackendRecovers \/ NetworkDrop
         \/ sendHeartbeat \/ HeartbeatAnswered \/ Age
         \/ MonitorRead \/ MonitorMark \/ MonitorRecheck
         \/ (\E c \in Conn : DisconnectStep(c)) \/ (\E t \in Token : HeartbeatStep(t))
  PROVE  TokenInv'
  <1> USE DEF procVars, netVars, regVars, reqVars
  <1> DEFINE Agents == [pc : {"wait", "connect", "registering", "session", "down"}, model : Model,
                        tok : Tokens, new : Tokens, hb : Tokens, exp : BOOLEAN]
             Mons == [st : {"idle", "mark", "recheck", "close", "drop"},
                      ptr : BOOLEAN, dead : BOOLEAN, tok : Tokens]
  <1>0. agent \in Agents /\ mon \in Mons
    BY DEF TokenInv, TokenShape
  <1>1. CASE \/ runBackendHealthChecker \/ BackendFails \/ BackendRecovers \/ NetworkDrop
             \/ MonitorRead \/ MonitorRecheck
             \/ sendHeartbeat \/ HeartbeatAnswered
    <2>1. UNCHANGED <<renew, reg, timers, sess, cur>>
      BY <1>1 DEF runBackendHealthChecker, BackendFails, BackendRecovers, NetworkDrop,
                  MonitorRead, MonitorRecheck, sendHeartbeat, HeartbeatAnswered
    <2>2. /\ agent' \in Agents /\ agent'.pc = agent.pc /\ agent'.tok = agent.tok
          /\ agent'.new = agent.new /\ agent'.exp = agent.exp
      <3>1. agent' = agent \/ agent' = [agent EXCEPT !.hb = agent.tok]
            \/ agent' = [agent EXCEPT !.hb = None]
        BY <1>1 DEF runBackendHealthChecker, BackendFails, BackendRecovers, NetworkDrop,
                    MonitorRead, MonitorRecheck, sendHeartbeat, HeartbeatAnswered
      <3> QED BY <1>0, <3>1 DEF Tokens
    <2>3. /\ mon' \in Mons /\ (mon'.st = "drop") = (mon.st = "drop")
          /\ mon'.tok \in {mon.tok, cur.tok, None}
      <3>1. CASE mon' = mon
        BY <1>0, <3>1
      <3>2. CASE MonitorRead
        <4>1. mon.st = "idle" /\ mon' = [NoMon EXCEPT !.st = "mark", !.ptr = TRUE,
                                                      !.dead = cur.age = "dead"]
          BY <3>2 DEF MonitorRead
        <4>2. (cur.age = "dead") \in BOOLEAN
          OBVIOUS
        <4> QED BY <4>1, <4>2 DEF NoMon, Tokens
      <3>3. CASE MonitorRecheck
        <4>1. mon.st = "recheck" /\ \/ mon' = [NoMon EXCEPT !.st = "close", !.tok = cur.tok]
                                    \/ mon' = NoMon
          BY <3>3 DEF MonitorRecheck
        <4>2. cur.tok \in Tokens
          BY DEF TokenInv, TokenShape
        <4>3. \/ mon' = [st |-> "close", ptr |-> FALSE, dead |-> FALSE, tok |-> cur.tok]
              \/ mon' = [st |-> "idle", ptr |-> FALSE, dead |-> FALSE, tok |-> None]
          BY <4>1 DEF NoMon
        <4>4. CASE mon' = [st |-> "close", ptr |-> FALSE, dead |-> FALSE, tok |-> cur.tok]
          <5>1. mon' \in Mons
            BY <4>2, <4>4
          <5> QED BY <4>1, <4>4, <5>1
        <4>5. CASE mon' = [st |-> "idle", ptr |-> FALSE, dead |-> FALSE, tok |-> None]
          <5>1. mon' \in Mons
            BY <4>5, MonNone
          <5> QED BY <4>1, <4>5, <5>1
        <4> QED BY <4>3, <4>4, <4>5
      <3> QED BY <1>1, <3>1, <3>2, <3>3
              DEF runBackendHealthChecker, BackendFails, BackendRecovers, NetworkDrop,
                  sendHeartbeat, HeartbeatAnswered
    <2> QED BY <2>1, <2>2, <2>3, TokensStay
  <1>2. CASE MonitorMark
    <2>1. /\ UNCHANGED <<renew, reg, timers, sess, agent>> /\ mon.st = "mark"
          /\ cur' = cur \/ cur' = [cur EXCEPT !.healthy = FALSE]
          /\ mon' = [NoMon EXCEPT !.st = "recheck"] \/ mon' = NoMon
      BY <1>2 DEF MonitorMark
    <2>2. /\ mon' \in Mons /\ (mon'.st = "drop") = (mon.st = "drop") /\ mon'.tok = None
      <3>1. \/ mon' = [st |-> "recheck", ptr |-> FALSE, dead |-> FALSE, tok |-> None]
            \/ mon' = [st |-> "idle", ptr |-> FALSE, dead |-> FALSE, tok |-> None]
        BY <2>1 DEF NoMon
      <3>2. CASE mon' = [st |-> "recheck", ptr |-> FALSE, dead |-> FALSE, tok |-> None]
        <4>1. mon' \in Mons
          BY <3>2, MonNone
        <4> QED BY <2>1, <3>2, <4>1
      <3>3. CASE mon' = [st |-> "idle", ptr |-> FALSE, dead |-> FALSE, tok |-> None]
        <4>1. mon' \in Mons
          BY <3>3, MonNone
        <4> QED BY <2>1, <3>3, <4>1
      <3> QED BY <3>1, <3>2, <3>3
    <2>3. cur'.tok = cur.tok
      BY <2>1 DEF Shape
    <2> QED BY <1>0, <2>1, <2>2, <2>3, TokensStay
  <1>3. CASE Age \/ (\E c \in Conn : DisconnectStep(c)) \/ (\E t \in Token : HeartbeatStep(t))
    <2>1. UNCHANGED <<renew, reg, timers, sess, agent, mon>>
      BY <1>3 DEF Age, DisconnectStep, ConnClosed, DisconnectedCheck, DisconnectedGet,
                  DisconnectedMark, HeartbeatStep, HeartbeatGet, HeartbeatApply
    <2>2. cur'.tok = cur.tok
      BY <1>3 DEF Age, DisconnectStep, ConnClosed, DisconnectedCheck, DisconnectedGet, Shape,
                  DisconnectedMark, HeartbeatStep, HeartbeatGet, HeartbeatApply
    <2> QED BY <1>0, <2>1, <2>2, TokensStay
  <1> QED BY <1>1, <1>2, <1>3

(* The agent starts again.                                                 *)
LEMMA Restarts == ASSUME TokenInv, Restart PROVE TokenInv'
  <1>1. /\ UNCHANGED <<renew, reg, timers, sess, cur, mon>> /\ agent.pc = "down"
        /\ \E m \in Model : agent' = [agent EXCEPT !.pc = "wait", !.model = m]
    BY DEF Restart, procVars, netVars, regVars, reqVars
  <1>2. agent'.pc = "wait" /\ agent'.tok = agent.tok
    BY <1>1 DEF TokenInv, TokenShape
  <1>3. TokenShape'
    BY <1>1 DEF TokenInv, TokenShape
  <1>4. Outdated' /\ Admitted' /\ Renewed' /\ Renewal' /\ TokenOverlap'
    BY <1>1, <1>2 DEF TokenInv, Outdated, Admitted, Renewed, Answered, Done, Renewal, TokenOverlap
  <1>5. \A u \in Token : Coming(u)' => Unmet(u)'
    BY <1>1, <1>2 DEF TokenInv, Coming, Unmet
  <1> QED BY <1>3, <1>4, <1>5 DEF TokenInv

LEMMA TokenNext == LinkInv /\ TokenInv /\ [Next]_vars => TokenInv'
  <1> SUFFICES ASSUME LinkInv, TokenInv, [Next]_vars PROVE TokenInv'
    OBVIOUS
  <1>1. Shape
    BY DEF LinkInv
  <1>2. CASE UNCHANGED vars
    BY <1>2, TokensStay DEF vars, procVars, netVars, regVars, reqVars, TokenInv, TokenShape
  <1>3. CASE AgentStep
    BY <1>1, <1>3, Authenticates, StoresToken, SessionEnds, Others DEF AgentStep
  <1>4. CASE Crash \/ Restart \/ BackendFails \/ BackendRecovers \/ NetworkDrop \/ Age
    BY <1>1, <1>4, SessionEnds, Restarts, Others
  <1>5. CASE Expire \/ MonitorStep
    BY <1>1, <1>5, Deletes, Others DEF MonitorStep
  <1>6. ASSUME NEW t \in Token, RegisterStep(t) \/ HeartbeatStep(t) \/ DeleteOld(t)
        PROVE  TokenInv'
    BY <1>1, <1>6, RegisterHandler, Others, Deletes
  <1>7. ASSUME NEW c \in Conn, DisconnectStep(c) PROVE TokenInv'
    BY <1>1, <1>7, Others
  <1> QED BY <1>2, <1>3, <1>4, <1>5, <1>6, <1>7 DEF Next

(* TokenOverlap holds of every run of one agent and its router: however    *)
(* many renewals the agent makes, and whichever of them are answered late  *)
(* or not at all, the timers of handleAgentRegister never delete the       *)
(* session of the token registered last.                                   *)
THEOREM TokensOverlap == Spec => []TokenOverlap
  <1>1. Init => LinkInv /\ TokenInv
    BY LinkInit, TokenInit
  <1>2. LinkInv /\ TokenInv /\ [Next]_vars => (LinkInv /\ TokenInv)'
    BY LinkNext, TokenNext
  <1>3. TokenInv => TokenOverlap
    BY DEF TokenInv
  <1> QED BY <1>1, <1>2, <1>3, PTL DEF Spec
=============================================================================
