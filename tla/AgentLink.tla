------------------------------ MODULE AgentLink ------------------------------
(***************************************************************************)
(* One agent and the router it serves: the agent's connect, authenticate,  *)
(* register and heartbeat loop with its re-authentication goroutine, and   *)
(* on the router the session table, the agent registry, the register and   *)
(* heartbeat handlers, the libp2p disconnect callback and the health       *)
(* monitor.                                                                *)
(*                                                                         *)
(* The agent keeps one identity, so the registry holds at most one agent.  *)
(* Every registration makes a new domain.Agent. cur is the registered one; *)
(* a pointer to an agent is TRUE while that is the registered one, and     *)
(* what is written through a pointer to a replaced one is lost. A token or *)
(* a connection that nothing refers to may be issued again, and a session  *)
(* whose token nobody holds is gone. A connection is in conns from its     *)
(* handshake until the router sees it close. connHealthMu makes the        *)
(* heartbeat's check and update one step, and the disconnect callback's;   *)
(* installAgent holds it over two. A response reaches the agent only over  *)
(* the connection it has.                                                  *)
(***************************************************************************)
EXTENDS Integers, FiniteSets

CONSTANTS
    Model,       \* models the agent may be started with
    Token,       \* session tokens
    Conn,        \* connections
    None,        \* no token, no agent, no connection
    Threshold,   \* backendFailureThreshold
    Budgets      \* bounds: how many faults (crashes, drops, late answers and
                 \* heartbeats, expiries) and renewals a behaviour may have

ASSUME LinkAssumption ==
    /\ IsFiniteSet(Token) /\ IsFiniteSet(Conn) /\ IsFiniteSet(Model)
    /\ None \notin Token \cup Conn \cup Model
    /\ Threshold \in Nat \ {0} /\ Budgets \subseteq [faults : Nat, renewals : Nat]

VARIABLES
    agent,    \* the agent process: pc, model, tok (sessionToken), new (the
              \* token being registered), hb (token of the heartbeat sent),
              \* exp (its session has passed its TTL)
    renew,    \* its runReAuth goroutine: st and the new token
    backend,  \* the engine: up, and the checker's ok (backendHealthy), fails
    link,     \* the agent's end of its connection
    conns,    \* the connections the router sees
    cb,       \* [Conn -> the disconnect callback of the connection]
    sess,     \* SessionManager.sessions: the tokens that are valid
    cur,      \* AgentRegistry.byID: the registered agent
    byModel,  \* AgentRegistry.byModel: [Model -> which agent its bucket has]
    mu,       \* connHealthMu, held by the registration of a token
    reg,      \* [Token -> the register request that carries it]
    beat,     \* [Token -> the heartbeat that carries it]
    timers,   \* tokens that an AfterFunc will delete
    mon,      \* the health monitor
    budget    \* the faults and renewals left

procVars == <<agent, renew, backend>>
netVars == <<link, conns, cb>>
regVars == <<cur, byModel, mu>>
reqVars == <<reg, beat>>
vars == <<procVars, netVars, sess, regVars, reqVars, timers, mon, budget>>

NoAgent == [tok |-> None, model |-> None, healthy |-> FALSE, by |-> "install", age |-> "fresh"]
NoReg == [st |-> "none", model |-> None, old |-> None, up |-> FALSE]
NoBeat == [st |-> "none", up |-> FALSE, ptr |-> FALSE]
NoCb == [st |-> "none", ptr |-> FALSE]
NoMon == [st |-> "idle", ptr |-> FALSE, dead |-> FALSE, tok |-> None]

Init ==
    /\ \E m \in Model :
         agent = [pc |-> "wait", model |-> m, tok |-> None, new |-> None, hb |-> None,
                  exp |-> FALSE]
    /\ renew = [st |-> "off", tok |-> None]
    /\ backend = [up |-> TRUE, ok |-> TRUE, fails |-> 0]
    /\ link = None /\ conns = {} /\ cb = [c \in Conn |-> NoCb]
    /\ sess = {} /\ cur = NoAgent /\ byModel = [m \in Model |-> "none"] /\ mu = None
    /\ reg = [t \in Token |-> NoReg] /\ beat = [t \in Token |-> NoBeat]
    /\ timers = {} /\ mon = NoMon
    /\ budget \in Budgets

-----------------------------------------------------------------------------
(* What is in use.                                                         *)

Linked == link \in conns
peerConnected == conns # {}
ValidateSession(t) == t \in sess
waitForBackend == agent.pc = "wait" /\ backend.up

Waiting(t) == \/ agent.pc = "registering" /\ agent.new = t
              \/ renew.st = "wait" /\ renew.tok = t

Held == {agent.tok, agent.new, agent.hb, renew.tok, cur.tok, mon.tok} \cup timers
        \cup {t \in Token : reg[t].st # "none" \/ beat[t].st # "none"}
        \cup {reg[t].old : t \in Token}

NewTokens == {t \in Token \ Held : \A u \in Token \ Held : t <= u}
NewConns == LET free == {c \in Conn : c # link /\ c \notin conns /\ cb[c].st = "none"}
            IN  {c \in free : \A d \in free : c <= d}

Fault == budget.faults > 0 /\ budget' = [budget EXCEPT !.faults = @ - 1]

-----------------------------------------------------------------------------
(* The agent's loop.                                                       *)

CreateSession(t) == sess' = sess \cup {t}

(* The gRPC handler: the session, and the router's addresses.              *)
Authenticate(t) == CreateSession(t)

(* Everything the router has begun is done: handlers, disconnect callbacks,*)
(* a pass of the monitor and the timers of two seconds.                    *)
RouterQuiet ==
    /\ timers = {} /\ mon.st = "idle" /\ \A c \in Conn : cb[c].st = "none"
    /\ \A t \in Token : reg[t].st \in {"none", "ok", "err"} /\ beat[t].st \in {"none", "ok", "err"}

(* The backend is ready, then the gRPC call. The agent has waited for five seconds *)
(* since its last session, longer than what the router had begun takes;    *)
(* the router may see the last connection close only later.                *)
authenticate ==
    /\ waitForBackend /\ RouterQuiet
    /\ \E t \in NewTokens :
         /\ Authenticate(t)
         /\ agent' = [agent EXCEPT !.pc = "connect", !.new = t]
    /\ UNCHANGED <<renew, backend, netVars, regVars, reqVars, timers, mon, budget>>

registerWithRouter(t) == reg' = [reg EXCEPT ![t] = [NoReg EXCEPT !.st = "recv", !.model = agent.model]]

(* buildRouterClient, and registerWithRouter up to the wait for its answer.*)
buildRouterClient ==
    /\ agent.pc = "connect"
    /\ \E c \in NewConns : link' = c /\ conns' = conns \cup {c}
    /\ registerWithRouter(agent.new) /\ agent' = [agent EXCEPT !.pc = "registering"]
    /\ UNCHANGED <<renew, backend, cb, sess, regVars, beat, timers, mon, budget>>

(* The answer arrives and the session starts: runUntilDisconnect stores    *)
(* the token and starts the health checker and the renewal.                *)
Registered ==
    /\ agent.pc = "registering" /\ Linked /\ reg[agent.new].st = "ok"
    /\ agent' = [agent EXCEPT !.pc = "session", !.tok = agent.new, !.new = None,
                   !.exp = FALSE]
    /\ renew' = [renew EXCEPT !.st = "idle", !.tok = None]
    /\ backend' = [backend EXCEPT !.ok = TRUE, !.fails = 0]
    /\ reg' = [reg EXCEPT ![agent.new] = NoReg]
    /\ UNCHANGED <<netVars, sess, regVars, beat, timers, mon, budget>>

Unanswered == [t \in Token |-> IF Waiting(t) /\ reg[t].st \in {"ok", "err"} THEN NoReg ELSE reg[t]]
Unbeaten == [t \in Token |-> IF beat[t].st \in {"ok", "err"} THEN NoBeat ELSE beat[t]]

(* node.Close, and the wait before the next round of the loop. The session *)
(* goroutines end with it.                                                 *)
Disconnect ==
    /\ link' = None
    /\ agent' = [agent EXCEPT !.pc = "wait", !.new = None, !.hb = None]
    /\ renew' = [st |-> "off", tok |-> None]
    /\ reg' = Unanswered /\ beat' = Unbeaten /\ sess' = sess \cap Held'

(* The registration is refused, the connection is gone, or the 30 s are    *)
(* over.                                                                   *)
RegisterFails ==
    /\ agent.pc = "registering"
    /\ \/ (~Linked \/ reg[agent.new].st = "err") /\ UNCHANGED budget
       \/ Fault
    /\ UNCHANGED <<backend, conns, cb, regVars, timers, mon>>
    /\ Disconnect

sendHeartbeat ==
    /\ agent.pc = "session" /\ agent.hb = None /\ beat[agent.tok].st = "none" /\ Linked
    /\ beat' = [beat EXCEPT ![agent.tok] = [st |-> "recv", up |-> backend.ok, ptr |-> FALSE]]
    /\ agent' = [agent EXCEPT !.hb = agent.tok]
    /\ UNCHANGED <<renew, backend, netVars, sess, regVars, reg, timers, mon, budget>>

HeartbeatAnswered ==
    /\ agent.pc = "session" /\ agent.hb # None /\ Linked /\ beat[agent.hb].st = "ok"
    /\ agent' = [agent EXCEPT !.hb = None]
    /\ beat' = [beat EXCEPT ![agent.hb] = NoBeat]
    /\ UNCHANGED <<renew, backend, netVars, sess, regVars, reg, timers, mon, budget>>

(* runUntilDisconnect returns: the heartbeat cannot be sent or answered,   *)
(* or the router refuses it.                                               *)
HeartbeatFails ==
    /\ agent.pc = "session"
    /\ ~Linked \/ (agent.hb # None /\ beat[agent.hb].st = "err")
    /\ UNCHANGED <<backend, conns, cb, regVars, timers, mon, budget>>
    /\ Disconnect

runBackendHealthChecker ==
    /\ agent.pc = "session"
    /\ \/ backend.up /\ ~(backend.ok /\ backend.fails = 0)
       \/ ~backend.up /\ backend.fails < Threshold
    /\ backend' = IF backend.up THEN [backend EXCEPT !.ok = TRUE, !.fails = 0]
                  ELSE [backend EXCEPT !.fails = @ + 1,
                          !.ok = @ /\ backend.fails + 1 # Threshold]
    /\ UNCHANGED <<agent, renew, netVars, sess, regVars, reqVars, timers, mon, budget>>

(* runReAuth: authenticate and register, and only then store the token.    *)
ReRegister ==
    /\ agent.pc = "session" /\ renew.st = "idle" /\ budget.renewals > 0 /\ Linked
    /\ \E t \in NewTokens :
         /\ Authenticate(t) /\ registerWithRouter(t)
         /\ renew' = [renew EXCEPT !.st = "wait", !.tok = t]
    /\ budget' = [budget EXCEPT !.renewals = @ - 1]
    /\ UNCHANGED <<agent, backend, netVars, regVars, beat, timers, mon>>

ReRegistered ==
    /\ renew.st = "wait"
    /\ \/ /\ Linked /\ reg[renew.tok].st = "ok"
          /\ renew' = [renew EXCEPT !.st = "store"] /\ UNCHANGED budget
       \/ /\ \/ reg[renew.tok].st = "err" /\ UNCHANGED budget
             \/ Fault
          /\ renew' = [renew EXCEPT !.st = "idle", !.tok = None]
    /\ reg' = IF reg[renew.tok].st \in {"ok", "err"} THEN [reg EXCEPT ![renew.tok] = NoReg] ELSE reg
    /\ UNCHANGED <<agent, backend, netVars, regVars, beat, timers, mon>>
    /\ sess' = sess \cap Held'

StoreToken ==
    /\ renew.st = "store"
    /\ agent' = [agent EXCEPT !.tok = renew.tok, !.exp = FALSE]
    /\ renew' = [renew EXCEPT !.st = "idle", !.tok = None]
    /\ UNCHANGED <<backend, netVars, regVars, reqVars, timers, mon, budget>>
    /\ sess' = sess \cap Held'

(* The process stops, for good or until it is started again with the same  *)
(* identity, perhaps before another model.                                 *)
Crash ==
    /\ agent.pc # "down" /\ Fault
    /\ agent' = [agent EXCEPT !.pc = "down", !.tok = None, !.new = None, !.hb = None, !.exp = FALSE]
    /\ renew' = [st |-> "off", tok |-> None]
    /\ link' = None /\ reg' = Unanswered /\ beat' = Unbeaten
    /\ UNCHANGED <<backend, conns, cb, regVars, timers, mon>>
    /\ sess' = sess \cap Held'

Restart ==
    /\ agent.pc = "down"
    /\ \E m \in Model : agent' = [agent EXCEPT !.pc = "wait", !.model = m]
    /\ UNCHANGED <<renew, backend, netVars, sess, regVars, reqVars, timers, mon, budget>>

BackendFails ==
    /\ backend.up /\ Fault /\ backend' = [backend EXCEPT !.up = FALSE]
    /\ UNCHANGED <<agent, renew, netVars, sess, regVars, reqVars, timers, mon>>

BackendRecovers ==
    /\ ~backend.up /\ backend' = [backend EXCEPT !.up = TRUE]
    /\ UNCHANGED <<agent, renew, netVars, sess, regVars, reqVars, timers, mon, budget>>

-----------------------------------------------------------------------------
(* The register handler.                                                   *)

At(t, st) == reg[t].st = st

(* The old session goes before the new agent is registered.                *)
ValidateDeletes(t) ==
    /\ At(t, "recv") /\ ValidateSession(t)
    /\ reg' = [reg EXCEPT ![t].st = "check", ![t].old = cur.tok]
    /\ sess' = sess \ {cur.tok}
    /\ UNCHANGED <<procVars, netVars, regVars, beat, timers, mon, budget>>

(* ValidateSession, LinkPeerID, the new domain.Agent and the old token.    *)
ValidateRegister(t) ==
    /\ At(t, "recv")
    /\ reg' = [reg EXCEPT ![t] = IF ValidateSession(t) THEN [@ EXCEPT !.st = "check", !.old = cur.tok]
                                 ELSE IF Waiting(t) THEN [NoReg EXCEPT !.st = "err"] ELSE NoReg]
    /\ UNCHANGED <<procVars, netVars, sess, regVars, beat, timers, mon, budget>>

(* installAgent: the lock and peerConnected, then Register and the unlock. *)
InstallCheck(t) ==
    /\ At(t, "check") /\ mu = None
    /\ mu' = t
    /\ reg' = [reg EXCEPT ![t].st = "install", ![t].up = peerConnected]
    /\ UNCHANGED <<procVars, netVars, sess, cur, byModel, beat, timers, mon, budget>>

(* AgentRegistry.Register: the agent it replaces stays in its own bucket.  *)
Register(t, m) == byModel' = [n \in Model |-> IF n = m THEN "cur"
                                              ELSE IF byModel[n] = "cur" THEN "old" ELSE byModel[n]]

(* Pointers to the registered agent, once it is another one.               *)
Replaced ==
    /\ cb' = [c \in Conn |-> [cb[c] EXCEPT !.ptr = FALSE]]
    /\ beat' = [t \in Token |-> [beat[t] EXCEPT !.ptr = FALSE]]

InstallRegister(t) ==
    /\ At(t, "install")
    /\ cur' = [NoAgent EXCEPT !.tok = t, !.model = reg[t].model, !.healthy = reg[t].up]
    /\ Register(t, reg[t].model) /\ Replaced /\ mon' = [mon EXCEPT !.ptr = FALSE]
    /\ mu' = None /\ reg' = [reg EXCEPT ![t].st = "finish"]
    /\ UNCHANGED <<procVars, link, conns, sess, timers, budget>>

(* The answer, and the timer that deletes the old session two seconds      *)
(* later.                                                                  *)
FinishRegister(t) ==
    /\ At(t, "finish")
    /\ timers' = timers \cup ({reg[t].old} \ {None})
    /\ reg' = [reg EXCEPT ![t] = IF Waiting(t) THEN [NoReg EXCEPT !.st = "ok"] ELSE NoReg]
    /\ UNCHANGED <<procVars, netVars, sess, cur, byModel, mu, beat, mon, budget>>

DeleteSession(t) == sess' = sess \ {t}

DeleteOld(t) ==
    /\ t \in timers /\ timers' = timers \ {t}
    /\ DeleteSession(t)
    /\ UNCHANGED <<procVars, netVars, regVars, reqVars, mon, budget>>

(* The agent's session passes its TTL: its renewals have failed for long.  *)
Expire ==
    /\ agent.tok \in sess /\ Fault
    /\ DeleteSession(agent.tok) /\ agent' = [agent EXCEPT !.exp = TRUE]
    /\ UNCHANGED <<renew, backend, netVars, regVars, reqVars, timers, mon>>

-----------------------------------------------------------------------------
(* The heartbeat handler.                                                  *)

(* ValidateSession, then the registry: 401 or 404.                         *)
HeartbeatGet(t) ==
    /\ beat[t].st = "recv"
    /\ beat' = [beat EXCEPT ![t] =
                  IF ValidateSession(t) /\ cur.tok # None THEN [@ EXCEPT !.st = "got", !.ptr = TRUE]
                  ELSE IF agent.hb = t THEN [NoBeat EXCEPT !.st = "err"] ELSE NoBeat]
    /\ UNCHANGED <<procVars, netVars, sess, regVars, reg, timers, mon, budget>>

Answer(t, ok) == IF agent.hb # t THEN NoBeat ELSE [NoBeat EXCEPT !.st = IF ok THEN "ok" ELSE "err"]

(* The heartbeat does not look at the connection.                          *)
ApplyUnchecked(t) ==
    /\ beat[t].st = "got" /\ mu = None
    /\ cur' = IF beat[t].ptr
                 THEN [cur EXCEPT !.healthy = beat[t].up, !.by = "beat", !.age = "fresh"] ELSE cur
    /\ beat' = [beat EXCEPT ![t] = Answer(t, TRUE)]
    /\ UNCHANGED <<procVars, netVars, sess, byModel, mu, reg, timers, mon, budget>>

(* A heartbeat can mark the agent unhealthy and not healthy again.         *)
ApplyOnlyDown(t) ==
    /\ beat[t].st = "got" /\ mu = None
    /\ cur' = IF peerConnected /\ beat[t].ptr
                 THEN [cur EXCEPT !.healthy = @ /\ beat[t].up, !.by = "beat", !.age = "fresh"] ELSE cur
    /\ beat' = [beat EXCEPT ![t] = Answer(t, peerConnected)]
    /\ UNCHANGED <<procVars, netVars, sess, byModel, mu, reg, timers, mon, budget>>

(* Under connHealthMu: 409 without a connection.                           *)
HeartbeatApply(t) ==
    /\ beat[t].st = "got" /\ mu = None
    /\ cur' = IF peerConnected /\ beat[t].ptr
                 THEN [cur EXCEPT !.healthy = beat[t].up, !.by = "beat", !.age = "fresh"] ELSE cur
    /\ beat' = [beat EXCEPT ![t] = Answer(t, peerConnected)]
    /\ UNCHANGED <<procVars, netVars, sess, byModel, mu, reg, timers, mon, budget>>

-----------------------------------------------------------------------------
(* The connection closes: libp2p drops it from its table, then calls       *)
(* DisconnectedF.                                                          *)

NetworkDrop ==
    /\ Linked /\ Fault /\ link' = None
    /\ UNCHANGED <<procVars, conns, cb, sess, regVars, reqVars, timers, mon>>

ConnClosed(c) ==
    /\ c \in conns /\ c # link
    /\ conns' = conns \ {c}
    /\ cb' = [cb EXCEPT ![c].st = "check"]
    /\ UNCHANGED <<procVars, link, sess, regVars, reqVars, timers, mon, budget>>

DisconnectedCheck(c) ==
    /\ cb[c].st = "check"
    /\ cb' = [cb EXCEPT ![c].st = IF peerConnected THEN "none" ELSE "get"]
    /\ UNCHANGED <<procVars, link, conns, sess, regVars, reqVars, timers, mon, budget>>

DisconnectedGet(c) ==
    /\ cb[c].st = "get"
    /\ cb' = [cb EXCEPT ![c] = IF cur.tok = None THEN NoCb ELSE [st |-> "lock", ptr |-> TRUE]]
    /\ UNCHANGED <<procVars, link, conns, sess, regVars, reqVars, timers, mon, budget>>

DisconnectedMark(c) ==
    /\ cb[c].st = "lock" /\ mu = None
    /\ cur' = IF cb[c].ptr THEN [cur EXCEPT !.healthy = FALSE] ELSE cur
    /\ cb' = [cb EXCEPT ![c] = NoCb]
    /\ UNCHANGED <<procVars, link, conns, sess, byModel, mu, reqVars, timers, mon, budget>>

-----------------------------------------------------------------------------
(* The health monitor.                                                     *)

(* Time since LastSeen: past UnhealthyAfter, then past RemoveAfter. For an *)
(* agent that has its connection the first is a fault, and the second for  *)
(* any that runs: it takes several rounds of the agent's loop.             *)
Age ==
    /\ cur.tok # None /\ RouterQuiet
    /\ \/ /\ cur.age = "fresh" /\ cur.healthy
          /\ IF Linked THEN Fault ELSE UNCHANGED budget
          /\ cur' = [cur EXCEPT !.age = "late"]
       \/ /\ cur.age # "dead" /\ IF agent.pc = "down" THEN UNCHANGED budget ELSE Fault
          /\ cur' = [cur EXCEPT !.age = "dead"]
    /\ UNCHANGED <<procVars, netVars, sess, byModel, mu, reqVars, timers, mon>>

MonitorRead ==
    /\ mon.st = "idle" /\ cur.age # "fresh" /\ (cur.healthy \/ cur.age = "dead")
    /\ mon' = [NoMon EXCEPT !.st = "mark", !.ptr = TRUE, !.dead = cur.age = "dead"]
    /\ UNCHANGED <<procVars, netVars, sess, regVars, reqVars, timers, budget>>

MonitorMark ==
    /\ mon.st = "mark"
    /\ cur' = IF mon.ptr THEN [cur EXCEPT !.healthy = FALSE] ELSE cur
    /\ mon' = IF mon.dead THEN [NoMon EXCEPT !.st = "recheck"] ELSE NoMon
    /\ UNCHANGED <<procVars, netVars, sess, byModel, mu, reqVars, timers, budget>>

MonitorRecheck ==
    /\ mon.st = "recheck"
    /\ mon' = IF cur.age = "dead" THEN [NoMon EXCEPT !.st = "close", !.tok = cur.tok] ELSE NoMon
    /\ UNCHANGED <<procVars, netVars, sess, regVars, reqVars, timers, budget>>

(* ClosePeer and DeleteSession.                                            *)
MonitorClose ==
    /\ mon.st = "close"
    /\ conns' = {} /\ cb' = [c \in Conn |-> IF c \in conns THEN [NoCb EXCEPT !.st = "check"] ELSE cb[c]]
    /\ DeleteSession(mon.tok)
    /\ mon' = [NoMon EXCEPT !.st = "drop"]
    /\ UNCHANGED <<procVars, link, regVars, reqVars, timers, budget>>

(* AgentRegistry.Unregister: by peer ID, whoever is registered by now.     *)
Unregister ==
    /\ cur' = NoAgent
    /\ byModel' = [m \in Model |-> IF byModel[m] = "cur" THEN "none" ELSE byModel[m]]

MonitorDrop ==
    /\ mon.st = "drop" /\ Unregister /\ Replaced
    /\ mon' = NoMon
    /\ UNCHANGED <<procVars, link, conns, mu, reg, timers, budget>>
    /\ sess' = sess \cap Held'

-----------------------------------------------------------------------------

AgentStep ==
    \/ authenticate \/ buildRouterClient \/ Registered \/ RegisterFails
    \/ sendHeartbeat \/ HeartbeatAnswered \/ HeartbeatFails
    \/ runBackendHealthChecker \/ ReRegister \/ ReRegistered \/ StoreToken

RegisterStep(t) ==
    ValidateRegister(t) \/ InstallCheck(t) \/ InstallRegister(t) \/ FinishRegister(t)

HeartbeatStep(t) == HeartbeatGet(t) \/ HeartbeatApply(t)

DisconnectStep(c) ==
    ConnClosed(c) \/ DisconnectedCheck(c) \/ DisconnectedGet(c) \/ DisconnectedMark(c)

MonitorStep ==
    \/ MonitorRead \/ MonitorMark \/ MonitorRecheck \/ MonitorClose \/ MonitorDrop

Next ==
    \/ AgentStep \/ Crash \/ Restart \/ BackendFails \/ BackendRecovers
    \/ \E t \in Token : RegisterStep(t) \/ HeartbeatStep(t) \/ DeleteOld(t)
    \/ Expire \/ NetworkDrop \/ \E c \in Conn : DisconnectStep(c)
    \/ Age \/ MonitorStep

Spec == Init /\ [][Next]_vars

Fairness ==
    /\ WF_vars(authenticate) /\ WF_vars(buildRouterClient) /\ WF_vars(Registered)
    /\ WF_vars(RegisterFails /\ UNCHANGED budget)
    /\ SF_vars(sendHeartbeat) /\ WF_vars(HeartbeatAnswered) /\ WF_vars(HeartbeatFails)
    /\ WF_vars(runBackendHealthChecker) /\ WF_vars(BackendRecovers)
    /\ WF_vars(ReRegistered /\ UNCHANGED budget) /\ WF_vars(StoreToken)
    /\ \A t \in Token : /\ WF_vars(RegisterStep(t)) /\ WF_vars(HeartbeatStep(t))
                        /\ WF_vars(DeleteOld(t))
    /\ \A c \in Conn : WF_vars(DisconnectStep(c))
    /\ WF_vars(Age /\ UNCHANGED budget) /\ WF_vars(MonitorStep)

FairSpec == Spec /\ Fairness

-----------------------------------------------------------------------------
(* Correctness.                                                            *)

(* Every variable has its type.                                            *)
TypeOK ==
    /\ agent \in [pc : {"wait", "connect", "registering", "session", "down"},
                  model : Model, tok : Token \cup {None}, new : Token \cup {None},
                  hb : Token \cup {None}, exp : BOOLEAN]
    /\ renew \in [st : {"off", "idle", "wait", "store"}, tok : Token \cup {None}]
    /\ backend \in [up : BOOLEAN, ok : BOOLEAN, fails : 0..Threshold]
    /\ link \in Conn \cup {None} /\ conns \subseteq Conn
    /\ cb \in [Conn -> [st : {"none", "check", "get", "lock"}, ptr : BOOLEAN]]
    /\ sess \subseteq Token
    /\ cur \in [tok : Token \cup {None}, model : Model \cup {None}, healthy : BOOLEAN,
                by : {"install", "beat"}, age : {"fresh", "late", "dead"}]
    /\ byModel \in [Model -> {"none", "cur", "old"}] /\ mu \in Token \cup {None}
    /\ reg \in [Token -> [st : {"none", "recv", "check", "install", "finish", "ok", "err"},
                          model : Model \cup {None}, old : Token \cup {None}, up : BOOLEAN]]
    /\ beat \in [Token -> [st : {"none", "recv", "got", "ok", "err"}, up : BOOLEAN, ptr : BOOLEAN]]
    /\ timers \subseteq Token
    /\ mon \in [st : {"idle", "mark", "recheck", "close", "drop"},
                ptr : BOOLEAN, dead : BOOLEAN, tok : Token \cup {None}]
    /\ budget \in [faults : Nat, renewals : Nat]

Ghost == cur.healthy /\ conns = {}

(* A disconnect callback that has still to look the agent up, or holds it. *)
CallbackPending == \E c \in Conn : \/ cb[c].st \in {"check", "get"}
                                   \/ cb[c].st = "lock" /\ cb[c].ptr

(* connHealthMu: a heartbeat never leaves an agent healthy that has no     *)
(* connection, unless the disconnect callback that will see it is on its   *)
(* way.                                                                    *)
LateHeartbeat == Ghost /\ cur.by = "beat" => CallbackPending

(* installAgent: nor does a registration.                                  *)
InstallOrdered == Ghost /\ cur.by = "install" => CallbackPending

(* Each agent belongs to exactly one model bucket, and an agent that was   *)
(* removed to none.                                                        *)
OneBucket == \A m \in Model : byModel[m] # "old"

(* handleAgentRegister: there is no window where neither token is valid.   *)
(* During a session of the agent the token registered last is valid: the   *)
(* old one until a renewal has registered the new one, and the new one     *)
(* from then on, whichever registration and timer come late; unless the    *)
(* session passes its TTL or the monitor is removing the agent.            *)
TokenOverlap ==
    agent.pc = "session" => \/ cur.tok \in sess
                            \/ agent.exp /\ cur.tok = agent.tok
                            \/ cur.tok = None \/ mon.st = "drop"

InPool == agent.pc = "session" /\ Linked /\ cur.healthy

(* Once the faults are over, the registry tells the truth for good: an     *)
(* agent that is gone has left it, with all of its connections             *)
(* (healthMonitor), and one that runs is back in the routing pool.         *)
Settles ==
    /\ <>[](agent.pc = "down") => <>[](cur.tok = None /\ conns = {})
    /\ []<>(agent.pc = "down") \/ <>[]InPool
=============================================================================
