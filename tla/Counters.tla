------------------------------ MODULE Counters ------------------------------
(***************************************************************************)
(* The lifetime counters of one agent: UniversalCounterStore in            *)
(* internal/metrics/universal.go, and the calls of the router that touch   *)
(* them (registration and health monitor in internal/router/router.go).    *)
(*                                                                         *)
(* A state object holds baselines read from the disk and what was counted  *)
(* since; a sync.Map points to the current one.  Whoever has loaded the    *)
(* pointer goes on with that object when it has been replaced.  Nothing    *)
(* but flushMu, which FlushAll and ResetAll take, orders the loads and     *)
(* stores of different calls, so each is a step of its own.                *)
(***************************************************************************)
EXTENDS Integers, Sequences

CONSTANTS Rec,          \* forwards whose outcome is recorded
          MaxObjects,   \* bound: state objects made
          MaxFlushes,   \* bound: flushes, resets and crashes
          MaxResets,
          MaxCrashes

Field == {"requests", "agentFailures"}   \* requests: successful, failed and their tokens
Zero == [f \in Field |-> 0]
Sum(a, b) == [f \in Field |-> a[f] + b[f]]
Within(a, b) == \A f \in Field : a[f] <= b[f]

VARIABLES
    objs,       \* the state objects: baselines and counts of the session
    cur,        \* states[peer]: which of them, 0 for none
    stored,     \* universalHistory on disk, Zero when there is none
    rec,        \* each forward's Record call: step and object
    boot,       \* Bootstrap: "idle", "read", and the object it is making
    mon,        \* the monitor: "idle", "load", "built", "delete"; object, history
    flush,      \* FlushAll: "idle", "locked", "built"; history
    wiping,     \* ResetAll: "idle", "locked", "swapped"
    bound,      \* flushes, resets and crashes so far
    recorded,   \* outcomes counted ever, and since the last reset
    since,
    overlap     \* a registration, a removal or a crash met the last reset

countersVars == <<objs, cur, stored, rec, boot, mon, flush, wiping, bound, recorded, since, overlap>>

Idle == [st |-> "idle", obj |-> 0, h |-> Zero]

CountersInit ==
    /\ objs = << >> /\ cur = 0 /\ stored = Zero
    /\ rec = [r \in Rec |-> [st |-> "forward", obj |-> 0]]
    /\ boot = Idle /\ mon = Idle /\ flush = Idle /\ wiping = "idle"
    /\ bound = [flush |-> 0, reset |-> 0, crash |-> 0]
    /\ recorded = Zero /\ since = Zero /\ overlap = FALSE

flushMuFree == flush.st = "idle" /\ wiping = "idle"
buildHistory(o) == Sum(objs[o].base, objs[o].session)
Room == Len(objs) < MaxObjects
NewObject(base) == Append(objs, [base |-> base, session |-> Zero])

Add(o, f) ==
    /\ objs' = [objs EXCEPT ![o].session[f] = @ + 1]
    /\ recorded' = [recorded EXCEPT ![f] = @ + 1]
    /\ since' = [since EXCEPT ![f] = @ + 1]

-----------------------------------------------------------------------------
(* RecordSuccess and RecordFailure, at the end of a forward, which may     *)
(* outlive the agent's registration: the pointer, then the counter.        *)

getOrInit(r) ==
    /\ rec[r].st = "forward"
    /\ IF cur # 0 THEN UNCHANGED <<objs, cur>>
       ELSE Room /\ objs' = NewObject(Zero) /\ cur' = Len(objs')
    /\ rec' = [rec EXCEPT ![r] = [st |-> "add", obj |-> cur']]
    /\ UNCHANGED <<stored, boot, mon, flush, wiping, bound, recorded, since, overlap>>

RecordOutcome(r) ==
    /\ rec[r].st = "add"
    /\ Add(rec[r].obj, "requests")
    /\ rec' = [rec EXCEPT ![r] = [st |-> "done", obj |-> 0]]
    /\ UNCHANGED <<cur, stored, boot, mon, flush, wiping, bound, overlap>>

-----------------------------------------------------------------------------
(* Bootstrap, in the handler of a registration: the history is read, then  *)
(* a new object replaces the current one.                                  *)

BootstrapRead ==
    /\ boot.st = "idle" /\ Room
    /\ boot' = [Idle EXCEPT !.st = "read", !.h = stored]
    /\ overlap' = (overlap \/ wiping # "idle")
    /\ UNCHANGED <<objs, cur, stored, rec, mon, flush, wiping, bound, recorded, since>>

(* Plausible bug: the counts of the session are carried over on top of a   *)
(* history that already holds some of them.                                *)
CarrySession ==
    /\ boot.st = "read" /\ Room
    /\ objs' = NewObject(IF cur = 0 THEN boot.h ELSE Sum(boot.h, objs[cur].session))
    /\ cur' = Len(objs')
    /\ boot' = Idle
    /\ UNCHANGED <<stored, rec, mon, flush, wiping, bound, recorded, since, overlap>>

BootstrapStore ==
    /\ boot.st = "read" /\ Room
    /\ objs' = NewObject(boot.h) /\ cur' = Len(objs')
    /\ boot' = Idle
    /\ UNCHANGED <<stored, rec, mon, flush, wiping, bound, recorded, since, overlap>>

-----------------------------------------------------------------------------
(* The health monitor: an agent that misses heartbeats is counted, one     *)
(* that stays away is flushed (RecordDisconnect) and dropped (DeleteState).*)

RecordAgentFailure ==
    /\ mon.st = "idle" /\ cur # 0 /\ objs[cur].session["agentFailures"] = 0   \* bound: one an object
    /\ Add(cur, "agentFailures")
    /\ UNCHANGED <<cur, stored, rec, boot, mon, flush, wiping, bound, overlap>>

RecordDisconnect ==
    /\ mon.st = "idle" /\ cur # 0
    /\ mon' = [Idle EXCEPT !.st = "load", !.obj = cur]
    /\ UNCHANGED <<objs, cur, stored, rec, boot, flush, wiping, bound, recorded, since, overlap>>

DisconnectBuild ==
    /\ mon.st = "load"
    /\ mon' = [mon EXCEPT !.st = "built", !.h = buildHistory(mon.obj)]
    /\ UNCHANGED <<objs, cur, stored, rec, boot, flush, wiping, bound, recorded, since, overlap>>

DisconnectWrite ==
    /\ mon.st = "built"
    /\ stored' = mon.h
    /\ mon' = [Idle EXCEPT !.st = "delete"]
    /\ UNCHANGED <<objs, cur, rec, boot, flush, wiping, bound, recorded, since, overlap>>

DeleteState ==
    /\ mon.st = "delete"
    /\ cur' = 0 /\ mon' = Idle
    /\ UNCHANGED <<objs, stored, rec, boot, flush, wiping, bound, recorded, since, overlap>>

-----------------------------------------------------------------------------
(* FlushAll, periodic and at shutdown, under flushMu.                      *)

(* Plausible bug: the flush takes no lock.                                 *)
FlushUnlocked ==
    /\ flush.st = "idle" /\ cur # 0 /\ bound.flush < MaxFlushes
    /\ flush' = [Idle EXCEPT !.st = "locked", !.obj = cur]
    /\ bound' = [bound EXCEPT !.flush = @ + 1]
    /\ UNCHANGED <<objs, cur, stored, rec, boot, mon, wiping, recorded, since, overlap>>

FlushAll ==
    /\ flushMuFree /\ cur # 0 /\ bound.flush < MaxFlushes
    /\ flush' = [Idle EXCEPT !.st = "locked", !.obj = cur]
    /\ bound' = [bound EXCEPT !.flush = @ + 1]
    /\ UNCHANGED <<objs, cur, stored, rec, boot, mon, wiping, recorded, since, overlap>>

FlushBuild ==
    /\ flush.st = "locked"
    /\ flush' = [flush EXCEPT !.st = "built", !.h = buildHistory(flush.obj)]
    /\ UNCHANGED <<objs, cur, stored, rec, boot, mon, wiping, bound, recorded, since, overlap>>

FlushWrite ==
    /\ flush.st = "built"
    /\ stored' = flush.h /\ flush' = Idle
    /\ UNCHANGED <<objs, cur, rec, boot, mon, wiping, bound, recorded, since, overlap>>

-----------------------------------------------------------------------------
(* ResetAll, under flushMu: the object is swapped for a fresh one, then    *)
(* the history is wiped.                                                   *)

ResetAll ==
    /\ flushMuFree /\ bound.reset < MaxResets
    /\ wiping' = "locked"
    /\ bound' = [bound EXCEPT !.reset = @ + 1]
    /\ UNCHANGED <<objs, cur, stored, rec, boot, mon, flush, recorded, since, overlap>>

ResetSwap ==
    /\ wiping = "locked"
    /\ IF cur = 0 THEN UNCHANGED <<objs, cur>>
       ELSE Room /\ objs' = NewObject(Zero) /\ cur' = Len(objs')
    /\ wiping' = "swapped" /\ since' = Zero
    /\ overlap' = (boot.st # "idle" \/ mon.st \in {"load", "built"})
    /\ UNCHANGED <<stored, rec, boot, mon, flush, bound, recorded>>

ResetWipe ==
    /\ wiping = "swapped"
    /\ stored' = Zero /\ wiping' = "idle"
    /\ UNCHANGED <<objs, cur, rec, boot, mon, flush, bound, recorded, since, overlap>>

-----------------------------------------------------------------------------
(* The router dies and starts again: the disk stays.                       *)
CountersCrash ==
    /\ bound.crash < MaxCrashes /\ cur # 0
    /\ bound' = [bound EXCEPT !.crash = @ + 1]
    /\ cur' = 0 /\ boot' = Idle /\ mon' = Idle /\ flush' = Idle /\ wiping' = "idle"
    /\ rec' = [r \in Rec |-> IF rec[r].st = "add" THEN [st |-> "done", obj |-> 0] ELSE rec[r]]
    /\ overlap' = (overlap \/ wiping = "swapped")
    /\ UNCHANGED <<objs, stored, recorded, since>>

CountersNext ==
    \/ \E r \in Rec : getOrInit(r) \/ RecordOutcome(r)
    \/ BootstrapRead \/ BootstrapStore
    \/ RecordAgentFailure \/ RecordDisconnect \/ DisconnectBuild \/ DisconnectWrite \/ DeleteState
    \/ FlushAll \/ FlushBuild \/ FlushWrite
    \/ ResetAll \/ ResetSwap \/ ResetWipe
    \/ CountersCrash

CountersSpec == CountersInit /\ [][CountersNext]_countersVars

-----------------------------------------------------------------------------
(* Properties.                                                             *)

CountersTypeOK ==
    /\ cur \in 0..Len(objs) /\ stored \in [Field -> Nat]
    /\ \A r \in Rec : rec[r].st \in {"forward", "add", "done"} /\ rec[r].obj \in 0..Len(objs)
    /\ boot.st \in {"idle", "read"} /\ mon.st \in {"idle", "load", "built", "delete"}
    /\ flush.st \in {"idle", "locked", "built"} /\ wiping \in {"idle", "locked", "swapped"}

Totals == {stored} \cup (IF cur = 0 THEN {} ELSE {buildHistory(cur)})

(* Nothing is counted twice: whatever registrations, flushes, removals and *)
(* crashes do to a history, neither the disk nor the totals shown ever     *)
(* hold more outcomes than there were.                                     *)
NeverInvented == \A t \in Totals : Within(t, recorded)

(* A reset is not undone: afterwards the totals hold nothing from before   *)
(* it, unless a registration or a removal that had already read the old    *)
(* totals overlapped it, or a crash cut it short (flushMu, ResetAll).      *)
ResetHolds == wiping = "idle" /\ ~overlap => \A t \in Totals : Within(t, since)

(* The history on the disk only grows between resets.                      *)
HistoryGrows == [][Within(stored, stored') \/ wiping = "swapped"]_countersVars

(* A registration carries the counts of the session before it over, as the *)
(* comment in Bootstrap says.                                              *)
CarriedOver ==
    [][boot.st = "read" /\ boot'.st = "idle" /\ cur' # 0 /\ cur # 0
        => Within(buildHistory(cur), buildHistory(cur)')]_countersVars
=============================================================================
