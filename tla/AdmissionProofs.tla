-------------------------- MODULE AdmissionProofs --------------------------
(***************************************************************************)
(* Proofs about Admission, for any set of requests, pools and state        *)
(* objects, any weights, budgets and admit fraction.                       *)
(***************************************************************************)
EXTENDS Admission, FiniteSetTheorems, TLAPS

USE ZenonT(10), SMTT(60)

(* A request that has not been admitted by a stage holds nothing there.    *)
NotYetHeld ==
    \A r \in Req : pc[r] = "enter" \/ InAdmit(r) =>
        \A j \in Stage : j >= stage[r] => res[r][j].status = "none"

(* Each goroutine works on a stage the request has.                        *)
StageInRange ==
    \A r \in Req : stage[r] <= Len(PoolOf[r]) /\ proc[r].i <= Len(PoolOf[r])

(* A charged reservation, and a call in progress, point at a state; the    *)
(* state of a call in progress was looked up less than the ttl ago.        *)
CallPointers == \A r \in Req : InAdmit(r) => st[r] \in StateId \ aged
ResPointers ==
    \A r \in Req : \A i \in Stage :
        res[r][i].status \in {"held", "marked"} => i \in Stages(r) /\ res[r][i].s \in StateId
Pointers == CallPointers /\ ResPointers

(* Channel generations only grow, so a channel read earlier is not newer   *)
(* than the current one.                                                   *)
ChannelOrder ==
    \A r \in Req : pc[r] \in {"recheck", "select"} => ch[r] <= notify[st[r]]

(* The release loop leaves no stage held that it has passed.               *)
PassedFreed ==
    \A r \in Req : \A j \in Stages(r) :
        pc[r] \in {"return", "done"} \/ (pc[r] = "release" /\ j < stage[r]) =>
            res[r][j].status # "held"

(* A state's tokens are finitely many.                                     *)
TokensFinite == \A s \in StateId : IsFiniteSet(Tokens(s))

IInv == /\ TypeOK /\ NotYetHeld /\ StageInRange /\ Pointers
        /\ ChannelOrder /\ CountExact /\ TokensFinite /\ Conservation
        /\ NoLostWakeup /\ NoOrphanState /\ PassedFreed

----------------------------------------------------------------------------
(* Integer division of naturals is a natural.                              *)
LEMMA DivNat == ASSUME NEW a \in Nat, NEW b \in Nat \ {0} PROVE a \div b \in Nat
  BY SMTT(60)

(* The budgets and limits a call carries are naturals.                     *)
LEMMA BudgetNat ==
    ASSUME NEW i \in Stage, NEW n \in Replicas
    PROVE  budgetAt(i, n) \in Nat /\ limitAt(i, n) \in Nat
  <1>1. n \in Nat /\ AdmitBudget * n \in Nat /\ MaxInflight * n \in Nat
    BY SMTT(60), NumberAssumption
  <1>2. FracNum * (AdmitBudget * n) \in Nat /\ ShareNum * (AdmitBudget * n) \in Nat
    BY SMTT(60), <1>1, NumberAssumption
  <1>3. /\ (FracNum * (AdmitBudget * n)) \div FracDen \in Nat
        /\ (ShareNum * (AdmitBudget * n)) \div ShareDen \in Nat
    BY <1>2, DivNat, NumberAssumption
  <1> QED
    BY <1>1, <1>3 DEF budgetAt, limitAt, effectiveBudget, shareBudget

(* Replacing one reservation of one request keeps the reservations typed.  *)
LEMMA ResTyped ==
    ASSUME res \in [Req -> [Stage -> ReservationType]],
           NEW r \in Req, NEW i \in Stage, NEW v \in ReservationType,
           res' = [res EXCEPT ![r][i] = v]
    PROVE  /\ res' \in [Req -> [Stage -> ReservationType]]
           /\ res'[r][i] = v
           /\ \A q \in Req, j \in Stage : <<q, j>> # <<r, i>> => res'[q][j] = res[q][j]
  <1> QED OBVIOUS

(* Stages are 1 and 2, and a request has the first or both of them.        *)
LEMMA StageFacts ==
    /\ Stage = {1, 2}
    /\ \A r \in Req : /\ Len(PoolOf[r]) \in Stage
                      /\ 1 \in Stages(r) /\ Stages(r) \subseteq Stage
                      /\ \A i \in Stages(r) : PoolOf[r][i] \in Pool
                      /\ \A i \in Stage : i <= Len(PoolOf[r]) <=> i \in Stages(r)
                      /\ \A i \in Stage : i < Len(PoolOf[r]) =>
                             i + 1 \in Stages(r) /\ i + 1 <= Len(PoolOf[r])
  <1>1. Stage = {1, 2} BY SMTT(60) DEF Stage
  <1>2. ASSUME NEW r \in Req
        PROVE  /\ Len(PoolOf[r]) \in Stage
               /\ 1 \in Stages(r) /\ Stages(r) \subseteq Stage
               /\ \A i \in Stages(r) : PoolOf[r][i] \in Pool
               /\ \A i \in Stage : i <= Len(PoolOf[r]) <=> i \in Stages(r)
               /\ \A i \in Stage : i < Len(PoolOf[r]) =>
                      i + 1 \in Stages(r) /\ i + 1 <= Len(PoolOf[r])
    <2>1. PoolOf[r] \in Seq(Pool) /\ Len(PoolOf[r]) \in 1..2
      BY PoolAssumption
    <2>2. \A q \in Seq(Pool) : \A i \in 1..Len(q) : q[i] \in Pool
      BY SMTT(60)
    <2>3. \A i \in Stages(r) : PoolOf[r][i] \in Pool
      BY <2>1, <2>2 DEF Stages
    <2>4. Len(PoolOf[r]) \in Stage
      BY <2>1 DEF Stage
    <2>5. \A n \in 1..2 : /\ 1 \in 1..n /\ 1..n \subseteq 1..2
                          /\ \A i \in 1..2 : i <= n <=> i \in 1..n
                          /\ \A i \in 1..2 : i < n => i + 1 \in 1..n /\ i + 1 <= n
      BY SMTT(60)
    <2> QED BY <2>1, <2>3, <2>4, <2>5 DEF Stages, Stage
  <1> QED BY <1>1, <1>2

----------------------------------------------------------------------------
(* Type correctness                                                        *)

(* What a step leaves alone stays typed.                                   *)
LEMMA Frame ==
    /\ CtrlType /\ UNCHANGED ctrlVars => CtrlType'
    /\ StateType /\ UNCHANGED stateVars => StateType'
    /\ FlowType /\ UNCHANGED <<pc, stage, foot, delta, sent>> => FlowType'
    /\ CallType /\ UNCHANGED callVars => CallType'
    /\ ResType /\ UNCHANGED res => ResType'
    /\ ProcType /\ UNCHANGED proc => ProcType'
  BY DEF ctrlVars, stateVars, callVars, CtrlType, StateType, FlowType, CallType, ResType,
         ProcType

(* A returning call leaves its locals typed.                               *)
LEMMA DropTyped == ASSUME CallType, NEW r \in Req, DropCall(r) PROVE CallType'
  BY DEF CallType, DropCall

(* A refusal keeps the position of the handler and the locals typed.       *)
LEMMA RefuseTyped ==
    ASSUME TypeOK, NEW r \in Req, Refuse(r), UNCHANGED <<foot, delta, sent>>
    PROVE  FlowType' /\ CallType'
  <1>1. CallType' BY DropTyped DEF Refuse, TypeOK
  <1>2. FlowType' BY SMTT(60) DEF Refuse, TypeOK, FlowType, Stage
  <1> QED BY <1>1, <1>2

(* So does an admission, and it keeps the accounting typed.                *)
LEMMA ReserveTyped ==
    ASSUME TypeOK, StageInRange, NEW r \in Req, st[r] \in StateId, Reserve(r),
           UNCHANGED <<foot, delta, sent>>
    PROVE  StateType' /\ FlowType' /\ CallType' /\ ResType'
  <1>1. CallType' BY DropTyped DEF Reserve, TypeOK
  <1>2. StateType'
    <2>1. foot[r] \in Nat /\ StateType BY DEF TypeOK, FlowType
    <2> QED BY SMTT(60), <2>1 DEF Reserve, StateType
  <1>3. FlowType'
    <2>1. stage[r] \in Stage BY DEF TypeOK, FlowType
    <2>2. stage[r] < Len(PoolOf[r]) => stage[r] + 1 \in Stage BY SMTT(60), <2>1, StageFacts
    <2> QED BY <2>2 DEF Reserve, TypeOK, FlowType
  <1>4. ResType'
    <2>1. [NoRes EXCEPT !.status = "held", !.s = st[r], !.w = foot[r]] \in ReservationType
      BY DEF NoRes, ReservationType, TypeOK, FlowType
    <2> QED BY <2>1, ResTyped DEF Reserve, TypeOK, ResType, FlowType
  <1> QED BY <1>1, <1>2, <1>3, <1>4

(* Every step of the gate keeps the variables typed.                       *)
LEMMA TypeStep == TypeOK /\ StageInRange /\ Pointers /\ [Next]_vars => TypeOK'
  <1> SUFFICES ASSUME TypeOK, StageInRange, Pointers, [Next]_vars PROVE TypeOK'
    OBVIOUS
  <1>a. CtrlType /\ StateType /\ FlowType /\ CallType /\ ResType /\ ProcType
    BY DEF TypeOK
  <1>b. SUFFICES CtrlType' /\ StateType' /\ FlowType' /\ CallType' /\ ResType' /\ ProcType'
    BY DEF TypeOK
  <1>s. \A r \in Req : /\ stage[r] \in Stages(r) /\ stage[r] \in Stage /\ 1 \in Stage
                       /\ (stage[r] < Len(PoolOf[r]) => stage[r] + 1 \in Stage)
    BY SMTT(60), <1>a, StageFacts DEF FlowType, StageInRange
  <1>p. \A r \in Req : /\ proc[r].i \in Stage
                       /\ proc[r].i < Len(PoolOf[r]) => proc[r].i + 1 \in Stage
    BY SMTT(60), <1>a, StageFacts DEF ProcType, StageInRange
  <1>1. ASSUME NEW r \in Req, EnterAdmit(r)
        PROVE  CtrlType' /\ StateType' /\ FlowType' /\ CallType' /\ ResType' /\ ProcType'
    <2>1. PICK n \in Replicas : EnterAdmit(r)!2!(n)
      BY <1>1 DEF EnterAdmit
    <2>2. budgetAt(stage[r], n) \in Nat /\ limitAt(stage[r], n) \in Nat
      BY <1>s, BudgetNat
    <2>3. StateType' /\ ResType' /\ ProcType'
      BY <1>1, <1>a, Frame DEF EnterAdmit
    <2>4. CASE Refuse(r) /\ UNCHANGED ctrlVars
      BY <1>1, <1>a, <2>3, <2>4, Frame, RefuseTyped DEF EnterAdmit
    <2>5. CASE ~(Refuse(r) /\ UNCHANGED ctrlVars)
      <3>1. PICK s \in StateId :
              /\ mapped' = [mapped EXCEPT ![PoolOf[r][stage[r]]] = s]
              /\ created' = created \cup {s} /\ aged' = aged \ {s}
              /\ st' = [st EXCEPT ![r] = s]
        BY <2>1, <2>5 DEF stateFor
      <3>2. CtrlType'
        BY <1>a, <1>s, <3>1, StageFacts DEF CtrlType
      <3>3. FlowType'
        BY <1>1, <1>a, <2>1, <2>5 DEF EnterAdmit, FlowType
      <3>4. CallType'
        BY <1>a, <2>1, <2>2, <2>5, <3>1 DEF CallType
      <3> QED BY <2>3, <3>2, <3>3, <3>4
    <2> QED BY <2>4, <2>5
  <1>2. ASSUME NEW r \in Req, Reserve(r), InAdmit(r),
               UNCHANGED <<ctrlVars, foot, delta, sent, proc>>
        PROVE  CtrlType' /\ StateType' /\ FlowType' /\ CallType' /\ ResType' /\ ProcType'
    BY <1>2, <1>a, Frame, ReserveTyped DEF Pointers, CallPointers
  <1>3. ASSUME NEW r \in Req, TryFirst(r)
        PROVE  CtrlType' /\ StateType' /\ FlowType' /\ CallType' /\ ResType' /\ ProcType'
    <2>1. CASE Fits(r) /\ Reserve(r)
      BY <1>2, <1>3, <2>1 DEF TryFirst, InAdmit
    <2>2. CASE Refuse(r) /\ UNCHANGED <<stateVars, res>>
      BY <1>3, <1>a, <2>2, Frame, RefuseTyped DEF TryFirst
    <2>3. CASE pc' = [pc EXCEPT ![r] = "loop"] /\ UNCHANGED <<stateVars, stage, callVars, res>>
      <3>1. FlowType' BY <1>3, <1>a, <2>3 DEF TryFirst, FlowType
      <3> QED BY <1>3, <1>a, <2>3, <3>1, Frame DEF TryFirst
    <2> QED BY <1>3, <2>1, <2>2, <2>3 DEF TryFirst
  <1>4. ASSUME NEW r \in Req, notifyCh(r)
        PROVE  CtrlType' /\ StateType' /\ FlowType' /\ CallType' /\ ResType' /\ ProcType'
    <2>1. FlowType' BY <1>4, <1>a DEF notifyCh, FlowType
    <2>2. CallType' BY <1>4, <1>a DEF notifyCh, CallType, StateType, Pointers, CallPointers, InAdmit
    <2> QED BY <1>4, <1>a, <2>1, <2>2, Frame DEF notifyCh
  <1>5. ASSUME NEW r \in Req, Recheck(r)
        PROVE  CtrlType' /\ StateType' /\ FlowType' /\ CallType' /\ ResType' /\ ProcType'
    <2>1. CASE Fits(r)
      BY <1>2, <1>5, <2>1 DEF Recheck, InAdmit
    <2>2. CASE ~Fits(r)
      <3>1. FlowType' BY <1>5, <1>a, <2>2 DEF Recheck, FlowType
      <3> QED BY <1>5, <1>a, <2>2, <3>1, Frame DEF Recheck
    <2> QED BY <2>1, <2>2
  <1>6. ASSUME NEW r \in Req, WakeUp(r)
        PROVE  CtrlType' /\ StateType' /\ FlowType' /\ CallType' /\ ResType' /\ ProcType'
    <2>1. FlowType' BY <1>6, <1>a DEF WakeUp, FlowType
    <2> QED BY <1>6, <1>a, <2>1, Frame DEF WakeUp
  <1>7. ASSUME NEW r \in Req, ParkEnds(r)
        PROVE  CtrlType' /\ StateType' /\ FlowType' /\ CallType' /\ ResType' /\ ProcType'
    <2>1. CASE Refuse(r)
      BY <1>7, <1>a, <2>1, Frame, RefuseTyped DEF ParkEnds
    <2>2. CASE ~Refuse(r)
      <3>1. FlowType' BY <1>7, <1>a, <2>2 DEF ParkEnds, FlowType
      <3> QED BY <1>7, <1>a, <2>2, <3>1, Frame, DropTyped DEF ParkEnds
    <2> QED BY <2>1, <2>2
  <1>8. ASSUME NEW r \in Req, RejectLater(r) \/ Enqueue(r) \/ HandlerReturn(r)
        PROVE  CtrlType' /\ StateType' /\ FlowType' /\ CallType' /\ ResType' /\ ProcType'
    <2>1. FlowType'
      BY <1>8, <1>a, <1>s DEF RejectLater, Enqueue, HandlerReturn, FlowType
    <2> QED BY <1>8, <1>a, <2>1, Frame DEF RejectLater, Enqueue, HandlerReturn
  <1>9. ASSUME NEW r \in Req, Respond(r)
        PROVE  CtrlType' /\ StateType' /\ FlowType' /\ CallType' /\ ResType' /\ ProcType'
    <2>1. FlowType' BY <1>9, <1>a, <1>s, NumberAssumption DEF Respond, FlowType
    <2> QED BY <1>9, <1>a, <2>1, Frame DEF Respond
  <1>10. ASSUME NEW r \in Req, Adjust(r)
        PROVE  CtrlType' /\ StateType' /\ FlowType' /\ CallType' /\ ResType' /\ ProcType'
    <2> DEFINE i == stage[r]
               v == res[r][i]
               d == TrueUp(r, v)
    <2>1. v \in ReservationType /\ d \in Int /\ v.w + d \in Nat
      BY SMTT(60), <1>a, <1>s DEF ResType, ReservationType, FlowType, TrueUp
    <2>2. v.status = "held" => v.s \in StateId
      BY <1>s DEF Pointers, ResPointers
    <2>3. FlowType'
      <3>1. /\ UNCHANGED <<foot, sent>>
            /\ \/ /\ i < Len(PoolOf[r])
                  /\ stage' = [stage EXCEPT ![r] = i + 1] /\ UNCHANGED <<pc, delta>>
               \/ /\ stage' = [stage EXCEPT ![r] = 1]
                  /\ pc' = [pc EXCEPT ![r] = "release"]
                  /\ delta' = [delta EXCEPT ![r] = 0]
        BY <1>10 DEF Adjust
      <3>2. 1 \in Stage /\ (i < Len(PoolOf[r]) => i + 1 \in Stage) BY <1>s
      <3>3. stage' \in [Req -> Stage]
        BY <1>a, <3>1, <3>2 DEF FlowType
      <3>4. delta' \in [Req -> Int] /\ UNCHANGED <<foot, sent>>
        BY SMTT(60), <1>a, <3>1 DEF FlowType
      <3>5. pc' \in [Req -> {"enter", "try", "loop", "recheck", "select", "admitted",
                              "await", "adjust", "release", "return", "done"}]
        BY <1>a, <3>1 DEF FlowType
      <3> QED BY <1>a, <3>3, <3>4, <3>5 DEF FlowType
    <2>4. CASE v.status # "held" \/ d = 0
      BY <1>10, <1>a, <2>3, <2>4, Frame DEF Adjust, stateVars
    <2>5. CASE ~(v.status # "held" \/ d = 0)
      <3>1. /\ sumW' = [sumW EXCEPT ![v.s] = IF @ + d < 0 THEN 0 ELSE @ + d]
            /\ notify' = [notify EXCEPT ![v.s] = IF d < 0 THEN @ + 1 ELSE @]
            /\ res' = [res EXCEPT ![r][i] =
                 [v EXCEPT !.w = @ + d, !.own = "handler",
                           !.pend = IF d < 0 THEN notify[v.s] ELSE 0]]
        BY <1>10, <2>5 DEF Adjust
      <3>2. StateType'
        <4>1. UNCHANGED count BY <1>10 DEF Adjust
        <4>2. v.s \in StateId BY <2>2, <2>5
        <4> HIDE DEF v, d
        <4> QED BY SMTT(60), <1>a, <2>1, <3>1, <4>1, <4>2 DEF StateType
      <3>3. ResType'
        <4>1. (IF d < 0 THEN notify[v.s] ELSE 0) \in Nat
          BY <1>a, <2>2, <2>5 DEF StateType
        <4>2. [v EXCEPT !.w = @ + d, !.own = "handler",
                        !.pend = IF d < 0 THEN notify[v.s] ELSE 0] \in ReservationType
          <5> HIDE DEF v, d
          <5> QED BY <2>1, <4>1 DEF ReservationType
        <4> QED BY <1>a, <1>s, <3>1, <4>2, ResTyped DEF ResType
      <3> QED BY <1>10, <1>a, <2>3, <3>2, <3>3, Frame DEF Adjust
    <2> QED BY <2>4, <2>5
  <1>11. ASSUME NEW r \in Req, NEW i \in Stage, NEW who \in {"handler", "proc"}, Mark(r, i, who)
         PROVE  ResType'
    <2>0. res[r][i] \in ReservationType
      BY <1>a DEF ResType
    <2>1. [res[r][i] EXCEPT !.status = "marked", !.own = who] \in ReservationType
      BY <2>0 DEF ReservationType
    <2>2. CASE res[r][i].status = "held"
      <3>1. res' = [res EXCEPT ![r][i] = [res[r][i] EXCEPT !.status = "marked", !.own = who]]
        BY <1>11, <1>a, <2>2 DEF Mark, ResType
      <3> QED BY <1>a, <2>1, <3>1, ResTyped DEF ResType
    <2>3. CASE res[r][i].status # "held"
      BY <1>11, <1>a, <2>3, Frame DEF Mark
    <2> QED BY <2>2, <2>3
  <1>12. ASSUME NEW r \in Req, HandlerRelease(r)
        PROVE  CtrlType' /\ StateType' /\ FlowType' /\ CallType' /\ ResType' /\ ProcType'
    <2>1. FlowType' BY <1>12, <1>a, <1>s DEF HandlerRelease, FlowType
    <2>2. ResType' BY <1>12, <1>s, <1>11 DEF HandlerRelease
    <2> QED BY <1>12, <1>a, <2>1, <2>2, Frame DEF HandlerRelease
  <1>13. ASSUME NEW r \in Req, StartGrow(r) \/ StartFallback(r)
        PROVE  CtrlType' /\ StateType' /\ FlowType' /\ CallType' /\ ResType' /\ ProcType'
    <2>1. \E t \in Nat, op \in {"grow", "fallback"} :
              proc' = [proc EXCEPT ![r] = [op |-> op, i |-> 1, t |-> t]]
      BY <1>13, NumberAssumption DEF StartGrow, StartFallback
    <2>2. ProcType'
      BY SMTT(60), <1>a, <1>s, <2>1 DEF ProcType
    <2> QED BY <1>13, <1>a, <2>2, Frame DEF StartGrow, StartFallback
  <1>14. ASSUME NEW r \in Req, Grow(r)
        PROVE  CtrlType' /\ StateType' /\ FlowType' /\ CallType' /\ ResType' /\ ProcType'
    <2> DEFINE i == proc[r].i
               v == res[r][i]
    <2>1. v \in ReservationType /\ proc[r].t \in Nat
      BY <1>a, <1>p DEF ResType, ProcType
    <2>2. ProcType' BY <1>14, <1>a, <1>p, <1>s DEF Grow, ProcType, Idle
    <2>3. CASE v.status = "held" /\ r \in Undeclared
      <3>1. v.s \in StateId BY <1>p, <2>3 DEF Pointers, ResPointers
      <3>2. StateType' BY SMTT(60), <1>14, <1>a, <2>1, <2>3, <3>1 DEF Grow, StateType
      <3>3. [v EXCEPT !.w = @ + proc[r].t] \in ReservationType
        BY SMTT(60), <2>1 DEF ReservationType
      <3>4. ResType' BY SMTT(60), <1>14, <1>a, <1>p, <2>3, <3>3, ResTyped DEF Grow, ResType
      <3> QED BY <1>14, <1>a, <2>2, <3>2, <3>4, Frame DEF Grow
    <2>4. CASE ~(v.status = "held" /\ r \in Undeclared)
      BY <1>14, <1>a, <2>2, <2>4, Frame DEF Grow, stateVars
    <2> QED BY <2>3, <2>4
  <1>15. ASSUME NEW r \in Req, FallbackRelease(r)
        PROVE  CtrlType' /\ StateType' /\ FlowType' /\ CallType' /\ ResType' /\ ProcType'
    <2>1. ProcType' BY <1>15, <1>a, <1>p DEF FallbackRelease, ProcType
    <2>2. ResType' BY <1>15, <1>p, <1>11 DEF FallbackRelease
    <2> QED BY <1>15, <1>a, <2>1, <2>2, Frame DEF FallbackRelease
  <1>16. ASSUME NEW r \in Req, NEW i \in Stages(r), Release(r, i)
        PROVE  CtrlType' /\ StateType' /\ FlowType' /\ CallType' /\ ResType' /\ ProcType'
    <2> DEFINE v == res[r][i]
    <2>1. i \in Stage /\ v \in ReservationType
      BY <1>a, StageFacts DEF ResType
    <2>2. v.s \in StateId BY <1>16, <2>1 DEF Release, Pointers, ResPointers
    <2>3. StateType'
      BY SMTT(60), <1>16, <1>a, <2>1, <2>2 DEF Release, StateType, ReservationType
    <2>4. [v EXCEPT !.status = "returned", !.pend = notify[v.s]] \in ReservationType
      BY <1>a, <2>1, <2>2 DEF StateType, ReservationType
    <2>5. ResType' BY <1>16, <1>a, <2>1, <2>4, ResTyped DEF Release, ResType
    <2> QED BY <1>16, <1>a, <2>3, <2>5, Frame DEF Release
  <1>17. ASSUME NEW r \in Req, NEW i \in Stages(r), CloseCh(r, i)
        PROVE  CtrlType' /\ StateType' /\ FlowType' /\ CallType' /\ ResType' /\ ProcType'
    <2> DEFINE v == res[r][i]
    <2>1. i \in Stage /\ v \in ReservationType
      BY <1>a, StageFacts DEF ResType
    <2>2. (IF v.status = "returned" THEN [NoRes EXCEPT !.status = "returned"]
                                    ELSE [v EXCEPT !.pend = 0]) \in ReservationType
      BY <2>1 DEF ReservationType, NoRes
    <2>3. ResType' BY <1>17, <1>a, <2>1, <2>2, ResTyped DEF CloseCh, ResType
    <2> QED BY <1>17, <1>a, <2>3, Frame DEF CloseCh
  <1>18. ASSUME Janitor
         PROVE  CtrlType' /\ StateType' /\ FlowType' /\ CallType' /\ ResType' /\ ProcType'
    <2>1. CASE \E s \in StateId : Age(s)
      <3>1. PICK s \in StateId : Age(s) BY <2>1
      <3>2. CtrlType' BY <1>a, <3>1 DEF Age, CtrlType
      <3> QED BY <1>a, <3>1, <3>2, Frame DEF Age
    <2>2. CASE \E p \in Pool : SweepIdle(p)
      <3>1. PICK p \in Pool : SweepIdle(p) BY <2>2
      <3>2. CtrlType' BY <1>a, <3>1 DEF SweepIdle, CtrlType
      <3> QED BY <1>a, <3>1, <3>2, Frame DEF SweepIdle
    <2> QED BY <1>18, <2>1, <2>2 DEF Janitor
  <1>19. CASE UNCHANGED vars
    BY <1>a, <1>19, Frame DEF vars
  <1> QED
    BY <1>1, <1>3, <1>4, <1>5, <1>6, <1>7, <1>8, <1>9, <1>10, <1>12, <1>13,
       <1>14, <1>15, <1>16, <1>17, <1>18, <1>19
    DEF Next, Admit, Serve, Process, Complete, Quiet

----------------------------------------------------------------------------
(* Shape of the goroutines' state                                          *)

(* No step moves a goroutine past the last stage of its request.           *)
LEMMA StageStep == TypeOK /\ StageInRange /\ [Next]_vars => StageInRange'
  <1> SUFFICES ASSUME TypeOK, StageInRange, [Next]_vars, NEW q \in Req
               PROVE  stage'[q] <= Len(PoolOf[q]) /\ proc'[q].i <= Len(PoolOf[q])
    BY DEF StageInRange
  <1>a. /\ stage \in [Req -> Stage] /\ stage[q] <= Len(PoolOf[q])
        /\ proc \in [Req -> [op : {"idle", "grow", "fallback", "gone"}, i : Stage, t : Nat]]
        /\ proc[q].i <= Len(PoolOf[q])
    BY DEF TypeOK, FlowType, ProcType, StageInRange
  <1>b. /\ 1 <= Len(PoolOf[q])
        /\ stage[q] < Len(PoolOf[q]) => stage[q] + 1 <= Len(PoolOf[q])
        /\ proc[q].i < Len(PoolOf[q]) => proc[q].i + 1 <= Len(PoolOf[q])
    BY <1>a, StageFacts
  <1>1. ASSUME NEW r \in Req, Admit(r)
        PROVE  stage'[q] <= Len(PoolOf[q]) /\ UNCHANGED proc
    <2>1. CASE EnterAdmit(r) BY <1>a, <1>b, <2>1 DEF EnterAdmit, Refuse
    <2>2. CASE TryFirst(r) BY <1>a, <1>b, <2>2 DEF TryFirst, Refuse, Reserve
    <2>3. CASE notifyCh(r) BY <1>a, <2>3 DEF notifyCh
    <2>4. CASE Recheck(r) BY <1>a, <1>b, <2>4 DEF Recheck, Reserve
    <2>5. CASE WakeUp(r) BY <1>a, <2>5 DEF WakeUp
    <2> QED BY <1>1, <2>1, <2>2, <2>3, <2>4, <2>5 DEF Admit
  <1>2. ASSUME NEW r \in Req, ParkEnds(r)
        PROVE  stage'[q] <= Len(PoolOf[q]) /\ UNCHANGED proc
    BY <1>2, <1>a, <1>b DEF ParkEnds, Refuse
  <1>3. ASSUME NEW r \in Req, Serve(r)
        PROVE  stage'[q] <= Len(PoolOf[q]) /\ UNCHANGED proc
    <2>1. CASE RejectLater(r) \/ Enqueue(r) \/ HandlerReturn(r)
      BY <1>a, <1>b, <2>1 DEF RejectLater, Enqueue, HandlerReturn
    <2>2. CASE Respond(r) BY <1>a, <1>b, <2>2 DEF Respond
    <2>3. CASE Adjust(r)
      <3>1. /\ UNCHANGED proc
            /\ \/ stage[r] < Len(PoolOf[r]) /\ stage' = [stage EXCEPT ![r] = stage[r] + 1]
               \/ stage' = [stage EXCEPT ![r] = 1]
        BY <2>3 DEF Adjust
      <3> QED BY <1>a, <1>b, <3>1
    <2>4. CASE HandlerRelease(r) BY <1>a, <1>b, <2>4 DEF HandlerRelease
    <2> QED BY <1>3, <2>1, <2>2, <2>3, <2>4 DEF Serve
  <1>4. ASSUME NEW r \in Req, Process(r)
        PROVE  proc'[q].i <= Len(PoolOf[q]) /\ UNCHANGED stage
    <2>1. CASE StartGrow(r) BY SMTT(60), <1>a, <1>b, <2>1 DEF StartGrow
    <2>2. CASE StartFallback(r) BY <1>a, <1>b, <2>2 DEF StartFallback
    <2>3. CASE Grow(r) BY <1>a, <1>b, <2>3 DEF Grow, Idle
    <2>4. CASE FallbackRelease(r) BY <1>a, <1>b, <2>4 DEF FallbackRelease
    <2> QED BY <1>4, <2>1, <2>2, <2>3, <2>4 DEF Process
  <1>5. ASSUME (\E r \in Req : Complete(r)) \/ Janitor \/ Quiet \/ UNCHANGED vars
        PROVE  UNCHANGED <<stage, proc>>
    BY <1>5 DEF Complete, Release, CloseCh, Janitor, Age, SweepIdle, Quiet, vars
  <1> QED BY <1>a, <1>1, <1>2, <1>3, <1>4, <1>5 DEF Next

(* A state's room only grows together with the replacement of its channel. *)
LEMMA RoomSignalled ==
    ASSUME TypeOK, Pointers, StageInRange, [Next]_vars, NEW s \in StateId
    PROVE  \/ notify'[s] = notify[s] + 1
           \/ notify'[s] = notify[s] /\ sumW'[s] >= sumW[s] /\ count'[s] >= count[s]
  <1> DEFINE Goal == \/ notify'[s] = notify[s] + 1
                     \/ notify'[s] = notify[s] /\ sumW'[s] >= sumW[s] /\ count'[s] >= count[s]
  <1> SUFFICES Goal OBVIOUS
  <1>a. sumW \in [StateId -> Nat] /\ count \in [StateId -> Nat] /\ notify \in [StateId -> Nat \ {0}]
    BY DEF TypeOK, StateType
  <1>0. ASSUME UNCHANGED stateVars PROVE Goal
    BY SMTT(60), <1>a, <1>0 DEF stateVars
  <1>1. ASSUME NEW r \in Req, Reserve(r) PROVE Goal
    <2>1. foot[r] \in Nat BY DEF TypeOK, FlowType
    <2> QED BY SMTT(60), <1>1, <1>a, <2>1 DEF Reserve
  <1>2. ASSUME NEW r \in Req, Admit(r) \/ ParkEnds(r) PROVE Goal
    BY <1>0, <1>1, <1>2
    DEF Admit, ParkEnds, EnterAdmit, TryFirst, notifyCh, Recheck, WakeUp, stateVars
  <1>3. ASSUME NEW r \in Req, Adjust(r) PROVE Goal
    <2> DEFINE v == res[r][stage[r]]
               d == TrueUp(r, v)
    <2>1. CASE UNCHANGED <<sumW, notify>>
      BY <1>0, <1>3, <2>1 DEF Adjust, stateVars
    <2>2. CASE /\ sumW' = [sumW EXCEPT ![v.s] = IF @ + d < 0 THEN 0 ELSE @ + d]
               /\ notify' = [notify EXCEPT ![v.s] = IF d < 0 THEN @ + 1 ELSE @]
      <3>1. UNCHANGED count BY <1>3 DEF Adjust
      <3>2. d \in Int
        <4>1. stage[r] \in Stage /\ delta[r] \in Int BY DEF TypeOK, FlowType
        <4>2. v \in ReservationType BY <4>1 DEF TypeOK, ResType
        <4> QED BY SMTT(60), <4>1, <4>2 DEF ReservationType, TrueUp
      <3> HIDE DEF v, d
      <3> QED BY SMTT(60), <1>a, <2>2, <3>1, <3>2
    <2> QED BY <1>3, <2>1, <2>2 DEF Adjust
  <1>4. ASSUME NEW r \in Req, Serve(r) PROVE Goal
    BY <1>0, <1>3, <1>4
    DEF Serve, RejectLater, Enqueue, Respond, HandlerRelease, HandlerReturn
  <1>5. ASSUME NEW r \in Req, Grow(r) PROVE Goal
    <2>1. proc[r].t \in Nat BY DEF TypeOK, ProcType
    <2>2. /\ UNCHANGED <<count, notify>>
          /\ \/ UNCHANGED sumW
             \/ sumW' = [sumW EXCEPT ![res[r][proc[r].i].s] = @ + proc[r].t]
      BY <1>5 DEF Grow
    <2> QED BY SMTT(60), <1>a, <2>1, <2>2
  <1>6. ASSUME NEW r \in Req, Process(r) PROVE Goal
    BY <1>0, <1>5, <1>6 DEF Process, StartGrow, StartFallback, FallbackRelease
  <1>7. ASSUME NEW r \in Req, NEW i \in Stages(r), Release(r, i) PROVE Goal
    BY SMTT(60), <1>7, <1>a DEF Release
  <1>8. ASSUME NEW r \in Req, Complete(r) PROVE Goal
    BY <1>0, <1>7, <1>8 DEF Complete, CloseCh
  <1>9. ASSUME Janitor \/ Quiet \/ UNCHANGED vars PROVE Goal
    BY <1>0, <1>9 DEF Janitor, Age, SweepIdle, Quiet, vars
  <1> QED BY <1>2, <1>4, <1>6, <1>8, <1>9 DEF Next

(* A call that is under way moves by its own goroutine only: it has just   *)
(* looked its state up, or works on with the locals it had; its park loop  *)
(* reads the channel, re-checks the budget, then waits.                    *)
LEMMA CallMoves ==
    ASSUME TypeOK, StageInRange, [Next]_vars, NEW q \in Req, InAdmit(q)'
    PROVE  \/ /\ pc'[q] = "try" /\ st'[q] \in StateId /\ st'[q] \notin aged'
              /\ st'[q] = mapped'[PoolOf[q][stage'[q]]]
           \/ /\ InAdmit(q) /\ UNCHANGED <<st[q], bud[q], lim[q], foot[q], stage[q]>>
              /\ st[q] \in aged' => st[q] \in aged
              /\ \/ UNCHANGED <<pc[q], ch[q]>>
                 \/ pc'[q] = "loop"
                 \/ pc'[q] = "recheck" /\ ch'[q] = notify[st[q]] /\ UNCHANGED stateVars
                 \/ /\ pc[q] = "recheck" /\ pc'[q] = "select" /\ ~Fits(q)
                    /\ UNCHANGED <<stateVars, ch[q]>>
  <1> DEFINE Goal ==
         \/ /\ pc'[q] = "try" /\ st'[q] \in StateId /\ st'[q] \notin aged'
            /\ st'[q] = mapped'[PoolOf[q][stage'[q]]]
         \/ /\ InAdmit(q) /\ UNCHANGED <<st[q], bud[q], lim[q], foot[q], stage[q]>>
            /\ st[q] \in aged' => st[q] \in aged
            /\ \/ UNCHANGED <<pc[q], ch[q]>>
               \/ pc'[q] = "loop"
               \/ pc'[q] = "recheck" /\ ch'[q] = notify[st[q]] /\ UNCHANGED stateVars
               \/ /\ pc[q] = "recheck" /\ pc'[q] = "select" /\ ~Fits(q)
                  /\ UNCHANGED <<stateVars, ch[q]>>
  <1> SUFFICES Goal OBVIOUS
  <1>a. FlowType /\ CallType BY DEF TypeOK
  <1>0. ASSUME UNCHANGED <<aged, pc, stage, callVars, foot>> PROVE Goal
    BY <1>0 DEF InAdmit, callVars
  <1>1. ASSUME NEW r \in Req, EnterAdmit(r) PROVE Goal
    <2>1. CASE r = q
      <3>1. PICK s \in StateId :
              /\ mapped' = [mapped EXCEPT ![PoolOf[q][stage[q]]] = s] /\ aged' = aged \ {s}
              /\ st' = [st EXCEPT ![q] = s]
              /\ pc' = [pc EXCEPT ![q] = "try"] /\ UNCHANGED stage
        BY <1>1, <1>a, <2>1 DEF EnterAdmit, stateFor, Refuse, InAdmit, FlowType
      <3>2. mapped \in [Pool -> StateId \cup {NoState}] /\ PoolOf[q][stage[q]] \in Pool
        BY <1>a, StageFacts DEF TypeOK, CtrlType, FlowType, StageInRange
      <3> QED BY <1>a, <3>1, <3>2 DEF FlowType, CallType
    <2>2. CASE r # q
      <3>1. /\ UNCHANGED foot
            /\ \E v : pc' = [pc EXCEPT ![r] = v]
            /\ UNCHANGED stage \/ \E v : stage' = [stage EXCEPT ![r] = v]
            /\ \E v : st' = [st EXCEPT ![r] = v]
            /\ \E v : bud' = [bud EXCEPT ![r] = v]
            /\ \E v : lim' = [lim EXCEPT ![r] = v]
            /\ UNCHANGED ch \/ \E v : ch' = [ch EXCEPT ![r] = v]
            /\ UNCHANGED aged \/ \E s : aged' = aged \ {s}
        BY <1>1 DEF EnterAdmit, stateFor, Refuse, DropCall, ctrlVars
      <3>2. UNCHANGED <<pc[q], stage[q]>>
        BY <1>a, <2>2, <3>1 DEF FlowType
      <3>3. UNCHANGED <<st[q], bud[q], lim[q], ch[q]>>
        BY <1>a, <2>2, <3>1 DEF CallType
      <3>4. st[q] \in aged' => st[q] \in aged BY <3>1
      <3>5. UNCHANGED foot[q] BY <3>1
      <3> QED BY <3>2, <3>3, <3>4, <3>5 DEF InAdmit
    <2> QED BY <2>1, <2>2
  <1>2. ASSUME NEW r \in Req, Refuse(r) \/ Reserve(r), UNCHANGED <<ctrlVars, foot>> PROVE Goal
    <2>1. r # q
      BY <1>2, <1>a DEF Refuse, Reserve, InAdmit, FlowType
    <2> QED BY SMTT(60), <1>2, <1>a, <2>1 DEF Refuse, Reserve, DropCall, InAdmit, ctrlVars, FlowType, CallType
  <1>3. ASSUME NEW r \in Req, TryFirst(r) PROVE Goal
    <2>1. CASE Refuse(r) \/ Reserve(r) BY <1>2, <1>3, <2>1 DEF TryFirst
    <2>2. CASE pc' = [pc EXCEPT ![r] = "loop"] /\ UNCHANGED <<stateVars, stage, callVars, res>>
      BY <1>3, <1>a, <2>2 DEF TryFirst, InAdmit, ctrlVars, callVars, FlowType
    <2> QED BY <1>3, <2>1, <2>2 DEF TryFirst
  <1>4. ASSUME NEW r \in Req, notifyCh(r) PROVE Goal
    BY <1>4, <1>a DEF notifyCh, InAdmit, ctrlVars, stateVars, FlowType, CallType
  <1>5. ASSUME NEW r \in Req, Recheck(r) PROVE Goal
    <2>1. CASE Fits(r) BY <1>2, <1>5, <2>1 DEF Recheck
    <2>2. CASE ~Fits(r)
      BY <1>5, <1>a, <2>2 DEF Recheck, InAdmit, ctrlVars, callVars, FlowType
    <2> QED BY <2>1, <2>2
  <1>6. ASSUME NEW r \in Req, WakeUp(r) PROVE Goal
    BY <1>6, <1>a DEF WakeUp, InAdmit, ctrlVars, callVars, FlowType
  <1>7. ASSUME NEW r \in Req, ParkEnds(r) PROVE Goal
    <2>1. CASE Refuse(r) BY <1>2, <1>7, <2>1 DEF ParkEnds
    <2>2. CASE ~Refuse(r)
      <3>1. r # q BY <1>7, <1>a, <2>2 DEF ParkEnds, InAdmit, FlowType
      <3> QED BY <1>7, <1>a, <2>2, <3>1 DEF ParkEnds, DropCall, InAdmit, ctrlVars, FlowType, CallType
    <2> QED BY <2>1, <2>2
  <1>8. ASSUME NEW r \in Req, Serve(r) PROVE Goal
    <2>1. CASE RejectLater(r) \/ Enqueue(r) \/ Respond(r) \/ HandlerReturn(r)
      BY <1>a, <2>1 DEF RejectLater, Enqueue, Respond, HandlerReturn, InAdmit, ctrlVars,
                        callVars, FlowType
    <2>2. CASE Adjust(r)
      <3>1. /\ UNCHANGED <<ctrlVars, callVars, foot>> /\ pc[r] = "adjust"
            /\ pc' = pc \/ pc' = [pc EXCEPT ![r] = "release"]
            /\ \E k : stage' = [stage EXCEPT ![r] = k]
        BY <2>2 DEF Adjust
      <3> QED BY <1>a, <3>1 DEF InAdmit, ctrlVars, callVars, FlowType
    <2>3. CASE HandlerRelease(r)
      BY <1>a, <2>3 DEF HandlerRelease, InAdmit, ctrlVars, callVars, FlowType
    <2> QED BY <1>8, <2>1, <2>2, <2>3 DEF Serve
  <1>9. ASSUME NEW r \in Req, Process(r) \/ Complete(r) PROVE Goal
    BY <1>0, <1>9 DEF Process, StartGrow, Grow, StartFallback, FallbackRelease, Complete,
                      Release, CloseCh, ctrlVars
  <1>10. ASSUME Janitor PROVE Goal
    <2>1. CASE \E s \in StateId : Age(s)
      BY <2>1, <1>a DEF Age, InAdmit, callVars
    <2>2. CASE \E p \in Pool : SweepIdle(p)
      BY <1>0, <2>2 DEF SweepIdle
    <2> QED BY <1>10, <2>1, <2>2 DEF Janitor
  <1>11. ASSUME Quiet \/ UNCHANGED vars PROVE Goal
    BY <1>0, <1>11 DEF Quiet, vars, ctrlVars
  <1> QED BY <1>1, <1>3, <1>4, <1>5, <1>6, <1>7, <1>8, <1>9, <1>10, <1>11 DEF Next, Admit

(* A state a call works on, and the channel it read, stay valid.           *)
LEMMA CallStep ==
    ASSUME TypeOK, StageInRange, Pointers, ChannelOrder, [Next]_vars
    PROVE  CallPointers' /\ ChannelOrder'
  <1> SUFFICES ASSUME NEW q \in Req, InAdmit(q)'
               PROVE  /\ st'[q] \in StateId /\ st'[q] \notin aged'
                      /\ pc'[q] \in {"recheck", "select"} => ch'[q] <= notify'[st'[q]]
    BY DEF CallPointers, ChannelOrder, InAdmit
  <1>1. CASE InAdmit(q)
    <2>1. st[q] \in StateId /\ st[q] \notin aged BY <1>1 DEF Pointers, CallPointers
    <2>2. notify[st[q]] \in Nat /\ notify'[st[q]] \in Nat /\ notify'[st[q]] >= notify[st[q]]
      BY SMTT(60), <2>1, RoomSignalled DEF TypeOK, StateType
    <2>3. ch[q] \in Nat /\ (pc[q] \in {"recheck", "select"} => ch[q] <= notify[st[q]])
      BY DEF ChannelOrder, TypeOK, CallType
    <2>4. CASE pc'[q] = "try" /\ st'[q] \in StateId /\ st'[q] \notin aged'
      BY <2>4
    <2>5. CASE /\ UNCHANGED st[q] /\ (st[q] \in aged' => st[q] \in aged)
               /\ \/ UNCHANGED <<pc[q], ch[q]>>
                  \/ pc'[q] = "loop"
                  \/ pc'[q] = "recheck" /\ ch'[q] = notify[st[q]]
                  \/ pc[q] = "recheck" /\ UNCHANGED ch[q]
      BY SMTT(60), <2>1, <2>2, <2>3, <2>5
    <2> QED BY <2>4, <2>5, CallMoves
  <1>2. CASE ~InAdmit(q)
    BY <1>2, CallMoves
  <1> QED BY <1>1, <1>2

(* A request never parks, or stays parked, on the current channel of a     *)
(* state with room for it.                                                 *)
LEMMA WakeupStep ==
    ASSUME TypeOK, StageInRange, Pointers, ChannelOrder, NoLostWakeup, [Next]_vars
    PROVE  NoLostWakeup'
  <1> SUFFICES ASSUME NEW q \in Req, pc'[q] = "select", ch'[q] = notify'[st'[q]]
               PROVE  ~Fits(q)'
    BY DEF NoLostWakeup
  <1>1. InAdmit(q)' BY DEF InAdmit
  <1>2. /\ InAdmit(q) /\ UNCHANGED <<st[q], bud[q], lim[q], foot[q]>>
        /\ \/ UNCHANGED <<pc[q], ch[q]>>
           \/ pc[q] = "recheck" /\ ~Fits(q) /\ UNCHANGED <<stateVars, ch[q]>>
    BY <1>1, CallMoves
  <1>3. /\ st[q] \in StateId /\ foot[q] \in Nat /\ bud[q] \in Nat /\ lim[q] \in Nat
        /\ ch[q] \in Nat /\ sumW[st[q]] \in Nat /\ count[st[q]] \in Nat /\ notify[st[q]] \in Nat
    BY <1>2 DEF Pointers, CallPointers, TypeOK, FlowType, CallType, StateType
  <1>4. CASE UNCHANGED <<pc[q], ch[q]>>
    <2>1. ch[q] <= notify[st[q]] BY <1>4 DEF ChannelOrder
    <2>2. notify'[st[q]] = notify[st[q]] /\ sumW'[st[q]] >= sumW[st[q]]
          /\ count'[st[q]] >= count[st[q]]
      BY SMTT(60), <1>2, <1>3, <1>4, <2>1, RoomSignalled
    <2>3. ~Fits(q) BY <1>2, <1>4, <2>2 DEF NoLostWakeup
    <2>4. sumW'[st[q]] \in Nat /\ count'[st[q]] \in Nat
      BY <1>3, TypeStep DEF TypeOK, StateType
    <2> QED BY SMTT(60), <1>2, <1>3, <2>2, <2>3, <2>4 DEF Fits, HasRoom
  <1>5. CASE ~Fits(q) /\ UNCHANGED stateVars
    BY <1>2, <1>5 DEF Fits, HasRoom, stateVars
  <1> QED BY <1>2, <1>4, <1>5

----------------------------------------------------------------------------
(* The charges                                                             *)

(* The reservation is part of its state's accounting.                      *)
Charged(v) == v.status \in {"held", "marked"}

Others(r, i) == \A q \in Req, j \in Stage : <<q, j>> # <<r, i>> => res'[q][j] = res[q][j]

(* A reservation is taken and counted; stays charged, or stays free, while *)
(* its weight, mark or pending channel changes; is returned and uncounted. *)
Take(r, i) == /\ InAdmit(r) /\ i = stage[r] /\ Others(r, i)
              /\ res'[r][i].status = "held" /\ res'[r][i].s = st[r]
              /\ count' = [count EXCEPT ![st[r]] = @ + 1]
              /\ UNCHANGED ctrlVars /\ pc'[r] \in {"enter", "admitted"}
              /\ pc'[r] = "enter" => stage'[r] > stage[r]
Keep(r, i) == /\ Others(r, i) /\ UNCHANGED <<ctrlVars, count>>
              /\ res[r][i].status = "none" <=> res'[r][i].status = "none"
              /\ res'[r][i].status = "held" => res[r][i].status = "held"
              /\ Charged(res[r][i]) <=> Charged(res'[r][i])
              /\ Charged(res[r][i]) => res'[r][i].s = res[r][i].s
Return(r, i) == /\ Others(r, i) /\ UNCHANGED ctrlVars
                /\ res[r][i].status = "marked" /\ res'[r][i].status = "returned"
                /\ count' = [count EXCEPT ![res[r][i].s] = IF @ - 1 < 0 THEN 0 ELSE @ - 1]

(* Every step leaves the reservations alone or has one of those effects on *)
(* one of them.                                                            *)
LEMMA ResMoves ==
    ASSUME TypeOK, StageInRange, Pointers, [Next]_vars
    PROVE  \/ UNCHANGED <<res, count>>
           \/ \E r \in Req, i \in Stage : Take(r, i) \/ Keep(r, i) \/ Return(r, i)
  <1> DEFINE Goal == \/ UNCHANGED <<res, count>>
                     \/ \E r \in Req, i \in Stage : Take(r, i) \/ Keep(r, i) \/ Return(r, i)
  <1> SUFFICES Goal OBVIOUS
  <1>a. FlowType /\ CallType /\ ResType /\ ProcType /\ StateType BY DEF TypeOK
  <1>s. \A r \in Req : stage[r] \in Stage /\ proc[r].i \in Stage
    BY <1>a DEF FlowType, ProcType
  <1>1. ASSUME NEW r \in Req, Reserve(r), InAdmit(r), UNCHANGED ctrlVars PROVE Goal
    <2>1. Others(r, stage[r]) /\ res'[r][stage[r]].status = "held" /\ res'[r][stage[r]].s = st[r]
      BY <1>1, <1>a, <1>s DEF Reserve, ResType, Others, NoRes
    <2>2. /\ pc'[r] \in {"enter", "admitted"}
          /\ pc'[r] = "enter" => stage'[r] > stage[r]
      <3>1. stage[r] \in Nat BY SMTT(60), <1>s, StageFacts
      <3>2. (pc'[r] = "enter" /\ stage'[r] = stage[r] + 1) \/ pc'[r] = "admitted"
        BY <1>1, <1>a DEF Reserve, FlowType
      <3> QED BY SMTT(60), <3>1, <3>2
    <2>3. Take(r, stage[r])
      BY <1>1, <2>1, <2>2 DEF Take, Reserve
    <2> QED BY <1>s, <2>3
  <1>2. ASSUME NEW r \in Req, Admit(r) \/ ParkEnds(r) PROVE Goal
    BY <1>1, <1>2
    DEF Admit, ParkEnds, EnterAdmit, TryFirst, notifyCh, Recheck, WakeUp, stateVars, ctrlVars, InAdmit
  <1>3. ASSUME NEW r \in Req, NEW i \in Stage, NEW v,
               res' = [res EXCEPT ![r][i] = v], UNCHANGED <<ctrlVars, count>>,
               res[r][i].status = "none" <=> v.status = "none",
               v.status = "held" => res[r][i].status = "held",
               Charged(res[r][i]) <=> Charged(v), Charged(v) => v.s = res[r][i].s
        PROVE  Goal
    <2>1. Keep(r, i) BY <1>3, <1>a DEF Keep, Others, ResType
    <2> QED BY <2>1
  <1>4. ASSUME NEW r \in Req, Adjust(r) PROVE Goal
    <2> DEFINE i == stage[r]
               v == res[r][i]
               d == TrueUp(r, v)
               u == [v EXCEPT !.w = @ + d, !.own = "handler",
                              !.pend = IF d < 0 THEN notify[v.s] ELSE 0]
    <2>1. CASE UNCHANGED res BY <1>4, <2>1 DEF Adjust
    <2>2. CASE v.status = "held" /\ res' = [res EXCEPT ![r][i] = u]
      <3>1. v \in ReservationType BY <1>a, <1>s DEF ResType
      <3>2. u.status = v.status /\ u.s = v.s
        <4> HIDE DEF v, d
        <4> QED BY <3>1 DEF ReservationType
      <3>3. UNCHANGED <<ctrlVars, count>> BY <1>4 DEF Adjust
      <3> HIDE DEF u
      <3> QED BY <1>3, <1>s, <2>2, <3>2, <3>3 DEF Charged
    <2> QED BY <1>4, <2>1, <2>2 DEF Adjust
  <1>5. ASSUME NEW r \in Req, NEW i \in Stage, NEW who, Mark(r, i, who),
               UNCHANGED <<ctrlVars, count>>
        PROVE  Goal
    <2> DEFINE v == [res[r][i] EXCEPT !.status = "marked", !.own = who]
    <2>1. CASE UNCHANGED res BY <1>5, <2>1
    <2>2. CASE res[r][i].status = "held" /\ res' = [res EXCEPT ![r][i] = v]
      <3>1. res[r][i] \in ReservationType BY <1>a DEF ResType
      <3>2. v.status = "marked" /\ v.s = res[r][i].s BY <3>1 DEF ReservationType
      <3> HIDE DEF v
      <3> QED BY <1>3, <1>5, <2>2, <3>2 DEF Charged
    <2>3. res' = [res EXCEPT ![r][i] = v] \/ UNCHANGED res
      BY <1>5, <1>a DEF Mark, ResType
    <2> QED BY <1>5, <2>1, <2>2, <2>3 DEF Mark
  <1>6. ASSUME NEW r \in Req, Serve(r) PROVE Goal
    BY <1>4, <1>5, <1>6, <1>s
    DEF Serve, RejectLater, Enqueue, Respond, HandlerRelease, HandlerReturn, stateVars
  <1>7. ASSUME NEW r \in Req, Grow(r) PROVE Goal
    <2> DEFINE i == proc[r].i
               v == [res[r][i] EXCEPT !.w = @ + proc[r].t]
    <2>1. CASE UNCHANGED res BY <1>7, <2>1 DEF Grow
    <2>2. CASE res[r][i].status = "held" /\ res' = [res EXCEPT ![r][i] = v]
      <3>1. res[r][i] \in ReservationType BY <1>a, <1>s DEF ResType
      <3>2. v.status = "held" /\ v.s = res[r][i].s BY <2>2, <3>1 DEF ReservationType
      <3>3. UNCHANGED <<ctrlVars, count>> BY <1>7 DEF Grow
      <3> HIDE DEF v
      <3> QED BY <1>3, <1>s, <2>2, <3>2, <3>3 DEF Charged
    <2> QED BY <1>7, <2>1, <2>2 DEF Grow
  <1>8. ASSUME NEW r \in Req, Process(r) PROVE Goal
    BY <1>5, <1>7, <1>8, <1>s DEF Process, StartGrow, StartFallback, FallbackRelease, stateVars
  <1>9. ASSUME NEW r \in Req, NEW i \in Stages(r), Release(r, i) PROVE Goal
    <2>1. i \in Stage BY StageFacts
    <2>2. res[r][i] \in ReservationType BY <1>a, <2>1 DEF ResType
    <2>3. Return(r, i)
      BY <1>9, <1>a, <2>1, <2>2 DEF Return, Release, Others, ResType, ReservationType
    <2> QED BY <2>1, <2>3
  <1>10. ASSUME NEW r \in Req, NEW i \in Stages(r), CloseCh(r, i) PROVE Goal
    <2> DEFINE v == res[r][i]
               u == IF v.status = "returned" THEN [NoRes EXCEPT !.status = "returned"]
                                             ELSE [v EXCEPT !.pend = 0]
    <2>1. i \in Stage BY StageFacts
    <2>2. v \in ReservationType BY <1>a, <2>1 DEF ResType
    <2>3. u.status = v.status /\ (v.status # "returned" => u.s = v.s)
      <3> HIDE DEF v
      <3> QED BY <2>2 DEF ReservationType, NoRes
    <2>4. res' = [res EXCEPT ![r][i] = u] /\ UNCHANGED <<ctrlVars, count>>
      BY <1>10 DEF CloseCh, stateVars
    <2> HIDE DEF u
    <2> QED BY <1>3, <2>1, <2>3, <2>4 DEF Charged
  <1>11. ASSUME Janitor \/ Quiet \/ UNCHANGED vars PROVE Goal
    BY <1>11 DEF Janitor, Age, SweepIdle, Quiet, vars, stateVars
  <1> QED BY <1>2, <1>6, <1>8, <1>9, <1>10, <1>11 DEF Next, Complete

(* A request that is waiting for a stage was waiting for it, or for an     *)
(* earlier one, before the step.                                           *)
LEMMA WaitMoves ==
    ASSUME TypeOK, [Next]_vars, NEW q \in Req, (pc[q] = "enter" \/ InAdmit(q))'
    PROVE  (pc[q] = "enter" \/ InAdmit(q)) /\ stage'[q] >= stage[q]
  <1> DEFINE Goal == (pc[q] = "enter" \/ InAdmit(q)) /\ stage'[q] >= stage[q]
  <1> SUFFICES Goal OBVIOUS
  <1>a. FlowType BY DEF TypeOK
  <1>b. \A r \in Req : stage[r] \in Nat BY SMTT(60), <1>a, StageFacts DEF FlowType
  <1>0. ASSUME UNCHANGED <<pc, stage>> PROVE Goal
    BY SMTT(60), <1>0, <1>b DEF InAdmit
  <1>1. ASSUME NEW r \in Req, Admit(r) PROVE Goal
    <2>1. CASE EnterAdmit(r) BY SMTT(60), <1>a, <1>b, <2>1 DEF EnterAdmit, Refuse, FlowType, InAdmit
    <2>2. CASE TryFirst(r) BY SMTT(60), <1>a, <1>b, <2>2 DEF TryFirst, Refuse, Reserve, FlowType, InAdmit
    <2>3. CASE notifyCh(r) BY SMTT(60), <1>a, <1>b, <2>3 DEF notifyCh, FlowType, InAdmit
    <2>4. CASE Recheck(r) BY SMTT(60), <1>a, <1>b, <2>4 DEF Recheck, Reserve, FlowType, InAdmit
    <2>5. CASE WakeUp(r) BY SMTT(60), <1>a, <1>b, <2>5 DEF WakeUp, FlowType, InAdmit
    <2> QED BY <1>1, <2>1, <2>2, <2>3, <2>4, <2>5 DEF Admit
  <1>2. ASSUME NEW r \in Req, ParkEnds(r) PROVE Goal
    BY SMTT(60), <1>2, <1>a, <1>b DEF ParkEnds, Refuse, FlowType, InAdmit
  <1>3. ASSUME NEW r \in Req, Serve(r) PROVE Goal
    <2>1. CASE RejectLater(r) \/ Enqueue(r) \/ Respond(r) \/ HandlerReturn(r)
      BY SMTT(60), <1>a, <1>b, <2>1 DEF RejectLater, Enqueue, Respond, HandlerReturn, InAdmit, FlowType
    <2>2. CASE Adjust(r)
      <3>1. /\ pc[r] = "adjust" /\ (pc' = pc \/ pc' = [pc EXCEPT ![r] = "release"])
            /\ \E k : stage' = [stage EXCEPT ![r] = k]
        BY <2>2 DEF Adjust
      <3> QED BY SMTT(60), <1>a, <1>b, <3>1 DEF InAdmit, FlowType
    <2>3. CASE HandlerRelease(r)
      <3>1. /\ pc[r] = "release" /\ (pc' = pc \/ pc' = [pc EXCEPT ![r] = "return"])
            /\ stage' = stage \/ stage' = [stage EXCEPT ![r] = @ + 1]
        BY <2>3 DEF HandlerRelease
      <3> QED BY SMTT(60), <1>a, <1>b, <3>1 DEF InAdmit, FlowType
    <2> QED BY <1>3, <2>1, <2>2, <2>3 DEF Serve
  <1>4. ASSUME NEW r \in Req, Process(r) \/ Complete(r) PROVE Goal
    BY <1>0, <1>4 DEF Process, StartGrow, Grow, StartFallback, FallbackRelease, Complete,
                      Release, CloseCh
  <1>5. ASSUME Janitor \/ Quiet \/ UNCHANGED vars PROVE Goal
    BY <1>0, <1>5 DEF Janitor, Age, SweepIdle, Quiet, vars
  <1> QED BY <1>1, <1>2, <1>3, <1>4, <1>5 DEF Next

(* What is charged points at a state, and what was not admitted is not     *)
(* held.                                                                   *)
LEMMA ResStep ==
    ASSUME TypeOK, StageInRange, Pointers, NotYetHeld, [Next]_vars
    PROVE  ResPointers' /\ NotYetHeld'
  <1>a. \A r \in Req : stage[r] \in Stage /\ stage[r] \in Stages(r)
    BY StageFacts DEF TypeOK, FlowType, StageInRange
  <1>b. \A r \in Req : stage[r] \in Nat /\ stage'[r] \in Nat
    <2>1. TypeOK' BY TypeStep
    <2>2. stage \in [Req -> Stage] /\ stage' \in [Req -> Stage] BY <2>1 DEF TypeOK, FlowType
    <2> QED BY SMTT(60), <2>2, StageFacts
  <1>1. ResPointers'
    <2> SUFFICES ASSUME NEW q \in Req, NEW j \in Stage, Charged(res'[q][j])
                 PROVE  j \in Stages(q) /\ res'[q][j].s \in StateId
      BY DEF ResPointers, Charged
    <2>1. CASE res'[q][j] = res[q][j]
      BY <2>1 DEF Pointers, ResPointers, Charged
    <2>2. ASSUME NEW r \in Req, NEW i \in Stage, Take(r, i) \/ Keep(r, i) \/ Return(r, i),
                 q = r, j = i
          PROVE  j \in Stages(q) /\ res'[q][j].s \in StateId
      BY <1>a, <2>2 DEF Take, Keep, Return, Charged, Pointers, CallPointers, ResPointers
    <2> QED BY SMTT(60), <2>1, <2>2, ResMoves DEF Take, Keep, Return, Others
  <1>2. NotYetHeld'
    <2> SUFFICES ASSUME NEW q \in Req, (pc[q] = "enter" \/ InAdmit(q))',
                        NEW j \in Stage, j >= stage'[q]
                 PROVE  res'[q][j].status = "none"
      BY DEF NotYetHeld, InAdmit
    <2>1. res[q][j].status = "none" /\ stage'[q] >= stage[q]
      BY SMTT(60), <1>b, WaitMoves, StageFacts DEF NotYetHeld
    <2>2. ASSUME NEW r \in Req, NEW i \in Stage, Take(r, i), q = r, j = i PROVE FALSE
      BY SMTT(60), <1>b, <2>2, StageFacts DEF Take, InAdmit
    <2>3. ASSUME NEW r \in Req, NEW i \in Stage, Keep(r, i) \/ Return(r, i), q = r, j = i
          PROVE  res'[q][j].status = "none"
      BY <2>1, <2>3 DEF Keep, Return
    <2>4. ASSUME NEW r \in Req, NEW i \in Stage, Others(r, i), ~(q = r /\ j = i)
          PROVE  res'[q][j] = res[q][j]
      BY <2>4 DEF Others
    <2>5. \A r \in Req, i \in Stage : Take(r, i) \/ Keep(r, i) \/ Return(r, i) => Others(r, i)
      BY DEF Take, Keep, Return
    <2> QED BY <2>1, <2>2, <2>3, <2>4, <2>5, ResMoves
  <1> QED BY <1>1, <1>2

(* The charges of a state form a finite set.                               *)
LEMMA ChargesFinite ==
    ASSUME NEW s \in StateId
    PROVE  IsFiniteSet(Charges(s)) /\ Cardinality(Charges(s)) \in Nat
  <1>1. IsFiniteSet(Stage)
    <2>1. 1 \in Int /\ 2 \in Int BY SMTT(60)
    <2>2. IsFiniteSet(1..2) BY <2>1, FS_Interval
    <2> QED BY <2>2 DEF Stage
  <1>2. IsFiniteSet(Req \X Stage) BY <1>1, FS_Product, ReqAssumption
  <1>3. Charges(s) \in SUBSET (Req \X Stage) BY DEF Charges
  <1>4. IsFiniteSet(Charges(s)) BY <1>2, <1>3, FS_Subset
  <1> QED BY <1>4, FS_CardinalityType

(* Seen as charges, the other reservations stay what they were.            *)
LEMMA OtherCharges ==
    ASSUME NEW r \in Req, NEW i \in Stage, Others(r, i)
    PROVE  \A c \in Req \X Stage :
               \/ (c = <<r, i>> /\ c[1] = r /\ c[2] = i)
               \/ (c # <<r, i>> /\ res'[c[1]][c[2]] = res[c[1]][c[2]])
  <1> TAKE c \in Req \X Stage
  <1>1. c[1] \in Req /\ c[2] \in Stage /\ c = <<c[1], c[2]>> BY SMTT(60)
  <1>2. CASE c = <<r, i>>
    <2>1. <<r, i>>[1] = r /\ <<r, i>>[2] = i OBVIOUS
    <2> QED BY <1>2, <2>1
  <1>3. CASE c # <<r, i>>
    <2>1. <<c[1], c[2]>> # <<r, i>> BY <1>1, <1>3
    <2> QED BY <1>1, <1>3, <2>1 DEF Others
  <1> QED BY <1>2, <1>3

(* The in-flight count keeps being the number of charges.                  *)
LEMMA CountStep ==
    ASSUME TypeOK, StageInRange, Pointers, NotYetHeld, CountExact, [Next]_vars
    PROVE  CountExact'
  <1> SUFFICES ASSUME NEW s \in StateId PROVE count'[s] = Cardinality(Charges(s)')
    BY DEF CountExact
  <1>a. count \in [StateId -> Nat] /\ count[s] = Cardinality(Charges(s))
        /\ IsFiniteSet(Charges(s)) /\ Cardinality(Charges(s)) \in Nat
    BY ChargesFinite DEF TypeOK, StateType, CountExact
  <1>b. \A c : c \in Charges(s) <=>
               c \in Req \X Stage /\ Charged(res[c[1]][c[2]]) /\ res[c[1]][c[2]].s = s
    BY DEF Charges, Charged
  <1>c. \A c : c \in Charges(s)' <=>
               c \in Req \X Stage /\ Charged(res'[c[1]][c[2]]) /\ res'[c[1]][c[2]].s = s
    BY DEF Charges, Charged
  <1>1. CASE UNCHANGED <<res, count>>
    <2>1. Charges(s)' = Charges(s) BY <1>1, <1>b, <1>c
    <2> QED BY <1>a, <1>1, <2>1
  <1>2. ASSUME NEW r \in Req, NEW i \in Stage, Take(r, i)
        PROVE  count'[s] = Cardinality(Charges(s)')
    <2>0. /\ \A c \in Req \X Stage :
                 \/ (c = <<r, i>> /\ c[1] = r /\ c[2] = i)
                 \/ (c # <<r, i>> /\ res'[c[1]][c[2]] = res[c[1]][c[2]])
          /\ <<r, i>> \in Req \X Stage /\ Charged(res'[r][i]) /\ res'[r][i].s = st[r]
          /\ count' = [count EXCEPT ![st[r]] = @ + 1] /\ st[r] \in StateId
      BY SMTT(60), <1>2, OtherCharges DEF Take, Charged, Pointers, CallPointers
    <2>1. <<r, i>> \notin Charges(s)
      <3>1. res[r][i].status = "none"
        BY SMTT(60), <1>2, StageFacts DEF Take, NotYetHeld
      <3> QED BY SMTT(60), <3>1, <1>b DEF Charged
    <2>2. CASE st[r] = s
      <3>1. Charges(s)' = Charges(s) \cup {<<r, i>>}
        BY <1>b, <1>c, <2>0, <2>2
      <3>2. Cardinality(Charges(s)') = Cardinality(Charges(s)) + 1
        BY <1>a, <2>1, <3>1, FS_AddElement
      <3> QED BY <1>a, <2>0, <2>2, <3>2
    <2>3. CASE st[r] # s
      <3>1. Charges(s)' = Charges(s)
        BY <1>b, <1>c, <2>0, <2>1, <2>3
      <3> QED BY <1>a, <2>0, <2>3, <3>1
    <2> QED BY <2>2, <2>3
  <1>3. ASSUME NEW r \in Req, NEW i \in Stage, Keep(r, i)
        PROVE  count'[s] = Cardinality(Charges(s)')
    <2>1. \A c \in Req \X Stage :
              \/ (c = <<r, i>> /\ c[1] = r /\ c[2] = i)
              \/ (c # <<r, i>> /\ res'[c[1]][c[2]] = res[c[1]][c[2]])
      BY <1>3, OtherCharges DEF Keep
    <2>2. /\ Charged(res[r][i]) <=> Charged(res'[r][i])
          /\ Charged(res[r][i]) => res'[r][i].s = res[r][i].s
      BY <1>3 DEF Keep
    <2>3. Charges(s)' = Charges(s)
      BY <1>b, <1>c, <2>1, <2>2
    <2> QED BY <1>3, <1>a, <2>3 DEF Keep
  <1>4. ASSUME NEW r \in Req, NEW i \in Stage, Return(r, i)
        PROVE  count'[s] = Cardinality(Charges(s)')
    <2>0. /\ \A c \in Req \X Stage :
                 \/ (c = <<r, i>> /\ c[1] = r /\ c[2] = i)
                 \/ (c # <<r, i>> /\ res'[c[1]][c[2]] = res[c[1]][c[2]])
          /\ <<r, i>> \in Req \X Stage /\ Charged(res[r][i]) /\ ~Charged(res'[r][i])
          /\ count' = [count EXCEPT ![res[r][i].s] = IF @ - 1 < 0 THEN 0 ELSE @ - 1]
      BY <1>4, OtherCharges DEF Return, Charged
    <2>1. CASE res[r][i].s = s
      <3>1. <<r, i>> \in Charges(s) BY <1>b, <2>0, <2>1
      <3>2. Charges(s)' = Charges(s) \ {<<r, i>>}
        BY <1>b, <1>c, <2>0
      <3>3. Cardinality(Charges(s)') = count[s] - 1 /\ Cardinality(Charges(s)') \in Nat
        BY <1>a, <3>1, <3>2, FS_RemoveElement, FS_CardinalityType
      <3> QED BY SMTT(60), <1>a, <2>0, <2>1, <3>3
    <2>2. CASE res[r][i].s # s
      <3>1. Charges(s)' = Charges(s)
        BY <1>b, <1>c, <2>0, <2>2
      <3> QED BY <1>a, <2>0, <2>2, <3>1
    <2> QED BY <2>1, <2>2
  <1> QED BY <1>1, <1>2, <1>3, <1>4, ResMoves

----------------------------------------------------------------------------
(* The weights                                                             *)

(* What a reservation adds to a state's sum.                               *)
Weighs(v, s) == IF Charged(v) /\ v.s = s THEN v.w ELSE 0

(* A step that changes one reservation moves the sum of each state by the  *)
(* difference, down to zero at the most.                                   *)
Clamped(n) == IF n < 0 THEN 0 ELSE n
Shift(r, i) ==
    /\ Others(r, i)
    /\ \A s \in StateId :
           sumW'[s] = Clamped(sumW[s] + Weighs(res'[r][i], s) - Weighs(res[r][i], s))

(* A reservation weighs a natural number of tokens.                        *)
LEMMA WeighsNat ==
    ASSUME NEW v \in ReservationType, NEW s PROVE Weighs(v, s) \in Nat
  BY DEF Weighs, ReservationType

(* A reservation is replaced by one that weighs d more in state t, and the *)
(* sum of t moves by d.                                                    *)
Moved(r, i, v, t, d) ==
    /\ res' = [res EXCEPT ![r][i] = v]
    /\ sumW' = [sumW EXCEPT ![t] = Clamped(@ + d)]
    /\ Weighs(v, t) = Weighs(res[r][i], t) + d
    /\ \A s \in StateId \ {t} : Weighs(v, s) = Weighs(res[r][i], s)

(* That is such a step.                                                    *)
LEMMA ShiftBy ==
    ASSUME TypeOK, NEW r \in Req, NEW i \in Stage, NEW v \in ReservationType,
           NEW t \in StateId, NEW d \in Int, Moved(r, i, v, t, d)
    PROVE  Shift(r, i)
  <1>0. /\ res' = [res EXCEPT ![r][i] = v]
        /\ sumW' = [sumW EXCEPT ![t] = Clamped(@ + d)]
        /\ Weighs(v, t) = Weighs(res[r][i], t) + d
        /\ \A s \in StateId \ {t} : Weighs(v, s) = Weighs(res[r][i], s)
    BY DEF Moved
  <1>1. Others(r, i) /\ res'[r][i] = v
    <2>1. res \in [Req -> [Stage -> ReservationType]] BY DEF TypeOK, ResType
    <2> QED BY SMTT(60), <1>0, <2>1 DEF Others
  <1>2. ASSUME NEW s \in StateId
        PROVE  sumW'[s] = Clamped(sumW[s] + Weighs(v, s) - Weighs(res[r][i], s))
    <2>1. Weighs(v, s) \in Nat /\ Weighs(res[r][i], s) \in Nat
      BY WeighsNat DEF TypeOK, ResType
    <2>2. sumW \in [StateId -> Nat] /\ sumW[s] \in Nat BY DEF TypeOK, StateType
    <2>3. CASE s = t
      <3>1. sumW'[s] = Clamped(sumW[s] + d) BY <1>0, <2>2, <2>3
      <3>2. sumW[s] + Weighs(v, s) - Weighs(res[r][i], s) = sumW[s] + d
        BY SMTT(60), <1>0, <2>1, <2>2, <2>3
      <3> QED BY <3>1, <3>2
    <2>4. CASE s # t
      <3>1. sumW'[s] = sumW[s] BY <1>0, <2>2, <2>4
      <3>2. Weighs(v, s) = Weighs(res[r][i], s) BY <1>0, <2>4
      <3> QED BY SMTT(60), <2>1, <2>2, <3>1, <3>2 DEF Clamped
    <2> QED BY <2>3, <2>4
  <1> QED BY <1>1, <1>2 DEF Shift

(* So is replacing it by one that weighs the same, with no sum moved.      *)
LEMMA ShiftNone ==
    ASSUME TypeOK, NEW r \in Req, NEW i \in Stage, NEW v \in ReservationType,
           res' = [res EXCEPT ![r][i] = v], UNCHANGED sumW,
           \A s \in StateId : Weighs(v, s) = Weighs(res[r][i], s)
    PROVE  Shift(r, i)
  <1>1. Others(r, i) /\ res'[r][i] = v
    <2>1. res \in [Req -> [Stage -> ReservationType]] BY DEF TypeOK, ResType
    <2> QED BY SMTT(60), <2>1 DEF Others
  <1>2. ASSUME NEW s \in StateId
        PROVE  sumW'[s] = Clamped(sumW[s] + Weighs(v, s) - Weighs(res[r][i], s))
    <2>1. Weighs(res[r][i], s) \in Nat BY WeighsNat DEF TypeOK, ResType
    <2>2. sumW[s] \in Nat BY DEF TypeOK, StateType
    <2> QED BY SMTT(60), <2>1, <2>2 DEF Clamped
  <1> QED BY <1>1, <1>2 DEF Shift

(* Every step leaves reservations and sums alone or is such a step.        *)
LEMMA WeightMoves ==
    ASSUME TypeOK, StageInRange, Pointers, NotYetHeld, [Next]_vars
    PROVE  UNCHANGED <<res, sumW>> \/ \E r \in Req, i \in Stage : Shift(r, i)
  <1> DEFINE Goal == UNCHANGED <<res, sumW>> \/ \E r \in Req, i \in Stage : Shift(r, i)
  <1> SUFFICES Goal OBVIOUS
  <1>a. FlowType /\ CallType /\ ResType /\ ProcType /\ StateType BY DEF TypeOK
  <1>s. \A r \in Req : stage[r] \in Stage /\ proc[r].i \in Stage
    BY <1>a DEF FlowType, ProcType
  <1>w. \A s \in StateId : sumW[s] \in Nat BY <1>a DEF StateType
  <1>1. ASSUME NEW r \in Req, Reserve(r), InAdmit(r) PROVE Goal
    <2> DEFINE v == [NoRes EXCEPT !.status = "held", !.s = st[r], !.w = foot[r]]
    <2>1. st[r] \in StateId BY <1>1 DEF Pointers, CallPointers
    <2>2. foot[r] \in Nat BY <1>a DEF FlowType
    <2>3. v \in ReservationType /\ v.status = "held" /\ v.s = st[r] /\ v.w = foot[r]
      BY <2>1, <2>2 DEF NoRes, ReservationType
    <2>4. res[r][stage[r]].status = "none"
      <3>1. stage[r] \in Nat BY SMTT(60), <1>s, StageFacts
      <3>2. stage[r] >= stage[r] BY SMTT(60), <3>1
      <3> QED BY <1>1, <1>s, <3>2 DEF NotYetHeld
    <2>5. \A s : Weighs(res[r][stage[r]], s) = 0 BY <2>4 DEF Weighs, Charged
    <2>6. res' = [res EXCEPT ![r][stage[r]] = v] BY <1>1 DEF Reserve
    <2>7. sumW' = [sumW EXCEPT ![st[r]] = Clamped(@ + foot[r])]
      <3>1. sumW[st[r]] + foot[r] = Clamped(sumW[st[r]] + foot[r])
        BY SMTT(60), <1>w, <2>1, <2>2 DEF Clamped
      <3> QED BY <1>1, <3>1 DEF Reserve
    <2>8. Weighs(v, st[r]) = foot[r] /\ \A s \in StateId \ {st[r]} : Weighs(v, s) = 0
      <3> HIDE DEF v
      <3> QED BY <2>3 DEF Weighs, Charged
    <2> HIDE DEF v
    <2>9. Weighs(v, st[r]) = Weighs(res[r][stage[r]], st[r]) + foot[r]
      BY SMTT(60), <2>2, <2>5, <2>8
    <2>10. foot[r] \in Int BY SMTT(60), <2>2
    <2>11. Moved(r, stage[r], v, st[r], foot[r])
      <3>1. \A s \in StateId \ {st[r]} : Weighs(v, s) = Weighs(res[r][stage[r]], s)
        BY <2>5, <2>8
      <3> QED BY <2>6, <2>7, <2>9, <3>1 DEF Moved
    <2>12. Shift(r, stage[r]) BY <1>s, <2>1, <2>3, <2>10, <2>11, ShiftBy
    <2> QED BY <1>s, <2>12
  <1>2. ASSUME NEW r \in Req, Admit(r) \/ ParkEnds(r) PROVE Goal
    BY <1>1, <1>2
    DEF Admit, ParkEnds, EnterAdmit, TryFirst, notifyCh, Recheck, WakeUp, stateVars, InAdmit
  (* A held or marked reservation that stays charged to its state.         *)
  <1>3. ASSUME NEW r \in Req, NEW i \in Stage, NEW v \in ReservationType, NEW d \in Int,
               Charged(res[r][i]), Charged(v), v.s = res[r][i].s, v.w = res[r][i].w + d,
               res' = [res EXCEPT ![r][i] = v],
               sumW' = [sumW EXCEPT ![v.s] = Clamped(@ + d)]
        PROVE  Goal
    <2>1. v.s \in StateId BY <1>3 DEF Pointers, ResPointers, Charged
    <2>2. Weighs(v, v.s) = Weighs(res[r][i], v.s) + d BY <1>3 DEF Weighs
    <2>3. \A s \in StateId \ {v.s} : Weighs(v, s) = Weighs(res[r][i], s) BY <1>3 DEF Weighs
    <2>4. Moved(r, i, v, v.s, d) BY <1>3, <2>2, <2>3 DEF Moved
    <2>5. Shift(r, i) BY <1>3, <2>1, <2>4, ShiftBy
    <2> QED BY <2>5
  <1>4. ASSUME NEW r \in Req, Adjust(r) PROVE Goal
    <2> DEFINE i == stage[r]
               v == res[r][i]
               d == TrueUp(r, v)
               u == [v EXCEPT !.w = @ + d, !.own = "handler",
                              !.pend = IF d < 0 THEN notify[v.s] ELSE 0]
    <2>1. CASE UNCHANGED <<res, sumW>> BY <2>1
    <2>2. CASE /\ v.status = "held" /\ res' = [res EXCEPT ![r][i] = u]
               /\ sumW' = [sumW EXCEPT ![v.s] = IF @ + d < 0 THEN 0 ELSE @ + d]
      <3>0. i \in Stage BY <1>s
      <3>1. v \in ReservationType /\ v.s \in StateId
        BY <1>a, <2>2, <3>0 DEF ResType, Pointers, ResPointers
      <3>2. delta[r] \in Int /\ v.w \in Nat BY <1>a, <3>1 DEF FlowType, ReservationType
      <3>3. d \in Int /\ v.w + d \in Nat
        <4> HIDE DEF v
        <4> QED BY SMTT(60), <3>2 DEF TrueUp
      <3>4. notify[v.s] \in Nat BY <1>a, <3>1 DEF StateType
      <3>5. u \in ReservationType /\ u.status = v.status /\ u.s = v.s /\ u.w = v.w + d
        <4> HIDE DEF v, d
        <4> QED BY <3>1, <3>3, <3>4 DEF ReservationType
      <3>6. sumW' = [sumW EXCEPT ![u.s] = Clamped(@ + d)]
        <4> HIDE DEF u, v, d
        <4> QED BY <2>2, <3>5 DEF Clamped
      <3>7. Charged(v) /\ Charged(u) BY <2>2, <3>5 DEF Charged
      <3> HIDE DEF u, d
      <3> QED BY <1>3, <2>2, <3>0, <3>3, <3>5, <3>6, <3>7
    <2> QED BY <1>4, <2>1, <2>2 DEF Adjust
  <1>5. ASSUME NEW r \in Req, NEW i \in Stage, NEW who \in {"handler", "proc"},
               Mark(r, i, who), UNCHANGED sumW
        PROVE  Goal
    <2> DEFINE v == [res[r][i] EXCEPT !.status = "marked", !.own = who]
    <2>1. CASE UNCHANGED res BY <1>5, <2>1
    <2>2. CASE res[r][i].status = "held" /\ res' = [res EXCEPT ![r][i] = v]
      <3>1. res[r][i] \in ReservationType BY <1>a DEF ResType
      <3>2. v \in ReservationType /\ v.status = "marked" /\ v.s = res[r][i].s /\ v.w = res[r][i].w
        BY <1>5, <3>1 DEF ReservationType
      <3> HIDE DEF v
      <3>3. \A s \in StateId : Weighs(v, s) = Weighs(res[r][i], s)
        BY <2>2, <3>2 DEF Weighs, Charged
      <3> QED BY <1>5, <2>2, <3>2, <3>3, ShiftNone
    <2>3. \/ UNCHANGED res
          \/ res[r][i].status = "held" /\ res' = [res EXCEPT ![r][i] = v]
      BY <1>5, <1>a DEF Mark, ResType
    <2> QED BY <2>1, <2>2, <2>3
  <1>6. ASSUME NEW r \in Req, Serve(r) PROVE Goal
    BY <1>4, <1>5, <1>6, <1>s
    DEF Serve, RejectLater, Enqueue, Respond, HandlerRelease, HandlerReturn, stateVars
  <1>7. ASSUME NEW r \in Req, Grow(r) PROVE Goal
    <2> DEFINE i == proc[r].i
               t == proc[r].t
               v == [res[r][i] EXCEPT !.w = @ + t]
    <2>1. CASE UNCHANGED <<res, sumW>> BY <2>1
    <2>2. CASE /\ res[r][i].status = "held" /\ res' = [res EXCEPT ![r][i] = v]
               /\ sumW' = [sumW EXCEPT ![res[r][i].s] = @ + t]
      <3>0. i \in Stage /\ t \in Nat BY <1>a, <1>s DEF ProcType
      <3>1. res[r][i] \in ReservationType /\ res[r][i].s \in StateId
        BY <1>a, <2>2, <3>0 DEF ResType, Pointers, ResPointers
      <3>2. res[r][i].w + t \in Nat /\ t \in Int
        BY SMTT(60), <3>0, <3>1 DEF ReservationType
      <3>3. /\ v \in ReservationType /\ v.status = "held"
            /\ v.s = res[r][i].s /\ v.w = res[r][i].w + t
        BY <2>2, <3>1, <3>2 DEF ReservationType
      <3> HIDE DEF v, t
      <3>4. sumW[v.s] + t = Clamped(sumW[v.s] + t)
        BY SMTT(60), <1>w, <3>0, <3>1, <3>3 DEF Clamped
      <3>5. sumW' = [sumW EXCEPT ![v.s] = Clamped(@ + t)] BY <2>2, <3>3, <3>4
      <3>6. Charged(res[r][i]) /\ Charged(v) BY <2>2, <3>3 DEF Charged
      <3> QED BY <1>3, <2>2, <3>0, <3>2, <3>3, <3>5, <3>6
    <2> QED BY <1>7, <2>1, <2>2 DEF Grow
  <1>8. ASSUME NEW r \in Req, Process(r) PROVE Goal
    BY <1>5, <1>7, <1>8, <1>s DEF Process, StartGrow, StartFallback, FallbackRelease, stateVars
  <1>9. ASSUME NEW r \in Req, NEW i \in Stages(r), Release(r, i) PROVE Goal
    <2> DEFINE v == res[r][i]
               u == [v EXCEPT !.status = "returned", !.pend = notify[v.s]]
               d == -v.w
    <2>1. i \in Stage BY StageFacts
    <2>2. v \in ReservationType /\ v.s \in StateId /\ v.status = "marked"
      BY <1>9, <1>a, <2>1 DEF Release, ResType, Pointers, ResPointers
    <2>3. v.w \in Nat /\ notify[v.s] \in Nat
      BY <1>a, <2>2 DEF StateType, ReservationType
    <2>4. u \in ReservationType /\ u.status = "returned"
      <3> HIDE DEF v
      <3> QED BY <2>2, <2>3 DEF ReservationType
    <2>5. res' = [res EXCEPT ![r][i] = u] BY <1>9 DEF Release
    <2>6. sumW' = [sumW EXCEPT ![v.s] = Clamped(@ + d)]
      <3>1. sumW' = [sumW EXCEPT ![v.s] = IF @ - v.w < 0 THEN 0 ELSE @ - v.w]
        BY <1>9 DEF Release
      <3>2. sumW[v.s] - v.w = sumW[v.s] + d
        <4> HIDE DEF v
        <4> QED BY SMTT(60), <1>w, <2>2, <2>3
      <3> HIDE DEF v, d
      <3> QED BY <3>1, <3>2 DEF Clamped
    <2> HIDE DEF u
    <2>7. \A s \in StateId : Weighs(u, s) = 0 BY <2>4 DEF Weighs, Charged
    <2>8. Weighs(v, v.s) = v.w /\ \A s \in StateId \ {v.s} : Weighs(v, s) = 0
      BY <2>2 DEF Weighs, Charged
    <2>9. Weighs(u, v.s) = Weighs(v, v.s) + d /\ d \in Int
      <3> HIDE DEF v
      <3> QED BY SMTT(60), <2>2, <2>3, <2>7, <2>8
    <2> HIDE DEF d
    <2>10. Moved(r, i, u, v.s, d)
      <3>1. \A s \in StateId \ {v.s} : Weighs(u, s) = Weighs(v, s) BY <2>7, <2>8
      <3> QED BY <2>5, <2>6, <2>9, <3>1 DEF Moved
    <2>11. Shift(r, i) BY <2>1, <2>2, <2>4, <2>9, <2>10, ShiftBy
    <2> QED BY <2>1, <2>11
  <1>10. ASSUME NEW r \in Req, NEW i \in Stages(r), CloseCh(r, i) PROVE Goal
    <2> DEFINE v == res[r][i]
               u == IF v.status = "returned" THEN [NoRes EXCEPT !.status = "returned"]
                                             ELSE [v EXCEPT !.pend = 0]
    <2>1. i \in Stage BY StageFacts
    <2>2. v \in ReservationType BY <1>a, <2>1 DEF ResType
    <2>3. /\ u \in ReservationType /\ u.status = v.status
          /\ v.status # "returned" => u.s = v.s /\ u.w = v.w
      <3> HIDE DEF v
      <3> QED BY <2>2 DEF ReservationType, NoRes
    <2>4. res' = [res EXCEPT ![r][i] = u] /\ UNCHANGED sumW
      BY <1>10 DEF CloseCh, stateVars
    <2> HIDE DEF u
    <2>5. \A s \in StateId : Weighs(u, s) = Weighs(v, s) BY <2>3 DEF Weighs, Charged
    <2> QED BY <2>1, <2>3, <2>4, <2>5, ShiftNone
  <1>11. ASSUME Janitor \/ Quiet \/ UNCHANGED vars PROVE Goal
    BY <1>11 DEF Janitor, Age, SweepIdle, Quiet, vars, stateVars
  <1> QED BY <1>2, <1>6, <1>8, <1>9, <1>10, <1>11 DEF Next, Complete

(* The tokens of a state when the reservations are f; those of one         *)
(* reservation left out; n tokens of a reservation.                        *)
TokensOf(f, s) ==
    {k \in (Req \X Stage) \X Nat :
        LET v == f[k[1][1]][k[1][2]] IN k[2] \in 1..Weighs(v, s)}
Rest(f, s, r, i) == {k \in TokensOf(f, s) : k[1] # <<r, i>>}
Row(r, i, n) == {<<r, i>>} \X (1..n)

(* A token is a pair of a reservation and a rank.                          *)
LEMMA TokenPair ==
    ASSUME NEW s, NEW f, NEW k
    PROVE  (k \in UNION {{c} \X (1..f[c[1]][c[2]].w) :
                          c \in {b \in Req \X Stage : Charged(f[b[1]][b[2]])
                                                        /\ f[b[1]][b[2]].s = s}})
               <=> k \in TokensOf(f, s)
  <1> DEFINE Set == {b \in Req \X Stage : Charged(f[b[1]][b[2]]) /\ f[b[1]][b[2]].s = s}
             Sum == UNION {{c} \X (1..f[c[1]][c[2]].w) : c \in Set}
  <1>1. ASSUME k \in Sum PROVE k \in TokensOf(f, s)
    <2>1. PICK c \in Set : k \in {c} \X (1..f[c[1]][c[2]].w) BY <1>1
    <2>2. PICK n \in 1..f[c[1]][c[2]].w : k = <<c, n>> BY SMTT(60), <2>1
    <2>3. c \in Req \X Stage /\ Weighs(f[c[1]][c[2]], s) = f[c[1]][c[2]].w
      BY <2>1 DEF Weighs
    <2>4. n \in Nat BY SMTT(60)
    <2>5. k[1] = c /\ k[2] = n /\ k \in (Req \X Stage) \X Nat BY <2>2, <2>3, <2>4
    <2>6. n \in 1..Weighs(f[c[1]][c[2]], s) BY <2>3
    <2> QED BY <2>5, <2>6 DEF TokensOf
  <1>2. ASSUME k \in TokensOf(f, s) PROVE k \in Sum
    <2> DEFINE c == k[1]
               v == f[c[1]][c[2]]
    <2>1. k \in (Req \X Stage) \X Nat /\ k[2] \in 1..Weighs(v, s) BY <1>2 DEF TokensOf
    <2>2. Weighs(v, s) # 0
      <3> HIDE DEF v
      <3> QED BY SMTT(60), <2>1
    <2>3. Charged(v) /\ v.s = s /\ Weighs(v, s) = v.w
      <3> HIDE DEF v
      <3> QED BY <2>2 DEF Weighs
    <2>4. c \in Set /\ k = <<c, k[2]>> BY SMTT(60), <2>1, <2>3
    <2>5. k \in {c} \X (1..v.w)
      <3> HIDE DEF c, v
      <3> QED BY SMTT(60), <2>1, <2>3, <2>4
    <2> QED BY <2>4, <2>5
  <1> QED BY <1>1, <1>2

(* Those of the model, before and after a step.                            *)
LEMMA TokensAre ==
    ASSUME NEW s PROVE Tokens(s) = TokensOf(res, s) /\ Tokens(s)' = TokensOf(res', s)
  BY TokenPair DEF Tokens, Charges, Charged

(* A state's tokens are the row of one reservation and the rest.           *)
LEMMA TokensSplit ==
    ASSUME NEW f, NEW s, NEW r \in Req, NEW i \in Stage, Weighs(f[r][i], s) \in Nat
    PROVE  TokensOf(f, s) = Rest(f, s, r, i) \cup Row(r, i, Weighs(f[r][i], s))
  <1> DEFINE c == <<r, i>>
             W == Weighs(f[r][i], s)
  <1>0. c \in Req \X Stage /\ c[1] = r /\ c[2] = i OBVIOUS
  <1>1. ASSUME NEW k, k \in TokensOf(f, s), k[1] = c PROVE k \in Row(r, i, W)
    <2>1. k \in (Req \X Stage) \X Nat /\ k[2] \in 1..W BY <1>0, <1>1 DEF TokensOf
    <2>2. k = <<c, k[2]>> BY SMTT(60), <1>1, <2>1
    <2> HIDE DEF W, c
    <2> QED BY SMTT(60), <2>1, <2>2 DEF Row, c
  <1>2. ASSUME NEW k, k \in Row(r, i, W) PROVE k \in TokensOf(f, s)
    <2>1. PICK n \in 1..W : k = <<c, n>>
      <3> HIDE DEF W
      <3> QED BY SMTT(60), <1>2 DEF Row
    <2>2. n \in Nat
      <3> HIDE DEF W
      <3> QED BY SMTT(60)
    <2>3. k \in (Req \X Stage) \X Nat /\ k[1] = c /\ k[2] = n BY <1>0, <2>1, <2>2
    <2> QED BY <1>0, <2>1, <2>3 DEF TokensOf
  <1> HIDE DEF W
  <1>3. ASSUME NEW k PROVE k \in TokensOf(f, s) <=> k \in Rest(f, s, r, i) \cup Row(r, i, W)
    BY <1>1, <1>2 DEF Rest
  <1> QED BY <1>3 DEF W

(* The step that changes one reservation leaves the rest alone.            *)
LEMMA RestSame ==
    ASSUME NEW s, NEW r \in Req, NEW i \in Stage, Others(r, i)
    PROVE  Rest(res', s, r, i) = Rest(res, s, r, i)
  <1>1. \A c \in Req \X Stage : c # <<r, i>> => res'[c[1]][c[2]] = res[c[1]][c[2]]
    BY SMTT(60), OtherCharges
  <1>2. ASSUME NEW k \in (Req \X Stage) \X Nat, k[1] # <<r, i>>
        PROVE  k \in TokensOf(res', s) <=> k \in TokensOf(res, s)
    BY <1>1, <1>2 DEF TokensOf
  <1> QED BY <1>2 DEF Rest, TokensOf

(* A row added to a set that has none of it adds its length.               *)
LEMMA RowAdds ==
    ASSUME NEW R, IsFiniteSet(R), NEW r, NEW i, NEW n \in Nat,
           \A k \in R : k[1] # <<r, i>>
    PROVE  /\ IsFiniteSet(R \cup Row(r, i, n))
           /\ Cardinality(R \cup Row(r, i, n)) = Cardinality(R) + n
  <1>1. IsFiniteSet(1..n) /\ Cardinality(1..n) = n
    <2>1. 1 \in Int /\ n \in Int /\ (IF 1 > n THEN 0 ELSE n - 1 + 1) = n BY SMTT(60)
    <2> QED BY <2>1, FS_Interval
  <1>2. IsFiniteSet({<<r, i>>}) /\ Cardinality({<<r, i>>}) = 1 BY FS_Singleton
  <1>3. /\ IsFiniteSet(Row(r, i, n))
        /\ Cardinality(Row(r, i, n)) = Cardinality({<<r, i>>}) * Cardinality(1..n)
    BY <1>1, <1>2, FS_Product DEF Row
  <1>4. Cardinality(Row(r, i, n)) = n BY SMTT(60), <1>1, <1>2, <1>3
  <1>5. R \cap Row(r, i, n) = {} BY DEF Row
  <1>6. Cardinality(R \cap Row(r, i, n)) = 0 BY <1>5, FS_EmptySet
  <1>7. Cardinality(R) \in Nat BY FS_CardinalityType
  <1>8. /\ IsFiniteSet(R \cup Row(r, i, n))
        /\ Cardinality(R \cup Row(r, i, n))
             = Cardinality(R) + Cardinality(Row(r, i, n)) - Cardinality(R \cap Row(r, i, n))
    BY <1>3, FS_Union
  <1> QED BY SMTT(60), <1>4, <1>6, <1>7, <1>8

(* The sum of a state keeps being the number of its tokens: no step gives  *)
(* back more than the sum holds, so the clamps never act.                  *)
LEMMA WeightStep ==
    ASSUME TypeOK, StageInRange, Pointers, NotYetHeld, TokensFinite, Conservation,
           [Next]_vars
    PROVE  TokensFinite' /\ Conservation'
  <1> SUFFICES ASSUME NEW s \in StateId
               PROVE  IsFiniteSet(Tokens(s)') /\ sumW'[s] = Cardinality(Tokens(s)')
    BY DEF TokensFinite, Conservation
  <1>a. IsFiniteSet(Tokens(s)) /\ sumW[s] = Cardinality(Tokens(s))
    BY DEF TokensFinite, Conservation
  <1>1. CASE UNCHANGED <<res, sumW>>
    <2>1. Tokens(s)' = Tokens(s) BY <1>1 DEF Tokens, Charges
    <2> QED BY <1>a, <1>1, <2>1
  <1>2. ASSUME NEW r \in Req, NEW i \in Stage, Shift(r, i)
        PROVE  IsFiniteSet(Tokens(s)') /\ sumW'[s] = Cardinality(Tokens(s)')
    <2> DEFINE R == Rest(res, s, r, i)
               a == Weighs(res[r][i], s)
               b == Weighs(res'[r][i], s)
    <2>0. TypeOK' BY TypeStep
    <2>1. a \in Nat /\ b \in Nat BY <2>0, WeighsNat DEF TypeOK, ResType
    <2>2. Tokens(s) = R \cup Row(r, i, a) BY SMTT(60), <2>1, TokensSplit, TokensAre
    <2>3. Tokens(s)' = R \cup Row(r, i, b)
      <3>1. TokensOf(res', s) = Rest(res', s, r, i) \cup Row(r, i, b) BY <2>1, TokensSplit
      <3>2. Rest(res', s, r, i) = R BY <1>2, RestSame DEF Shift
      <3>3. Tokens(s)' = TokensOf(res', s) BY TokensAre
      <3> QED BY <3>1, <3>2, <3>3
    <2>5. IsFiniteSet(R) /\ \A k \in R : k[1] # <<r, i>>
      <3>1. R \in SUBSET Tokens(s) BY TokensAre DEF Rest
      <3> QED BY <1>a, <3>1, FS_Subset DEF Rest
    <2> HIDE DEF R, a, b
    <2>6. Cardinality(Tokens(s)) = Cardinality(R) + a
      BY SMTT(60), <2>1, <2>2, <2>5, RowAdds
    <2>7. IsFiniteSet(Tokens(s)') /\ Cardinality(Tokens(s)') = Cardinality(R) + b
      BY SMTT(60), <2>1, <2>3, <2>5, RowAdds
    <2>8. Cardinality(R) \in Nat BY <2>5, FS_CardinalityType
    <2>9. sumW'[s] = Clamped(sumW[s] + b - a) BY <1>2 DEF Shift, a, b
    <2> QED BY SMTT(60), <1>a, <2>1, <2>6, <2>7, <2>8, <2>9 DEF Clamped
  <1> QED BY <1>1, <1>2, WeightMoves

----------------------------------------------------------------------------
(* What a handler leaves behind                                            *)

(* Only an admission makes a reservation held.                             *)
LEMMA HeldMoves ==
    ASSUME TypeOK, StageInRange, Pointers, [Next]_vars,
           NEW q \in Req, NEW j \in Stage, res'[q][j].status = "held",
           pc'[q] \in {"release", "return", "done"}
    PROVE  res[q][j].status = "held"
  <1>1. CASE res'[q][j] = res[q][j] BY <1>1
  <1>2. ASSUME NEW r \in Req, NEW i \in Stage, Take(r, i) \/ Keep(r, i) \/ Return(r, i),
               q = r, j = i
        PROVE  res[q][j].status = "held"
    BY <1>2 DEF Take, Keep, Return
  <1>3. ASSUME NEW r \in Req, NEW i \in Stage, Take(r, i) \/ Keep(r, i) \/ Return(r, i),
               ~(q = r /\ j = i)
        PROVE  res'[q][j] = res[q][j]
    BY <1>3 DEF Take, Keep, Return, Others
  <1> QED BY <1>1, <1>2, <1>3, ResMoves

(* A handler on its way out was there, begins with the first stage, passes *)
(* a stage or the last one without leaving it held, or has taken nothing.  *)
OnWayOut(q) ==
    \/ pc'[q] = pc[q] /\ stage'[q] = stage[q]
    \/ pc'[q] = "release" /\ stage'[q] = 1
    \/ /\ pc[q] = "release" /\ pc'[q] = "release" /\ stage'[q] = stage[q] + 1
       /\ res'[q][stage[q]].status # "held"
    \/ /\ pc[q] = "release" /\ pc'[q] = "return" /\ ~(stage[q] < Len(PoolOf[q]))
       /\ res'[q][stage[q]].status # "held"
    \/ pc[q] = "return" /\ pc'[q] = "done"
    \/ /\ (pc[q] = "enter" \/ InAdmit(q)) /\ pc'[q] = "done" /\ stage[q] = 1
       /\ UNCHANGED res

(* That is all a handler on its way out does.                              *)
LEMMA ExitMoves ==
    ASSUME TypeOK, [Next]_vars, NEW q \in Req, pc'[q] \in {"release", "return", "done"}
    PROVE  OnWayOut(q)
  <1>a. FlowType /\ ResType BY DEF TypeOK
  <1>b. /\ pc \in [Req -> {"enter", "try", "loop", "recheck", "select", "admitted",
                           "await", "adjust", "release", "return", "done"}]
        /\ stage \in [Req -> Stage]
    BY <1>a DEF FlowType
  <1>0. ASSUME UNCHANGED <<pc, stage>> PROVE OnWayOut(q) BY <1>0 DEF OnWayOut
  <1>n. ASSUME NEW r \in Req, r # q, NEW p, NEW k,
               pc' = [pc EXCEPT ![r] = p] \/ UNCHANGED pc,
               stage' = [stage EXCEPT ![r] = k] \/ UNCHANGED stage
        PROVE  OnWayOut(q)
    BY <1>n, <1>b DEF OnWayOut
  <1>f. ASSUME NEW r \in Req, Refuse(r), UNCHANGED res, pc[r] = "enter" \/ InAdmit(r)
        PROVE  OnWayOut(q)
    <2>1. CASE r = q BY <1>f, <1>b, <2>1 DEF Refuse, OnWayOut
    <2>2. CASE r # q BY <1>f, <1>n, <2>2 DEF Refuse
    <2> QED BY <2>1, <2>2
  <1>g. ASSUME NEW r \in Req, Reserve(r) PROVE OnWayOut(q)
    <2>1. CASE r = q BY <1>g, <1>b, <2>1 DEF Reserve
    <2>2. CASE r # q BY <1>g, <1>n, <2>2 DEF Reserve
    <2> QED BY <2>1, <2>2
  <1>h. ASSUME NEW r \in Req, NEW p \in {"enter", "try", "loop", "recheck", "select", "await"},
               pc' = [pc EXCEPT ![r] = p], UNCHANGED stage
        PROVE  OnWayOut(q)
    <2>1. CASE r = q BY <1>h, <1>b, <2>1
    <2>2. CASE r # q BY <1>h, <1>n, <2>2
    <2> QED BY <2>1, <2>2
  <1>1. ASSUME NEW r \in Req, Admit(r) \/ ParkEnds(r) PROVE OnWayOut(q)
    <2>1. CASE EnterAdmit(r) BY <1>f, <1>h, <2>1 DEF EnterAdmit
    <2>2. CASE TryFirst(r) BY <1>f, <1>g, <1>h, <2>2 DEF TryFirst, InAdmit
    <2>3. CASE notifyCh(r) BY <1>h, <2>3 DEF notifyCh
    <2>4. CASE Recheck(r) BY <1>g, <1>h, <2>4 DEF Recheck
    <2>5. CASE WakeUp(r) BY <1>h, <2>5 DEF WakeUp
    <2>6. CASE ParkEnds(r) BY <1>f, <1>h, <2>6 DEF ParkEnds, InAdmit
    <2> QED BY <1>1, <2>1, <2>2, <2>3, <2>4, <2>5, <2>6 DEF Admit
  <1>j. ASSUME NEW r \in Req, pc' = [pc EXCEPT ![r] = "release"],
               stage' = [stage EXCEPT ![r] = 1]
        PROVE  OnWayOut(q)
    <2>1. CASE r = q BY <1>j, <1>b, <2>1 DEF OnWayOut
    <2>2. CASE r # q BY <1>j, <1>n, <2>2
    <2> QED BY <2>1, <2>2
  <1>2. ASSUME NEW r \in Req, Serve(r) PROVE OnWayOut(q)
    <2>1. CASE RejectLater(r) BY <1>j, <2>1 DEF RejectLater
    <2>2. CASE Enqueue(r) BY <1>h, <2>2 DEF Enqueue
    <2>3. CASE Respond(r)
      <3>1. CASE pc' = [pc EXCEPT ![r] = "release"] BY <1>j, <2>3, <3>1 DEF Respond
      <3>2. CASE pc' = [pc EXCEPT ![r] = "adjust"]
        <4>1. CASE r = q BY <1>b, <3>2, <4>1
        <4>2. CASE r # q BY <1>n, <2>3, <3>2, <4>2 DEF Respond
        <4> QED BY <4>1, <4>2
      <3> QED BY <2>3, <3>1, <3>2 DEF Respond
    <2>4. CASE Adjust(r)
      <3>1. pc[r] = "adjust" BY <2>4 DEF Adjust
      <3>2. \/ UNCHANGED pc /\ \E k : stage' = [stage EXCEPT ![r] = k]
            \/ pc' = [pc EXCEPT ![r] = "release"] /\ stage' = [stage EXCEPT ![r] = 1]
        BY <2>4 DEF Adjust
      <3>3. CASE UNCHANGED pc /\ \E k : stage' = [stage EXCEPT ![r] = k]
        <4>1. r # q BY <3>1, <3>3
        <4> QED BY <1>n, <3>3, <4>1
      <3> QED BY <1>j, <3>2, <3>3
    <2>5. CASE HandlerRelease(r)
      <3>1. CASE r # q BY <1>n, <2>5, <3>1 DEF HandlerRelease
      <3>2. CASE r = q
        <4>1. stage[q] \in Stage BY <1>b
        <4>2. res'[q][stage[q]].status # "held"
          <5> DEFINE v == [res[q][stage[q]] EXCEPT !.status = "marked", !.own = "handler"]
          <5>1. res[q][stage[q]] \in ReservationType BY <1>a, <4>1 DEF ResType
          <5>2. v.status = "marked" BY <5>1 DEF ReservationType
          <5>3. Mark(q, stage[q], "handler") BY <2>5, <3>2 DEF HandlerRelease
          <5>4. CASE res[q][stage[q]].status = "held"
            <6>1. res' = [res EXCEPT ![q][stage[q]] = v] BY <5>3, <5>4 DEF Mark
            <6>2. res'[q][stage[q]] = v
              <7> HIDE DEF v
              <7> QED BY <1>a, <4>1, <6>1 DEF ResType
            <6> QED BY <5>2, <6>2
          <5>5. CASE res[q][stage[q]].status # "held" BY <5>3, <5>5 DEF Mark
          <5> QED BY <5>4, <5>5
        <4>3. \/ /\ stage[q] < Len(PoolOf[q]) /\ UNCHANGED pc
                 /\ stage' = [stage EXCEPT ![q] = @ + 1]
              \/ ~(stage[q] < Len(PoolOf[q])) /\ pc' = [pc EXCEPT ![q] = "return"]
          BY <2>5, <3>2 DEF HandlerRelease
        <4>4. pc[q] = "release" BY <2>5, <3>2 DEF HandlerRelease
        <4> QED BY <1>b, <4>2, <4>3, <4>4 DEF OnWayOut
      <3> QED BY <3>1, <3>2
    <2>6. CASE HandlerReturn(r)
      <3>1. CASE r = q BY <1>b, <2>6, <3>1 DEF HandlerReturn, OnWayOut
      <3>2. CASE r # q BY <1>n, <2>6, <3>2 DEF HandlerReturn
      <3> QED BY <3>1, <3>2
    <2> QED BY <1>2, <2>1, <2>2, <2>3, <2>4, <2>5, <2>6 DEF Serve
  <1>3. ASSUME NEW r \in Req, Process(r) \/ Complete(r) PROVE OnWayOut(q)
    BY <1>0, <1>3 DEF Process, StartGrow, Grow, StartFallback, FallbackRelease, Complete,
                      Release, CloseCh
  <1>4. ASSUME Janitor \/ Quiet \/ UNCHANGED vars PROVE OnWayOut(q)
    BY <1>0, <1>4 DEF Janitor, Age, SweepIdle, Quiet, vars
  <1> QED BY <1>1, <1>2, <1>3, <1>4 DEF Next

(* A step of the loop keeps it so, and nothing else makes one held again.  *)
LEMMA FreedStep ==
    ASSUME TypeOK, StageInRange, Pointers, NotYetHeld, PassedFreed, [Next]_vars
    PROVE  PassedFreed'
  <1> SUFFICES ASSUME NEW q \in Req, NEW j \in Stages(q), res'[q][j].status = "held",
                      \/ pc'[q] \in {"return", "done"}
                      \/ pc'[q] = "release" /\ j < stage'[q]
               PROVE  FALSE
    BY DEF PassedFreed
  <1>0. j \in Stage /\ j \in Nat /\ stage[q] \in Stage /\ stage[q] \in Nat /\ j >= 1
        /\ Len(PoolOf[q]) \in Nat /\ j <= Len(PoolOf[q])
    <2>1. stage[q] \in Stage /\ j \in Stage /\ Len(PoolOf[q]) \in Stage
      BY StageFacts DEF TypeOK, FlowType
    <2>2. j <= Len(PoolOf[q]) BY StageFacts, <2>1
    <2> QED BY SMTT(60), <2>1, <2>2, StageFacts
  <1>1. res[q][j].status = "held" BY <1>0, HeldMoves
  <1>2. OnWayOut(q) BY ExitMoves
  <1>3. ~(pc[q] \in {"return", "done"} \/ (pc[q] = "release" /\ j < stage[q]))
    BY <1>1 DEF PassedFreed
  <1>4. CASE (pc[q] = "enter" \/ InAdmit(q)) /\ stage[q] = 1
    <2>1. j >= stage[q] BY <1>0, <1>4
    <2> QED BY <1>0, <1>1, <1>4, <2>1 DEF NotYetHeld
  <1>5. CASE /\ pc[q] = "release" /\ res'[q][stage[q]].status # "held"
             /\ \/ stage'[q] = stage[q] + 1 /\ j < stage'[q]
                \/ ~(stage[q] < Len(PoolOf[q]))
    <2>1. j # stage[q] BY <1>5
    <2>2. j < stage[q] BY SMTT(60), <1>0, <1>5, <2>1
    <2> QED BY <1>3, <1>5, <2>2
  <1>6. CASE stage'[q] = 1 /\ j < stage'[q] BY SMTT(60), <1>0, <1>6
  <1> QED BY <1>2, <1>3, <1>4, <1>5, <1>6 DEF OnWayOut

----------------------------------------------------------------------------
(* The janitor                                                             *)

(* Only a lookup or a sweep changes what a pool is mapped to: a lookup     *)
(* binds a pool that had no state, a sweep unbinds one whose state is aged *)
(* and carries nothing.                                                    *)
LEMMA MapMoves ==
    ASSUME TypeOK, StageInRange, [Next]_vars, NEW p \in Pool, mapped'[p] # mapped[p]
    PROVE  /\ UNCHANGED res
           /\ mapped[p] = NoState \/ (mapped[p] \in aged /\ count[mapped[p]] = 0)
  <1> DEFINE Goal == /\ UNCHANGED res
                     /\ mapped[p] = NoState \/ (mapped[p] \in aged /\ count[mapped[p]] = 0)
  <1> SUFFICES Goal OBVIOUS
  <1>a. mapped \in [Pool -> StateId \cup {NoState}] BY DEF TypeOK, CtrlType
  <1>1. ASSUME NEW r \in Req, EnterAdmit(r) PROVE Goal
    <2>1. UNCHANGED res BY <1>1 DEF EnterAdmit
    <2> DEFINE x == PoolOf[r][stage[r]]
    <2>2. PICK s \in StateId :
              /\ mapped' = [mapped EXCEPT ![x] = s]
              /\ mapped[x] = NoState \/ s = mapped[x]
      BY <1>1, <1>a DEF EnterAdmit, stateFor, ctrlVars
    <2> HIDE DEF x
    <2>3. x = p BY <1>a, <2>2
    <2> QED BY <1>a, <2>1, <2>2, <2>3
  <1>2. ASSUME NEW x \in Pool, SweepIdle(x) PROVE Goal
    BY <1>2, <1>a DEF SweepIdle
  <1>3. ASSUME UNCHANGED mapped PROVE Goal
    BY <1>3
  <1>4. ASSUME NEW r \in Req, Admit(r) \/ ParkEnds(r) PROVE Goal
    BY <1>1, <1>3, <1>4
    DEF Admit, ParkEnds, TryFirst, notifyCh, Recheck, WakeUp, ctrlVars
  <1>5. ASSUME NEW r \in Req, Serve(r) PROVE Goal
    BY <1>3, <1>5
    DEF Serve, RejectLater, Enqueue, Respond, Adjust, HandlerRelease, HandlerReturn, ctrlVars
  <1>6. ASSUME NEW r \in Req, Process(r) \/ Complete(r) PROVE Goal
    BY <1>3, <1>6 DEF Process, StartGrow, Grow, StartFallback, FallbackRelease, Complete,
                      Release, CloseCh, ctrlVars
  <1>7. ASSUME Janitor \/ Quiet \/ UNCHANGED vars PROVE Goal
    BY <1>2, <1>3, <1>7 DEF Janitor, Age, Quiet, vars, ctrlVars
  <1> QED BY <1>4, <1>5, <1>6, <1>7 DEF Next

(* No step separates a call or a charge from the state its pool maps to.   *)
LEMMA OrphanStep ==
    ASSUME TypeOK, StageInRange, Pointers, CountExact, NoOrphanState, [Next]_vars
    PROVE  NoOrphanState'
  <1>a. \A q \in Req : stage[q] \in Stage /\ stage[q] \in Stages(q)
    BY StageFacts DEF TypeOK, FlowType, StageInRange
  <1>b. \A q \in Req : \A i \in Stages(q) : i \in Stage /\ PoolOf[q][i] \in Pool
    BY StageFacts
  <1>1. ASSUME NEW q \in Req, InAdmit(q)'
        PROVE  st'[q] = mapped'[PoolOf[q][stage'[q]]]
    <2>1. CASE InAdmit(q) /\ UNCHANGED <<st[q], stage[q]>>
      <3> DEFINE p == PoolOf[q][stage[q]]
      <3>1. p \in Pool /\ st[q] = mapped[p] /\ st[q] \in StateId /\ st[q] \notin aged
        BY <1>a, <1>b, <2>1 DEF NoOrphanState, Pointers, CallPointers
      <3> HIDE DEF p
      <3>2. mapped'[p] = mapped[p]
        BY <3>1, MapMoves, StateAssumption
      <3> QED BY <2>1, <3>1, <3>2 DEF p
    <2> QED BY <1>1, <2>1, CallMoves
  <1>2. ASSUME NEW q \in Req, NEW i \in Stages(q), Charged(res[q][i]),
               UNCHANGED ctrlVars \/ UNCHANGED res
        PROVE  res[q][i].s = mapped'[PoolOf[q][i]]
    <2> DEFINE p == PoolOf[q][i]
               s == res[q][i].s
    <2>1. p \in Pool /\ s = mapped[p] /\ s \in StateId
      BY <1>2, <1>b DEF NoOrphanState, Charged, Pointers, ResPointers
    <2>2. count[s] # 0
      <3>1. <<q, i>> \in Charges(s) BY <1>2, <1>b DEF Charges, Charged
      <3>2. Cardinality(Charges(s)) # 0 BY <2>1, <3>1, ChargesFinite, FS_EmptySet
      <3> QED BY <2>1, <3>2 DEF CountExact
    <2> HIDE DEF p, s
    <2>3. mapped'[p] = mapped[p]
      BY <2>1, <2>2, MapMoves, StateAssumption
    <2> QED BY <2>1, <2>3 DEF p, s
  <1>3. ASSUME NEW q \in Req, NEW i \in Stages(q), Charged(res'[q][i])
        PROVE  res'[q][i].s = mapped'[PoolOf[q][i]]
    <2>1. CASE UNCHANGED <<res, count>>
      BY <1>2, <1>3, <2>1
    <2>2. ASSUME NEW r \in Req, NEW j \in Stage, Take(r, j)
          PROVE  res'[q][i].s = mapped'[PoolOf[q][i]]
      <3>1. CASE q = r /\ i = j
        BY <2>2, <3>1 DEF Take, NoOrphanState, ctrlVars
      <3>2. CASE <<q, i>> # <<r, j>>
        BY SMTT(60), <1>2, <1>3, <1>b, <2>2, <3>2 DEF Take, Others
      <3> QED BY <3>1, <3>2
    <2>3. ASSUME NEW r \in Req, NEW j \in Stage, Keep(r, j) \/ Return(r, j)
          PROVE  res'[q][i].s = mapped'[PoolOf[q][i]]
      <3>1. CASE q = r /\ i = j
        BY <1>2, <1>3, <2>3, <3>1 DEF Keep, Return, Charged
      <3>2. CASE <<q, i>> # <<r, j>>
        BY SMTT(60), <1>2, <1>3, <1>b, <2>3, <3>2 DEF Keep, Return, Others
      <3> QED BY <3>1, <3>2
    <2> QED BY <2>1, <2>2, <2>3, ResMoves
  <1> QED BY <1>1, <1>3 DEF NoOrphanState, Charged, InAdmit

----------------------------------------------------------------------------
(* The theorems                                                            *)

(* The state objects and requests the gate starts with.                    *)
LEMMA InitIInv == Init => IInv
  <1> SUFFICES ASSUME Init PROVE IInv OBVIOUS
  <1>1. NoRes \in ReservationType /\ NoRes.status = "none"
    BY DEF NoRes, ReservationType
  <1>2. TypeOK
    <2>1. CtrlType /\ StateType BY SMTT(60) DEF Init, CtrlType, StateType
    <2>2. CallType BY DEF Init, CallType
    <2>3. FlowType
      <3>1. foot \in [Req -> Nat] BY NumberAssumption DEF Init
      <3>2. 1 \in Stage BY StageFacts
      <3> QED BY SMTT(60), <3>1, <3>2 DEF Init, FlowType
    <2>4. ResType /\ ProcType BY <1>1, StageFacts DEF Init, ResType, ProcType, Idle
    <2> QED BY <2>1, <2>2, <2>3, <2>4 DEF TypeOK
  <1>3. \A r \in Req, i \in Stage : res[r][i].status = "none"
    BY <1>1 DEF Init
  <1>4. \A r \in Req : pc[r] = "enter" /\ ~InAdmit(r)
    BY DEF Init, InAdmit
  <1>5. NotYetHeld /\ Pointers /\ ChannelOrder /\ NoLostWakeup /\ PassedFreed
    BY <1>3, <1>4 DEF PassedFreed, NotYetHeld, Pointers, CallPointers, ResPointers, ChannelOrder, NoLostWakeup
  <1>6. NoOrphanState
    BY <1>3, <1>4, StageFacts DEF NoOrphanState
  <1>7. StageInRange
    BY StageFacts DEF Init, StageInRange, Idle
  <1>8. CountExact
    <2>1. \A s \in StateId : Charges(s) = {} BY <1>3 DEF Charges
    <2> QED BY <2>1, FS_EmptySet DEF CountExact, Init
  <1>9. TokensFinite /\ Conservation
    <2>1. \A s \in StateId : Tokens(s) = {} BY <1>3 DEF Tokens, Charges
    <2> QED BY <2>1, FS_EmptySet DEF TokensFinite, Conservation, Init
  <1> QED BY <1>2, <1>5, <1>6, <1>7, <1>8, <1>9 DEF IInv

(* Every step of handlers, processor and janitor preserves the inductive   *)
(* invariant.                                                              *)
LEMMA IInvStep == IInv /\ [Next]_vars => IInv'
  BY TypeStep, StageStep, CallStep, WakeupStep, ResStep, CountStep, WeightStep,
     OrphanStep, FreedStep
  DEF IInv, Pointers

(* The inductive invariant holds in every reachable state.                 *)
THEOREM Inductive == Spec => []IInv
  BY InitIInv, IInvStep, PTL DEF Spec

(* Type correctness: weights, counts, channel generations and budgets stay *)
(* naturals, for any workload and any policy.                              *)
THEOREM TypeCorrect == Spec => []TypeOK
  <1>1. IInv => TypeOK BY DEF IInv
  <1> QED BY Inductive, <1>1, PTL

(* AdmitWithin's read-channel, re-check, wait order loses no wakeup: a     *)
(* parked request on the current channel has no room.                      *)
THEOREM WakeupSafe == Spec => []NoLostWakeup
  <1>1. IInv => NoLostWakeup BY DEF IInv
  <1> QED BY Inductive, <1>1, PTL

(* The in-flight count is exactly the number of reservations charged, so   *)
(* no interleaving of release, provider fallback, true-up and late chunks  *)
(* leaks or double-frees a max_inflight slot.                              *)
THEOREM CountCorrect == Spec => []CountExact
  <1>1. IInv => CountExact BY DEF IInv
  <1> QED BY Inductive, <1>1, PTL

(* A state's weight is exactly what its reservations weigh: whatever the   *)
(* order of reserve, growth, true-up, provider fallback and release, no    *)
(* budget leaks, none is freed twice, and no clamp at zero ever acts.      *)
THEOREM WeightCorrect == Spec => []Conservation
  <1>1. IInv => Conservation BY DEF IInv
  <1> QED BY Inductive, <1>1, PTL

(* The janitor never evicts a state that a call or a reservation uses, so  *)
(* a pool's occupancy is never split over two states.                      *)
THEOREM SweepSafe == Spec => []NoOrphanState
  <1>1. IInv => NoOrphanState BY DEF IInv
  <1> QED BY Inductive, <1>1, PTL

(* A handler that returned left no reservation held, on any path: refused  *)
(* by the share after the pool admitted it, rejected later, timed out,     *)
(* answered, or released earlier by the provider fallback.                 *)
THEOREM HandedBack == Spec => []NothingLeftHeld
  <1>1. IInv => NothingLeftHeld BY DEF IInv, PassedFreed, NothingLeftHeld
  <1> QED BY Inductive, <1>1, PTL
=============================================================================
