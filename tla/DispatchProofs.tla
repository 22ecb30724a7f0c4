--------------------------- MODULE DispatchProofs ---------------------------
(***************************************************************************)
(* Proofs about Dispatch, for any number of requests, agents and policy    *)
(* steps: the slots are counted exactly and never exceed the declared      *)
(* capacity, a step never returns to an agent that failed it, the wait     *)
(* queue keeps its order, every request stops trying within the retries    *)
(* its policy allows, and no signal for a freed slot is lost.              *)
(***************************************************************************)
EXTENDS Dispatch, FiniteSetTheorems, TLAPS

USE ZenonT(10), SMTT(60)

Holding == {"held", "forward", "stream"}
Reading == {"scan", "enqueue", "parked"}

(* What a request's position says about its session: only a scan, and the  *)
(* wait that follows it, remember agents; a scan has agents left to read,  *)
(* and none it found eligible has failed the step; the agent chosen has    *)
(* not failed it either.                                                   *)
Path(r) ==
    /\ snap[r] \subseteq Obj /\ DOMAIN seen[r] \subseteq snap[r]
    /\ pc[r] \notin Reading => DOMAIN seen[r] = {}
    /\ pc[r] = "scan" =>
         /\ snap[r] \ DOMAIN seen[r] # {}
         /\ \A o \in DOMAIN seen[r] : seen[r][o] = "ok" => o[1] \notin failed[r]
    /\ pc[r] \in {"claim"} \cup Holding => obj[r] \in Obj /\ obj[r][1] \notin failed[r]

AgentsOK ==
    /\ made \in [Agent -> 1..MaxGen] /\ listed \subseteq Agent
    /\ load \in [Obj -> Nat] /\ \A o \in Obj : load[o] <= Capacity[o[1]]

PerRequest ==
    /\ DOMAIN pc = Req /\ DOMAIN failed = Req /\ DOMAIN obj = Req
    /\ DOMAIN seen = Req /\ DOMAIN snap = Req

(* The inductive invariant behind the slots and the retries.               *)
SlotInv == AgentsOK /\ PerRequest /\ SlotsExact /\ \A r \in Req : Path(r)

(***************************************************************************)
(* Slots                                                                   *)
(***************************************************************************)
Holds(r, o) == pc[r] \in Holding /\ obj[r] = o

(* A step that changes neither a load nor who holds what.                  *)
LEMMA SlotsKept ==
    ASSUME SlotsExact, load' = load,
           \A q \in Req, o \in Obj : Holds(q, o)' <=> Holds(q, o)
    PROVE  SlotsExact'
<1> SUFFICES ASSUME NEW o \in Obj PROVE load'[o] = Cardinality(Holders(o)')
    BY DEF SlotsExact
<1>1. Holders(o)' = Holders(o)
    BY DEF Holders, Holds, Holding
<1> QED
    BY <1>1 DEF SlotsExact

(* The holders are finitely many.                                          *)
LEMMA HoldersFinite ==
    ASSUME NEW o PROVE IsFiniteSet(Holders(o))
<1>1. Holders(o) \subseteq Req
    BY DEF Holders
<1> QED
    BY <1>1, SetsAssumption, FS_Subset

(* A request that held nothing takes a slot.                               *)
LEMMA SlotTaken ==
    ASSUME SlotsExact, load \in [Obj -> Nat], NEW r \in Req, obj[r] \in Obj,
           pc[r] \notin Holding, pc'[r] \in Holding, obj' = obj,
           load' = [load EXCEPT ![obj[r]] = @ + 1],
           \A q \in Req : q # r => pc'[q] = pc[q]
    PROVE  SlotsExact'
<1> SUFFICES ASSUME NEW o \in Obj PROVE load'[o] = Cardinality(Holders(o)')
    BY DEF SlotsExact
<1>1. load[o] = Cardinality(Holders(o))
    BY DEF SlotsExact
<1>2. CASE o = obj[r]
  <2>1. Holders(o)' = Holders(o) \cup {r} /\ r \notin Holders(o)
      BY <1>2 DEF Holders, Holding
  <2>2. Cardinality(Holders(o) \cup {r}) = Cardinality(Holders(o)) + 1
      BY <2>1, HoldersFinite, FS_AddElement
  <2>3. load'[o] = load[o] + 1
      BY <1>2
  <2> QED
      BY <1>1, <2>1, <2>2, <2>3
<1>3. CASE o # obj[r]
  <2>1. Holders(o)' = Holders(o)
      BY <1>3 DEF Holders, Holding
  <2>2. load'[o] = load[o]
      BY <1>3
  <2> QED
      BY <1>1, <2>1, <2>2
<1> QED
    BY <1>2, <1>3

(* A holder gives its slot back: there was one to give.                    *)
LEMMA SlotGiven ==
    ASSUME SlotsExact, load \in [Obj -> Nat], NEW r \in Req, obj[r] \in Obj,
           pc[r] \in Holding, pc'[r] \notin Holding, obj' = obj,
           load' = [load EXCEPT ![obj[r]] = @ - 1],
           \A q \in Req : q # r => pc'[q] = pc[q]
    PROVE  SlotsExact' /\ load' \in [Obj -> Nat] /\ \A o \in Obj : load'[o] <= load[o]
<1>1. r \in Holders(obj[r])
    BY DEF Holders, Holding
<1>2. /\ Cardinality(Holders(obj[r]) \ {r}) = Cardinality(Holders(obj[r])) - 1
      /\ Cardinality(Holders(obj[r]) \ {r}) \in Nat
    BY <1>1, HoldersFinite, FS_RemoveElement, FS_CardinalityType
<1>3. load[obj[r]] = Cardinality(Holders(obj[r]))
    BY DEF SlotsExact
<1>4. load[obj[r]] - 1 \in Nat
    BY <1>2, <1>3
<1>5. load' \in [Obj -> Nat] /\ \A o \in Obj : load'[o] <= load[o]
    BY SMTT(60), <1>4
<1>6. ASSUME NEW o \in Obj PROVE load'[o] = Cardinality(Holders(o)')
  <2>1. CASE o = obj[r]
    <3>1. Holders(o)' = Holders(o) \ {r}
        BY <2>1 DEF Holders, Holding
    <3>2. load'[o] = load[o] - 1
        BY <2>1
    <3> QED
        BY <2>1, <3>1, <3>2, <1>2, <1>3
  <2>2. CASE o # obj[r]
    <3>1. Holders(o)' = Holders(o)
        BY <2>2 DEF Holders, Holding
    <3>2. load'[o] = load[o]
        BY <2>2
    <3> QED
        BY <3>1, <3>2 DEF SlotsExact
  <2> QED
      BY <2>1, <2>2
<1>7. SlotsExact'
    BY <1>6 DEF SlotsExact
<1> QED
    BY <1>5, <1>7

(***************************************************************************)
(* Steps                                                                   *)
(***************************************************************************)
(* A step of r changes variable f, now g, for r alone.                     *)
Local(f, g, r) == g = f \/ \E v : g = [f EXCEPT ![r] = v]

LocalStep(r) == /\ Local(pc, pc', r) /\ Local(failed, failed', r) /\ Local(obj, obj', r)
                /\ Local(seen, seen', r) /\ Local(snap, snap', r)

(* A step of one request keeps the invariant if it keeps what that request *)
(* contributes to it.                                                      *)
LEMMA RequestStep ==
    ASSUME SlotInv, NEW r \in Req, LocalStep(r), AgentsOK', Path(r)', SlotsExact'
    PROVE  SlotInv'
<1>1. PerRequest'
    BY DEF SlotInv, PerRequest, LocalStep, Local
<1>2. ASSUME NEW q \in Req, q # r PROVE Path(q)'
  <2>1. /\ pc'[q] = pc[q] /\ failed'[q] = failed[q] /\ obj'[q] = obj[q]
        /\ seen'[q] = seen[q] /\ snap'[q] = snap[q]
      BY <1>2 DEF SlotInv, PerRequest, LocalStep, Local
  <2>2. Path(q)
      BY DEF SlotInv
  <2> QED
      BY <2>1, <2>2 DEF Path
<1> QED
    BY <1>1, <1>2 DEF SlotInv

(* The same for a step that takes and gives no slot.                       *)
LEMMA QuietStep ==
    ASSUME SlotInv, NEW r \in Req, LocalStep(r), UNCHANGED <<made, listed, load>>, Path(r)',
           \/ pc[r] \notin Holding /\ pc'[r] \notin Holding
           \/ pc[r] \in Holding /\ pc'[r] \in Holding /\ obj' = obj
    PROVE  SlotInv'
<1>1. AgentsOK'
    BY DEF SlotInv, AgentsOK
<1>2. ASSUME NEW q \in Req, NEW o \in Obj PROVE Holds(q, o)' <=> Holds(q, o)
  <2>1. q # r => pc'[q] = pc[q] /\ obj'[q] = obj[q]
      BY DEF SlotInv, PerRequest, LocalStep, Local
  <2> QED
      BY <2>1 DEF Holds
<1>3. SlotsExact'
    BY <1>2, SlotsKept DEF SlotInv
<1> QED
    BY <1>1, <1>3, RequestStep

(* The objects listed are objects.                                         *)
LEMMA ListedObj ==
    ASSUME AgentsOK PROVE Listed \subseteq Obj
    BY DEF AgentsOK, Listed, Current, Obj

(* A step to a position in which the session remembers no agent.           *)
LEMMA ToIdle ==
    ASSUME SlotInv, NEW r \in Req, LocalStep(r), UNCHANGED <<made, listed, load>>,
           pc[r] \notin Holding, pc'[r] \notin Holding \cup Reading \cup {"claim"},
           \/ seen' = seen /\ pc[r] \notin Reading
           \/ seen' = [seen EXCEPT ![r] = <<>>],
           \/ snap' = snap
           \/ snap' = [snap EXCEPT ![r] = {}]
           \/ snap' = [snap EXCEPT ![r] = Listed]
    PROVE  SlotInv'
<1>1. DOMAIN seen'[r] = {}
    BY SMTT(60) DEF SlotInv, PerRequest, Path
<1>2. snap'[r] \subseteq Obj
    BY ListedObj DEF SlotInv, PerRequest, Path
<1>3. Path(r)'
    BY <1>1, <1>2 DEF Path, Reading
<1> QED
    BY <1>3, QuietStep

(***************************************************************************)
(* Sequences and least elements                                            *)
(***************************************************************************)
(* A set of naturals has a least element.                                  *)
LEMMA Least ==
    ASSUME NEW T, T \subseteq Nat, T # {}
    PROVE  \E x \in T : \A y \in T : x <= y
<1>1. PICK x \in T : \A y \in T : ~(<<y, x>> \in OpToRel(<, Nat))
    BY NatLessThanWellFounded, WFMin
<1>2. ASSUME NEW y \in T PROVE x <= y
  <2>1. x \in Nat /\ y \in Nat
      OBVIOUS
  <2>2. ~(y < x)
      BY <1>1, <2>1 DEF OpToRel
  <2> QED
      BY SMTT(60), <2>1, <2>2
<1> QED
    BY <1>2

(* The scan's next agent: objects have a least peer.                       *)
LEMMA LeastPeer ==
    ASSUME NEW T, T \subseteq Obj, T # {}
    PROVE  (CHOOSE x \in T : \A y \in T : x[1] <= y[1]) \in T
<1>1. {x[1] : x \in T} \subseteq Nat /\ {x[1] : x \in T} # {}
    BY SetsAssumption DEF Obj
<1>2. PICK n \in {x[1] : x \in T} : \A m \in {x[1] : x \in T} : n <= m
    BY <1>1, Least
<1>3. \E x \in T : \A y \in T : x[1] <= y[1]
    BY <1>2
<1> QED
    BY <1>3

(* What InsertAt makes of a sequence.                                      *)
LEMMA InsertAtProperties ==
    ASSUME NEW S, NEW s \in Seq(S), NEW e \in S, NEW i \in 1..(Len(s) + 1)
    PROVE  /\ InsertAt(s, i, e) \in Seq(S)
           /\ Len(InsertAt(s, i, e)) = Len(s) + 1
           /\ \A j \in 1..(Len(s) + 1) : InsertAt(s, i, e)[j] =
                IF j < i THEN s[j] ELSE IF j = i THEN e ELSE s[j - 1]
<1> DEFINE a == SubSeq(s, 1, i - 1)
           b == SubSeq(s, i, Len(s))
           ae == a \o <<e>>
<1>0. Len(s) \in Nat /\ i \in Nat
    BY SMTT(60)
<1>1. a \in Seq(S) /\ Len(a) = i - 1 /\ \A j \in 1..(i - 1) : a[j] = s[j]
    BY SMTT(60)
<1>2. b \in Seq(S) /\ Len(b) = Len(s) - i + 1 /\ \A j \in 1..(Len(s) - i + 1) : b[j] = s[i + j - 1]
    BY SMTT(60)
<1>3. <<e>> \in Seq(S) /\ Len(<<e>>) = 1 /\ <<e>>[1] = e
    BY SMTT(60)
<1> HIDE DEF a, b
<1>4. ae \in Seq(S) /\ Len(ae) = i /\ \A j \in 1..i : ae[j] = IF j < i THEN s[j] ELSE e
    BY SMTT(60), <1>1, <1>3
<1> HIDE DEF ae
<1>5. InsertAt(s, i, e) = ae \o b
    BY DEF InsertAt, ae, a, b
<1>6. (ae \o b) \in Seq(S) /\ Len(ae \o b) = Len(s) + 1
  <2>1. ae \in Seq(S) /\ b \in Seq(S)
      BY <1>4, <1>2
  <2>2. (ae \o b) \in Seq(S) /\ Len(ae \o b) = Len(ae) + Len(b)
      BY SMTT(60), <2>1
  <2>3. i + (Len(s) - i + 1) = Len(s) + 1
      BY SMTT(60), <1>0
  <2> QED
      BY <1>4, <1>2, <2>2, <2>3
<1>7. ASSUME NEW j \in 1..(Len(s) + 1)
      PROVE  (ae \o b)[j] = IF j < i THEN s[j] ELSE IF j = i THEN e ELSE s[j - 1]
  <2>1. (ae \o b)[j] = IF j <= Len(ae) THEN ae[j] ELSE b[j - Len(ae)]
      BY SMTT(60), <1>4, <1>2
  <2>2. CASE j <= i
      BY SMTT(60), <2>1, <2>2, <1>4
  <2>3. CASE j > i
    <3>1. j - i \in 1..(Len(s) - i + 1)
        BY SMTT(60), <2>3
    <3>2. b[j - i] = s[i + (j - i) - 1]
        BY <1>2, <3>1
    <3>3. i + (j - i) - 1 = j - 1
        BY SMTT(60)
    <3> QED
        BY SMTT(60), <2>1, <2>3, <3>2, <3>3, <1>4
  <2>4. j <= i \/ j > i
      BY SMTT(60), <1>0
  <2> QED
      BY <2>2, <2>3, <2>4
<1> QED
    BY <1>5, <1>6, <1>7

(* What RemoveAt makes of a sequence.                                      *)
LEMMA RemoveAtProperties ==
    ASSUME NEW S, NEW s \in Seq(S), NEW i \in 1..Len(s)
    PROVE  /\ RemoveAt(s, i) \in Seq(S)
           /\ Len(RemoveAt(s, i)) = Len(s) - 1
           /\ \A j \in 1..(Len(s) - 1) : RemoveAt(s, i)[j] =
                IF j < i THEN s[j] ELSE s[j + 1]
<1> DEFINE a == SubSeq(s, 1, i - 1)
           b == SubSeq(s, i + 1, Len(s))
<1>0. Len(s) \in Nat /\ i \in Nat
    BY SMTT(60)
<1>1. a \in Seq(S) /\ Len(a) = i - 1 /\ \A j \in 1..(i - 1) : a[j] = s[j]
    BY SMTT(60)
<1>2. b \in Seq(S) /\ Len(b) = Len(s) - i /\ \A j \in 1..(Len(s) - i) : b[j] = s[i + j]
    BY SMTT(60)
<1>3. RemoveAt(s, i) = a \o b
    BY DEF RemoveAt
<1> HIDE DEF a, b
<1>4. (a \o b) \in Seq(S) /\ Len(a \o b) = Len(s) - 1
  <2>1. a \in Seq(S) /\ b \in Seq(S)
      BY <1>1, <1>2
  <2>2. (a \o b) \in Seq(S) /\ Len(a \o b) = Len(a) + Len(b)
      BY SMTT(60), <2>1
  <2>3. (i - 1) + (Len(s) - i) = Len(s) - 1
      BY SMTT(60), <1>0
  <2> QED
      BY <1>1, <1>2, <2>2, <2>3
<1>5. ASSUME NEW j \in 1..(Len(s) - 1)
      PROVE  (a \o b)[j] = IF j < i THEN s[j] ELSE s[j + 1]
  <2>1. (a \o b)[j] = IF j <= Len(a) THEN a[j] ELSE b[j - Len(a)]
      BY SMTT(60), <1>1, <1>2
  <2>2. CASE j < i
      BY SMTT(60), <2>1, <2>2, <1>1
  <2>3. CASE j >= i
    <3>1. j - (i - 1) \in 1..(Len(s) - i)
        BY SMTT(60), <2>3
    <3>2. b[j - (i - 1)] = s[i + (j - (i - 1))]
        BY <1>2, <3>1
    <3>3. i + (j - (i - 1)) = j + 1
        BY SMTT(60)
    <3> QED
        BY SMTT(60), <2>1, <2>3, <3>2, <3>3, <1>1
  <2>4. j < i \/ j >= i
      BY SMTT(60), <1>0
  <2> QED
      BY <2>2, <2>3, <2>4
<1> QED
    BY <1>3, <1>4, <1>5

(***************************************************************************)
(* The actions keep SlotInv                                                *)
(***************************************************************************)
LEMMA InitSlots == Init => SlotInv
<1> SUFFICES ASSUME Init PROVE SlotInv
    OBVIOUS
<1>1. AgentsOK
  <2>1. ASSUME NEW o \in Obj PROVE Capacity[o[1]] \in Nat /\ load[o] = 0
      BY BoundsAssumption DEF Obj, Init
  <2>2. 1 \in 1..MaxGen
      BY SMTT(60), BoundsAssumption
  <2> QED
      BY SMTT(60), <2>1, <2>2 DEF Init, AgentsOK
<1>2. PerRequest
    BY DEF Init, PerRequest
<1>3. \A r \in Req : pc[r] \notin Holding \cup Reading \cup {"claim"}
    BY DEF Init, Holding, Reading
<1>4. ASSUME NEW r \in Req PROVE Path(r)
    BY SMTT(60), <1>3 DEF Init, Path, Reading
<1>5. \A o \in Obj : Holders(o) = {}
    BY <1>3 DEF Holders, Holding
<1>6. SlotsExact
    BY <1>5, FS_EmptySet DEF SlotsExact, Init
<1> QED
    BY <1>1, <1>2, <1>4, <1>6 DEF SlotInv

Idle == {"chan", "sem", "check", "list", "pass", "signal", "provider", "ok", "err"}

LEMMA IdleLabels == \A l \in Idle : l \notin Holding \cup Reading \cup {"claim"}
    BY DEF Idle, Holding, Reading

(* A step between positions at which nothing is remembered.                *)
LEMMA IdleStep ==
    ASSUME SlotInv, NEW r \in Req, NEW l \in Idle, pc[r] \in Idle,
           pc' = [pc EXCEPT ![r] = l],
           Local(failed, failed', r), Local(obj, obj', r),
           UNCHANGED <<seen, snap, made, listed, load>>
    PROVE  SlotInv'
<1>1. LocalStep(r)
    BY DEF LocalStep, Local
<1>2. pc'[r] = l
    BY DEF SlotInv, PerRequest
<1> QED
    BY <1>1, <1>2, IdleLabels, ToIdle

(* What GotoOrEnd and advanceStep change.                                  *)
LEMMA Ends ==
    ASSUME NEW r \in Req, NEW l, GotoOrEnd(r, l)
    PROVE  pc' = [pc EXCEPT ![r] = l] /\ Local(failed, failed', r)
    BY DEF GotoOrEnd, Goto, Local

LEMMA Advances ==
    ASSUME NEW r \in Req, advanceStep(r) \/ sameStep
    PROVE  Local(failed, failed', r)
    BY DEF advanceStep, sameStep, Local

LEMMA StartSlots ==
    ASSUME SlotInv, NEW r \in Req, Start(r) PROVE SlotInv'
<1>1. \E l \in {"err", "sem"} : GotoOrEnd(r, l)
    BY DEF Start
<1>2. pc[r] \in Idle /\ {"err", "sem"} \subseteq Idle
    BY DEF Start, Idle
<1>3. UNCHANGED <<seen, snap, made, listed, load, obj>>
    BY DEF Start, agentVars
<1> QED
    BY <1>1, <1>2, <1>3, Ends, IdleStep DEF Local

LEMMA AcquireSemSlots ==
    ASSUME SlotInv, NEW r \in Req, AcquireSem(r) PROVE SlotInv'
<1>1. pc[r] \in Idle /\ "check" \in Idle /\ pc' = [pc EXCEPT ![r] = "check"]
    BY DEF AcquireSem, Goto, Idle
<1>2. UNCHANGED <<seen, snap, made, listed, load, obj, failed>>
    BY DEF AcquireSem, agentVars, sessVars
<1> QED
    BY <1>1, <1>2, IdleStep DEF Local

LEMMA CheckDeadlineSlots ==
    ASSUME SlotInv, NEW r \in Req, CheckDeadline(r) PROVE SlotInv'
<1>1. \E l \in {"err", "list"} : GotoOrEnd(r, l)
    BY DEF CheckDeadline
<1>2. pc[r] \in Idle /\ {"err", "list"} \subseteq Idle
    BY DEF CheckDeadline, Idle
<1>3. UNCHANGED <<seen, snap, made, listed, load, obj>>
    BY DEF CheckDeadline, agentVars
<1> QED
    BY <1>1, <1>2, <1>3, Ends, IdleStep DEF Local

LEMMA ExhaustedSlots ==
    ASSUME SlotInv, NEW r \in Req, Exhausted(r) PROVE SlotInv'
<1>1. \E l \in {"err", "provider"} : GotoOrEnd(r, l)
    BY DEF Exhausted
<1>2. pc[r] \in Idle /\ {"err", "provider"} \subseteq Idle
    BY DEF Exhausted, Idle
<1>3. UNCHANGED <<seen, snap, made, listed, load, obj>>
    BY DEF Exhausted, agentVars
<1> QED
    BY <1>1, <1>2, <1>3, Ends, IdleStep DEF Local

LEMMA ProviderEndsSlots ==
    ASSUME SlotInv, NEW r \in Req, ProviderEnds(r) PROVE SlotInv'
<1>1. \E l \in {"ok", "err"} : GotoOrEnd(r, l)
    BY DEF ProviderEnds
<1>2. pc[r] \in Idle /\ {"ok", "err"} \subseteq Idle
    BY DEF ProviderEnds, Idle
<1>3. UNCHANGED <<seen, snap, made, listed, load, obj>>
    BY DEF ProviderEnds, agentVars
<1> QED
    BY <1>1, <1>2, <1>3, Ends, IdleStep DEF Local

LEMMA PassOnSlots ==
    ASSUME SlotInv, NEW r \in Req, PassOn(r) PROVE SlotInv'
<1>1. pc[r] \in Idle /\ "list" \in Idle /\ pc' = [pc EXCEPT ![r] = "list"]
    BY DEF PassOn, Goto, Idle
<1>2. UNCHANGED <<seen, snap, made, listed, load, obj>>
    BY DEF PassOn, agentVars
<1>3. Local(failed, failed', r)
    BY Advances DEF PassOn
<1> QED
    BY <1>1, <1>2, <1>3, IdleStep DEF Local

LEMMA SlotSignalSlots ==
    ASSUME SlotInv, NEW r \in Req, SlotSignal(r) PROVE SlotInv'
<1>1. pc[r] \in Idle /\ {"ok", "err", "check"} \subseteq Idle
    BY DEF SlotSignal, Idle
<1>2. UNCHANGED <<seen, snap, made, listed, load>> /\ Local(obj, obj', r)
    BY DEF SlotSignal, agentVars, Local
<1>3. \E l \in {"ok", "err", "check"} : pc' = [pc EXCEPT ![r] = l] /\ Local(failed, failed', r)
  <2>1. CASE cont[r] = "charge"
    <3>1. RecordFailure(r) /\ pc' = [pc EXCEPT ![r] = "check"]
        BY <2>1 DEF SlotSignal, Goto
    <3>2. Local(failed, failed', r)
        BY <3>1, Advances DEF RecordFailure, Local
    <3> QED
        BY <3>1, <3>2
  <2>2. CASE cont[r] # "charge"
    <3>1. \E l \in {"ok", "err", "check"} : GotoOrEnd(r, l)
        BY <2>2 DEF SlotSignal
    <3> QED
        BY <3>1, Ends
  <2> QED
      BY <2>1, <2>2
<1> QED
    BY <1>1, <1>2, <1>3, IdleStep

(***************************************************************************)
(* Selecting                                                               *)
(***************************************************************************)
LEMMA ListByModelSlots ==
    ASSUME SlotInv, NEW r \in Req, ListByModel(r) PROVE SlotInv'
<1>1. pc[r] = "list" /\ pc[r] \notin Holding \cup Reading
    BY DEF ListByModel, Holding, Reading
<1>2. UNCHANGED <<seen, made, listed, load, obj>> /\ snap' = [snap EXCEPT ![r] = Listed]
    BY DEF ListByModel, agentVars
<1>3. Local(failed, failed', r)
    BY Advances DEF ListByModel
<1>4. CASE pc' = pc
  <2>1. LocalStep(r) /\ pc'[r] \notin Holding \cup Reading \cup {"claim"}
      BY <1>1, <1>2, <1>3, <1>4 DEF LocalStep, Local
  <2> QED
      BY <1>1, <1>2, <2>1, ToIdle
<1>5. CASE Listed # {} /\ pc' = [pc EXCEPT ![r] = "scan"] /\ failed' = failed
  <2>1. LocalStep(r)
      BY <1>2, <1>3, <1>5 DEF LocalStep, Local
  <2>2. pc'[r] = "scan" /\ snap'[r] = Listed /\ DOMAIN seen'[r] = {}
      BY <1>1, <1>2, <1>5 DEF SlotInv, PerRequest, Path
  <2>3. pc'[r] \in Reading \ (Holding \cup {"claim"})
      BY <2>2 DEF Reading, Holding
  <2>4. Path(r)'
      BY <1>5, <2>2, <2>3, ListedObj DEF Path, SlotInv
  <2> QED
      BY <1>1, <1>2, <2>1, <2>3, <2>4, QuietStep
<1> QED
    BY <1>4, <1>5 DEF ListByModel, Goto, sameStep

(* An agent that failed the step is never eligible.                        *)
LEMMA ClassMeans ==
    ASSUME NEW r, NEW o PROVE Class(r, o) = "ok" => o[1] \notin failed[r]
    BY DEF Class

LEMMA ScanSlots ==
    ASSUME SlotInv, NEW r \in Req, Scan(r) PROVE SlotInv'
<1> DEFINE left == snap[r] \ DOMAIN seen[r]
           o == CHOOSE x \in left : \A y \in left : x[1] <= y[1]
           found == [x \in DOMAIN seen[r] \cup {o} |-> IF x = o THEN Class(r, o) ELSE seen[r][x]]
           good == {x \in DOMAIN found : found[x] = "ok"}
<1> HIDE DEF o
<1>1. pc[r] = "scan" /\ pc[r] \notin Holding
    BY DEF Scan, Holding
<1>2. Path(r) /\ left # {} /\ left \subseteq Obj
    BY <1>1 DEF SlotInv, Path
<1>3. o \in left
    BY <1>2, LeastPeer DEF o
<1>4. UNCHANGED <<made, listed, load>>
    BY DEF Scan, agentVars
<1>5. /\ DOMAIN found \subseteq snap[r]
      /\ \A x \in good : x \in Obj /\ x[1] \notin failed[r]
    BY <1>1, <1>2, <1>3, ClassMeans DEF Path
<1>6. CASE /\ left # {o} /\ seen' = [seen EXCEPT ![r] = found]
           /\ UNCHANGED <<pc, failed, obj, snap>>
  <2>1. LocalStep(r)
      BY <1>6 DEF LocalStep, Local
  <2>2. seen'[r] = found
      BY <1>6 DEF SlotInv, PerRequest
  <2>3. snap[r] \ DOMAIN found # {}
      BY <1>3, <1>6
  <2>4. Path(r)'
      BY <1>1, <1>2, <1>5, <1>6, <2>2, <2>3 DEF Path, Holding, Reading
  <2> QED
      BY <1>1, <1>4, <1>6, <2>1, <2>4, QuietStep
<1>7. CASE /\ good # {} /\ \E x \in good : obj' = [obj EXCEPT ![r] = x]
           /\ pc' = [pc EXCEPT ![r] = "claim"] /\ failed' = failed
           /\ snap' = [snap EXCEPT ![r] = {}] /\ seen' = [seen EXCEPT ![r] = <<>>]
  <2>1. LocalStep(r)
      BY <1>7 DEF LocalStep, Local
  <2>2. pc'[r] = "claim" /\ snap'[r] = {} /\ DOMAIN seen'[r] = {} /\ obj'[r] \in good
      BY SMTT(60), <1>7 DEF SlotInv, PerRequest
  <2>3. pc'[r] \notin Holding
      BY <2>2 DEF Holding
  <2>4. obj'[r] \in Obj /\ obj'[r][1] \notin failed'[r]
      BY <1>5, <1>7, <2>2
  <2>5. Path(r)'
      BY <2>2, <2>3, <2>4 DEF Path
  <2> QED
      BY <1>1, <1>4, <2>1, <2>3, <2>5, QuietStep
<1>8. CASE /\ seen' = [seen EXCEPT ![r] = found] /\ pc' = [pc EXCEPT ![r] = "enqueue"]
           /\ UNCHANGED <<failed, obj, snap>>
  <2>1. LocalStep(r)
      BY <1>8 DEF LocalStep, Local
  <2>2. pc'[r] = "enqueue" /\ seen'[r] = found /\ snap'[r] = snap[r]
      BY <1>8 DEF SlotInv, PerRequest
  <2>3. pc'[r] \notin Holding \cup {"claim"} /\ pc'[r] \in Reading
      BY <2>2 DEF Holding, Reading
  <2>4. Path(r)'
      BY <1>2, <1>5, <2>2, <2>3 DEF Path
  <2> QED
      BY <1>1, <1>4, <2>1, <2>3, <2>4, QuietStep
<1>9. CASE /\ pc' = [pc EXCEPT ![r] = "list"] /\ advanceStep(r) /\ Forget(r) /\ obj' = obj
  <2>1. LocalStep(r)
      BY <1>9, Advances DEF LocalStep, Local, Forget
  <2>2. pc'[r] \notin Holding \cup Reading \cup {"claim"}
      BY <1>9 DEF SlotInv, PerRequest, Holding, Reading
  <2> QED
      BY <1>1, <1>4, <1>9, <2>1, <2>2, ToIdle DEF Forget
<1> QED
    BY <1>6, <1>7, <1>8, <1>9 DEF Scan, Goto, Forget, sameStep, o

LEMMA ClaimSlots ==
    ASSUME SlotInv, NEW r \in Req, Claim(r) PROVE SlotInv'
<1>1. pc[r] = "claim" /\ pc[r] \notin Holding \cup Reading
    BY DEF Claim, Holding, Reading
<1>2. Path(r) /\ obj[r] \in Obj /\ obj[r][1] \notin failed[r] /\ DOMAIN seen[r] = {}
    BY <1>1 DEF SlotInv, Path
<1>3. UNCHANGED <<made, listed, failed, seen, snap>>
    BY DEF Claim
<1>4. CASE /\ load[obj[r]] < Capacity[obj[r][1]] /\ load' = [load EXCEPT ![obj[r]] = @ + 1]
           /\ pc' = [pc EXCEPT ![r] = "held"] /\ obj' = obj
  <2>1. LocalStep(r)
      BY <1>3, <1>4 DEF LocalStep, Local
  <2>2. pc'[r] = "held" /\ \A q \in Req : q # r => pc'[q] = pc[q]
      BY <1>4 DEF SlotInv, PerRequest
  <2>3. pc'[r] \in Holding
      BY <2>2 DEF Holding
  <2>4. SlotsExact'
      BY <1>1, <1>2, <1>4, <2>2, <2>3, SlotTaken DEF SlotInv, AgentsOK
  <2>5. Capacity[obj[r][1]] \in Nat /\ load[obj[r]] \in Nat
      BY <1>2, BoundsAssumption DEF Obj, SlotInv, AgentsOK
  <2>6. load' \in [Obj -> Nat] /\ \A o \in Obj : load'[o] <= Capacity[o[1]]
      BY SMTT(60), <1>2, <1>4, <2>5 DEF SlotInv, AgentsOK
  <2>7. AgentsOK'
      BY <1>3, <2>6 DEF SlotInv, AgentsOK
  <2>8. Path(r)'
      BY <1>2, <1>3, <1>4, <2>2 DEF Path
  <2> QED
      BY <2>1, <2>4, <2>7, <2>8, RequestStep
<1>5. CASE /\ obj' = [obj EXCEPT ![r] = NoObj] /\ pc' = [pc EXCEPT ![r] = "list"]
           /\ load' = load
  <2>1. LocalStep(r)
      BY <1>3, <1>5 DEF LocalStep, Local
  <2>2. pc'[r] \notin Holding \cup Reading \cup {"claim"}
      BY <1>5 DEF SlotInv, PerRequest, Holding, Reading
  <2> QED
      BY <1>1, <1>3, <1>5, <2>1, <2>2, ToIdle
<1> QED
    BY <1>4, <1>5 DEF Claim, Goto

LEMMA WaitInLineSlots ==
    ASSUME SlotInv, NEW r \in Req, WaitInLine(r) PROVE SlotInv'
<1>1. pc[r] \notin Holding /\ pc[r] \in Reading /\ pc[r] # "scan" /\ pc[r] # "claim"
    BY DEF WaitInLine, Holding, Reading
<1>2. UNCHANGED <<made, listed, load, obj>>
    BY DEF WaitInLine, agentVars
<1>3. CASE pc' = [pc EXCEPT ![r] = "list"] /\ advanceStep(r) /\ Forget(r)
  <2>1. LocalStep(r)
      BY <1>2, <1>3, Advances DEF LocalStep, Local, Forget
  <2>2. pc'[r] \notin Holding \cup Reading \cup {"claim"}
      BY <1>3 DEF SlotInv, PerRequest, Holding, Reading
  <2> QED
      BY <1>1, <1>2, <1>3, <2>1, <2>2, ToIdle DEF Forget
<1>4. CASE pc' = [pc EXCEPT ![r] = "parked"] /\ UNCHANGED <<failed, seen, snap>>
  <2>1. LocalStep(r)
      BY <1>2, <1>4 DEF LocalStep, Local
  <2>2. pc'[r] = "parked"
      BY <1>4 DEF SlotInv, PerRequest
  <2>3. pc'[r] \notin Holding \cup {"claim"} /\ pc'[r] \in Reading
      BY <2>2 DEF Holding, Reading
  <2>4. Path(r)'
      BY <1>4, <2>2, <2>3 DEF Path, SlotInv
  <2> QED
      BY <1>1, <1>2, <2>1, <2>3, <2>4, QuietStep
<1> QED
    BY <1>3, <1>4 DEF WaitInLine, Goto

LEMMA LeaveLine ==
    ASSUME SlotInv, NEW r \in Req, Woken(r) \/ CtxDone(r) PROVE SlotInv'
<1>1. pc[r] = "parked" /\ pc[r] \notin Holding
    BY DEF Woken, CtxDone, Holding
<1>2. UNCHANGED <<made, listed, load, obj>> /\ Forget(r)
    BY DEF Woken, CtxDone, agentVars
<1>3. Local(failed, failed', r)
    BY Advances DEF Woken, CtxDone
<1>4. \E l \in {"list", "pass"} : pc' = [pc EXCEPT ![r] = l]
    BY DEF Woken, CtxDone, Goto
<1>5. pc'[r] \notin Holding \cup Reading \cup {"claim"}
    BY <1>4 DEF SlotInv, PerRequest, Holding, Reading
<1>6. LocalStep(r)
    BY <1>2, <1>3, <1>4 DEF LocalStep, Local, Forget
<1> QED
    BY <1>1, <1>2, <1>5, <1>6, ToIdle DEF Forget

(***************************************************************************)
(* Forwarding                                                              *)
(***************************************************************************)
(* A holder releases its slot and goes on to signal.                       *)
LEMMA Released ==
    ASSUME SlotInv, NEW r \in Req, pc[r] \in Holding, DecrementLoad(r), Goto(r, "signal"),
           UNCHANGED <<failed, obj, seen, snap>>
    PROVE  SlotInv'
<1>1. Path(r) /\ obj[r] \in Obj
    BY DEF SlotInv, Path
<1>2. /\ pc' = [pc EXCEPT ![r] = "signal"] /\ UNCHANGED <<made, listed>>
      /\ load' = [load EXCEPT ![obj[r]] = @ - 1]
    BY DEF DecrementLoad, Goto
<1>3. pc'[r] = "signal" /\ \A q \in Req : q # r => pc'[q] = pc[q]
    BY <1>2 DEF SlotInv, PerRequest
<1>4. pc'[r] \notin Holding \cup Reading \cup {"claim"} /\ pc[r] \notin Reading
    BY <1>3 DEF Holding, Reading
<1>5. SlotsExact' /\ load' \in [Obj -> Nat] /\ \A o \in Obj : load'[o] <= load[o]
    BY <1>1, <1>2, <1>3, <1>4, SlotGiven DEF SlotInv, AgentsOK
<1>6. ASSUME NEW o \in Obj PROVE load'[o] <= Capacity[o[1]]
  <2>1. load[o] <= Capacity[o[1]] /\ load[o] \in Nat /\ load'[o] \in Nat
      BY <1>5 DEF SlotInv, AgentsOK
  <2>2. Capacity[o[1]] \in Nat
      BY BoundsAssumption DEF Obj
  <2> QED
      BY SMTT(60), <1>5, <2>1, <2>2
<1>7. AgentsOK'
    BY <1>2, <1>5, <1>6 DEF SlotInv, AgentsOK
<1>8. LocalStep(r)
    BY <1>2 DEF LocalStep, Local
<1>9. Path(r)'
    BY <1>1, <1>3, <1>4 DEF Path
<1> QED
    BY <1>5, <1>7, <1>8, <1>9, RequestStep

(* A holder keeps its slot.                                                *)
LEMMA HoldsOn ==
    ASSUME SlotInv, NEW r \in Req, pc[r] \in Holding, NEW l \in Holding, Goto(r, l),
           UNCHANGED <<failed, obj, seen, snap, made, listed, load>>
    PROVE  SlotInv'
<1>1. pc'[r] = l /\ pc' = [pc EXCEPT ![r] = l]
    BY DEF SlotInv, PerRequest, Goto
<1>2. LocalStep(r)
    BY <1>1 DEF LocalStep, Local
<1>3. pc[r] \notin Reading /\ pc'[r] # "scan"
    BY <1>1 DEF Holding, Reading
<1>4. Path(r)'
    BY <1>1, <1>3 DEF SlotInv, Path
<1> QED
    BY <1>1, <1>2, <1>4, QuietStep

LEMMA HeldSlots ==
    ASSUME SlotInv, NEW r \in Req, Held(r) PROVE SlotInv'
<1>1. pc[r] \in Holding /\ "forward" \in Holding
    BY DEF Held, Holding
<1>2. UNCHANGED <<failed, obj, seen, snap>>
    BY DEF Held
<1>3. CASE DecrementLoad(r) /\ Goto(r, "signal")
    BY <1>1, <1>2, <1>3, Released
<1>4. CASE Goto(r, "forward") /\ UNCHANGED agentVars
    BY <1>1, <1>2, <1>4, HoldsOn DEF agentVars
<1> QED
    BY <1>3, <1>4 DEF Held

LEMMA StreamStartsSlots ==
    ASSUME SlotInv, NEW r \in Req, StreamStarts(r) PROVE SlotInv'
<1>1. pc[r] \in Holding /\ "stream" \in Holding /\ Goto(r, "stream")
    BY DEF StreamStarts, Holding
<1>2. UNCHANGED <<failed, obj, seen, snap, made, listed, load>>
    BY DEF StreamStarts, sessVars, agentVars
<1> QED
    BY <1>1, <1>2, HoldsOn

LEMMA EndOfForward ==
    ASSUME SlotInv, NEW r \in Req, DrainEnds(r) \/ ForwardEnds(r) PROVE SlotInv'
<1>1. pc[r] \in Holding /\ DecrementLoad(r) /\ Goto(r, "signal")
    BY DEF DrainEnds, ForwardEnds, Holding
<1>2. UNCHANGED <<failed, obj, seen, snap>>
    BY DEF DrainEnds, ForwardEnds
<1> QED
    BY <1>1, <1>2, Released

(***************************************************************************)
(* Agents                                                                  *)
(***************************************************************************)
LEMMA AgentsStep ==
    ASSUME SlotInv, UNCHANGED <<pc, failed, obj, seen, snap, load>>,
           made' \in [Agent -> 1..MaxGen], listed' \subseteq Agent
    PROVE  SlotInv'
<1>1. AgentsOK' /\ PerRequest'
    BY DEF SlotInv, AgentsOK, PerRequest
<1>2. SlotsExact'
    BY SlotsKept DEF SlotInv, Holds
<1>3. ASSUME NEW r \in Req PROVE Path(r)'
    BY DEF SlotInv, Path
<1> QED
    BY <1>1, <1>2, <1>3 DEF SlotInv

LEMMA NobodyMoves ==
    ASSUME SlotInv, UNCHANGED <<pc, failed, obj, seen, snap, made, listed, load>>
    PROVE  SlotInv'
    BY AgentsStep DEF SlotInv, AgentsOK

LEMMA AgentChangeSlots ==
    ASSUME SlotInv, NEW a \in Agent, AgentChange(a) PROVE SlotInv'
<1>1. CASE AgentDown(a) \/ AgentUp(a) \/ GateFlips(a)
  <2>1. UNCHANGED <<pc, failed, obj, seen, snap, made, listed, load>>
      BY <1>1 DEF AgentDown, AgentUp, GateFlips, sessVars
  <2> QED
      BY <2>1, NobodyMoves
<1>2. CASE Register(a)
  <2>1. UNCHANGED <<pc, failed, obj, seen, snap, load>>
      BY <1>2 DEF Register
  <2>2. made[a] \in 1..MaxGen /\ made[a] + 1 <= MaxGen
      BY SMTT(60), <1>2, BoundsAssumption DEF Register, SlotInv, AgentsOK
  <2>3. made[a] + 1 \in 1..MaxGen
      BY SMTT(60), <2>2, BoundsAssumption
  <2>4. made' \in [Agent -> 1..MaxGen] /\ listed' \subseteq Agent
      BY <1>2, <2>3 DEF Register, SlotInv, AgentsOK
  <2> QED
      BY <2>1, <2>4, AgentsStep
<1>3. CASE Unregister(a)
  <2>1. UNCHANGED <<pc, failed, obj, seen, snap, load, made>>
      BY <1>3 DEF Unregister, sessVars
  <2>2. made' \in [Agent -> 1..MaxGen] /\ listed' \subseteq Agent
      BY <1>3, <2>1 DEF Unregister, SlotInv, AgentsOK
  <2> QED
      BY <2>1, <2>2, AgentsStep
<1> QED
    BY <1>1, <1>2, <1>3 DEF AgentChange

LEMMA NextSlots == SlotInv /\ [Next]_vars => SlotInv'
<1> SUFFICES ASSUME SlotInv, [Next]_vars PROVE SlotInv'
    OBVIOUS
<1>1. ASSUME NEW r \in Req, Goroutine(r) PROVE SlotInv'
    BY <1>1, StartSlots, AcquireSemSlots, CheckDeadlineSlots, ExhaustedSlots, ListByModelSlots,
       ScanSlots, ClaimSlots, WaitInLineSlots, LeaveLine, PassOnSlots, HeldSlots,
       StreamStartsSlots, EndOfForward, SlotSignalSlots, ProviderEndsSlots DEF Goroutine
<1>2. ASSUME NEW r \in Req, DeadlinePasses(r) \/ ClientLeaves(r) PROVE SlotInv'
    BY <1>2, NobodyMoves DEF DeadlinePasses, ClientLeaves, agentVars, sessVars
<1>3. ASSUME NEW a \in Agent, AgentChange(a) PROVE SlotInv'
    BY <1>3, AgentChangeSlots
<1>4. CASE BroadcastCapacity
    BY <1>4, NobodyMoves DEF BroadcastCapacity, sessVars
<1>5. CASE AllDone \/ UNCHANGED vars
    BY <1>5, NobodyMoves DEF AllDone, vars, agentVars, sessVars
<1> QED
    BY <1>1, <1>2, <1>3, <1>4, <1>5 DEF Next

LEMMA SlotInvHolds == Spec => []SlotInv
    BY InitSlots, NextSlots, PTL DEF Spec

(* Slots are counted exactly, whatever the numbers of requests, agents and *)
(* steps: ActiveRequests of an object is the number of requests that hold  *)
(* one of its slots (TryAcquireSlot, DecrementLoad), through lost races,   *)
(* retries, streams, expired deadlines and re-registrations.               *)
THEOREM SlotsCounted == Spec => []SlotsExact
<1>1. SlotInv => SlotsExact
    BY DEF SlotInv
<1> QED
    BY <1>1, SlotInvHolds, PTL

(* An object never serves more requests at once than the capacity it was   *)
(* registered with.                                                        *)
ObjectCapacity == \A o \in Obj : Cardinality(Holders(o)) <= Capacity[o[1]]

(* No interleaving of claims overbooks a registration: checking the load   *)
(* and taking the slot are one step (TryAcquireSlot), while scanning and   *)
(* claiming are not.                                                       *)
THEOREM NeverOverbooked == Spec => []ObjectCapacity
<1>1. SlotInv => ObjectCapacity
    BY DEF SlotInv, SlotsExact, AgentsOK, ObjectCapacity
<1> QED
    BY <1>1, SlotInvHolds, PTL

(* Within a step of the policy a request never goes back to an agent that  *)
(* it charged with a failure, even one that registers again in between.    *)
THEOREM FailedStaysOut == Spec => []NotAgain
<1>1. SlotInv => NotAgain
    BY DEF SlotInv, Path, NotAgain, Holding
<1> QED
    BY <1>1, SlotInvHolds, PTL

(***************************************************************************)
(* The order of the wait queue                                             *)
(***************************************************************************)
Waiter == [who : Req, ticket : Nat \ {0}]

(* Where InsertByTicket puts a waiter: behind the tickets up to its own,   *)
(* before the first later one.                                             *)
LEMMA InsertPlace ==
    ASSUME NEW ws \in Seq(Waiter), NEW w \in Waiter
    PROVE  \E i \in 1..(Len(ws) + 1) :
             /\ InsertByTicket(ws, w) = InsertAt(ws, i, w)
             /\ \A j \in 1..(i - 1) : ws[j].ticket <= w.ticket
             /\ i <= Len(ws) => ws[i].ticket > w.ticket
<1> DEFINE ends == {j \in DOMAIN ws : ws[j].ticket > w.ticket} \cup {Len(ws) + 1}
           i == CHOOSE x \in ends : \A y \in ends : x <= y
<1>1. Len(ws) \in Nat /\ DOMAIN ws = 1..Len(ws)
    BY SMTT(60)
<1>2. ends \subseteq Nat /\ ends # {} /\ ends \subseteq 1..(Len(ws) + 1)
    BY SMTT(60), <1>1
<1>3. \E x \in ends : \A y \in ends : x <= y
    BY <1>2, Least
<1>4. i \in ends /\ \A y \in ends : i <= y
    BY <1>3
<1>5. InsertByTicket(ws, w) = InsertAt(ws, i, w)
    BY DEF InsertByTicket
<1> HIDE DEF i
<1>6. ASSUME NEW j \in 1..(i - 1) PROVE ws[j].ticket <= w.ticket
  <2>1. j \in 1..Len(ws) /\ j < i
      BY SMTT(60), <1>1, <1>2, <1>4
  <2>2. j \notin ends
      BY SMTT(60), <1>4, <2>1, <1>2
  <2>3. ~(ws[j].ticket > w.ticket)
      BY <2>1, <2>2, <1>1
  <2>4. ws[j] \in Waiter
      BY SMTT(60), <2>1
  <2> QED
      BY SMTT(60), <2>3, <2>4 DEF Waiter
<1>7. i <= Len(ws) => ws[i].ticket > w.ticket
    BY SMTT(60), <1>1, <1>4
<1> QED
    BY <1>2, <1>4, <1>5, <1>6, <1>7

(* No two requests have the same place in line.                            *)
Tickets == \A q, r \in Req : ticket[q] = ticket[r] /\ ticket[q] # 0 => q = r

QueueOK == waiters \in Seq(Waiter)
PlaceOK == next \in Nat /\ ticket \in [Req -> 0..next]
PcOK == DOMAIN pc = Req

(* The inductive invariant behind the queue's order.                       *)
QueueInv == QueueOK /\ PlaceOK /\ PcOK /\ QueueOrder /\ Tickets

(* A step moves r on, and it keeps its ticket or drops it.                 *)
Moves(r) == /\ pc' = pc \/ \E l : pc' = [pc EXCEPT ![r] = l]
            /\ ticket' = ticket \/ ticket' = [ticket EXCEPT ![r] = 0]
            /\ next' = next

LEMMA MovesMeans ==
    ASSUME QueueInv, NEW r \in Req, Moves(r)
    PROVE  /\ PcOK' /\ PlaceOK' /\ ticket'[r] \in {ticket[r], 0}
           /\ \A q \in Req \ {r} : pc'[q] = pc[q] /\ ticket'[q] = ticket[q]
<1>1. PcOK /\ PlaceOK
    BY DEF QueueInv
<1>2. PcOK' /\ \A q \in Req \ {r} : pc'[q] = pc[q]
    BY <1>1 DEF PcOK, Moves
<1>3. /\ PlaceOK' /\ ticket'[r] \in {ticket[r], 0}
      /\ \A q \in Req \ {r} : ticket'[q] = ticket[q]
    BY SMTT(60), <1>1 DEF PlaceOK, Moves
<1> QED
    BY <1>2, <1>3

(* A request is in line once.                                              *)
LEMMA InLineOnce ==
    ASSUME QueueInv, NEW i \in DOMAIN waiters, NEW j \in DOMAIN waiters,
           waiters[i].who = waiters[j].who
    PROVE  i = j
<1>1. QueueOK
    BY DEF QueueInv
<1>2. waiters[i] \in Waiter /\ waiters[j] \in Waiter /\ i \in Nat /\ j \in Nat
    BY SMTT(60), <1>1 DEF QueueOK
<1>3. waiters[i].ticket = waiters[j].ticket
    BY DEF QueueInv, QueueOrder
<1>4. /\ i < j => waiters[i].ticket < waiters[j].ticket
      /\ j < i => waiters[j].ticket < waiters[i].ticket
    BY DEF QueueInv, QueueOrder
<1>5. waiters[i].ticket \in Nat /\ waiters[j].ticket \in Nat
    BY <1>2 DEF Waiter
<1> QED
    BY SMTT(60), <1>2, <1>3, <1>4, <1>5

(* Steps that leave the queue alone.                                       *)
LEMMA QueueKept ==
    ASSUME QueueInv, waiters' = waiters, token' = token, NEW r \in Req,
           pc[r] # "parked", pc'[r] # "parked", Moves(r)
    PROVE  QueueInv'
<1>0. /\ PcOK' /\ PlaceOK' /\ ticket'[r] \in {ticket[r], 0}
      /\ \A q \in Req \ {r} : pc'[q] = pc[q] /\ ticket'[q] = ticket[q]
    BY MovesMeans
<1>1. QueueOrder /\ Tickets /\ QueueOK
    BY DEF QueueInv
<1>2. \A q \in Req : InLine(q)' <=> InLine(q)
    BY DEF InLine
<1>3. \A i \in DOMAIN waiters : waiters[i].who \in Req \ {r}
  <2> SUFFICES ASSUME NEW i \in DOMAIN waiters PROVE waiters[i].who \in Req \ {r}
      OBVIOUS
  <2>1. waiters[i] \in Waiter
      BY SMTT(60), <1>1 DEF QueueOK
  <2>2. waiters[i].who \in Req
      BY <2>1 DEF Waiter
  <2>3. InLine(waiters[i].who)
      BY DEF InLine
  <2>4. pc[waiters[i].who] = "parked"
      BY <1>1, <2>2, <2>3 DEF QueueOrder
  <2> QED
      BY <2>2, <2>4
<1>4. (\A i, j \in DOMAIN waiters : i < j => waiters[i].ticket < waiters[j].ticket)'
    BY <1>1 DEF QueueOrder
<1>5. (\A i \in DOMAIN waiters : waiters[i].ticket = ticket[waiters[i].who])'
    BY <1>0, <1>1, <1>3 DEF QueueOrder
<1>6. ASSUME NEW q \in Req PROVE pc'[q] = "parked" <=> (InLine(q)' \/ q \in token')
    BY <1>0, <1>1, <1>2 DEF QueueOrder
<1>7. (\A q \in token : ~InLine(q))'
    BY <1>1 DEF QueueOrder, InLine
<1>8. QueueOrder'
    BY <1>4, <1>5, <1>6, <1>7 DEF QueueOrder
<1>9. Tickets'
    BY <1>0, <1>1 DEF Tickets
<1> QED
    BY <1>0, <1>1, <1>8, <1>9 DEF QueueInv, QueueOK

LEMMA QueueAlone ==
    ASSUME QueueInv, UNCHANGED <<waiters, token, next, pc, ticket>>
    PROVE  QueueInv'
<1>1. QueueOrder /\ Tickets
    BY DEF QueueInv
<1>2. QueueOrder'
    BY <1>1 DEF QueueOrder, InLine
<1>3. Tickets'
    BY <1>1 DEF Tickets
<1>4. QueueOK' /\ PlaceOK' /\ PcOK'
    BY DEF QueueInv, QueueOK, PlaceOK, PcOK
<1> QED
    BY <1>2, <1>3, <1>4 DEF QueueInv

(* A step of a request that is not parked, with a Signal in it: the head   *)
(* of the line gets the value.                                             *)
LEMMA QueueSignalled ==
    ASSUME QueueInv, Signal \/ SignalCapacity, NEW r \in Req,
           pc[r] # "parked", pc'[r] # "parked", Moves(r)
    PROVE  QueueInv'
<1>0. /\ PcOK' /\ PlaceOK' /\ ticket'[r] \in {ticket[r], 0}
      /\ \A q \in Req \ {r} : pc'[q] = pc[q] /\ ticket'[q] = ticket[q]
    BY MovesMeans
<1>1. CASE waiters' = waiters /\ token' = token
    BY <1>1, QueueKept
<1>2. CASE /\ waiters # <<>>
           /\ waiters' = Tail(waiters)
           /\ token' = token \cup {Head(waiters).who}
  <2>1. QueueOrder /\ Tickets /\ waiters \in Seq(Waiter)
      BY DEF QueueInv, QueueOK
  <2>2. /\ 1 \in DOMAIN waiters /\ Head(waiters) = waiters[1]
        /\ DOMAIN waiters' = 1..(Len(waiters) - 1) /\ DOMAIN waiters = 1..Len(waiters)
        /\ Len(waiters) \in Nat
        /\ \A i \in 1..(Len(waiters) - 1) : waiters'[i] = waiters[i + 1]
      BY SMTT(60), <1>2, <2>1
  <2>3. \A i \in DOMAIN waiters : waiters[i].who \in Req /\ pc[waiters[i].who] = "parked"
    <3> SUFFICES ASSUME NEW i \in DOMAIN waiters
                 PROVE  waiters[i].who \in Req /\ pc[waiters[i].who] = "parked"
        OBVIOUS
    <3>1. waiters[i] \in Waiter
        BY SMTT(60), <2>1
    <3>2. waiters[i].who \in Req
        BY <3>1 DEF Waiter
    <3>3. InLine(waiters[i].who)
        BY DEF InLine
    <3> QED
        BY <2>1, <3>2, <3>3 DEF QueueOrder
  <2>4. ASSUME NEW q PROVE InLine(q)' <=> InLine(q) /\ q # waiters[1].who
    <3>1. ASSUME InLine(q)' PROVE InLine(q) /\ q # waiters[1].who
      <4>1. PICK i \in 1..(Len(waiters) - 1) : waiters'[i].who = q
          BY <2>2, <3>1 DEF InLine
      <4>2. i + 1 \in DOMAIN waiters /\ waiters[i + 1].who = q /\ i + 1 # 1
          BY SMTT(60), <2>2, <4>1
      <4>3. waiters[1].who # q
          BY <2>2, <4>2, InLineOnce
      <4> QED
          BY <4>2, <4>3 DEF InLine
    <3>2. ASSUME InLine(q), q # waiters[1].who PROVE InLine(q)'
      <4>1. PICK i \in DOMAIN waiters : waiters[i].who = q
          BY <3>2 DEF InLine
      <4>2. i # 1
          BY <3>2, <4>1
      <4>3. i - 1 \in 1..(Len(waiters) - 1) /\ (i - 1) + 1 = i
          BY SMTT(60), <2>2, <4>2
      <4>4. waiters'[i - 1] = waiters[i]
          BY <2>2, <4>3
      <4> QED
          BY <2>2, <4>1, <4>3, <4>4 DEF InLine
    <3> QED
        BY <3>1, <3>2
  <2>5. (\A i, j \in DOMAIN waiters : i < j => waiters[i].ticket < waiters[j].ticket)'
    <3> SUFFICES ASSUME NEW i \in DOMAIN waiters', NEW j \in DOMAIN waiters', i < j
                 PROVE  waiters'[i].ticket < waiters'[j].ticket
        OBVIOUS
    <3>1. i + 1 \in DOMAIN waiters /\ j + 1 \in DOMAIN waiters /\ i + 1 < j + 1
        BY SMTT(60), <2>2
    <3>2. waiters[i + 1].ticket < waiters[j + 1].ticket
        BY <2>1, <3>1 DEF QueueOrder
    <3> QED
        BY <2>2, <3>2
  <2>6. (\A i \in DOMAIN waiters : waiters[i].ticket = ticket[waiters[i].who])'
    <3> SUFFICES ASSUME NEW i \in DOMAIN waiters'
                 PROVE  waiters'[i].ticket = ticket'[waiters'[i].who]
        OBVIOUS
    <3>1. i + 1 \in DOMAIN waiters /\ waiters'[i] = waiters[i + 1]
        BY SMTT(60), <2>2
    <3>2. waiters[i + 1].ticket = ticket[waiters[i + 1].who]
        BY <2>1, <3>1 DEF QueueOrder
    <3>3. waiters[i + 1].who \in Req \ {r}
        BY <2>3, <3>1
    <3> QED
        BY <1>0, <3>1, <3>2, <3>3
  <2>7. ASSUME NEW q \in Req PROVE pc'[q] = "parked" <=> (InLine(q)' \/ q \in token')
    <3>1. pc[q] = "parked" <=> (InLine(q) \/ q \in token)
        BY <2>1 DEF QueueOrder
    <3>2. InLine(waiters[1].who)
        BY <2>2 DEF InLine
    <3> QED
        BY <1>0, <1>2, <2>2, <2>4, <3>1, <3>2
  <2>8. (\A q \in token : ~InLine(q))'
    <3> SUFFICES ASSUME NEW q \in token', InLine(q)' PROVE FALSE
        OBVIOUS
    <3>1. InLine(q) /\ q # waiters[1].who
        BY <2>4
    <3> QED
        BY <1>2, <2>1, <2>2, <3>1 DEF QueueOrder
  <2>9. QueueOrder'
      BY <2>5, <2>6, <2>7, <2>8 DEF QueueOrder
  <2>10. Tickets'
      BY <1>0, <2>1 DEF Tickets
  <2>11. QueueOK'
      BY SMTT(60), <1>2, <2>1 DEF QueueOK
  <2> QED
      BY <1>0, <2>9, <2>10, <2>11 DEF QueueInv
<1> QED
    BY <1>1, <1>2 DEF Signal, SignalCapacity

(* Parking again, a request goes back to its place; a newcomer goes last.  *)
LEMMA WaitInLineQueue ==
    ASSUME QueueInv, NEW r \in Req, WaitInLine(r) PROVE QueueInv'
<1>1. /\ QueueOrder /\ Tickets /\ waiters \in Seq(Waiter) /\ PcOK
      /\ ticket \in [Req -> 0..next] /\ next \in Nat
    BY DEF QueueInv, QueueOK, PlaceOK
<1>2. pc[r] = "enqueue"
    BY DEF WaitInLine
<1>3. CASE /\ Goto(r, "list") /\ advanceStep(r) /\ UNCHANGED <<waiters, next, token>>
  <2>1. pc'[r] = "list" /\ Moves(r)
      BY <1>1, <1>3 DEF Goto, PcOK, advanceStep, Moves
  <2> QED
      BY <1>2, <1>3, <2>1, QueueKept
<1>4. ASSUME NEW t, t = IF ticket[r] = 0 THEN next + 1 ELSE ticket[r],
             ticket' = [ticket EXCEPT ![r] = t], next' = IF ticket[r] = 0 THEN t ELSE next,
             waiters' = InsertByTicket(waiters, [who |-> r, ticket |-> t]),
             Goto(r, "parked"), token' = token
      PROVE  QueueInv'
  <2> DEFINE w == [who |-> r, ticket |-> t]
             n == Len(waiters)
  <2>1. t \in Nat \ {0} /\ w \in Waiter
      BY SMTT(60), <1>1, <1>4 DEF Waiter
  <2>2. PICK k \in 1..(n + 1) :
           /\ InsertByTicket(waiters, w) = InsertAt(waiters, k, w)
           /\ \A j \in 1..(k - 1) : waiters[j].ticket <= w.ticket
           /\ k <= n => waiters[k].ticket > w.ticket
      BY <1>1, <2>1, InsertPlace
  <2>3. /\ n \in Nat /\ k \in Nat /\ DOMAIN waiters = 1..n /\ DOMAIN waiters' = 1..(n + 1)
        /\ waiters' \in Seq(Waiter)
        /\ \A j \in 1..(n + 1) :
             waiters'[j] = IF j < k THEN waiters[j] ELSE IF j = k THEN w ELSE waiters[j - 1]
    <3>1. /\ InsertAt(waiters, k, w) \in Seq(Waiter)
          /\ Len(InsertAt(waiters, k, w)) = n + 1
          /\ \A j \in 1..(n + 1) : InsertAt(waiters, k, w)[j] =
               IF j < k THEN waiters[j] ELSE IF j = k THEN w ELSE waiters[j - 1]
        BY SMTT(60), <1>1, <2>1, InsertAtProperties
    <3>2. waiters' = InsertAt(waiters, k, w)
        BY <1>4, <2>2
    <3> QED
        BY SMTT(60), <1>1, <3>1, <3>2
  <2>4. ~InLine(r) /\ r \notin token
      BY <1>1, <1>2 DEF QueueOrder
  <2>5. \A j \in 1..n : /\ waiters[j].who \in Req \ {r} /\ waiters[j].ticket \in Nat
                        /\ waiters[j].ticket = ticket[waiters[j].who]
    <3> SUFFICES ASSUME NEW j \in 1..n
                 PROVE  /\ waiters[j].who \in Req \ {r} /\ waiters[j].ticket \in Nat
                        /\ waiters[j].ticket = ticket[waiters[j].who]
        OBVIOUS
    <3>1. waiters[j] \in Waiter
        BY SMTT(60), <1>1
    <3>2. waiters[j].who # r
        BY <2>3, <2>4 DEF InLine
    <3>3. waiters[j].ticket = ticket[waiters[j].who]
        BY <1>1, <2>3 DEF QueueOrder
    <3> QED
        BY <3>1, <3>2, <3>3 DEF Waiter
  <2>6. \A q \in Req \ {r} : ticket[q] # t
    <3> SUFFICES ASSUME NEW q \in Req \ {r}, ticket[q] = t PROVE FALSE
        OBVIOUS
    <3>1. CASE ticket[r] = 0
        BY SMTT(60), <1>1, <1>4, <3>1
    <3>2. CASE ticket[r] # 0
        BY <1>1, <1>4, <3>2 DEF Tickets
    <3> QED
        BY <3>1, <3>2
  <2>7. /\ \A j \in 1..n : j < k => waiters[j].ticket < t
        /\ \A j \in 1..n : j >= k => t < waiters[j].ticket
    <3>1. ASSUME NEW j \in 1..n, j < k PROVE waiters[j].ticket < t
      <4>1. waiters[j].ticket <= t
          BY SMTT(60), <2>2, <2>3, <3>1
      <4>2. waiters[j].ticket # t
          BY <2>5, <2>6
      <4> QED
          BY SMTT(60), <2>1, <2>5, <4>1, <4>2
    <3>2. ASSUME NEW j \in 1..n, j >= k PROVE t < waiters[j].ticket
      <4>1. k \in 1..n /\ t < waiters[k].ticket
          BY SMTT(60), <2>1, <2>2, <2>3, <2>5, <3>2
      <4>2. k < j => waiters[k].ticket < waiters[j].ticket
          BY <1>1, <2>3, <4>1 DEF QueueOrder
      <4> QED
          BY SMTT(60), <2>1, <2>3, <2>5, <3>2, <4>1, <4>2
    <3> QED
        BY <3>1, <3>2
  <2> HIDE DEF n
  <2>8. ASSUME NEW i \in 1..(n + 1), NEW j \in 1..(n + 1), i < j
        PROVE  waiters'[i].ticket < waiters'[j].ticket
    <3>1. \A x \in 1..n, y \in 1..n : x < y => waiters[x].ticket < waiters[y].ticket
        BY <1>1, <2>3 DEF QueueOrder
    <3>2. CASE j < k
      <4>1. i \in 1..n /\ j \in 1..n /\ waiters'[i] = waiters[i] /\ waiters'[j] = waiters[j]
          BY SMTT(60), <2>3, <2>8, <3>2
      <4> QED
          BY <2>8, <3>1, <4>1
    <3>3. CASE j = k
      <4>1. i \in 1..n /\ i < k /\ waiters'[i] = waiters[i] /\ waiters'[j] = w
          BY SMTT(60), <2>3, <2>8, <3>3
      <4> QED
          BY SMTT(60), <2>7, <4>1
    <3>4. CASE j > k /\ i < k
      <4>1. /\ i \in 1..n /\ j - 1 \in 1..n /\ i < j - 1
            /\ waiters'[i] = waiters[i] /\ waiters'[j] = waiters[j - 1]
          BY SMTT(60), <2>3, <2>8, <3>4
      <4> QED
          BY <3>1, <4>1
    <3>5. CASE j > k /\ i = k
      <4>1. j - 1 \in 1..n /\ j - 1 >= k /\ waiters'[i] = w /\ waiters'[j] = waiters[j - 1]
          BY SMTT(60), <2>3, <3>5
      <4> QED
          BY SMTT(60), <2>7, <4>1
    <3>6. CASE i > k
      <4>1. /\ i - 1 \in 1..n /\ j - 1 \in 1..n /\ i - 1 < j - 1
            /\ waiters'[i] = waiters[i - 1] /\ waiters'[j] = waiters[j - 1]
          BY SMTT(60), <2>3, <2>8, <3>6
      <4> QED
          BY <3>1, <4>1
    <3>7. j < k \/ j = k \/ (j > k /\ i < k) \/ (j > k /\ i = k) \/ i > k
        BY SMTT(60), <2>3
    <3> QED
        BY <3>2, <3>3, <3>4, <3>5, <3>6, <3>7
  <2>9. ASSUME NEW i \in 1..(n + 1) PROVE waiters'[i].ticket = ticket'[waiters'[i].who]
    <3>1. ticket'[r] = t /\ \A q \in Req \ {r} : ticket'[q] = ticket[q]
        BY <1>1, <1>4
    <3>2. CASE i = k
        BY SMTT(60), <2>3, <3>1, <3>2
    <3>3. CASE i < k
      <4>1. i \in 1..n /\ waiters'[i] = waiters[i]
          BY SMTT(60), <2>3, <3>3
      <4> QED
          BY <2>5, <3>1, <4>1
    <3>4. CASE i > k
      <4>1. i - 1 \in 1..n /\ waiters'[i] = waiters[i - 1]
          BY SMTT(60), <2>3, <3>4
      <4> QED
          BY <2>5, <3>1, <4>1
    <3>5. i = k \/ i < k \/ i > k
        BY SMTT(60), <2>3
    <3> QED
        BY <3>2, <3>3, <3>4, <3>5
  <2>10. ASSUME NEW q PROVE InLine(q)' <=> (InLine(q) \/ q = r)
    <3>1. ASSUME InLine(q)' PROVE InLine(q) \/ q = r
      <4>1. PICK i \in 1..(n + 1) : waiters'[i].who = q
          BY <2>3, <3>1 DEF InLine
      <4>2. \/ i < k /\ i \in 1..n /\ waiters[i].who = q
            \/ i = k /\ q = r
            \/ i > k /\ i - 1 \in 1..n /\ waiters[i - 1].who = q
          BY SMTT(60), <2>3, <4>1
      <4> QED
          BY <2>3, <4>2 DEF InLine
    <3>2. ASSUME InLine(q) PROVE InLine(q)'
      <4>1. PICK i \in 1..n : waiters[i].who = q
          BY <2>3, <3>2 DEF InLine
      <4>2. CASE i < k
        <5>1. i \in 1..(n + 1) /\ waiters'[i] = waiters[i]
            BY SMTT(60), <2>3, <4>2
        <5> QED
            BY <2>3, <4>1, <5>1 DEF InLine
      <4>3. CASE i >= k
        <5>1. i + 1 \in 1..(n + 1) /\ ~(i + 1 < k) /\ i + 1 # k /\ (i + 1) - 1 = i
            BY SMTT(60), <2>3, <4>3
        <5>2. waiters'[i + 1] = waiters[i]
            BY <2>3, <5>1
        <5> QED
            BY <2>3, <4>1, <5>1, <5>2 DEF InLine
      <4>4. i < k \/ i >= k
          BY SMTT(60), <2>3
      <4> QED
          BY <4>2, <4>3, <4>4
    <3>3. InLine(r)'
      <4>1. k \in DOMAIN waiters' /\ waiters'[k] = w
          BY SMTT(60), <2>3
      <4> QED
          BY SMTT(60), <4>1 DEF InLine
    <3> QED
        BY <3>1, <3>2, <3>3
  <2>11. ASSUME NEW q \in Req PROVE pc'[q] = "parked" <=> (InLine(q)' \/ q \in token')
    <3>1. pc[q] = "parked" <=> (InLine(q) \/ q \in token)
        BY <1>1 DEF QueueOrder
    <3>2. pc'[r] = "parked" /\ (q # r => pc'[q] = pc[q])
        BY <1>1, <1>4 DEF Goto, PcOK
    <3> QED
        BY <1>4, <2>10, <3>1, <3>2
  <2>12. (\A q \in token : ~InLine(q))'
      BY <1>1, <1>4, <2>4, <2>10 DEF QueueOrder
  <2>13. QueueOrder'
    <3>1. (\A i, j \in DOMAIN waiters : i < j => waiters[i].ticket < waiters[j].ticket)'
        BY <2>3, <2>8
    <3>2. (\A i \in DOMAIN waiters : waiters[i].ticket = ticket[waiters[i].who])'
        BY <2>3, <2>9
    <3> QED
        BY <2>11, <2>12, <3>1, <3>2 DEF QueueOrder
  <2>14. Tickets'
      BY <1>1, <1>4, <2>6 DEF Tickets
  <2>15. PlaceOK'
      BY SMTT(60), <1>1, <1>4, <2>1 DEF PlaceOK
  <2>16. PcOK' /\ QueueOK'
      BY <1>1, <1>4, <2>3 DEF PcOK, Goto, QueueOK
  <2> QED
      BY <2>13, <2>14, <2>15, <2>16 DEF QueueInv
<1> QED
    BY <1>3, <1>4 DEF WaitInLine, queueVars

LEMMA WokenQueue ==
    ASSUME QueueInv, NEW r \in Req, Woken(r) PROVE QueueInv'
<1>1. QueueOrder /\ Tickets /\ PcOK /\ QueueOK /\ PlaceOK
    BY DEF QueueInv
<1>2. /\ r \in token /\ token' = token \ {r} /\ UNCHANGED <<waiters, next, ticket>>
      /\ Goto(r, "list")
    BY DEF Woken, sameStep
<1>3. pc'[r] = "list" /\ \A q \in Req : q # r => pc'[q] = pc[q]
    BY <1>1, <1>2 DEF Goto, PcOK
<1>4. \A q : InLine(q)' <=> InLine(q)
    BY <1>2 DEF InLine
<1>5. ~InLine(r)
    BY <1>1, <1>2 DEF QueueOrder
<1>6. ASSUME NEW q \in Req PROVE pc'[q] = "parked" <=> (InLine(q)' \/ q \in token')
    BY <1>1, <1>2, <1>3, <1>4, <1>5 DEF QueueOrder
<1>7. QueueOrder'
    BY <1>1, <1>2, <1>4, <1>6 DEF QueueOrder
<1>8. Tickets'
    BY <1>1, <1>2 DEF Tickets
<1>9. QueueOK' /\ PlaceOK' /\ PcOK'
    BY <1>1, <1>2 DEF QueueOK, PlaceOK, PcOK, Goto
<1> QED
    BY <1>7, <1>8, <1>9 DEF QueueInv

LEMMA CtxDoneQueue ==
    ASSUME QueueInv, NEW r \in Req, CtxDone(r) PROVE QueueInv'
<1>1. QueueOrder /\ Tickets /\ PcOK /\ waiters \in Seq(Waiter) /\ PlaceOK
    BY DEF QueueInv, QueueOK
<1>2. pc[r] = "parked" /\ next' = next
    BY DEF CtxDone
<1>3. CASE ~InLine(r) /\ token' = token \ {r} /\ Goto(r, "pass") /\ UNCHANGED <<waiters, ticket>>
  <2>1. pc'[r] = "pass" /\ \A q \in Req : q # r => pc'[q] = pc[q]
      BY <1>1, <1>3 DEF Goto, PcOK
  <2>2. \A q : InLine(q)' <=> InLine(q)
      BY <1>3 DEF InLine
  <2>3. ASSUME NEW q \in Req PROVE pc'[q] = "parked" <=> (InLine(q)' \/ q \in token')
      BY <1>1, <1>3, <2>1, <2>2 DEF QueueOrder
  <2>4. QueueOrder'
      BY <1>1, <1>3, <2>2, <2>3 DEF QueueOrder
  <2>5. Tickets'
      BY <1>1, <1>3 DEF Tickets
  <2>6. QueueOK' /\ PlaceOK' /\ PcOK'
      BY <1>1, <1>2, <1>3 DEF QueueOK, PlaceOK, PcOK, Goto
  <2> QED
      BY <2>4, <2>5, <2>6 DEF QueueInv
<1>4. ASSUME NEW k \in DOMAIN waiters, waiters[k].who = r, waiters' = RemoveAt(waiters, k),
             Goto(r, "list"), advanceStep(r), token' = token
      PROVE  QueueInv'
  <2> DEFINE n == Len(waiters)
  <2>1. /\ n \in Nat /\ k \in 1..n /\ k \in Nat /\ DOMAIN waiters = 1..n
        /\ DOMAIN waiters' = 1..(n - 1) /\ waiters' \in Seq(Waiter)
        /\ \A j \in 1..(n - 1) : waiters'[j] = IF j < k THEN waiters[j] ELSE waiters[j + 1]
    <3>1. k \in 1..n
        BY SMTT(60), <1>1, <1>4
    <3>2. /\ RemoveAt(waiters, k) \in Seq(Waiter) /\ Len(RemoveAt(waiters, k)) = n - 1
          /\ \A j \in 1..(n - 1) :
               RemoveAt(waiters, k)[j] = IF j < k THEN waiters[j] ELSE waiters[j + 1]
        BY <1>1, <3>1, RemoveAtProperties
    <3> QED
        BY SMTT(60), <1>1, <1>4, <3>1, <3>2
  <2>2. /\ pc'[r] = "list" /\ ticket'[r] = 0
        /\ \A q \in Req : q # r => pc'[q] = pc[q] /\ ticket'[q] = ticket[q]
      BY <1>1, <1>4 DEF Goto, PcOK, PlaceOK, advanceStep
  <2>3. InLine(r) /\ r \notin token
      BY <1>1, <1>4 DEF InLine, QueueOrder
  <2> HIDE DEF n
  <2>4. \A j \in 1..n : /\ waiters[j].who \in Req
                        /\ waiters[j].ticket = ticket[waiters[j].who]
                        /\ j # k => waiters[j].who # r
    <3> SUFFICES ASSUME NEW j \in 1..n
                 PROVE  /\ waiters[j].who \in Req
                        /\ waiters[j].ticket = ticket[waiters[j].who]
                        /\ j # k => waiters[j].who # r
        OBVIOUS
    <3>1. waiters[j] \in Waiter
        BY SMTT(60), <1>1 DEF n
    <3>2. waiters[j].ticket = ticket[waiters[j].who]
        BY <1>1, <2>1 DEF QueueOrder
    <3>3. j # k => waiters[j].who # r
        BY <1>4, <2>1, InLineOnce
    <3> QED
        BY <3>1, <3>2, <3>3 DEF Waiter
  <2>5. ASSUME NEW j \in 1..(n - 1)
        PROVE  \E i \in 1..n : /\ waiters'[j] = waiters[i] /\ i # k
                               /\ i = IF j < k THEN j ELSE j + 1
    <3>1. CASE j < k
      <4>1. j \in 1..n /\ j # k /\ waiters'[j] = waiters[j]
          BY SMTT(60), <2>1, <3>1
      <4> QED
          BY <3>1, <4>1
    <3>2. CASE ~(j < k)
      <4>1. j + 1 \in 1..n /\ j + 1 # k /\ waiters'[j] = waiters[j + 1]
          BY SMTT(60), <2>1, <3>2
      <4> QED
          BY <3>2, <4>1
    <3> QED
        BY <3>1, <3>2
  <2>6. ASSUME NEW i \in 1..(n - 1), NEW j \in 1..(n - 1), i < j
        PROVE  waiters'[i].ticket < waiters'[j].ticket
    <3>1. PICK x \in 1..n : waiters'[i] = waiters[x] /\ x = IF i < k THEN i ELSE i + 1
        BY <2>5
    <3>2. PICK y \in 1..n : waiters'[j] = waiters[y] /\ y = IF j < k THEN j ELSE j + 1
        BY <2>5
    <3>3. x < y
        BY SMTT(60), <2>1, <2>6, <3>1, <3>2
    <3>4. waiters[x].ticket < waiters[y].ticket
        BY <1>1, <2>1, <3>3 DEF QueueOrder
    <3> QED
        BY <3>1, <3>2, <3>4
  <2>7. ASSUME NEW j \in 1..(n - 1) PROVE waiters'[j].ticket = ticket'[waiters'[j].who]
    <3>1. PICK x \in 1..n : waiters'[j] = waiters[x] /\ x # k
        BY <2>5
    <3> QED
        BY SMTT(60), <2>2, <2>4, <3>1
  <2>8. ASSUME NEW q PROVE InLine(q)' <=> (InLine(q) /\ q # r)
    <3>1. ASSUME InLine(q)' PROVE InLine(q) /\ q # r
      <4>1. PICK j \in 1..(n - 1) : waiters'[j].who = q
          BY <2>1, <3>1 DEF InLine
      <4>2. PICK x \in 1..n : waiters'[j] = waiters[x] /\ x # k
          BY <2>5
      <4> QED
          BY <2>1, <2>4, <4>1, <4>2 DEF InLine
    <3>2. ASSUME InLine(q), q # r PROVE InLine(q)'
      <4>1. PICK i \in 1..n : waiters[i].who = q
          BY <2>1, <3>2 DEF InLine
      <4>2. i # k
          BY <1>4, <3>2, <4>1
      <4>3. CASE i < k
        <5>1. i \in 1..(n - 1) /\ waiters'[i] = waiters[i]
            BY SMTT(60), <2>1, <4>3
        <5> QED
            BY <2>1, <4>1, <5>1 DEF InLine
      <4>4. CASE i > k
        <5>1. i - 1 \in 1..(n - 1) /\ ~(i - 1 < k) /\ (i - 1) + 1 = i
            BY SMTT(60), <2>1, <4>4
        <5>2. waiters'[i - 1] = waiters[i]
            BY <2>1, <5>1
        <5> QED
            BY <2>1, <4>1, <5>1, <5>2 DEF InLine
      <4>5. i < k \/ i > k
          BY SMTT(60), <2>1, <4>2
      <4> QED
          BY <4>3, <4>4, <4>5
    <3> QED
        BY <3>1, <3>2
  <2>9. ASSUME NEW q \in Req PROVE pc'[q] = "parked" <=> (InLine(q)' \/ q \in token')
    <3>1. pc[q] = "parked" <=> (InLine(q) \/ q \in token)
        BY <1>1 DEF QueueOrder
    <3> QED
        BY <1>4, <2>2, <2>3, <2>8, <3>1
  <2>10. (\A q \in token : ~InLine(q))'
      BY <1>1, <1>4, <2>8 DEF QueueOrder
  <2>11. QueueOrder'
    <3>1. (\A i, j \in DOMAIN waiters : i < j => waiters[i].ticket < waiters[j].ticket)'
        BY <2>1, <2>6
    <3>2. (\A i \in DOMAIN waiters : waiters[i].ticket = ticket[waiters[i].who])'
        BY <2>1, <2>7
    <3> QED
        BY <2>9, <2>10, <3>1, <3>2 DEF QueueOrder
  <2>12. Tickets'
      BY <1>1, <2>2 DEF Tickets
  <2>13. QueueOK' /\ PlaceOK' /\ PcOK'
      BY SMTT(60), <1>1, <1>2, <1>4, <2>1 DEF QueueOK, PlaceOK, PcOK, Goto, advanceStep
  <2> QED
      BY <2>11, <2>12, <2>13 DEF QueueInv
<1> QED
    BY <1>3, <1>4 DEF CtxDone, sameStep

LEMMA BroadcastQueue ==
    ASSUME QueueInv, BroadcastCapacity PROVE QueueInv'
<1>1. QueueOrder /\ Tickets /\ QueueOK /\ PlaceOK /\ PcOK
    BY DEF QueueInv
<1>2. /\ token' = token \cup {waiters[i].who : i \in DOMAIN waiters} /\ waiters' = <<>>
      /\ UNCHANGED <<next, pc, ticket>>
    BY DEF BroadcastCapacity, sessVars
<1>3. DOMAIN waiters' = {}
    BY SMTT(60), <1>2
<1>4. \A q : ~InLine(q)'
    BY <1>3 DEF InLine
<1>5. \A q : q \in token' <=> (q \in token \/ InLine(q))
    BY <1>2 DEF InLine
<1>6. ASSUME NEW q \in Req PROVE pc'[q] = "parked" <=> (InLine(q)' \/ q \in token')
    BY <1>1, <1>2, <1>4, <1>5 DEF QueueOrder
<1>7. QueueOrder'
    BY <1>3, <1>4, <1>6 DEF QueueOrder
<1>8. Tickets'
    BY <1>1, <1>2 DEF Tickets
<1>9. QueueOK' /\ PlaceOK' /\ PcOK'
    BY SMTT(60), <1>1, <1>2 DEF QueueOK, PlaceOK, PcOK
<1> QED
    BY <1>7, <1>8, <1>9 DEF QueueInv

(* GotoOrEnd drops at most the place of the request it moves.              *)
LEMMA GotoOrEndPlace ==
    ASSUME QueueInv, NEW r \in Req, NEW l, GotoOrEnd(r, l), next' = next
    PROVE  pc'[r] = l /\ Moves(r)
<1>1. pc'[r] = l /\ pc' = [pc EXCEPT ![r] = l]
    BY DEF QueueInv, PcOK, GotoOrEnd, Goto
<1>2. ticket' = ticket \/ ticket' = [ticket EXCEPT ![r] = 0]
    BY DEF GotoOrEnd
<1> QED
    BY <1>1, <1>2 DEF Moves

(* A step to a position out of the line.                                   *)
LEMMA GotoPlace ==
    ASSUME QueueInv, NEW r \in Req, NEW l, Goto(r, l), next' = next,
           ticket' = ticket \/ ticket' = [ticket EXCEPT ![r] = 0]
    PROVE  pc'[r] = l /\ Moves(r)
    BY DEF QueueInv, PcOK, Goto, Moves

(* The steps of a request that does not touch the line.                    *)
Elsewhere(r) ==
    \/ Start(r) \/ AcquireSem(r) \/ CheckDeadline(r) \/ Exhausted(r) \/ ListByModel(r)
    \/ Scan(r) \/ Claim(r) \/ Held(r) \/ StreamStarts(r) \/ DrainEnds(r) \/ ForwardEnds(r)
    \/ ProviderEnds(r)

LEMMA ElsewhereQueue ==
    ASSUME QueueInv, NEW r \in Req, Elsewhere(r) PROVE QueueInv'
<1>1. UNCHANGED <<waiters, token, next>> /\ pc[r] # "parked"
    BY DEF Elsewhere, Start, AcquireSem, CheckDeadline, Exhausted, ListByModel, Scan,
           Claim, Held, StreamStarts, DrainEnds, ForwardEnds, ProviderEnds, queueVars
<1>2. CASE \E l \in {"sem", "list", "provider", "ok", "err"} : GotoOrEnd(r, l)
    BY <1>1, <1>2, GotoOrEndPlace, QueueKept
<1>3. ASSUME NEW l, l # "parked", Goto(r, l),
             ticket' = ticket \/ ticket' = [ticket EXCEPT ![r] = 0]
      PROVE  QueueInv'
    BY <1>1, <1>3, GotoPlace, QueueKept
<1>4. CASE Start(r) \/ CheckDeadline(r) \/ Exhausted(r) \/ ProviderEnds(r)
    BY <1>2, <1>4 DEF Start, CheckDeadline, Exhausted, ProviderEnds
<1>5. CASE AcquireSem(r) \/ StreamStarts(r)
    BY <1>3, <1>5 DEF AcquireSem, StreamStarts, sessVars
<1>6. CASE Claim(r) \/ Held(r) \/ DrainEnds(r) \/ ForwardEnds(r)
    BY <1>3, <1>6 DEF Claim, Held, DrainEnds, ForwardEnds
<1>7. CASE ListByModel(r) \/ Scan(r)
  <2>1. /\ pc' = pc \/ \E l \in {"scan", "claim", "enqueue", "list"} : Goto(r, l)
        /\ sameStep \/ advanceStep(r)
      BY <1>7 DEF ListByModel, Scan
  <2>2. ticket' = ticket \/ ticket' = [ticket EXCEPT ![r] = 0]
      BY <2>1 DEF sameStep, advanceStep
  <2>3. CASE pc' = pc
    <3>1. Moves(r)
        BY <1>1, <2>2, <2>3 DEF Moves
    <3> QED
        BY <1>1, <2>3, <3>1, QueueKept
  <2>4. CASE \E l \in {"scan", "claim", "enqueue", "list"} : Goto(r, l)
      BY <1>3, <2>2, <2>4
  <2> QED
      BY <2>1, <2>3, <2>4
<1> QED
    BY <1>4, <1>5, <1>6, <1>7 DEF Elsewhere

LEMMA SignalQueue ==
    ASSUME QueueInv, NEW r \in Req, PassOn(r) \/ SlotSignal(r) PROVE QueueInv'
<1>1. (Signal \/ SignalCapacity) /\ pc[r] # "parked" /\ next' = next
    BY DEF PassOn, SlotSignal
<1>2. \/ /\ Goto(r, "list") \/ Goto(r, "check")
         /\ ticket' = ticket \/ ticket' = [ticket EXCEPT ![r] = 0]
      \/ \E l \in {"ok", "err", "check"} : GotoOrEnd(r, l)
    BY DEF PassOn, SlotSignal, RecordFailure, advanceStep
<1>3. pc'[r] # "parked" /\ Moves(r)
  <2>1. CASE \E l \in {"ok", "err", "check"} : GotoOrEnd(r, l)
      BY <1>1, <2>1, GotoOrEndPlace
  <2>2. ASSUME NEW l \in {"list", "check"}, Goto(r, l),
               ticket' = ticket \/ ticket' = [ticket EXCEPT ![r] = 0]
        PROVE  pc'[r] # "parked" /\ Moves(r)
    <3>1. pc'[r] = l /\ Moves(r)
        BY <1>1, <2>2, GotoPlace
    <3> QED
        BY <3>1
  <2> QED
      BY <1>2, <2>1, <2>2
<1> QED
    BY <1>1, <1>3, QueueSignalled

LEMMA InitQueue == Init => QueueInv
<1> SUFFICES ASSUME Init PROVE QueueInv
    OBVIOUS
<1>0. waiters = <<>> /\ token = {}
    BY DEF Init
<1>1. DOMAIN waiters = {} /\ token = {}
    BY SMTT(60), <1>0
<1>2. \A r \in Req : pc[r] # "parked" /\ ticket[r] = 0
    BY DEF Init
<1>3. QueueOrder
    BY <1>1, <1>2 DEF QueueOrder, InLine
<1>4. Tickets
    BY <1>2 DEF Tickets
<1>5. QueueOK /\ PlaceOK /\ PcOK
  <2>1. waiters = <<>> /\ next = 0 /\ ticket = [r \in Req |-> 0]
      BY DEF Init
  <2>2. PcOK
      BY DEF Init, PcOK
  <2> QED
      BY SMTT(60), <2>1, <2>2 DEF QueueOK, PlaceOK
<1> QED
    BY <1>3, <1>4, <1>5 DEF QueueInv

LEMMA NextQueue == QueueInv /\ [Next]_vars => QueueInv'
<1> SUFFICES ASSUME QueueInv, [Next]_vars PROVE QueueInv'
    OBVIOUS
<1>2. ASSUME NEW r \in Req, Goroutine(r) PROVE QueueInv'
    BY <1>2, ElsewhereQueue, WaitInLineQueue, WokenQueue, CtxDoneQueue, SignalQueue
       DEF Goroutine, Elsewhere
<1>3. ASSUME UNCHANGED <<waiters, token, next, pc, ticket>> PROVE QueueInv'
    BY <1>3, QueueAlone
<1>4. ASSUME NEW r \in Req, DeadlinePasses(r) \/ ClientLeaves(r) PROVE QueueInv'
    BY <1>3, <1>4 DEF DeadlinePasses, ClientLeaves, queueVars, sessVars
<1>5. ASSUME NEW a \in Agent, AgentChange(a) PROVE QueueInv'
    BY <1>3, <1>5 DEF AgentChange, AgentDown, AgentUp, Register, Unregister,
       GateFlips, queueVars, sessVars
<1>6. CASE BroadcastCapacity
    BY <1>6, BroadcastQueue
<1>7. CASE AllDone \/ UNCHANGED vars
    BY <1>3, <1>7 DEF AllDone, vars, queueVars, sessVars
<1> QED
    BY <1>2, <1>4, <1>5, <1>6, <1>7 DEF Next

(* The capacity queue keeps its promise to the requests it parks           *)
(* (WaitQueue.WaitInLine, Signal, Broadcast): it stays in ticket order     *)
(* however often a woken request parks again, and a parked request is in   *)
(* it once or has its wake-up, so a Signal is neither lost nor given       *)
(* twice.                                                                  *)
THEOREM LineKept == Spec => []QueueOrder
<1>1. QueueInv => QueueOrder
    BY DEF QueueInv
<1> QED
    BY <1>1, InitQueue, NextQueue, PTL DEF Spec

(***************************************************************************)
(* How often a request is forwarded                                        *)
(***************************************************************************)
(* The tries add up: induction by a least counterexample, first for the    *)
(* existence of the function, then for its values.                         *)
LEMMA TriesUpToIs ==
    /\ TriesUpTo \in [0..Steps -> Nat] /\ TriesUpTo[0] = 0
    /\ \A i \in 1..Steps : TriesUpTo[i] = TriesUpTo[i - 1] + MaxTries[i]
<1> DEFINE Good(n, f) == /\ f \in [0..n -> Nat] /\ f[0] = 0
                         /\ \A i \in 1..n : f[i] = f[i - 1] + MaxTries[i]
           T == {n \in 0..Steps : ~ \E f : Good(n, f)}
<1>0. Steps \in Nat /\ \A i \in 1..Steps : MaxTries[i] \in Nat
    BY SMTT(60), PolicyAssumption
<1>1. T = {}
  <2> SUFFICES ASSUME T # {} PROVE FALSE
      OBVIOUS
  <2>1. T \subseteq Nat
      BY SMTT(60), <1>0
  <2>2. PICK n \in T : \A m \in T : n <= m
      BY <2>1, Least
  <2>3. n \in 0..Steps /\ ~ \E f : Good(n, f)
      OBVIOUS
  <2>4. CASE n = 0
    <3> DEFINE f == [i \in 0..0 |-> 0]
    <3>1. Good(0, f)
        BY SMTT(60)
    <3> QED
        BY <2>3, <2>4, <3>1
  <2>5. CASE n # 0
    <3>1. n - 1 \in 0..Steps /\ ~(n <= n - 1) /\ n \in 1..Steps
        BY SMTT(60), <1>0, <2>3, <2>5
    <3>2. n - 1 \notin T
        BY <2>2, <3>1
    <3>3. PICK f : Good(n - 1, f)
        BY <3>1, <3>2
    <3> DEFINE g == [i \in 0..n |-> IF i = n THEN f[n - 1] + MaxTries[n] ELSE f[i]]
    <3>4. Good(n, g)
      <4>1. n \in Nat /\ n >= 1 /\ MaxTries[n] \in Nat /\ f \in [0..(n - 1) -> Nat] /\ f[0] = 0
          BY SMTT(60), <1>0, <3>1, <3>3
      <4>2. g \in [0..n -> Nat] /\ g[0] = 0
          BY SMTT(60), <4>1
      <4>3. ASSUME NEW i \in 1..n PROVE g[i] = g[i - 1] + MaxTries[i]
        <5>1. CASE i = n
            BY SMTT(60), <4>1, <5>1
        <5>2. CASE i # n
          <6>1. i \in 1..(n - 1) /\ i \in 0..n /\ i - 1 \in 0..n /\ i - 1 # n
              BY SMTT(60), <4>1, <4>3, <5>2
          <6>2. f[i] = f[i - 1] + MaxTries[i]
              BY <3>3, <6>1
          <6> QED
              BY <5>2, <6>1, <6>2
        <5> QED
            BY <5>1, <5>2
      <4> QED
          BY <4>2, <4>3
    <3> QED
        BY <2>3, <3>4
  <2> QED
      BY <2>4, <2>5
<1>2. \E f : Good(Steps, f)
  <2>1. Steps \in 0..Steps
      BY SMTT(60), <1>0
  <2> QED
      BY <1>1, <2>1
<1> DEFINE Rec(f) == [i \in 0..Steps |-> IF i = 0 THEN 0 ELSE f[i - 1] + MaxTries[i]]
<1>3. \E f : f = Rec(f)
  <2>1. PICK f : Good(Steps, f)
      BY <1>2
  <2>2. f = [i \in 0..Steps |-> f[i]]
      BY <2>1
  <2>3. \A i \in 0..Steps : f[i] = IF i = 0 THEN 0 ELSE f[i - 1] + MaxTries[i]
    <3> SUFFICES ASSUME NEW i \in 0..Steps, i # 0 PROVE f[i] = f[i - 1] + MaxTries[i]
        BY <2>1
    <3>1. i \in 1..Steps
        BY SMTT(60), <1>0
    <3> QED
        BY <2>1, <3>1
  <2>4. f = Rec(f)
      BY <2>2, <2>3
  <2> QED
      BY <2>4
<1>4. TriesUpTo = [i \in 0..Steps |-> IF i = 0 THEN 0 ELSE TriesUpTo[i - 1] + MaxTries[i]]
    BY <1>3 DEF TriesUpTo
<1> HIDE DEF T, Rec, Good
<1>5. DOMAIN TriesUpTo = 0..Steps
    BY <1>4
<1>6. 0 \in 0..Steps /\ \A i \in 1..Steps : i \in 0..Steps /\ i # 0
    BY SMTT(60), <1>0
<1>7. TriesUpTo[0] = 0
    BY <1>4, <1>6
<1>8. \A i \in 1..Steps : TriesUpTo[i] = TriesUpTo[i - 1] + MaxTries[i]
    BY <1>4, <1>6
<1>9. \A n \in 0..Steps : TriesUpTo[n] \in Nat
  <2> DEFINE U == {n \in 0..Steps : TriesUpTo[n] \notin Nat}
  <2> SUFFICES ASSUME U # {} PROVE FALSE
      OBVIOUS
  <2>1. U \subseteq Nat
      BY SMTT(60), <1>0
  <2>2. PICK n \in U : \A m \in U : n <= m
      BY <2>1, Least
  <2>3. n \in 1..Steps /\ n - 1 \in 0..Steps /\ ~(n <= n - 1)
      BY SMTT(60), <1>0, <1>7
  <2>4. TriesUpTo[n - 1] \in Nat
      BY <2>2, <2>3
  <2>5. TriesUpTo[n] \in Nat
      BY SMTT(60), <1>0, <1>8, <2>3, <2>4
  <2> QED
      BY <2>5
<1>10. TriesUpTo \in [0..Steps -> Nat]
  <2>1. TriesUpTo = [i \in 0..Steps |-> TriesUpTo[i]]
      BY <1>4, <1>5
  <2> QED
      BY <1>9, <2>1
<1> QED
    BY <1>7, <1>8, <1>10

LEMMA TriesGrow ==
    ASSUME NEW i \in 0..Steps PROVE TriesUpTo[i] <= TriesUpTo[Steps]
<1> DEFINE U == {k \in 0..Steps : k >= i /\ ~(TriesUpTo[i] <= TriesUpTo[k])}
<1>0. Steps \in Nat /\ \A k \in 1..Steps : MaxTries[k] \in Nat
    BY SMTT(60), PolicyAssumption
<1>1. U = {}
  <2> SUFFICES ASSUME U # {} PROVE FALSE
      OBVIOUS
  <2>1. U \subseteq Nat
      BY SMTT(60), <1>0
  <2>2. PICK n \in U : \A m \in U : n <= m
      BY <2>1, Least
  <2>3. TriesUpTo[i] \in Nat /\ TriesUpTo[n] \in Nat
      BY TriesUpToIs
  <2>4. n # i
      BY SMTT(60), <2>3
  <2>5. n \in 1..Steps /\ n - 1 \in 0..Steps /\ n - 1 >= i /\ ~(n <= n - 1)
      BY SMTT(60), <1>0, <2>4
  <2>6. TriesUpTo[i] <= TriesUpTo[n - 1]
      BY <2>2, <2>5
  <2>7. TriesUpTo[n] = TriesUpTo[n - 1] + MaxTries[n] /\ TriesUpTo[n - 1] \in Nat
      BY <2>5, TriesUpToIs
  <2>8. TriesUpTo[i] <= TriesUpTo[n]
      BY SMTT(60), <1>0, <2>3, <2>5, <2>6, <2>7
  <2> QED
      BY <2>8
<1>2. Steps \in 0..Steps /\ Steps >= i
    BY SMTT(60), <1>0
<1> QED
    BY <1>1, <1>2

(* The free reconnects that f counts, as a set.                            *)
Reconnects(f) == {x \in Agent \X (1..MaxReconnects) : x[2] <= f[x[1]]}

LEMMA ReconnectsFew ==
    ASSUME NEW f
    PROVE  /\ IsFiniteSet(Reconnects(f)) /\ Cardinality(Reconnects(f)) \in Nat
           /\ Cardinality(Reconnects(f)) <= MaxReconnects * Cardinality(Agent)
<1> DEFINE all == Agent \X (1..MaxReconnects)
<1>1. MaxReconnects \in Nat /\ IsFiniteSet(Agent)
    BY PolicyAssumption, SetsAssumption
<1>2. IsFiniteSet(1..MaxReconnects) /\ Cardinality(1..MaxReconnects) = MaxReconnects
  <2>1. 1 \in Int /\ MaxReconnects \in Int
      BY SMTT(60), <1>1
  <2>2. /\ IsFiniteSet(1..MaxReconnects)
        /\ Cardinality(1..MaxReconnects) = IF 1 > MaxReconnects THEN 0 ELSE MaxReconnects - 1 + 1
      BY <2>1, FS_Interval
  <2> QED
      BY SMTT(60), <1>1, <2>2
<1>3. IsFiniteSet(all) /\ Cardinality(all) = Cardinality(Agent) * MaxReconnects
    BY <1>1, <1>2, FS_Product
<1>4. Reconnects(f) \subseteq all
    BY DEF Reconnects
<1>5. IsFiniteSet(Reconnects(f)) /\ Cardinality(Reconnects(f)) <= Cardinality(all)
    BY <1>3, <1>4, FS_Subset
<1>6. Cardinality(Reconnects(f)) \in Nat /\ Cardinality(Agent) \in Nat
    BY <1>1, <1>5, FS_CardinalityType
<1>7. Cardinality(Agent) * MaxReconnects = MaxReconnects * Cardinality(Agent)
    BY SMTT(60), <1>1, <1>6
<1> QED
    BY <1>3, <1>5, <1>6, <1>7

LEMMA ReconnectMore ==
    ASSUME NEW f \in [Agent -> 0..MaxReconnects], NEW a \in Agent, f[a] < MaxReconnects,
           NEW g, g = [f EXCEPT ![a] = @ + 1]
    PROVE  /\ g \in [Agent -> 0..MaxReconnects]
           /\ Cardinality(Reconnects(g)) = Cardinality(Reconnects(f)) + 1
<1> DEFINE n == f[a] + 1
<1>1. MaxReconnects \in Nat
    BY PolicyAssumption
<1>2. f[a] \in 0..MaxReconnects
    OBVIOUS
<1>3. n \in 1..MaxReconnects /\ n \in 0..MaxReconnects /\ ~(n <= f[a])
    BY SMTT(60), <1>1, <1>2
<1>4. g \in [Agent -> 0..MaxReconnects] /\ g[a] = n /\ \A b \in Agent : b # a => g[b] = f[b]
    BY <1>3
<1>5. ASSUME NEW k \in 1..MaxReconnects PROVE k <= n <=> k <= f[a] \/ k = n
    BY SMTT(60), <1>1, <1>2
<1> HIDE DEF n
<1>6. ASSUME NEW b \in Agent, NEW k \in 1..MaxReconnects
      PROVE  k <= g[b] <=> k <= f[b] \/ <<b, k>> = <<a, n>>
    BY <1>4, <1>5
<1>7. Reconnects(g) = Reconnects(f) \cup {<<a, n>>}
  <2>1. ASSUME NEW x \in Agent \X (1..MaxReconnects)
        PROVE  x[2] <= g[x[1]] <=> x[2] <= f[x[1]] \/ x = <<a, n>>
    <3>1. PICK b \in Agent, k \in 1..MaxReconnects : x = <<b, k>>
        BY SMTT(60), <2>1
    <3>2. x[1] = b /\ x[2] = k
        BY <3>1
    <3> QED
        BY <1>6, <3>1, <3>2
  <2>2. <<a, n>> \in Agent \X (1..MaxReconnects)
      BY <1>3
  <2> QED
      BY <2>1, <2>2 DEF Reconnects
<1>8. <<a, n>> \notin Reconnects(f)
  <2>1. <<a, n>>[1] = a /\ <<a, n>>[2] = n
      OBVIOUS
  <2> QED
      BY <1>3, <2>1 DEF Reconnects
<1>9. Cardinality(Reconnects(f) \cup {<<a, n>>}) = Cardinality(Reconnects(f)) + 1
    BY <1>8, ReconnectsFew, FS_AddElement
<1> QED
    BY <1>4, <1>7, <1>9

(* What a session at step s with t tries and reconnects f has used up.     *)
Spent(s, t, f) == TriesUpTo[s - 1] + t + Cardinality(Reconnects(f))

LEMMA SpentNat ==
    ASSUME NEW s \in 1..(Steps + 1), NEW t \in Nat, NEW f PROVE Spent(s, t, f) \in Nat
<1>1. s - 1 \in 0..Steps
    BY SMTT(60), PolicyAssumption
<1>2. TriesUpTo[s - 1] \in Nat /\ Cardinality(Reconnects(f)) \in Nat
    BY <1>1, TriesUpToIs, ReconnectsFew
<1> QED
    BY SMTT(60), <1>2 DEF Spent

(* A step that is left, with or without another try, was not overdrawn.    *)
LEMMA SpentAdvance ==
    ASSUME NEW s \in 1..Steps, NEW t \in Nat, NEW f, t < MaxTries[s]
    PROVE  /\ s + 1 \in 1..(Steps + 1) /\ (s + 1 <= Steps => 0 < MaxTries[s + 1])
           /\ Spent(s, t, f) + 1 <= Spent(s + 1, 0, f)
<1>1. s - 1 \in 0..Steps /\ s + 1 \in 1..(Steps + 1) /\ (s + 1 <= Steps => s + 1 \in 1..Steps) /\ (s + 1) - 1 = s
    BY SMTT(60), PolicyAssumption
<1>2. MaxTries[s] \in Nat /\ (s + 1 <= Steps => 0 < MaxTries[s + 1])
    BY SMTT(60), <1>1, PolicyAssumption
<1>3. TriesUpTo[s] = TriesUpTo[s - 1] + MaxTries[s] /\ TriesUpTo[s - 1] \in Nat
    BY <1>1, TriesUpToIs
<1>4. Cardinality(Reconnects(f)) \in Nat
    BY ReconnectsFew
<1>5. TriesUpTo[s - 1] + t + Cardinality(Reconnects(f)) + 1 <= TriesUpTo[s] + 0 + Cardinality(Reconnects(f))
    BY SMTT(60), <1>2, <1>3, <1>4
<1>6. Spent(s, t, f) + 1 <= Spent(s + 1, 0, f)
    BY <1>1, <1>5 DEF Spent
<1> QED
    BY <1>1, <1>2, <1>6

(* The positions of a request that is at work in a step of its policy.     *)
AtWork == {"scan", "claim", "enqueue", "parked", "pass", "held", "forward", "stream", "signal"}

(* A forward is under way, or ended and is not charged yet.                *)
Trying(r) == pc[r] \in {"forward", "stream"} \/ (pc[r] = "signal" /\ cont[r] # "retry")

SessionOK ==
    /\ DOMAIN pc = Req /\ DOMAIN step = Req /\ DOMAIN tries = Req /\ DOMAIN recon = Req
    /\ DOMAIN cont = Req /\ DOMAIN attempts = Req

TriesOK(r) ==
    /\ step[r] \in 1..(Steps + 1) /\ tries[r] \in Nat /\ attempts[r] \in Nat
    /\ recon[r] \in [Agent -> 0..MaxReconnects]
    /\ step[r] <= Steps => tries[r] < MaxTries[step[r]]
    /\ step[r] > Steps => tries[r] = 0
    /\ pc[r] \in AtWork => step[r] <= Steps
    /\ pc[r] = "signal" => cont[r] \in {"ok", "err", "retry", "charge", "drained"}
    /\ attempts[r] <= Spent(step[r], tries[r], recon[r]) + (IF Trying(r) THEN 1 ELSE 0)

(* The inductive invariant behind the number of attempts.                  *)
AttemptInv == SessionOK /\ \A r \in Req : TriesOK(r)

LEMMA AttemptsEnough == AttemptInv /\ SlotInv => AttemptsBounded
<1> SUFFICES ASSUME AttemptInv, SlotInv PROVE AttemptsBounded
    OBVIOUS
<1>1. NotAgain
    BY DEF SlotInv, Path, NotAgain, Holding
<1>2. ASSUME NEW r \in Req
      PROVE  attempts[r] <= TriesUpTo[Steps] + MaxReconnects * Cardinality(Agent)
  <2> DEFINE s == step[r]
             t == tries[r]
             f == recon[r]
             c == Cardinality(Reconnects(f))
             m == MaxReconnects * Cardinality(Agent)
  <2>1. TriesOK(r)
      BY DEF AttemptInv
  <2>2. Steps \in Nat /\ Steps \in 0..Steps /\ s \in 1..(Steps + 1) /\ t \in Nat /\ attempts[r] \in Nat
    <3>1. Steps \in Nat
        BY PolicyAssumption
    <3>2. Steps \in 0..Steps
        BY SMTT(60), <3>1
    <3> QED
        BY <2>1, <3>1, <3>2 DEF TriesOK
  <2>3. c \in Nat /\ c <= m /\ m \in Nat
    <3>1. c \in Nat /\ c <= m
        BY ReconnectsFew
    <3>2. MaxReconnects \in Nat /\ Cardinality(Agent) \in Nat
        BY PolicyAssumption, SetsAssumption, FS_CardinalityType
    <3> QED
        BY SMTT(60), <3>1, <3>2
  <2>4. CASE s <= Steps
    <3>1. s \in 1..Steps /\ s \in 0..Steps /\ (s + 1) - 1 = s
        BY SMTT(60), <2>2, <2>4
    <3>2. t < MaxTries[s]
        BY <2>1, <2>4 DEF TriesOK
    <3>3. Spent(s, t, f) + 1 <= Spent(s + 1, 0, f)
        BY <2>2, <3>1, <3>2, SpentAdvance
    <3>4. Spent(s + 1, 0, f) = TriesUpTo[s] + 0 + c
        BY <3>1 DEF Spent
    <3>5. TriesUpTo[s] <= TriesUpTo[Steps] /\ TriesUpTo[s] \in Nat /\ TriesUpTo[Steps] \in Nat
        BY <2>2, <3>1, TriesGrow, TriesUpToIs
    <3>6. attempts[r] <= Spent(s, t, f) \/ attempts[r] <= Spent(s, t, f) + 1
      <4>1. Spent(s, t, f) \in Nat
          BY <2>2, SpentNat
      <4>2. attempts[r] <= Spent(s, t, f) + (IF Trying(r) THEN 1 ELSE 0)
          BY <2>1 DEF TriesOK
      <4> QED
          BY SMTT(60), <2>2, <4>1, <4>2
    <3>7. Spent(s, t, f) \in Nat
        BY <2>2, SpentNat
    <3> HIDE DEF s, t, f, c, m
    <3> QED
        BY SMTT(60), <2>2, <2>3, <3>3, <3>4, <3>5, <3>6, <3>7 DEF m
  <2>5. CASE ~(s <= Steps)
    <3>1. s = Steps + 1 /\ s - 1 = Steps /\ s > Steps
        BY SMTT(60), <2>2, <2>5
    <3>2. t = 0 /\ ~Trying(r)
        BY <2>1, <2>5, <3>1 DEF TriesOK, Trying, AtWork
    <3>3. attempts[r] <= Spent(s, t, f) + 0
        BY <2>1, <3>2 DEF TriesOK
    <3>4. Spent(s, t, f) = TriesUpTo[Steps] + 0 + c /\ TriesUpTo[Steps] \in Nat
        BY <2>2, <3>1, <3>2, TriesUpToIs DEF Spent
    <3> HIDE DEF s, t, f, c, m
    <3> QED
        BY SMTT(60), <2>2, <2>3, <3>3, <3>4 DEF m
  <2> QED
      BY <2>4, <2>5
<1> QED
    BY <1>1, <1>2 DEF AttemptsBounded

SameSession == UNCHANGED <<step, tries, recon, attempts>>

(* A step of r keeps the invariant if it keeps what r contributes to it.   *)
LEMMA AttemptStep ==
    ASSUME AttemptInv, NEW r \in Req, Local(pc, pc', r), Local(step, step', r),
           Local(tries, tries', r), Local(recon, recon', r), Local(cont, cont', r),
           Local(attempts, attempts', r), TriesOK(r)'
    PROVE  AttemptInv'
<1>1. SessionOK'
    BY DEF AttemptInv, SessionOK, Local
<1>2. ASSUME NEW q \in Req, q # r PROVE TriesOK(q)'
  <2>1. /\ pc'[q] = pc[q] /\ step'[q] = step[q] /\ tries'[q] = tries[q]
        /\ recon'[q] = recon[q] /\ cont'[q] = cont[q] /\ attempts'[q] = attempts[q]
      BY <1>2 DEF AttemptInv, SessionOK, Local
  <2>2. TriesOK(q)
      BY DEF AttemptInv
  <2>3. Trying(q)' <=> Trying(q)
      BY <2>1 DEF Trying
  <2>4. Spent(step[q], tries[q], recon[q])' = Spent(step[q], tries[q], recon[q])
      BY <2>1 DEF Spent
  <2> QED
      BY <2>1, <2>2, <2>3, <2>4 DEF TriesOK
<1> QED
    BY <1>1, <1>2 DEF AttemptInv

(* What a session has used up, primed.                                     *)
LEMMA SpentThen ==
    ASSUME NEW r \in Req
    PROVE  Spent(step[r], tries[r], recon[r])' = Spent(step'[r], tries'[r], recon'[r])
    BY DEF Spent

(* A step that leaves the counters alone, and no forward uncharged.        *)
LEMMA AttemptQuiet ==
    ASSUME AttemptInv, NEW r \in Req, SameSession, Local(pc, pc', r), Local(cont, cont', r),
           Trying(r) => Trying(r)', pc'[r] \in AtWork => step[r] <= Steps,
           pc'[r] = "signal" => cont'[r] \in {"ok", "err", "retry", "charge", "drained"}
    PROVE  AttemptInv'
<1>1. TriesOK(r)
    BY DEF AttemptInv
<1>2. Spent(step[r], tries[r], recon[r])' = Spent(step[r], tries[r], recon[r])
    BY DEF SameSession, Spent
<1>3. Spent(step[r], tries[r], recon[r]) \in Nat
    BY <1>1, SpentNat DEF TriesOK
<1>4. attempts'[r] <= Spent(step[r], tries[r], recon[r])' + (IF Trying(r)' THEN 1 ELSE 0)
  <2>1. attempts[r] <= Spent(step[r], tries[r], recon[r]) + (IF Trying(r) THEN 1 ELSE 0)
      BY <1>1 DEF TriesOK
  <2>2. attempts[r] \in Nat /\ attempts'[r] = attempts[r]
      BY <1>1 DEF TriesOK, SameSession
  <2>3. CASE Trying(r) <=> Trying(r)'
      BY <1>2, <2>1, <2>2, <2>3
  <2>4. CASE ~Trying(r) /\ Trying(r)'
    <3>1. attempts[r] <= Spent(step[r], tries[r], recon[r]) + 0
        BY <2>1, <2>4
    <3>2. attempts[r] <= Spent(step[r], tries[r], recon[r]) + 1
        BY SMTT(60), <1>3, <2>2, <3>1
    <3> QED
        BY <1>2, <2>2, <2>4, <3>2
  <2> QED
      BY <2>3, <2>4
<1>5. TriesOK(r)'
    BY <1>1, <1>4 DEF TriesOK, SameSession
<1> QED
    BY <1>5, AttemptStep DEF SameSession, Local

(* A forward charged to the step, which goes on or is left.                *)
LEMMA AttemptCharged ==
    ASSUME AttemptInv, NEW r \in Req, step[r] <= Steps, Local(pc, pc', r),
           pc'[r] \notin AtWork, Local(cont, cont', r), UNCHANGED <<recon, attempts>>,
           \/ /\ step' = [step EXCEPT ![r] = @ + 1] /\ tries' = [tries EXCEPT ![r] = 0]
           \/ /\ tries[r] + 1 < MaxTries[step[r]]
              /\ tries' = [tries EXCEPT ![r] = @ + 1] /\ UNCHANGED step
    PROVE  AttemptInv'
<1> DEFINE s == step[r]
           t == tries[r]
           f == recon[r]
<1>1. TriesOK(r)
    BY DEF AttemptInv
<1>2. s \in 1..Steps /\ t \in Nat /\ t < MaxTries[s] /\ attempts[r] \in Nat /\ Spent(s, t, f) \in Nat
  <2>1. s \in 1..(Steps + 1) /\ t \in Nat /\ t < MaxTries[s] /\ attempts[r] \in Nat
      BY <1>1 DEF TriesOK
  <2>2. s \in 1..Steps
      BY SMTT(60), <2>1, PolicyAssumption
  <2> QED
      BY <2>1, <2>2, SpentNat
<1>3. attempts[r] <= Spent(s, t, f) + 1
  <2>1. attempts[r] <= Spent(s, t, f) + (IF Trying(r) THEN 1 ELSE 0)
      BY <1>1 DEF TriesOK
  <2> QED
      BY SMTT(60), <1>2, <2>1
<1>4. pc'[r] # "signal" /\ ~Trying(r)'
    BY DEF Trying, AtWork
<1>5. CASE step' = [step EXCEPT ![r] = @ + 1] /\ tries' = [tries EXCEPT ![r] = 0]
  <2>1. step'[r] = s + 1 /\ tries'[r] = 0
      BY <1>5 DEF AttemptInv, SessionOK
  <2>2. /\ s + 1 \in 1..(Steps + 1) /\ (s + 1 <= Steps => 0 < MaxTries[s + 1])
        /\ Spent(s, t, f) + 1 <= Spent(s + 1, 0, f) /\ Spent(s + 1, 0, f) \in Nat
      BY <1>2, SpentAdvance, SpentNat
  <2>3. Spent(step[r], tries[r], recon[r])' = Spent(s + 1, 0, f)
      BY <2>1 DEF Spent
  <2>4. attempts[r] <= Spent(s + 1, 0, f)
      BY SMTT(60), <1>2, <1>3, <2>2
  <2>5. attempts'[r] <= Spent(step[r], tries[r], recon[r])' + (IF Trying(r)' THEN 1 ELSE 0)
      BY SMTT(60), <1>4, <2>2, <2>3, <2>4
  <2>6. TriesOK(r)'
      BY SMTT(60), <1>1, <1>4, <2>1, <2>2, <2>5 DEF TriesOK
  <2> QED
      BY <1>5, <2>6, AttemptStep DEF Local
<1>6. CASE /\ tries[r] + 1 < MaxTries[step[r]]
           /\ tries' = [tries EXCEPT ![r] = @ + 1] /\ UNCHANGED step
  <2>1. step'[r] = s /\ tries'[r] = t + 1 /\ t + 1 \in Nat /\ ~(s > Steps)
    <3>1. step'[r] = s /\ tries'[r] = t + 1
        BY <1>6 DEF AttemptInv, SessionOK
    <3>2. t + 1 \in Nat /\ ~(s > Steps)
        BY SMTT(60), <1>2, PolicyAssumption
    <3> QED
        BY <3>1, <3>2
  <2>2. Spent(step[r], tries[r], recon[r])' = Spent(s, t + 1, f)
      BY <2>1 DEF Spent
  <2>3. Spent(s, t + 1, f) = Spent(s, t, f) + 1
    <3>1. s \in 0..Steps /\ s - 1 \in 0..Steps
        BY SMTT(60), <1>2, PolicyAssumption
    <3>2. TriesUpTo[s - 1] \in Nat /\ Cardinality(Reconnects(f)) \in Nat
        BY <3>1, TriesUpToIs, ReconnectsFew
    <3> QED
        BY SMTT(60), <1>2, <3>2 DEF Spent
  <2>4. attempts'[r] <= Spent(step[r], tries[r], recon[r])' + (IF Trying(r)' THEN 1 ELSE 0)
      BY SMTT(60), <1>2, <1>3, <1>4, <2>2, <2>3
  <2>5. TriesOK(r)'
      BY <1>1, <1>4, <1>6, <2>1, <2>4 DEF TriesOK
  <2> QED
      BY <1>6, <2>5, AttemptStep DEF Local
<1> QED
    BY <1>5, <1>6

(* The request is answered.                                                *)
LEMMA AttemptEnds ==
    ASSUME AttemptInv, NEW r \in Req, NEW l, l \in Final, GotoOrEnd(r, l), Local(cont, cont', r)
    PROVE  AttemptInv'
<1> DEFINE none == [a \in Agent |-> 0]
<1>1. /\ pc' = [pc EXCEPT ![r] = l] /\ step' = [step EXCEPT ![r] = 1] /\ tries' = [tries EXCEPT ![r] = 0]
      /\ recon' = [recon EXCEPT ![r] = none] /\ attempts' = [attempts EXCEPT ![r] = 0]
    BY DEF GotoOrEnd, Goto
<1>2. pc'[r] = l /\ step'[r] = 1 /\ tries'[r] = 0 /\ recon'[r] = none /\ attempts'[r] = 0
    BY <1>1 DEF AttemptInv, SessionOK
<1>3. 1 \in 1..Steps /\ 1 \in 1..(Steps + 1) /\ 0 < MaxTries[1] /\ 0 \in Nat /\ ~(1 > Steps)
    BY SMTT(60), PolicyAssumption
<1>4. none \in [Agent -> 0..MaxReconnects]
    BY SMTT(60), PolicyAssumption
<1>5. pc'[r] \notin AtWork /\ pc'[r] # "signal" /\ ~Trying(r)'
    BY <1>2 DEF Final, AtWork, Trying
<1>6. Spent(step[r], tries[r], recon[r])' = Spent(1, 0, none) /\ Spent(1, 0, none) \in Nat
  <2>1. Spent(1, 0, none) \in Nat
      BY <1>3, SpentNat
  <2> QED
      BY <1>2, <2>1 DEF Spent
<1>7. attempts'[r] <= Spent(step[r], tries[r], recon[r])' + (IF Trying(r)' THEN 1 ELSE 0)
    BY SMTT(60), <1>2, <1>5, <1>6
<1>8. TriesOK(r)'
    BY <1>2, <1>3, <1>4, <1>5, <1>7 DEF TriesOK
<1> QED
    BY <1>1, <1>8, AttemptStep DEF Local

(* The request is answered, or goes on with nothing uncharged.             *)
LEMMA AttemptGoes ==
    ASSUME AttemptInv, NEW r \in Req, NEW l, GotoOrEnd(r, l), Local(cont, cont', r),
           l \in Final \/ (l \notin AtWork /\ ~Trying(r))
    PROVE  AttemptInv'
<1>1. CASE l \in Final
    BY <1>1, AttemptEnds
<1>2. CASE l \notin Final
  <2>1. pc' = [pc EXCEPT ![r] = l] /\ SameSession
      BY <1>2 DEF GotoOrEnd, Goto, SameSession
  <2>2. pc'[r] = l /\ l # "signal" /\ l \notin AtWork
      BY <1>2, <2>1 DEF AttemptInv, SessionOK, AtWork
  <2> QED
      BY <1>2, <2>1, <2>2, AttemptQuiet DEF Local
<1> QED
    BY <1>1, <1>2

(* A step of the policy is left before a forward.                          *)
LEMMA AttemptAdvance ==
    ASSUME AttemptInv, NEW r \in Req, advanceStep(r), step[r] <= Steps,
           (pc' = pc /\ pc[r] = "list") \/ Goto(r, "list"), UNCHANGED <<recon, attempts, cont>>
    PROVE  AttemptInv'
<1>1. Local(pc, pc', r) /\ Local(cont, cont', r)
    BY DEF Goto, Local
<1>2. pc'[r] \notin AtWork
    BY DEF Goto, AttemptInv, SessionOK, AtWork
<1> QED
    BY <1>1, <1>2, AttemptCharged DEF advanceStep

(* A step within Select that stays in the step of the policy.              *)
LEMMA AttemptSelects ==
    ASSUME AttemptInv, NEW r \in Req, NEW l, pc' = [pc EXCEPT ![r] = l], l # "signal",
           ~Trying(r), l \in AtWork => step[r] <= Steps, SameSession, UNCHANGED cont
    PROVE  AttemptInv'
<1>1. pc'[r] = l
    BY DEF AttemptInv, SessionOK
<1> QED
    BY <1>1, AttemptQuiet DEF Local

(* Nothing that counts moves.                                              *)
LEMMA AttemptSame ==
    ASSUME AttemptInv, SameSession, UNCHANGED <<pc, cont>> PROVE AttemptInv'
<1>1. ASSUME NEW r \in Req PROVE TriesOK(r)'
  <2>1. TriesOK(r)
      BY DEF AttemptInv
  <2>2. Trying(r)' <=> Trying(r)
      BY DEF Trying
  <2>3. Spent(step[r], tries[r], recon[r])' = Spent(step[r], tries[r], recon[r])
      BY DEF SameSession, Spent
  <2> QED
      BY <2>1, <2>2, <2>3 DEF TriesOK, SameSession
<1>2. SessionOK'
    BY DEF AttemptInv, SessionOK, SameSession
<1> QED
    BY <1>1, <1>2 DEF AttemptInv

LEMMA StartAttempts ==
    ASSUME AttemptInv, NEW r \in Req, Start(r) \/ CheckDeadline(r) \/ Exhausted(r) \/ ProviderEnds(r)
    PROVE  AttemptInv'
<1>1. \E l \in {"err", "ok", "sem", "list", "provider"} : GotoOrEnd(r, l)
    BY DEF Start, CheckDeadline, Exhausted, ProviderEnds
<1>2. ~Trying(r) /\ cont' = cont
    BY DEF Start, CheckDeadline, Exhausted, ProviderEnds, Trying
<1>3. {"err", "ok"} \subseteq Final /\ \A l \in {"sem", "list", "provider"} : l \notin AtWork
    BY DEF Final, AtWork
<1> QED
    BY <1>1, <1>2, <1>3, AttemptGoes DEF Local

LEMMA AcquireSemAttempts ==
    ASSUME AttemptInv, NEW r \in Req, AcquireSem(r) PROVE AttemptInv'
<1>1. /\ pc' = [pc EXCEPT ![r] = "check"] /\ ~Trying(r) /\ SameSession /\ cont' = cont
      /\ "check" \notin AtWork
    BY DEF AcquireSem, Goto, Trying, SameSession, sessVars, AtWork
<1> QED
    BY <1>1, AttemptSelects

LEMMA ListByModelAttempts ==
    ASSUME AttemptInv, NEW r \in Req, ListByModel(r) PROVE AttemptInv'
<1>1. pc[r] = "list" /\ step[r] <= Steps /\ ~Trying(r) /\ UNCHANGED <<recon, attempts, cont>>
    BY DEF ListByModel, Trying
<1>2. CASE advanceStep(r) /\ pc' = pc
    BY <1>1, <1>2, AttemptAdvance
<1>3. CASE Goto(r, "scan") /\ sameStep
  <2>1. pc' = [pc EXCEPT ![r] = "scan"] /\ SameSession
      BY <1>1, <1>3 DEF Goto, sameStep, SameSession
  <2> QED
      BY <1>1, <2>1, AttemptSelects
<1> QED
    BY <1>2, <1>3 DEF ListByModel

LEMMA ScanAttempts ==
    ASSUME AttemptInv, NEW r \in Req, Scan(r) PROVE AttemptInv'
<1>1. pc[r] = "scan" /\ UNCHANGED <<recon, attempts, cont>> /\ ~Trying(r)
    BY DEF Scan, Trying
<1>2. step[r] <= Steps
    BY <1>1 DEF AttemptInv, TriesOK, AtWork
<1>3. \/ sameStep /\ pc' = pc
      \/ sameStep /\ Goto(r, "claim")
      \/ sameStep /\ Goto(r, "enqueue")
      \/ advanceStep(r) /\ Goto(r, "list")
    BY DEF Scan
<1>4. CASE sameStep /\ pc' = pc
    BY <1>1, <1>4, AttemptSame DEF sameStep, SameSession
<1>5. CASE sameStep /\ (Goto(r, "claim") \/ Goto(r, "enqueue"))
    BY <1>1, <1>2, <1>5, AttemptSelects DEF Goto, sameStep, SameSession
<1>6. CASE advanceStep(r) /\ Goto(r, "list")
    BY <1>1, <1>2, <1>6, AttemptAdvance
<1> QED
    BY <1>3, <1>4, <1>5, <1>6

LEMMA ClaimAttempts ==
    ASSUME AttemptInv, NEW r \in Req, Claim(r) PROVE AttemptInv'
<1>1. pc[r] = "claim" /\ SameSession /\ cont' = cont /\ ~Trying(r)
    BY DEF Claim, Trying, SameSession
<1>2. step[r] <= Steps
    BY <1>1 DEF AttemptInv, TriesOK, AtWork
<1>3. \E l \in {"held", "list"} : pc' = [pc EXCEPT ![r] = l]
    BY DEF Claim, Goto
<1> QED
    BY <1>1, <1>2, <1>3, AttemptSelects

LEMMA LineAttempts ==
    ASSUME AttemptInv, NEW r \in Req, WaitInLine(r) \/ Woken(r) \/ CtxDone(r) \/ PassOn(r)
    PROVE  AttemptInv'
<1>1. pc[r] \in {"enqueue", "parked", "pass"} /\ UNCHANGED <<recon, attempts, cont>> /\ ~Trying(r)
    BY DEF WaitInLine, Woken, CtxDone, PassOn, Trying
<1>2. step[r] <= Steps
    BY <1>1 DEF AttemptInv, TriesOK, AtWork
<1>3. \/ advanceStep(r) /\ Goto(r, "list")
      \/ UNCHANGED <<step, tries>> /\ \E l \in {"parked", "list", "pass"} : Goto(r, l)
  <2>1. CASE WaitInLine(r)
      BY <2>1 DEF WaitInLine
  <2>2. CASE Woken(r)
      BY <2>2 DEF Woken, sameStep
  <2>3. CASE CtxDone(r)
      BY <2>3 DEF CtxDone, sameStep
  <2>4. CASE PassOn(r)
      BY <2>4 DEF PassOn
  <2> QED
      BY <2>1, <2>2, <2>3, <2>4
<1>4. CASE advanceStep(r) /\ Goto(r, "list")
    BY <1>1, <1>2, <1>4, AttemptAdvance
<1>5. CASE UNCHANGED <<step, tries>> /\ \E l \in {"parked", "list", "pass"} : Goto(r, l)
    BY <1>1, <1>2, <1>5, AttemptSelects DEF Goto, SameSession
<1> QED
    BY <1>3, <1>4, <1>5

LEMMA HeldAttempts ==
    ASSUME AttemptInv, NEW r \in Req, Held(r) PROVE AttemptInv'
<1>1. pc[r] = "held" /\ UNCHANGED <<step, tries, recon>> /\ ~Trying(r)
    BY DEF Held, Trying
<1>2. TriesOK(r) /\ step[r] <= Steps
    BY <1>1 DEF AttemptInv, TriesOK, AtWork
<1>3. CASE /\ cont' = [cont EXCEPT ![r] = "err"] /\ Goto(r, "signal") /\ UNCHANGED attempts
  <2>1. pc'[r] = "signal" /\ cont'[r] = "err"
      BY <1>3 DEF Goto, AttemptInv, SessionOK
  <2>2. SameSession /\ Local(pc, pc', r) /\ Local(cont, cont', r)
      BY <1>1, <1>3 DEF SameSession, Goto, Local
  <2> QED
      BY <1>1, <1>2, <2>1, <2>2, AttemptQuiet
<1>4. CASE attempts' = [attempts EXCEPT ![r] = @ + 1] /\ Goto(r, "forward") /\ UNCHANGED cont
  <2>1. pc'[r] = "forward" /\ attempts'[r] = attempts[r] + 1 /\ Trying(r)'
      BY <1>4 DEF Goto, AttemptInv, SessionOK, Trying
  <2>2. Spent(step[r], tries[r], recon[r])' = Spent(step[r], tries[r], recon[r])
      BY <1>1 DEF Spent
  <2>3. Spent(step[r], tries[r], recon[r]) \in Nat /\ attempts[r] \in Nat
      BY <1>2, SpentNat DEF TriesOK
  <2>4. attempts[r] <= Spent(step[r], tries[r], recon[r]) + 0
      BY <1>1, <1>2 DEF TriesOK
  <2>5. attempts[r] + 1 <= Spent(step[r], tries[r], recon[r]) + 1 /\ attempts[r] + 1 \in Nat
      BY SMTT(60), <2>3, <2>4
  <2>6. attempts'[r] <= Spent(step[r], tries[r], recon[r])' + (IF Trying(r)' THEN 1 ELSE 0)
      BY <2>1, <2>2, <2>5
  <2>7. TriesOK(r)'
      BY <1>1, <1>2, <2>1, <2>5, <2>6 DEF TriesOK
  <2> QED
      BY <1>1, <1>4, <2>7, AttemptStep DEF Goto, Local
<1> QED
    BY <1>3, <1>4 DEF Held

LEMMA StreamAttempts ==
    ASSUME AttemptInv, NEW r \in Req, StreamStarts(r) \/ DrainEnds(r) PROVE AttemptInv'
<1>1. pc[r] \in {"forward", "stream"} /\ SameSession
    BY DEF StreamStarts, DrainEnds, SameSession, sessVars
<1>2. step[r] <= Steps
    BY <1>1 DEF AttemptInv, TriesOK, AtWork
<1>3. \/ pc'[r] = "stream"
      \/ pc'[r] = "signal" /\ cont'[r] = "drained"
    BY DEF StreamStarts, DrainEnds, Goto, AttemptInv, SessionOK
<1>4. Local(pc, pc', r) /\ Local(cont, cont', r)
    BY DEF StreamStarts, DrainEnds, Goto, Local
<1>5. Trying(r)'
    BY <1>3 DEF Trying
<1> QED
    BY <1>1, <1>2, <1>3, <1>4, <1>5, AttemptQuiet

LEMMA ForwardEndsAttempts ==
    ASSUME AttemptInv, SlotInv, NEW r \in Req, ForwardEnds(r) PROVE AttemptInv'
<1> DEFINE a == obj[r][1]
           f == recon[r]
           g == [f EXCEPT ![a] = @ + 1]
<1>1. /\ pc[r] = "forward" /\ UNCHANGED <<step, tries, attempts>>
      /\ pc' = [pc EXCEPT ![r] = "signal"]
    BY DEF ForwardEnds, Goto
<1>2. PICK c \in {"ok", "err", "retry", "charge"} :
          /\ cont' = [cont EXCEPT ![r] = c]
          /\ recon' = IF c = "retry" THEN [recon EXCEPT ![r][a] = @ + 1] ELSE recon
          /\ c = "retry" => f[a] < MaxReconnects
    BY DEF ForwardEnds, After
<1>3. TriesOK(r) /\ step[r] <= Steps /\ Trying(r)
    BY <1>1 DEF AttemptInv, TriesOK, AtWork, Trying
<1>4. pc'[r] = "signal" /\ cont'[r] = c
    BY <1>1, <1>2 DEF AttemptInv, SessionOK
<1>5. CASE c # "retry"
  <2>1. SameSession /\ Local(pc, pc', r) /\ Local(cont, cont', r)
      BY <1>1, <1>2, <1>5 DEF SameSession, Local
  <2>2. Trying(r)'
      BY <1>4, <1>5 DEF Trying
  <2> QED
      BY <1>3, <1>4, <2>1, <2>2, AttemptQuiet
<1>6. CASE c = "retry"
  <2>1. obj[r] \in Obj /\ a \in Agent
      BY <1>1 DEF SlotInv, Path, Holding, Obj
  <2>2. f \in [Agent -> 0..MaxReconnects] /\ f[a] < MaxReconnects
      BY <1>2, <1>3, <1>6 DEF TriesOK
  <2>3. g \in [Agent -> 0..MaxReconnects] /\ Cardinality(Reconnects(g)) = Cardinality(Reconnects(f)) + 1
      BY SMTT(60), <2>1, <2>2, ReconnectMore
  <2>4. recon' = [recon EXCEPT ![r] = g]
      BY <1>2, <1>6
  <2>5. recon'[r] = g
      BY <2>4 DEF AttemptInv, SessionOK
  <2>6. Spent(step[r], tries[r], recon[r])' = Spent(step[r], tries[r], g)
      BY <1>1, <2>5 DEF Spent
  <2>7. Spent(step[r], tries[r], g) = Spent(step[r], tries[r], f) + 1
    <3>1. step[r] \in 1..(Steps + 1) /\ tries[r] \in Nat
        BY <1>3 DEF TriesOK
    <3>2. step[r] - 1 \in 0..Steps
        BY SMTT(60), <3>1, PolicyAssumption
    <3>3. TriesUpTo[step[r] - 1] \in Nat /\ Cardinality(Reconnects(f)) \in Nat
        BY <3>2, TriesUpToIs, ReconnectsFew
    <3> HIDE DEF f, g
    <3> QED
        BY SMTT(60), <2>3, <3>1, <3>3 DEF Spent
  <2>8. attempts[r] <= Spent(step[r], tries[r], f) + 1
      BY <1>3 DEF TriesOK
  <2>9. ~Trying(r)'
      BY <1>4, <1>6 DEF Trying
  <2>10. Spent(step[r], tries[r], f) \in Nat
      BY <1>3, SpentNat DEF TriesOK
  <2>11. attempts'[r] <= Spent(step[r], tries[r], recon[r])' + (IF Trying(r)' THEN 1 ELSE 0)
    <3>1. attempts[r] <= Spent(step[r], tries[r], g) + 0
        BY SMTT(60), <2>7, <2>8, <2>10
    <3> QED
        BY <1>1, <2>6, <2>9, <3>1
  <2>12. TriesOK(r)'
      BY <1>1, <1>3, <1>4, <1>6, <2>3, <2>5, <2>11 DEF TriesOK
  <2> QED
      BY <1>1, <1>2, <2>4, <2>12, AttemptStep DEF Local
<1> QED
    BY <1>5, <1>6

LEMMA SlotSignalAttempts ==
    ASSUME AttemptInv, NEW r \in Req, SlotSignal(r) PROVE AttemptInv'
<1>1. pc[r] = "signal" /\ Local(cont, cont', r)
    BY DEF SlotSignal, Local
<1>2. TriesOK(r) /\ step[r] <= Steps
    BY <1>1 DEF AttemptInv, TriesOK, AtWork
<1>3. CASE cont[r] = "charge"
  <2>1. RecordFailure(r) /\ Goto(r, "check") /\ UNCHANGED <<recon, attempts>>
      BY <1>3 DEF SlotSignal
  <2>2. Local(pc, pc', r) /\ pc'[r] \notin AtWork
      BY <2>1 DEF Goto, Local, AttemptInv, SessionOK, AtWork
  <2>3. \/ /\ step' = [step EXCEPT ![r] = @ + 1] /\ tries' = [tries EXCEPT ![r] = 0]
        \/ /\ tries[r] + 1 < MaxTries[step[r]]
           /\ tries' = [tries EXCEPT ![r] = @ + 1] /\ UNCHANGED step
    <3>1. CASE tries[r] + 1 >= MaxTries[step[r]]
        BY <2>1, <3>1 DEF RecordFailure, advanceStep
    <3>2. CASE ~(tries[r] + 1 >= MaxTries[step[r]])
      <4>1. tries[r] \in Nat /\ step[r] \in 1..(Steps + 1)
          BY <1>2 DEF TriesOK
      <4>2. MaxTries[step[r]] \in Nat
          BY SMTT(60), <1>2, <4>1, PolicyAssumption
      <4>3. tries[r] + 1 < MaxTries[step[r]]
          BY SMTT(60), <3>2, <4>1, <4>2
      <4> QED
          BY <2>1, <3>2, <4>3 DEF RecordFailure
    <3> QED
        BY <3>1, <3>2
  <2> QED
      BY <1>1, <1>2, <2>1, <2>2, <2>3, AttemptCharged
<1>4. CASE cont[r] \in {"ok", "err", "drained"}
  <2>1. \E l \in {"ok", "err"} : GotoOrEnd(r, l)
      BY <1>4 DEF SlotSignal
  <2> QED
      BY <1>1, <2>1, AttemptEnds DEF Final
<1>5. CASE cont[r] = "retry"
  <2>1. GotoOrEnd(r, "check")
      BY <1>5 DEF SlotSignal
  <2>2. ~Trying(r) /\ "check" \notin AtWork
      BY <1>1, <1>5 DEF Trying, AtWork
  <2> QED
      BY <1>1, <2>1, <2>2, AttemptGoes
<1> QED
    BY <1>1, <1>2, <1>3, <1>4, <1>5 DEF TriesOK

LEMMA InitAttempts == Init => AttemptInv
<1> SUFFICES ASSUME Init PROVE AttemptInv
    OBVIOUS
<1> DEFINE none == [a \in Agent |-> 0]
<1>1. SessionOK
    BY DEF Init, SessionOK
<1>2. 1 \in 1..Steps /\ 1 \in 1..(Steps + 1) /\ 0 < MaxTries[1] /\ 0 \in Nat /\ ~(1 > Steps)
    BY SMTT(60), PolicyAssumption
<1>3. none \in [Agent -> 0..MaxReconnects] /\ Spent(1, 0, none) \in Nat
  <2>1. none \in [Agent -> 0..MaxReconnects]
      BY SMTT(60), PolicyAssumption
  <2> QED
      BY <1>2, <2>1, SpentNat
<1>4. ASSUME NEW r \in Req PROVE TriesOK(r)
  <2>1. step[r] = 1 /\ tries[r] = 0 /\ recon[r] = none /\ attempts[r] = 0 /\ pc[r] \in {"chan", "ok"}
      BY DEF Init
  <2>2. ~Trying(r) /\ pc[r] \notin AtWork /\ pc[r] # "signal"
      BY <2>1 DEF Trying, AtWork
  <2>3. 0 <= Spent(1, 0, none) + 0
      BY SMTT(60), <1>3
  <2>4. attempts[r] <= Spent(step[r], tries[r], recon[r]) + (IF Trying(r) THEN 1 ELSE 0)
      BY <2>1, <2>2, <2>3
  <2> QED
      BY <1>2, <1>3, <2>1, <2>2, <2>4 DEF TriesOK
<1> QED
    BY <1>1, <1>4 DEF AttemptInv

LEMMA NextAttempts == AttemptInv /\ SlotInv /\ [Next]_vars => AttemptInv'
<1> SUFFICES ASSUME AttemptInv, SlotInv, [Next]_vars PROVE AttemptInv'
    OBVIOUS
<1>1. ASSUME NEW r \in Req, Goroutine(r) PROVE AttemptInv'
    BY <1>1, StartAttempts, AcquireSemAttempts, ListByModelAttempts, ScanAttempts,
       ClaimAttempts, LineAttempts, HeldAttempts, StreamAttempts, ForwardEndsAttempts,
       SlotSignalAttempts DEF Goroutine
<1>2. ASSUME NEW r \in Req, DeadlinePasses(r) \/ ClientLeaves(r) PROVE AttemptInv'
    BY <1>2, AttemptSame DEF DeadlinePasses, ClientLeaves, sessVars, SameSession
<1>3. ASSUME NEW a \in Agent, AgentChange(a) PROVE AttemptInv'
  <2>1. UNCHANGED <<pc, cont>> /\ SameSession
      BY <1>3 DEF AgentChange, AgentDown, AgentUp, Register, Unregister, GateFlips, sessVars,
                  SameSession
  <2> QED
      BY <2>1, AttemptSame
<1>4. CASE BroadcastCapacity
    BY <1>4, AttemptSame DEF BroadcastCapacity, sessVars, SameSession
<1>5. CASE AllDone \/ UNCHANGED vars
    BY <1>5, AttemptSame DEF AllDone, vars, sessVars, SameSession
<1> QED
    BY <1>1, <1>2, <1>3, <1>4, <1>5 DEF Next

(* A dispatch ends its retries, whatever the agents do: a request is       *)
(* forwarded at most as often as the steps of its policy allow tries, plus *)
(* the free reconnects of every agent, and within a step not again to an   *)
(* agent charged with a failure (dispatchWithPolicy, RecordFailure).       *)
THEOREM RetriesEnd == Spec => []AttemptsBounded
<1>1. Spec => []AttemptInv
    BY InitAttempts, NextAttempts, SlotInvHolds, PTL DEF Spec
<1> QED
    BY <1>1, SlotInvHolds, AttemptsEnough, PTL

(***************************************************************************)
(* Wake-ups: with one agent, a slot that is freed while requests stand in  *)
(* line is not lost.                                                       *)
(*                                                                         *)
(* The argument counts the requests that answer for an agent (Guards):     *)
(* while a request waits for an agent that only its load keeps it from,    *)
(* and no slot of it was freed behind the request's back, as many requests *)
(* answer for the agent as it has slots. With nobody awake those can only  *)
(* be requests that hold a slot, so no slot is free.                       *)
(***************************************************************************)
(* There is one agent at most.                                             *)
OneAgent == \A a, b \in Agent : a = b

(* In line, and not yet signalled.                                         *)
Waits(r) == pc[r] = "parked" /\ r \notin token

(* Only a slot keeps the request from the agents.                          *)
Fit(r) == /\ step[r] <= Steps /\ reason[r] = "nocapacity" /\ QueueDepth > 0
          /\ \A a \in Agent : a \in Match[step[r]] /\ a \notin failed[r]

Open(r, o) == healthy[o] /\ (step[r] \in GatedStep => o[1] \in gate)

(* Request q answers for a slot of o: it holds one, has yet to signal that *)
(* it released one, or was signalled and has yet to find o free or taken.  *)
Guard(q, o) ==
    \/ pc[q] \in Holding \cup {"claim"} /\ obj[q] = o
    \/ pc[q] \in {"pass", "signal"} \/ q \in token
    \/ ticket[q] # 0 /\ pc[q] = "list"
    \/ ticket[q] # 0 /\ pc[q] = "scan" /\ o \in snap[q]

Guards(o) == {q \in Req : Guard(q, o)}

(* Request r waits for o with nothing in the way but its load, and has not *)
(* missed an improvement of it.                                            *)
Needs(r, o) == /\ Waits(r) /\ o \in Listed /\ Open(r, o) /\ o \notin stale[r]
               /\ news = 0

InStep(r) ==
    /\ ticket[r] # 0 => pc[r] \in {"list", "scan", "claim", "enqueue", "parked", "pass"}
    /\ ticket[r] # 0 \/ pc[r] = "enqueue" => Fit(r)
    /\ pc[r] = "scan" => DOMAIN seen[r] = {} /\ \E x \in Obj : snap[r] = {x}
    /\ pc[r] \in {"enqueue", "parked"} => snap[r] \subseteq DOMAIN seen[r]
    /\ pc[r] = "parked" => ticket[r] # 0

(* What a scan cannot see any more is marked as missed.                    *)
Scanned(r) ==
    /\ pc[r] = "scan" => Listed \subseteq snap[r] \cup stale[r]
    /\ pc[r] = "enqueue" => \A o \in Listed : Class(r, o) = "ok" => o \in stale[r]

WakeTypes == healthy \in [Obj -> BOOLEAN] /\ news \in Nat /\ DOMAIN stale = Req /\ DOMAIN reason = Req

Guarded == \A r \in Req, o \in Obj : Needs(r, o) => Capacity[o[1]] <= Cardinality(Guards(o))

(* The inductive invariant behind the wake-ups: each slot that a waiting   *)
(* request could use has a request that answers for it.                    *)
WakeInv == WakeTypes /\ (\A r \in Req : InStep(r) /\ Scanned(r)) /\ Guarded

LEMMA GuardsFinite ==
    ASSUME NEW o PROVE IsFiniteSet(Guards(o)) /\ IsFiniteSet(Guards(o)')
<1>1. Guards(o) \subseteq Req /\ Guards(o)' \subseteq Req
    BY DEF Guards
<1> QED
    BY <1>1, SetsAssumption, FS_Subset

(* No guard of o stands down.                                              *)
LEMMA GuardsMore ==
    ASSUME NEW o, \A q \in Req : Guard(q, o) => Guard(q, o)'
    PROVE  Cardinality(Guards(o)) <= Cardinality(Guards(o)')
<1>1. Guards(o) \subseteq Guards(o)'
    BY DEF Guards
<1> QED
    BY <1>1, GuardsFinite, FS_Subset

(* Guard q stands down and h takes its place.                              *)
LEMMA GuardsSwap ==
    ASSUME NEW o, NEW q \in Req, NEW h \in Req, ~Guard(h, o), Guard(h, o)',
           \A p \in Req : p # q /\ Guard(p, o) => Guard(p, o)'
    PROVE  Cardinality(Guards(o)) <= Cardinality(Guards(o)')
<1> DEFINE G == Guards(o)
           F == Guards(o)'
<1>1. IsFiniteSet(G) /\ IsFiniteSet(F)
    BY GuardsFinite
<1>2. h \notin G /\ (G \ {q}) \cup {h} \subseteq F
    BY DEF Guards
<1> HIDE DEF G, F
<1>3. IsFiniteSet(G \ {q}) /\ h \notin G \ {q}
    BY <1>1, <1>2, FS_RemoveElement
<1>4. /\ IsFiniteSet((G \ {q}) \cup {h})
      /\ Cardinality((G \ {q}) \cup {h}) = Cardinality(G \ {q}) + 1
    BY <1>3, FS_AddElement
<1>5. Cardinality((G \ {q}) \cup {h}) <= Cardinality(F)
    BY <1>1, <1>2, FS_Subset
<1>6. /\ Cardinality(G) \in Nat /\ Cardinality(F) \in Nat /\ Cardinality(G \ {q}) \in Nat
      /\ q \in G => Cardinality(G \ {q}) = Cardinality(G) - 1
      /\ q \notin G => G \ {q} = G
    BY SMTT(60), <1>1, <1>3, FS_RemoveElement, FS_CardinalityType
<1>7. Cardinality(G) <= Cardinality(G \ {q}) + 1
    BY SMTT(60), <1>6
<1>8. Cardinality(G) <= Cardinality(F)
    BY SMTT(60), <1>4, <1>5, <1>6, <1>7
<1> QED
    BY <1>8 DEF G, F

(* A full agent is guarded by those that hold its slots.                   *)
LEMMA FullGuarded ==
    ASSUME SlotInv', NEW o \in Obj, load'[o] >= Capacity[o[1]]
    PROVE  Capacity[o[1]] <= Cardinality(Guards(o)')
<1>1. load'[o] = Cardinality(Holders(o)')
    BY DEF SlotInv, SlotsExact
<1>2. Holders(o)' \subseteq Guards(o)'
    BY DEF Holders, Guards, Guard, Holding
<1>3. Cardinality(Holders(o)') <= Cardinality(Guards(o)')
    BY <1>2, GuardsFinite, FS_Subset
<1>4. IsFiniteSet(Holders(o)') /\ Cardinality(Holders(o)') \in Nat /\ Cardinality(Guards(o)') \in Nat
    BY <1>2, GuardsFinite, FS_Subset, FS_CardinalityType
<1>5. Capacity[o[1]] \in Nat
    BY BoundsAssumption DEF Obj
<1> QED
    BY SMTT(60), <1>1, <1>3, <1>4, <1>5

(* A step keeps the slots guarded if it adds no need and loses no guard,   *)
(* or leaves the slot guarded otherwise.                                   *)
LEMMA GuardedStep ==
    ASSUME Guarded,
           \A r \in Req, o \in Obj : Needs(r, o)' =>
             \/ Needs(r, o) /\ Cardinality(Guards(o)) <= Cardinality(Guards(o)')
             \/ Capacity[o[1]] <= Cardinality(Guards(o)')
    PROVE  Guarded'
<1> SUFFICES ASSUME NEW r \in Req, NEW o \in Obj, Needs(r, o)'
             PROVE  Capacity[o[1]] <= Cardinality(Guards(o)')
    BY DEF Guarded
<1>1. CASE Needs(r, o) /\ Cardinality(Guards(o)) <= Cardinality(Guards(o)')
  <2>1. Capacity[o[1]] <= Cardinality(Guards(o))
      BY <1>1 DEF Guarded
  <2>2. Capacity[o[1]] \in Nat
      BY BoundsAssumption DEF Obj
  <2>3. Cardinality(Guards(o)) \in Nat /\ Cardinality(Guards(o)') \in Nat
      BY GuardsFinite, FS_CardinalityType
  <2> QED
      BY SMTT(60), <1>1, <2>1, <2>2, <2>3
<1> QED
    BY <1>1

(* A step of q, which does not end in the line, adds no need.              *)
LEMMA NeedsKept ==
    ASSUME SlotInv, AttemptInv, NEW q \in Req, Local(pc, pc', q), Local(step, step', q),
           pc'[q] # "parked", token \subseteq token' \cup {q},
           UNCHANGED <<made, listed, healthy, gate, news>>,
           \A r \in Req : r # q => stale[r] \subseteq stale'[r],
           NEW r \in Req, NEW o \in Obj, Needs(r, o)'
    PROVE  Needs(r, o) /\ r # q /\ o \in Listed'
<1>1. Waits(r)' /\ r # q /\ o \in Listed'
    BY DEF Needs, Waits
<1>2. pc'[r] = pc[r] /\ step'[r] = step[r]
    BY <1>1 DEF SlotInv, PerRequest, AttemptInv, SessionOK, Local
<1>3. Listed' = Listed
    BY DEF Listed, Current
<1>4. Waits(r) /\ Open(r, o)
    BY <1>1, <1>2 DEF Needs, Waits, Open
<1> QED
    BY <1>1, <1>3, <1>4 DEF Needs

(* The same, and no guard of a listed object stands down.                  *)
LEMMA GuardedQuiet ==
    ASSUME SlotInv, AttemptInv, Guarded, NEW q \in Req, Local(pc, pc', q), Local(step, step', q),
           Local(obj, obj', q), Local(snap, snap', q), Local(ticket, ticket', q), DOMAIN ticket = Req,
           pc'[q] # "parked", token \subseteq token' \cup {q},
           UNCHANGED <<made, listed, healthy, gate, news>>,
           \A r \in Req : r # q => stale[r] \subseteq stale'[r],
           \A o \in Listed : Guard(q, o) => Guard(q, o)'
    PROVE  Guarded'
<1> SUFFICES ASSUME NEW r \in Req, NEW o \in Obj, Needs(r, o)'
             PROVE  Needs(r, o) /\ Cardinality(Guards(o)) <= Cardinality(Guards(o)')
    BY GuardedStep
<1>1. Needs(r, o) /\ o \in Listed
    BY NeedsKept DEF Needs
<1>2. ASSUME NEW p \in Req, p # q, Guard(p, o) PROVE Guard(p, o)'
  <2>1. /\ pc'[p] = pc[p] /\ obj'[p] = obj[p] /\ snap'[p] = snap[p] /\ ticket'[p] = ticket[p]
        /\ p \in token => p \in token'
      BY <1>2 DEF SlotInv, PerRequest, Local
  <2> QED
      BY <1>2, <2>1 DEF Guard
<1>3. \A p \in Req : Guard(p, o) => Guard(p, o)'
    BY <1>1, <1>2
<1> QED
    BY <1>1, <1>3, GuardsMore

(***************************************************************************)
(* What a step of one request leaves of the others' scans                  *)
(***************************************************************************)
LEMMA ClassOk ==
    ASSUME NEW r, NEW o
    PROVE  Class(r, o) = "ok" <=>
             /\ healthy[o] /\ o[1] \in Match[step[r]] /\ o[1] \notin failed[r]
             /\ ~(load[o] >= Capacity[o[1]])
             /\ ~(step[r] \in GatedStep /\ o[1] \notin gate)
    BY DEF Class

LEMMA ClassOkThen ==
    ASSUME NEW r, NEW o
    PROVE  Class(r, o)' = "ok" <=>
             /\ healthy'[o] /\ o[1] \in Match[step'[r]] /\ o[1] \notin failed'[r]
             /\ ~(load'[o] >= Capacity[o[1]])
             /\ ~(step'[r] \in GatedStep /\ o[1] \notin gate')
    BY DEF Class

(* A request's scan stays true: what got better for it is marked or will   *)
(* be read.                                                                *)
LEMMA ScannedKept ==
    ASSUME NEW r \in Req, InStep(r), Scanned(r), pc'[r] = pc[r], snap'[r] = snap[r],
           stale[r] \subseteq stale'[r],
           pc[r] \in {"scan", "enqueue"} => \A o \in Listed' :
               \/ o \in Listed /\ (Class(r, o)' = "ok" => Class(r, o) = "ok")
               \/ o \in (snap[r] \ DOMAIN seen[r]) \cup stale'[r]
    PROVE  Scanned(r)'
<1>1. pc'[r] = "scan" => Listed' \subseteq snap'[r] \cup stale'[r]
    BY DEF Scanned
<1>2. pc'[r] = "enqueue" => \A o \in Listed' : Class(r, o)' = "ok" => o \in stale'[r]
    BY DEF Scanned, InStep
<1> QED
    BY <1>1, <1>2 DEF Scanned

LocalSession(q) ==
    /\ Local(pc, pc', q) /\ Local(step, step', q) /\ Local(failed, failed', q)
    /\ Local(reason, reason', q) /\ Local(ticket, ticket', q) /\ Local(snap, snap', q)
    /\ Local(seen, seen', q)

AllInv == SlotInv /\ QueueInv /\ AttemptInv /\ WakeInv

LEMMA OthersSame ==
    ASSUME AllInv, NEW q \in Req, LocalSession(q), NEW r \in Req, r # q
    PROVE  /\ pc'[r] = pc[r] /\ step'[r] = step[r] /\ failed'[r] = failed[r]
           /\ reason'[r] = reason[r] /\ ticket'[r] = ticket[r] /\ snap'[r] = snap[r]
           /\ seen'[r] = seen[r]
<1>1. /\ DOMAIN pc = Req /\ DOMAIN step = Req /\ DOMAIN failed = Req /\ DOMAIN reason = Req
      /\ DOMAIN ticket = Req /\ DOMAIN snap = Req /\ DOMAIN seen = Req
    BY DEF AllInv, SlotInv, PerRequest, QueueInv, PlaceOK, AttemptInv, SessionOK, WakeInv, WakeTypes
<1> QED
    BY <1>1 DEF LocalSession, Local

(* A step of q keeps the invariant if it keeps what q contributes, and     *)
(* marks for the others the slot it frees.                                 *)
LEMMA WakeStep ==
    ASSUME AllInv, NEW q \in Req, LocalSession(q),
           UNCHANGED <<made, listed, healthy, gate, news>>,
           DOMAIN stale' = Req, \A r \in Req : r # q => stale[r] \subseteq stale'[r],
           \A o \in Obj : \/ load[o] >= Capacity[o[1]] => load'[o] >= Capacity[o[1]]
                          \/ Improve(o),
           InStep(q)', Scanned(q)', Guarded'
    PROVE  WakeInv'
<1>1. WakeTypes'
    BY DEF AllInv, WakeInv, WakeTypes, LocalSession, Local
<1>2. ASSUME NEW r \in Req, r # q PROVE InStep(r)' /\ Scanned(r)'
  <2>1. /\ pc'[r] = pc[r] /\ step'[r] = step[r] /\ failed'[r] = failed[r]
        /\ reason'[r] = reason[r] /\ ticket'[r] = ticket[r] /\ snap'[r] = snap[r]
        /\ seen'[r] = seen[r]
      BY <1>2, OthersSame
  <2>2. InStep(r) /\ Scanned(r)
      BY DEF AllInv, WakeInv
  <2>3. InStep(r)'
      BY <2>1, <2>2 DEF InStep, Fit
  <2>4. Listed' = Listed /\ Listed \subseteq Obj
      BY ListedObj DEF Listed, Current, AllInv, SlotInv
  <2>5. ASSUME NEW o \in Listed, pc[r] \in {"scan", "enqueue"}
        PROVE  \/ Class(r, o)' = "ok" => Class(r, o) = "ok"
               \/ o \in (snap[r] \ DOMAIN seen[r]) \cup stale'[r]
    <3>1. CASE load[o] >= Capacity[o[1]] => load'[o] >= Capacity[o[1]]
        BY <2>1, <3>1, ClassOk, ClassOkThen
    <3>2. CASE Improve(o)
        BY SMTT(60), <2>5, <3>2 DEF Improve, MissedAt
    <3> QED
        BY <2>4, <3>1, <3>2
  <2>6. Scanned(r)'
      BY <1>2, <2>1, <2>2, <2>4, <2>5, ScannedKept
  <2> QED
      BY <2>3, <2>6
<1> QED
    BY <1>1, <1>2 DEF WakeInv

(* The same for a step that ends out of line and gives up no guard.        *)
LEMMA WakeQuiet ==
    ASSUME AllInv, NEW q \in Req, LocalSession(q), Local(obj, obj', q),
           UNCHANGED <<made, listed, healthy, gate, news>>, token \subseteq token' \cup {q},
           DOMAIN stale' = Req, \A r \in Req : r # q => stale[r] \subseteq stale'[r],
           \A o \in Obj : \/ load[o] >= Capacity[o[1]] => load'[o] >= Capacity[o[1]]
                          \/ Improve(o),
           pc'[q] \notin {"scan", "enqueue", "parked"}, InStep(q)',
           \A o \in Listed : Guard(q, o) => Guard(q, o)'
    PROVE  WakeInv'
<1>1. Scanned(q)'
    BY DEF Scanned
<1>2. DOMAIN ticket = Req
    BY DEF AllInv, QueueInv, PlaceOK
<1>3. Guarded'
    BY <1>2, GuardedQuiet DEF AllInv, WakeInv, LocalSession
<1> QED
    BY <1>1, <1>3, WakeStep

(***************************************************************************)
(* The steps out of line                                                   *)
(***************************************************************************)
LEMMA InStepOut ==
    ASSUME NEW q \in Req, ticket'[q] = 0, pc'[q] \notin {"scan", "enqueue", "parked"}
    PROVE  InStep(q)'
    BY DEF InStep

(* Nothing is improved or forgotten.                                       *)
SameAgents == UNCHANGED <<made, listed, healthy, load, gate, news>>

(* A step of q between positions in which it has no place in line and      *)
(* answers for no slot, unless it starts to.                               *)
LEMMA WakeIdle ==
    ASSUME AllInv, NEW q \in Req, LocalSession(q), Local(obj, obj', q), SameAgents,
           UNCHANGED <<token, stale>>, ticket[q] = 0, ticket'[q] = 0,
           pc[q] \in {"chan", "sem", "check", "list", "provider"},
           pc'[q] \in {"sem", "check", "list", "provider", "ok", "err"}
    PROVE  WakeInv'
<1>1. InStep(q)'
    BY InStepOut
<1>2. \A o : Guard(q, o) => Guard(q, o)'
    BY DEF Guard, Holding
<1>3. DOMAIN stale' = Req /\ \A r \in Req : stale[r] \subseteq stale'[r]
    BY DEF AllInv, WakeInv, WakeTypes
<1> QED
    BY <1>1, <1>2, <1>3, WakeQuiet DEF SameAgents

LEMMA EndsSession ==
    ASSUME AllInv, NEW q \in Req, NEW l, GotoOrEnd(q, l), UNCHANGED <<snap, seen>>
    PROVE  LocalSession(q) /\ pc'[q] = l /\ ticket'[q] \in {ticket[q], 0}
<1>1. LocalSession(q)
    BY DEF GotoOrEnd, Goto, LocalSession, Local
<1>2. pc'[q] = l /\ ticket'[q] \in {ticket[q], 0}
    BY DEF GotoOrEnd, Goto, AllInv, SlotInv, PerRequest, QueueInv, PlaceOK
<1> QED
    BY <1>1, <1>2

(* Only a request in Select has a place in line.                           *)
LEMMA NoTicket ==
    ASSUME AllInv, NEW q \in Req,
           \/ pc[q] \notin {"list", "scan", "claim", "enqueue", "parked", "pass"}
           \/ step[q] > Steps
    PROVE  ticket[q] = 0
<1>1. InStep(q) /\ TriesOK(q)
    BY DEF AllInv, WakeInv, AttemptInv
<1>2. step[q] > Steps => ~(step[q] <= Steps)
  <2>1. step[q] \in 1..(Steps + 1) /\ Steps \in Nat
      BY <1>1, PolicyAssumption DEF TriesOK
  <2> QED
      BY SMTT(60), <2>1
<1> QED
    BY <1>1, <1>2 DEF InStep, Fit

LEMMA StartWake ==
    ASSUME AllInv, NEW q \in Req, Start(q) \/ CheckDeadline(q) \/ Exhausted(q) \/ ProviderEnds(q)
    PROVE  WakeInv'
<1>1. \E l \in {"err", "ok", "sem", "list", "provider"} : GotoOrEnd(q, l)
    BY DEF Start, CheckDeadline, Exhausted, ProviderEnds
<1>2. /\ pc[q] \in {"chan", "check", "list", "provider"} /\ UNCHANGED <<snap, seen, stale, token, obj>>
      /\ SameAgents
    BY DEF Start, CheckDeadline, Exhausted, ProviderEnds, agentVars, queueVars, SameAgents
<1>3. ticket[q] = 0
    BY NoTicket DEF Start, CheckDeadline, Exhausted, ProviderEnds
<1>4. LocalSession(q) /\ ticket'[q] = 0 /\ pc'[q] \in {"err", "ok", "sem", "list", "provider"}
    BY <1>1, <1>2, <1>3, EndsSession
<1> QED
    BY <1>2, <1>3, <1>4, WakeIdle DEF Local

LEMMA AcquireSemWake ==
    ASSUME AllInv, NEW q \in Req, AcquireSem(q) PROVE WakeInv'
<1>1. pc[q] = "sem" /\ pc' = [pc EXCEPT ![q] = "check"] /\ UNCHANGED <<token, obj, sessVars>> /\ SameAgents
    BY DEF AcquireSem, Goto, agentVars, queueVars, SameAgents
<1>2. ticket[q] = 0 /\ pc'[q] = "check"
    BY <1>1, NoTicket DEF AllInv, SlotInv, PerRequest
<1>3. LocalSession(q)
    BY <1>1 DEF LocalSession, Local, sessVars
<1> QED
    BY <1>1, <1>2, <1>3, WakeIdle DEF Local, sessVars

(***************************************************************************)
(* Selecting                                                               *)
(***************************************************************************)
(* A step of the policy is left.                                           *)
LEMMA AdvanceSession ==
    ASSUME AllInv, NEW q \in Req, advanceStep(q), pc' = pc \/ Goto(q, "list"),
           Local(snap, snap', q), Local(seen, seen', q), Local(reason, reason', q)
    PROVE  LocalSession(q) /\ ticket'[q] = 0
<1>1. LocalSession(q)
    BY DEF advanceStep, Goto, LocalSession, Local
<1>2. ticket'[q] = 0
    BY DEF advanceStep, AllInv, QueueInv, PlaceOK
<1> QED
    BY <1>1, <1>2

LEMMA ListByModelWake ==
    ASSUME OneAgent, AllInv, NEW q \in Req, ListByModel(q) PROVE WakeInv'
<1>1. /\ pc[q] = "list" /\ snap' = [snap EXCEPT ![q] = Listed] /\ SameAgents
      /\ UNCHANGED <<seen, stale, token, obj>>
    BY DEF ListByModel, agentVars, queueVars, SameAgents
<1>2. DOMAIN stale' = Req /\ \A r \in Req : stale[r] \subseteq stale'[r]
    BY <1>1 DEF AllInv, WakeInv, WakeTypes
<1>3. CASE Listed = {} /\ advanceStep(q) /\ pc' = pc /\ reason' = [reason EXCEPT ![q] = "notfound"]
  <2>1. LocalSession(q) /\ ticket'[q] = 0
      BY <1>1, <1>3, AdvanceSession DEF Local
  <2>2. InStep(q)'
      BY <1>1, <1>3, <2>1, InStepOut
  <2> QED
      BY <1>1, <1>2, <1>3, <2>1, <2>2, WakeQuiet DEF SameAgents, Local
<1>4. CASE Listed # {} /\ Goto(q, "scan") /\ sameStep /\ UNCHANGED reason
  <2>1. LocalSession(q)
      BY <1>1, <1>4 DEF LocalSession, Local, Goto, sameStep
  <2>2. pc'[q] = "scan" /\ snap'[q] = Listed
      BY <1>1, <1>4 DEF Goto, AllInv, SlotInv, PerRequest
  <2>3. DOMAIN seen'[q] = {}
      BY <1>1 DEF AllInv, SlotInv, Path, Reading
  <2>4. \E x \in Obj : Listed = {x}
    <3>1. PICK x \in Listed : TRUE
        BY <1>4
    <3>2. Listed \subseteq Obj
        BY ListedObj DEF AllInv, SlotInv
    <3>3. \A y \in Listed : y = x
      <4>1. listed \subseteq Agent
          BY DEF AllInv, SlotInv, AgentsOK
      <4> QED
          BY <3>1, <4>1 DEF Listed, Current, OneAgent
    <3> QED
        BY <3>1, <3>2, <3>3
  <2>5. InStep(q) /\ ticket' = ticket
      BY <1>4 DEF AllInv, WakeInv, sameStep
  <2>6. Fit(q) => Fit(q)'
      BY <1>4 DEF Fit, sameStep
  <2>7. InStep(q)'
      BY <2>2, <2>3, <2>4, <2>5, <2>6 DEF InStep
  <2>8. Scanned(q)'
      BY <1>1, <2>2 DEF Scanned, Listed, Current, SameAgents
  <2>9. \A o \in Listed : Guard(q, o) => Guard(q, o)'
      BY <1>1, <2>2, <2>5 DEF Guard, Holding
  <2>10. DOMAIN ticket = Req
      BY DEF AllInv, QueueInv, PlaceOK
  <2>11. Guarded'
      BY <1>1, <1>2, <2>1, <2>2, <2>9, <2>10, GuardedQuiet
         DEF AllInv, WakeInv, LocalSession, SameAgents, Local
  <2> QED
      BY <1>1, <1>2, <2>1, <2>7, <2>8, <2>11, WakeStep DEF SameAgents
<1> QED
    BY <1>3, <1>4 DEF ListByModel

(* The reason after a scan of one agent.                                   *)
LEMMA ReasonOne ==
    ASSUME NEW r, NEW x, NEW found, DOMAIN found = {x}
    PROVE  /\ found[x] = "unhealthy" => ReasonAfter(r, found) = "noagents"
           /\ found[x] = "full" => ReasonAfter(r, found) = "nocapacity"
           /\ found[x] = "gate" => ReasonAfter(r, found) = reason[r]
           /\ found[x] \in {"filter", "failed"} => ReasonAfter(r, found) # "nocapacity"
<1> DEFINE Is(c) == {o \in DOMAIN found : found[o] = c}
           all == UNION {Is(c) : c \in {"unhealthy", "full", "failed"}}
           A == Is("unhealthy") = DOMAIN found
           B == Is("full") # {} /\ DOMAIN found = all
           C == Is("full") = {} /\ Is("gate") = {} /\ reason[r] = "nocapacity"
<1>1. \A c : (found[x] = c => Is(c) = {x}) /\ (found[x] # c => Is(c) = {})
    OBVIOUS
<1>2. found[x] = "full" => all = {x}
  <2> SUFFICES ASSUME found[x] = "full" PROVE all = {x}
      OBVIOUS
  <2>1. Is("unhealthy") = {} /\ Is("full") = {x} /\ Is("failed") = {}
      BY <1>1
  <2>2. \A y : y \in all <=> y \in Is("unhealthy") \/ y \in Is("full") \/ y \in Is("failed")
      OBVIOUS
  <2> HIDE DEF all, Is
  <2> QED
      BY <2>1, <2>2
<1>3. /\ A <=> found[x] = "unhealthy"
      /\ B => found[x] = "full"
      /\ found[x] = "full" => B
      /\ C <=> found[x] \notin {"full", "gate"} /\ reason[r] = "nocapacity"
  <2> HIDE DEF all, Is
  <2>1. A <=> found[x] = "unhealthy"
      BY <1>1
  <2>2. B => found[x] = "full"
      BY <1>1
  <2>3. found[x] = "full" => B
      BY <1>1, <1>2
  <2>4. C <=> found[x] \notin {"full", "gate"} /\ reason[r] = "nocapacity"
      BY <1>1
  <2> QED
      BY <2>1, <2>2, <2>3, <2>4
<1>4. ReasonAfter(r, found) = CASE A -> "noagents" [] B -> "nocapacity" [] C -> "noagents"
                                [] OTHER -> reason[r]
    BY DEF ReasonAfter
<1> HIDE DEF A, B, C
<1>5. found[x] = "unhealthy" => ReasonAfter(r, found) = "noagents"
    BY <1>3, <1>4
<1>6. found[x] = "full" => ReasonAfter(r, found) = "nocapacity"
    BY <1>3, <1>4
<1>7. found[x] = "gate" => ReasonAfter(r, found) = reason[r]
    BY <1>3, <1>4
<1>8. found[x] \in {"filter", "failed"} => ReasonAfter(r, found) # "nocapacity"
    BY <1>3, <1>4
<1> QED
    BY <1>5, <1>6, <1>7, <1>8

(* With one agent a scan reads one object and draws its conclusion.        *)
Finds(q, x) ==
    /\ obj' = [obj EXCEPT ![q] = x] /\ Goto(q, "claim") /\ Forget(q) /\ sameStep
    /\ UNCHANGED reason

Parks(q, x) ==
    /\ QueueDepth > 0 /\ reason' = [reason EXCEPT ![q] = "nocapacity"]
    /\ Local(seen, seen', q) /\ x \in DOMAIN seen'[q]
    /\ Absorbed(q, {y \in {x} : Class(q, x) = "gate"})
    /\ Goto(q, "enqueue") /\ sameStep /\ UNCHANGED <<snap, obj>>

LeavesStep(q) ==
    /\ Goto(q, "list") /\ advanceStep(q) /\ Forget(q) /\ Local(reason, reason', q)
    /\ UNCHANGED obj

LEMMA ScanOne ==
    ASSUME AllInv, NEW q \in Req, Scan(q)
    PROVE  \E x \in Obj :
             /\ snap[q] = {x}
             /\ \/ Class(q, x) = "ok" /\ Finds(q, x)
                \/ Class(q, x) \in {"full", "gate"} /\ Parks(q, x)
                \/ /\ LeavesStep(q) /\ Class(q, x) # "ok"
                   /\ QueueDepth > 0 /\ reason[q] = "nocapacity" => Class(q, x) \notin {"full", "gate"}
<1>1. pc[q] = "scan" /\ InStep(q)
    BY DEF Scan, AllInv, WakeInv
<1>2. DOMAIN seen[q] = {}
    BY <1>1 DEF InStep
<1>3. PICK x \in Obj : snap[q] = {x}
    BY <1>1 DEF InStep
<1> DEFINE left == snap[q] \ DOMAIN seen[q]
           o == CHOOSE y \in left : \A z \in left : y[1] <= z[1]
           found == [y \in DOMAIN seen[q] \cup {o} |-> IF y = o THEN Class(q, o) ELSE seen[q][y]]
           good == {y \in DOMAIN found : found[y] = "ok"}
           why == ReasonAfter(q, found)
<1>4. left = {x} /\ o = x
  <2>1. left = {x}
      BY <1>2, <1>3
  <2>2. x[1] <= x[1]
    <3>1. x[1] \in Nat
        BY SetsAssumption DEF Obj
    <3> QED
        BY SMTT(60), <3>1
  <2>3. o \in left
      BY <2>1, <2>2
  <2> QED
      BY <2>1, <2>3
<1>5. DOMAIN found = {x} /\ found[x] = Class(q, x)
    BY <1>2, <1>4
<1>6. /\ Class(q, x) = "ok" => good = {x}
      /\ Class(q, x) # "ok" => good = {}
    BY <1>5
<1>7. {y \in DOMAIN found : found[y] = "gate"} = {y \in {x} : Class(q, x) = "gate"}
    BY <1>5
<1>8. Class(q, x) \in {"unhealthy", "filter", "failed", "full", "gate", "ok"}
    BY DEF Class
<1>9. /\ Class(q, x) = "unhealthy" => why = "noagents"
      /\ Class(q, x) = "full" => why = "nocapacity"
      /\ Class(q, x) = "gate" => why = reason[q]
      /\ Class(q, x) \in {"filter", "failed"} => why # "nocapacity"
  <2> HIDE DEF found
  <2>1. /\ found[x] = "unhealthy" => ReasonAfter(q, found) = "noagents"
        /\ found[x] = "full" => ReasonAfter(q, found) = "nocapacity"
        /\ found[x] = "gate" => ReasonAfter(q, found) = reason[q]
        /\ found[x] \in {"filter", "failed"} => ReasonAfter(q, found) # "nocapacity"
      BY <1>5, ReasonOne
  <2> QED
      BY <1>5, <2>1
<1>10. \/ /\ left # {o}
          /\ seen' = [seen EXCEPT ![q] = found]
          /\ sameStep /\ UNCHANGED <<pc, obj, reason, snap, stale>>
       \/ /\ left = {o} /\ good # {}
          /\ \E y \in good : obj' = [obj EXCEPT ![q] = y]
          /\ Goto(q, "claim") /\ Forget(q)
          /\ sameStep /\ UNCHANGED reason
       \/ /\ left = {o} /\ good = {}
          /\ reason' = [reason EXCEPT ![q] = why]
          /\ \/ /\ why = "nocapacity" /\ QueueDepth > 0
                /\ seen' = [seen EXCEPT ![q] = found]
                /\ Absorbed(q, {y \in DOMAIN found : found[y] = "gate"})
                /\ Goto(q, "enqueue") /\ sameStep /\ UNCHANGED snap
             \/ /\ ~(why = "nocapacity" /\ QueueDepth > 0)
                /\ Goto(q, "list") /\ advanceStep(q) /\ Forget(q)
          /\ UNCHANGED obj
    BY DEF Scan
<1> HIDE DEF left, o, found, good, why
<1>11. CASE good # {} /\ (\E y \in good : obj' = [obj EXCEPT ![q] = y])
             /\ Goto(q, "claim") /\ Forget(q) /\ sameStep /\ UNCHANGED reason
  <2>1. Class(q, x) = "ok" /\ Finds(q, x)
      BY <1>6, <1>11 DEF Finds
  <2> QED
      BY <1>3, <2>1
<1>12. CASE /\ good = {} /\ reason' = [reason EXCEPT ![q] = why]
            /\ why = "nocapacity" /\ QueueDepth > 0
            /\ seen' = [seen EXCEPT ![q] = found]
            /\ Absorbed(q, {y \in DOMAIN found : found[y] = "gate"})
            /\ Goto(q, "enqueue") /\ sameStep /\ UNCHANGED <<snap, obj>>
  <2>1. Class(q, x) \in {"full", "gate"}
      BY <1>6, <1>8, <1>9, <1>12
  <2>2. Local(seen, seen', q) /\ x \in DOMAIN seen'[q]
      BY <1>5, <1>12 DEF Local, AllInv, SlotInv, PerRequest
  <2>3. Parks(q, x)
      BY <1>7, <1>12, <2>2 DEF Parks
  <2> QED
      BY <1>3, <2>1, <2>3
<1>13. CASE /\ good = {} /\ reason' = [reason EXCEPT ![q] = why] /\ ~(why = "nocapacity" /\ QueueDepth > 0)
            /\ Goto(q, "list") /\ advanceStep(q) /\ Forget(q) /\ UNCHANGED obj
  <2>1. LeavesStep(q) /\ Class(q, x) # "ok"
      BY <1>6, <1>13 DEF LeavesStep, Local
  <2>2. QueueDepth > 0 /\ reason[q] = "nocapacity" => Class(q, x) \notin {"full", "gate"}
      BY <1>9, <1>13
  <2> QED
      BY <1>3, <2>1, <2>2
<1> QED
    BY <1>4, <1>10, <1>11, <1>12, <1>13

LEMMA OthersGuard ==
    ASSUME AllInv, NEW q \in Req, LocalSession(q), Local(obj, obj', q),
           token \subseteq token' \cup {q}, NEW p \in Req, p # q, NEW o, Guard(p, o)
    PROVE  Guard(p, o)'
<1>1. pc'[p] = pc[p] /\ ticket'[p] = ticket[p] /\ snap'[p] = snap[p]
    BY OthersSame
<1>2. obj'[p] = obj[p] /\ (p \in token => p \in token')
    BY DEF Local, AllInv, SlotInv, PerRequest
<1> QED
    BY <1>1, <1>2 DEF Guard

(* A step of q that ends out of line: where q stands down, the slot is     *)
(* guarded otherwise.                                                      *)
LEMMA GuardedBut ==
    ASSUME AllInv, NEW q \in Req, LocalSession(q), Local(obj, obj', q),
           pc'[q] # "parked", token \subseteq token' \cup {q},
           UNCHANGED <<made, listed, healthy, gate, news>>,
           \A r \in Req : r # q => stale[r] \subseteq stale'[r],
           \A r \in Req, o \in Obj : r # q /\ Needs(r, o) /\ Needs(r, o)' =>
             \/ Guard(q, o) => Guard(q, o)'
             \/ Capacity[o[1]] <= Cardinality(Guards(o)')
    PROVE  Guarded'
<1> SUFFICES ASSUME NEW r \in Req, NEW o \in Obj, Needs(r, o)'
             PROVE  \/ Needs(r, o) /\ Cardinality(Guards(o)) <= Cardinality(Guards(o)')
                    \/ Capacity[o[1]] <= Cardinality(Guards(o)')
    BY GuardedStep DEF AllInv, WakeInv
<1>1. Needs(r, o) /\ r # q
    BY NeedsKept DEF AllInv, LocalSession
<1>2. CASE Guard(q, o) => Guard(q, o)'
  <2>1. \A p \in Req : Guard(p, o) => Guard(p, o)'
      BY <1>2, OthersGuard
  <2> QED
      BY <1>1, <2>1, GuardsMore
<1> QED
    BY <1>1, <1>2

LEMMA WaitsInLine ==
    ASSUME AllInv, NEW r \in Req PROVE Waits(r) <=> InLine(r)
    BY DEF AllInv, QueueInv, QueueOrder, Waits

LEMMA ForgetStale ==
    ASSUME AllInv, NEW q \in Req, Forget(q)
    PROVE  /\ DOMAIN stale' = Req /\ \A r \in Req : r # q => stale[r] \subseteq stale'[r]
           /\ Local(snap, snap', q) /\ Local(seen, seen', q) /\ snap'[q] = {}
    BY DEF Forget, AllInv, WakeInv, WakeTypes, Local, SlotInv, PerRequest

LEMMA ClassLate ==
    ASSUME NEW r, NEW o, Class(r, o) = "full" \/ Class(r, o) = "gate"
    PROVE  o[1] \in Match[step[r]] /\ o[1] \notin failed[r]
<1>1. ~healthy[o] => Class(r, o) = "unhealthy"
    BY DEF Class
<1>2. healthy[o] /\ o[1] \notin Match[step[r]] => Class(r, o) = "filter"
    BY DEF Class
<1>3. healthy[o] /\ o[1] \in Match[step[r]] /\ o[1] \in failed[r] => Class(r, o) = "failed"
    BY DEF Class
<1> QED
    BY <1>1, <1>2, <1>3

LEMMA ScanWake ==
    ASSUME OneAgent, AllInv, SlotInv', NEW q \in Req, Scan(q) PROVE WakeInv'
<1>1. PICK x \in Obj :
         /\ snap[q] = {x}
         /\ \/ Class(q, x) = "ok" /\ Finds(q, x)
            \/ Class(q, x) \in {"full", "gate"} /\ Parks(q, x)
            \/ /\ LeavesStep(q) /\ Class(q, x) # "ok"
               /\ QueueDepth > 0 /\ reason[q] = "nocapacity" => Class(q, x) \notin {"full", "gate"}
    BY ScanOne
<1>2. pc[q] = "scan" /\ SameAgents /\ UNCHANGED token
    BY DEF Scan, agentVars, queueVars, SameAgents
<1>3. InStep(q) /\ Scanned(q) /\ step[q] <= Steps
    BY <1>2 DEF AllInv, WakeInv, AttemptInv, TriesOK, AtWork
<1>4. \A o : Guard(q, o) /\ q \notin token => ticket[q] # 0 /\ o = x
    BY <1>1, <1>2 DEF Guard, Holding
<1>5. CASE Class(q, x) = "ok" /\ Finds(q, x)
  <2>1. LocalSession(q) /\ Local(obj, obj', q)
      BY <1>5, ForgetStale DEF Finds, LocalSession, Local, Goto, sameStep
  <2>2. pc'[q] = "claim" /\ obj'[q] = x /\ ticket' = ticket /\ (Fit(q) => Fit(q)')
      BY <1>5 DEF Finds, Goto, sameStep, AllInv, SlotInv, PerRequest, Fit
  <2>3. InStep(q)'
      BY <1>3, <2>2 DEF InStep
  <2>4. \A o \in Listed : Guard(q, o) => Guard(q, o)'
      BY <1>2, <1>4, <2>2 DEF Guard
  <2>5. DOMAIN stale' = Req /\ \A r \in Req : r # q => stale[r] \subseteq stale'[r]
      BY <1>5, ForgetStale DEF Finds
  <2> QED
      BY <1>2, <2>1, <2>2, <2>3, <2>4, <2>5, WakeQuiet DEF SameAgents
<1>6. CASE Class(q, x) \in {"full", "gate"} /\ Parks(q, x)
  <2>1. LocalSession(q) /\ Local(obj, obj', q)
      BY <1>6 DEF Parks, LocalSession, Local, Goto, sameStep
  <2>2. /\ pc'[q] = "enqueue" /\ reason'[q] = "nocapacity" /\ UNCHANGED <<ticket, step, failed, snap>>
        /\ snap'[q] \subseteq DOMAIN seen'[q] /\ QueueDepth > 0
      BY <1>1, <1>6 DEF Parks, Goto, sameStep, AllInv, SlotInv, PerRequest, WakeInv, WakeTypes
  <2>3. /\ stale' = [r \in Req |-> IF ticket[q] # 0 /\ InLine(r)
                                   THEN stale[r] \cup {y \in {x} : Class(q, x) = "gate"} ELSE stale[r]]
        /\ DOMAIN stale' = Req /\ \A r \in Req : stale[r] \subseteq stale'[r]
      BY <1>6 DEF Parks, Absorbed
  <2>4. x[1] \in Match[step[q]] /\ x[1] \notin failed[q] /\ x[1] \in Agent
      BY <1>6, ClassLate DEF Obj
  <2>5. Fit(q)'
      BY <1>3, <2>2, <2>4 DEF Fit, OneAgent
  <2>6. InStep(q)'
      BY <1>3, <2>2, <2>5 DEF InStep
  <2>7. Scanned(q)'
    <3>1. Listed' = Listed /\ \A o : Class(q, o)' = Class(q, o)
        BY <1>2, <2>2 DEF SameAgents, Listed, Current, Class
    <3>2. Listed \subseteq {x} \cup stale[q]
        BY <1>1, <1>2, <1>3 DEF Scanned
    <3> QED
        BY <1>6, <2>2, <2>3, <3>1, <3>2 DEF Scanned
  <2>8. ASSUME NEW r \in Req, NEW o \in Obj, Needs(r, o), Needs(r, o)', Guard(q, o), ~Guard(q, o)'
        PROVE  Capacity[o[1]] <= Cardinality(Guards(o)')
    <3>1. ticket[q] # 0 /\ o = x
        BY <1>2, <1>4, <2>8 DEF Guard
    <3>2. InLine(r)
        BY <2>8, WaitsInLine DEF Needs
    <3>3. x \notin stale'[r]
        BY <2>8, <3>1 DEF Needs
    <3>4. Class(q, x) # "gate"
        BY <2>3, <3>1, <3>2, <3>3
    <3>5. load'[x] >= Capacity[x[1]]
        BY <1>2, <1>6, <3>4 DEF Class, SameAgents
    <3> QED
        BY <3>1, <3>5, FullGuarded
  <2>9. Guarded'
      BY <1>2, <2>1, <2>2, <2>3, <2>8, GuardedBut DEF SameAgents
  <2> QED
      BY <1>2, <2>1, <2>3, <2>6, <2>7, <2>9, WakeStep DEF SameAgents
<1>7. CASE /\ LeavesStep(q) /\ Class(q, x) # "ok"
           /\ QueueDepth > 0 /\ reason[q] = "nocapacity" => Class(q, x) \notin {"full", "gate"}
  <2>1. LocalSession(q) /\ Local(obj, obj', q) /\ ticket'[q] = 0
      BY <1>7, ForgetStale, AdvanceSession DEF LeavesStep, Local
  <2>2. pc'[q] = "list"
      BY <1>7 DEF LeavesStep, Goto, AllInv, SlotInv, PerRequest
  <2>3. DOMAIN stale' = Req /\ \A r \in Req : r # q => stale[r] \subseteq stale'[r]
      BY <1>7, ForgetStale DEF LeavesStep
  <2>4. InStep(q)' /\ Scanned(q)'
      BY <2>1, <2>2, InStepOut DEF Scanned
  <2>5. ASSUME NEW r \in Req, NEW o \in Obj, Needs(r, o)', Guard(q, o), ~Guard(q, o)'
        PROVE  FALSE
    <3>1. ticket[q] # 0 /\ o = x
        BY <1>2, <1>4, <2>5 DEF Guard
    <3>2. Fit(q)
        BY <1>3, <3>1 DEF InStep
    <3>3. Class(q, x) \notin {"full", "gate", "ok"} /\ x[1] \in Match[step[q]] /\ x[1] \notin failed[q]
        BY <1>7, <3>2 DEF Fit, Obj
    <3>4. ~healthy[x]
        BY <3>3 DEF Class
    <3> QED
        BY <1>2, <2>5, <3>1, <3>4 DEF Needs, Open, SameAgents
  <2>6. Guarded'
      BY <1>2, <2>1, <2>2, <2>3, <2>5, GuardedBut DEF SameAgents
  <2> QED
      BY <1>2, <2>1, <2>3, <2>4, <2>6, WakeStep DEF SameAgents
<1> QED
    BY <1>1, <1>5, <1>6, <1>7

LEMMA ClaimWake ==
    ASSUME AllInv, SlotInv', NEW q \in Req, Claim(q) PROVE WakeInv'
<1> DEFINE x == obj[q]
<1>1. /\ pc[q] = "claim" /\ UNCHANGED <<made, listed, healthy, gate, news, token, stale>>
      /\ UNCHANGED <<step, failed, reason, snap, seen>>
    BY DEF Claim, queueVars
<1>2. x \in Obj /\ InStep(q)
    BY <1>1 DEF AllInv, SlotInv, Path, WakeInv
<1>3. DOMAIN stale' = Req /\ \A r \in Req : stale[r] \subseteq stale'[r]
    BY <1>1 DEF AllInv, WakeInv, WakeTypes
<1>4. \A o : Guard(q, o) /\ q \notin token => o = x
    BY <1>1 DEF Guard
<1>5. CASE /\ load' = [load EXCEPT ![x] = @ + 1] /\ ticket' = [ticket EXCEPT ![q] = 0]
           /\ Goto(q, "held") /\ UNCHANGED obj
  <2>1. LocalSession(q)
      BY <1>1, <1>5 DEF LocalSession, Local, Goto
  <2>2. pc'[q] = "held" /\ ticket'[q] = 0
      BY <1>5 DEF Goto, AllInv, SlotInv, PerRequest, QueueInv, PlaceOK
  <2>3. InStep(q)'
      BY <2>2, InStepOut
  <2>4. \A o \in Listed : Guard(q, o) => Guard(q, o)'
      BY <1>1, <1>4, <1>5, <2>2 DEF Guard, Holding
  <2>5. ASSUME NEW o \in Obj, load[o] >= Capacity[o[1]] PROVE load'[o] >= Capacity[o[1]]
    <3>1. load \in [Obj -> Nat] /\ Capacity[o[1]] \in Nat
        BY BoundsAssumption DEF Obj, AllInv, SlotInv, AgentsOK
    <3>2. load'[o] = IF o = x THEN load[o] + 1 ELSE load[o]
        BY <1>2, <1>5, <3>1
    <3>3. load[o] \in Nat
        BY <3>1
    <3> QED
        BY SMTT(60), <2>5, <3>1, <3>2, <3>3
  <2> QED
      BY <1>1, <1>3, <1>5, <2>1, <2>2, <2>3, <2>4, <2>5, WakeQuiet DEF Local
<1>6. CASE /\ load[x] >= Capacity[x[1]] /\ obj' = [obj EXCEPT ![q] = NoObj] /\ Goto(q, "list")
           /\ UNCHANGED <<load, ticket>>
  <2>1. LocalSession(q) /\ Local(obj, obj', q)
      BY <1>1, <1>6 DEF LocalSession, Local, Goto
  <2>2. pc'[q] = "list"
      BY <1>6 DEF Goto, AllInv, SlotInv, PerRequest
  <2>3. Fit(q) => Fit(q)'
      BY <1>1 DEF Fit
  <2>4. InStep(q)' /\ Scanned(q)'
      BY <1>2, <1>6, <2>2, <2>3 DEF InStep, Scanned
  <2>5. ASSUME NEW o \in Obj, Guard(q, o), ~Guard(q, o)' PROVE Capacity[o[1]] <= Cardinality(Guards(o)')
    <3>1. o = x
        BY <1>1, <1>4, <2>5 DEF Guard
    <3> QED
        BY <1>6, <3>1, FullGuarded
  <2>6. Guarded'
      BY <1>1, <1>3, <2>1, <2>2, <2>5, GuardedBut
  <2> QED
      BY <1>1, <1>3, <1>6, <2>1, <2>4, <2>6, WakeStep
<1> QED
    BY <1>5, <1>6 DEF Claim

(***************************************************************************)
(* The line                                                                *)
(***************************************************************************)
LEMMA WaitInLineWake ==
    ASSUME AllInv, SlotInv', QueueInv', NEW q \in Req, WaitInLine(q) PROVE WakeInv'
<1>1. pc[q] = "enqueue" /\ SameAgents /\ UNCHANGED <<token, reason, obj>>
    BY DEF WaitInLine, agentVars, queueVars, SameAgents
<1>2. InStep(q) /\ Scanned(q) /\ Fit(q)
    BY <1>1 DEF AllInv, WakeInv, InStep
<1>3. \A o : Guard(q, o) => q \in token
    BY <1>1 DEF Guard, Holding
<1>4. CASE Goto(q, "list") /\ advanceStep(q) /\ Forget(q)
  <2>1. LocalSession(q) /\ ticket'[q] = 0
      BY <1>1, <1>4, ForgetStale, AdvanceSession DEF Local
  <2>2. pc'[q] = "list"
      BY <1>4 DEF Goto, AllInv, SlotInv, PerRequest
  <2>3. InStep(q)'
      BY <2>1, <2>2, InStepOut
  <2>4. DOMAIN stale' = Req /\ \A r \in Req : r # q => stale[r] \subseteq stale'[r]
      BY <1>4, ForgetStale
  <2>5. \A o \in Listed : Guard(q, o) => Guard(q, o)'
      BY <1>1, <1>3 DEF Guard
  <2> QED
      BY <1>1, <2>1, <2>2, <2>3, <2>4, <2>5, WakeQuiet DEF SameAgents, Local
<1>5. CASE /\ ticket' = [ticket EXCEPT ![q] = IF ticket[q] = 0 THEN next + 1 ELSE ticket[q]]
           /\ Goto(q, "parked") /\ UNCHANGED <<step, tries, failed, snap, seen, stale>>
  <2>1. LocalSession(q)
      BY <1>1, <1>5 DEF LocalSession, Local, Goto
  <2>2. pc'[q] = "parked" /\ ticket'[q] # 0
    <3>1. next + 1 # 0
      <4>1. next \in Nat
          BY DEF AllInv, QueueInv, PlaceOK
      <4> QED
          BY SMTT(60), <4>1
    <3> QED
        BY <1>5, <3>1 DEF Goto, AllInv, SlotInv, PerRequest, QueueInv, PlaceOK
  <2>3. Fit(q)'
      BY <1>1, <1>2, <1>5 DEF Fit
  <2>4. InStep(q)' /\ Scanned(q)'
      BY <1>1, <1>2, <1>5, <2>2, <2>3 DEF InStep, Scanned
  <2>5. DOMAIN stale' = Req /\ \A r \in Req : stale[r] \subseteq stale'[r]
      BY <1>5 DEF AllInv, WakeInv, WakeTypes
  <2>6. ASSUME NEW r \in Req, NEW o \in Obj, Needs(r, o)'
        PROVE  \/ Needs(r, o) /\ Cardinality(Guards(o)) <= Cardinality(Guards(o)')
               \/ Capacity[o[1]] <= Cardinality(Guards(o)')
    <3>1. Listed' = Listed
        BY <1>1 DEF SameAgents, Listed, Current
    <3>2. CASE r = q
      <4>1. o \in Listed /\ Open(q, o) /\ o \notin stale[q]
          BY <1>1, <1>5, <2>6, <3>1, <3>2 DEF Needs, Open, SameAgents
      <4>2. Class(q, o) # "ok"
          BY <1>1, <1>2, <4>1 DEF Scanned
      <4>3. o[1] \in Match[step[q]] /\ o[1] \notin failed[q]
          BY <1>2 DEF Fit, Obj
      <4>4. load[o] >= Capacity[o[1]]
          BY <4>1, <4>2, <4>3, ClassOk DEF Open
      <4> QED
          BY <1>1, <4>4, FullGuarded DEF SameAgents
    <3>3. CASE r # q
      <4>1. pc'[r] = pc[r] /\ step'[r] = step[r]
          BY <2>1, <3>3, OthersSame
      <4>2. Needs(r, o)
          BY <1>1, <1>5, <2>6, <3>1, <4>1 DEF Needs, Waits, Open, SameAgents
      <4>3. \A p \in Req : Guard(p, o) => Guard(p, o)'
          BY <1>1, <1>3, <2>1, OthersGuard DEF Guard, Local
      <4> QED
          BY <4>2, <4>3, GuardsMore
    <3> QED
        BY <3>2, <3>3
  <2>7. Guarded'
      BY <2>6, GuardedStep DEF AllInv, WakeInv
  <2> QED
      BY <1>1, <2>1, <2>4, <2>5, <2>7, WakeStep DEF SameAgents
<1> QED
    BY <1>4, <1>5 DEF WaitInLine

LEMMA WokenWake ==
    ASSUME AllInv, NEW q \in Req, Woken(q) \/ CtxDone(q) PROVE WakeInv'
<1>1. pc[q] = "parked" /\ SameAgents /\ UNCHANGED <<reason, obj>> /\ Forget(q)
    BY DEF Woken, CtxDone, agentVars, SameAgents
<1>2. InStep(q) /\ ticket[q] # 0
    BY <1>1 DEF AllInv, WakeInv, InStep
<1>3. \A o : Guard(q, o) => q \in token
    BY <1>1 DEF Guard, Holding
<1>4. /\ DOMAIN stale' = Req /\ \A r \in Req : r # q => stale[r] \subseteq stale'[r]
      /\ Local(snap, snap', q) /\ Local(seen, seen', q)
    BY <1>1, ForgetStale
<1>5. CASE token' = token \ {q} /\ sameStep /\ (Goto(q, "list") \/ Goto(q, "pass"))
  <2>1. LocalSession(q)
      BY <1>1, <1>4, <1>5 DEF LocalSession, Local, Goto, sameStep
  <2>2. pc'[q] \in {"list", "pass"} /\ ticket' = ticket
      BY <1>5 DEF Goto, sameStep, AllInv, SlotInv, PerRequest
  <2>3. Fit(q) => Fit(q)'
      BY <1>1, <1>5 DEF Fit, sameStep
  <2>4. InStep(q)'
      BY <1>2, <2>2, <2>3 DEF InStep
  <2>5. \A o \in Listed : Guard(q, o)'
      BY <1>2, <2>2 DEF Guard
  <2>6. token \subseteq token' \cup {q}
      BY <1>5
  <2> QED
      BY <1>1, <1>4, <2>1, <2>2, <2>4, <2>5, <2>6, WakeQuiet DEF SameAgents, Local
<1>6. CASE InLine(q) /\ advanceStep(q) /\ Goto(q, "list") /\ UNCHANGED token
  <2>1. LocalSession(q) /\ ticket'[q] = 0
      BY <1>1, <1>4, <1>6, AdvanceSession DEF Local
  <2>2. pc'[q] = "list"
      BY <1>6 DEF Goto, AllInv, SlotInv, PerRequest
  <2>3. InStep(q)'
      BY <2>1, <2>2, InStepOut
  <2>4. \A o \in Listed : Guard(q, o) => Guard(q, o)'
      BY <1>3, <1>6 DEF Guard
  <2> QED
      BY <1>1, <1>4, <1>6, <2>1, <2>2, <2>3, <2>4, WakeQuiet DEF SameAgents, Local
<1> QED
    BY <1>5, <1>6 DEF Woken, CtxDone, InLine

(* A signal hands the slot from the request that gives it to the head of   *)
(* the line.                                                               *)
LEMMA SignalGuarded ==
    ASSUME AllInv, NEW q \in Req, Signal \/ SignalCapacity, LocalSession(q), Local(obj, obj', q),
           pc'[q] # "parked", SameAgents, UNCHANGED stale
    PROVE  Guarded'
<1>1. waiters \in Seq(Waiter) /\ QueueOrder
    BY DEF AllInv, QueueInv, QueueOK
<1>2. token \subseteq token' \cup {q}
    BY DEF Signal, SignalCapacity
<1> SUFFICES ASSUME NEW r \in Req, NEW o \in Obj, Needs(r, o)'
             PROVE  Needs(r, o) /\ Cardinality(Guards(o)) <= Cardinality(Guards(o)')
    BY GuardedStep DEF AllInv, WakeInv
<1>3. Needs(r, o)
    BY <1>2, NeedsKept DEF AllInv, LocalSession, SameAgents
<1>4. InLine(r)
    BY <1>3, WaitsInLine DEF Needs
<1>5. QueueDepth # 0
  <2>1. Fit(r)
      BY <1>3 DEF AllInv, WakeInv, InStep, Needs, Waits
  <2>2. QueueDepth \in Nat /\ QueueDepth > 0
      BY <2>1, BoundsAssumption DEF Fit
  <2> QED
      BY SMTT(60), <2>2
<1>6. waiters # <<>>
    BY SMTT(60), <1>4 DEF InLine
<1>7. token' = token \cup {Head(waiters).who}
  <2>1. Signal
      BY <1>5 DEF SignalCapacity
  <2> QED
      BY <1>6, <2>1 DEF Signal
<1>8. 1 \in DOMAIN waiters /\ Head(waiters) = waiters[1] /\ waiters[1] \in Waiter
    BY SMTT(60), <1>1, <1>6
<1>9. PICK h \in Req : h = waiters[1].who
    BY <1>8 DEF Waiter
<1>10. pc[h] = "parked" /\ h \notin token
    BY <1>1, <1>8, <1>9 DEF QueueOrder, InLine
<1>11. ~Guard(h, o) /\ Guard(h, o)'
    BY <1>7, <1>8, <1>9, <1>10 DEF Guard, Holding
<1>12. \A p \in Req : p # q /\ Guard(p, o) => Guard(p, o)'
    BY <1>2, OthersGuard
<1>13. Cardinality(Guards(o)) <= Cardinality(Guards(o)')
    BY <1>11, <1>12, GuardsSwap
<1> QED
    BY <1>3, <1>13

LEMMA PassOnWake ==
    ASSUME AllInv, NEW q \in Req, PassOn(q) PROVE WakeInv'
<1>1. /\ Signal /\ Goto(q, "list") /\ advanceStep(q) /\ SameAgents
      /\ UNCHANGED <<reason, snap, seen, stale, obj>>
    BY DEF PassOn, agentVars, SameAgents
<1>2. LocalSession(q) /\ ticket'[q] = 0
    BY <1>1, AdvanceSession DEF Local
<1>3. pc'[q] = "list"
    BY <1>1 DEF Goto, AllInv, SlotInv, PerRequest
<1>4. InStep(q)' /\ Scanned(q)'
    BY <1>2, <1>3, InStepOut DEF Scanned
<1>5. Guarded'
    BY <1>1, <1>2, <1>3, SignalGuarded DEF Local
<1>6. DOMAIN stale' = Req /\ \A r \in Req : stale[r] \subseteq stale'[r]
    BY <1>1 DEF AllInv, WakeInv, WakeTypes
<1> QED
    BY <1>1, <1>2, <1>4, <1>5, <1>6, WakeStep DEF SameAgents

LEMMA SlotSignalWake ==
    ASSUME AllInv, NEW q \in Req, SlotSignal(q) PROVE WakeInv'
<1>1. /\ pc[q] = "signal" /\ SignalCapacity /\ Local(obj, obj', q) /\ SameAgents
      /\ UNCHANGED <<snap, seen, stale>>
    BY DEF SlotSignal, agentVars, SameAgents, Local
<1>2. ticket[q] = 0
    BY <1>1, NoTicket
<1>3. LocalSession(q) /\ ticket'[q] = 0 /\ pc'[q] \in {"ok", "err", "check"}
  <2>1. CASE cont[q] = "charge"
    <3>1. RecordFailure(q) /\ Goto(q, "check") /\ UNCHANGED reason
        BY <2>1 DEF SlotSignal
    <3>2. /\ Local(step, step', q) /\ Local(failed, failed', q) /\ Local(ticket, ticket', q)
          /\ ticket' = ticket \/ ticket' = [ticket EXCEPT ![q] = 0]
        BY <3>1 DEF RecordFailure, advanceStep, Local
    <3>3. ticket'[q] = 0 /\ pc'[q] = "check"
        BY <1>2, <3>1, <3>2 DEF Goto, AllInv, SlotInv, PerRequest, QueueInv, PlaceOK
    <3>4. LocalSession(q)
        BY <1>1, <3>1, <3>2 DEF LocalSession, Local, Goto
    <3> QED
        BY <3>3, <3>4
  <2>2. CASE cont[q] # "charge"
    <3>1. \E l \in {"ok", "err", "check"} : GotoOrEnd(q, l)
        BY <2>2 DEF SlotSignal
    <3> QED
        BY <1>1, <1>2, <3>1, EndsSession
  <2> QED
      BY <2>1, <2>2
<1>4. InStep(q)' /\ Scanned(q)'
    BY <1>3, InStepOut DEF Scanned
<1>5. Guarded'
    BY <1>1, <1>3, SignalGuarded
<1>6. DOMAIN stale' = Req /\ \A r \in Req : stale[r] \subseteq stale'[r]
    BY <1>1 DEF AllInv, WakeInv, WakeTypes
<1> QED
    BY <1>1, <1>3, <1>4, <1>5, <1>6, WakeStep DEF SameAgents

(***************************************************************************)
(* Slots and agents                                                        *)
(***************************************************************************)
(* Who releases a slot answers for it until it has signalled.              *)
LEMMA ReleasedWake ==
    ASSUME AllInv, NEW q \in Req, pc[q] \in Holding, DecrementLoad(q), Goto(q, "signal"),
           UNCHANGED <<step, failed, reason, ticket, snap, seen, obj, token>>
    PROVE  WakeInv'
<1>1. /\ load' = [load EXCEPT ![obj[q]] = @ - 1] /\ Improve(obj[q])
      /\ UNCHANGED <<made, listed, healthy, gate, news>>
    BY DEF DecrementLoad
<1>2. LocalSession(q) /\ Local(obj, obj', q)
    BY DEF LocalSession, Local, Goto
<1>3. pc'[q] = "signal"
    BY DEF Goto, AllInv, SlotInv, PerRequest
<1>4. ticket'[q] = 0
    BY NoTicket DEF Holding
<1>5. InStep(q)'
    BY <1>3, <1>4, InStepOut
<1>6. DOMAIN stale' = Req /\ \A r \in Req : stale[r] \subseteq stale'[r]
    BY <1>1 DEF Improve, MissedAt
<1>7. \A o \in Obj : load'[o] = load[o] \/ Improve(o)
    BY <1>1 DEF AllInv, SlotInv, AgentsOK
<1>8. \A o \in Listed : Guard(q, o)'
    BY <1>3 DEF Guard
<1> QED
    BY <1>1, <1>2, <1>3, <1>5, <1>6, <1>7, <1>8, WakeQuiet

(* A holder goes on with its slot.                                         *)
LEMMA HolderWake ==
    ASSUME AllInv, NEW q \in Req, pc[q] \in Holding, NEW l \in Holding, Goto(q, l), SameAgents,
           UNCHANGED <<step, failed, reason, ticket, snap, seen, stale, obj, token>>
    PROVE  WakeInv'
<1>1. LocalSession(q) /\ Local(obj, obj', q)
    BY DEF LocalSession, Local, Goto
<1>2. pc'[q] = l /\ l \notin {"scan", "enqueue", "parked"}
    BY DEF Goto, AllInv, SlotInv, PerRequest, Holding
<1>3. ticket'[q] = 0
    BY NoTicket DEF Holding
<1>4. InStep(q)'
    BY <1>2, <1>3, InStepOut
<1>5. \A o \in Listed : Guard(q, o) => Guard(q, o)'
    BY <1>2 DEF Guard, Holding
<1>6. DOMAIN stale' = Req /\ \A r \in Req : stale[r] \subseteq stale'[r]
    BY DEF AllInv, WakeInv, WakeTypes
<1> QED
    BY <1>1, <1>2, <1>4, <1>5, <1>6, WakeQuiet DEF SameAgents

LEMMA ForwardWake ==
    ASSUME AllInv, NEW q \in Req, Held(q) \/ StreamStarts(q) \/ DrainEnds(q) \/ ForwardEnds(q)
    PROVE  WakeInv'
<1>1. pc[q] \in Holding /\ {"forward", "stream"} \subseteq Holding
    BY DEF Held, StreamStarts, DrainEnds, ForwardEnds, Holding
<1>2. UNCHANGED <<step, failed, reason, ticket, snap, seen, obj, token>>
    BY DEF Held, StreamStarts, DrainEnds, ForwardEnds, queueVars, sessVars
<1>3. \/ DecrementLoad(q) /\ Goto(q, "signal")
      \/ (Goto(q, "forward") \/ Goto(q, "stream")) /\ UNCHANGED <<agentVars, stale>>
    BY DEF Held, StreamStarts, DrainEnds, ForwardEnds, sessVars
<1>4. CASE DecrementLoad(q) /\ Goto(q, "signal")
    BY <1>1, <1>2, <1>4, ReleasedWake
<1>5. CASE (Goto(q, "forward") \/ Goto(q, "stream")) /\ UNCHANGED <<agentVars, stale>>
    BY <1>1, <1>2, <1>5, HolderWake DEF agentVars, SameAgents
<1> QED
    BY <1>3, <1>4, <1>5

(* A step in which no request moves.                                       *)
LEMMA WakeAgents ==
    ASSUME AllInv, UNCHANGED <<pc, step, failed, reason, ticket, snap, seen, obj, token>>,
           WakeTypes', \A r \in Req : stale[r] \subseteq stale'[r],
           \A r \in Req : pc[r] \in {"scan", "enqueue"} => \A o \in Listed' :
               \/ o \in Listed /\ (Class(r, o)' = "ok" => Class(r, o) = "ok")
               \/ o \in (snap[r] \ DOMAIN seen[r]) \cup stale'[r],
           \A r \in Req, o \in Obj : Needs(r, o)' => Needs(r, o)
    PROVE  WakeInv'
<1>1. ASSUME NEW r \in Req PROVE InStep(r)' /\ Scanned(r)'
  <2>1. InStep(r) /\ Scanned(r)
      BY DEF AllInv, WakeInv
  <2>2. InStep(r)'
      BY <2>1 DEF InStep, Fit
  <2>3. Scanned(r)'
      BY <2>1, ScannedKept
  <2> QED
      BY <2>2, <2>3
<1>2. \A o : \A p \in Req : Guard(p, o) => Guard(p, o)'
    BY DEF Guard
<1>3. Guarded'
    BY <1>2, GuardsMore, GuardedStep DEF AllInv, WakeInv
<1> QED
    BY <1>1, <1>3 DEF WakeInv

SameRequests == UNCHANGED <<pc, step, failed, reason, ticket, snap, seen, obj, token>>

LEMMA AgentDownWake ==
    ASSUME AllInv, NEW a \in Agent, AgentDown(a) PROVE WakeInv'
<1>1. /\ SameRequests /\ UNCHANGED <<made, listed, load, gate, news, stale>>
      /\ healthy' = [healthy EXCEPT ![Current(a)] = FALSE]
    BY DEF AgentDown, SameRequests, queueVars, sessVars
<1>2. WakeTypes
    BY DEF AllInv, WakeInv
<1>3. WakeTypes' /\ \A o \in Obj : healthy'[o] => healthy[o]
    BY <1>1, <1>2 DEF WakeTypes, SameRequests
<1>4. Listed' = Listed /\ Listed \subseteq Obj
    BY <1>1, ListedObj DEF Listed, Current, AllInv, SlotInv
<1>5. ASSUME NEW r \in Req, NEW o \in Obj, Needs(r, o)' PROVE Needs(r, o)
    BY <1>1, <1>3, <1>4, <1>5 DEF Needs, Waits, Open, SameRequests
<1>6. ASSUME NEW r \in Req, NEW o \in Listed, Class(r, o)' = "ok" PROVE Class(r, o) = "ok"
    BY <1>1, <1>3, <1>4, <1>6, ClassOk, ClassOkThen DEF SameRequests
<1> QED
    BY <1>1, <1>3, <1>4, <1>5, <1>6, WakeAgents DEF SameRequests

(* A recovery or a registration is news, until it is broadcast.            *)
LEMMA NewsWake ==
    ASSUME AllInv, NEW a \in Agent, AgentUp(a) \/ Register(a) PROVE WakeInv'
<1> DEFINE n == IF AgentUp(a) THEN Current(a) ELSE <<a, made[a] + 1>>
<1>1. SameRequests /\ UNCHANGED <<load, gate>> /\ news' = news + 1
    BY DEF AgentUp, Register, SameRequests, queueVars
<1>2. \/ AgentUp(a) /\ UNCHANGED <<made, listed>> /\ healthy' = [healthy EXCEPT ![Current(a)] = TRUE]
      \/ /\ ~AgentUp(a) /\ healthy' = healthy /\ made' = [made EXCEPT ![a] = @ + 1]
         /\ listed' = listed \cup {a}
    BY DEF AgentUp, Register
<1>3. PICK x : x = n
    OBVIOUS
<1>4. Improve(x)
    BY <1>2, <1>3 DEF AgentUp, Register
<1>5. WakeTypes /\ made \in [Agent -> 1..MaxGen] /\ listed \subseteq Agent
    BY DEF AllInv, WakeInv, SlotInv, AgentsOK
<1>6. stale' = [r \in Req |-> IF pc[r] \in {"scan", "enqueue"} /\ x \notin snap[r] \ DOMAIN seen[r]
                              THEN stale[r] \cup {x} ELSE stale[r]]
    BY <1>4 DEF Improve, MissedAt
<1>7. news' \in Nat /\ news' # 0
    BY SMTT(60), <1>1, <1>5 DEF WakeTypes
<1>8. healthy' \in [Obj -> BOOLEAN]
    BY <1>2, <1>5 DEF WakeTypes
<1>9. WakeTypes'
    BY <1>1, <1>5, <1>6, <1>7, <1>8 DEF WakeTypes, SameRequests
<1>10. ASSUME NEW o \in Listed', o # x PROVE o \in Listed /\ healthy'[o] = healthy[o]
  <2>1. CASE AgentUp(a) /\ UNCHANGED <<made, listed>> /\ healthy' = [healthy EXCEPT ![Current(a)] = TRUE]
    <3>1. o \in Listed
        BY <2>1 DEF Listed, Current
    <3>2. o \in Obj /\ x = Current(a)
        BY <1>3, <2>1, <3>1, ListedObj DEF AllInv, SlotInv
    <3>3. DOMAIN healthy = Obj
        BY <1>5 DEF WakeTypes
    <3> QED
        BY <1>10, <2>1, <3>1, <3>2, <3>3
  <2>2. CASE /\ ~AgentUp(a) /\ healthy' = healthy /\ made' = [made EXCEPT ![a] = @ + 1]
             /\ listed' = listed \cup {a}
    <3>1. PICK b \in listed \cup {a} : o = <<b, made'[b]>>
        BY <2>2 DEF Listed, Current
    <3>2. x = <<a, made[a] + 1>>
        BY <1>3, <2>2
    <3>3. b # a
        BY <1>5, <1>10, <2>2, <3>1, <3>2
    <3>4. b \in listed /\ made'[b] = made[b]
        BY <1>5, <2>2, <3>1, <3>3
    <3> QED
        BY <2>2, <3>1, <3>4 DEF Listed, Current
  <2> QED
      BY <1>2, <2>1, <2>2
<1>11. ASSUME NEW r \in Req, NEW o \in Listed', pc[r] \in {"scan", "enqueue"}
       PROVE  \/ o \in Listed /\ (Class(r, o)' = "ok" => Class(r, o) = "ok")
              \/ o \in (snap[r] \ DOMAIN seen[r]) \cup stale'[r]
  <2>1. CASE o = x
      BY <1>6, <1>11, <2>1
  <2>2. CASE o # x
    <3>1. o \in Listed /\ healthy'[o] = healthy[o]
        BY <1>10, <2>2
    <3>2. Class(r, o)' = "ok" => Class(r, o) = "ok"
        BY <1>1, <3>1, ClassOk, ClassOkThen DEF SameRequests
    <3> QED
        BY <3>1, <3>2
  <2> QED
      BY <2>1, <2>2
<1>12. \A r \in Req : stale[r] \subseteq stale'[r]
    BY <1>6
<1>13. \A r, o : ~Needs(r, o)'
    BY <1>7 DEF Needs
<1> QED
    BY <1>1, <1>9, <1>11, <1>12, <1>13, WakeAgents DEF SameRequests

LEMMA UnregisterWake ==
    ASSUME AllInv, NEW a \in Agent, Unregister(a) PROVE WakeInv'
<1>1. SameRequests /\ UNCHANGED <<made, healthy, load, gate, news, stale>> /\ listed' = listed \ {a}
    BY DEF Unregister, SameRequests, queueVars, sessVars
<1>2. WakeTypes'
    BY <1>1 DEF AllInv, WakeInv, WakeTypes, SameRequests
<1>3. Listed' \subseteq Listed
    BY <1>1 DEF Listed, Current
<1>4. \A r, o : Needs(r, o)' => Needs(r, o)
    BY <1>1, <1>3 DEF Needs, Waits, Open, SameRequests
<1>5. \A r, o : Class(r, o)' = Class(r, o)
    BY <1>1 DEF Class, SameRequests
<1> QED
    BY <1>1, <1>2, <1>3, <1>4, <1>5, WakeAgents DEF SameRequests

(* A gate that opens is missed by everyone who is in line or about to be.  *)
LEMMA GateFlipsWake ==
    ASSUME OneAgent, AllInv, NEW a \in Agent, GateFlips(a) PROVE WakeInv'
<1>1. SameRequests /\ UNCHANGED <<made, listed, healthy, load, news>>
    BY DEF GateFlips, SameRequests, queueVars
<1>2. Listed' = Listed
    BY <1>1 DEF Listed, Current
<1>3. CASE gate' = gate \ {a} /\ UNCHANGED stale
  <2>1. WakeTypes' /\ \A r \in Req : stale[r] \subseteq stale'[r]
      BY <1>1, <1>3 DEF AllInv, WakeInv, WakeTypes, SameRequests
  <2>2. \A r, o : Needs(r, o)' => Needs(r, o)
      BY <1>1, <1>2, <1>3 DEF Needs, Waits, Open, SameRequests
  <2>3. \A r, o : Class(r, o)' = "ok" => Class(r, o) = "ok"
      BY <1>1, <1>3, ClassOk, ClassOkThen DEF SameRequests
  <2> QED
      BY <1>1, <1>2, <2>1, <2>2, <2>3, WakeAgents DEF SameRequests
<1>4. CASE MissedAt({"scan", "enqueue", "parked"}, Current(a))
  <2>1. stale' = [r \in Req |-> IF /\ pc[r] \in {"scan", "enqueue", "parked"}
                                   /\ Current(a) \notin snap[r] \ DOMAIN seen[r]
                                THEN stale[r] \cup {Current(a)} ELSE stale[r]]
      BY <1>4 DEF MissedAt
  <2>2. WakeTypes' /\ \A r \in Req : stale[r] \subseteq stale'[r]
      BY <1>1, <2>1 DEF AllInv, WakeInv, WakeTypes, SameRequests
  <2>3. \A o \in Listed : o = Current(a)
    <3>1. listed \subseteq Agent
        BY DEF AllInv, SlotInv, AgentsOK
    <3> QED
        BY <3>1 DEF Listed, OneAgent
  <2>4. ASSUME NEW r \in Req, NEW o \in Obj, Needs(r, o)' PROVE FALSE
    <3>1. pc[r] = "parked" /\ o \in Listed /\ o \notin stale'[r]
        BY <1>1, <1>2, <2>4 DEF Needs, Waits, SameRequests
    <3>2. snap[r] \subseteq DOMAIN seen[r]
        BY <3>1 DEF AllInv, WakeInv, InStep
    <3> QED
        BY <2>1, <2>3, <3>1, <3>2
  <2>5. ASSUME NEW r \in Req, NEW o \in Listed, pc[r] \in {"scan", "enqueue"}
        PROVE  o \in (snap[r] \ DOMAIN seen[r]) \cup stale'[r]
      BY <2>1, <2>3, <2>5
  <2> QED
      BY <1>1, <1>2, <2>2, <2>4, <2>5, WakeAgents DEF SameRequests
<1> QED
    BY <1>3, <1>4 DEF GateFlips

(* Nothing that counts moves, save a deadline or a client.                 *)
LEMMA WakeSame ==
    ASSUME AllInv, SameRequests, SameAgents, UNCHANGED stale PROVE WakeInv'
<1>1. WakeTypes' /\ \A r \in Req : stale[r] \subseteq stale'[r]
    BY DEF AllInv, WakeInv, WakeTypes, SameRequests, SameAgents
<1>2. Listed' = Listed /\ \A r, o : Class(r, o)' = Class(r, o)
    BY DEF Listed, Current, Class, SameRequests, SameAgents
<1>3. \A r, o : Needs(r, o)' => Needs(r, o)
    BY <1>2 DEF Needs, Waits, Open, SameRequests, SameAgents
<1> QED
    BY <1>1, <1>2, <1>3, WakeAgents DEF SameRequests

LEMMA BroadcastWake ==
    ASSUME AllInv, BroadcastCapacity PROVE WakeInv'
<1>1. /\ news > 0 /\ news' = news - 1 /\ token' = token \cup {waiters[i].who : i \in DOMAIN waiters}
      /\ UNCHANGED <<made, listed, healthy, load, gate, pc, obj>> /\ UNCHANGED sessVars
    BY DEF BroadcastCapacity
<1>2. news' \in Nat
    BY SMTT(60), <1>1 DEF AllInv, WakeInv, WakeTypes
<1>3. WakeTypes'
    BY <1>1, <1>2 DEF AllInv, WakeInv, WakeTypes, sessVars
<1>4. ASSUME NEW r \in Req PROVE InStep(r)' /\ Scanned(r)'
  <2>1. InStep(r) /\ Scanned(r)
      BY DEF AllInv, WakeInv
  <2>2. InStep(r)'
      BY <1>1, <2>1 DEF InStep, Fit, sessVars
  <2>3. Listed' = Listed /\ \A o : Class(r, o)' = Class(r, o)
      BY <1>1 DEF Listed, Current, Class, sessVars
  <2>4. Scanned(r)'
      BY <1>1, <2>1, <2>3 DEF Scanned, sessVars
  <2> QED
      BY <2>2, <2>4
<1>5. ASSUME NEW r \in Req PROVE ~Waits(r)'
  <2>1. pc[r] = "parked" => InLine(r) \/ r \in token
      BY DEF AllInv, QueueInv, QueueOrder
  <2> QED
      BY <1>1, <2>1 DEF Waits, InLine
<1>6. Guarded'
    BY <1>5 DEF Guarded, Needs
<1> QED
    BY <1>3, <1>4, <1>6 DEF WakeInv

LEMMA InitWake == Init => WakeInv
<1> SUFFICES ASSUME Init PROVE WakeInv
    OBVIOUS
<1>1. /\ news = 0 /\ healthy = [o \in Obj |-> TRUE] /\ ticket = [r \in Req |-> 0]
      /\ stale = [r \in Req |-> {}] /\ reason = [r \in Req |-> "exhausted"]
    BY DEF Init
<1>2. \A r \in Req : pc[r] \in {"chan", "ok"}
    BY DEF Init
<1>3. WakeTypes
    BY SMTT(60), <1>1 DEF WakeTypes
<1>4. \A r \in Req : InStep(r) /\ Scanned(r)
    BY <1>1, <1>2 DEF InStep, Scanned
<1>5. Guarded
    BY <1>2 DEF Guarded, Needs, Waits
<1> QED
    BY <1>3, <1>4, <1>5 DEF WakeInv

LEMMA NextWake ==
    ASSUME OneAgent, AllInv, SlotInv', QueueInv', [Next]_vars PROVE WakeInv'
<1>1. ASSUME NEW q \in Req, Goroutine(q) PROVE WakeInv'
    BY <1>1, StartWake, AcquireSemWake, ListByModelWake, ScanWake, ClaimWake, WaitInLineWake,
       WokenWake, PassOnWake, ForwardWake, SlotSignalWake DEF Goroutine
<1>2. ASSUME NEW q \in Req, DeadlinePasses(q) \/ ClientLeaves(q) PROVE WakeInv'
  <2>1. SameRequests /\ SameAgents /\ UNCHANGED stale
      BY <1>2 DEF DeadlinePasses, ClientLeaves, agentVars, queueVars, sessVars, SameRequests, SameAgents
  <2> QED
      BY <2>1, WakeSame
<1>3. ASSUME NEW a \in Agent, AgentChange(a) PROVE WakeInv'
    BY <1>3, AgentDownWake, NewsWake, UnregisterWake, GateFlipsWake DEF AgentChange
<1>4. CASE BroadcastCapacity
    BY <1>4, BroadcastWake
<1>5. CASE AllDone \/ UNCHANGED vars
  <2>1. SameRequests /\ SameAgents /\ UNCHANGED stale
      BY <1>5 DEF AllDone, vars, agentVars, queueVars, sessVars, SameRequests, SameAgents
  <2> QED
      BY <2>1, WakeSame
<1> QED
    BY <1>1, <1>2, <1>3, <1>4, <1>5 DEF Next

(* With nobody astir, the guards of a slot are those that hold it.         *)
LEMMA GuardedEnough == AllInv => FreedInLineWakes
<1> SUFFICES ASSUME AllInv, NEW r \in Req, NEW o \in Obj, Usable(r, o), ~Stirring, o \notin stale[r]
             PROVE  FALSE
    BY DEF FreedInLineWakes
<1>1. InLine(r) /\ o \in Listed /\ Class(r, o) = "ok"
    BY DEF Usable
<1>2. news = 0
  <2>1. news \in Nat /\ ~(news > 0)
      BY DEF Stirring, AllInv, WakeInv, WakeTypes
  <2> QED
      BY SMTT(60), <2>1
<1>3. Open(r, o) /\ ~(load[o] >= Capacity[o[1]])
    BY <1>1, ClassOk DEF Open
<1>4. Needs(r, o)
    BY <1>1, <1>2, <1>3, WaitsInLine DEF Needs
<1>5. Guards(o) = Holders(o)
  <2>1. \A q \in Req : Guard(q, o) <=> pc[q] \in Holding /\ obj[q] = o
      BY DEF Guard, Stirring
  <2> QED
      BY <2>1 DEF Guards, Holders, Holding
<1>6. Capacity[o[1]] <= load[o]
    BY <1>4, <1>5 DEF AllInv, WakeInv, Guarded, SlotInv, SlotsExact
<1>7. Capacity[o[1]] \in Nat /\ load[o] \in Nat
    BY BoundsAssumption DEF Obj, AllInv, SlotInv, AgentsOK
<1> QED
    BY SMTT(60), <1>3, <1>6, <1>7

(* With one agent, no wake-up is lost (slotRelease, WaitQueue.Signal, the  *)
(* pass-on in WaitInLine): while a request waits in line for a slot that   *)
(* is free and that it could use, somebody is awake to take it or to pass  *)
(* the signal on, unless the slot was freed between the request's scan and *)
(* its parking, its gate opened, or its signal went to a request whose own *)
(* step has the gate closed. This holds for any number of requests, steps  *)
(* and slots, through expired deadlines, lost races and re-registrations.  *)
THEOREM FreedSlotHeard == ASSUME OneAgent PROVE Spec => []FreedInLineWakes
<1>1. Init => AllInv
    BY InitSlots, InitQueue, InitAttempts, InitWake DEF AllInv
<1>2. AllInv /\ [Next]_vars => AllInv'
    BY NextSlots, NextQueue, NextAttempts, NextWake DEF AllInv
<1>3. Spec => []AllInv
    BY <1>1, <1>2, PTL DEF Spec
<1> QED
    BY <1>3, GuardedEnough, PTL
=============================================================================
