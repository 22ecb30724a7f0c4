----------------------------- MODULE MCDispatch -----------------------------
(* Small instances of Dispatch for TLC.                                    *)
EXTENDS Dispatch, TLC

CONSTANTS r1, r2, r3, r4

OneSlot == [a \in Agent |-> 1]

(* Steps without filters, the first with one try, the second with two.     *)
AnyAgent == [i \in 1..Steps |-> Agent]
OneThenTwo == [i \in 1..Steps |-> IF i = 1 THEN 1 ELSE 2]

(* One request meets every failure, the others only take slots.            *)
OneFails == [r \in Req |-> IF r = r1 THEN OutcomeKinds ELSE {"stream"}]

(* A request that fails beside one that streams, under one event; three    *)
(* requests that only compete for the slot.                                *)
FailingOrCrowded == {[reqs |-> {r1, r2}, events |-> 1], [reqs |-> {r2, r3, r4}, events |-> 0]}
=============================================================================
