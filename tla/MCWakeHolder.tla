---------------------------- MODULE MCWakeHolder ----------------------------
(* A small instance of WakeHolder for TLC.                                 *)
EXTENDS WakeHolder, TLC

CONSTANTS c1, c2, m1, k1

OneModel == [c \in Call |-> m1]

(* A request and its retry; two clients' requests that share an ID, one of *)
(* them without a key.                                                     *)
Retry == [c \in Call |-> <<k1, 1>>]
Shared == [c \in Call |-> IF c = c1 THEN <<k1, 1>> ELSE <<NoCaller, 1>>]
RetryOrShared == {Retry, Shared}

(* Limits that do not bind two requests, and each limit binding alone.     *)
Two == [PerModel |-> 2, PerCaller |-> 2, Total |-> 2]
EachBinds == {Two, [Two EXCEPT !.PerModel = 1], [Two EXCEPT !.PerCaller = 1],
              [Two EXCEPT !.Total = 1]}
=============================================================================
