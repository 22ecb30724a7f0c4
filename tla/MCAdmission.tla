---------------------------- MODULE MCAdmission ----------------------------
(* Small instances of Admission for TLC.                                   *)
EXTENDS Admission, TLC

CONSTANTS r1, r2, r3, model, key

(* Requests that only reserve in the model's pool.                         *)
PoolOnly == [r \in Req |-> <<model>>]
(* Requests of one key with an occupancy share.                            *)
WithShare == [r \in Req |-> <<model, key>>]
(* Only the first request's key has a share.                               *)
OneShared == [r \in Req |-> IF r = r1 THEN <<model, key>> ELSE <<model>>]

(* True-ups: one frees more than a request may hold, one charges more.     *)
MCDeltas == {-3, 1}
=============================================================================
