----------------------------- MODULE MCKeyStore -----------------------------
(* A small instance of KeyStore for TLC.                                   *)
EXTENDS KeyStore, TLC

CONSTANTS h1, h2

(* Two crashes or failures, and time that passes once.                     *)
Faults == {[faults |-> 2, time |-> 1]}
=============================================================================
