----------------------------- MODULE MCCounters -----------------------------
(* An instance of Counters for TLC.                                        *)
EXTENDS Counters, TLC

Symmetry == Permutations(Rec)
=============================================================================
