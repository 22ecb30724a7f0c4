------------------------------ MODULE MCBudget ------------------------------
(* Instances of Budget for TLC.                                            *)
EXTENDS Budget, TLC

Buffered == [kind |-> "chat", est |-> 1, max |-> 1, out |-> 1, stream |-> FALSE, by |-> "agent"]
Streamed == [kind |-> "chat", est |-> 2, max |-> 0, out |-> 1, stream |-> TRUE, by |-> "agent"]
Provided == [kind |-> "chat", est |-> 1, max |-> 0, out |-> 2, stream |-> FALSE, by |-> "provider"]
Counting == [kind |-> "count", est |-> 1, max |-> 0, out |-> 1, stream |-> FALSE, by |-> "agent"]

\* A flat key with buffered requests and streams, a serverless per-model key
\* with buffered and provider requests, and a per-model key of a model that
\* it does not list, with a counting request.
MCCases ==
  { [key |-> [perModel |-> FALSE, listed |-> TRUE, wakeable |-> FALSE, serverless |-> FALSE],
     shapes |-> {Buffered, Streamed}],
    [key |-> [perModel |-> TRUE, listed |-> TRUE, wakeable |-> TRUE, serverless |-> TRUE],
     shapes |-> {Buffered}],
    [key |-> [perModel |-> TRUE, listed |-> TRUE, wakeable |-> FALSE, serverless |-> FALSE],
     shapes |-> {Provided, Counting}],
    [key |-> [perModel |-> TRUE, listed |-> FALSE, wakeable |-> TRUE, serverless |-> TRUE],
     shapes |-> {Counting}] }

Symmetry == Permutations(Requests)
=============================================================================
