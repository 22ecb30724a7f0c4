----------------------------- MODULE MCAgentLink -----------------------------
(* A small instance of AgentLink for TLC.                                  *)
EXTENDS AgentLink, TLC

CONSTANTS m1, m2

(* Two faults, or one and a renewal of the session.                        *)
FaultsOrRenewal == {[faults |-> 2, renewals |-> 0], [faults |-> 1, renewals |-> 1]}
=============================================================================
