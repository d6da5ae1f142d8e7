---------------------------- MODULE MCAgentSync -----------------------------
(* A model-checking instance of AgentSync: two registrations whose names are *)
(* told apart, and a configuration that changes twice.                       *)
EXTENDS AgentSync

CONSTANTS n1, n2

MCNodeIds == {n1, n2}
=============================================================================
