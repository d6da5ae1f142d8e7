--------------------------- MODULE MCAgentAttempts ---------------------------
(* Model-checking instance of AgentAttempts: every attempt is for one peer.  *)
EXTENDS AgentAttempts

CONSTANTS p1

MCPeers  == {p1}
MCPeerOf == [a \in Attempts |-> p1]
=============================================================================
