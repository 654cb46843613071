-------------------------- MODULE MCAgentConnections --------------------------
(* Instances of AgentConnections for TLC. *)
EXTENDS AgentConnectionsProps, TLC

CONSTANTS k1, k2, a1, a2, r1
=============================================================================
