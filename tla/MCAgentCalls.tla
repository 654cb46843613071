---------------------------- MODULE MCAgentCalls ----------------------------
(* Instances of AgentCalls for TLC. *)
EXTENDS AgentCallsProps, TLC

CONSTANTS c1, s1, p1
=============================================================================
