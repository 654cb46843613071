----------------------------- MODULE MCNodeProbes -----------------------------
(* Instances of NodeProbes for TLC. *)
EXTENDS NodeProbesProps, TLC

CONSTANT n1
=============================================================================
