--------------------------- MODULE MCSecureChannel ---------------------------
(* Instances of SecureChannel for TLC. *)
EXTENDS SecureChannelProps, TLC

CONSTANTS c1, c2, c3

Symmetry == Permutations(Calls)
=============================================================================
