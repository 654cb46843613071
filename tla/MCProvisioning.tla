---------------------------- MODULE MCProvisioning ----------------------------
(* Instances of Provisioning for TLC. *)
EXTENDS ProvisioningProps, TLC

CONSTANTS u1, p1, i1, c1, c2, r1

\* No action reads the history touched, and only ExpiryForgetsNothing mentions it.
Untouched == <<db, row, agents, threads, work, requests, faults>>
=============================================================================
