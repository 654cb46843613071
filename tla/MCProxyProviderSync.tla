------------------------- MODULE MCProxyProviderSync -------------------------
(* Instances of ProxyProviderSync for TLC. *)
EXTENDS ProxyProviderSyncProps, TLC

\* Ids, versions and goroutines are interchangeable in the safety runs.
Symmetry == Permutations(Ids) \cup Permutations(Workers) \cup Permutations(Versions)
=============================================================================
