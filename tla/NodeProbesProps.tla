--------------------------- MODULE NodeProbesProps ---------------------------
(* What the probes of nodes promise to administrators.                       *)
EXTENDS NodeProbes

States == [streak : 0..FailK, announced : BOOLEAN]

\* The types; only targets of the cycle are probed.
TypeOK ==
    /\ enabled \in BOOLEAN /\ others \in BOOLEAN /\ useTester \in BOOLEAN /\ testing \in BOOLEAN
    /\ selected \in SUBSET Nodes /\ forgetting \in SUBSET Nodes /\ rolled \in SUBSET Nodes
    /\ store \in [Nodes -> States \cup {None}]
    /\ disk \in [Nodes -> States \cup {None}]
    /\ cycle \in [on : BOOLEAN, alive : SUBSET Nodes, todo : SUBSET Nodes, tester : BOOLEAN]
    /\ probe \in [pc : {"none", "tester", "local", "record", "decide", "mark"}, node : Nodes \cup {None},
                  ok : BOOLEAN, late : BOOLEAN, seen : States]
    /\ cycle.todo \subseteq cycle.alive /\ (probe.pc # "none" => probe.node \in cycle.alive)
    /\ health \in [Nodes -> BOOLEAN] /\ stopping \in {"no", "yes", "saved"}
    /\ told \in [Nodes -> {"nothing", "down", "up"}]
    /\ fails \in [Nodes -> 0..FailK]
    /\ events \in Nat

\* A notice is sent in this step.
Tells(n, what) ==
    /\ stopping = "no" /\ probe.pc = "decide" /\ probe'.pc = "mark"
    /\ probe.node = n /\ told'[n] = what

\* Users hear that a node is back only after they heard that it was gone, and
\* not twice, in whatever order it is deselected, forgotten and probed; only a
\* restart that lost part of the history, or a shutdown that dropped a notice, may
\* lead to an error (reconcileNodeState).
RecoveryFollowsOutage ==
    [][\A n \in Nodes : Tells(n, "up") => told[n] = "down" \/ n \in rolled]_vars

\* A node is reported to be down only if its last FailK probes failed, across
\* cycles, requests and restarts that keep the history (nodeProbeFailK).
DownAfterFailures ==
    [][\A n \in Nodes : Tells(n, "down") => fails[n] = FailK \/ n \in rolled]_vars

Watched(n) == enabled /\ n \in selected

\* The store remembers that users were told that a node is gone.
Remembered(n) == store[n] # None /\ store[n].announced

\* A node that stays down is reported, whoever is asked to probe it and whatever
\* was lost of its history, as long as the store does not remember that it was
\* (runCycle, reconcileNodeState).  After a shutdown that drops a notice, or a crash
\* that loses the mark of a recovery, it remembers so wrongly, and nobody is told.
Unheard(n) == ~health[n] /\ Watched(n) /\ told[n] # "down" /\ ~Remembered(n)
OutageIsTold == \A n \in Nodes : Unheard(n) ~> ~Unheard(n)

\* The history of a node that is no longer probed goes away while others are
\* probed, also if its last probe was recorded behind Forget (RetainOnly).
Leftover(n) == store[n] # None /\ ~Watched(n) /\ enabled /\ (selected # {} \/ others)
LeftoversGo == \A n \in Nodes : Leftover(n) ~> ~Leftover(n)
=============================================================================
