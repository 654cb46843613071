------------------------------ MODULE NodeProbes ------------------------------
(* The periodic probes of nodes: runCycle and probeOne                         *)
(* (node_probe_scheduler.go), the history that they keep and its checkpoint    *)
(* (node_probe_store.go), and the administrator's requests                     *)
(* (node_probe_api.go).  A probe is asked of a speed tester and falls back on  *)
(* the panel itself, where it shares a lock with manual speed tests; all of it *)
(* happens within one time limit.                                              *)
EXTENDS Naturals

CONSTANTS
    Nodes,         \* the nodes that are followed
    FailK,         \* nodeProbeFailK
    MaxEvents,     \* bound on requests, manual tests, failures, recoveries and restarts
    None

ASSUME NodeProbesAssumption ==
    /\ FailK \in Nat \ {0}
    /\ MaxEvents \in Nat
    /\ None \notin Nodes

VARIABLES
    enabled,     \* setting node_probe_enabled
    useTester,   \* setting node_probe_tester_id is a tester
    selected,    \* nodes whose rows ListProbeEnabledNodes returns
    others,      \* it also returns nodes that are not followed here
    forgetting,  \* toggle requests that have written the row, Forget not yet called
    store,       \* NodeProbeStore.data: what is kept of a node, or None
    disk,        \* the checkpoint
    cycle,       \* runCycle: its targets, those not yet probed, whom it asks
    probe,       \* probeOne and reconcileNodeState of the node that has the semaphore
    testing,     \* a manual speed test holds runMu
    health,      \* can the node be used
    stopping,    \* the context is cancelled: not yet, yes, and the last checkpoint is saved
    told,        \* history: the last notice about a node that could be sent
    fails,       \* history: probes of a node that failed since the last success, up to FailK
    rolled,      \* history: nodes of which, since their last notice, a restart forgot
                 \* something, or the shutdown dropped a notice
    events       \* counter of the bound

settings == <<enabled, useTester, selected, others>>
history  == <<told, fails, rolled>>
panel    == <<cycle, probe, testing, stopping>>
vars     == <<settings, forgetting, store, disk, panel, health, history, events>>

NoCycle == [on |-> FALSE, alive |-> {}, todo |-> {}, tester |-> FALSE]
NewState == [streak |-> 0, announced |-> FALSE]
NoProbe == [pc |-> "none", node |-> None, ok |-> FALSE, late |-> FALSE, seen |-> NewState]

Init ==
    /\ enabled = TRUE
    /\ useTester \in BOOLEAN
    /\ selected \in SUBSET Nodes
    /\ others = FALSE
    /\ forgetting = {}
    /\ store = [n \in Nodes |-> None]
    /\ disk = store
    /\ cycle = NoCycle
    /\ probe = NoProbe
    /\ testing = FALSE
    /\ health = [n \in Nodes |-> TRUE]
    /\ stopping = "no"
    /\ told = [n \in Nodes |-> "nothing"]
    /\ fails = [n \in Nodes |-> 0]
    /\ rolled = {}
    /\ events = 0

Event == events < MaxEvents /\ events' = events + 1

-----------------------------------------------------------------------------
(* The store                                                                 *)

OneMore(k) == IF k < FailK THEN k + 1 ELSE k
Known(s)   == IF s = None THEN NewState ELSE s

\* NodeProbeStore.Record
NeverReset(s, ok) == [Known(s) EXCEPT !.streak = IF ok THEN @ ELSE OneMore(@)]   \* mutant
Recorded(s, ok)   == [Known(s) EXCEPT !.streak = IF ok THEN 0 ELSE OneMore(@)]

\* MarkAnnounced.  What was forgotten meanwhile stays so.
StaysMarked(s, down) == IF s = None THEN None ELSE [s EXCEPT !.announced = @ \/ down]   \* mutant
Marked(s, down)      == IF s = None THEN None ELSE [s EXCEPT !.announced = down]

\* RetainOnly
DropKept(ids) == store' = [n \in Nodes |-> IF n \in ids THEN None ELSE store[n]]   \* mutant
KeepAll(ids)  == store' = store                                                  \* mutant
Retain(ids)   == store' = [n \in Nodes |-> IF n \in ids THEN store[n] ELSE None]

-----------------------------------------------------------------------------
(* runCycle and its goroutines.  The semaphore lets one probe at a time.     *)

\* Without targets it returns before it clears anything.
CycleBegins ==
    /\ stopping = "no" /\ ~cycle.on /\ enabled /\ (selected # {} \/ others)
    /\ cycle' = [on |-> TRUE, alive |-> selected, todo |-> selected, tester |-> useTester]
    /\ UNCHANGED <<settings, forgetting, store, disk, probe, testing, stopping, health, history, events>>

ProbeBegins(n) ==
    /\ probe.pc = "none" /\ n \in cycle.todo
    /\ cycle' = [cycle EXCEPT !.todo = @ \ {n}]
    /\ probe' = [NoProbe EXCEPT !.pc = IF cycle.tester THEN "tester" ELSE "local", !.node = n]
    /\ UNCHANGED <<settings, forgetting, store, disk, testing, stopping, health, history, events>>

\* Dispatch: the tester answers, or it is not connected or reports a failure, or
\* nothing comes until the time of the probe is over.
Tester ==
    /\ probe.pc = "tester"
    /\ \/ probe' = [probe EXCEPT !.pc = "record", !.ok = health[probe.node]]
       \/ \E late \in BOOLEAN : probe' = [probe EXCEPT !.pc = "local", !.late = late]
    /\ UNCHANGED <<settings, forgetting, store, disk, cycle, testing, stopping, health, history, events>>

\* RunNodeTest takes runMu first, however long that takes, and then has what is
\* left of the time, or of the context.
WaitTooLong ==
    /\ probe.pc = "local" /\ testing /\ ~probe.late
    /\ probe' = [probe EXCEPT !.late = TRUE]
    /\ UNCHANGED <<settings, forgetting, store, disk, cycle, testing, stopping, health, history, events>>

RunNodeTest ==
    /\ probe.pc = "local" /\ ~testing
    /\ \E cut \in {FALSE, stopping # "no"} :
          probe' = [probe EXCEPT !.pc = "record", !.ok = health[probe.node] /\ ~probe.late /\ ~cut]
    /\ UNCHANGED <<settings, forgetting, store, disk, cycle, testing, stopping, health, history, events>>

\* EnsureMihomo fails, or mihomo does not start.
MihomoMissing ==
    /\ probe.pc = "local" /\ Event
    /\ probe' = [probe EXCEPT !.pc = "record", !.ok = FALSE]
    /\ UNCHANGED <<settings, forgetting, store, disk, cycle, testing, stopping, health, history>>

\* Record returns what it has written; the decision is made from that.
Record ==
    /\ probe.pc = "record"
    /\ LET n == probe.node  new == Recorded(store[n], probe.ok) IN
       /\ store' = [store EXCEPT ![n] = new]
       /\ probe' = [probe EXCEPT !.pc = "decide", !.seen = new]
       /\ fails' = [fails EXCEPT ![n] = IF probe.ok THEN 0 ELSE OneMore(@)]
    /\ UNCHANGED <<settings, forgetting, disk, cycle, testing, stopping, health, told, rolled, events>>

\* reconcileNodeState: the notice goes out, and then it is remembered.  A cancelled
\* context does not let it out, but it is remembered all the same.
Down(s) == s.streak >= FailK /\ ~s.announced
Up(s)   == s.streak = 0 /\ s.announced

NothingToTell ==
    /\ probe.pc = "decide" /\ ~Down(probe.seen) /\ ~Up(probe.seen)
    /\ probe' = NoProbe
    /\ UNCHANGED <<settings, forgetting, store, disk, cycle, testing, stopping, health, history, events>>

Notify ==
    /\ probe.pc = "decide" /\ (Down(probe.seen) \/ Up(probe.seen))
    /\ probe' = [probe EXCEPT !.pc = "mark"]
    /\ IF stopping = "no"
          THEN /\ told' = [told EXCEPT ![probe.node] = IF Down(probe.seen) THEN "down" ELSE "up"]
               /\ rolled' = rolled \ {probe.node}
          ELSE rolled' = rolled \cup {probe.node} /\ UNCHANGED told
    /\ UNCHANGED <<settings, forgetting, store, disk, cycle, testing, stopping, health, fails, events>>

Mark ==
    /\ probe.pc = "mark"
    /\ store' = [store EXCEPT ![probe.node] = Marked(@, Down(probe.seen))]
    /\ probe' = NoProbe
    /\ UNCHANGED <<settings, forgetting, disk, cycle, testing, stopping, health, history, events>>

\* wg.Wait and the deferred RetainOnly
Spawned == cycle.todo = {}   \* mutant: does not wait
AllDone == cycle.todo = {} /\ probe.pc = "none"

CycleEnds ==
    /\ cycle.on /\ AllDone
    /\ Retain(cycle.alive)
    /\ cycle' = NoCycle
    /\ UNCHANGED <<settings, forgetting, disk, probe, testing, stopping, health, history, events>>

\* A cancelled context ends the loop that starts the goroutines: the targets that
\* are left, followed here or not, are not probed, and RetainOnly does not wait
\* for those that were started.
CycleCancelled ==
    /\ cycle.on /\ stopping # "no"
    /\ \E started \in SUBSET cycle.todo : cycle' = [cycle EXCEPT !.on = FALSE, !.todo = started]
    /\ Retain(cycle.alive)
    /\ UNCHANGED <<settings, forgetting, disk, probe, testing, stopping, health, history, events>>

Scheduler ==
    \/ CycleBegins \/ (\E n \in Nodes : ProbeBegins(n)) \/ CycleEnds
    \/ Tester \/ RunNodeTest \/ Record \/ NothingToTell \/ Notify \/ Mark

\* runCheckpointLoop, as long as a restart may load what it saves; the last
\* checkpoint is saved when the context is cancelled.
Checkpoint ==
    /\ \/ stopping = "no" /\ disk # store /\ events < MaxEvents /\ UNCHANGED stopping
       \/ stopping = "yes" /\ stopping' = "saved"
    /\ disk' = store
    /\ UNCHANGED <<settings, forgetting, store, cycle, probe, testing, health, history, events>>

-----------------------------------------------------------------------------
(* Administrators                                                            *)

\* handleToggleNode: the row, and behind it the history.
Select(n) ==
    /\ n \notin selected /\ Event
    /\ selected' = selected \cup {n}
    /\ UNCHANGED <<enabled, useTester, others, forgetting, store, disk, panel, health, history>>

Deselect(n) ==
    /\ n \in selected /\ Event
    /\ selected' = selected \ {n}
    /\ forgetting' = forgetting \cup {n}
    /\ UNCHANGED <<enabled, useTester, others, store, disk, panel, health, history>>

Forget(n) ==
    /\ n \in forgetting
    /\ forgetting' = forgetting \ {n}
    /\ store' = [store EXCEPT ![n] = None]
    /\ UNCHANGED <<settings, disk, panel, health, history, events>>

\* The node is deleted or disabled: no one tells the store.
NodeGone(n) ==
    /\ n \in selected /\ Event
    /\ selected' = selected \ {n}
    /\ UNCHANGED <<enabled, useTester, others, forgetting, store, disk, panel, health, history>>

OthersChange ==
    /\ Event
    /\ others' = ~others
    /\ UNCHANGED <<enabled, useTester, selected, forgetting, store, disk, panel, health,
                   history>>

\* handleUpdateSettings
UpdateSettings ==
    /\ Event
    /\ \/ enabled' = ~enabled /\ UNCHANGED useTester
       \/ useTester' = ~useTester /\ UNCHANGED enabled
    /\ UNCHANGED <<selected, others, forgetting, store, disk, panel, health, history>>

\* runSpeedTestAsync on the panel itself
TestBegins ==
    /\ ~testing /\ Event
    /\ testing' = TRUE
    /\ UNCHANGED <<settings, forgetting, store, disk, cycle, probe, stopping, health, history>>

TestEnds ==
    /\ testing
    /\ testing' = FALSE
    /\ UNCHANGED <<settings, forgetting, store, disk, cycle, probe, stopping, health, history, events>>

Administrator ==
    /\ stopping = "no"
    /\ \/ \E n \in Nodes : Select(n) \/ Deselect(n) \/ NodeGone(n)
       \/ OthersChange \/ UpdateSettings \/ TestBegins

-----------------------------------------------------------------------------
(* Nodes and restarts                                                        *)

Flip(n) ==
    /\ Event
    /\ health' = [health EXCEPT ![n] = ~@]
    /\ UNCHANGED <<settings, forgetting, store, disk, panel, history>>

\* waitForShutdown cancels the context; what runs goes on until the process ends.
Shutdown ==
    /\ stopping = "no" /\ Event
    /\ stopping' = "yes"
    /\ UNCHANGED <<settings, forgetting, store, disk, cycle, probe, testing, health, history>>

\* The next process loads the checkpoint.
Loads ==
    /\ store' = disk
    /\ rolled' = rolled \cup {n \in Nodes : disk[n] # store[n]}
                        \cup {n \in Nodes : probe.pc = "mark" /\ n = probe.node}
    /\ cycle' = NoCycle /\ probe' = NoProbe /\ forgetting' = {}
    /\ testing' = FALSE /\ stopping' = "no"
    /\ UNCHANGED <<settings, disk, health, told, fails>>

Crash   == stopping = "no" /\ Event /\ Loads
Restart == stopping # "no" /\ Loads /\ UNCHANGED events

Next ==
    \/ Scheduler \/ CycleCancelled \/ WaitTooLong \/ MihomoMissing \/ Checkpoint
    \/ Administrator \/ TestEnds \/ Shutdown \/ Crash \/ Restart
    \/ \E n \in Nodes : Forget(n) \/ Flip(n)

Spec == Init /\ [][Next]_vars

\* The ticker goes on, goroutines run, and every wait of a probe is bounded: by
\* its time or by the end of the speed test that has the lock.  A shutdown ends
\* after 10 seconds, and the panel comes back.
Fairness ==
    /\ WF_vars(Scheduler) /\ WF_vars(TestEnds) /\ WF_vars(Restart)
    /\ \A n \in Nodes : WF_vars(Forget(n))

FairSpec == Spec /\ Fairness
=============================================================================
