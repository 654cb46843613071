--------------------------- MODULE NodeProbesProofs ---------------------------
(***************************************************************************)
(* Proofs about NodeProbes, for any nodes, any number of failures that     *)
(* make a node unusable, and any number of events.                         *)
(***************************************************************************)
EXTENDS NodeProbesProps, TLAPS

Pcs    == {"none", "tester", "local", "record", "decide", "mark"}
Cycles == [on : BOOLEAN, alive : SUBSET Nodes, todo : SUBSET Nodes, tester : BOOLEAN]
Probes == [pc : Pcs, node : Nodes \cup {None}, ok : BOOLEAN, late : BOOLEAN, seen : States]

\* The conjuncts of TypeOK; nothing is probed outside a cycle, but what a cancelled
\* one has left.
SettingsOK == /\ enabled \in BOOLEAN /\ others \in BOOLEAN /\ useTester \in BOOLEAN /\ testing \in BOOLEAN
              /\ selected \in SUBSET Nodes /\ forgetting \in SUBSET Nodes
              /\ health \in [Nodes -> BOOLEAN] /\ events \in Nat
              /\ stopping \in {"no", "yes", "saved"}
StoreOK    == store \in [Nodes -> States \cup {None}]
DiskOK     == disk \in [Nodes -> States \cup {None}]
CycleOK    == /\ cycle \in Cycles /\ cycle.todo \subseteq cycle.alive
              /\ ~cycle.on /\ stopping = "no" => cycle.todo = {}
ProbeOK    == /\ probe \in Probes
              /\ probe.pc # "none" => probe.node \in cycle.alive /\ (cycle.on \/ stopping # "no")
HistoryOK  == /\ told \in [Nodes -> {"nothing", "down", "up"}]
              /\ fails \in [Nodes -> 0..FailK] /\ rolled \in SUBSET Nodes

Types == SettingsOK /\ StoreOK /\ DiskOK /\ CycleOK /\ ProbeOK /\ HistoryOK

\* A notice about n is out and not yet remembered.
Between(n) == probe.pc = "mark" /\ probe.node = n

\* What the store has of a node agrees with the history: who is remembered as
\* announced heard of it, and no more failures are counted than there were.
Agrees(n, s) ==
    /\ s.announced => told[n] = "down" \/ n \in rolled
    /\ s.streak <= fails[n] \/ n \in rolled \/ s.announced
StoreAgrees == \A n \in Nodes : store[n] # None => Agrees(n, store[n]) \/ Between(n)

\* So does what a decision is made from; until it is remembered the store keeps
\* the number of failures.
SeenAgrees ==
    /\ probe.pc = "decide" => Agrees(probe.node, probe.seen)
    /\ probe.pc = "mark" => \/ told[probe.node] = IF Down(probe.seen) THEN "down" ELSE "up"
                           \/ probe.node \in rolled
    /\ probe.pc = "mark" => Down(probe.seen) \/ Up(probe.seen)
    /\ probe.pc \in {"decide", "mark"} =>
           store[probe.node] = None \/ store[probe.node].streak = probe.seen.streak

IInv == Types /\ StoreAgrees /\ SeenAgrees

LEMMA RecordTypes ==
    /\ NewState \in States /\ NoProbe \in Probes /\ NoCycle \in Cycles
    /\ NoProbe.pc = "none" /\ NoCycle.todo = {} /\ NewState.streak = 0 /\ NewState.announced = FALSE
<1>1. NewState \in States /\ NewState.streak = 0 /\ NewState.announced = FALSE
  BY NodeProbesAssumption DEF NewState, States
<1>2. NoProbe \in Probes /\ NoProbe.pc = "none"
  BY <1>1 DEF NoProbe, Probes, Pcs
<1>3. NoCycle \in Cycles /\ NoCycle.todo = {}
  BY DEF NoCycle, Cycles
<1> QED
  BY <1>1, <1>2, <1>3

LEMMA InitInv == Init => IInv
<1> SUFFICES ASSUME Init PROVE IInv
  OBVIOUS
<1>1. SettingsOK /\ StoreOK /\ DiskOK /\ HistoryOK
  <2>1. SettingsOK
    BY DEF Init, SettingsOK
  <2>2. StoreOK /\ DiskOK
    BY DEF Init, StoreOK, DiskOK
  <2>3. HistoryOK
    <3>1. 0 \in 0..FailK
      BY NodeProbesAssumption
    <3> QED
      BY <3>1 DEF Init, HistoryOK
  <2> QED
    BY <2>1, <2>2, <2>3
<1>2. CycleOK /\ ProbeOK
  BY RecordTypes DEF Init, CycleOK, ProbeOK
<1>3. StoreAgrees /\ SeenAgrees
  BY RecordTypes DEF Init, StoreAgrees, SeenAgrees
<1> QED
  BY <1>1, <1>2, <1>3 DEF IInv, Types

-----------------------------------------------------------------------------
(* Probes                                                                    *)

LEMMA Moved ==
    ASSUME NEW p \in Probes, NEW pc \in Pcs
    PROVE  /\ [p EXCEPT !.pc = pc] \in Probes
           /\ [p EXCEPT !.pc = pc].pc = pc /\ [p EXCEPT !.pc = pc].node = p.node
           /\ [p EXCEPT !.pc = pc].seen = p.seen
BY DEF Probes

LEMMA Found ==
    ASSUME NEW p \in Probes, NEW ok \in BOOLEAN
    PROVE  /\ [p EXCEPT !.pc = "record", !.ok = ok] \in Probes
           /\ [p EXCEPT !.pc = "record", !.ok = ok].pc = "record"
           /\ [p EXCEPT !.pc = "record", !.ok = ok].node = p.node
BY DEF Probes, Pcs

LEMMA Delayed ==
    ASSUME NEW p \in Probes, NEW late \in BOOLEAN
    PROVE  /\ [p EXCEPT !.pc = "local", !.late = late] \in Probes
           /\ [p EXCEPT !.pc = "local", !.late = late].pc = "local"
           /\ [p EXCEPT !.pc = "local", !.late = late].node = p.node
           /\ [p EXCEPT !.late = late] \in Probes
           /\ [p EXCEPT !.late = late].pc = p.pc /\ [p EXCEPT !.late = late].node = p.node
BY DEF Probes, Pcs

LEMMA ProbeFacts ==
    ASSUME IInv, probe.pc # "none" PROVE probe.node \in Nodes /\ probe \in Probes
BY DEF IInv, Types, CycleOK, Cycles, ProbeOK

\* A probe goes on towards its result; nothing is recorded.
LEMMA ProbeKeeps ==
    ASSUME IInv, NEW p \in Probes, probe' = p, p.pc \notin {"decide", "mark"}, probe.pc # "mark",
           p.pc # "none" => p.node = probe.node /\ probe.pc # "none",
           SettingsOK', UNCHANGED <<store, disk, cycle, stopping, history>>
    PROVE  IInv'
<1>1. Types'
  BY DEF IInv, Types, StoreOK, DiskOK, CycleOK, ProbeOK, HistoryOK, history
<1>2. StoreAgrees'
  BY DEF IInv, StoreAgrees, Agrees, Between, history
<1>3. SeenAgrees'
  BY DEF SeenAgrees
<1> QED
  BY <1>1, <1>2, <1>3 DEF IInv

LEMMA TesterKeeps == ASSUME IInv, Tester PROVE IInv'
<1>1. probe.pc = "tester" /\ probe.node \in Nodes /\ probe \in Probes
  BY ProbeFacts DEF Tester
<1>2. UNCHANGED <<settings, forgetting, store, disk, cycle, testing, stopping, health, history, events>>
  BY DEF Tester
<1>3. SettingsOK'
  BY <1>2 DEF IInv, Types, SettingsOK, settings
<1>4. CASE probe' = [probe EXCEPT !.pc = "record", !.ok = health[probe.node]]
  <2>1. health[probe.node] \in BOOLEAN
    BY <1>1 DEF IInv, Types, SettingsOK
  <2>2. probe' \in Probes /\ probe'.pc = "record" /\ probe'.node = probe.node
    BY <1>1, <1>4, <2>1, Found
  <2> QED
    BY <1>1, <1>2, <1>3, <2>2, ProbeKeeps
<1>5. CASE \E late \in BOOLEAN : probe' = [probe EXCEPT !.pc = "local", !.late = late]
  <2>1. PICK late \in BOOLEAN : probe' = [probe EXCEPT !.pc = "local", !.late = late]
    BY <1>5
  <2>2. probe' \in Probes /\ probe'.pc = "local" /\ probe'.node = probe.node
    BY <1>1, <2>1, Delayed
  <2> QED
    BY <1>1, <1>2, <1>3, <2>2, ProbeKeeps
<1> QED
  BY <1>4, <1>5 DEF Tester

LEMMA LocalKeeps == ASSUME IInv, WaitTooLong \/ RunNodeTest \/ MihomoMissing PROVE IInv'
<1>1. probe.pc = "local"
  BY DEF WaitTooLong, RunNodeTest, MihomoMissing
<1>2. probe.node \in Nodes /\ probe \in Probes
  BY <1>1, ProbeFacts
<1>3. UNCHANGED <<settings, forgetting, store, disk, cycle, testing, stopping, health, history>>
  BY DEF WaitTooLong, RunNodeTest, MihomoMissing
<1>4. SettingsOK'
  <2>1. events' \in Nat
    BY DEF WaitTooLong, RunNodeTest, MihomoMissing, Event, IInv, Types, SettingsOK
  <2> QED
    BY <1>3, <2>1 DEF IInv, Types, SettingsOK, settings
<1>5. probe' \in Probes /\ probe'.pc \in {"local", "record"} /\ probe'.node = probe.node
  <2>1. CASE WaitTooLong
    BY <1>1, <1>2, <2>1, Delayed DEF WaitTooLong
  <2>2. CASE RunNodeTest
    <3>1. PICK cut \in {FALSE, stopping # "no"} :
             probe' = [probe EXCEPT !.pc = "record", !.ok = health[probe.node] /\ ~probe.late /\ ~cut]
      BY <2>2 DEF RunNodeTest
    <3>2. (health[probe.node] /\ ~probe.late /\ ~cut) \in BOOLEAN
      OBVIOUS
    <3> QED
      BY <1>2, <3>1, <3>2, Found
  <2>3. CASE MihomoMissing
    BY <1>2, <2>3, Found DEF MihomoMissing
  <2> QED
    BY <2>1, <2>2, <2>3
<1> QED
  BY <1>1, <1>3, <1>4, <1>5, ProbeKeeps

LEMMA ProbeBeginsKeeps == ASSUME IInv, NEW n \in Nodes, ProbeBegins(n) PROVE IInv'
<1> DEFINE pc == IF cycle.tester THEN "tester" ELSE "local"
           p  == [NoProbe EXCEPT !.pc = pc, !.node = n]
           c  == [cycle EXCEPT !.todo = @ \ {n}]
<1>1. /\ probe.pc = "none" /\ n \in cycle.todo /\ probe' = p /\ cycle' = c
      /\ UNCHANGED <<settings, forgetting, store, disk, testing, stopping, health, history, events>>
  BY DEF ProbeBegins
<1>2. pc \in {"tester", "local"}
  OBVIOUS
<1> HIDE DEF pc
<1>3. p \in Probes /\ p.pc = pc /\ p.node = n
  BY <1>2, RecordTypes DEF Probes, Pcs
<1>4. cycle \in Cycles /\ cycle.todo \subseteq cycle.alive
  BY DEF IInv, Types, CycleOK
<1>5. c \in Cycles /\ c.todo \subseteq c.alive /\ c.alive = cycle.alive
  BY <1>4 DEF Cycles
<1>9. c.on \/ stopping # "no"
  <2>1. CASE cycle.on
    BY <1>4, <2>1 DEF Cycles
  <2>2. CASE ~cycle.on
    BY <1>1, <2>2 DEF IInv, Types, CycleOK
  <2> QED
    BY <2>1, <2>2
<1> HIDE DEF p, c
<1>6. Types'
  BY <1>1, <1>3, <1>4, <1>5, <1>9 DEF IInv, Types, SettingsOK, StoreOK, DiskOK, CycleOK, ProbeOK, HistoryOK,
     settings, history
<1>7. StoreAgrees'
  BY <1>1, <1>2, <1>3 DEF IInv, StoreAgrees, Agrees, Between, history
<1>8. SeenAgrees'
  BY <1>1, <1>2, <1>3 DEF SeenAgrees
<1> QED
  BY <1>6, <1>7, <1>8 DEF IInv

LEMMA RecordedTypes ==
    ASSUME NEW s \in States \cup {None}, NEW ok \in BOOLEAN
    PROVE  /\ Known(s) \in States
           /\ Recorded(s, ok) \in States /\ Recorded(s, ok).announced = Known(s).announced
           /\ Recorded(s, ok).streak = IF ok THEN 0 ELSE OneMore(Known(s).streak)
<1> USE NodeProbesAssumption
<1>1. Known(s) \in States
  BY RecordTypes DEF Known
<1>2. \A k \in 0..FailK : OneMore(k) \in 0..FailK
  BY DEF OneMore
<1>3. (IF ok THEN 0 ELSE OneMore(Known(s).streak)) \in 0..FailK
  BY <1>1, <1>2 DEF States
<1> DEFINE k == IF ok THEN 0 ELSE OneMore(Known(s).streak)
<1>4. Recorded(s, ok) = [Known(s) EXCEPT !.streak = k]
  BY DEF Recorded
<1> HIDE DEF k
<1>5. \A r \in States, j \in 0..FailK :
         [r EXCEPT !.streak = j] \in States /\ [r EXCEPT !.streak = j].streak = j
         /\ [r EXCEPT !.streak = j].announced = r.announced
  BY DEF States
<1>6. k \in 0..FailK
  BY <1>3 DEF k
<1> QED
  BY <1>1, <1>4, <1>5, <1>6 DEF k

LEMMA RecordKeeps == ASSUME IInv, Record PROVE IInv'
<1> DEFINE n == probe.node  new == Recorded(store[n], probe.ok)
           p == [probe EXCEPT !.pc = "decide", !.seen = new]
<1>1. /\ probe.pc = "record" /\ store' = [store EXCEPT ![n] = new] /\ probe' = p
      /\ fails' = [fails EXCEPT ![n] = IF probe.ok THEN 0 ELSE OneMore(@)]
      /\ UNCHANGED <<settings, forgetting, disk, cycle, testing, stopping, health, told, rolled, events>>
  BY DEF Record
<1>2. n \in Nodes /\ probe \in Probes /\ probe.ok \in BOOLEAN
  BY <1>1, ProbeFacts DEF Probes
<1>3. store[n] \in States \cup {None} /\ fails[n] \in 0..FailK
  BY <1>2 DEF IInv, Types, StoreOK, HistoryOK
<1>4. /\ Known(store[n]) \in States /\ new \in States /\ new.announced = Known(store[n]).announced
      /\ new.streak = IF probe.ok THEN 0 ELSE OneMore(Known(store[n]).streak)
  BY <1>2, <1>3, RecordedTypes
<1> HIDE DEF new
<1>5. p \in Probes /\ p.pc = "decide" /\ p.node = n /\ p.seen = new
  BY <1>2, <1>4 DEF Probes, Pcs
<1> HIDE DEF p
<1>6. fails' \in [Nodes -> 0..FailK] /\ fails'[n] = IF probe.ok THEN 0 ELSE OneMore(fails[n])
  BY <1>1, <1>2, <1>3, NodeProbesAssumption DEF IInv, Types, HistoryOK, OneMore
<1>7. Types'
  BY <1>1, <1>2, <1>4, <1>5, <1>6 DEF IInv, Types, SettingsOK, StoreOK, DiskOK, CycleOK, ProbeOK, HistoryOK,
     settings
<1>8. /\ new.announced => told[n] = "down" \/ n \in rolled
      /\ new.streak <= fails'[n] \/ n \in rolled \/ new.announced
  <2>1. CASE store[n] = None
    <3>1. new.announced = FALSE /\ new.streak = IF probe.ok THEN 0 ELSE OneMore(0)
      BY <1>4, <2>1, RecordTypes DEF Known
    <3>2. new.streak <= fails'[n]
      BY <1>3, <1>6, <3>1, NodeProbesAssumption DEF OneMore
    <3> QED
      BY <3>1, <3>2
  <2>2. CASE store[n] # None
    <3>1. Agrees(n, store[n]) /\ store[n] \in States /\ Known(store[n]) = store[n]
      BY <1>1, <1>2, <1>3, <2>2 DEF IInv, StoreAgrees, Between, Known
    <3>2. store[n].streak <= fails[n] => new.streak <= fails'[n]
      <4>1. store[n].streak \in 0..FailK
        BY <3>1 DEF States
      <4> QED
        BY <1>3, <1>4, <1>6, <3>1, <4>1, NodeProbesAssumption DEF OneMore
    <3> QED
      BY <1>1, <1>4, <3>1, <3>2 DEF Agrees
  <2> QED
    BY <2>1, <2>2
<1>9. StoreAgrees'
  <2> SUFFICES ASSUME NEW m \in Nodes, store'[m] # None PROVE Agrees(m, store[m])'
    BY DEF StoreAgrees
  <2>1. CASE m = n
    <3>1. store'[m] = new
      BY <1>1, <1>2, <2>1 DEF IInv, Types, StoreOK
    <3> QED
      BY <1>1, <1>8, <2>1, <3>1 DEF Agrees
  <2>2. CASE m # n
    BY <1>1, <1>2, <2>2 DEF IInv, Types, StoreOK, HistoryOK, StoreAgrees, Agrees, Between
  <2> QED
    BY <2>1, <2>2
<1>10. SeenAgrees'
  <2>1. store'[n].streak = new.streak
    BY <1>1, <1>2 DEF IInv, Types, StoreOK
  <2>2. probe'.node = n /\ probe'.seen = new
    BY <1>1, <1>5
  <2>3. Agrees(probe.node, probe.seen)'
    BY <1>1, <1>8, <2>2 DEF Agrees
  <2> QED
    BY <1>1, <1>5, <2>1, <2>2, <2>3 DEF SeenAgrees
<1> QED
  BY <1>7, <1>9, <1>10 DEF IInv

LEMMA NothingKeeps == ASSUME IInv, NothingToTell PROVE IInv'
<1>1. /\ probe.pc = "decide" /\ probe' = NoProbe
      /\ UNCHANGED <<settings, forgetting, store, disk, cycle, testing, stopping, health, history, events>>
  BY DEF NothingToTell
<1>2. SettingsOK'
  BY <1>1 DEF IInv, Types, SettingsOK, settings
<1> QED
  BY <1>1, <1>2, RecordTypes, ProbeKeeps

LEMMA NotifyKeeps == ASSUME IInv, Notify PROVE IInv'
<1> DEFINE n == probe.node
           p == [probe EXCEPT !.pc = "mark"]
           what == IF Down(probe.seen) THEN "down" ELSE "up"
<1>1. /\ probe.pc = "decide" /\ (Down(probe.seen) \/ Up(probe.seen)) /\ probe' = p
      /\ \/ told' = [told EXCEPT ![n] = what] /\ rolled' = rolled \ {n}
         \/ rolled' = rolled \cup {n} /\ UNCHANGED told
      /\ UNCHANGED <<settings, forgetting, store, disk, cycle, testing, stopping, health, fails, events>>
  BY DEF Notify
<1>2. n \in Nodes /\ probe \in Probes
  BY <1>1, ProbeFacts
<1>3. p \in Probes /\ p.pc = "mark" /\ p.node = n /\ p.seen = probe.seen
  BY <1>2, Moved DEF Pcs
<1> HIDE DEF p
<1>4. what \in {"down", "up"}
  OBVIOUS
<1>5. Types'
  BY <1>1, <1>2, <1>3, <1>4 DEF IInv, Types, SettingsOK, StoreOK, DiskOK, CycleOK, ProbeOK, HistoryOK,
     settings
<1>6. StoreAgrees'
  <2> SUFFICES ASSUME NEW m \in Nodes, store'[m] # None, m # n PROVE Agrees(m, store[m])'
    BY <1>1, <1>3 DEF StoreAgrees, Between
  <2>1. Agrees(m, store[m])
    BY <1>1 DEF IInv, StoreAgrees, Between
  <2> QED
    BY <1>1, <2>1 DEF Agrees, IInv, Types, HistoryOK
<1>7. SeenAgrees'
  <2>1. told'[n] = what \/ n \in rolled'
    BY <1>1, <1>2 DEF IInv, Types, HistoryOK
  <2>2. Down(probe.seen)' = Down(probe.seen) /\ Up(probe.seen)' = Up(probe.seen)
    BY <1>1, <1>3 DEF Down, Up
  <2> QED
    BY <1>1, <1>3, <2>1, <2>2 DEF SeenAgrees, IInv
<1> QED
  BY <1>5, <1>6, <1>7 DEF IInv

LEMMA MarkKeeps == ASSUME IInv, Mark PROVE IInv'
<1> DEFINE n == probe.node
           down == Down(probe.seen)
           new == Marked(store[n], down)
<1>1. /\ probe.pc = "mark" /\ store' = [store EXCEPT ![n] = new] /\ probe' = NoProbe
      /\ UNCHANGED <<settings, forgetting, disk, cycle, testing, stopping, health, history, events>>
  BY DEF Mark
<1>2. n \in Nodes /\ probe \in Probes /\ store[n] \in States \cup {None} /\ probe.seen \in States
  BY <1>1, ProbeFacts DEF IInv, Types, StoreOK, Probes
<1>3. down \in BOOLEAN
  BY DEF Down
<1>4. \A s \in States, b \in BOOLEAN :
         /\ [s EXCEPT !.announced = b] \in States /\ [s EXCEPT !.announced = b].announced = b
         /\ [s EXCEPT !.announced = b].streak = s.streak
  BY DEF States
<1>5. /\ store[n] = None => new = None
      /\ store[n] # None => new \in States /\ new.announced = down /\ new.streak = store[n].streak
  BY <1>2, <1>3, <1>4 DEF Marked
<1>6. /\ told[n] = (IF down THEN "down" ELSE "up") \/ n \in rolled
      /\ down \/ Up(probe.seen)
      /\ store[n] = None \/ store[n].streak = probe.seen.streak
  BY <1>1 DEF IInv, SeenAgrees
<1> HIDE DEF new, down
<1>7. new \in States \cup {None}
  BY <1>2, <1>5
<1>8. Types'
  BY <1>1, <1>7, RecordTypes DEF IInv, Types, SettingsOK, StoreOK, DiskOK, CycleOK, ProbeOK, HistoryOK,
     settings, history
<1>9. ASSUME store[n] # None PROVE Agrees(n, new)
  <2>1. CASE down
    BY <1>5, <1>6, <1>9, <2>1 DEF Agrees
  <2>2. CASE ~down
    <3>1. new.streak = 0 /\ ~new.announced
      BY <1>5, <1>6, <1>9, <2>2 DEF Up
    <3>2. 0 <= fails[n]
      BY <1>2 DEF IInv, Types, HistoryOK
    <3> QED
      BY <3>1, <3>2 DEF Agrees
  <2> QED
    BY <2>1, <2>2
<1>10. StoreAgrees'
  <2> SUFFICES ASSUME NEW m \in Nodes, store'[m] # None PROVE Agrees(m, store[m])'
    BY DEF StoreAgrees
  <2>1. CASE m = n
    <3>1. store'[n] = new /\ store[n] # None
      BY <1>1, <1>2, <1>5, <2>1 DEF IInv, Types, StoreOK
    <3> QED
      BY <1>1, <1>9, <2>1, <3>1 DEF Agrees, history
  <2>2. CASE m # n
    BY <1>1, <2>2 DEF IInv, Types, StoreOK, StoreAgrees, Agrees, Between, history
  <2> QED
    BY <2>1, <2>2
<1>11. SeenAgrees'
  BY <1>1, RecordTypes DEF SeenAgrees
<1> QED
  BY <1>8, <1>10, <1>11 DEF IInv

-----------------------------------------------------------------------------
(* Cycles, requests, nodes and restarts                                      *)

\* The store may forget nodes; the probe goes on.
LEMMA ForgottenKeeps ==
    ASSUME IInv, SettingsOK', DiskOK', CycleOK', ProbeOK', UNCHANGED <<probe, history>>,
           StoreOK', \A n \in Nodes : store'[n] \in {store[n], None}
    PROVE  IInv'
<1>1. Types'
  BY DEF IInv, Types, HistoryOK, history
<1>2. StoreAgrees'
  BY DEF IInv, StoreAgrees, Agrees, Between, history
<1>3. SeenAgrees'
  <2>1. probe.pc \in {"decide", "mark"} => probe.node \in Nodes
    BY ProbeFacts
  <2> QED
    BY <2>1 DEF IInv, SeenAgrees, Agrees, Down, Up, history
<1> QED
  BY <1>1, <1>2, <1>3 DEF IInv

LEMMA CycleBeginsKeeps == ASSUME IInv, CycleBegins PROVE IInv'
<1> DEFINE c == [on |-> TRUE, alive |-> selected, todo |-> selected, tester |-> useTester]
<1>1. /\ ~cycle.on /\ stopping = "no" /\ cycle' = c
      /\ UNCHANGED <<settings, forgetting, store, disk, probe, testing, stopping, health, history, events>>
  BY DEF CycleBegins
<1>2. selected \in SUBSET Nodes /\ useTester \in BOOLEAN
  BY DEF IInv, Types, SettingsOK
<1>3. c \in Cycles /\ c.todo \subseteq c.alive /\ c.on
  BY <1>2 DEF Cycles
<1> HIDE DEF c
<1>4. SettingsOK' /\ StoreOK' /\ DiskOK' /\ CycleOK'
  BY <1>1, <1>3 DEF IInv, Types, SettingsOK, StoreOK, DiskOK, CycleOK, settings
<1>5. ProbeOK'
  BY <1>1 DEF IInv, Types, ProbeOK
<1> QED
  BY <1>1, <1>4, <1>5, ForgottenKeeps

LEMMA CycleEndsKeeps == ASSUME IInv, CycleEnds PROVE IInv'
<1>1. /\ probe.pc = "none" /\ cycle' = NoCycle
      /\ store' = [n \in Nodes |-> IF n \in cycle.alive THEN store[n] ELSE None]
      /\ UNCHANGED <<settings, forgetting, disk, probe, testing, stopping, health, history, events>>
  BY DEF CycleEnds, AllDone, Retain
<1>2. StoreOK' /\ \A n \in Nodes : store'[n] \in {store[n], None}
  BY <1>1 DEF IInv, Types, StoreOK
<1>3. SettingsOK' /\ DiskOK' /\ CycleOK' /\ ProbeOK'
  BY <1>1, RecordTypes DEF IInv, Types, SettingsOK, DiskOK, CycleOK, ProbeOK, settings
<1> QED
  BY <1>1, <1>2, <1>3, ForgottenKeeps

LEMMA CycleCancelledKeeps == ASSUME IInv, CycleCancelled PROVE IInv'
<1>1. PICK started \in SUBSET cycle.todo : cycle' = [cycle EXCEPT !.on = FALSE, !.todo = started]
  BY DEF CycleCancelled
<1>2. /\ stopping # "no" /\ store' = [n \in Nodes |-> IF n \in cycle.alive THEN store[n] ELSE None]
      /\ UNCHANGED <<settings, forgetting, disk, probe, testing, stopping, health, history, events>>
  BY DEF CycleCancelled, Retain
<1>3. cycle \in Cycles /\ cycle.todo \subseteq cycle.alive
  BY DEF IInv, Types, CycleOK
<1>4. cycle' \in Cycles /\ cycle'.todo = started /\ cycle'.alive = cycle.alive
  BY <1>1, <1>3 DEF Cycles
<1>5. StoreOK' /\ \A n \in Nodes : store'[n] \in {store[n], None}
  BY <1>2 DEF IInv, Types, StoreOK
<1>6. SettingsOK' /\ DiskOK'
  BY <1>2 DEF IInv, Types, SettingsOK, DiskOK, settings
<1>7. CycleOK' /\ ProbeOK'
  BY <1>1, <1>2, <1>3, <1>4 DEF IInv, Types, CycleOK, ProbeOK
<1> QED
  BY <1>2, <1>5, <1>6, <1>7, ForgottenKeeps

LEMMA ForgetKeeps == ASSUME IInv, NEW n \in Nodes, Forget(n) PROVE IInv'
<1>1. /\ store' = [store EXCEPT ![n] = None] /\ forgetting' = forgetting \ {n}
      /\ UNCHANGED <<settings, disk, cycle, probe, testing, stopping, health, history, events>>
  BY DEF Forget, panel
<1>2. StoreOK' /\ \A m \in Nodes : store'[m] \in {store[m], None}
  BY <1>1 DEF IInv, Types, StoreOK
<1>3. SettingsOK' /\ DiskOK' /\ CycleOK' /\ ProbeOK'
  BY <1>1 DEF IInv, Types, SettingsOK, DiskOK, CycleOK, ProbeOK, settings
<1> QED
  BY <1>1, <1>2, <1>3, ForgottenKeeps

\* A request, a manual test, a node that fails or comes back, a checkpoint.
LEMMA OutsideKeeps ==
    ASSUME IInv, SettingsOK', DiskOK', UNCHANGED <<store, cycle, probe, history>>,
           stopping' = stopping \/ stopping' # "no"
    PROVE  IInv'
<1>1. StoreOK' /\ CycleOK' /\ ProbeOK' /\ \A n \in Nodes : store'[n] \in {store[n], None}
  BY DEF IInv, Types, StoreOK, CycleOK, ProbeOK
<1> QED
  BY <1>1, ForgottenKeeps

LEMMA AdministratorKeeps == ASSUME IInv, Administrator PROVE IInv'
<1>1. UNCHANGED <<store, disk, cycle, probe, stopping, health, history>> /\ events' \in Nat
  BY DEF Administrator, Select, Deselect, NodeGone, OthersChange, UpdateSettings, TestBegins, Event, panel,
     IInv, Types, SettingsOK
<1>2. SettingsOK'
  <2>1. CASE \E n \in Nodes : Select(n) \/ Deselect(n) \/ NodeGone(n)
    BY <1>1, <2>1 DEF Select, Deselect, NodeGone, IInv, Types, SettingsOK, panel
  <2>2. CASE OthersChange \/ UpdateSettings \/ TestBegins
    BY <1>1, <2>2 DEF OthersChange, UpdateSettings, TestBegins, IInv, Types, SettingsOK, settings, panel
  <2> QED
    BY <2>1, <2>2 DEF Administrator
<1>3. DiskOK'
  BY <1>1 DEF IInv, Types, DiskOK
<1> QED
  BY <1>1, <1>2, <1>3, OutsideKeeps

LEMMA TestEndsKeeps == ASSUME IInv, TestEnds PROVE IInv'
<1>1. SettingsOK' /\ DiskOK'
  BY DEF TestEnds, IInv, Types, SettingsOK, DiskOK, settings
<1> QED
  BY <1>1, OutsideKeeps DEF TestEnds

LEMMA FlipKeeps == ASSUME IInv, NEW n \in Nodes, Flip(n) PROVE IInv'
<1>1. SettingsOK' /\ DiskOK'
  BY DEF Flip, Event, IInv, Types, SettingsOK, DiskOK, settings, panel
<1> QED
  BY <1>1, OutsideKeeps DEF Flip, panel

LEMMA CheckpointKeeps == ASSUME IInv, Checkpoint PROVE IInv'
<1>1. SettingsOK' /\ DiskOK'
  BY DEF Checkpoint, IInv, Types, SettingsOK, DiskOK, StoreOK, settings
<1> QED
  BY <1>1, OutsideKeeps DEF Checkpoint

LEMMA ShutdownKeeps == ASSUME IInv, Shutdown PROVE IInv'
<1>1. SettingsOK' /\ DiskOK'
  BY DEF Shutdown, Event, IInv, Types, SettingsOK, DiskOK, settings
<1> QED
  BY <1>1, OutsideKeeps DEF Shutdown

LEMMA LoadsKeeps == ASSUME IInv, Loads, events' \in Nat PROVE IInv'
<1>1. /\ store' = disk /\ disk' = disk
      /\ rolled' = rolled \cup {n \in Nodes : disk[n] # store[n]} \cup {n \in Nodes : Between(n)}
      /\ cycle' = NoCycle /\ probe' = NoProbe /\ forgetting' = {} /\ testing' = FALSE /\ stopping' = "no"
      /\ UNCHANGED <<settings, health, told, fails>>
  <2>1. \A n \in Nodes : Between(n) <=> probe.pc = "mark" /\ n = probe.node
    BY DEF Between
  <2> QED
    BY <2>1 DEF Loads
<1>2. Types'
  <2>1. SettingsOK' /\ HistoryOK'
    BY <1>1 DEF IInv, Types, SettingsOK, HistoryOK, settings
  <2>2. StoreOK' /\ DiskOK'
    BY <1>1 DEF IInv, Types, StoreOK, DiskOK
  <2>3. CycleOK' /\ ProbeOK'
    BY <1>1, RecordTypes DEF CycleOK, ProbeOK
  <2> QED
    BY <2>1, <2>2, <2>3 DEF Types
<1>3. StoreAgrees'
  <2> SUFFICES ASSUME NEW n \in Nodes, store'[n] # None PROVE Agrees(n, store[n])'
    BY DEF StoreAgrees
  <2>1. CASE n \in rolled'
    BY <2>1 DEF Agrees
  <2>2. CASE n \notin rolled'
    <3>1. store'[n] = store[n] /\ ~Between(n) /\ n \notin rolled
      BY <1>1, <2>2
    <3>2. Agrees(n, store[n])
      BY <3>1 DEF IInv, StoreAgrees
    <3> QED
      BY <1>1, <3>1, <3>2 DEF Agrees
  <2> QED
    BY <2>1, <2>2
<1>4. SeenAgrees'
  BY <1>1, RecordTypes DEF SeenAgrees
<1> QED
  BY <1>2, <1>3, <1>4 DEF IInv

LEMMA RestartKeeps == ASSUME IInv, Crash \/ Restart PROVE IInv'
<1>1. events' \in Nat
  BY DEF Crash, Restart, Event, IInv, Types, SettingsOK
<1> QED
  BY <1>1, LoadsKeeps DEF Crash, Restart

LEMMA StutterKeeps == ASSUME IInv, UNCHANGED vars PROVE IInv'
<1>1. SettingsOK' /\ DiskOK'
  BY DEF vars, IInv, Types, SettingsOK, DiskOK, settings, panel
<1> QED
  BY <1>1, OutsideKeeps DEF vars, panel

LEMMA NextKeeps == ASSUME IInv, [Next]_vars PROVE IInv'
<1>1. CASE Scheduler
  BY <1>1, CycleBeginsKeeps, ProbeBeginsKeeps, CycleEndsKeeps, TesterKeeps, LocalKeeps, RecordKeeps,
     NothingKeeps, NotifyKeeps, MarkKeeps DEF Scheduler
<1>2. CASE CycleCancelled \/ WaitTooLong \/ MihomoMissing
  BY <1>2, CycleCancelledKeeps, LocalKeeps
<1>3. CASE Checkpoint \/ Administrator \/ TestEnds \/ Shutdown \/ Crash \/ Restart
  BY <1>3, CheckpointKeeps, AdministratorKeeps, TestEndsKeeps, ShutdownKeeps, RestartKeeps
<1>4. CASE \E n \in Nodes : Forget(n) \/ Flip(n)
  BY <1>4, ForgetKeeps, FlipKeeps
<1> QED
  BY <1>1, <1>2, <1>3, <1>4, StutterKeeps DEF Next

-----------------------------------------------------------------------------
(* Theorems                                                                  *)

\* The invariant holds in every state.
THEOREM Invariant == Spec => []IInv
<1>1. IInv /\ [Next]_vars => IInv'
  BY NextKeeps
<1> QED
  BY <1>1, InitInv, PTL DEF Spec

\* Every variable keeps its type, and a node is probed only in a cycle that has
\* it as a target (runCycle).
THEOREM TypeCorrect == Spec => []TypeOK
<1>1. IInv => TypeOK
  BY DEF IInv, Types, SettingsOK, StoreOK, DiskOK, CycleOK, ProbeOK, HistoryOK, Cycles, Probes, Pcs, TypeOK
<1> QED
  BY <1>1, Invariant, PTL

\* A step that tells something is the one of reconcileNodeState.
LEMMA OnlyNotifyTells ==
    ASSUME IInv, [Next]_vars, NEW n \in Nodes, NEW what, Tells(n, what)
    PROVE  Notify
<1> USE DEF Tells
<1>1. CASE Scheduler
  <2>1. CASE \E m \in Nodes : ProbeBegins(m)
    BY <2>1 DEF ProbeBegins
  <2>2. CASE CycleBegins \/ CycleEnds \/ Tester \/ RunNodeTest \/ Record
    BY <2>2 DEF CycleBegins, CycleEnds, Tester, RunNodeTest, Record
  <2>3. CASE NothingToTell \/ Mark
    BY <2>3, RecordTypes DEF NothingToTell, Mark
  <2> QED
    BY <1>1, <2>1, <2>2, <2>3 DEF Scheduler
<1>2. CASE CycleCancelled \/ WaitTooLong \/ MihomoMissing
  BY <1>2 DEF CycleCancelled, WaitTooLong, MihomoMissing
<1>3. CASE Administrator
  BY <1>3 DEF Administrator, Select, Deselect, NodeGone, OthersChange, UpdateSettings, TestBegins, panel
<1>4. CASE Checkpoint \/ TestEnds \/ Shutdown \/ Crash \/ Restart
  BY <1>4, RecordTypes DEF Checkpoint, TestEnds, Shutdown, Crash, Restart, Loads
<1>5. CASE \E m \in Nodes : Forget(m) \/ Flip(m)
  BY <1>5 DEF Forget, Flip, panel
<1>6. CASE UNCHANGED vars
  BY <1>6 DEF vars, panel
<1> QED
  BY <1>1, <1>2, <1>3, <1>4, <1>5, <1>6 DEF Next

\* What a notice says is what the decision was made from.
LEMMA Told ==
    ASSUME IInv, Notify, stopping = "no"
    PROVE  /\ probe.node \in Nodes /\ probe.pc = "decide" /\ Agrees(probe.node, probe.seen)
           /\ told'[probe.node] = "down" => Down(probe.seen)
           /\ told'[probe.node] = "up" => Up(probe.seen)
<1>1. probe.pc = "decide"
  BY DEF Notify
<1>2. probe.node \in Nodes
  BY <1>1, ProbeFacts
<1>3. told'[probe.node] = IF Down(probe.seen) THEN "down" ELSE "up"
  BY <1>2 DEF Notify, IInv, Types, HistoryOK
<1>4. Down(probe.seen) \/ Up(probe.seen)
  BY DEF Notify
<1>5. Agrees(probe.node, probe.seen)
  BY <1>1 DEF IInv, SeenAgrees
<1> QED
  BY <1>1, <1>2, <1>3, <1>4, <1>5

\* A node is reported to be back only after it was reported to be gone, unless a
\* restart forgot part of its history or a shutdown dropped a notice (reconcileNodeState).
THEOREM RecoverySafe == Spec => RecoveryFollowsOutage
<1>1. ASSUME IInv, [Next]_vars, NEW n \in Nodes, Tells(n, "up")
      PROVE  told[n] = "down" \/ n \in rolled
  <2>1. Notify
    BY <1>1, OnlyNotifyTells
  <2>2. Agrees(n, probe.seen) /\ Up(probe.seen)
    BY <1>1, <2>1, Told DEF Tells
  <2> QED
    BY <2>2 DEF Agrees, Up
<1>2. IInv /\ [Next]_vars => [\A n \in Nodes : Tells(n, "up") => told[n] = "down" \/ n \in rolled]_vars
  BY <1>1
<1> QED
  BY <1>2, Invariant, PTL DEF Spec, RecoveryFollowsOutage

\* A node is reported to be gone only after FailK probes in a row have failed,
\* unless a restart forgot part of its history (nodeProbeFailK).
THEOREM OutageSafe == Spec => DownAfterFailures
<1>1. ASSUME IInv, [Next]_vars, NEW n \in Nodes, Tells(n, "down")
      PROVE  fails[n] = FailK \/ n \in rolled
  <2>1. Notify
    BY <1>1, OnlyNotifyTells
  <2>2. Agrees(n, probe.seen) /\ Down(probe.seen)
    BY <1>1, <2>1, Told DEF Tells
  <2>3. fails[n] \in 0..FailK /\ probe.seen.streak \in 0..FailK
    <3>1. probe.seen \in States /\ n \in Nodes
      BY <1>1 DEF IInv, Types, ProbeOK, Probes
    <3>2. probe.seen.streak \in 0..FailK
      BY <3>1 DEF States
    <3>3. fails \in [Nodes -> 0..FailK]
      BY <1>1 DEF IInv, Types, HistoryOK
    <3> QED
      BY <3>1, <3>2, <3>3
  <2> QED
    BY <2>2, <2>3, NodeProbesAssumption DEF Agrees, Down
<1>2. IInv /\ [Next]_vars => [\A n \in Nodes : Tells(n, "down") => fails[n] = FailK \/ n \in rolled]_vars
  BY <1>1
<1> QED
  BY <1>2, Invariant, PTL DEF Spec, DownAfterFailures
=============================================================================
