------------------------ MODULE ProxyProviderSyncProofs ------------------------
(***************************************************************************)
(* Proofs about ProxyProviderSync, for any number of providers, contents,  *)
(* goroutines, handlers and slots.                                         *)
(***************************************************************************)
EXTENDS ProxyProviderSyncProps, FiniteSetTheorems, TLAPS

Group(pcs) == {w \in Workers : worker[w].pc \in pcs}

\* What the type invariant needs to be inductive: a goroutine or handler in
\* flight has a job, the two counters count goroutines, and jobs are pending
\* only while the scheduler launches.
InFlightHasJob ==
    /\ \A w \in Workers : worker[w].pc # "idle" => worker[w].job \in Jobs
    /\ \A h \in Handlers : handler[h].pc # "idle" => handler[h].job \in Jobs

Counted ==
    /\ slots = Cardinality(Group(HoldsSlot))
    /\ wg = Cardinality(Group(InWaitGroup))

PendingOnlyInLaunch == pc # "launch" => jobs = {}

IInv == TypeOK /\ InFlightHasJob /\ Counted /\ PendingOnlyInLaunch

-----------------------------------------------------------------------------
(* One goroutine changes its program counter.                              *)

\* The sets of goroutines that the counters count are finite.
LEMMA GroupFinite ==
    ASSUME NEW pcs
    PROVE  IsFiniteSet(Group(pcs)) /\ Cardinality(Group(pcs)) \in Nat
<1>1. Group(pcs) \subseteq Workers
  BY DEF Group
<1>2. IsFiniteSet(Group(pcs))
  BY <1>1, WorkersAssumption, FS_Subset
<1> QED
  BY <1>2, FS_CardinalityType

\* A goroutine that enters a group adds one to its size.
LEMMA GroupEnter ==
    ASSUME NEW pcs, NEW w \in Workers, w \notin Group(pcs),
           Group(pcs)' = Group(pcs) \cup {w}
    PROVE  Cardinality(Group(pcs)') = Cardinality(Group(pcs)) + 1
BY GroupFinite, FS_AddElement

\* A goroutine that leaves a group takes one from its size.
LEMMA GroupLeave ==
    ASSUME NEW pcs, NEW w \in Workers, w \in Group(pcs),
           Group(pcs)' = Group(pcs) \ {w}
    PROVE  Cardinality(Group(pcs)') = Cardinality(Group(pcs)) - 1
BY GroupFinite, FS_RemoveElement

\* The same for the next state, whose goroutines are the same set.
LEMMA GroupFiniteNext ==
    ASSUME NEW pcs
    PROVE  Cardinality(Group(pcs)') \in Nat
<1>1. Group(pcs)' \subseteq Workers
  BY DEF Group
<1> QED
  BY <1>1, WorkersAssumption, FS_Subset, FS_CardinalityType

-----------------------------------------------------------------------------
LEMMA InitIInv == Init => IInv
<1> SUFFICES ASSUME Init PROVE IInv
  OBVIOUS
<1>1. TypeOK
  <2> USE DEF Init
  <2>1. Idle \in [pc : InWaitGroup \cup {"idle", "mark"}, job : Jobs \cup {NoJob}]
    BY DEF Idle
  <2>2. Idle \in [pc : {"idle", "delete", "fetch"}, job : Jobs \cup {NoJob}]
    BY DEF Idle
  <2>3. 0 \in 0..RetryMax /\ 0 \in 0..WorkerLimit
    BY WorkerLimitAssumption, RetryMaxAssumption
  <2>4. [id \in Ids |-> None] \in [Ids -> Rows]
    BY DEF Rows
  <2> QED
    BY <2>1, <2>2, <2>3, <2>4 DEF TypeOK
<1>2. InFlightHasJob
  BY DEF Init, InFlightHasJob, Idle
<1>3. Group(HoldsSlot) = {} /\ Group(InWaitGroup) = {}
  BY DEF Init, Group, HoldsSlot, InWaitGroup, Idle
<1>4. Counted
  BY <1>3, FS_EmptySet DEF Init, Counted
<1>5. PendingOnlyInLaunch
  BY DEF Init, PendingOnlyInLaunch
<1> QED
  BY <1>1, <1>2, <1>4, <1>5 DEF IInv

\* The steps of users and of the clock leave the pool alone.
LEMMA UserStepIInv == IInv /\ UserStep => IInv'
<1> SUFFICES ASSUME IInv, UserStep PROVE IInv'
  OBVIOUS
<1> USE DEF IInv, TypeOK, InFlightHasJob, Counted, PendingOnlyInLaunch, Group,
            userVars, stateVars, poolVars, schedVars, Rows, Jobs
<1>1. ASSUME NEW id \in Ids, NEW v \in Versions, SaveMMW(id, v) PROVE IInv'
  BY <1>1 DEF SaveMMW
<1>2. ASSUME NEW id \in Ids, SwitchToClient(id) PROVE IInv'
  BY <1>2 DEF SwitchToClient
<1>3. ASSUME NEW id \in Ids, Invalidate(id) PROVE IInv'
  BY <1>3 DEF Invalidate
<1>4. ASSUME NEW id \in Ids, Expire(id) PROVE IInv'
  <2> USE <1>4 DEF Expire
  <2>1. cache[id] \in Entries
    BY DEF Fresh, NoEntry
  <2>2. [cache[id] EXCEPT !.fresh = FALSE] \in Entries
    BY <2>1 DEF Entries
  <2>3. cache' \in [Ids -> Entries \cup {NoEntry}]
    BY <2>2
  <2> QED
    BY <2>3
<1>5. ASSUME NEW id \in Ids, BlockElapses(id) PROVE IInv'
  BY <1>5 DEF BlockElapses
<1>6. ASSUME NEW h \in Handlers, NEW id \in Ids, DeleteBegin(h, id) PROVE IInv'
  BY <1>6 DEF DeleteBegin
<1>7. ASSUME NEW h \in Handlers, NEW id \in Ids, RequestRead(h, id) PROVE IInv'
  BY <1>7 DEF RequestRead
<1>8. ASSUME NEW h \in Handlers, DeleteEnd(h) PROVE IInv'
  BY <1>8 DEF DeleteEnd, Idle
<1>9. ASSUME NEW h \in Handlers, RequestEnd(h) PROVE IInv'
  <2> USE <1>9 DEF RequestEnd
  <2>1. handler[h].job \in Jobs
    OBVIOUS
  <2>2. cache' \in [Ids -> Entries \cup {NoEntry}]
    <3>1. [ver |-> handler[h].job.ver, fresh |-> TRUE, by |-> "request"] \in Entries
      BY <2>1 DEF Entries
    <3> QED
      BY <2>1, <3>1 DEF Stored
  <2>3. /\ handler' \in [Handlers -> [pc : {"idle", "delete", "fetch"},
                                     job : Jobs \cup {NoJob}]]
        /\ \A g \in Handlers : handler'[g].pc # "idle" => handler'[g].job \in Jobs
    BY DEF Idle
  <2> QED
    BY <2>2, <2>3
<1>10. CASE Cancel
  BY <1>10 DEF Cancel
<1> QED
  BY <1>1, <1>2, <1>3, <1>4, <1>5, <1>6, <1>7, <1>8, <1>9, <1>10 DEF UserStep

\* The scheduler changes the counters only when it launches a goroutine.
LEMMA SchedulerStepIInv == IInv /\ SchedulerStep => IInv'
<1> SUFFICES ASSUME IInv, SchedulerStep PROVE IInv'
  OBVIOUS
<1> USE DEF IInv, TypeOK, InFlightHasJob, PendingOnlyInLaunch,
            userVars, stateVars, poolVars, schedVars, Rows, Jobs
<1>1. CASE ReloadList
  BY <1>1 DEF ReloadList, Counted, Group
<1>2. CASE ReloadFails
  BY <1>2 DEF ReloadFails, Counted, Group
<1>3. CASE ReloadApply
  <2> USE <1>3 DEF ReloadApply, NextConfigs
  <2>1. 0 \in 0..RetryMax
    BY RetryMaxAssumption
  <2>2. /\ blockUntil' \in [Ids -> {"zero", "future", "past"}]
        /\ retryDelay' \in [Ids -> 0..RetryMax]
        /\ cache' \in [Ids -> Entries \cup {NoEntry}]
    BY <2>1
  <2>3. running' \subseteq Ids /\ tracked' \subseteq Ids
    OBVIOUS
  <2>4. Counted'
    BY DEF Counted, Group
  <2> QED
    BY <2>2, <2>3, <2>4
<1>4. CASE Scan
  BY <1>4 DEF Scan, Scannable, Due, Counted, Group
<1>5. ASSUME NEW job \in jobs, LaunchCancelled(job) PROVE IInv'
  BY <1>5 DEF LaunchCancelled, NextJob, MarkTaskFinished, Counted, Group
<1>6. ASSUME NEW job \in jobs, NEW w \in Workers, Launch(w, job) PROVE IInv'
  <2> USE <1>6 DEF Launch, NextJob, SlotFree
  <2>1. /\ w \notin Group(HoldsSlot) /\ Group(HoldsSlot)' = Group(HoldsSlot) \cup {w}
        /\ w \notin Group(InWaitGroup) /\ Group(InWaitGroup)' = Group(InWaitGroup) \cup {w}
    BY DEF Group, HoldsSlot, InWaitGroup, Idle
  <2>2. Counted'
    BY <2>1, GroupEnter DEF Counted
  <2>3. TypeOK'
    BY WorkerLimitAssumption DEF InWaitGroup, HoldsSlot
  <2>4. InFlightHasJob' /\ PendingOnlyInLaunch'
    OBVIOUS
  <2> QED
    BY <2>2, <2>3, <2>4
<1>7. CASE Stop
  BY <1>7 DEF Stop, Counted, Group
<1>8. CASE Stopped
  BY <1>8 DEF Stopped, Counted, Group
<1> QED
  BY <1>1, <1>2, <1>3, <1>4, <1>5, <1>6, <1>7, <1>8 DEF SchedulerStep, LaunchStep

\* A goroutine steps: the counters follow the group it leaves.
LEMMA WorkerStepIInv ==
    ASSUME NEW w \in Workers PROVE IInv /\ WorkerStep(w) => IInv'
<1> SUFFICES ASSUME IInv, WorkerStep(w) PROVE IInv'
  OBVIOUS
<1> USE DEF IInv, TypeOK, InFlightHasJob, PendingOnlyInLaunch, Goto,
            userVars, stateVars, poolVars, schedVars, Rows, Jobs
<1>1. ASSUME NEW next \in InWaitGroup \cup {"mark"}, worker[w].pc # "idle", Goto(w, next)
      PROVE  /\ worker' \in [Workers -> [pc : InWaitGroup \cup {"idle", "mark"},
                                        job : Jobs \cup {NoJob}]]
             /\ \A v \in Workers : worker'[v].pc # "idle" => worker'[v].job \in Jobs
  BY <1>1
<1>10. ASSUME NEW next \in HoldsSlot, worker[w].pc \in HoldsSlot, Goto(w, next)
       PROVE  /\ Group(HoldsSlot)' = Group(HoldsSlot)
              /\ Group(InWaitGroup)' = Group(InWaitGroup)
  BY <1>10 DEF Group, HoldsSlot, InWaitGroup
<1>2. CASE WorkerStart(w)
  <2> USE <1>2 DEF WorkerStart, EarlyReturn
  <2>1. Group(HoldsSlot)' = Group(HoldsSlot) /\ Group(InWaitGroup)' = Group(InWaitGroup)
    BY <1>10 DEF HoldsSlot
  <2> QED
    BY <1>1, <2>1 DEF Counted, InWaitGroup, HoldsSlot
<1>3. CASE WorkerFetch(w)
  <2> USE <1>3 DEF WorkerFetch
  <2>1. Group(HoldsSlot)' = Group(HoldsSlot) /\ Group(InWaitGroup)' = Group(InWaitGroup)
    BY <1>10 DEF HoldsSlot
  <2>2. [ver |-> worker[w].job.ver, fresh |-> TRUE, by |-> "worker"] \in Entries
    BY DEF Entries
  <2>3. cache' \in [Ids -> Entries \cup {NoEntry}]
    BY <2>2 DEF Stored
  <2> HIDE DEF Jobs, Rows
  <2> QED
    BY <2>3, <1>1, <2>1, <2>2 DEF Counted, InWaitGroup, HoldsSlot
<1>4. CASE WorkerSucceeds(w)
  <2> USE <1>4 DEF WorkerSucceeds, StateEnsured
  <2>1. Group(HoldsSlot)' = Group(HoldsSlot) /\ Group(InWaitGroup)' = Group(InWaitGroup)
    BY <1>10 DEF HoldsSlot
  <2> QED
    BY <1>1, <2>1, RetryMaxAssumption DEF Counted, InWaitGroup, HoldsSlot
<1>5. CASE WorkerFails(w)
  <2> USE <1>5 DEF WorkerFails, StateEnsured
  <2>1. Group(HoldsSlot)' = Group(HoldsSlot) /\ Group(InWaitGroup)' = Group(InWaitGroup)
    BY <1>10 DEF HoldsSlot
  <2>2. \A delay \in 0..RetryMax : NextDelay(delay) \in 0..RetryMax
    BY RetryMaxAssumption DEF NextDelay
  <2> QED
    BY <1>1, <2>1, <2>2 DEF Counted, InWaitGroup, HoldsSlot
<1>6. CASE WorkerRelease(w)
  <2> USE <1>6 DEF WorkerRelease
  <2>1. w \in Group(HoldsSlot) /\ Group(HoldsSlot)' = Group(HoldsSlot) \ {w}
    BY DEF Group, HoldsSlot
  <2>2. Group(InWaitGroup)' = Group(InWaitGroup)
    BY DEF Group, HoldsSlot, InWaitGroup
  <2>3. Counted'
    BY <2>1, <2>2, GroupLeave DEF Counted
  <2>4. slots' \in 0..WorkerLimit
    <3>1. slots' = slots - 1 /\ slots \in 0..WorkerLimit
      OBVIOUS
    <3>2. slots' \in Nat
      BY <2>3, GroupFiniteNext DEF Counted
    <3> HIDE DEF IInv, TypeOK
    <3> QED
      BY <3>1, <3>2, WorkerLimitAssumption
  <2> QED
    BY <1>1, <2>3, <2>4 DEF InWaitGroup
<1>7. CASE WorkerDone(w)
  <2> USE <1>7 DEF WorkerDone
  <2>1. w \in Group(InWaitGroup) /\ Group(InWaitGroup)' = Group(InWaitGroup) \ {w}
    BY DEF Group, InWaitGroup, HoldsSlot
  <2>2. Group(HoldsSlot)' = Group(HoldsSlot)
    BY DEF Group, HoldsSlot
  <2>3. Counted'
    BY <2>1, <2>2, GroupLeave DEF Counted
  <2>4. wg' \in Nat
    BY <2>3, GroupFiniteNext DEF Counted
  <2> QED
    BY <1>1, <2>3, <2>4
<1>8. CASE WorkerMark(w)
  <2> USE <1>8 DEF WorkerMark, MarkTaskFinished, Idle
  <2>1. Group(HoldsSlot)' = Group(HoldsSlot) /\ Group(InWaitGroup)' = Group(InWaitGroup)
    BY DEF Group, HoldsSlot, InWaitGroup
  <2> QED
    BY <2>1 DEF Counted
<1> QED
  BY <1>2, <1>3, <1>4, <1>5, <1>6, <1>7, <1>8 DEF WorkerStep

\* IInv is inductive.
LEMMA NextIInv == IInv /\ [Next]_vars => IInv'
<1>1. IInv /\ UNCHANGED vars => IInv'
  BY DEF IInv, TypeOK, InFlightHasJob, Counted, PendingOnlyInLaunch, Group, vars
<1> QED
  BY <1>1, UserStepIInv, SchedulerStepIInv, WorkerStepIInv DEF Next

THEOREM SpecIInv == Spec => []IInv
BY InitIInv, NextIInv, PTL DEF Spec

\* Every variable keeps its type: in particular the counters never go below
\* zero and retryDelay never exceeds its maximum.
THEOREM TypeCorrect == Spec => []TypeOK
<1>1. IInv => TypeOK
  BY DEF IInv
<1> QED
  BY <1>1, SpecIInv, PTL

\* At most WorkerLimit refreshes are in progress, each owning one slot.
THEOREM SlotsCorrect == Spec => []SlotsAreOwned
<1>1. IInv => SlotsAreOwned
  BY WorkerLimitAssumption DEF IInv, TypeOK, Counted, SlotsAreOwned, Holders, Group
<1> QED
  BY <1>1, SpecIInv, PTL

-----------------------------------------------------------------------------
(* No leaked mark.                                                         *)

LEMMA InitNoLeak == Init => NoLeakedMark
BY DEF Init, NoLeakedMark

\* A step that keeps the marks or removes some, and drops no job, keeps the
\* invariant.
LEMMA FewerMarks ==
    ASSUME NoLeakedMark, running' \subseteq running, jobs \subseteq jobs',
           \A w \in Workers : worker'[w].job = worker[w].job
    PROVE  NoLeakedMark'
BY DEF NoLeakedMark

\* The same when one job ends, with its mark, or leaves the pending ones for a
\* goroutine.
LEMMA NextNoLeak == IInv /\ NoLeakedMark /\ [Next]_vars => NoLeakedMark'
<1> SUFFICES ASSUME IInv, NoLeakedMark, [Next]_vars PROVE NoLeakedMark'
  OBVIOUS
<1>1. CASE UNCHANGED vars
  BY <1>1 DEF NoLeakedMark, vars
<1>2. CASE UserStep
  <2>1. UNCHANGED <<running, jobs, worker>>
    BY <1>2 DEF UserStep, SaveMMW, SwitchToClient, Invalidate, Expire, BlockElapses,
       DeleteBegin, RequestRead, DeleteEnd, RequestEnd, Cancel, poolVars, schedVars
  <2> QED
    BY <2>1, FewerMarks
<1>3. CASE SchedulerStep
  <2>1. CASE ReloadList \/ ReloadFails \/ ReloadApply \/ Stop \/ Stopped
    <3>1. running' \subseteq running /\ UNCHANGED <<jobs, worker>>
      BY <2>1 DEF ReloadList, ReloadFails, ReloadApply, Stop, Stopped, poolVars
    <3> QED
      BY <3>1, FewerMarks
  <2>2. CASE Scan
    <3> SUFFICES ASSUME NEW id \in running'
                 PROVE  \/ \E job \in jobs' : job.id = id
                        \/ \E w \in Workers : worker'[w].job.id = id
      BY DEF NoLeakedMark
    <3>1. CASE id \in Due
      <4>1. [id |-> id, ver |-> configs[id]] \in jobs'
        BY <2>2, <3>1 DEF Scan
      <4> QED
        BY <4>1
    <3>2. CASE id \in running
      <4>1. jobs = {}
        BY <2>2 DEF Scan, IInv, PendingOnlyInLaunch
      <4> QED
        BY <2>2, <3>2, <4>1 DEF Scan, NoLeakedMark, poolVars
    <3> QED
      BY <2>2, <3>1, <3>2 DEF Scan
  <2>3. ASSUME NEW job \in jobs, LaunchCancelled(job) PROVE NoLeakedMark'
    BY <2>3 DEF LaunchCancelled, NextJob, MarkTaskFinished, NoLeakedMark, poolVars
  <2>4. ASSUME NEW job \in jobs, NEW w \in Workers, Launch(w, job) PROVE NoLeakedMark'
    <3> USE <2>4 DEF Launch, NextJob
    <3>1. worker'[w].job = job /\ \A v \in Workers \ {w} : worker'[v] = worker[v]
      BY DEF IInv, TypeOK
    <3>2. running \subseteq Ids /\ worker[w].job.id = None
      BY DEF Idle, NoJob, IInv, TypeOK
    <3>3. worker[w].job.id \notin running
      BY <3>2, NoneAssumption
    <3> QED
      BY <3>1, <3>3 DEF NoLeakedMark
  <2> QED
    BY <1>3, <2>1, <2>2, <2>3, <2>4 DEF SchedulerStep, LaunchStep
<1>4. ASSUME NEW w \in Workers, WorkerStep(w) PROVE NoLeakedMark'
  <2>1. CASE WorkerMark(w)
    <3> USE <2>1 DEF WorkerMark, MarkTaskFinished, schedVars
    <3>1. \A v \in Workers \ {w} : worker'[v] = worker[v]
      BY DEF IInv, TypeOK
    <3> QED
      BY <3>1 DEF NoLeakedMark
  <2>2. CASE ~WorkerMark(w)
    <3>1. UNCHANGED <<running, jobs>> /\ \E next : Goto(w, next)
      BY <1>4, <2>2 DEF WorkerStep, WorkerStart, WorkerFetch, WorkerSucceeds, WorkerFails,
         WorkerRelease, WorkerDone, schedVars
    <3>2. \A v \in Workers : worker'[v].job = worker[v].job
      BY <3>1 DEF Goto, IInv, TypeOK
    <3> QED
      BY <3>1, <3>2, FewerMarks
  <2> QED
    BY <2>1, <2>2
<1> QED
  BY <1>1, <1>2, <1>3, <1>4 DEF Next

\* A mark in running always belongs to a job that is going to remove it.
THEOREM MarksNeverLeak == Spec => []NoLeakedMark
<1>1. IInv /\ NoLeakedMark /\ [Next]_vars => NoLeakedMark'
  BY NextNoLeak
<1> QED
  BY <1>1, InitNoLeak, SpecIInv, PTL DEF Spec

-----------------------------------------------------------------------------
(* run returns after its goroutines.                                       *)

StopInv == pc = "stopped" => wg = 0

LEMMA NextStopInv == IInv /\ StopInv /\ [Next]_vars => StopInv'
<1> SUFFICES ASSUME IInv, StopInv, [Next]_vars PROVE StopInv'
  OBVIOUS
<1>1. CASE UNCHANGED vars
  BY <1>1 DEF StopInv, vars
<1>2. CASE UserStep
  BY <1>2 DEF UserStep, SaveMMW, SwitchToClient, Invalidate, Expire, BlockElapses,
     DeleteBegin, RequestRead, DeleteEnd, RequestEnd, Cancel, poolVars, schedVars, StopInv
<1>3. CASE SchedulerStep
  BY <1>3 DEF SchedulerStep, LaunchStep, ReloadList, ReloadFails, ReloadApply, Scan, Launch,
     LaunchCancelled, NextJob, Stop, Stopped, WaitOver, poolVars, StopInv
<1>4. ASSUME NEW w \in Workers, WorkerStep(w) PROVE StopInv'
  <2>1. CASE WorkerDone(w)
    <3>1. w \in Group(InWaitGroup)
      BY <2>1 DEF WorkerDone, Group, InWaitGroup
    <3>2. Group(InWaitGroup) # {} /\ Cardinality(Group(InWaitGroup)) # 0
      BY <3>1, GroupFinite, FS_EmptySet
    <3> QED
      BY <2>1, <3>2 DEF WorkerDone, schedVars, StopInv, IInv, Counted
  <2>2. CASE ~WorkerDone(w)
    BY <1>4, <2>2 DEF WorkerStep, WorkerStart, WorkerFetch, WorkerSucceeds, WorkerFails,
       WorkerRelease, WorkerMark, schedVars, StopInv
  <2> QED
    BY <2>1, <2>2
<1> QED
  BY <1>1, <1>2, <1>3, <1>4 DEF Next

\* When run has returned no refresh holds a slot and no job is pending.
THEOREM StopCorrect == Spec => []StopIsQuiet
<1>1. Init => StopInv
  BY DEF Init, StopInv
<1>2. IInv /\ StopInv => StopIsQuiet
  <2> SUFFICES ASSUME IInv, StopInv, pc = "stopped" PROVE StopIsQuiet
    BY DEF StopIsQuiet
  <2>1. Group(InWaitGroup) = {}
    BY GroupFinite, FS_EmptySet DEF IInv, Counted, StopInv
  <2>2. jobs = {}
    BY DEF IInv, PendingOnlyInLaunch
  <2> QED
    BY <2>1, <2>2 DEF StopIsQuiet, Group, IInv, TypeOK
<1> QED
  BY <1>1, <1>2, NextStopInv, SpecIInv, PTL DEF Spec

-----------------------------------------------------------------------------
(* Entries of scheduled refreshes are tracked.                             *)

LEMMA NextTracked == IInv /\ WorkerEntryIsTracked /\ [Next]_vars => WorkerEntryIsTracked'
<1> SUFFICES ASSUME IInv, WorkerEntryIsTracked, [Next]_vars PROVE WorkerEntryIsTracked'
  OBVIOUS
<1> USE DEF IInv, TypeOK
<1>1. CASE UNCHANGED vars
  BY <1>1 DEF WorkerEntryIsTracked, vars
<1>2. CASE UserStep
  <2>1. UNCHANGED <<tracked, worker>>
    BY <1>2 DEF UserStep, SaveMMW, SwitchToClient, Invalidate, Expire, BlockElapses,
       DeleteBegin, RequestRead, DeleteEnd, RequestEnd, Cancel, poolVars, stateVars
  <2>2. \A id \in Ids : cache'[id].by = "worker" => cache[id].by = "worker"
    <3>1. ASSUME NEW id \in Ids, Expire(id)
          PROVE  \A i \in Ids : cache'[i].by = "worker" => cache[i].by = "worker"
      BY <3>1 DEF Expire, Entries, NoEntry
    <3>2. ASSUME NEW h \in Handlers, RequestEnd(h)
          PROVE  \A i \in Ids : cache'[i].by = "worker" => cache[i].by = "worker"
      BY <3>2 DEF RequestEnd, Stored
    <3>3. ASSUME NEW id \in Ids, Invalidate(id) \/ \E h \in Handlers : DeleteBegin(h, id)
          PROVE  \A i \in Ids : cache'[i].by = "worker" => cache[i].by = "worker"
      BY <3>3 DEF Invalidate, DeleteBegin, NoEntry
    <3>4. CASE UNCHANGED cache
      BY <3>4
    <3> QED
      BY <1>2, <3>1, <3>2, <3>3, <3>4 DEF UserStep, SaveMMW, SwitchToClient,
         BlockElapses, RequestRead, DeleteEnd, Cancel
  <2> QED
    BY <2>1, <2>2 DEF WorkerEntryIsTracked
<1>3. CASE SchedulerStep
  <2>1. CASE ReloadApply
    BY <2>1 DEF ReloadApply, Dropped, NoEntry, poolVars, WorkerEntryIsTracked
  <2>2. ASSUME NEW job \in jobs, NEW w \in Workers, Launch(w, job)
        PROVE  WorkerEntryIsTracked'
    BY <2>2 DEF Launch, Idle, stateVars, WorkerEntryIsTracked
  <2>3. CASE ReloadList \/ ReloadFails \/ Scan \/ Stop \/ Stopped
    BY <2>3 DEF ReloadList, ReloadFails, Scan, Stop, Stopped, poolVars, stateVars,
       WorkerEntryIsTracked
  <2>4. ASSUME NEW job \in jobs, LaunchCancelled(job) PROVE WorkerEntryIsTracked'
    BY <2>4 DEF LaunchCancelled, poolVars, stateVars, WorkerEntryIsTracked
  <2> QED
    BY <1>3, <2>1, <2>2, <2>3, <2>4 DEF SchedulerStep, LaunchStep
<1>4. ASSUME NEW w \in Workers, WorkerStep(w) PROVE WorkerEntryIsTracked'
  <2>1. CASE WorkerFetch(w)
    <3> USE <2>1 DEF WorkerFetch, Goto, stateVars, WorkerEntryIsTracked
    <3>1. CASE cache' = Stored(worker[w].job, "worker") /\ Goto(w, "recordOk")
      <4> SUFFICES ASSUME NEW id \in Ids, cache'[id].by = "worker"
                   PROVE  \/ id \in tracked'
                          \/ \E v \in Workers : /\ worker'[v].job.id = id
                                               /\ worker'[v].pc = "recordOk"
        OBVIOUS
      <4>1. CASE id = worker[w].job.id
        BY <3>1, <4>1
      <4>2. CASE id # worker[w].job.id
        <5>1. cache'[id] = cache[id]
          BY <3>1, <4>2 DEF Stored
        <5> QED
          BY <3>1, <5>1
      <4> QED
        BY <4>1, <4>2
    <3>2. CASE UNCHANGED cache /\ Goto(w, "recordFail")
      BY <3>2
    <3> QED
      BY <3>1, <3>2
  <2>2. CASE WorkerSucceeds(w)
    BY <2>2 DEF WorkerSucceeds, StateEnsured, Goto, WorkerEntryIsTracked
  <2>3. CASE WorkerFails(w)
    BY <2>3 DEF WorkerFails, StateEnsured, Goto, WorkerEntryIsTracked
  <2>4. CASE WorkerStart(w) \/ WorkerRelease(w) \/ WorkerDone(w) \/ WorkerMark(w)
    BY <2>4 DEF WorkerStart, WorkerRelease, WorkerDone, WorkerMark, Goto, Idle, stateVars,
       WorkerEntryIsTracked
  <2> QED
    BY <1>4, <2>1, <2>2, <2>3, <2>4 DEF WorkerStep
<1> QED
  BY <1>1, <1>2, <1>3, <1>4 DEF Next

\* The clean-up of reloadConfigs finds every entry a scheduled refresh stored.
THEOREM WorkerEntriesTracked == Spec => []WorkerEntryIsTracked
<1>1. Init => WorkerEntryIsTracked
  BY DEF Init, WorkerEntryIsTracked, NoEntry
<1> QED
  BY <1>1, NextTracked, SpecIInv, PTL DEF Spec
=============================================================================
