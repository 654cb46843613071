--------------------------- MODULE ProxyProviderSync ---------------------------
(***************************************************************************)
(* The cache of proxy providers that the panel fetches itself              *)
(* (process_mode = 'mmw'), and the scheduler that keeps it fresh:          *)
(* internal/handler/proxy_provider_cache.go, with the HTTP handlers that   *)
(* read, refresh, change and delete a provider while the scheduler runs.   *)
(*                                                                         *)
(* One scheduler goroutine selects among a scan ticker, a reload ticker    *)
(* and cancellation; every due provider is refreshed by a goroutine of its *)
(* own that first needs one of WorkerLimit slots.  Wall-clock time is      *)
(* abstracted to two flags: an entry stops being fresh (Expire) and a      *)
(* back-off ends (BlockElapses) at any moment.                             *)
(***************************************************************************)
EXTENDS Naturals, FiniteSets

CONSTANTS
    Ids,          \* ids of the rows of proxy_provider_configs
    Versions,     \* what distinguishes two contents of one row
    None,         \* no row, no entry, no job
    WorkerLimit,  \* proxyProviderWorkerLimit
    Workers,      \* refresh goroutines that exist at a time (a bound)
    Handlers,     \* HTTP handlers that run at a time (a bound)
    RetryMax      \* proxyProviderRetryMax in units of proxyProviderRetryBase

ASSUME NoneAssumption == None \notin Ids \cup Versions
ASSUME WorkerLimitAssumption == WorkerLimit \in Nat \ {0}
ASSUME WorkersAssumption == IsFiniteSet(Workers)
ASSUME RetryMaxAssumption == RetryMax \in Nat \ {0}

VARIABLES
    db,          \* the mmw row of each id: its version, or None
    handler,     \* the HTTP handlers in flight
    cache,       \* ProxyProviderCache.entries
    configs,     \* proxyProviderCacheSyncer.configs
    tracked,     \* the keys of proxyProviderCacheSyncer.state
    blockUntil,  \* proxyProviderSyncState.blockUntil: zero, future or past
    retryDelay,  \* proxyProviderSyncState.retryDelay
    running,     \* the keys of proxyProviderCacheSyncer.running
    slots,       \* len(proxyProviderCacheSyncer.workers)
    wg,          \* the counter of proxyProviderCacheSyncer.wg
    pc,          \* where the scheduler goroutine is
    jobs,        \* the jobs of this cycle it has not launched yet
    listed,      \* the rows reloadConfigs has read and not applied yet
    worker,      \* the refresh goroutines
    cancelled    \* ctx.Done() is closed

userVars == <<db, handler>>
stateVars == <<tracked, blockUntil, retryDelay>>
poolVars == <<slots, wg, worker>>
schedVars == <<pc, jobs, listed>>
vars == <<db, handler, cache, configs, tracked, blockUntil, retryDelay,
          running, slots, wg, pc, jobs, listed, worker, cancelled>>

Rows == Versions \cup {None}
Jobs == [id : Ids, ver : Versions]
NoJob == [id |-> None, ver |-> None]
Entries == [ver : Versions, fresh : BOOLEAN, by : {"worker", "request"}]
NoEntry == [ver |-> None, fresh |-> FALSE, by |-> "nobody"]
Idle == [pc |-> "idle", job |-> NoJob]

HoldsSlot == {"start", "fetch", "recordOk", "recordFail", "release"}
InWaitGroup == HoldsSlot \cup {"done"}
Finishing == {"done", "mark"}

Cached(id) == cache[id] # NoEntry
Fresh(id) == cache[id].fresh

Init ==
    /\ db \in [Ids -> Rows]
    /\ handler = [h \in Handlers |-> Idle]
    /\ cache = [id \in Ids |-> NoEntry]
    /\ configs = [id \in Ids |-> None]
    /\ tracked = {}
    /\ blockUntil = [id \in Ids |-> "zero"]
    /\ retryDelay = [id \in Ids |-> 0]
    /\ running = {}
    /\ slots = 0
    /\ wg = 0
    /\ pc = "boot"
    /\ jobs = {}
    /\ listed = [id \in Ids |-> None]
    /\ worker = [w \in Workers |-> Idle]
    /\ cancelled = FALSE

-----------------------------------------------------------------------------
(* The users: rows of proxy_provider_configs and the HTTP handlers.          *)

\* A row is created, edited, or switched to mmw mode: the cache is not told.
SaveMMW(id, v) ==
    /\ db' = [db EXCEPT ![id] = v]
    /\ UNCHANGED <<handler, cache, configs, stateVars, running, poolVars,
                   schedVars, cancelled>>

\* A row is switched to client mode, or goes with its external subscription.
SwitchToClient(id) ==
    /\ db[id] # None
    /\ db' = [db EXCEPT ![id] = None]
    /\ UNCHANGED <<handler, cache, configs, stateVars, running, poolVars,
                   schedVars, cancelled>>

\* handleDeleteProxyProviderConfig drops the entry first ...
DeleteBegin(h, id) ==
    /\ handler[h] = Idle
    /\ db[id] # None
    /\ cache' = [cache EXCEPT ![id] = NoEntry]
    /\ handler' = [handler EXCEPT
                     ![h] = [pc |-> "delete", job |-> [id |-> id, ver |-> db[id]]]]
    /\ UNCHANGED <<db, configs, stateVars, running, poolVars, schedVars, cancelled>>

\* ... and the row afterwards, unless the database fails.
DeleteEnd(h) ==
    /\ handler[h].pc = "delete"
    /\ \E row \in {None, db[handler[h].job.id]} :
          db' = [db EXCEPT ![handler[h].job.id] = row]
    /\ handler' = [handler EXCEPT ![h] = Idle]
    /\ UNCHANGED <<cache, configs, stateVars, running, poolVars, schedVars, cancelled>>

\* A handler, or the initialisation at startup, that needs nodes reads the row.
RequestRead(h, id) ==
    /\ handler[h] = Idle
    /\ db[id] # None
    /\ handler' = [handler EXCEPT
                     ![h] = [pc |-> "fetch", job |-> [id |-> id, ver |-> db[id]]]]
    /\ UNCHANGED <<db, cache, configs, stateVars, running, poolVars, schedVars,
                   cancelled>>

\* RefreshProxyProviderCache stores what it fetched for the row it was given.
Stored(job, by) ==
    [cache EXCEPT ![job.id] = [ver |-> job.ver, fresh |-> TRUE, by |-> by]]

RequestEnd(h) ==
    /\ handler[h].pc = "fetch"
    /\ \/ cache' = Stored(handler[h].job, "request")
       \/ UNCHANGED cache
    /\ handler' = [handler EXCEPT ![h] = Idle]
    /\ UNCHANGED <<db, configs, stateVars, running, poolVars, schedVars, cancelled>>

\* A synchronisation of external subscriptions drops the entries built on them.
Invalidate(id) ==
    /\ Cached(id)
    /\ cache' = [cache EXCEPT ![id] = NoEntry]
    /\ UNCHANGED <<userVars, configs, stateVars, running, poolVars, schedVars,
                   cancelled>>

\* FetchedAt + interval passes.
Expire(id) ==
    /\ Fresh(id)
    /\ cache' = [cache EXCEPT ![id].fresh = FALSE]
    /\ UNCHANGED <<userVars, configs, stateVars, running, poolVars, schedVars,
                   cancelled>>

\* blockUntil passes.
BlockElapses(id) ==
    /\ blockUntil[id] = "future"
    /\ blockUntil' = [blockUntil EXCEPT ![id] = "past"]
    /\ UNCHANGED <<userVars, cache, configs, tracked, retryDelay, running,
                   poolVars, schedVars, cancelled>>

Cancel ==
    /\ ~cancelled
    /\ cancelled' = TRUE
    /\ UNCHANGED <<userVars, cache, configs, stateVars, running, poolVars, schedVars>>

-----------------------------------------------------------------------------
(* Pieces of the scheduler, each with a faulty variant that the properties   *)
(* have to tell from it.                                                     *)

\* launchWorker sends on the workers channel, which has WorkerLimit places.
SlotFree == slots < WorkerLimit

\* markTaskFinished
MarkTaskKept(id) == running' = running
MarkTaskFinished(id) == running' = running \ {id}

\* collectDueConfigs: blockUntil is zero or not after now.
BackoffNeverEnds(id) == blockUntil[id] = "zero"
BackoffOver(id) == blockUntil[id] # "future"

\* ensureStateLocked: the keys of state once id has one.
StateIfPresent(id) == tracked
StateEnsured(id) == tracked \cup {id}

\* reloadConfigs: the ids whose state and entry it deletes.
Gone(id) == listed[id] = None
DroppedConfigs == {id \in Ids : configs[id] # None /\ Gone(id)}
Dropped == {id \in tracked : Gone(id)}

\* reloadConfigs: the configs it installs.
OnlyNewConfigs ==
    [id \in Ids |-> IF Gone(id) \/ configs[id] = None THEN listed[id] ELSE configs[id]]
NextConfigs == listed

\* run: wg.Wait() before it returns.
WaitOver == wg = 0

\* refreshSingle returns early: the deferred function still runs.
SkipDeferred == "mark"
EarlyReturn == "release"

\* recordFailure: doubled from the base, up to the maximum.
UncappedDelay(delay) == IF delay = 0 THEN 1 ELSE 2 * delay
NextDelay(delay) ==
    IF delay = 0 THEN 1
    ELSE IF 2 * delay > RetryMax THEN RetryMax ELSE 2 * delay

-----------------------------------------------------------------------------
(* The scheduler goroutine: run, reloadConfigs, runSyncCycle, launchWorker.  *)

\* ListMMWProxyProviderConfigs, outside of the lock; a cancelled ctx fails it.
ReloadList ==
    /\ pc \in {"boot", "select"}
    /\ ~cancelled
    /\ listed' = db
    /\ pc' = "apply"
    /\ UNCHANGED <<userVars, cache, configs, stateVars, running, poolVars, jobs,
                   cancelled>>

ReloadFails ==
    /\ pc \in {"boot", "select"}
    /\ pc' = "select"
    /\ UNCHANGED <<userVars, cache, configs, stateVars, running, poolVars, jobs,
                   listed, cancelled>>

\* Under the lock: replace configs, forget the ids that are gone.
ReloadApply ==
    /\ pc = "apply"
    /\ configs' = NextConfigs
    /\ tracked' = tracked \ Dropped
    /\ blockUntil' = [id \in Ids |-> IF id \in Dropped THEN "zero" ELSE blockUntil[id]]
    /\ retryDelay' = [id \in Ids |-> IF id \in Dropped THEN 0 ELSE retryDelay[id]]
    /\ cache' = [id \in Ids |-> IF id \in Dropped THEN NoEntry ELSE cache[id]]
    /\ running' = {id \in running : ~Gone(id)}
    /\ listed' = [id \in Ids |-> None]
    /\ pc' = "select"
    /\ UNCHANGED <<userVars, poolVars, jobs, cancelled>>

\* collectDueConfigs skips a marked id and one in back-off, then asks
\* shouldRefreshLocked.
Scannable == {id \in Ids : configs[id] # None /\ id \notin running}
Due == {id \in Scannable : BackoffOver(id) /\ ~Fresh(id)}

Scan ==
    /\ pc = "select"
    /\ tracked' = tracked \cup Scannable
    /\ running' = running \cup Due
    /\ jobs' = {[id |-> id, ver |-> configs[id]] : id \in Due}
    /\ pc' = IF Due = {} THEN "select" ELSE "launch"
    /\ UNCHANGED <<userVars, cache, configs, blockUntil, retryDelay, poolVars,
                   listed, cancelled>>

NextJob(job) ==
    /\ jobs' = jobs \ {job}
    /\ pc' = IF jobs = {job} THEN "select" ELSE "launch"

\* The scheduler waits here until a slot is free.
Launch(w, job) ==
    /\ pc = "launch"
    /\ SlotFree
    /\ worker[w] = Idle
    /\ slots' = slots + 1
    /\ wg' = wg + 1
    /\ worker' = [worker EXCEPT ![w] = [pc |-> "start", job |-> job]]
    /\ NextJob(job)
    /\ UNCHANGED <<userVars, cache, configs, stateVars, running, listed, cancelled>>

LaunchCancelled(job) ==
    /\ pc = "launch"
    /\ cancelled
    /\ MarkTaskFinished(job.id)
    /\ NextJob(job)
    /\ UNCHANGED <<userVars, cache, configs, stateVars, poolVars, listed, cancelled>>

Stop ==
    /\ pc = "select"
    /\ cancelled
    /\ pc' = "wait"
    /\ UNCHANGED <<userVars, cache, configs, stateVars, running, poolVars, jobs,
                   listed, cancelled>>

\* wg.Wait returns and run ends.
Stopped ==
    /\ pc = "wait"
    /\ WaitOver
    /\ pc' = "stopped"
    /\ UNCHANGED <<userVars, cache, configs, stateVars, running, poolVars, jobs,
                   listed, cancelled>>

-----------------------------------------------------------------------------
(* A refresh goroutine: refreshSingle and the deferred clean-up.             *)

Goto(w, next) == worker' = [worker EXCEPT ![w].pc = next]

\* Leave when ctx is done; otherwise find the subscription, or fail.
WorkerStart(w) ==
    /\ worker[w].pc = "start"
    /\ \/ cancelled /\ Goto(w, EarlyReturn)
       \/ ~cancelled /\ Goto(w, "fetch")
       \/ ~cancelled /\ Goto(w, "recordFail")
    /\ UNCHANGED <<userVars, cache, configs, stateVars, running, slots, wg,
                   schedVars, cancelled>>

WorkerFetch(w) ==
    /\ worker[w].pc = "fetch"
    /\ \/ /\ cache' = Stored(worker[w].job, "worker")
          /\ Goto(w, "recordOk")
       \/ /\ UNCHANGED cache
          /\ Goto(w, "recordFail")
    /\ UNCHANGED <<userVars, configs, stateVars, running, slots, wg, schedVars,
                   cancelled>>

\* recordSuccess
WorkerSucceeds(w) ==
    LET id == worker[w].job.id IN
    /\ worker[w].pc = "recordOk"
    /\ tracked' = StateEnsured(id)
    /\ blockUntil' = [blockUntil EXCEPT ![id] = "zero"]
    /\ retryDelay' = [retryDelay EXCEPT ![id] = 0]
    /\ Goto(w, "release")
    /\ UNCHANGED <<userVars, cache, configs, running, slots, wg, schedVars, cancelled>>

\* recordFailure
WorkerFails(w) ==
    LET id == worker[w].job.id IN
    /\ worker[w].pc = "recordFail"
    /\ tracked' = StateEnsured(id)
    /\ retryDelay' = [retryDelay EXCEPT ![id] = NextDelay(@)]
    /\ blockUntil' = [blockUntil EXCEPT ![id] = "future"]
    /\ Goto(w, "release")
    /\ UNCHANGED <<userVars, cache, configs, running, slots, wg, schedVars, cancelled>>

\* The deferred function: <-s.workers, s.wg.Done(), s.markTaskFinished(id).
WorkerRelease(w) ==
    /\ worker[w].pc = "release"
    /\ slots' = slots - 1
    /\ Goto(w, "done")
    /\ UNCHANGED <<userVars, cache, configs, stateVars, running, wg, schedVars, cancelled>>

WorkerDone(w) ==
    /\ worker[w].pc = "done"
    /\ wg' = wg - 1
    /\ Goto(w, "mark")
    /\ UNCHANGED <<userVars, cache, configs, stateVars, running, slots, schedVars, cancelled>>

\* markTaskFinished, the end of the goroutine.
WorkerMark(w) ==
    /\ worker[w].pc = "mark"
    /\ MarkTaskFinished(worker[w].job.id)
    /\ worker' = [worker EXCEPT ![w] = Idle]
    /\ UNCHANGED <<userVars, cache, configs, stateVars, slots, wg, schedVars, cancelled>>

-----------------------------------------------------------------------------
UserStep ==
    \/ \E id \in Ids :
          \/ \E v \in Versions : SaveMMW(id, v)
          \/ SwitchToClient(id)
          \/ Invalidate(id)
          \/ Expire(id)
          \/ BlockElapses(id)
    \/ \E h \in Handlers :
          \/ \E id \in Ids : DeleteBegin(h, id) \/ RequestRead(h, id)
          \/ DeleteEnd(h)
          \/ RequestEnd(h)
    \/ Cancel

LaunchStep ==
    \E job \in jobs : LaunchCancelled(job) \/ \E w \in Workers : Launch(w, job)

SchedulerStep ==
    \/ ReloadList
    \/ ReloadFails
    \/ ReloadApply
    \/ Scan
    \/ LaunchStep
    \/ Stop
    \/ Stopped

WorkerStep(w) ==
    \/ WorkerStart(w)
    \/ WorkerFetch(w)
    \/ WorkerSucceeds(w)
    \/ WorkerFails(w)
    \/ WorkerRelease(w)
    \/ WorkerDone(w)
    \/ WorkerMark(w)

Next == UserStep \/ SchedulerStep \/ \E w \in Workers : WorkerStep(w)

Spec == Init /\ [][Next]_vars

(* A goroutine that can run does run; an HTTP fetch ends within its client's *)
(* timeout; clocks advance.  The select of the scheduler picks among ready   *)
(* cases at random, so a case that is ready again and again is taken: strong *)
(* fairness of the three cases, and of a reload that finds the database.     *)
Fairness ==
    /\ \A w \in Workers : WF_vars(WorkerStep(w))
    /\ \A h \in Handlers : WF_vars(DeleteEnd(h) \/ RequestEnd(h))
    /\ \A id \in Ids : WF_vars(Expire(id)) /\ WF_vars(BlockElapses(id))
    /\ WF_vars(pc = "boot" /\ ReloadFails)
    /\ WF_vars(ReloadApply) /\ WF_vars(LaunchStep) /\ WF_vars(Stopped)
    /\ SF_vars(ReloadList) /\ SF_vars(Scan) /\ SF_vars(Stop)

FairSpec == Spec /\ Fairness
=============================================================================
