------------------------ MODULE ProxyProviderSyncProps ------------------------
(***************************************************************************)
(* What the scheduler of ProxyProviderSync promises.                       *)
(***************************************************************************)
EXTENDS ProxyProviderSync

\* The type of every variable.
TypeOK ==
    /\ db \in [Ids -> Rows]
    /\ handler \in [Handlers -> [pc : {"idle", "delete", "fetch"},
                                 job : Jobs \cup {NoJob}]]
    /\ cache \in [Ids -> Entries \cup {NoEntry}]
    /\ configs \in [Ids -> Rows]
    /\ tracked \in SUBSET Ids
    /\ blockUntil \in [Ids -> {"zero", "future", "past"}]
    /\ retryDelay \in [Ids -> 0..RetryMax]
    /\ running \in SUBSET Ids
    /\ slots \in 0..WorkerLimit
    /\ wg \in Nat
    /\ pc \in {"boot", "select", "apply", "launch", "wait", "stopped"}
    /\ jobs \in SUBSET Jobs
    /\ listed \in [Ids -> Rows]
    /\ worker \in [Workers -> [pc : InWaitGroup \cup {"idle", "mark"},
                               job : Jobs \cup {NoJob}]]
    /\ cancelled \in BOOLEAN

\* proxyProviderWorkerLimit bounds the refreshes in progress: a goroutine is
\* between launchWorker and the release in its deferred function exactly while
\* it owns one of the entries of the workers channel.
Holders == {w \in Workers : worker[w].pc \in HoldsSlot}

SlotsAreOwned ==
    /\ slots = Cardinality(Holders)
    /\ slots <= WorkerLimit

\* An id is marked in running only while a job for it is waiting to be launched
\* or in a goroutine that will unmark it.  A mark left behind would make
\* collectDueConfigs skip that provider for the life of the process.
NoLeakedMark ==
    \A id \in running :
       \/ \E job \in jobs : job.id = id
       \/ \E w \in Workers : worker[w].job.id = id

\* An entry stored by a scheduled refresh always has a key in state, or its
\* goroutine is about to create it: reloadConfigs looks only there for the
\* entries of deleted rows, and a refresh that ends after the row was dropped
\* re-creates the entry.
WorkerEntryIsTracked ==
    \A id \in Ids :
       cache[id].by = "worker" =>
          \/ id \in tracked
          \/ \E w \in Workers : worker[w].job.id = id /\ worker[w].pc = "recordOk"

\* run returns only after every refresh has given its slot back and recorded its
\* outcome, and leaves no collected job behind.
StopIsQuiet ==
    pc = "stopped" =>
       /\ jobs = {}
       /\ \A w \in Workers : worker[w].pc \in {"idle", "mark"}

\* A provider that is listed and has no fresh entry is refreshed, or backs off
\* after a failure, unless it is dropped or the scheduler is stopped: no mark,
\* slot or pending job blocks it for ever.
DueIsAttempted ==
    \A id \in Ids :
       (configs[id] # None /\ ~Fresh(id)) ~>
          (Fresh(id) \/ blockUntil[id] = "future" \/ configs[id] = None \/ cancelled)

\* After the last change to a row, fresh entries of its older contents die out,
\* although handleUpdateProxyProviderConfig does not touch the cache and
\* refreshes of the old row may still be in flight.
OldContentDiesOut ==
    \A id \in Ids :
       <>[][db'[id] = db[id]]_vars => <>[](Fresh(id) => cache[id].ver = db[id])

\* After a row is gone for good, no entry of a scheduled refresh stays behind.
WorkerOrphansAreCleaned ==
    \A id \in Ids :
       (<>[](db[id] = None) /\ []~cancelled) => <>[](cache[id].by # "worker")

\* Cancelling the context ends run, also while it waits for a slot.
ShutdownCompletes == cancelled ~> (pc = "stopped")
=============================================================================
