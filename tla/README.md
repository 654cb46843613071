# A verification project for mmwX Pro (妙妙屋)

The panel in this repository manages proxy subscriptions and a fleet of servers
that run xray. It is one Go process over one SQLite database; agents on the
servers connect to it over WebSocket or HTTP, or are polled. This directory
holds TLA+ models of the parts of the panel in which order, overlap, failure
and restarts decide whether it does its job, TLC configurations that check them
on small instances, and theorems that TLAPS checks for every instance.

To check: `tlc -config X.cfg M.tla` for every run listed below, `tlapm M.tla`
for the modules whose names end in `Proofs`. `PROJECT.json` lists runs,
mutants, theorems and hazards, and maps every definition to the lines that it
models.

## 1. Inventory

About 98 000 lines of Go and no tests. `cmd/server/main.go` wires the program;
`internal/handler` holds the HTTP, WebSocket and timer code,
`internal/storage/traffic.go` nearly all SQL.

At this commit `main.go` constructs only a part of what `internal/` implements:
logins, limiters, subscriptions, the provider cache, speed tests and node probes.
`RemoteWSHandler`, `RemoteManageHandler`, the federation, the collector, the
enforcer, the reconciler and the cleaner are complete but constructed by nobody
here (nobody calls `StartCleanupLoop` either). The models of those components
take them as their code and comments describe them: constructed once, with their
loops running.

| Component | State | Operations | What is hard | What makes it correct | Module |
|---|---|---|---|---|---|
| Proxy provider cache (`proxy_provider_cache.go`) | entries, known configs, back-off, running marks, worker slots | scan, reload, refresh, shut down; handlers save, delete, refresh | a refresh outlives the row it was started for; a lost slot or mark stops refreshing for good | marks do not leak, due providers are attempted, old contents and orphans disappear, shutdown ends | `ProxyProviderSync` |
| Traffic accounting (`collector.go`, `restart_detector.go`, `storage/traffic.go`) | last boot time, traffic rows | pushed and pulled reports, upserts, cycle reset | counters restart at zero for four reasons; boot time and counters travel apart; read, compute and write are separate statements | never charge what was not carried, count once, resets keep history | `TrafficAccounting` |
| Limit enforcer, reconciler, cleaner, packages (`traffic_limit_enforcer.go`, `inbound_client_reconciler.go`, `orphan_xray_client_cleaner.go`, `packages.go`) | users, bindings, snapshots, clients on agents | assign, extend, remove, expire, cut off, restore, add what is missing, clean | three timers and handlers without a common lock make best-effort calls to agents that may be away | rows are forgotten only after removal, expired users are unbound, missing clients return, orphans go | `Provisioning` |
| Calls to agents (`ws_rpc.go`, `remote_ws.go`, `remote_manage.go`) | pending calls, streams and probes | call, stream, probe, time out, fall back to HTTP | late replies, full channels, a call executed twice | a call returns with an outcome of its own executions; one run per stream | `AgentCalls`, `CallContract` |
| Secure channel (`securechan`, `federation*.go`) | sequence numbers, receive window, sessions | negotiate, seal, open, expire | concurrent commands overtake each other; both sides lose sessions | one execution per envelope; lost sessions heal | `ReplayWindow`, `SecureChannel` |
| Agent connections (`remote_ws.go`, `remote_servers.go`, `collector.go`) | map of connections, locks, failures, the row of the server | authenticate, replace, heartbeat, clean up, change the token, mark offline | goroutines of old connections clean up after new ones; token and address disputes | own token, one notice per absence, dead entries go, the agent gets in | `AgentConnections` |
| Node probes (`node_probe_*.go`, `speedtest/runner.go`) | history per node, checkpoint, running cycle | probe, notify, select, forget, save, load | a request, a manual test or a shutdown falls between two steps of a probe | notices agree with probes, outages are told, history does not linger | `NodeProbes` |
| Sessions (`auth/token_store.go`, `two_factor.go`) | tokens in memory and database | issue, revoke, rename, load | memory and database are written apart | a token names the user that the database names | none |
| Limiters (`rate_limiter.go`, `brute_force.go`, `subscription_rate.go`, `silent_mode.go`) | counters with windows, bans | check, record, ban, unban | check and record are separate | counts reach the limit; bans survive a restart if not lifted | none |
| Others: templates, YAML files, routed outbounds, tunnels, certificates, dynamic DNS, license, event bus, tool server, backup, update, web assets | rows, files, remote configurations | CRUD, text, external calls | partial failures of several remote calls | - | none, see section 6 |

How they interact: `AgentCalls` runs on the connections of `AgentConnections`; what
`Provisioning` does to an agent is such a call (there an atomic step that succeeds,
fails, or succeeds and loses its reply, which is what `CallContract` allows);
`TrafficAccounting` yields the sum that `Provisioning` compares with the limit
(there a number that grows); commands to servers of another panel go through
`SecureChannel`. The models are composed at these interfaces by abstraction, not by
one product of their state spaces, which TLC could not explore.

## 2. Plan

| Step | State |
|---|---|
| 1. `ProxyProviderSync` with liveness and proofs | done |
| 2. `TrafficAccounting` | done, safety proved |
| 3. `Provisioning`: enforcer, reconciler, cleaner and package handlers | done, safety proved |
| 4. `AgentCalls` refines `CallContract` | done; safety, refinement included, proved |
| 5. `ReplayWindow` and `SecureChannel`, the window refined to a set of numbers | done, proved for every width |
| 6. `AgentConnections` | done, safety proved |
| 7. `NodeProbes` | done, safety proved |
| 8. Sessions and limiters | open |
| 9. What a user can carry past the limit (accounting and enforcer together) | open: nothing in the code bounds it |
| 10. Proofs of the refinement of 4, of `CountedOnce` and of the bill of a user | done |
| 11. Routed outbounds: rules removed by position, rollback with lost replies | open |

## 3. Modules

Every component has a module with the behaviour, one `...Props` with its properties,
one `MC...` for TLC and, where there are theorems, one `...Proofs`. Faulty variants of
definitions (mutants) stand beside the originals.

### ProxyProviderSync

`proxyProviderCacheSyncer.run` is one goroutine that selects among a scan ticker, a
reload ticker and cancellation; each due provider is refreshed by a goroutine that
needs one of `proxyProviderWorkerLimit` slots. HTTP handlers change rows and entries
meanwhile.

| State | Code |
|---|---|
| `db` | rows of `proxy_provider_configs` with process mode `mmw`, by version |
| `cache` | `ProxyProviderCache.entries`: which version an entry shows, whether it is fresh, who stored it |
| `configs`, `tracked`, `blockUntil`, `retryDelay`, `running` | the maps of `proxyProviderCacheSyncer` |
| `slots`, `wg` | the `workers` channel and the wait group |
| `pc`, `jobs`, `listed` | where the scheduler is, the jobs it has yet to launch, the rows that it read without the lock |
| `worker`, `handler` | goroutines in flight |

Actions follow the places where the code lets go of its lock or waits: `ReloadList`
and `ReloadApply` are the query and the critical section of `reloadConfigs`; `Scan`
is `collectDueConfigs`; `Launch` waits for a slot; `WorkerStart` to `WorkerMark` are
`refreshSingle` and its deferred function, statement by statement. Wall-clock time is
two flags that change at any moment (`Expire`, `BlockElapses`); the interval of a
provider, the shared download cache and file contents are left out; `RetryMax` is the
cap of the back-off in units of its base.

### TrafficAccounting

One server and one direction (uplink and downlink are treated alike, servers do not
share rows).

| State | Code |
|---|---|
| `boot`, `adds`, `counter` | the server: starts of xray, additions of a client, its counter |
| `reported` | `remote_servers.xray_boot_time`, written by heartbeats, `NULL` if a heartbeat does not carry it |
| `seen` | `XrayRestartDetector.cache` |
| `weight`, `owner` | what `BuildEmailAttributor` reads: the multiplier of each client's node, the user whom `Classify` finds for it, or none |
| `email`, `user` | rows of `user_email_traffic` and `user_traffic` |
| `tick` | goroutines in `ProcessRemoteMetrics`: the report, the judgement, the two loops and the row between its query and its write |
| `carried`, `counted`, `born`, `orderly`, `payer`, `payers`, `steady` | histories that no action reads: bytes carried, what a row's last counter belongs to, were reports orderly, whose sums a client was added to last and ever, has none come back to a sum that it had left |

Actions of a report: `PushArrives` and `PushLookup` (`handleTraffic`,
`RemoteTrafficHandler`: counters first, boot time afterwards), `PullListed` and
`PullFetched` (`collectAll`, `CollectFromRemoteServer`: boot time first), `Judge`
(`CheckAndUpdate` and `BuildEmailAttributor`), `ReadEmail` and `WriteEmail` or
`EmailFails` (the two statements of `UpsertUserEmailTraffic`), each with the user that
`ResolveUsernameByEmail` returns for the client, the same for users, `Finish`. That
function asks four tables for every client of every report and takes a query that fails
for one that finds nothing, so its answer is any user, or none and the client is left
out of the sums; `Classify` answers from what was loaded with the report (`attr`). The environment: traffic, restarts of xray, clients removed and added,
heartbeats, administrators (who also move clients to other users, `MoveNode`), restarts
of the panel. A multiplier is a natural number
instead of a float; `CheckAndUpdate` and the load of the attributor are one step, as
the first touches only the detector and the second only configuration; the tables of
inbounds and outbounds, which go through the same upsert, are left out.

### Provisioning

Users, the inbounds that their package grants, and the clients that agents really
have. `CheckAll` of the enforcer, `runOnce` of the reconciler and of the cleaner, and
any number of HTTP requests run at once; every call of an agent and every database
statement that others can fall between is a step of its own.

| State | Code |
|---|---|
| `account`, `used`, `due`, `nodes` | table `users`, what `GetUserBillableTraffic` returns, users whose reset day has come, inbounds of the nodes of a package |
| `row` | `user_inbound_configs`: the credential of a user on an inbound |
| `client`, `online` | the agents: clients of an inbound, can it be reached |
| `snap`, `refresh` | the stored snapshot of the agent, and the goroutines `refreshXraySnapshot` that are to renew it |
| `enf`, `rec`, `req`, `work` | where the enforcer, the reconciler and the requests are, and the items (one per inbound) that each still has to do |
| `touched` | history: bindings that someone else wrote or delivered during the visit of the enforcer |

An item goes through the stages of the delivery: the look-up in the cache
(`collect`), the call of the agent and the saving of the row (`batch`, `save`), or the
reading of the inbound, `getOrCreateInboundCredential` under its lock and the addition
(`get`, `create`, `post`); of a removal (`remove`, `removeNode`); and of what the handlers
and the cleaner do afterwards (`drop`, `purge`). A call of an agent succeeds,
fails, or succeeds and loses its reply; the last and the loss of an agent count as
faults. `UnderClients` are the inbounds that keep their clients under `settings.clients`; the
cleaner sees no others (anytls, snell, socks and http keep them elsewhere).
Abstractions: one inbound per server, so that a batch is one item; fixed inbounds, so
that neither the enforcer (`traffic_limit_enforcer.go:262`) nor a delivery meets an
inbound that is not found; rows of packages are not deleted; private routed outbounds and nodes, which are suspended and resumed beside the
clients, are left out, as are the monthly reset of servers and the speed limiter.
Local database statements succeed, except the write of `last_reset_at`, whose failure
the code tolerates. A snapshot is fetched atomically.

### AgentCalls and CallContract

Calls of the panel to one agent: commands (`forwardToRemoteServer`), streams whose
output goes to a browser (`CallAgentStream`) and latency probes. All replies arrive on
one connection, whose read loop hands each frame to the goroutine that waits for it.

| State | Code |
|---|---|
| `call` | the goroutine of a call: is it waiting, in HTTP, negotiating again or back, and with which outcome |
| `pending`, `nextId` | `pendingRPC`, `pendingStream`, `pendingProbes`, `rpcReqCounter` |
| `chan`, `closed` | the channels goroutines wait on; those of probes are closed |
| `reader` | `handleConnection`: the frame in hand between the look-up of a channel and the send |
| `link`, `down`, `up` | the connection and the frames on their way |
| `jobs`, `runs` | the agent: streams that run, executions and their answers (external) |

`CallContract` is the abstract specification: a call returns, with an outcome of one of
its own executions or a failure, and is executed a bounded number of times. The run
checks `AgentCalls => Contract!Spec` with `phase <- Phase` and
`MaxRuns <- 2 + 2 * Addresses`, including the return of commands and probes (`Timed`). A
stream is promised no return: over HTTP its client has no time limit
(`remote_manage.go:677`), and agents promise nothing. A handler that panics at the agent
is an answer with `error`. Abstractions: the
session of pull mode is not tracked, so an agent may always answer that it is stale;
the agent executes and answers in one step; a channel is cleared when its call leaves,
as nobody can receive from it any more; the id of a probe, which is the time in
nanoseconds, is taken not to repeat; `"ended"` is the outcome of a stream that broke
after it had written data.

### ReplayWindow and SecureChannel

`ReplayWindow` is `replayWindow.Check` on a mask of `W` bits, as a set of distances.
`SecureChannel` adds the panels of a federation: a consumer that sends commands for a
shared server, several at once, and its owner. Both keep one session in memory.

| State | Code |
|---|---|
| `held`, `cache`, `made` | the consumer's `fedSessions` entry, the owner's `SessionCache` entry, sessions made |
| `sent`, `window` | per session and side `sendSeq` and `recvWindow` |
| `got` | history: the numbers that passed the window |
| `call` | per command: the exchange it is in, the envelope on its way, executions, and why it failed |
| `repeats`, `lost`, `ends` | counters of the bounds |

The steps are those of `doFederationRequest` and `handleManage`: seal, open, execute,
seal the result, open it, and on an invalid session delete and negotiate
(`negotiateManage`). HTTP transports, expiry, restarts and an intermediary that repeats
a request (whose extra answer nobody reads) are the environment. `W` is 64 in the code,
2 for TLC and arbitrary in the proofs. Key agreement and ciphers have no state; the
downgrade to plain text when no key can be generated, and the channel of browsers
(`securechan_user.go`, `http_crypto.go`), are left out.

### AgentConnections

| State | Code |
|---|---|
| `conn` | goroutines of `handleConnection`: authentication (`handleAuth`) with the token that it uses (`auth`), registration, reading, and the three steps of the clean-up |
| `conns` | `RemoteWSHandler.conns`, from tokens to connections |
| `lock`, `fails` | `tokenConflicts` for the token of the row, `authFailIPs` |
| `row` | the row of the server: token, and `status`, `last_heartbeat`, `offline_since`, `offline_notified` folded into one state; `crossed` is a history: a reset replaced another token than it had read |
| `knows` | the token the agent has, 0 when it is gone for good |
| `push`, `sweep`, `tick` | the requests that reset the token (`HandleResetServerToken`), `CleanupStaleConnections` and the collector in progress |
| `faults` | counter of the bound: lost or refused connections, failed writes, restarts of the panel |

Time is actions that age something (`PingAges`, `RowAges`, `LockEnds`,
`CooldownEnds`). The reported address is the source address. The model keeps the races
of the code: a reset reads the row, writes it, finds the connection, sends and renames, and
stores, each a step, and any number of resets overlap (only the lock of the connection
orders the last two); an authentication goes on with its own token although a reset
renames the connection meanwhile; the compare and the delete of a clean-up are two steps, so that a goroutine
can delete its successor's entry; two connections can both store themselves, and then
one lives unregistered; the sweep deletes by token; the selection and the marking of
servers to notify are two statements. Left out: a second authentication on one
connection, the texts of notices, the callbacks that a successful authentication
starts, the refresh of its token by an agent over HTTP (`agent_connect.go:389`). The lock of an old token is dropped because no action reads it again.

### NodeProbes

| State | Code |
|---|---|
| `enabled`, `useTester`, `selected`, `others` | settings and rows; `others`: nodes that are not followed are selected too |
| `forgetting` | toggle requests between the write of the row and `Forget` |
| `store`, `disk` | `NodeProbeStore.data` and its checkpoint |
| `cycle`, `probe` | `runCycle`; `probeOne` and `reconcileNodeState` of the node whose turn it is |
| `testing` | a manual speed test holds `runMu` |
| `health` | can the node be used |
| `stopping` | the shutdown: context cancelled, last checkpoint saved |
| `told`, `fails`, `rolled` | histories: last notice that could be sent, failures in a row, nodes whose notices a restart or a shutdown lost |

The actions are the stages of a probe (tester, fallback, `Record`, the decision, the
notice, `MarkAnnounced`), the cycle, the requests, the shutdown with its last
checkpoint, a crash and the start that loads what was saved. A cycle whose context is
cancelled while it starts probes returns at once and retains only the nodes of the cycle;
the probes that it had started go on (`CycleCancelled`). The streak of failures is
counted up to `FailK`, 2 in the code. A checkpoint is modelled only while a restart can
follow it. Left out: the resynchronisation of subscriptions after a long outage,
samples and latencies, the table of connected testers.

## 4. Runs

| Run | Instance | Shows |
|---|---|---|
| `sync_safety` (`ProxySyncSafety.cfg`) | 1 provider with 2 contents, 2 goroutines, 1 slot, 1 handler, cap 2 | `TypeOK`, `NoLeakedMark`, `WorkerEntryIsTracked` |
| `sync_live` (`ProxySyncLive.cfg`) | 1 provider with 2 contents, 1 goroutine, 1 handler, fairness | `DueIsAttempted`, `WorkerOrphansAreCleaned`, `ShutdownCompletes`, `OldContentDiesOut` |
| `acct_users` (`AcctUsers.cfg`) | 2 clients, each resolved to one user or to nobody in every report, 2 starts of xray, 1 re-addition | `TypeOK`, `UserNeverOverbilled` |
| `acct_clients` (`AcctClients.cfg`) | 1 client: 3 starts of xray, 1 re-addition, 2 bytes between orderly reports; 2 overlapping reports, 2 multipliers, 1 change, resets | `NeverOverbilled`, `CountedOnce`, `HistoryNeverShrinks` |
| `prov_safety` (`ProvSafety.cfg`) | 1 user, package and inbound, 2 credentials, 2 requests, 1 fault | `TypeOK`, `ExpiryForgetsNothing`, `CredentialIsStable` |
| `prov_live` (`ProvLive.cfg`) | the same with traffic, 1 credential, 1 request, 1 fault, fairness | `ExpiredIsUnbound`, `BelowLimitIsRestored`, `MissingIsDelivered`, `DeletedIsCleaned` |
| `agent_calls` (`AgentCalls.cfg`) | a command beside a stream and beside a probe, a channel of 1 place, 1 address, 1 lost connection | `TypeOK`, `ProgressIsOneRun`, `AnsweredIsNotRunAgain`, the refinement `KeepsContract`, `FramesAreRouted` |
| `secure_channel` (`SecureChannel.cfg`) | 3 commands at once, window of 2, 4 sessions, 1 repeat, 1 lost exchange, 2 expiries or restarts | `TypeOK`, `WindowIsTheSet`, `OncePerEnvelope`, `SentAgainOnlyIfOvertaken`, `SessionsHeal` |
| `conn_tokens` (`ConnTokens.cfg`) | 2 connections of one address, 1 reset of the token, 1 fault, fairness of the sweep | `TypeOK`, `RegisteredUnderOwnToken`, `NotifiedOnce`, `DeadIsUnregistered` |
| `conn_addresses` (`ConnAddresses.cfg`) | 2 connections from 2 addresses, 2 failures per cooldown, 2 faults | `GoneIsOffline`, `AgentGetsIn` |
| `node_probes` (`NodeProbes.cfg`) | 1 followed node, `FailK` 2, 4 events | `TypeOK`, `RecoveryFollowsOutage`, `DownAfterFailures`, `OutageIsTold`, `LeftoversGo` |

One more run shows that a sentence in the source is not what the code does; TLC is
expected to find the property violated.

| Run | Instance | Violated |
|---|---|---|
| `acct_resolution` (`AcctResolution.cfg`) | 2 clients of one user, 1 byte each, orderly reports | `SumIsCumulative`: the sum of the counters of a user's clients is cumulative |

Why these bounds are enough for the cases of interest:

- a slot is contended with one slot and two goroutines, a mark overwritten with two
  goroutines on one provider; two contents distinguish old from new;
- a row is judged wrongly by a restart between two reports, hence two starts, and by a
  second one after a failed write, hence three; a byte before a restart and one after it
  are two; one removal and addition makes a counter fall without a restart; two
  reports are enough for every overlap of one read and one write. `LongOrMixed` keeps
  the two questions of `acct_clients` apart: restarts, removals and the second byte
  happen only while reports are orderly and no price changes and no cycle is reset, the
  mixed cases with one byte and the first xray; the client is resolved to nobody, as the
  rows of users are the subject of `acct_users`;
- provisioning has three timers and a request on one binding, the smallest instance in
  which each pair of them meets; two requests let one package replace another, or a
  user be deleted while the first request is served; with two credentials two processes
  can disagree. `prov_live` has one request fewer because liveness is costly; its one
  fault is a lost agent, a lost reply or a restart of the panel;
- two kinds of calls meet on one connection; a channel of one place fills; one lost
  connection gives every late or missing reply; with one address each of the two paths
  is taken;
- three results and a window of two let the oldest be overtaken; four sessions are
  more than one crossing of two key exchanges makes;
- two connections are what replacement needs; one token change meets every step of
  both (requests that change it and overlap, which the model has, are left to the
  theorem `OwnToken`: with the two connections they are too many states to check beside
  liveness); two addresses dispute a token;
- an outage takes two failed probes; failure, recovery, restart and a request make four
  events.

Reductions. The constraints `WhileOrderly` and `WhileSteady` stop at states of which the
properties of those runs say nothing, and which are never left again. The
views drop histories that the properties of the run do not mention and the table that
they are not about: no action lets one table influence the other. Symmetry is used in
safety runs only. `CHECK_DEADLOCK FALSE` stands where the bounds let all calls return
and everything come to rest.

Fairness, and why the code justifies it:

- `ProxyProviderSync`: goroutines that can run do run, fetches end by the client's
  time-out, clocks advance (weak). Go's `select` picks at random among the ready
  cases, so a case that is ready again and again is taken: strong fairness of scanning,
  stopping and a reload whose query succeeds. A fetch, a query or a write may always
  fail.
- `Provisioning`: the three timers never stop, requests run to their end, an agent comes
  back (there are finitely many faults), refreshes that were started run. Nothing is
  assumed about administrators.
- `AgentCalls`: time-outs fire and HTTP requests of commands end, by the 30 seconds of
  their client, and the read loop runs. No frame is promised to arrive, and nothing is
  assumed of streams.
- `AgentConnections` (`conn_tokens` assumes only the first three, `SweepFairness`): pings
  age, requests go on and the sweep runs; goroutines run, rows age, locks and cooldowns end, the
  agent dials again and again, and whoever manages it gives it the token it lacks
  (`Reinstall`). Messages are not promised to be delivered.
- `NodeProbes`: the ticker and its goroutines run, a manual test ends, the shutdown
  ends (within 10 seconds in the code) and the panel is started again, a toggle
  request reaches `Forget`.
- `TrafficAccounting` and `SecureChannel` state safety only.

Every property has a mutant: a faulty form of one definition (named beside it in the
module) under which TLC finds the property violated.

### Where code and comments disagree

Met while modelling; the models follow the code. The first is the violated run above; of the
next four each model shows the case, and the property that comes near says where it stops.

- `collector.go:414`: the sum of the counters of a user's clients is said to be cumulative.
  A client that one report leaves out, because a query of `ResolveUsernameByEmail` failed or
  its rows were missing for a moment, lowers `last`, and the next report charges its
  whole counter again. `UserNeverOverbilled` therefore ends where a client comes back to a
  sum that it had left (`steady`).
- `orphan_xray_client_cleaner.go:14`: clients without an owner are said to be removed from
  the inbounds. Only `settings.clients` is read (line 156); clients of anytls, snell, socks
  and http, which `inboundCredentialKey` puts under `users` and `accounts`, stay.
  `DeletedIsCleaned` speaks of `UnderClients` only.
- `ws_rpc.go:14`: a panic at the agent is said to make the caller fall back to HTTP. The
  code (line 149) and another comment (line 93) make it final, as
  `AnsweredIsNotRunAgain` states.
- `remote_ws.go:335` and `1788`: the map is said to lead from a token to its connection. Two
  resets that read the same token both rename the connection that they found under it,
  and it stays under the new token of one with that of the other.
  `RegisteredUnderOwnToken` therefore excepts resets that replaced another token than
  they had read (`crossed`).
- `node_probe_store.go:42` and `94`: a mark is said to stand for a notice that was sent.
  During a shutdown the notice is dropped and marked all the same, so that a recovery
  without an outage can follow the restart, and an outage that the store takes for told
  is not told. A crash that loses the mark of a recovery leaves the same state.
  `RecoveryFollowsOutage` and `DownAfterFailures` make that exception by name
  (`rolled`), `OutageIsTold` by what the store remembers.
- `proxy_provider_cache.go`: `running` is meant to hold the ids being refreshed, but a
  reload unmarks a provider whose refresh is still running. A reload cleans only ids
  that are in its state; an entry stored by a request stays.
- Boot time and counters travel apart (`remote_ws.go`, heartbeats and traffic
  reports): a report of the new xray can precede its boot time, and the next one is
  counted as a restart again. Overlapping reports of one server can count a byte twice.
  `NeverOverbilled` therefore speaks of orderly reports only.
- `collector.go`: a failed load of the attributor is said to cost at most the price of
  one report. It also clears the attribution, and all billed traffic of the cycle
  disappears until the next report. A cycle reset skips rows attributed to nobody;
  when they are attributed again, the new cycle is billed for the old one. The sum over
  a user's clients drops when one is removed, and the difference is taken as 0.
- `traffic_limit_enforcer.go` says that the result of a removal for being over the
  limit may be ignored. A user is flagged although the agent was away, and is not looked
  at again: the client stays (no liveness property of "flagged and still has a client"
  holds).
- `node_probe_scheduler.go`: `probeOne` is said to fall back on the panel when the tester
  does not answer. A silent tester uses up the time limit of both, and a healthy
  node is reported as down.

## 5. Proofs

Each theorem follows the same argument: an inductive invariant, that the initial states
satisfy it, that every action keeps it (one step per action), and that it implies the
property. What the invariants add to the properties is why they are needed.

`ProxyProviderSyncProofs` (any providers, goroutines, slots and cap; `Workers` finite,
`WorkerLimit` and `RetryMax` positive): `TypeCorrect`, `SlotsCorrect`,
`MarksNeverLeak`, `StopCorrect`, `WorkerEntriesTracked`. `IInv` adds that goroutines and
handlers in flight have a job, that `slots` and `wg` are the numbers of goroutines in
the corresponding places, and that jobs are pending only while launching; the types
alone do not exclude a release without a slot.

`TrafficAccountingProofs` (any users, multipliers, overlapping reports and any finite set
of clients, `EmailsAssumption`: the rows of one server): `TypeCorrect`: no count is ever negative; `TInv` adds that a report handles only clients
it has counters of. `HistoryKept`: a row that does not exist is empty (`RowsOK`), and a
row found by a goroutine is still there when it writes (`FoundRows`).

It also holds what the next module needs: what each action changes, and the laws of the
sum of a function over a finite set. The community module defines that sum by a
recursive function, and the library's induction theorems cannot be instantiated here;
the lemmas therefore argue about a least counterexample, which a set of subsets of a
finite set has: adding an element adds its value, a change at one element changes the
sum by as much, a smaller function has a smaller sum.

`TrafficAccountingBillingProofs`, three theorems about orderly reports:

- `NoByteTwice`, the property `NeverOverbilled`. `BInv` has an unconditional part
  (`Lived`: no row and no report counts a life of a counter that xray has not begun)
  and one that holds while reports are orderly (`Billed`), which keeps an account of
  every client: what is charged, plus what the report in progress may still add
  (`Due`), plus what later ones may add (`Later`, `Unseen`), is at most what was
  carried. A report must be alone (`Single`), replace what it has read (`OldTick`), and
  the cached boot time must be neither behind the rows nor ahead of the report
  (`DetectorOK`, `DetectorTick`), or a counter that was counted would be taken whole,
  as after a restart.
- `EachByteOnce` (`CountedOnce`), from `CInv`: a client's lives are counted in order
  (`CountsTick`), so that a row which counts the life it was made in has never left it,
  and then holds exactly the difference since its first report (`CountsRow`).
- `NoUserByteTwice` (`UserNeverOverbilled`), from `UInv` and `VInv`, for orderly reports until
  a client comes back to a sum that it had left. `UInv` is the account of `BInv` for the sum
  of the clients that were last added to a user (`Current`), against what all clients ever
  added to it have carried (`Used`). What the row holds, plus what the next report would
  add, is at most that (`UserPaid`). While a report is in progress nobody knows which of its
  counters (`Waiting`) the sum will get; `UserDue` therefore says it for every choice of
  them: what the report will have added up (`Taken`) and what the counters that are then in
  the sum have gained by the next report (`Left`) cost no more than was carried (`Bill`). A
  client that leaves takes its counter out, and a smaller sum costs no more
  (`DeltaLess`, `LessDue`); a client that joins was never in the sum, so what it brings is at
  most what it has carried itself, which `VInv` knows (`SampleOK`).

`ProvisioningProofs` (any users, packages, inbounds, credentials, requests and faults):
`TypeCorrect`, `ExpirySafe` (`ExpiryForgetsNothing`), `StableCredential`. `Types` knows
for every stage what an item may carry; `OnlyRemoves` says that the items of the
enforcer during an expiry are removals; `Visit` follows the visit: while no removal
failed, a client on an agent that a row stands for and that nobody else touched still
has its item of removal, and no such client is left when the rows are forgotten.

`SecureChannelProofs` (any width of the window and number of sessions, calls, repeats,
losses): `TypeCorrect`, `WindowMeansTheSet`, `ExecutedOnce` (`OncePerEnvelope`),
`ResentOnlyIfOvertaken`, `ChannelHeals` (`SessionsHeal`). Two lemmas are about the
window alone: `Accepts` refuses every number of the set and accepts every other one
that it reaches, and `Mark` adds exactly one. `IInv` adds that numbers passed were
sealed (`Counted`), that no two envelopes under way have one number (`Distinct`), and
per call that its number is new until it was opened.

`AgentConnectionsProofs` (any connections, addresses, faults, overlapping resets of the token):
`TypeCorrect`, `OwnToken` (`RegisteredUnderOwnToken`), `OneNotice` (`NotifiedOnce`).
Beside the types: a connection past its authentication has a token, and until it is in
the map that is the one it authenticated with (`HasToken`); the map and the requests that
change a token name only connections that were stored (`Kept`). Until a reset replaces
another token than it had read (`Tied`), the map has every connection under the token it
carries (`MapTied`), each request that wrote gave the row the token after the one it had
read and no other request has the same, and the connection it found carries the old one
until it was sent and the new one from then on (`PushTied`): two requests that overlap then
never rename one connection from one token.

`NodeProbesProofs` (any nodes, thresholds and events): `TypeCorrect`, `RecoverySafe`
(`RecoveryFollowsOutage`), `OutageSafe` (`DownAfterFailures`). `StoreAgrees` says that a
node the store remembers as announced was told to be down and that no more failures
are counted than there were, except between a notice and its mark and for nodes of which
a restart or a shutdown lost something (`rolled`);
`SeenAgrees` says the same of the copy a probe decides on, which a `Forget` can leave
without its entry in the store.

`AgentCallsProofs` (any commands, streams, probes, addresses, capacities, losses): five
theorems from six invariants, of which the last four rest on the first two.

- `TypeCorrect`; `TInv` adds that a call over HTTP has an address left, and that only a
  probe changes its kind.
- `FInv` ties requests to answers: a goroutine waits for one id that the table maps to
  it (`WaitOK`, `PendingOK`, `OneEach`); until a request is executed no frame has its id
  (`Unseen`); what waits in a channel or in the hand of the read loop answers the request
  that its goroutine waits for, and what it says was said by an execution of that call
  (`HeldOK`, `WireOK`, `JobsOK`).
- `AnsweredOnce` (`AnsweredIsNotRunAgain`), from `HInv`: once a frame of a call was
  received, no request of it is on its way to the agent and the goroutine is not going
  to HTTP.
- `StreamsInOrder` (`ProgressIsOneRun`), from `SInv`: what the browser saw, what is in the
  channel, in the hand of the read loop, on the wire, and what the handler has still to
  write are five stretches of one execution, each before the next (`Pipe`).
- `ContractKept`: the initial states of `AgentCalls` are initial states of `CallContract`
  and every step is one of its steps or none. `RInv` is the bound on executions: those
  that happened, the requests on their way and those that the goroutine may still make
  are at most `2 + 2 * Addresses`.
- `RoomForAnswers`, from `AInv`: when the read loop holds an answer, the channel it goes
  to is empty, so that none is lost for want of room and the send that blocks never
  waits. A request has at most one answer, which is at the agent, on the wire or with
  the goroutine, and in one place only. No run checks this one.

Only model-checked: the properties under fairness, about which the prover does not
reason. They are the liveness properties of section 4 and, of the refinement
`KeepsContract`, the fairness of `Return` (commands and probes come back): its safety part
is `ContractKept`. Every invariant and every action property that a passing run checks
is the subject of a theorem.

## 6. Not modelled

The map covers about 7 % of the lines. Most of the other 93 % is one of four things, and
none has order, overlap or failure to check: handlers that read or write one row and
answer in JSON (`remote_manage.go`, `subscription.go`, `child_manage.go`,
`traffic_summary.go`), the SQL of `storage/traffic.go` (tables, columns, queries),
transformation of YAML and text (templates, subscriptions, rules, external
synchronisation), and calls of external services (certificates, DNS, speed tests,
download of binaries). A module about these would repeat assignments or spell texts.

By component:

- sessions and second factor, limiters and bans, temporary subscriptions: open, step 8
  of the plan. Their hazards are in `PROJECT.json` (a rename that the persisted
  session does not see, a ban and an unban that cross), and login attempts are checked
  and recorded in two steps.
- routed outbounds, tunnels and chains: open, step 11 of the plan. Several remote edits in one
  request, with a rollback that is best effort; routing rules are removed by their
  position in a list read before, and a change of the whole list replaces what another
  request added meanwhile.
- scheduled tasks and their records: independent timers; the recorder's throttle has one
  lock.
- license: empty functions at this commit. Event bus: direct calls. Tool server:
  translates to handlers. Child agent: the environment of `TrafficAccounting`. Backup,
  self-update, migration: file operations and a process restart.

Inside the modelled components: the tables of inbounds and outbounds (the same upsert),
network-card totals, daily snapshots, speeds and the switch between push and pull of
the collector; downloads, filters and files of the provider cache; the races of
`UpdateRemoteServerHeartbeat` with edits of the same row in the web interface; and
whatever section 3 names.
