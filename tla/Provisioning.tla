----------------------------- MODULE Provisioning -----------------------------
(* Who has a client on which inbound of the agents: what packages grant        *)
(* (packages.go), what the limit enforcer takes away and gives back            *)
(* (traffic_limit_enforcer.go), what the daily reconciler delivers again       *)
(* (inbound_client_reconciler.go) and the daily cleaner removes                *)
(* (orphan_xray_client_cleaner.go).  They share the tables users and           *)
(* user_inbound_configs, the snapshots of the configuration of the agents, and *)
(* the agents themselves, and nothing orders their steps: every write of the   *)
(* database, with the reads that the code makes for it under the same lock or  *)
(* just before, and every call of an agent is a step of its own.               *)
EXTENDS Naturals, FiniteSets

CONSTANTS
    Users, Packages, Inbounds,
    UnderClients, \* the inbounds that list their clients under settings.clients;
                  \* others have them under settings.users or settings.accounts
    Creds,        \* the UUIDs that generateCredential can draw
    Requests,     \* the HTTP requests served at the same time
    Limits,       \* traffic limits; 0 is no limit
    MaxUsed,      \* bound on the traffic of a cycle
    MaxRequests,  \* bound on what administrators and the calendar do
    MaxFaults,    \* bound on agents lost, replies lost, restarts of the panel
    None

ASSUME ProvisioningAssumption ==
    /\ 0 \in Limits /\ Limits \subseteq Nat
    /\ UnderClients \subseteq Inbounds
    /\ {MaxUsed, MaxRequests, MaxFaults} \subseteq Nat
    /\ None \notin Packages \cup Creds \cup Users
    /\ Requests \cap {"enforcer", "reconciler", "cleaner"} = {}

VARIABLES
    account,   \* table users: package, end date passed, limit, is_over_limit
    used,      \* what GetUserBillableTraffic returns
    due,       \* users whose reset_day has come this month, last_reset_at older
    nodes,     \* the inbounds of the nodes of a package
    row,       \* user_inbound_configs: the credential of (user, inbound)
    client,    \* on the agent: the clients of an inbound
    snap,      \* the snapshot of it that the panel stores, and its InboundCache
    refresh,   \* inbounds whose refreshXraySnapshot goroutine is to run
    online,    \* can the agent of the inbound be reached
    enf,       \* CheckAll
    rec,       \* runOnce of the reconciler
    req,       \* the requests being served
    work,      \* what each of them still has to do, one item per inbound
    requests, faults,   \* counters of the bounds
    touched    \* history: bindings another process wrote or delivered during
               \* the present visit of the enforcer

db      == <<account, used, due, nodes>>
agents  == <<client, snap, refresh, online>>
threads == <<enf, rec, req>>
vars    == <<db, row, agents, threads, work, requests, faults, touched>>

Procs == {"enforcer", "reconciler", "cleaner"} \cup Requests

NoAccount == [exists |-> FALSE, pkg |-> None, ended |-> FALSE, limit |-> 0, flag |-> FALSE]
Bound(u)  == account[u].pkg # None
Over(u, limit) == limit > 0 /\ used[u] >= limit

NoVisit   == [pc |-> "idle", listed |-> {}, user |-> None, limit |-> 0, why |-> "none",
              safe |-> TRUE]
NoRun     == [pc |-> "idle", eligible |-> {}]
NoRequest == [pc |-> "idle", user |-> None, pkg |-> None, prev |-> None]

\* A user has no package, or had one provisioned everywhere.
Init ==
    /\ nodes \in [Packages -> SUBSET Inbounds]
    /\ \E pkg \in [Users -> Packages \cup {None}], limit \in Limits \ {0},
          cred \in [Users -> Creds] :
          LET Provisioned(u, i) == pkg[u] # None /\ i \in nodes[pkg[u]] IN
          /\ account = [u \in Users |->
                 [NoAccount EXCEPT !.exists = TRUE, !.pkg = pkg[u],
                                   !.limit = IF pkg[u] = None THEN 0 ELSE limit]]
          /\ row = [u \in Users |->
                 [i \in Inbounds |-> IF Provisioned(u, i) THEN cred[u] ELSE None]]
          /\ client = [i \in Inbounds |->
                 {<<u, cred[u]>> : u \in {v \in Users : Provisioned(v, i)}}]
    /\ snap = client
    /\ used = [u \in Users |-> 0]
    /\ due = {}
    /\ refresh = {}
    /\ online = [i \in Inbounds |-> TRUE]
    /\ enf = NoVisit
    /\ rec = NoRun
    /\ req = [r \in Requests |-> NoRequest]
    /\ work = [p \in Procs |-> {}]
    /\ requests = 0
    /\ faults = 0
    /\ touched = {}

-----------------------------------------------------------------------------
(* Clients, credentials and calls of agents.                                 *)

Has(clients, u)      == \E c \in Creds : <<u, c>> \in clients
WithClient(i, u, c)  == client[i] \cup {<<u, c>>}
WithoutClient(i, u, c) == client[i] \ {<<u, c>>}
WithoutIdOf(i, u)    == client[i] \ {<<u, None>>}   \* mutant: no id is sent
WithoutEmail(i, u)   == {x \in client[i] : x[1] # u}

Fault == faults < MaxFaults /\ faults' = faults + 1

\* forwardToRemoteServer with a call that makes the clients of i be new.  It
\* fails if the agent is away, or if its reply is lost; only a call that
\* succeeded has the snapshot fetched again.
Call(i, new, ok) ==
    \/ /\ ok /\ online[i]
       /\ client' = [client EXCEPT ![i] = new]
       /\ refresh' = refresh \cup {i}
       /\ UNCHANGED faults
    \/ /\ ~ok /\ ~online[i]
       /\ UNCHANGED <<client, refresh, faults>>
    \/ /\ ~ok /\ online[i] /\ Fault
       /\ client' = [client EXCEPT ![i] = new]
       /\ UNCHANGED refresh

Item(u, i, c, stage) == [user |-> u, inbound |-> i, cred |-> c, stage |-> stage]
\* mutant: also inbounds that have no row
AllItems(u, stage) == {Item(u, i, row[u][i], stage) : i \in Inbounds}
RowItems(u, stage) ==
    {Item(u, i, row[u][i], stage) : i \in {j \in Inbounds : row[u][j] # None}}

\* A credential no one knows: uuid.New.
Fresh(u, i) ==
    {c \in Creds : /\ <<u, c>> \notin client[i] \cup snap[i]
                   /\ \A p \in Procs : \A x \in work[p] : x.user = u /\ x.inbound = i => x.cred # c}

\* getOrCreateInboundCredential under its lock: the row's credential, else that
\* of a client with the same email in the settings shown, else a new one.
Credentials(u, i, settings) ==
    IF row[u][i] # None THEN {row[u][i]}
    ELSE IF Has(settings, u) THEN {c \in Creds : <<u, c>> \in settings}
    ELSE Fresh(u, i)

\* mutant: ON CONFLICT DO UPDATE
UpsertRow(u, i, c) == row' = [row EXCEPT ![u][i] = c]

\* SaveUserInboundConfig: ON CONFLICT DO NOTHING.
SaveRow(u, i, c) ==
    row' = IF row[u][i] = None THEN [row EXCEPT ![u][i] = c] ELSE row

Touch(p, x) ==
    touched' = IF p # "enforcer" /\ x.user = enf.user /\ <<row', client'>> # <<row, client>>
               THEN touched \cup {x.inbound} ELSE touched

Replace(p, x, new) == work' = [work EXCEPT ![p] = (@ \ {x}) \cup new]

-----------------------------------------------------------------------------
(* The items: what AssignAndProvision, syncInboundUsersAfterNodeChange, the    *)
(* enforcer, the reconciler and the cleaner do to one inbound.               *)

\* collectInboundClientAddItem.  A miss of the cache goes to the fall-back; a
\* hit is skipped if both sides have the client already.
Collect(p, x) ==
    /\ x.stage = "collect"
    /\ UNCHANGED <<db, agents, threads, requests, faults>>
    /\ LET u == x.user  i == x.inbound IN
       \/ /\ Replace(p, x, {Item(u, i, None, "get")})
          /\ UNCHANGED <<row, touched>>
       \/ /\ row[u][i] # None /\ Has(snap[i], u)
          /\ Replace(p, x, {})
          /\ UNCHANGED <<row, touched>>
       \/ /\ ~(row[u][i] # None /\ Has(snap[i], u))
          /\ \E c \in Credentials(u, i, snap[i]) :
                /\ SaveRow(u, i, c)
                /\ Replace(p, x, {Item(u, i, c, "batch")})
          /\ Touch(p, x)

\* applyInboundClientsBatchToAgent, or the fall-back behind it
Batch(p, x) ==
    /\ x.stage = "batch"
    /\ \E ok \in BOOLEAN :
          /\ Call(x.inbound, WithClient(x.inbound, x.user, x.cred), ok)
          /\ Replace(p, x, {IF ok THEN Item(x.user, x.inbound, x.cred, "save")
                                  ELSE Item(x.user, x.inbound, None, "get")})
    /\ UNCHANGED <<db, row, snap, online, threads, requests>>
    /\ Touch(p, x)

\* The agent answers err: for this item; nothing is saved, nothing falls back.
BatchRefused(p, x) ==
    /\ x.stage = "batch" /\ online[x.inbound] /\ Fault
    /\ refresh' = refresh \cup {x.inbound}
    /\ Replace(p, x, {})
    /\ UNCHANGED <<db, row, client, snap, online, threads, requests, touched>>

Save(p, x) ==
    /\ x.stage = "save"
    /\ SaveRow(x.user, x.inbound, x.cred)
    /\ Replace(p, x, {})
    /\ UNCHANGED <<db, agents, threads, requests, faults>>
    /\ Touch(p, x)

\* addUserToInbound: GET the inbounds, with the client of the user if any.
Get(p, x) ==
    /\ x.stage = "get"
    /\ LET u == x.user  i == x.inbound IN
       \/ /\ online[i]
          /\ \E c \in IF Has(client[i], u) THEN {d \in Creds : <<u, d>> \in client[i]} ELSE {None} :
                Replace(p, x, {Item(u, i, c, "create")})
          /\ UNCHANGED faults
       \/ /\ online[i] => Fault
          /\ ~online[i] => UNCHANGED faults
          /\ Replace(p, x, {})
    /\ UNCHANGED <<db, row, agents, threads, requests, touched>>

\* addUserToInbound: the credential, by the settings that GET returned
Create(p, x) ==
    /\ x.stage = "create"
    /\ \E c \in Credentials(x.user, x.inbound, {<<x.user, x.cred>>}) :
          /\ SaveRow(x.user, x.inbound, c)
          /\ Replace(p, x, {Item(x.user, x.inbound, c, "post")})
    /\ UNCHANGED <<db, agents, threads, requests, faults>>
    /\ Touch(p, x)

\* addUserToInbound: add-client, which the agent ignores if it has the id.
Post(p, x) ==
    /\ x.stage = "post"
    /\ UNCHANGED <<db, row, snap, online, threads, requests>>
    /\ \E ok \in BOOLEAN : Call(x.inbound, WithClient(x.inbound, x.user, x.cred), ok)
    /\ Replace(p, x, {})
    /\ Touch(p, x)

\* removeUserFromInbound by the id that the row had when it was read.  The
\* enforcer remembers a failure; the handlers log it.
Remove(p, x) ==
    /\ x.stage = "remove"
    /\ \E ok \in BOOLEAN :
          /\ Call(x.inbound, WithoutClient(x.inbound, x.user, x.cred), ok)
          /\ enf' = IF p = "enforcer" /\ ~ok THEN [enf EXCEPT !.safe = FALSE] ELSE enf
    /\ Replace(p, x, {})
    /\ UNCHANGED <<db, row, snap, online, rec, req, requests, touched>>

\* syncInboundUsersAfterNodeChange: a removed node.  The row goes only if the
\* agent has confirmed.
RemoveNode(p, x) ==
    /\ x.stage = "removeNode"
    /\ \E ok \in BOOLEAN :
          /\ Call(x.inbound, WithoutClient(x.inbound, x.user, x.cred), ok)
          /\ Replace(p, x, IF ok THEN {[x EXCEPT !.stage = "drop"]} ELSE {})
    /\ UNCHANGED <<db, row, snap, online, threads, requests, touched>>

DropRow(p, x) ==
    /\ x.stage = "drop"
    /\ row' = [row EXCEPT ![x.user][x.inbound] = None]
    /\ Replace(p, x, {})
    /\ UNCHANGED <<db, agents, threads, requests, faults, touched>>

\* removeClientFromInbound of the cleaner: by email.
Purge(p, x) ==
    /\ x.stage = "purge"
    /\ \E ok \in BOOLEAN : Call(x.inbound, WithoutEmail(x.inbound, x.user), ok)
    /\ Replace(p, x, {})
    /\ UNCHANGED <<db, row, snap, online, threads, requests, touched>>

WorkOn(p) ==
    \E x \in work[p] :
        \/ Collect(p, x) \/ Batch(p, x) \/ BatchRefused(p, x) \/ Save(p, x)
        \/ Get(p, x) \/ Create(p, x) \/ Post(p, x)
        \/ Remove(p, x) \/ RemoveNode(p, x) \/ DropRow(p, x) \/ Purge(p, x)

-----------------------------------------------------------------------------
(* TrafficLimitEnforcer.CheckAll                                             *)

Listed(u) == [user |-> u, pkg |-> account[u].pkg, ended |-> account[u].ended,
              limit |-> account[u].limit]

\* ListUsersWithPackage
EnforcerLists ==
    /\ enf.pc = "idle"
    /\ enf' = [NoVisit EXCEPT !.pc = "next", !.listed = {Listed(u) : u \in {v \in Users : Bound(v)}}]
    /\ UNCHANGED <<db, row, agents, rec, req, work, requests, faults, touched>>

EnforcerEnds ==
    /\ enf.pc = "next" /\ enf.listed = {}
    /\ enf' = NoVisit
    /\ touched' = {}
    /\ UNCHANGED <<db, row, agents, rec, req, work, requests, faults>>

\* The end date is that of the list, and so is a limit of the user's own; a
\* limit of the package is read now.
EnforcerVisits(l) ==
    /\ enf.pc = "next" /\ l \in enf.listed
    /\ \E limit \in {l.limit} \cup {account[u].limit : u \in {v \in {l.user} : account[v].pkg = l.pkg}} :
          enf' = [enf EXCEPT !.listed = @ \ {l}, !.user = l.user, !.limit = limit, !.safe = TRUE,
                             !.pc = IF l.ended THEN "work" ELSE "reset",
                             !.why = IF l.ended THEN "expire" ELSE "none"]
    /\ work' = [work EXCEPT !["enforcer"] = IF l.ended THEN RowItems(l.user, "remove") ELSE {}]
    /\ touched' = {}
    /\ UNCHANGED <<db, row, agents, rec, req, requests, faults>>

\* The monthly reset.  A failed write of last_reset_at is only logged.
EnforcerResets ==
    /\ enf.pc = "reset"
    /\ LET u == enf.user IN
       IF u \notin due
       THEN /\ enf' = [enf EXCEPT !.pc = "check"]
            /\ UNCHANGED <<used, due, work, faults>>
       ELSE /\ used' = [used EXCEPT ![u] = 0]
            /\ \/ due' = due \ {u} /\ UNCHANGED faults
               \/ due' = due /\ Fault
            /\ IF account[u].flag
               THEN /\ enf' = [enf EXCEPT !.pc = "work", !.why = "giveBack"]
                    /\ work' = [work EXCEPT !["enforcer"] = RowItems(u, "get")]
               ELSE /\ enf' = [enf EXCEPT !.pc = "check"]
                    /\ UNCHANGED work
    /\ UNCHANGED <<account, nodes, row, agents, rec, req, requests, touched>>

\* Nothing to do: the flag says what the traffic says.
NeverRestored(over, flag) == ~over \/ flag   \* mutant: only cuts off
Settled(over, flag)       == over = flag

\* The traffic of the user against the limit
EnforcerChecks ==
    /\ enf.pc = "check"
    /\ LET u == enf.user
           over == Over(u, enf.limit)
       IN IF enf.limit = 0 \/ Settled(over, account[u].flag)
          THEN enf' = [enf EXCEPT !.pc = "next"] /\ UNCHANGED work
          ELSE /\ enf' = [enf EXCEPT !.pc = "work", !.why = IF over THEN "cut" ELSE "restore"]
               /\ work' = [work EXCEPT !["enforcer"] =
                              RowItems(u, IF over THEN "remove" ELSE "get")]
    /\ UNCHANGED <<db, row, agents, rec, req, requests, faults, touched>>

\* UpdateUserOverLimit
SetFlag(u, flag) ==
    account' = IF account[u].exists THEN [account EXCEPT ![u].flag = flag] ELSE account

\* The rows and the package go only if every client is gone.
ForgetAnyway == "forget"                                                  \* mutant
ForgetNoRows == IF RowItems(enf.user, "remove") = {} THEN "forget" ELSE "next"  \* mutant
AfterExpiry  == IF enf.safe THEN "forget" ELSE "next"

\* Behind the loops over the inbounds
EnforcerConcludes ==
    /\ enf.pc = "work" /\ work["enforcer"] = {}
    /\ enf' = [enf EXCEPT !.pc =
                  CASE enf.why = "expire" -> AfterExpiry
                    [] enf.why = "giveBack" -> "check"
                    [] OTHER -> "next"]
    /\ IF enf.why = "expire" THEN UNCHANGED account ELSE SetFlag(enf.user, enf.why = "cut")
    /\ UNCHANGED <<used, due, nodes, row, agents, rec, req, work, requests, faults, touched>>

\* DeleteUserInboundConfigs, RemovePackageFromUser: also of the handlers
DeleteRows(u) == row' = [row EXCEPT ![u] = [i \in Inbounds |-> None]]
RemovePackage(u) ==
    /\ account' = [account EXCEPT ![u].pkg = None, ![u].ended = FALSE, ![u].limit = 0]
    /\ due' = due \ {u}

EnforcerForgets ==
    /\ enf.pc = "forget"
    /\ DeleteRows(enf.user)
    /\ enf' = [enf EXCEPT !.pc = "unbind"]
    /\ UNCHANGED <<db, agents, rec, req, work, requests, faults, touched>>

EnforcerUnbinds ==
    /\ enf.pc = "unbind"
    /\ RemovePackage(enf.user)
    /\ enf' = [enf EXCEPT !.pc = "next"]
    /\ UNCHANGED <<used, nodes, row, agents, rec, req, work, requests, faults, touched>>

Enforcer ==
    \/ EnforcerLists \/ EnforcerEnds \/ (\E l \in enf.listed : EnforcerVisits(l))
    \/ EnforcerResets \/ EnforcerChecks \/ EnforcerConcludes
    \/ EnforcerForgets \/ EnforcerUnbinds \/ WorkOn("enforcer")

-----------------------------------------------------------------------------
(* The daily tasks                                                           *)

\* buildEligibleUsers
Eligible(u) == Bound(u) /\ ~account[u].ended /\ ~account[u].flag

ReconcilerSelects ==
    /\ rec.pc = "idle"
    /\ \E u \in Users : Eligible(u)
    /\ rec' = [pc |-> "compare", eligible |-> {u \in Users : Eligible(u)}]
    /\ UNCHANGED <<db, row, agents, enf, req, work, requests, faults, touched>>

\* The snapshot has no client with the email.
NoRow(x)  == row[x.user][x.inbound] = None   \* mutant: asks the table
Absent(x) == ~Has(snap[x.inbound], x.user)

\* findMissingInboundClients over all rows and all snapshots
ReconcilerCompares ==
    /\ rec.pc = "compare"
    /\ work' = [work EXCEPT !["reconciler"] =
           {x \in UNION {RowItems(u, "batch") : u \in rec.eligible} : Absent(x)}]
    /\ rec' = [pc |-> "work", eligible |-> {}]
    /\ UNCHANGED <<db, row, agents, enf, req, requests, faults, touched>>

ReconcilerEnds ==
    /\ rec.pc = "work" /\ work["reconciler"] = {}
    /\ rec' = NoRun
    /\ UNCHANGED <<db, row, agents, enf, req, work, requests, faults, touched>>

Reconciler == ReconcilerSelects \/ ReconcilerCompares \/ ReconcilerEnds \/ WorkOn("reconciler")

\* runOnce of OrphanXrayClientCleaner: clients of nobody in the snapshots, as
\* far as they are listed under settings.clients.
CleanerScans ==
    /\ work["cleaner"] = {}
    /\ work' = [work EXCEPT !["cleaner"] =
           {x \in {Item(u, i, None, "purge") : u \in Users, i \in UnderClients} :
                ~account[x.user].exists /\ Has(snap[x.inbound], x.user)}]
    /\ work'["cleaner"] # {}
    /\ UNCHANGED <<db, row, agents, threads, requests, faults, touched>>

Cleaner == CleanerScans \/ WorkOn("cleaner")

-----------------------------------------------------------------------------
(* The handlers.  Each request is one of at most MaxRequests.                *)

Ask == requests < MaxRequests /\ requests' = requests + 1

\* PackageAssignHandler and UserExtendHandler.  Extending first reads the
\* package that it is to keep; both then call AssignAndProvision.
AssignAsked(r, u, p) ==
    /\ req[r].pc = "idle" /\ Ask
    /\ req' = [req EXCEPT ![r] = [pc |-> "prev", user |-> u, pkg |-> p, prev |-> None]]
    /\ UNCHANGED <<db, row, agents, enf, rec, work, faults, touched>>

ExtendAsked(r, u) == Bound(u) /\ AssignAsked(r, u, account[u].pkg)

ReadPrevious(r) ==
    /\ req[r].pc = "prev"
    /\ req' = [req EXCEPT ![r].pc = "bind", ![r].prev = account[req[r].user].pkg]
    /\ UNCHANGED <<db, row, agents, enf, rec, work, requests, faults, touched>>

\* AssignPackageToUser.  Another package than the table has drops the limit of
\* the user's own.
Bind(r) ==
    /\ req[r].pc = "bind"
    /\ LET u == req[r].user  p == req[r].pkg IN
       IF ~account[u].exists
       THEN req' = [req EXCEPT ![r] = NoRequest] /\ UNCHANGED <<account, work>>
       ELSE /\ \E limit \in (IF account[u].pkg = p THEN {account[u].limit} ELSE Limits \ {0}) :
                  account' = [account EXCEPT ![u].pkg = p, ![u].ended = FALSE, ![u].limit = limit]
            /\ IF req[r].prev = p
               THEN req' = [req EXCEPT ![r] = NoRequest] /\ UNCHANGED work
               ELSE /\ req' = [req EXCEPT ![r].pc = "work"]
                    /\ work' = [work EXCEPT ![r] = {Item(u, i, None, "collect") : i \in nodes[p]}]
    /\ UNCHANGED <<used, due, nodes, row, agents, enf, rec, requests, faults, touched>>

\* The end of AssignAndProvision and of syncInboundUsersAfterNodeChange
Respond(r) ==
    /\ req[r].pc = "work" /\ work[r] = {}
    /\ req' = [req EXCEPT ![r] = NoRequest]
    /\ UNCHANGED <<db, row, agents, enf, rec, work, requests, faults, touched>>

\* PackageUnassignHandler, and unbindUserPackage of PackageDeleteHandler
UnassignAsked(r, u) ==
    /\ req[r].pc = "idle" /\ Bound(u) /\ Ask
    /\ req' = [req EXCEPT ![r] = [NoRequest EXCEPT !.pc = "remove", !.user = u]]
    /\ work' = [work EXCEPT ![r] = RowItems(u, "remove")]
    /\ UNCHANGED <<db, row, agents, enf, rec, faults, touched>>

UnassignForgets(r) ==
    /\ req[r].pc = "remove" /\ work[r] = {}
    /\ DeleteRows(req[r].user)
    /\ req' = [req EXCEPT ![r].pc = "unbind"]
    /\ UNCHANGED <<db, agents, enf, rec, work, requests, faults, touched>>

UnassignUnbinds(r) ==
    /\ req[r].pc = "unbind"
    /\ RemovePackage(req[r].user)
    /\ req' = [req EXCEPT ![r] = NoRequest]
    /\ UNCHANGED <<used, nodes, row, agents, enf, rec, work, requests, faults, touched>>

\* PackageUpdateHandler: the nodes of a package change.
UpdateAsked(r, p, new) ==
    /\ req[r].pc = "idle" /\ new # nodes[p] /\ Ask
    /\ nodes' = [nodes EXCEPT ![p] = new]
    /\ req' = [req EXCEPT ![r] = [NoRequest EXCEPT !.pc = "work"]]
    /\ LET targets == {u \in Users : account[u].pkg = p} IN
       work' = [work EXCEPT ![r] =
           {Item(u, i, None, "collect") : u \in targets, i \in new \ nodes[p]}
           \cup {x \in UNION {RowItems(u, "removeNode") : u \in targets} :
                    x.inbound \in nodes[p] \ new}]
    /\ UNCHANGED <<account, used, due, row, agents, enf, rec, faults, touched>>

\* An administrator sets the limit of the user's own, or resets the cycle
LimitSet(u, limit) ==
    /\ Bound(u) /\ Ask
    /\ account' = [account EXCEPT ![u].limit = limit]
    /\ UNCHANGED <<used, due, nodes, row, agents, threads, work, faults, touched>>

CycleReset(u) ==
    /\ used[u] > 0 /\ Ask
    /\ used' = [used EXCEPT ![u] = 0]
    /\ UNCHANGED <<account, due, nodes, row, agents, threads, work, faults, touched>>

\* NewUserDeleteHandler: one transaction; nothing is said to the agents.
UserDeleted(u) ==
    /\ account[u].exists /\ Ask
    /\ account' = [account EXCEPT ![u] = NoAccount]
    /\ DeleteRows(u)
    /\ due' = due \ {u}
    /\ UNCHANGED <<used, nodes, agents, threads, work, faults, touched>>

Serve(r) ==
    \/ ReadPrevious(r) \/ Bind(r) \/ Respond(r)
    \/ UnassignForgets(r) \/ UnassignUnbinds(r) \/ WorkOn(r)

Administrator ==
    \/ \E r \in Requests, u \in Users :
          \/ \E p \in Packages : AssignAsked(r, u, p)
          \/ ExtendAsked(r, u) \/ UnassignAsked(r, u)
    \/ \E r \in Requests, p \in Packages, new \in SUBSET Inbounds : UpdateAsked(r, p, new)
    \/ \E u \in Users : (\E limit \in Limits : LimitSet(u, limit)) \/ CycleReset(u) \/ UserDeleted(u)

-----------------------------------------------------------------------------
(* Traffic, the calendar, agents, restarts                                   *)

Traffic(u) ==
    /\ Bound(u) /\ used[u] < MaxUsed
    /\ used' = [used EXCEPT ![u] = @ + 1]
    /\ UNCHANGED <<account, due, nodes, row, agents, threads, work, requests, faults, touched>>

EndDatePasses(u) ==
    /\ Bound(u) /\ ~account[u].ended
    /\ account' = [account EXCEPT ![u].ended = TRUE]
    /\ UNCHANGED <<used, due, nodes, row, agents, threads, work, requests, faults, touched>>

ResetDayComes(u) ==
    /\ Bound(u) /\ u \notin due /\ Ask
    /\ due' = due \cup {u}
    /\ UNCHANGED <<account, used, nodes, row, agents, threads, work, faults, touched>>

AgentLost(i) ==
    /\ online[i] /\ Fault
    /\ online' = [online EXCEPT ![i] = FALSE]
    /\ UNCHANGED <<db, row, client, snap, refresh, threads, work, requests, touched>>

\* SyncXrayConfigOnReconnect: the configuration of the agent becomes the
\* snapshot, or waits for an administrator if the server counted as off-line.
AgentBack(i) ==
    /\ ~online[i]
    /\ online' = [online EXCEPT ![i] = TRUE]
    /\ \E new \in {snap[i], client[i]} : snap' = [snap EXCEPT ![i] = new]
    /\ UNCHANGED <<db, row, client, refresh, threads, work, requests, faults, touched>>

\* refreshXraySnapshot, once: a failure is not repeated.
Refresh(i) ==
    /\ i \in refresh
    /\ refresh' = refresh \ {i}
    /\ snap' = IF online[i] THEN [snap EXCEPT ![i] = client[i]] ELSE snap
    /\ UNCHANGED <<db, row, client, online, threads, work, requests, faults, touched>>

\* The panel stops and starts again; what was being done is forgotten.
Restart ==
    /\ Fault
    /\ enf' = NoVisit /\ rec' = NoRun /\ req' = [r \in Requests |-> NoRequest]
    /\ work' = [p \in Procs |-> {}]
    /\ refresh' = {} /\ touched' = {}
    /\ UNCHANGED <<db, row, client, snap, online, requests>>

Next ==
    \/ Enforcer \/ Reconciler \/ Cleaner \/ (\E r \in Requests : Serve(r)) \/ Administrator
    \/ \E u \in Users : Traffic(u) \/ EndDatePasses(u) \/ ResetDayComes(u)
    \/ \E i \in Inbounds : AgentLost(i) \/ AgentBack(i) \/ Refresh(i)
    \/ Restart

Spec == Init /\ [][Next]_vars

\* The tasks are driven by tickers that never stop, requests and refreshes by
\* goroutines; agents are taken to come back.
Fairness ==
    /\ WF_vars(Enforcer) /\ WF_vars(Reconciler) /\ WF_vars(Cleaner)
    /\ \A r \in Requests : WF_vars(Serve(r))
    /\ \A i \in Inbounds : WF_vars(AgentBack(i)) /\ WF_vars(Refresh(i))

FairSpec == Spec /\ Fairness
=============================================================================
