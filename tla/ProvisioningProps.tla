-------------------------- MODULE ProvisioningProps --------------------------
(* What provisioning promises to users and administrators.                   *)
EXTENDS Provisioning

\* The types of the tables, of the agents and of what goroutines carry.
Accounts == [exists : BOOLEAN, pkg : Packages \cup {None}, ended : BOOLEAN,
             limit : Limits, flag : BOOLEAN]
Stages == {"collect", "batch", "save", "get", "create", "post",
           "remove", "removeNode", "drop", "purge"}
Items  == [user : Users, inbound : Inbounds, cred : Creds \cup {None}, stage : Stages]
Lists  == [user : Users, pkg : Packages, ended : BOOLEAN, limit : Limits]
Visits == [pc : {"idle", "next", "reset", "check", "work", "forget", "unbind"},
           listed : SUBSET Lists, user : Users \cup {None}, limit : Limits,
           why : {"none", "expire", "cut", "restore", "giveBack"}, safe : BOOLEAN]
Runs   == [pc : {"idle", "compare", "work"}, eligible : SUBSET Users]
Served == [pc : {"idle", "prev", "bind", "work", "remove", "unbind"},
           user : Users \cup {None}, pkg : Packages \cup {None},
           prev : Packages \cup {None}]

TypeOK ==
    /\ account \in [Users -> Accounts]
    /\ used \in [Users -> Nat]
    /\ due \in SUBSET Users
    /\ nodes \in [Packages -> SUBSET Inbounds]
    /\ row \in [Users -> [Inbounds -> Creds \cup {None}]]
    /\ client \in [Inbounds -> SUBSET (Users \X Creds)]
    /\ snap \in [Inbounds -> SUBSET (Users \X Creds)]
    /\ refresh \in SUBSET Inbounds
    /\ online \in [Inbounds -> BOOLEAN]
    /\ enf \in Visits
    /\ rec \in Runs
    /\ req \in [Requests -> Served]
    /\ work \in [Procs -> SUBSET Items]
    /\ requests \in Nat /\ faults \in Nat
    /\ touched \in SUBSET Inbounds

\* The credential in a subscription never changes while its row exists, however
\* many tasks and requests provision the binding at once: the lock and the
\* order in getOrCreateInboundCredential, SaveUserInboundConfig.
CredentialIsStable ==
    [][\A u \in Users, i \in Inbounds :
          row[u][i] # None /\ row'[u][i] # None => row'[u][i] = row[u][i]]_vars

\* When the enforcer deletes the rows of an expired user, no agent has a client
\* that a row stands for, through lost agents and lost replies, unless someone
\* else delivered to that inbound during the visit: removeUserFromAllInbounds.
ExpiryForgetsNothing ==
    enf.pc = "forget" =>
        \A i \in Inbounds \ touched : <<enf.user, row[enf.user][i]>> \notin client[i]

\* An expired user loses the package, or has it renewed: an agent that cannot
\* be reached postpones it and does not prevent it.
ExpiredIsUnbound ==
    \A u \in Users : Bound(u) /\ account[u].ended ~> ~(Bound(u) /\ account[u].ended)

\* A user with a valid package whose client is missing from a snapshot gets it
\* delivered, whatever was lost or failed before (findMissingInboundClients).
Missing(u, i) == Eligible(u) /\ row[u][i] # None /\ ~Has(snap[i], u)
MissingIsDelivered ==
    \A u \in Users, i \in Inbounds : Missing(u, i) ~> (Has(client[i], u) \/ ~Missing(u, i))

\* A user who was cut off for traffic and is below the limit again, by a reset
\* or by a higher limit, is no longer taken for over it (CheckAll).
Flagged(u) == Bound(u) /\ ~account[u].ended /\ account[u].flag
BelowLimitIsRestored ==
    \A u \in Users :
        Flagged(u) /\ account[u].limit > used[u] ~> ~(Flagged(u) /\ account[u].limit > used[u])

\* A client of a deleted user that a snapshot shows under settings.clients is
\* removed from the agent (shouldKeep, runOnce of the cleaner).
Orphan(u, i) == ~account[u].exists /\ Has(client[i], u) /\ Has(snap[i], u)
DeletedIsCleaned ==
    \A u \in Users, i \in UnderClients : Orphan(u, i) ~> ~Orphan(u, i)
=============================================================================
