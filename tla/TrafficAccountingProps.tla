------------------------ MODULE TrafficAccountingProps ------------------------
(* What the accounting of TrafficAccounting promises. *)
EXTENDS TrafficAccounting, FiniteSetsExt

\* The types of the state, and of what a goroutine carries between statements
\* (processRemoteMetrics and the two Upsert functions).
TypeOK ==
    /\ boot \in Boots
    /\ adds \in [Emails -> Nat]
    /\ counter \in [Emails -> Raw]
    /\ reported \in Boots \cup {None}
    /\ seen \in Boots \cup {None}
    /\ weight \in [Emails -> Weights]
    /\ owner \in [Emails -> Names]
    /\ changes \in Nat
    /\ email \in [Emails -> EmailRows]
    /\ user \in [Users -> UserRows]
    /\ tick \in [Ticks -> TickStates]
    /\ carried \in [Emails -> Nat]
    /\ counted \in [Emails -> Lives]
    /\ born \in [Emails -> [life : Lives, raw : Nat]]
    /\ orderly \in BOOLEAN
    /\ payer \in [Emails -> Names]
    /\ payers \in [Emails -> SUBSET Users]
    /\ steady \in BOOLEAN

\* As long as reports are processed one by one and each carries the boot time
\* of the xray that counted, a client is never charged a byte it has not
\* carried, through restarts of xray and of the panel, clients removed and
\* added again, failed writes and resets: Upsert* with CheckAndUpdate.
NeverOverbilled ==
    orderly => \A e \in Emails : email[e].up <= carried[e]

\* The clients that were ever added to the sum of a user.
Clients(u) == {e \in Emails : u \in payers[e]}
NoMoreThanCarried == \A u \in Users : user[u].up <= SumFunctionOnSet(carried, Clients(u))

\* The same of the row of a user, which adds the counters of its clients up
\* before it compares them with the last report: clients may join the sum and
\* leave it, for another user or for nobody, as long as none comes back to a sum
\* that it has left (aggregateAndUpsertUserTraffic, ResolveUsernameByEmail).
UserNeverOverbilled == orderly /\ steady => NoMoreThanCarried

\* What the comment of aggregateAndUpsertUserTraffic says: the sum of cumulative
\* counters is cumulative, so that the difference of two sums is what is new.
SumIsCumulative == orderly => NoMoreThanCarried

\* While the counter that a row started from still lives, the row has counted
\* each byte after its first report exactly once, whatever failed in between.
CountedOnce ==
    orderly => \A e \in Emails :
        email[e].exists /\ born[e].life = Life(e)
            => email[e].up = email[e].last - born[e].raw

\* A reset starts a cycle by raising the base (ResetUserTrafficCycle); what a
\* client has used in all is never taken back, and no cycle has used less
\* than nothing.
HistoryNeverShrinks ==
    [][\A e \in Emails : /\ email'[e].up >= email[e].up
                         /\ email'[e].weighted >= email[e].weighted
                         /\ email'[e].base >= email[e].base
                         /\ email'[e].base <= email'[e].weighted]_vars
=============================================================================
