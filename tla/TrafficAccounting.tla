--------------------------- MODULE TrafficAccounting ---------------------------
(***************************************************************************)
(* How the panel turns the counters of one remote xray into traffic that   *)
(* it bills: internal/traffic (the collector and the restart detector) and *)
(* the user_traffic and user_email_traffic rows of internal/storage.       *)
(*                                                                         *)
(* An agent reports, independently, when its xray started (a heartbeat)    *)
(* and the counters of its clients, each counting from that start; or the  *)
(* panel pulls them.  A goroutine per report judges whether xray           *)
(* restarted, prices what is new and adds it to the rows, one row at a     *)
(* time, while other goroutines may do the same.  One server, and one of   *)
(* the two directions, which the code treats alike.                        *)
(***************************************************************************)
EXTENDS Integers, FiniteSets

CONSTANTS
    Emails,      \* the xray clients of the server
    Users,       \* the names that rows of user_traffic are kept for
    Weights,     \* the multipliers an administrator may set
    None,
    Ticks,       \* goroutines that may be in ProcessRemoteMetrics at a time
    MaxBytes,    \* bytes a client carries (a bound)
    MaxBoots,    \* starts of xray (a bound)
    MaxClients,  \* times one client is added (a bound)
    MaxChanges   \* edits of multipliers and of attributions (a bound)

ASSUME NoneAssumption == None \notin Emails \cup Users \cup Nat
ASSUME EmailsAssumption == IsFiniteSet(Emails)
ASSUME WeightsAssumption == Weights \subseteq Nat \ {0} /\ 1 \in Weights

VARIABLES
    boot,      \* how often xray has started
    adds,      \* how often each client has been added to an inbound
    counter,   \* xray's counter of each client; None: no such client
    reported,  \* remote_servers.xray_boot_time
    seen,      \* XrayRestartDetector.cache
    weight,    \* the multiplier of each client's node
    owner,     \* whom Classify attributes each client to; None: to nobody
    changes,   \* edits of weight and owner so far
    email,     \* the rows of user_email_traffic
    user,      \* the rows of user_traffic
    tick,      \* the goroutines in ProcessRemoteMetrics
    carried,   \* history: the bytes each client has carried
    counted,   \* history: the life of the counter a row's last was taken from
    born,      \* history: that life and the counter when the row was made
    orderly,   \* history: reports came one by one, each after its boot time
    payer,     \* history: the user whose sum each client was last added to
    payers,    \* history: the users whose sums it was ever added to
    steady     \* history: no client came back to a sum that it had left

xrayVars == <<boot, adds, counter, carried>>
configVars == <<weight, owner, changes>>
rowVars == <<email, user, counted, born>>
payVars == <<payer, payers, steady>>
vars == <<boot, adds, counter, reported, seen, weight, owner, changes, email,
          user, tick, carried, counted, born, orderly, payer, payers, steady>>

\* What ResolveUsernameByEmail and Classify may return.
Names == Users \cup {None}

Boots == Nat \ {0}
Lives == [boot : Boots, nth : Nat]
FirstLife == [boot |-> 1, nth |-> 0]
Raw == Nat \cup {None}
EmailRows == [exists : BOOLEAN, up : Nat, last : Nat, total : Nat,
              weighted : Nat, base : Nat, user : Names]
UserRows == [exists : BOOLEAN, up : Nat, last : Nat, total : Nat]
NoEmailRow == [exists |-> FALSE, up |-> 0, last |-> 0, total |-> 0,
               weighted |-> 0, base |-> 0, user |-> None]
NoUserRow == [exists |-> FALSE, up |-> 0, last |-> 0, total |-> 0]

\* What the query of an existing row returns.
OldRows == [exists : BOOLEAN, last : Nat, total : Nat]
NoOld == [exists |-> FALSE, last |-> 0, total |-> 0]
OldRow(row) == [exists |-> row.exists, last |-> row.last, total |-> row.total]

TickStates ==
    [pc : {"idle", "arrived", "listed", "judge", "emails", "users"},
     boot : Boots \cup {None}, sampled : Boots \cup {None},
     stats : [Emails -> Raw], life : [Emails -> Lives], restart : BOOLEAN,
     price : [Emails -> Weights], attr : [Emails -> Names], met : SUBSET Users,
     todo : SUBSET (Emails \cup Users), at : Emails \cup Users \cup {None},
     old : OldRows, sum : [Users -> Nat]]

\* No report is being processed.
Idle == [pc |-> "idle", boot |-> None, sampled |-> None,
         stats |-> [e \in Emails |-> None], life |-> [e \in Emails |-> FirstLife],
         restart |-> FALSE, price |-> [e \in Emails |-> 1],
         attr |-> [e \in Emails |-> None], met |-> {},
         todo |-> {}, at |-> None, old |-> NoOld, sum |-> [u \in Users |-> 0]]

\* What a counter counts from: a start of xray and an addition of its client.
Life(e) == [boot |-> boot, nth |-> adds[e]]

Init ==
    /\ boot = 1
    /\ adds = [e \in Emails |-> 0]
    /\ counter = [e \in Emails |-> 0]
    /\ reported = None
    /\ seen = None
    /\ weight \in [Emails -> Weights]
    /\ owner \in [Emails -> Names]
    /\ changes = 0
    /\ email = [e \in Emails |-> NoEmailRow]
    /\ user = [u \in Users |-> NoUserRow]
    /\ tick = [t \in Ticks |-> Idle]
    /\ carried = [e \in Emails |-> 0]
    /\ counted = [e \in Emails |-> FirstLife]
    /\ born = [e \in Emails |-> [life |-> FirstLife, raw |-> 0]]
    /\ orderly = TRUE
    /\ payer = [e \in Emails |-> None]
    /\ payers = [e \in Emails |-> {}]
    /\ steady = TRUE

-----------------------------------------------------------------------------
(* Pieces of the accounting, each with a faulty variant that the properties  *)
(* have to tell from it.                                                     *)

\* CheckAndUpdate: is xray known to have restarted?
ColdStartIsRestart(b) == b # None /\ seen # b
Restarted(b) == b # None /\ seen # None /\ seen # b

\* CheckAndUpdate: what the cache holds afterwards.
FirstSeen(b) == IF b = None \/ seen # None THEN seen ELSE b
NowSeen(b) == IF b = None THEN seen ELSE b

\* Upsert*: what a report adds to a row whose last counter was last.
Unclamped(last, raw, restart) == IF restart THEN raw ELSE raw - last
DropIsRestart(last, raw, restart) ==
    IF restart \/ raw < last THEN raw ELSE raw - last
Delta(last, raw, restart) ==
    IF restart THEN raw ELSE IF raw >= last THEN raw - last ELSE 0

\* UpsertUserEmailTraffic: the price of what is added.
Priced(t, e, delta) == delta * tick[t].price[e]

\* ResetUserTrafficCycle: the row of a client of the user.
ResetToZero(row) == [row EXCEPT !.up = 0, !.weighted = 0, !.base = 0]
ResetRow(row) == [row EXCEPT !.base = row.weighted]

-----------------------------------------------------------------------------
(* The remote server.                                                        *)

Transfer(e) ==
    /\ counter[e] # None
    /\ carried[e] < MaxBytes
    /\ counter' = [counter EXCEPT ![e] = @ + 1]
    /\ carried' = [carried EXCEPT ![e] = @ + 1]
    /\ UNCHANGED <<boot, adds, reported, seen, configVars, rowVars, tick, orderly, payVars>>

XrayRestarts ==
    /\ boot < MaxBoots
    /\ boot' = boot + 1
    /\ counter' = [e \in Emails |-> IF counter[e] = None THEN None ELSE 0]
    /\ UNCHANGED <<adds, carried, reported, seen, configVars, rowVars, tick, orderly, payVars>>

\* A client leaves its inbound (expired, over its limit, deleted) ...
RemoveClient(e) ==
    /\ counter[e] # None
    /\ counter' = [counter EXCEPT ![e] = None]
    /\ UNCHANGED <<boot, adds, carried, reported, seen, configVars, rowVars,
                   tick, orderly, payVars>>

\* ... and is added again, with a new counter.
AddClient(e) ==
    /\ counter[e] = None
    /\ adds[e] < MaxClients
    /\ adds' = [adds EXCEPT ![e] = @ + 1]
    /\ counter' = [counter EXCEPT ![e] = 0]
    /\ UNCHANGED <<boot, carried, reported, seen, configVars, rowVars, tick, orderly, payVars>>

\* UpdateRemoteServerHeartbeatWithRestart; an agent may not know the boot time.
Heartbeat ==
    /\ reported' \in {boot, None}
    /\ UNCHANGED <<xrayVars, seen, configVars, rowVars, tick, orderly, payVars>>

-----------------------------------------------------------------------------
(* The administrator.                                                        *)

SetWeight(e, w) ==
    /\ changes < MaxChanges
    /\ weight' = [weight EXCEPT ![e] = w]
    /\ changes' = changes + 1
    /\ UNCHANGED <<xrayVars, reported, seen, owner, rowVars, tick, orderly, payVars>>

\* The node of a client is deleted or created again, its binding, its
\* subaccount or its user changes: Classify finds another user, or none.
MoveNode(e, who) ==
    /\ changes < MaxChanges
    /\ owner' = [owner EXCEPT ![e] = who]
    /\ changes' = changes + 1
    /\ UNCHANGED <<xrayVars, reported, seen, weight, rowVars, tick, orderly, payVars>>

\* ResetUserTrafficCycle, one transaction over both tables.
ResetCycle(u) ==
    /\ user' = [user EXCEPT ![u].up = 0]
    /\ email' = [e \in Emails |->
                   IF email[e].user = u THEN ResetRow(email[e]) ELSE email[e]]
    /\ UNCHANGED <<xrayVars, reported, seen, configVars, counted, born, tick, orderly, payVars>>

-----------------------------------------------------------------------------
(* A goroutine that processes a report: ProcessRemoteMetrics and its callers *)

\* The goroutine goes on with new.
Go(t, new) == tick' = [tick EXCEPT ![t] = new]

Alone(t) == \A s \in Ticks \ {t} : tick[s] = Idle

Sample == [e \in Emails |-> counter[e]]
Lifes == [e \in Emails |-> Life(e)]

\* Push: the counters arrive first, the boot time is looked up afterwards ...
PushArrives(t) ==
    /\ tick[t] = Idle
    /\ Go(t, [Idle EXCEPT !.pc = "arrived", !.stats = Sample, !.life = Lifes,
                          !.sampled = boot])
    /\ orderly' = (orderly /\ Alone(t))
    /\ UNCHANGED <<xrayVars, reported, seen, configVars, rowVars, payVars>>

PushLookup(t) ==
    /\ tick[t].pc = "arrived"
    /\ \E b \in {reported, None} :
          Go(t, [tick[t] EXCEPT !.pc = "judge", !.boot = b])
    /\ UNCHANGED <<xrayVars, reported, seen, configVars, rowVars, orderly, payVars>>

\* ... pull: the boot time is listed first, the counters are fetched afterwards.
PullListed(t) ==
    /\ tick[t] = Idle
    /\ Go(t, [Idle EXCEPT !.pc = "listed", !.boot = reported])
    /\ orderly' = (orderly /\ Alone(t))
    /\ UNCHANGED <<xrayVars, reported, seen, configVars, rowVars, payVars>>

PullFetched(t) ==
    /\ tick[t].pc = "listed"
    /\ Go(t, [tick[t] EXCEPT !.pc = "judge", !.stats = Sample, !.life = Lifes,
                             !.sampled = boot])
    /\ UNCHANGED <<xrayVars, reported, seen, configVars, rowVars, orderly, payVars>>

\* The boot time is that of the xray that counted, or it is unknown and no
\* other one has been seen.
BootTimeFits(t) ==
    \/ tick[t].boot = tick[t].sampled
    \/ tick[t].boot = None /\ seen \in {None, tick[t].sampled}

\* CheckAndUpdate, then BuildEmailAttributor, which may fail.
Judge(t) ==
    /\ tick[t].pc = "judge"
    /\ seen' = NowSeen(tick[t].boot)
    /\ orderly' = (orderly /\ BootTimeFits(t))
    /\ \E attr \in {owner, [e \in Emails |-> None]} :
          Go(t, [tick[t] EXCEPT
                   !.pc = "emails",
                   !.restart = Restarted(tick[t].boot),
                   !.attr = attr,
                   !.price = [e \in Emails |-> IF attr[e] # None THEN weight[e] ELSE 1],
                   !.todo = {e \in Emails : tick[t].stats[e] # None}])
    /\ UNCHANGED <<xrayVars, reported, configVars, rowVars, payVars>>

\* The query of the existing row.
ReadEmail(t, e) ==
    /\ tick[t].pc = "emails"
    /\ tick[t].at = None
    /\ e \in tick[t].todo
    /\ Go(t, [tick[t] EXCEPT !.at = e, !.old = OldRow(email[e])])
    /\ UNCHANGED <<xrayVars, reported, seen, configVars, rowVars, orderly, payVars>>

NewTotal(t) ==
    LET old == tick[t].old IN
    IF tick[t].restart THEN old.total + old.last ELSE old.total

InsertedEmail(t, e) ==
    [NoEmailRow EXCEPT !.exists = TRUE, !.last = tick[t].stats[e], !.user = tick[t].attr[e]]

UpdatedEmail(t, e) ==
    LET delta == Delta(tick[t].old.last, tick[t].stats[e], tick[t].restart) IN
    [email[e] EXCEPT !.up = @ + delta, !.weighted = @ + Priced(t, e, delta),
                     !.total = NewTotal(t), !.last = tick[t].stats[e],
                     !.user = tick[t].attr[e]]

\* Whether the write succeeds or not, the counter goes into the sum of the user
\* that ResolveUsernameByEmail returns.  It asks tables that change between
\* reports, takes a query that fails for one that finds nothing, and the client
\* is left out if it returns no name: who is any name, or None.
EmailDone(t, e, who) ==
    /\ Go(t, [tick[t] EXCEPT
                !.at = None, !.old = NoOld, !.todo = @ \ {e},
                !.met = @ \cup ({who} \ {None}),
                !.sum = [u \in Users |-> IF u = who THEN @[u] + tick[t].stats[e] ELSE @[u]]])
    /\ payer' = [payer EXCEPT ![e] = who]
    /\ payers' = [payers EXCEPT ![e] = @ \cup ({who} \ {None})]
    /\ steady' = (steady /\ (who \in payers[e] => payer[e] = who))

\* The insert or update.  A row inserted meanwhile makes an insert fail.
WriteEmail(t, e, who) ==
    LET insert == ~tick[t].old.exists IN
    /\ tick[t].pc = "emails"
    /\ tick[t].at = e
    /\ ~(insert /\ email[e].exists)
    /\ email' = [email EXCEPT ![e] = IF insert THEN InsertedEmail(t, e)
                                               ELSE UpdatedEmail(t, e)]
    /\ counted' = [counted EXCEPT ![e] = tick[t].life[e]]
    /\ born' = [born EXCEPT ![e] = IF insert THEN [life |-> tick[t].life[e],
                                                   raw |-> tick[t].stats[e]]
                                             ELSE @]
    /\ EmailDone(t, e, who)
    /\ UNCHANGED <<xrayVars, reported, seen, configVars, user, orderly>>

\* The query or the write fails: it is logged and the loop goes on.
EmailFails(t, e, who) ==
    /\ tick[t].pc = "emails"
    /\ tick[t].at = e
    /\ EmailDone(t, e, who)
    /\ UNCHANGED <<xrayVars, reported, seen, configVars, rowVars, orderly>>

EmailsDone(t) ==
    /\ tick[t].pc = "emails"
    /\ tick[t].todo = {}
    /\ Go(t, [Idle EXCEPT !.pc = "users", !.restart = tick[t].restart,
                          !.todo = tick[t].met, !.sum = tick[t].sum])
    /\ UNCHANGED <<xrayVars, reported, seen, configVars, rowVars, orderly, payVars>>

ReadUser(t, u) ==
    /\ tick[t].pc = "users"
    /\ tick[t].at = None
    /\ u \in tick[t].todo
    /\ Go(t, [tick[t] EXCEPT !.at = u, !.old = OldRow(user[u])])
    /\ UNCHANGED <<xrayVars, reported, seen, configVars, rowVars, orderly, payVars>>

UserDone(t, u) == Go(t, [tick[t] EXCEPT !.at = None, !.old = NoOld, !.todo = @ \ {u}])

InsertedUser(t, u) == [NoUserRow EXCEPT !.exists = TRUE, !.last = tick[t].sum[u]]

UpdatedUser(t, u) ==
    LET delta == Delta(tick[t].old.last, tick[t].sum[u], tick[t].restart) IN
    [user[u] EXCEPT !.up = @ + delta, !.total = NewTotal(t), !.last = tick[t].sum[u]]

WriteUser(t, u) ==
    LET insert == ~tick[t].old.exists IN
    /\ tick[t].pc = "users"
    /\ tick[t].at = u
    /\ ~(insert /\ user[u].exists)
    /\ user' = [user EXCEPT ![u] = IF insert THEN InsertedUser(t, u)
                                             ELSE UpdatedUser(t, u)]
    /\ UserDone(t, u)
    /\ UNCHANGED <<xrayVars, reported, seen, configVars, email, counted, born, orderly,
                   payVars>>

UserFails(t, u) ==
    /\ tick[t].pc = "users"
    /\ tick[t].at = u
    /\ UserDone(t, u)
    /\ UNCHANGED <<xrayVars, reported, seen, configVars, rowVars, orderly, payVars>>

Finish(t) ==
    /\ tick[t].pc = "users"
    /\ tick[t].todo = {}
    /\ Go(t, Idle)
    /\ UNCHANGED <<xrayVars, reported, seen, configVars, rowVars, orderly, payVars>>

\* The panel restarts: the detector is empty, reports in progress are gone.
PanelRestarts ==
    /\ seen' = None
    /\ tick' = [t \in Ticks |-> Idle]
    /\ UNCHANGED <<xrayVars, reported, configVars, rowVars, orderly, payVars>>

-----------------------------------------------------------------------------
ServerStep ==
    \/ XrayRestarts
    \/ Heartbeat
    \/ \E e \in Emails : Transfer(e) \/ RemoveClient(e) \/ AddClient(e)

AdminStep ==
    \/ \E e \in Emails, who \in Names : MoveNode(e, who)
    \/ \E e \in Emails, w \in Weights : SetWeight(e, w)
    \/ \E u \in Users : ResetCycle(u)

TickStep(t) ==
    \/ PushArrives(t)
    \/ PushLookup(t)
    \/ PullListed(t)
    \/ PullFetched(t)
    \/ Judge(t)
    \/ \E e \in Emails : ReadEmail(t, e)
    \/ \E e \in Emails, who \in Names : WriteEmail(t, e, who) \/ EmailFails(t, e, who)
    \/ EmailsDone(t)
    \/ \E u \in Users : ReadUser(t, u) \/ WriteUser(t, u) \/ UserFails(t, u)
    \/ Finish(t)

Next == ServerStep \/ AdminStep \/ PanelRestarts \/ \E t \in Ticks : TickStep(t)

Spec == Init /\ [][Next]_vars
=============================================================================
