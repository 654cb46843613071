----------------------- MODULE TrafficAccountingProofs -----------------------
(* Theorems about TrafficAccounting, for any clients, users and bounds. *)
EXTENDS TrafficAccountingProps, FiniteSetTheorems, TLAPS

\* A report in progress only handles clients that it has counters of.
TodoOK(k) ==
    /\ k.pc = "emails" => /\ k.todo \subseteq {e \in Emails : k.stats[e] # None}
                          /\ k.at # None => k.at \in k.todo
    /\ k.pc \notin {"emails", "users"} => k.at = None

TInv == TypeOK /\ \A t \in Ticks : TodoOK(tick[t])

LEMMA NoneFacts == None \notin Emails /\ None \notin Users /\ None \notin Nat
  BY NoneAssumption

LEMMA IdleType == Idle \in TickStates /\ TodoOK(Idle)
<1>1. [e \in Emails |-> None] \in [Emails -> Raw]
  BY DEF Raw
<1>2. FirstLife \in Lives
  BY DEF FirstLife, Lives, Boots
<1>3. [e \in Emails |-> 1] \in [Emails -> Weights]
  BY WeightsAssumption
<1>4. NoOld \in OldRows
  BY DEF NoOld, OldRows
<1>5. [e \in Emails |-> None] \in [Emails -> Names]
  BY DEF Names
<1>. QED
  BY <1>1, <1>2, <1>3, <1>4, <1>5 DEF Idle, TickStates, TodoOK

LEMMA GoType ==
  ASSUME tick \in [Ticks -> TickStates], \A t \in Ticks : TodoOK(tick[t]),
         NEW t \in Ticks, NEW new \in TickStates, TodoOK(new), Go(t, new)
  PROVE  /\ tick' \in [Ticks -> TickStates]
         /\ \A s \in Ticks : TodoOK(tick'[s])
         /\ tick'[t] = new
         /\ \A s \in Ticks \ {t} : tick'[s] = tick[s]
  BY DEF Go

\* What a report adds to a row is not negative.
LEMMA DeltaType ==
  ASSUME NEW last \in Nat, NEW raw \in Nat, NEW restart \in BOOLEAN
  PROVE  Delta(last, raw, restart) \in Nat /\ Delta(last, raw, restart) <= raw
  BY DEF Delta

LEMMA ProductType == ASSUME NEW i \in Nat, NEW j \in Nat PROVE i * j \in Nat
  OBVIOUS

LEMMA RowTypes ==
  ASSUME TInv
  PROVE  /\ \A e \in Emails : OldRow(email[e]) \in OldRows
         /\ \A u \in Users : OldRow(user[u]) \in OldRows
  BY DEF TInv, TypeOK, OldRow, OldRows, EmailRows, UserRows

LEMMA SampleType ==
  ASSUME TInv
  PROVE  Sample \in [Emails -> Raw] /\ Lifes \in [Emails -> Lives]
  BY DEF TInv, TypeOK, Sample, Lifes, Life, Lives, Boots

LEMMA InitTInv == Init => TInv
<1>. SUFFICES ASSUME Init PROVE TInv
  OBVIOUS
<1>1. FirstLife \in Lives
  BY DEF FirstLife, Lives, Boots
<1>2. NoEmailRow \in EmailRows /\ NoUserRow \in UserRows
  BY DEF NoEmailRow, EmailRows, NoUserRow, UserRows, Names
<1>3. tick \in [Ticks -> TickStates] /\ \A t \in Ticks : TodoOK(tick[t])
  BY IdleType DEF Init
<1>4. /\ born \in [Emails -> [life : Lives, raw : Nat]]
      /\ counted \in [Emails -> Lives]
  BY <1>1 DEF Init
<1>5. payer \in [Emails -> Names] /\ payers \in [Emails -> SUBSET Users] /\ steady \in BOOLEAN
  BY DEF Init, Names
<1>. QED
  BY <1>2, <1>3, <1>4, <1>5 DEF Init, TInv, TypeOK, Boots, Raw

-----------------------------------------------------------------------------
(* One step keeps the types.                                                 *)

LEMMA ServerTypes ==
  ASSUME TInv, ServerStep
  PROVE  TInv'
<1>. USE DEF TInv, TypeOK, xrayVars, configVars, rowVars, payVars, Raw, Boots
<1>1. ASSUME XrayRestarts PROVE TInv'
  BY <1>1 DEF XrayRestarts
<1>2. ASSUME Heartbeat PROVE TInv'
  BY <1>2 DEF Heartbeat
<1>3. ASSUME NEW e \in Emails, Transfer(e) PROVE TInv'
  BY <1>3 DEF Transfer
<1>4. ASSUME NEW e \in Emails, RemoveClient(e) PROVE TInv'
  BY <1>4 DEF RemoveClient
<1>5. ASSUME NEW e \in Emails, AddClient(e) PROVE TInv'
  BY <1>5 DEF AddClient
<1>. QED
  BY <1>1, <1>2, <1>3, <1>4, <1>5 DEF ServerStep

LEMMA AdminTypes ==
  ASSUME TInv, AdminStep
  PROVE  TInv'
<1>. USE DEF TInv, TypeOK, xrayVars, configVars, rowVars, payVars
<1>1. ASSUME NEW e \in Emails, NEW who \in Names, MoveNode(e, who) PROVE TInv'
  BY <1>1 DEF MoveNode
<1>2. ASSUME NEW e \in Emails, NEW w \in Weights, SetWeight(e, w) PROVE TInv'
  BY <1>2 DEF SetWeight
<1>3. ASSUME NEW u \in Users, ResetCycle(u) PROVE TInv'
  <2>1. user' \in [Users -> UserRows]
    BY <1>3 DEF ResetCycle, UserRows
  <2>2. email' \in [Emails -> EmailRows]
    <3>1. ASSUME NEW e \in Emails PROVE email[e] \in EmailRows /\ ResetRow(email[e]) \in EmailRows
      <4>1. email[e] \in EmailRows
        OBVIOUS
      <4>. QED
        BY <4>1 DEF EmailRows, ResetRow
    <3>2. email' = [e \in Emails |->
                      IF email[e].user = u THEN ResetRow(email[e]) ELSE email[e]]
      BY <1>3 DEF ResetCycle
    <3>. QED
      BY <3>1, <3>2
  <2>. QED
    BY <1>3, <2>1, <2>2 DEF ResetCycle
<1>. QED
  BY <1>1, <1>2, <1>3 DEF AdminStep

\* A step of a goroutine that writes no row.
LEMMA OnlyTick ==
  ASSUME TInv, UNCHANGED <<xrayVars, reported, configVars, rowVars, payVars>>,
         seen' \in Boots \cup {None}, orderly' \in BOOLEAN,
         tick' \in [Ticks -> TickStates], \A s \in Ticks : TodoOK(tick'[s])
  PROVE  TInv'
  BY DEF TInv, TypeOK, xrayVars, configVars, rowVars, payVars

LEMMA ReportTypes ==
  ASSUME TInv, NEW t \in Ticks,
         \/ PushArrives(t) \/ PushLookup(t) \/ PullListed(t) \/ PullFetched(t)
         \/ Judge(t)
  PROVE  TInv'
<1>. DEFINE k == tick[t]
<1>0. k \in TickStates /\ TodoOK(k) /\ reported \in Boots \cup {None} /\ boot \in Boots
  BY DEF TInv, TypeOK
<1>a. seen \in Boots \cup {None} /\ orderly \in BOOLEAN
  BY DEF TInv, TypeOK
<1>b. Sample \in [Emails -> Raw] /\ Lifes \in [Emails -> Lives]
  BY SampleType
<1>1. CASE PushArrives(t)
  <2>. DEFINE new == [Idle EXCEPT !.pc = "arrived", !.stats = Sample, !.life = Lifes,
                                  !.sampled = boot]
  <2>1. new \in TickStates /\ TodoOK(new)
    <3>1. new \in TickStates
      BY <1>0, <1>b, IdleType DEF TickStates
    <3>2. TodoOK(new)
      BY <1>1, <1>0, <1>b, IdleType DEF TickStates, TodoOK, Idle
    <3>. QED
      BY <3>1, <3>2
  <2>a. Go(t, new)
    BY <1>1 DEF PushArrives
  <2>2. tick' \in [Ticks -> TickStates] /\ \A s \in Ticks : TodoOK(tick'[s])
    BY <2>a, <2>1, GoType DEF TInv, TypeOK
  <2>3. orderly' \in BOOLEAN
    BY <1>1, <1>a DEF PushArrives
  <2>. QED
    BY <1>1, <1>a, <2>2, <2>3, OnlyTick DEF PushArrives
<1>2. CASE PushLookup(t)
  <2>1. PICK b \in {reported, None} :
          Go(t, [tick[t] EXCEPT !.pc = "judge", !.boot = b])
    BY <1>2 DEF PushLookup
  <2>. DEFINE new == [tick[t] EXCEPT !.pc = "judge", !.boot = b]
  <2>2. new \in TickStates /\ TodoOK(new)
    <3>1. new \in TickStates
      BY <1>0, <2>1 DEF TickStates
    <3>2. TodoOK(new)
      BY <1>2, <1>0, <2>1 DEF TickStates, TodoOK, PushLookup
    <3>. QED
      BY <3>1, <3>2
  <2>3. tick' \in [Ticks -> TickStates] /\ \A s \in Ticks : TodoOK(tick'[s])
    BY <2>1, <2>2, GoType DEF TInv, TypeOK
  <2>. QED
    BY <1>2, <1>a, <2>3, OnlyTick DEF PushLookup
<1>3. CASE PullListed(t)
  <2>. DEFINE new == [Idle EXCEPT !.pc = "listed", !.boot = reported]
  <2>1. new \in TickStates /\ TodoOK(new)
    <3>1. new \in TickStates
      BY <1>0, IdleType DEF TickStates
    <3>2. TodoOK(new)
      BY <1>3, <1>0, IdleType DEF TickStates, TodoOK, Idle
    <3>. QED
      BY <3>1, <3>2
  <2>a. Go(t, new)
    BY <1>3 DEF PullListed
  <2>2. tick' \in [Ticks -> TickStates] /\ \A s \in Ticks : TodoOK(tick'[s])
    BY <2>a, <2>1, GoType DEF TInv, TypeOK
  <2>3. orderly' \in BOOLEAN
    BY <1>3, <1>a DEF PullListed
  <2>. QED
    BY <1>3, <1>a, <2>2, <2>3, OnlyTick DEF PullListed
<1>4. CASE PullFetched(t)
  <2>. DEFINE new == [tick[t] EXCEPT !.pc = "judge", !.stats = Sample, !.life = Lifes,
                                     !.sampled = boot]
  <2>1. new \in TickStates /\ TodoOK(new)
    <3>1. new \in TickStates
      BY <1>0, <1>b DEF TickStates
    <3>2. TodoOK(new)
      BY <1>4, <1>0, <1>b DEF TickStates, TodoOK, PullFetched
    <3>. QED
      BY <3>1, <3>2
  <2>a. Go(t, new)
    BY <1>4 DEF PullFetched
  <2>2. tick' \in [Ticks -> TickStates] /\ \A s \in Ticks : TodoOK(tick'[s])
    BY <2>a, <2>1, GoType DEF TInv, TypeOK
  <2>. QED
    BY <1>4, <1>a, <2>2, OnlyTick DEF PullFetched
<1>5. CASE Judge(t)
  <2>. DEFINE price(attr) == [e \in Emails |-> IF attr[e] # None THEN weight[e] ELSE 1]
              todo == {e \in Emails : tick[t].stats[e] # None}
  <2>1. PICK attr \in {owner, [e \in Emails |-> None]} :
          Go(t, [tick[t] EXCEPT !.pc = "emails", !.restart = Restarted(tick[t].boot),
                                !.attr = attr, !.price = price(attr), !.todo = todo])
    BY <1>5 DEF Judge
  <2>. DEFINE new == [tick[t] EXCEPT !.pc = "emails", !.restart = Restarted(tick[t].boot),
                                     !.attr = attr, !.price = price(attr), !.todo = todo]
  <2>2. attr \in [Emails -> Names] /\ price(attr) \in [Emails -> Weights]
    BY WeightsAssumption DEF TInv, TypeOK, Names
  <2>3. Restarted(tick[t].boot) \in BOOLEAN
    BY DEF Restarted
  <2>4. todo \in SUBSET (Emails \cup Users)
    OBVIOUS
  <2>5. new \in TickStates /\ TodoOK(new)
    BY <1>0, <1>5, <2>2, <2>3, <2>4 DEF TickStates, TodoOK, Judge
  <2>6. tick' \in [Ticks -> TickStates] /\ \A s \in Ticks : TodoOK(tick'[s])
    BY <2>1, <2>5, GoType DEF TInv, TypeOK
  <2>7. seen' \in Boots \cup {None} /\ orderly' \in BOOLEAN
    BY <1>0, <1>5 DEF Judge, NowSeen, TInv, TypeOK, TickStates, BootTimeFits
  <2>. QED
    BY <1>5, <2>6, <2>7, OnlyTick DEF Judge
<1>. QED
  BY <1>1, <1>2, <1>3, <1>4, <1>5

\* A finished row leaves the goroutine with the rest of its list.
LEMMA EmailDoneType ==
  ASSUME TInv, NEW t \in Ticks, NEW e \in Emails, NEW who \in Names,
         tick[t].pc = "emails", tick[t].at = e, EmailDone(t, e, who)
  PROVE  /\ tick' \in [Ticks -> TickStates] /\ \A s \in Ticks : TodoOK(tick'[s])
         /\ payer' \in [Emails -> Names] /\ payers' \in [Emails -> SUBSET Users]
         /\ steady' \in BOOLEAN
<1>. DEFINE sum == [u \in Users |-> IF u = who THEN tick[t].sum[u] + tick[t].stats[e]
                                               ELSE tick[t].sum[u]]
            new == [tick[t] EXCEPT !.at = None, !.old = NoOld, !.todo = @ \ {e},
                                   !.met = @ \cup ({who} \ {None}), !.sum = sum]
<1>0. tick[t] \in TickStates /\ TodoOK(tick[t])
  BY DEF TInv, TypeOK
<1>1. tick[t].stats[e] \in Nat
  BY <1>0, NoneFacts DEF TickStates, TodoOK, Raw
<1>2. sum \in [Users -> Nat]
  BY <1>0, <1>1 DEF TickStates
<1>3. NoOld \in OldRows
  BY DEF NoOld, OldRows
<1>4. new \in TickStates /\ TodoOK(new)
  BY <1>0, <1>2, <1>3 DEF TickStates, TodoOK, Names
<1>5. Go(t, new)
  BY DEF EmailDone
<1>6. /\ payer' \in [Emails -> Names] /\ payers' \in [Emails -> SUBSET Users]
      /\ steady' \in BOOLEAN
  BY DEF EmailDone, TInv, TypeOK, Names
<1>. QED
  BY <1>4, <1>5, <1>6, GoType DEF TInv, TypeOK

LEMMA RowStepTypes ==
  ASSUME TInv, NEW t \in Ticks, NEW e \in Emails, NEW who \in Names,
         ReadEmail(t, e) \/ WriteEmail(t, e, who) \/ EmailFails(t, e, who)
  PROVE  TInv'
<1>0. tick[t] \in TickStates /\ TodoOK(tick[t])
  BY DEF TInv, TypeOK
<1>a. seen \in Boots \cup {None} /\ orderly \in BOOLEAN
  BY DEF TInv, TypeOK
<1>1. CASE ReadEmail(t, e)
  <2>. DEFINE new == [tick[t] EXCEPT !.at = e, !.old = OldRow(email[e])]
  <2>1. new \in TickStates /\ TodoOK(new)
    BY <1>0, <1>1, RowTypes DEF TickStates, TodoOK, ReadEmail
  <2>2. tick' \in [Ticks -> TickStates] /\ \A s \in Ticks : TodoOK(tick'[s])
    <3>1. Go(t, new)
      BY <1>1 DEF ReadEmail
    <3>. QED
      BY <3>1, <2>1, GoType DEF TInv, TypeOK
  <2>. QED
    BY <1>1, <1>a, <2>2, OnlyTick DEF ReadEmail
<1>2. CASE EmailFails(t, e, who)
  <2>1. /\ tick' \in [Ticks -> TickStates] /\ \A s \in Ticks : TodoOK(tick'[s])
        /\ payer' \in [Emails -> Names] /\ payers' \in [Emails -> SUBSET Users]
        /\ steady' \in BOOLEAN
    BY <1>2, EmailDoneType DEF EmailFails
  <2>. QED
    BY <1>2, <1>a, <2>1 DEF EmailFails, TInv, TypeOK, xrayVars, configVars, rowVars
<1>3. CASE WriteEmail(t, e, who)
  <2>1. /\ tick' \in [Ticks -> TickStates] /\ \A s \in Ticks : TodoOK(tick'[s])
        /\ payer' \in [Emails -> Names] /\ payers' \in [Emails -> SUBSET Users]
        /\ steady' \in BOOLEAN
    BY <1>3, EmailDoneType DEF WriteEmail
  <2>2. tick[t].stats[e] \in Nat /\ tick[t].price[e] \in Nat
    BY <1>0, <1>3, NoneFacts, WeightsAssumption DEF WriteEmail, TickStates, TodoOK, Raw
  <2>. DEFINE delta == Delta(tick[t].old.last, tick[t].stats[e], tick[t].restart)
              row == IF ~tick[t].old.exists THEN InsertedEmail(t, e)
                                            ELSE UpdatedEmail(t, e)
  <2>3. tick[t].attr[e] \in Names /\ delta \in Nat /\ NewTotal(t) \in Nat
    <3>1. tick[t].old.last \in Nat /\ tick[t].old.total \in Nat /\ tick[t].restart \in BOOLEAN
      BY <1>0 DEF TickStates, OldRows
    <3>2. tick[t].attr[e] \in Names
      BY <1>0 DEF TickStates
    <3>3. delta \in Nat
      BY <3>1, <2>2, DeltaType
    <3>4. NewTotal(t) \in Nat
      BY <3>1 DEF NewTotal
    <3>. QED
      BY <3>2, <3>3, <3>4
  <2>4. delta * tick[t].price[e] \in Nat
    BY <2>2, <2>3, ProductType
  <2>5. InsertedEmail(t, e) \in EmailRows
    BY <2>2, <2>3 DEF InsertedEmail, NoEmailRow, EmailRows
  <2>6. UpdatedEmail(t, e) \in EmailRows
    <3>1. UpdatedEmail(t, e) =
            [email[e] EXCEPT !.up = @ + delta, !.weighted = @ + delta * tick[t].price[e],
                             !.total = NewTotal(t), !.last = tick[t].stats[e],
                             !.user = tick[t].attr[e]]
      BY DEF UpdatedEmail, Priced, delta
    <3>2. email[e] \in EmailRows
      BY DEF TInv, TypeOK
    <3>. HIDE DEF delta
    <3>3. /\ email[e].up \in Nat /\ email[e].weighted \in Nat
          /\ email[e].up + delta \in Nat
          /\ email[e].weighted + delta * tick[t].price[e] \in Nat
      BY <3>2, <2>3, <2>4 DEF EmailRows
    <3>. QED
      BY <3>1, <3>2, <3>3, <2>2, <2>3 DEF EmailRows
  <2>7. email' \in [Emails -> EmailRows]
    BY <1>3, <2>5, <2>6 DEF WriteEmail, TInv, TypeOK
  <2>8. tick[t].life[e] \in Lives
    BY <1>0 DEF TickStates
  <2>9. counted' \in [Emails -> Lives] /\ born' \in [Emails -> [life : Lives, raw : Nat]]
    BY <1>3, <2>2, <2>8 DEF WriteEmail, TInv, TypeOK
  <2>. QED
    BY <1>3, <2>1, <2>7, <2>9 DEF WriteEmail, TInv, TypeOK, xrayVars, configVars
<1>. QED
  BY <1>1, <1>2, <1>3

\* The second loop, over the users, and the ends of a report.
LEMMA UserStepTypes ==
  ASSUME TInv, NEW t \in Ticks, NEW u \in Users,
         ReadUser(t, u) \/ WriteUser(t, u) \/ UserFails(t, u)
  PROVE  TInv'
<1>0. tick[t] \in TickStates /\ TodoOK(tick[t])
  BY DEF TInv, TypeOK
<1>a. seen \in Boots \cup {None} /\ orderly \in BOOLEAN
  BY DEF TInv, TypeOK
<1>b. UserDone(t, u) /\ tick[t].pc = "users"
        => tick' \in [Ticks -> TickStates] /\ \A s \in Ticks : TodoOK(tick'[s])
  <2>. SUFFICES ASSUME UserDone(t, u), tick[t].pc = "users"
                PROVE  tick' \in [Ticks -> TickStates] /\ \A s \in Ticks : TodoOK(tick'[s])
    OBVIOUS
  <2>. DEFINE new == [tick[t] EXCEPT !.at = None, !.old = NoOld, !.todo = @ \ {u}]
  <2>1. NoOld \in OldRows
    BY DEF NoOld, OldRows
  <2>2. new \in TickStates
    BY <1>0, <2>1 DEF TickStates
  <2>3. TodoOK(new)
    BY <1>0 DEF TickStates, TodoOK
  <2>4. Go(t, new)
    BY DEF UserDone
  <2>. QED
    BY <2>2, <2>3, <2>4, GoType DEF TInv, TypeOK
<1>1. CASE ReadUser(t, u)
  <2>. DEFINE new == [tick[t] EXCEPT !.at = u, !.old = OldRow(user[u])]
  <2>1. new \in TickStates
    BY <1>0, RowTypes DEF TickStates
  <2>2. TodoOK(new)
    BY <1>0, <1>1 DEF TickStates, TodoOK, ReadUser
  <2>3. Go(t, new)
    BY <1>1 DEF ReadUser
  <2>4. tick' \in [Ticks -> TickStates] /\ \A s \in Ticks : TodoOK(tick'[s])
    BY <2>1, <2>2, <2>3, GoType DEF TInv, TypeOK
  <2>. QED
    BY <1>1, <1>a, <2>4, OnlyTick DEF ReadUser
<1>2. CASE UserFails(t, u)
  <2>1. tick' \in [Ticks -> TickStates] /\ \A s \in Ticks : TodoOK(tick'[s])
    BY <1>2, <1>b DEF UserFails
  <2>. QED
    BY <1>2, <1>a, <2>1, OnlyTick DEF UserFails
<1>3. CASE WriteUser(t, u)
  <2>1. tick' \in [Ticks -> TickStates] /\ \A s \in Ticks : TodoOK(tick'[s])
    BY <1>3, <1>b DEF WriteUser
  <2>. DEFINE raw == tick[t].sum[u]
              delta == Delta(tick[t].old.last, raw, tick[t].restart)
  <2>2. raw \in Nat
    BY <1>0 DEF TickStates
  <2>3. tick[t].old.last \in Nat /\ tick[t].old.total \in Nat /\ tick[t].restart \in BOOLEAN
    BY <1>0 DEF TickStates, OldRows
  <2>4. delta \in Nat
    BY <2>2, <2>3, DeltaType
  <2>5. NewTotal(t) \in Nat
    BY <2>3 DEF NewTotal
  <2>6. InsertedUser(t, u) \in UserRows
    BY <2>2 DEF InsertedUser, NoUserRow, UserRows
  <2>7. UpdatedUser(t, u) \in UserRows
    <3>1. UpdatedUser(t, u) = [user[u] EXCEPT !.up = @ + delta, !.total = NewTotal(t),
                                              !.last = raw]
      BY DEF UpdatedUser
    <3>. HIDE DEF delta, raw
    <3>2. user[u] \in UserRows
      BY DEF TInv, TypeOK
    <3>3. user[u].up \in Nat /\ user[u].up + delta \in Nat
      BY <3>2, <2>4 DEF UserRows
    <3>. QED
      BY <3>1, <3>2, <3>3, <2>2, <2>5 DEF UserRows
  <2>8. user' \in [Users -> UserRows]
    BY <1>3, <2>6, <2>7 DEF WriteUser, TInv, TypeOK
  <2>. QED
    BY <1>3, <2>1, <2>8 DEF WriteUser, TInv, TypeOK, xrayVars, configVars, payVars
<1>. QED
  BY <1>1, <1>2, <1>3

LEMMA EndTypes ==
  ASSUME TInv,
         \/ \E t \in Ticks : EmailsDone(t) \/ Finish(t)
         \/ PanelRestarts
  PROVE  TInv'
<1>a. seen \in Boots \cup {None} /\ orderly \in BOOLEAN
  BY DEF TInv, TypeOK
<1>1. ASSUME NEW t \in Ticks, EmailsDone(t) PROVE TInv'
  <2>. DEFINE todo == tick[t].met
              new == [Idle EXCEPT !.pc = "users", !.restart = tick[t].restart,
                                  !.todo = todo, !.sum = tick[t].sum]
  <2>0. tick[t] \in TickStates
    BY DEF TInv, TypeOK
  <2>1. new \in TickStates
    <3>1. todo \in SUBSET (Emails \cup Users)
      BY <2>0 DEF TickStates
    <3>. HIDE DEF todo
    <3>. QED
      BY <2>0, <3>1, IdleType DEF TickStates
  <2>2. TodoOK(new)
    BY DEF TodoOK, Idle
  <2>3. Go(t, new)
    BY <1>1 DEF EmailsDone
  <2>4. tick' \in [Ticks -> TickStates] /\ \A s \in Ticks : TodoOK(tick'[s])
    BY <2>1, <2>2, <2>3, GoType DEF TInv, TypeOK
  <2>. QED
    BY <1>1, <1>a, <2>4, OnlyTick DEF EmailsDone
<1>2. ASSUME NEW t \in Ticks, Finish(t) PROVE TInv'
  <2>1. Go(t, Idle)
    BY <1>2 DEF Finish
  <2>2. tick' \in [Ticks -> TickStates] /\ \A s \in Ticks : TodoOK(tick'[s])
    BY <2>1, IdleType, GoType DEF TInv, TypeOK
  <2>. QED
    BY <1>2, <1>a, <2>2, OnlyTick DEF Finish
<1>3. CASE PanelRestarts
  <2>1. tick' \in [Ticks -> TickStates] /\ \A s \in Ticks : TodoOK(tick'[s])
    BY <1>3, IdleType DEF PanelRestarts
  <2>. QED
    BY <1>3, <1>a, <2>1, OnlyTick DEF PanelRestarts
<1>. QED
  BY <1>1, <1>2, <1>3

LEMMA NextTInv == TInv /\ [Next]_vars => TInv'
<1>. SUFFICES ASSUME TInv, [Next]_vars PROVE TInv'
  OBVIOUS
<1>1. CASE ServerStep
  BY <1>1, ServerTypes
<1>2. CASE AdminStep
  BY <1>2, AdminTypes
<1>3. CASE PanelRestarts
  BY <1>3, EndTypes
<1>4. ASSUME NEW t \in Ticks, TickStep(t) PROVE TInv'
  BY <1>4, ReportTypes, RowStepTypes, UserStepTypes, EndTypes DEF TickStep, Names
<1>5. CASE UNCHANGED vars
  BY <1>5 DEF TInv, TypeOK, vars
<1>. QED
  BY <1>1, <1>2, <1>3, <1>4, <1>5 DEF Next

\* In every reachable state the counters, the rows and what a goroutine
\* carries have their types; above all no row ever holds a negative count,
\* whatever reports overlap, fail or arrive out of order.
THEOREM TypeCorrect == Spec => []TypeOK
<1>1. TInv => TypeOK
  BY DEF TInv
<1>. QED
  BY <1>1, InitTInv, NextTInv, PTL DEF Spec

-----------------------------------------------------------------------------
(* What a client has used is never taken back.                               *)

\* A row that is not there is empty, and no cycle has used less than nothing.
RowsOK ==
    \A e \in Emails :
        /\ ~email[e].exists => email[e] = NoEmailRow
        /\ email[e].base <= email[e].weighted

\* A row that a goroutine has found is still there.
FoundRows ==
    \A t \in Ticks :
        tick[t].pc = "emails" /\ tick[t].at # None /\ tick[t].old.exists
            => email[tick[t].at].exists

HistoryStep ==
    \A e \in Emails : /\ email'[e].up >= email[e].up
                      /\ email'[e].weighted >= email[e].weighted
                      /\ email'[e].base >= email[e].base
                      /\ email'[e].base <= email'[e].weighted

LEMMA ResetHistory ==
  ASSUME TInv, RowsOK, NEW u \in Users, ResetCycle(u)
  PROVE  RowsOK' /\ HistoryStep
<1>1. ASSUME NEW e \in Emails
      PROVE  /\ ~email'[e].exists => email'[e] = NoEmailRow
             /\ email'[e].up = email[e].up /\ email'[e].weighted = email[e].weighted
             /\ email'[e].base >= email[e].base /\ email'[e].base <= email'[e].weighted
  <2>0. /\ email[e] \in EmailRows
        /\ ~email[e].exists => email[e] = NoEmailRow
        /\ email[e].base <= email[e].weighted
    BY DEF TInv, TypeOK, RowsOK
  <2>1. CASE email[e].user = u
    <3>1. email'[e] = ResetRow(email[e])
      BY <2>1 DEF ResetCycle
    <3>2. email[e].exists
      BY <2>0, <2>1, NoneFacts DEF NoEmailRow
    <3>. QED
      BY <2>0, <3>1, <3>2 DEF ResetRow, EmailRows
  <2>2. CASE email[e].user # u
    BY <2>0, <2>2 DEF ResetCycle, EmailRows
  <2>. QED
    BY <2>1, <2>2
<1>2. \A e \in Emails : email[e] \in EmailRows
  BY DEF TInv, TypeOK
<1>. QED
  BY <1>1, <1>2 DEF RowsOK, HistoryStep, EmailRows

LEMMA WriteHistory ==
  ASSUME TInv, RowsOK, FoundRows, NEW t \in Ticks, NEW e \in Emails, NEW who \in Names,
         WriteEmail(t, e, who)
  PROVE  RowsOK' /\ HistoryStep
<1>. DEFINE delta == Delta(tick[t].old.last, tick[t].stats[e], tick[t].restart)
<1>0. /\ tick[t] \in TickStates /\ TodoOK(tick[t])
      /\ \A f \in Emails : email[f] \in EmailRows
      /\ email \in [Emails -> EmailRows]
  BY DEF TInv, TypeOK
<1>1. tick[t].stats[e] \in Nat /\ tick[t].price[e] \in Nat
  BY <1>0, NoneFacts, WeightsAssumption DEF WriteEmail, TickStates, TodoOK, Raw
<1>2. tick[t].old.last \in Nat /\ tick[t].restart \in BOOLEAN
  BY <1>0 DEF TickStates, OldRows
<1>3. delta \in Nat
  BY <1>1, <1>2, DeltaType
<1>4. delta * tick[t].price[e] \in Nat
  BY <1>1, <1>3, ProductType
<1>5. \A f \in Emails \ {e} : email'[f] = email[f]
  BY <1>0 DEF WriteEmail
<1>6. /\ email'[e].exists
      /\ email'[e].up >= email[e].up /\ email'[e].weighted >= email[e].weighted
      /\ email'[e].base = email[e].base
  <2>1. CASE tick[t].old.exists
    <3>1. email'[e] = UpdatedEmail(t, e)
      BY <1>0, <2>1 DEF WriteEmail
    <3>2. UpdatedEmail(t, e) =
            [email[e] EXCEPT !.up = @ + delta, !.weighted = @ + delta * tick[t].price[e],
                             !.total = NewTotal(t), !.last = tick[t].stats[e],
                             !.user = tick[t].attr[e]]
      BY DEF UpdatedEmail, Priced
    <3>3. email[e].exists
      BY <2>1, NoneFacts DEF WriteEmail, FoundRows
    <3>. HIDE DEF delta
    <3>. QED
      BY <1>0, <1>3, <1>4, <3>1, <3>2, <3>3 DEF EmailRows
  <2>2. CASE ~tick[t].old.exists
    <3>1. email'[e] = InsertedEmail(t, e) /\ ~email[e].exists
      BY <1>0, <2>2 DEF WriteEmail
    <3>2. email[e] = NoEmailRow
      BY <3>1 DEF RowsOK
    <3>. QED
      BY <3>1, <3>2 DEF InsertedEmail, NoEmailRow
  <2>. QED
    BY <2>1, <2>2
<1>7. \A f \in Emails : /\ ~email[f].exists => email[f] = NoEmailRow
                        /\ email[f].base <= email[f].weighted
  BY DEF RowsOK
<1>8. email' \in [Emails -> EmailRows]
  BY RowStepTypes DEF TInv, TypeOK
<1>. QED
  BY <1>0, <1>5, <1>6, <1>7, <1>8 DEF RowsOK, HistoryStep, EmailRows

\* The only steps that touch the rows of clients.
LEMMA RowSteps ==
  ASSUME [Next]_vars
  PROVE  \/ UNCHANGED email
         \/ \E u \in Users : ResetCycle(u)
         \/ \E t \in Ticks, e \in Emails, who \in Names : WriteEmail(t, e, who)
<1>1. ServerStep => UNCHANGED email
  BY DEF ServerStep, XrayRestarts, Heartbeat, Transfer, RemoveClient, AddClient, rowVars
<1>2. AdminStep => UNCHANGED email \/ \E u \in Users : ResetCycle(u)
  BY DEF AdminStep, MoveNode, SetWeight, rowVars
<1>3. ASSUME NEW t \in Ticks, TickStep(t)
      PROVE  UNCHANGED email \/ \E e \in Emails, who \in Names : WriteEmail(t, e, who)
  BY <1>3 DEF TickStep, PushArrives, PushLookup, PullListed, PullFetched, Judge,
              ReadEmail, EmailFails, EmailsDone, ReadUser, WriteUser, UserFails,
              Finish, rowVars
<1>4. PanelRestarts => UNCHANGED email
  BY DEF PanelRestarts, rowVars
<1>. QED
  BY <1>1, <1>2, <1>3, <1>4 DEF Next, vars

LEMMA NextHistory ==
  ASSUME TInv, RowsOK, FoundRows, [Next]_vars
  PROVE  RowsOK' /\ HistoryStep
<1>1. ASSUME UNCHANGED email PROVE RowsOK' /\ HistoryStep
  BY <1>1 DEF RowsOK, HistoryStep, TInv, TypeOK, EmailRows
<1>. QED
  BY <1>1, ResetHistory, WriteHistory, RowSteps

LEMMA OthersStay ==
  ASSUME tick \in [Ticks -> TickStates], NEW t \in Ticks, TickStep(t)
  PROVE  \A s \in Ticks \ {t} : tick'[s] = tick[s]
BY DEF TickStep, PushArrives, PushLookup, PullListed, PullFetched, Judge, ReadEmail,
       WriteEmail, EmailFails, EmailDone, EmailsDone, ReadUser, WriteUser, UserFails,
       UserDone, Finish, Go

\* After a step a goroutine holds a row of a client only if it has just read it.
LEMMA ReadOrDone ==
  ASSUME TInv, NEW t \in Ticks, TickStep(t)
  PROVE  \/ \E e \in Emails : ReadEmail(t, e)
         \/ tick'[t].at = None \/ tick'[t].pc # "emails"
<1>0. tick \in [Ticks -> TickStates] /\ TodoOK(tick[t])
  BY DEF TInv, TypeOK
<1>1. ASSUME PushArrives(t) \/ PullListed(t) \/ Finish(t) \/ EmailsDone(t)
      PROVE  tick'[t].pc # "emails"
  <2>1. Idle \in TickStates /\ Idle.pc = "idle"
    BY IdleType DEF Idle
  <2>2. ASSUME PushArrives(t) PROVE tick'[t].pc # "emails"
    BY <1>0, <2>1, <2>2 DEF PushArrives, Go, TickStates
  <2>3. ASSUME PullListed(t) PROVE tick'[t].pc # "emails"
    BY <1>0, <2>1, <2>3 DEF PullListed, Go, TickStates
  <2>4. ASSUME Finish(t) PROVE tick'[t].pc # "emails"
    BY <1>0, <2>1, <2>4 DEF Finish, Go
  <2>5. ASSUME EmailsDone(t) PROVE tick'[t].pc # "emails"
    BY <1>0, <2>1, <2>5 DEF EmailsDone, Go, TickStates
  <2>. QED
    BY <1>1, <2>2, <2>3, <2>4, <2>5
<1>2. ASSUME PushLookup(t) \/ PullFetched(t) PROVE tick'[t].pc # "emails"
  <2>0. tick[t] \in TickStates
    BY <1>0
  <2>1. ASSUME PushLookup(t) PROVE tick'[t].pc # "emails"
    <3>1. PICK b : Go(t, [tick[t] EXCEPT !.pc = "judge", !.boot = b])
      BY <2>1 DEF PushLookup
    <3>. QED
      BY <1>0, <2>0, <3>1 DEF Go, TickStates
  <2>2. ASSUME PullFetched(t) PROVE tick'[t].pc # "emails"
    BY <1>0, <2>0, <2>2 DEF PullFetched, Go, TickStates
  <2>. QED
    BY <1>2, <2>1, <2>2
<1>3. ASSUME Judge(t) PROVE tick'[t].at = None
  <2>1. tick[t].at = None /\ tick[t] \in TickStates
    BY <1>0, <1>3 DEF Judge, TodoOK
  <2>2. tick'[t].at = tick[t].at
    BY <1>0, <1>3, <2>1 DEF Judge, Go, TickStates
  <2>. QED
    BY <2>1, <2>2
<1>4. ASSUME NEW e \in Emails, NEW who \in Names,
             WriteEmail(t, e, who) \/ EmailFails(t, e, who)
      PROVE  tick'[t].at = None
  <2>1. EmailDone(t, e, who)
    BY <1>4 DEF WriteEmail, EmailFails
  <2>. QED
    BY <1>0, <2>1 DEF EmailDone, Go, TickStates
<1>5. ASSUME NEW u \in Users, WriteUser(t, u) \/ UserFails(t, u)
      PROVE  tick'[t].at = None
  <2>1. UserDone(t, u)
    BY <1>5 DEF WriteUser, UserFails
  <2>. QED
    BY <1>0, <2>1 DEF UserDone, Go, TickStates
<1>6. ASSUME NEW u \in Users, ReadUser(t, u) PROVE tick'[t].pc # "emails"
  BY <1>0, <1>6 DEF ReadUser, Go, TickStates
<1>. QED
  BY <1>1, <1>2, <1>3, <1>4, <1>5, <1>6 DEF TickStep

\* No step takes a row away, and what a goroutine has found stays so.
LEMMA NextFound ==
  ASSUME TInv, RowsOK, FoundRows, [Next]_vars
  PROVE  FoundRows'
<1>. DEFINE Kept == \A e \in Emails : email[e].exists => email'[e].exists
            Safe(k) == k.pc = "emails" /\ k.at # None /\ k.old.exists
                         => k.at \in Emails /\ email'[k.at].exists
<1>0. /\ tick \in [Ticks -> TickStates] /\ \A t \in Ticks : TodoOK(tick[t])
      /\ email \in [Emails -> EmailRows]
  BY DEF TInv, TypeOK
<1>1. Kept
  <2>1. ASSUME NEW e \in Emails, email[e].exists PROVE email'[e].exists
    <3>1. CASE UNCHANGED email
      BY <2>1, <3>1
    <3>2. ASSUME NEW u \in Users, ResetCycle(u) PROVE email'[e].exists
      BY <1>0, <2>1, <3>2 DEF ResetCycle, ResetRow, EmailRows
    <3>3. ASSUME NEW t \in Ticks, NEW f \in Emails, NEW who \in Names,
                 WriteEmail(t, f, who)
          PROVE  email'[e].exists
      BY <1>0, <2>1, <3>3 DEF WriteEmail, InsertedEmail, UpdatedEmail, NoEmailRow, EmailRows
    <3>. QED
      BY <3>1, <3>2, <3>3, RowSteps
  <2>. QED
    BY <2>1
<1>2. \A s \in Ticks : Safe(tick[s])
  BY <1>0, <1>1, NoneFacts DEF FoundRows, TodoOK
<1>3. CASE UNCHANGED tick
  BY <1>2, <1>3 DEF FoundRows
<1>4. ASSUME NEW t \in Ticks, Safe(tick'[t]), \A s \in Ticks \ {t} : tick'[s] = tick[s]
      PROVE  FoundRows'
  BY <1>2, <1>4 DEF FoundRows
<1>5. ASSUME NEW t \in Ticks, TickStep(t) PROVE FoundRows'
  <2>1. \A s \in Ticks \ {t} : tick'[s] = tick[s]
    BY <1>5, <1>0, OthersStay
  <2>2. CASE \E e \in Emails : ReadEmail(t, e)
    <3>1. PICK e \in Emails : ReadEmail(t, e)
      BY <2>2
    <3>2. tick'[t].at = e /\ tick'[t].old = OldRow(email[e])
      BY <1>0, <3>1 DEF ReadEmail, Go, TickStates
    <3>3. Safe(tick'[t])
      BY <1>0, <1>1, <3>2 DEF OldRow
    <3>. QED
      BY <1>4, <2>1, <3>3
  <2>3. CASE tick'[t].at = None \/ tick'[t].pc # "emails"
    BY <1>4, <2>1, <2>3
  <2>. QED
    BY <1>5, <2>2, <2>3, ReadOrDone
<1>6. CASE PanelRestarts
  BY <1>6 DEF PanelRestarts, FoundRows, Idle
<1>7. ServerStep \/ AdminStep \/ UNCHANGED vars => UNCHANGED tick
  BY DEF ServerStep, XrayRestarts, Heartbeat, Transfer, RemoveClient, AddClient,
         AdminStep, MoveNode, SetWeight, ResetCycle, vars
<1>. QED
  BY <1>3, <1>5, <1>6, <1>7 DEF Next

\* Whatever reports overlap, fail or are processed twice, and whenever cycles
\* are reset: the traffic and the weighted traffic of a client's row never
\* shrink, and a reset moves the base up, never past what has been used.
THEOREM HistoryKept == Spec => HistoryNeverShrinks
<1>1. Init => RowsOK /\ FoundRows
  BY DEF Init, RowsOK, FoundRows, NoEmailRow, Idle
<1>2. TInv /\ RowsOK /\ FoundRows /\ [Next]_vars => RowsOK' /\ FoundRows' /\ HistoryStep
  BY NextHistory, NextFound
<1>3. TInv /\ RowsOK /\ FoundRows /\ [Next]_vars => [HistoryStep]_vars
  BY <1>2
<1>4. Spec => [][HistoryStep]_vars
  BY <1>1, <1>2, <1>3, InitTInv, NextTInv, PTL DEF Spec
<1>. QED
  BY <1>4 DEF HistoryNeverShrinks, HistoryStep

-----------------------------------------------------------------------------
(* Sums over a finite set.                                                   *)

\* A sum over S adds one element after the other, in the order that Pick chooses.
Pick(s) == CHOOSE x \in s : TRUE
Less(s) == s \ {Pick(s)}
IsSum(g, f, S) == g = [s \in SUBSET S |-> IF s = {} THEN 0 ELSE f[Pick(s)] + g[Less(s)]]
Sum(f, S) == (CHOOSE g : IsSum(g, f, S))[S]
Summable(f, S) == \E g : IsSum(g, f, S)

\* The sum of the community modules.
LEMMA SumIs == \A f, S : SumFunctionOnSet(f, S) = Sum(f, S)
  BY DEF SumFunctionOnSet, FoldFunctionOnSet, MapThenFoldSet, IsSum, Pick, Less, Sum

\* Every set of subsets of a finite set that has a member has a least one:
\* induction over a finite set is the search for a least counterexample.
LEMMA Least ==
  ASSUME NEW S, IsFiniteSet(S), NEW T \in SUBSET SUBSET S, T # {}
  PROVE  \E x \in T : \A y \in T : y \subseteq x => y = x
<1>1. IsWellFoundedOn(StrictSubsetOrdering(S), SUBSET S)
  BY FS_StrictSubsetOrderingWellFounded, FS_FiniteSubsetsOfFinite
<1>2. PICK x \in T : \A y \in T : ~ (<<y, x>> \in StrictSubsetOrdering(S))
  BY <1>1, WFMin
<1>. QED
  BY <1>2 DEF StrictSubsetOrdering

LEMMA LessFacts ==
  ASSUME NEW s, s # {}
  PROVE  Pick(s) \in s /\ Less(s) \subseteq s /\ Less(s) # s
  BY DEF Pick, Less

\* The sum of a subset does not depend on the set it is a subset of.
LEMMA SumUnique ==
  ASSUME NEW S, IsFiniteSet(S), NEW f, NEW g, NEW h, IsSum(g, f, S),
         NEW U \in SUBSET S, IsSum(h, f, U)
  PROVE  \A s \in SUBSET U : g[s] = h[s]
<1>. DEFINE T == {s \in SUBSET U : g[s] # h[s]}
<1>1. SUFFICES ASSUME T # {} PROVE FALSE
  OBVIOUS
<1>2. PICK s \in T : \A y \in T : y \subseteq s => y = s
  <2>1. T \in SUBSET SUBSET S
    OBVIOUS
  <2>. HIDE DEF T
  <2>. QED
    BY <1>1, <2>1, Least
<1>3. CASE s = {}
  <2>1. g[s] = 0 /\ h[s] = 0
    BY <1>3 DEF IsSum
  <2>. QED
    BY <2>1
<1>4. CASE s # {}
  <2>1. Less(s) \in SUBSET U /\ Less(s) \notin T
    BY <1>2, <1>4, LessFacts
  <2>2. g[Less(s)] = h[Less(s)]
    BY <2>1
  <2>3. g[s] = f[Pick(s)] + g[Less(s)]
    BY <1>4 DEF IsSum
  <2>4. h[s] = f[Pick(s)] + h[Less(s)]
    BY <1>4 DEF IsSum
  <2>. QED
    BY <2>2, <2>3, <2>4
<1>. QED
  BY <1>3, <1>4

LEMMA SumExists ==
  ASSUME NEW S, IsFiniteSet(S), NEW f
  PROVE  \A T \in SUBSET S : Summable(f, T)
<1>. DEFINE Bad == {s \in SUBSET S : ~Summable(f, s)}
            G(s) == CHOOSE g : IsSum(g, f, s)
<1>1. SUFFICES ASSUME Bad # {} PROVE FALSE
  OBVIOUS
<1>2. PICK T \in Bad : \A y \in Bad : y \subseteq T => y = T
  <2>1. Bad \in SUBSET SUBSET S
    OBVIOUS
  <2>. HIDE DEF Bad
  <2>. QED
    BY <1>1, <2>1, Least
<1>3. ASSUME NEW s \in SUBSET T, s # T PROVE IsSum(G(s), f, s)
  <2>1. Summable(f, s)
    BY <1>2, <1>3
  <2>. QED
    BY <2>1 DEF Summable
<1>4. PICK g : g = [s \in SUBSET T |-> IF s = {} THEN 0 ELSE f[Pick(s)] + G(Less(s))[Less(s)]]
  OBVIOUS
<1>5. ASSUME NEW s \in SUBSET T, s # T PROVE g[s] = G(s)[s]
  <2>. HIDE DEF G
  <2>1. CASE s = {}
    BY <1>3, <1>4, <1>5, <2>1 DEF IsSum
  <2>2. CASE s # {}
    <3>1. Less(s) \in SUBSET s /\ Less(s) # T /\ Less(s) \in SUBSET T
      BY <1>5, <2>2, LessFacts
    <3>2. IsSum(G(s), f, s) /\ IsSum(G(Less(s)), f, Less(s)) /\ IsFiniteSet(s)
      BY <1>3, <1>5, <3>1, FS_Subset
    <3>3. G(s)[Less(s)] = G(Less(s))[Less(s)]
      BY <3>1, <3>2, SumUnique
    <3>4. G(s)[s] = f[Pick(s)] + G(s)[Less(s)]
      BY <2>2, <3>2 DEF IsSum
    <3>. QED
      BY <1>4, <2>2, <3>3, <3>4
  <2>. QED
    BY <2>1, <2>2
<1>6. ASSUME NEW s \in SUBSET T PROVE g[s] = IF s = {} THEN 0 ELSE f[Pick(s)] + g[Less(s)]
  <2>. HIDE DEF G
  <2>1. s # {} => Less(s) \in SUBSET T /\ Less(s) # T
    BY LessFacts
  <2>2. s # {} => g[Less(s)] = G(Less(s))[Less(s)]
    BY <1>5, <2>1
  <2>. QED
    BY <1>4, <2>2
<1>7. IsSum(g, f, T)
  BY <1>4, <1>6 DEF IsSum
<1>. QED
  BY <1>7 DEF Summable

LEMMA SumStep ==
  ASSUME NEW S, IsFiniteSet(S), NEW f
  PROVE  /\ Sum(f, {}) = 0
         /\ S # {} => Sum(f, S) = f[Pick(S)] + Sum(f, Less(S))
<1>. DEFINE G(s) == CHOOSE g : IsSum(g, f, s)
<1>1. \A s \in SUBSET S : IsSum(G(s), f, s) /\ Sum(f, s) = G(s)[s]
  BY SumExists DEF Summable, Sum
<1>. HIDE DEF G
<1>2. Sum(f, {}) = 0
  BY <1>1 DEF IsSum
<1>3. ASSUME S # {} PROVE Sum(f, S) = f[Pick(S)] + Sum(f, Less(S))
  <2>1. Less(S) \in SUBSET S
    BY <1>3, LessFacts
  <2>2. G(S)[Less(S)] = G(Less(S))[Less(S)]
    BY <1>1, <2>1, SumUnique
  <2>3. G(S)[S] = f[Pick(S)] + G(S)[Less(S)]
    BY <1>1, <1>3 DEF IsSum
  <2>. QED
    BY <1>1, <2>1, <2>2, <2>3
<1>. QED
  BY <1>2, <1>3

\* Sums of natural numbers.
LEMMA SumNat ==
  ASSUME NEW S, IsFiniteSet(S), NEW f, \A e \in S : f[e] \in Nat
  PROVE  Sum(f, S) \in Nat
<1>. DEFINE Bad == {s \in SUBSET S : Sum(f, s) \notin Nat}
<1>1. SUFFICES ASSUME Bad # {} PROVE FALSE
  OBVIOUS
<1>2. PICK T \in Bad : \A y \in Bad : y \subseteq T => y = T
  <2>1. Bad \in SUBSET SUBSET S
    OBVIOUS
  <2>. HIDE DEF Bad
  <2>. QED
    BY <1>1, <2>1, Least
<1>3. IsFiniteSet(T) /\ T # {}
  <2>1. Sum(f, {}) = 0
    BY SumStep
  <2>2. T \in SUBSET S /\ Sum(f, T) \notin Nat
    BY <1>2
  <2>3. T # {}
    BY <2>1, <2>2
  <2>. QED
    BY <2>2, <2>3, FS_Subset
<1>4. Pick(T) \in T /\ Less(T) \in SUBSET S /\ Less(T) \notin Bad
  BY <1>2, <1>3, LessFacts
<1>. QED
  BY <1>3, <1>4, SumStep

\* A sum whose summands differ at one place only.
LEMMA SumAt ==
  ASSUME NEW S, IsFiniteSet(S), NEW f, NEW g, NEW e,
         \A x \in S : f[x] \in Nat /\ g[x] \in Nat,
         \A x \in S \ {e} : g[x] = f[x]
  PROVE  Sum(g, S) = IF e \in S THEN Sum(f, S) + (g[e] - f[e]) ELSE Sum(f, S)
<1>. DEFINE Ok(s) == Sum(g, s) = IF e \in s THEN Sum(f, s) + (g[e] - f[e]) ELSE Sum(f, s)
            Bad == {s \in SUBSET S : ~Ok(s)}
<1>1. SUFFICES ASSUME Bad # {} PROVE FALSE
  OBVIOUS
<1>2. PICK T \in Bad : \A y \in Bad : y \subseteq T => y = T
  <2>1. Bad \in SUBSET SUBSET S
    OBVIOUS
  <2>. HIDE DEF Bad
  <2>. QED
    BY <1>1, <2>1, Least
<1>3. IsFiniteSet(T) /\ T # {}
  BY SumStep, FS_Subset
<1>4. Pick(T) \in T /\ Less(T) \in SUBSET S /\ Ok(Less(T)) /\ Less(T) = T \ {Pick(T)}
  BY <1>2, <1>3, LessFacts DEF Less
<1>5. /\ Sum(f, T) = f[Pick(T)] + Sum(f, Less(T)) /\ Sum(g, T) = g[Pick(T)] + Sum(g, Less(T))
      /\ Sum(f, Less(T)) \in Nat /\ Sum(g, Less(T)) \in Nat
  BY <1>3, <1>4, SumStep, SumNat, FS_Subset
<1>6. f[Pick(T)] \in Nat /\ g[Pick(T)] \in Nat
  BY <1>4
<1>7. CASE e = Pick(T)
  <2>1. Sum(g, Less(T)) = Sum(f, Less(T))
    BY <1>4, <1>7
  <2>. QED
    BY <1>4, <1>5, <1>6, <1>7, <2>1
<1>8. CASE e # Pick(T)
  <2>1. (e \in T <=> e \in Less(T)) /\ g[Pick(T)] = f[Pick(T)] /\ (e \in T => e \in S)
    BY <1>4, <1>8
  <2>. QED
    BY <1>4, <1>5, <1>6, <2>1
<1>. QED
  BY <1>7, <1>8

LEMMA SumZero ==
  ASSUME NEW S, IsFiniteSet(S), NEW f, \A x \in S : f[x] = 0
  PROVE  Sum(f, S) = 0
<1>. DEFINE Bad == {s \in SUBSET S : Sum(f, s) # 0}
<1>1. SUFFICES ASSUME Bad # {} PROVE FALSE
  OBVIOUS
<1>2. PICK T \in Bad : \A y \in Bad : y \subseteq T => y = T
  <2>1. Bad \in SUBSET SUBSET S
    OBVIOUS
  <2>. HIDE DEF Bad
  <2>. QED
    BY <1>1, <2>1, Least
<1>3. IsFiniteSet(T) /\ T # {}
  BY SumStep, FS_Subset
<1>4. Pick(T) \in T /\ Less(T) \in SUBSET S /\ Less(T) \notin Bad
  BY <1>2, <1>3, LessFacts
<1>. QED
  BY <1>3, <1>4, SumStep

\* An element may be taken out of a sum at any place.
LEMMA SumRemove ==
  ASSUME NEW S, IsFiniteSet(S), NEW f, \A x \in S : f[x] \in Nat
  PROVE  \A x \in S : Sum(f, S) = f[x] + Sum(f, S \ {x})
<1>. DEFINE Ok(s) == \A x \in s : Sum(f, s) = f[x] + Sum(f, s \ {x})
            Bad == {s \in SUBSET S : ~Ok(s)}
<1>1. SUFFICES ASSUME Bad # {} PROVE FALSE
  OBVIOUS
<1>2. PICK T \in Bad : \A y \in Bad : y \subseteq T => y = T
  <2>1. Bad \in SUBSET SUBSET S
    OBVIOUS
  <2>. HIDE DEF Bad
  <2>. QED
    BY <1>1, <2>1, Least
<1>3. \A y \in SUBSET T : y # T => Ok(y)
  BY <1>2
<1>4. PICK x \in T : Sum(f, T) # f[x] + Sum(f, T \ {x})
  BY <1>2
<1>. HIDE DEF Bad
<1>5. T \subseteq S /\ IsFiniteSet(T) /\ T # {}
  BY <1>2, <1>4, FS_Subset DEF Bad
<1>. DEFINE p == Pick(T)
<1>6. p \in T /\ Sum(f, T) = f[p] + Sum(f, T \ {p})
  BY <1>5, LessFacts, SumStep DEF Less
<1>7. p # x
  BY <1>4, <1>6
<1>8. Sum(f, T \ {p}) = f[x] + Sum(f, (T \ {p}) \ {x})
  <2>1. T \ {p} \in SUBSET T /\ T \ {p} # T /\ x \in T \ {p}
    BY <1>6, <1>7
  <2>. QED
    BY <1>3, <2>1
<1>9. Sum(f, T \ {x}) = f[p] + Sum(f, (T \ {x}) \ {p})
  <2>1. T \ {x} \in SUBSET T /\ T \ {x} # T /\ p \in T \ {x}
    BY <1>6, <1>7
  <2>. QED
    BY <1>3, <2>1
<1>10. (T \ {p}) \ {x} = (T \ {x}) \ {p} /\ IsFiniteSet((T \ {p}) \ {x})
  BY <1>5, FS_Subset
<1>11. f[p] \in Nat /\ f[x] \in Nat /\ Sum(f, (T \ {p}) \ {x}) \in Nat
  BY <1>5, <1>6, <1>10, SumNat
<1>. HIDE DEF p
<1>. QED
  BY <1>4, <1>6, <1>8, <1>9, <1>10, <1>11

\* A sum over a part is no larger, and as large if the rest is nothing.
LEMMA SumPart ==
  ASSUME NEW S, IsFiniteSet(S), NEW f, \A x \in S : f[x] \in Nat, NEW U \in SUBSET S
  PROVE  /\ Sum(f, U) <= Sum(f, S)
         /\ (\A x \in S \ U : f[x] = 0) => Sum(f, U) = Sum(f, S)
<1>. DEFINE Ok(s) == /\ Sum(f, U) <= Sum(f, s)
                     /\ (\A x \in s \ U : f[x] = 0) => Sum(f, U) = Sum(f, s)
            Bad == {s \in SUBSET S : U \subseteq s /\ ~Ok(s)}
<1>1. SUFFICES ASSUME Bad # {} PROVE FALSE
  OBVIOUS
<1>2. PICK T \in Bad : \A y \in Bad : y \subseteq T => y = T
  <2>1. Bad \in SUBSET SUBSET S
    OBVIOUS
  <2>. HIDE DEF Bad
  <2>. QED
    BY <1>1, <2>1, Least
<1>3. T \subseteq S /\ U \subseteq T /\ IsFiniteSet(T) /\ ~Ok(T)
  BY <1>2, FS_Subset
<1>4. Sum(f, T) \in Nat /\ Sum(f, U) \in Nat
  BY <1>3, SumNat, FS_Subset
<1>5. PICK x \in T : x \notin U
  BY <1>3, <1>4
<1>6. Sum(f, T) = f[x] + Sum(f, T \ {x}) /\ f[x] \in Nat
  BY <1>3, SumRemove
<1>7. Ok(T \ {x})
  BY <1>2, <1>3, <1>5
<1>8. Sum(f, T \ {x}) \in Nat
  BY <1>3, SumNat, FS_Subset
<1>. HIDE DEF Bad
<1>. QED
  BY <1>3, <1>4, <1>5, <1>6, <1>7, <1>8

\* A sum asks its summands only.
LEMMA SumSame ==
  ASSUME NEW S, IsFiniteSet(S), NEW f, NEW g, \A x \in S : f[x] \in Nat /\ g[x] = f[x]
  PROVE  Sum(g, S) = Sum(f, S)
<1>. PICK e : e \notin S
  <2>1. \E e : e \notin S
    <3>1. {x \in S : x \notin x} \notin S
      OBVIOUS
    <3>. QED
      BY <3>1
  <2>. QED
    BY <2>1
<1>. QED
  BY SumAt

-----------------------------------------------------------------------------
(* What a goroutine carries after one of its steps.                          *)

NoSum == [u \in Users |-> 0]

LEMMA ArriveShape ==
  ASSUME TInv, NEW t \in Ticks, PushArrives(t)
  PROVE  /\ tick'[t].pc = "arrived" /\ tick'[t].stats = Sample /\ tick'[t].life = Lifes
         /\ tick'[t].sampled = boot /\ tick'[t].sum = NoSum /\ tick[t] = Idle
         /\ UNCHANGED <<boot, adds, counter, carried, seen, email, user, counted, born>>
         /\ orderly' = (orderly /\ Alone(t))
<1>1. tick'[t] = [Idle EXCEPT !.pc = "arrived", !.stats = Sample, !.life = Lifes, !.sampled = boot]
  BY DEF PushArrives, Go, TInv, TypeOK
<1>. QED
  BY <1>1 DEF PushArrives, Idle, NoSum, rowVars, xrayVars

LEMMA ListShape ==
  ASSUME TInv, NEW t \in Ticks, PullListed(t)
  PROVE  /\ tick'[t].pc = "listed" /\ tick'[t].sum = NoSum /\ tick[t] = Idle
         /\ UNCHANGED <<boot, adds, counter, carried, seen, email, user, counted, born>>
         /\ orderly' = (orderly /\ Alone(t))
<1>1. tick'[t] = [Idle EXCEPT !.pc = "listed", !.boot = reported]
  BY DEF PullListed, Go, TInv, TypeOK
<1>. QED
  BY <1>1 DEF PullListed, Idle, NoSum, rowVars, xrayVars

LEMMA FetchShape ==
  ASSUME TInv, NEW t \in Ticks, PullFetched(t)
  PROVE  /\ tick'[t].pc = "judge" /\ tick'[t].stats = Sample /\ tick'[t].life = Lifes
         /\ tick'[t].sampled = boot /\ tick'[t].sum = tick[t].sum /\ tick[t].pc = "listed"
         /\ UNCHANGED <<boot, adds, counter, carried, seen, email, user, counted, born, orderly>>
<1>1. tick'[t] = [tick[t] EXCEPT !.pc = "judge", !.stats = Sample, !.life = Lifes, !.sampled = boot]
  BY DEF PullFetched, Go, TInv, TypeOK
<1>. QED
  BY <1>1 DEF PullFetched, TInv, TypeOK, TickStates, rowVars, xrayVars

LEMMA LookupShape ==
  ASSUME TInv, NEW t \in Ticks, PushLookup(t)
  PROVE  /\ tick'[t].pc = "judge" /\ tick[t].pc = "arrived"
         /\ tick'[t].stats = tick[t].stats /\ tick'[t].life = tick[t].life
         /\ tick'[t].sampled = tick[t].sampled /\ tick'[t].sum = tick[t].sum
         /\ UNCHANGED <<boot, adds, counter, carried, seen, email, user, counted, born, orderly>>
<1>1. PICK b \in {reported, None} : tick'[t] = [tick[t] EXCEPT !.pc = "judge", !.boot = b]
  BY DEF PushLookup, Go, TInv, TypeOK
<1>. QED
  BY <1>1 DEF PushLookup, TInv, TypeOK, TickStates, rowVars, xrayVars

LEMMA JudgeShape ==
  ASSUME TInv, NEW t \in Ticks, Judge(t)
  PROVE  /\ tick'[t].pc = "emails" /\ tick[t].pc = "judge"
         /\ tick'[t].stats = tick[t].stats /\ tick'[t].life = tick[t].life
         /\ tick'[t].todo = {e \in Emails : tick[t].stats[e] # None}
         /\ tick'[t].restart = Restarted(tick[t].boot) /\ tick'[t].sum = tick[t].sum
         /\ UNCHANGED <<boot, adds, counter, carried, email, user, counted, born>>
         /\ seen' = NowSeen(tick[t].boot) /\ orderly' = (orderly /\ BootTimeFits(t))
<1>1. PICK attr \in {owner, [e \in Emails |-> None]} : tick'[t] =
        [tick[t] EXCEPT !.pc = "emails", !.restart = Restarted(tick[t].boot), !.attr = attr,
                        !.price = [e \in Emails |-> IF attr[e] # None THEN weight[e] ELSE 1],
                        !.todo = {e \in Emails : tick[t].stats[e] # None}]
  BY DEF Judge, Go, TInv, TypeOK
<1>. QED
  BY <1>1 DEF Judge, TInv, TypeOK, TickStates, rowVars, xrayVars

LEMMA ReadEmailShape ==
  ASSUME TInv, NEW t \in Ticks, NEW e \in Emails, ReadEmail(t, e)
  PROVE  /\ tick'[t].pc = "emails" /\ tick[t].pc = "emails"
         /\ tick'[t].stats = tick[t].stats /\ tick'[t].life = tick[t].life
         /\ tick'[t].todo = tick[t].todo
         /\ tick'[t].restart = tick[t].restart /\ tick'[t].sum = tick[t].sum
         /\ UNCHANGED <<boot, adds, counter, carried, seen, email, user, counted, born, orderly>>
<1>1. tick'[t] = [tick[t] EXCEPT !.at = e, !.old = OldRow(email[e])]
  BY DEF ReadEmail, Go, TInv, TypeOK
<1>. QED
  BY <1>1 DEF ReadEmail, TInv, TypeOK, TickStates, rowVars, xrayVars

\* The end of a row, whether it was written or not.
LEMMA EmailDoneShape ==
  ASSUME TInv, NEW t \in Ticks, NEW e \in Emails, NEW who \in Names,
         WriteEmail(t, e, who) \/ EmailFails(t, e, who)
  PROVE  /\ tick'[t].pc = "emails" /\ tick[t].pc = "emails" /\ e \in tick[t].todo
         /\ tick'[t].stats = tick[t].stats /\ tick'[t].life = tick[t].life
         /\ tick'[t].todo = tick[t].todo \ {e} /\ tick'[t].restart = tick[t].restart
         /\ tick'[t].sum = [u \in Users |-> IF u = who THEN tick[t].sum[u] + tick[t].stats[e]
                                                      ELSE tick[t].sum[u]]
         /\ payer' = [payer EXCEPT ![e] = who]
         /\ payers' = [payers EXCEPT ![e] = @ \cup ({who} \ {None})]
         /\ steady' = (steady /\ (who \in payers[e] => payer[e] = who))
         /\ UNCHANGED <<boot, adds, counter, carried, seen, user, orderly>>
<1>0. tick[t].pc = "emails" /\ EmailDone(t, e, who) /\ tick[t].at = e
  BY DEF WriteEmail, EmailFails
<1>1. tick'[t] = [tick[t] EXCEPT
             !.at = None, !.old = NoOld, !.todo = @ \ {e},
             !.met = @ \cup ({who} \ {None}),
             !.sum = [u \in Users |-> IF u = who THEN @[u] + tick[t].stats[e] ELSE @[u]]]
  BY <1>0 DEF EmailDone, Go, TInv, TypeOK
<1>2. UNCHANGED <<boot, adds, counter, carried, seen, user, orderly>>
  BY DEF WriteEmail, EmailFails, rowVars, xrayVars
<1>3. e \in tick[t].todo
  BY <1>0, NoneFacts DEF TInv, TodoOK
<1>. QED
  BY <1>0, <1>1, <1>2, <1>3 DEF EmailDone, TInv, TypeOK, TickStates

LEMMA EmailsDoneShape ==
  ASSUME TInv, NEW t \in Ticks, EmailsDone(t)
  PROVE  /\ tick'[t].pc = "users" /\ tick[t].pc = "emails" /\ tick[t].todo = {}
         /\ tick'[t].sum = tick[t].sum /\ tick'[t].restart = tick[t].restart
         /\ tick'[t].at = None /\ tick'[t].todo \subseteq Users
         /\ UNCHANGED <<boot, adds, counter, carried, seen, email, user, counted, born, orderly>>
<1>1. tick'[t] = [Idle EXCEPT !.pc = "users", !.restart = tick[t].restart,
                          !.todo = tick[t].met, !.sum = tick[t].sum]
  BY DEF EmailsDone, Go, TInv, TypeOK
<1>. QED
  BY <1>1 DEF EmailsDone, Idle, rowVars, xrayVars, TInv, TypeOK, TickStates

LEMMA ReadUserShape ==
  ASSUME TInv, NEW t \in Ticks, NEW u \in Users, ReadUser(t, u)
  PROVE  /\ tick'[t].pc = "users" /\ tick[t].pc = "users" /\ u \in tick[t].todo
         /\ tick'[t].at = u /\ tick'[t].old = OldRow(user[u])
         /\ tick'[t].todo = tick[t].todo
         /\ tick'[t].sum = tick[t].sum /\ tick'[t].restart = tick[t].restart
         /\ UNCHANGED <<boot, adds, counter, carried, seen, email, user, counted, born, orderly>>
<1>1. tick'[t] = [tick[t] EXCEPT !.at = u, !.old = OldRow(user[u])]
  BY DEF ReadUser, Go, TInv, TypeOK
<1>. QED
  BY <1>1 DEF ReadUser, TInv, TypeOK, TickStates, rowVars, xrayVars

LEMMA UserDoneShape ==
  ASSUME TInv, NEW t \in Ticks, NEW u \in Users, WriteUser(t, u) \/ UserFails(t, u)
  PROVE  /\ tick'[t].pc = "users" /\ tick[t].pc = "users" /\ tick[t].at = u
         /\ tick'[t].at = None /\ tick'[t].todo = tick[t].todo \ {u}
         /\ tick'[t].sum = tick[t].sum /\ tick'[t].restart = tick[t].restart
         /\ UNCHANGED <<boot, adds, counter, carried, seen, email, counted, born, orderly>>
<1>0. tick[t].pc = "users" /\ UserDone(t, u) /\ tick[t].at = u
  BY DEF WriteUser, UserFails
<1>1. tick'[t] = [tick[t] EXCEPT !.at = None, !.old = NoOld, !.todo = @ \ {u}]
  BY <1>0 DEF UserDone, Go, TInv, TypeOK
<1>2. UNCHANGED <<boot, adds, counter, carried, seen, email, counted, born, orderly>>
  BY DEF WriteUser, UserFails, rowVars, xrayVars
<1>. QED
  BY <1>0, <1>1, <1>2 DEF TInv, TypeOK, TickStates

LEMMA FinishShape ==
  ASSUME TInv, NEW t \in Ticks, Finish(t)
  PROVE  /\ tick'[t] = Idle /\ tick[t].pc = "users"
         /\ UNCHANGED <<boot, adds, counter, carried, seen, email, user, counted, born, orderly>>
  BY DEF Finish, Go, TInv, TypeOK, rowVars, xrayVars
=============================================================================
