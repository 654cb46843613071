------------------- MODULE TrafficAccountingBillingProofs -------------------
(* Theorems: no client and no user is charged a byte that was not carried,  *)
(* and no byte is charged twice or forgotten.                               *)
EXTENDS TrafficAccountingProofs

-----------------------------------------------------------------------------
(* The inductive invariant.  k is what one goroutine carries.                *)

\* A report whose counters have been taken and whose rows are not all written.
Active(k) == k.pc \in {"arrived", "judge", "emails"}

\* The counter of e in a report is still to be charged.
Pending(k, e) ==
    /\ k.stats[e] # None
    /\ \/ k.pc \in {"arrived", "judge"}
       \/ k.pc = "emails" /\ e \in k.todo

\* No row and no report is ahead of xray.
RowLives ==
    \A e \in Emails : counted[e].boot <= boot /\ counted[e].nth <= adds[e]
LiveTick(k) ==
    Active(k) =>
        /\ k.sampled \in Boots /\ k.sampled <= boot
        /\ \A e \in Emails : k.life[e].boot = k.sampled /\ k.life[e].nth <= adds[e]

\* What a report taken now would charge at most.
Unseen(e) ==
    IF counter[e] = None THEN 0
    ELSE IF counted[e] = Life(e) THEN counter[e] - email[e].last ELSE counter[e]

\* What a report in progress charges at most, and what remains for later ones.
Due(k, e) == IF counted[e] = k.life[e] THEN k.stats[e] - email[e].last ELSE k.stats[e]
Later(k, e) ==
    IF counter[e] = None THEN 0
    ELSE IF k.life[e] = Life(e) THEN counter[e] - k.stats[e] ELSE counter[e]

RowPaid(e) ==
    /\ counter[e] # None /\ counted[e] = Life(e) => email[e].last <= counter[e]
    /\ email[e].up + Unseen(e) <= carried[e]
ReportPaid(k, e) ==
    Pending(k, e) =>
        /\ counted[e] = k.life[e] => email[e].last <= k.stats[e]
        /\ counter[e] # None /\ k.life[e] = Life(e) => k.stats[e] <= counter[e]
        /\ email[e].up + Due(k, e) + Later(k, e) <= carried[e]

\* The detector is never behind the rows, nor ahead of a report in progress ...
DetectorOK ==
    seen # None => seen <= boot /\ \A e \in Emails : counted[e].boot <= seen
DetectorTick(k) ==
    /\ Active(k) => /\ seen # None => seen <= k.sampled
                    /\ \A e \in Emails : counted[e].boot <= k.sampled
    /\ k.pc = "emails" =>
          /\ seen \in {None, k.sampled}
          /\ k.restart => \A e \in k.todo : counted[e] # k.life[e]

\* ... and what was read of a row is what the write replaces.
OldTick(k) == k.pc = "emails" /\ k.at # None => k.old = OldRow(email[k.at])

TickOK(k) == DetectorTick(k) /\ OldTick(k) /\ \A e \in Emails : ReportPaid(k, e)

Single == \A s, t \in Ticks : s = t \/ tick[s] = Idle \/ tick[t] = Idle

Lived == RowLives /\ \A t \in Ticks : LiveTick(tick[t])
Billed == /\ Single /\ DetectorOK
          /\ \A e \in Emails : RowPaid(e)
          /\ \A t \in Ticks : TickOK(tick[t])
BInv == Lived /\ (orderly => Billed)

-----------------------------------------------------------------------------
(* Facts about one client and one report.                                    *)

LEMMA RowNumbers ==
  ASSUME TInv, NEW e \in Emails
  PROVE  /\ boot \in Nat /\ adds[e] \in Nat /\ carried[e] \in Nat
         /\ counter[e] \in Nat \cup {None}
         /\ email[e].up \in Nat /\ email[e].last \in Nat
         /\ counted[e] \in Lives /\ counted[e].boot \in Nat /\ counted[e].nth \in Nat
  BY DEF TInv, TypeOK, EmailRows, Lives, Boots, Raw

LEMMA TickNumbers ==
  ASSUME NEW k \in TickStates, NEW e \in Emails
  PROVE  /\ k.life[e] \in Lives /\ k.life[e].boot \in Nat /\ k.life[e].nth \in Nat
         /\ k.stats[e] \in Nat \cup {None}
         /\ k.old.last \in Nat /\ k.restart \in BOOLEAN
  BY DEF TickStates, OldRows, Lives, Boots, Raw

LEMMA LifeFacts ==
  ASSUME NEW e \in Emails
  PROVE  Life(e).boot = boot /\ Life(e).nth = adds[e]
  BY DEF Life

LEMMA IdleOK == LiveTick(Idle) /\ TickOK(Idle)
<1>1. Idle.pc = "idle"
  BY DEF Idle
<1>. QED
  BY <1>1 DEF LiveTick, TickOK, DetectorTick, OldTick, ReportPaid, Pending, Active

\* Nothing that is due is negative.
LEMMA NotNegative ==
  ASSUME TInv, NEW e \in Emails
  PROVE  /\ RowPaid(e) => Unseen(e) \in Nat
         /\ \A k \in TickStates : Pending(k, e) /\ ReportPaid(k, e)
                => Due(k, e) \in Nat /\ Later(k, e) \in Nat
<1>1. RowPaid(e) => Unseen(e) \in Nat
  BY RowNumbers, NoneFacts DEF RowPaid, Unseen
<1>2. ASSUME NEW k \in TickStates, Pending(k, e), ReportPaid(k, e)
      PROVE  Due(k, e) \in Nat /\ Later(k, e) \in Nat
  BY <1>2, RowNumbers, TickNumbers, NoneFacts DEF ReportPaid, Pending, Due, Later
<1>. QED
  BY <1>1, <1>2

LEMMA InitBInv == Init => BInv
<1>. SUFFICES ASSUME Init PROVE BInv
  OBVIOUS
<1>1. \A t \in Ticks : tick[t] = Idle
  BY DEF Init
<1>2. RowLives
  BY DEF Init, RowLives, FirstLife
<1>3. DetectorOK
  BY DEF Init, DetectorOK
<1>4. \A e \in Emails : RowPaid(e)
  BY NoneFacts DEF Init, RowPaid, Unseen, NoEmailRow
<1>. QED
  BY <1>1, <1>2, <1>3, <1>4, IdleOK DEF BInv, Lived, Billed, Single

-----------------------------------------------------------------------------
(* Steps of the server and the administrator.                                *)

\* A step that changes nothing the invariant is about.
LEMMA SameBilling ==
  ASSUME TInv, BInv, UNCHANGED <<xrayVars, seen, counted, tick, orderly>>,
         \A e \in Emails : OldRow(email'[e]) = OldRow(email[e]) /\ email'[e].up = email[e].up
  PROVE  BInv'
<1>1. \A e \in Emails : email'[e].last = email[e].last /\ email'[e].up = email[e].up
  BY DEF OldRow
<1>2. RowLives' = RowLives /\ \A k \in TickStates : LiveTick(k)' = LiveTick(k)
  BY DEF RowLives, LiveTick, Active, xrayVars
<1>3. DetectorOK' = DetectorOK /\ Single' = Single
  BY DEF DetectorOK, Single, xrayVars
<1>4. \A e \in Emails : RowPaid(e)' = RowPaid(e)
  BY <1>1 DEF RowPaid, Unseen, Life, xrayVars
<1>5. \A k \in TickStates, e \in Emails : ReportPaid(k, e)' = ReportPaid(k, e)
  BY <1>1 DEF ReportPaid, Pending, Due, Later, Life, xrayVars
<1>6. \A k \in TickStates : DetectorTick(k)' = DetectorTick(k)
  BY DEF DetectorTick, Active
<1>7. ASSUME NEW t \in Ticks, OldTick(tick[t]) PROVE OldTick(tick[t])'
  BY <1>7, NoneFacts DEF OldTick, TInv, TypeOK, TodoOK
<1>8. \A t \in Ticks : tick'[t] = tick[t] /\ tick[t] \in TickStates
  BY DEF TInv, TypeOK
<1>. QED
  BY <1>2, <1>3, <1>4, <1>5, <1>6, <1>7, <1>8 DEF BInv, Lived, Billed, TickOK

\* A step of the server changes no row and no report: it keeps the invariant if
\* every client stays alive in order and every count stays paid.
LEMMA ServerBilling ==
  ASSUME TInv, BInv, UNCHANGED <<seen, counted, email, tick, orderly>>,
         boot \in Nat, boot' \in Nat, boot <= boot',
         \A e \in Emails : adds[e] \in Nat /\ adds'[e] \in Nat /\ adds[e] <= adds'[e],
         orderly => \A e \in Emails :
             /\ RowPaid(e) => RowPaid(e)'
             /\ \A t \in Ticks : LiveTick(tick[t]) /\ ReportPaid(tick[t], e)
                                    => ReportPaid(tick[t], e)'
  PROVE  BInv'
<1>0. \A t \in Ticks : tick'[t] = tick[t] /\ tick[t] \in TickStates
  BY DEF TInv, TypeOK
<1>1. RowLives'
  BY RowNumbers DEF BInv, Lived, RowLives
<1>2. ASSUME NEW t \in Ticks PROVE LiveTick(tick[t])'
  <2>1. LiveTick(tick[t])
    BY DEF BInv, Lived
  <2>. QED
    BY <1>0, <2>1, TickNumbers DEF LiveTick, Active, Boots
<1>3. ASSUME orderly PROVE Billed'
  <2>1. DetectorOK' /\ Single'
    BY <1>3 DEF BInv, Billed, DetectorOK, Single, TInv, TypeOK, Boots
  <2>2. ASSUME NEW t \in Ticks PROVE DetectorTick(tick[t])' /\ OldTick(tick[t])'
    BY <1>3, <1>0 DEF BInv, Billed, TickOK, DetectorTick, OldTick, Active
  <2>. QED
    BY <1>3, <1>0, <2>1, <2>2 DEF BInv, Lived, Billed, TickOK
<1>. QED
  BY <1>0, <1>1, <1>2, <1>3 DEF BInv, Lived

LEMMA ServerStepBilling ==
  ASSUME TInv, BInv, ServerStep
  PROVE  BInv'
<1>. USE DEF xrayVars, rowVars
<1>0. \A t \in Ticks : tick[t] \in TickStates
  BY DEF TInv, TypeOK
<1>1. ASSUME NEW c \in Emails, Transfer(c) PROVE BInv'
  <2>1. UNCHANGED <<boot, adds, seen, counted, email, tick, orderly>>
    BY <1>1 DEF Transfer
  <2>2. ASSUME NEW e \in Emails
        PROVE  /\ \/ counter'[e] = counter[e] /\ carried'[e] = carried[e]
                  \/ /\ counter[e] # None /\ counter'[e] = counter[e] + 1
                     /\ carried'[e] = carried[e] + 1
               /\ Life(e)' = Life(e)
    BY <1>1 DEF Transfer, Life, TInv, TypeOK
  <2>3. ASSUME NEW e \in Emails, RowPaid(e) PROVE RowPaid(e)'
    BY <2>1, <2>2, <2>3, RowNumbers, NoneFacts DEF RowPaid, Unseen
  <2>4. ASSUME NEW e \in Emails, NEW t \in Ticks, ReportPaid(tick[t], e)
        PROVE  ReportPaid(tick[t], e)'
    <3>. DEFINE k == tick[t]
    <3>1. k' = k /\ k \in TickStates
      BY <1>0, <2>1
    <3>. QED
      BY <2>1, <2>2, <2>4, <3>1, RowNumbers, TickNumbers, NoneFacts
         DEF ReportPaid, Pending, Due, Later
  <2>. QED
    BY <2>1, <2>3, <2>4, RowNumbers, ServerBilling DEF TInv, TypeOK, Boots
<1>2. ASSUME NEW c \in Emails, RemoveClient(c) PROVE BInv'
  <2>1. UNCHANGED <<boot, adds, carried, seen, counted, email, tick, orderly>>
    BY <1>2 DEF RemoveClient
  <2>2. ASSUME NEW e \in Emails
        PROVE  counter'[e] \in {counter[e], None} /\ Life(e)' = Life(e)
    BY <1>2 DEF RemoveClient, Life, TInv, TypeOK
  <2>3. ASSUME NEW e \in Emails, RowPaid(e) PROVE RowPaid(e)'
    BY <2>1, <2>2, <2>3, RowNumbers, NoneFacts DEF RowPaid, Unseen
  <2>4. ASSUME NEW e \in Emails, NEW t \in Ticks, ReportPaid(tick[t], e)
        PROVE  ReportPaid(tick[t], e)'
    <3>. DEFINE k == tick[t]
    <3>1. k' = k /\ k \in TickStates
      BY <1>0, <2>1
    <3>. QED
      BY <2>1, <2>2, <2>4, <3>1, RowNumbers, TickNumbers, NoneFacts
         DEF ReportPaid, Pending, Due, Later
  <2>. QED
    BY <2>1, <2>3, <2>4, RowNumbers, ServerBilling DEF TInv, TypeOK, Boots
<1>3. ASSUME \/ XrayRestarts
             \/ \E c \in Emails : AddClient(c)
      PROVE  BInv'
  <2>1. UNCHANGED <<carried, seen, counted, email, tick, orderly>>
    BY <1>3 DEF XrayRestarts, AddClient
  <2>2. boot \in Nat /\ boot' \in Nat /\ boot <= boot'
    BY <1>3 DEF XrayRestarts, AddClient, TInv, TypeOK, Boots
  <2>3. ASSUME NEW e \in Emails
        PROVE  /\ adds'[e] \in Nat /\ adds[e] <= adds'[e]
               /\ \/ counter'[e] = counter[e] /\ Life(e)' = Life(e)
                  \/ /\ counter'[e] \in {None, 0}
                     /\ boot < boot' \/ adds[e] < adds'[e]
    BY <1>3, RowNumbers DEF XrayRestarts, AddClient, Life, TInv, TypeOK
  <2>4. ASSUME NEW e \in Emails, RowPaid(e) PROVE RowPaid(e)'
    <3>1. CASE counter'[e] = counter[e] /\ Life(e)' = Life(e)
      BY <2>1, <2>4, <3>1 DEF RowPaid, Unseen
    <3>2. CASE counter'[e] \in {None, 0} /\ (boot < boot' \/ adds[e] < adds'[e])
      <4>1. counted[e] # Life(e)'
        BY <2>2, <2>3, <3>2, RowNumbers DEF BInv, Lived, RowLives, Life
      <4>2. Unseen(e)' = 0
        BY <2>1, <3>2, <4>1 DEF Unseen
      <4>. QED
        BY <2>1, <2>4, <4>1, <4>2, NotNegative, RowNumbers DEF RowPaid
    <3>. QED
      BY <2>3, <3>1, <3>2
  <2>5. ASSUME NEW e \in Emails, NEW t \in Ticks, LiveTick(tick[t]), ReportPaid(tick[t], e)
        PROVE  ReportPaid(tick[t], e)'
    <3>. DEFINE k == tick[t]
    <3>1. k' = k /\ k \in TickStates
      BY <1>0, <2>1
    <3>. HIDE DEF k
    <3>2. ASSUME Pending(k, e), counter'[e] = counter[e], Life(e)' = Life(e)
          PROVE  ReportPaid(k, e)'
      BY <2>1, <2>5, <3>1, <3>2 DEF ReportPaid, Pending, Due, Later, k
    <3>3. ASSUME Pending(k, e),
                 counter'[e] \in {None, 0}, boot < boot' \/ adds[e] < adds'[e]
          PROVE  ReportPaid(k, e)'
      <4>1. k.life[e].boot <= boot /\ k.life[e].nth <= adds[e]
        BY <2>5, <3>3 DEF LiveTick, Active, Pending, k
      <4>2. k.life[e] # Life(e)'
        BY <2>2, <2>3, <3>1, <3>3, <4>1, TickNumbers, RowNumbers DEF Life
      <4>3. Later(k, e)' = 0
        BY <3>1, <3>3, <4>2 DEF Later
      <4>4. Due(k, e)' = Due(k, e) /\ Due(k, e) \in Nat /\ Later(k, e) \in Nat
        BY <2>1, <2>5, <3>1, <3>3, NotNegative DEF Due, k
      <4>. QED
        BY <2>1, <2>5, <3>1, <3>3, <4>2, <4>3, <4>4, RowNumbers DEF ReportPaid, k
    <3>4. ~Pending(k, e) => ReportPaid(k, e)'
      BY <3>1 DEF ReportPaid, Pending
    <3>. QED
      BY <2>3, <3>2, <3>3, <3>4 DEF k
  <2>. QED
    BY <2>1, <2>2, <2>3, <2>4, <2>5, RowNumbers, ServerBilling
<1>4. ASSUME Heartbeat PROVE BInv'
  BY <1>4, SameBilling DEF Heartbeat
<1>. QED
  BY <1>1, <1>2, <1>3, <1>4 DEF ServerStep

LEMMA AdminStepBilling ==
  ASSUME TInv, BInv, AdminStep
  PROVE  BInv'
<1>1. ASSUME NEW e \in Emails,
             (\E who \in Names : MoveNode(e, who)) \/ \E w \in Weights : SetWeight(e, w)
      PROVE  BInv'
  BY <1>1, SameBilling DEF MoveNode, SetWeight, rowVars
<1>2. ASSUME NEW u \in Users, ResetCycle(u) PROVE BInv'
  <2>1. ASSUME NEW e \in Emails
        PROVE  OldRow(email'[e]) = OldRow(email[e]) /\ email'[e].up = email[e].up
    BY <1>2 DEF ResetCycle, ResetRow, OldRow, TInv, TypeOK, EmailRows
  <2>. QED
    BY <1>2, <2>1, SameBilling DEF ResetCycle
<1>. QED
  BY <1>1, <1>2 DEF AdminStep

LEMMA PanelBilling ==
  ASSUME TInv, BInv, PanelRestarts
  PROVE  BInv'
<1>1. \A t \in Ticks : tick'[t] = Idle
  BY DEF PanelRestarts
<1>2. UNCHANGED <<boot, adds, counter, carried, email, counted, orderly>> /\ seen' = None
  BY DEF PanelRestarts, xrayVars, rowVars
<1>3. LiveTick(Idle)' /\ TickOK(Idle)'
  <2>1. Idle.pc = "idle"
    BY DEF Idle
  <2>. QED
    BY <2>1 DEF LiveTick, TickOK, DetectorTick, OldTick, ReportPaid, Pending, Active, Idle
<1>4. RowLives' /\ (orderly => \A e \in Emails : RowPaid(e)')
  BY <1>2 DEF BInv, Lived, Billed, RowLives, RowPaid, Unseen, Life
<1>. QED
  BY <1>1, <1>2, <1>3, <1>4 DEF BInv, Lived, Billed, Single, DetectorOK

-----------------------------------------------------------------------------
(* Steps of a goroutine.                                                     *)

\* A step that writes no row of a client keeps the invariant if what the
\* goroutine carries afterwards is in order, and an orderly one runs alone.
LEMMA TickBilling ==
  ASSUME TInv, BInv, NEW t \in Ticks, TickStep(t),
         UNCHANGED <<xrayVars, counted, email>>,
         NEW new, tick'[t] = new, LiveTick(new)',
         orderly' => orderly /\ Alone(t) /\ DetectorOK' /\ TickOK(new)'
  PROVE  BInv'
<1>0. \A s \in Ticks \ {t} : tick'[s] = tick[s]
  BY OthersStay DEF TInv, TypeOK
<1>1. RowLives' = RowLives /\ \A k : LiveTick(k)' = LiveTick(k)
  BY DEF RowLives, LiveTick, Active, xrayVars
<1>2. \A e \in Emails : RowPaid(e)' = RowPaid(e)
  BY DEF RowPaid, Unseen, Life, xrayVars
<1>3. ASSUME orderly' PROVE Billed'
  <2>1. \A s \in Ticks \ {t} : tick'[s] = Idle
    BY <1>0, <1>3 DEF Alone
  <2>2. TickOK(Idle)'
    <3>1. Idle.pc = "idle"
      BY DEF Idle
    <3>. QED
      BY <3>1 DEF TickOK, DetectorTick, OldTick, ReportPaid, Pending, Active, Idle
  <2>3. ASSUME NEW s \in Ticks PROVE TickOK(tick[s])'
    <3>1. CASE s = t
      BY <1>3, <3>1
    <3>2. CASE s # t
      <4>1. tick'[s] = Idle
        BY <2>1, <3>2
      <4>. QED
        BY <2>2, <4>1
    <3>. QED
      BY <3>1, <3>2
  <2>4. Single'
    <3>1. \A s, r \in Ticks : s = r \/ tick'[s] = Idle \/ tick'[r] = Idle
      BY <2>1
    <3>. QED
      BY <3>1 DEF Single, Idle
  <2>5. \A e \in Emails : RowPaid(e)'
    BY <1>2, <1>3 DEF BInv, Billed
  <2>. QED
    BY <1>3, <2>3, <2>4, <2>5 DEF Billed
<1>4. RowLives' /\ \A s \in Ticks \ {t} : LiveTick(tick[s])'
  <2>1. ASSUME NEW s \in Ticks \ {t} PROVE LiveTick(tick[s])'
    <3>1. LiveTick(tick[s]) /\ tick'[s] = tick[s]
      BY <1>0 DEF BInv, Lived
    <3>. QED
      BY <3>1 DEF LiveTick, Active, xrayVars
  <2>. QED
    BY <1>1, <2>1 DEF BInv, Lived
<1>5. Lived'
  BY <1>4 DEF Lived
<1>. QED
  BY <1>3, <1>5 DEF BInv

\* While reports come one by one, a goroutine that is busy is alone.
LEMMA BusyIsAlone ==
  ASSUME TInv, BInv, orderly, NEW t \in Ticks, tick[t].pc # "idle"
  PROVE  Alone(t)
<1>1. tick[t] # Idle
  BY DEF Idle
<1>. QED
  BY <1>1 DEF BInv, Billed, Single, Alone

\* The counters and the lives that a report samples are those of this moment.
LEMMA SampledOK ==
  ASSUME TInv, BInv, NEW new \in TickStates,
         UNCHANGED <<xrayVars, counted, email, seen>>,
         new.pc \in {"arrived", "judge"},
         new.stats = Sample, new.life = Lifes, new.sampled = boot
  PROVE  LiveTick(new)' /\ (orderly => TickOK(new)')
<1>0. \A e \in Emails : /\ new.stats[e] = counter[e] /\ new.life[e] = Life(e)
                        /\ Life(e).boot = boot /\ Life(e).nth = adds[e]
                        /\ adds[e] \in Nat
  BY LifeFacts, RowNumbers DEF Sample, Lifes
<1>1. LiveTick(new)'
  BY <1>0 DEF LiveTick, xrayVars, TInv, TypeOK, Boots
<1>2. ASSUME orderly PROVE TickOK(new)'
  <2>1. DetectorTick(new)'
    BY <1>2 DEF DetectorTick, Active, BInv, Billed, Lived, DetectorOK, RowLives, xrayVars
  <2>2. OldTick(new)'
    BY DEF OldTick
  <2>3. ASSUME NEW e \in Emails PROVE ReportPaid(new, e)'
    <3>1. RowPaid(e)
      BY <1>2 DEF BInv, Billed
    <3>2. ReportPaid(new, e)
      BY <1>0, <3>1, RowNumbers, NoneFacts
         DEF ReportPaid, Pending, Due, Later, RowPaid, Unseen
    <3>. QED
      BY <3>2 DEF ReportPaid, Pending, Due, Later, Life, xrayVars
  <2>. QED
    BY <2>1, <2>2, <2>3 DEF TickOK
<1>. QED
  BY <1>1, <1>2

\* A goroutine that charges nothing yet, or nothing any more.
LEMMA InactiveOK ==
  ASSUME NEW k, ~Active(k)
  PROVE  LiveTick(k)' /\ TickOK(k)'
  BY DEF LiveTick, TickOK, DetectorTick, OldTick, ReportPaid, Pending, Active

LEMMA ReportBilling ==
  ASSUME TInv, BInv, NEW t \in Ticks,
         PushArrives(t) \/ PushLookup(t) \/ PullListed(t) \/ PullFetched(t)
  PROVE  BInv'
<1>0. /\ tick \in [Ticks -> TickStates] /\ tick[t] \in TickStates
      /\ reported \in Boots \cup {None} /\ boot \in Boots
  BY DEF TInv, TypeOK
<1>a. TickStep(t)
  BY DEF TickStep
<1>b. UNCHANGED <<xrayVars, counted, email, seen>>
  BY DEF PushArrives, PushLookup, PullListed, PullFetched, rowVars
<1>c. Sample \in [Emails -> Raw] /\ Lifes \in [Emails -> Lives]
  BY SampleType
<1>d. orderly => DetectorOK'
  BY <1>b DEF BInv, Billed, DetectorOK, xrayVars
<1>e. orderly' => orderly /\ Alone(t)
  BY BusyIsAlone DEF PushArrives, PushLookup, PullListed, PullFetched
<1>f. PICK new : new = tick'[t]
  OBVIOUS
<1>1. CASE PushArrives(t)
  <2>1. new = [Idle EXCEPT !.pc = "arrived", !.stats = Sample, !.life = Lifes,
                           !.sampled = boot]
    BY <1>0, <1>1, <1>f DEF PushArrives, Go
  <2>2. /\ new \in TickStates /\ new.pc = "arrived" /\ new.stats = Sample
        /\ new.life = Lifes /\ new.sampled = boot
    BY <1>0, <1>c, <2>1, IdleType DEF TickStates
  <2>3. LiveTick(new)' /\ (orderly => TickOK(new)')
    BY <1>b, <2>2, SampledOK
  <2>. QED
    BY <1>a, <1>b, <1>d, <1>e, <1>f, <2>3, TickBilling
<1>2. CASE PullFetched(t)
  <2>1. new = [tick[t] EXCEPT !.pc = "judge", !.stats = Sample, !.life = Lifes,
                              !.sampled = boot]
    BY <1>0, <1>2, <1>f DEF PullFetched, Go
  <2>2. /\ new \in TickStates /\ new.pc = "judge" /\ new.stats = Sample
        /\ new.life = Lifes /\ new.sampled = boot
    BY <1>0, <1>c, <2>1 DEF TickStates
  <2>3. LiveTick(new)' /\ (orderly => TickOK(new)')
    BY <1>b, <2>2, SampledOK
  <2>. QED
    BY <1>a, <1>b, <1>d, <1>e, <1>f, <2>3, TickBilling
<1>3. CASE PullListed(t)
  <2>1. new.pc = "listed"
    BY <1>0, <1>3, <1>f, IdleType DEF PullListed, Go, TickStates
  <2>2. LiveTick(new)' /\ TickOK(new)'
    BY <2>1, InactiveOK DEF Active
  <2>. QED
    BY <1>a, <1>b, <1>d, <1>e, <1>f, <2>2, TickBilling
<1>4. CASE PushLookup(t)
  <2>1. PICK b \in {reported, None} :
          Go(t, [tick[t] EXCEPT !.pc = "judge", !.boot = b])
    BY <1>4 DEF PushLookup
  <2>2. PICK k : k = tick[t]
    OBVIOUS
  <2>3. /\ k.pc = "arrived" /\ new.pc = "judge" /\ new.stats = k.stats
        /\ new.life = k.life /\ new.sampled = k.sampled
    BY <1>0, <1>4, <1>f, <2>1, <2>2 DEF PushLookup, Go, TickStates
  <2>4. LiveTick(new)'
    <3>1. LiveTick(k)
      BY <2>2 DEF BInv, Lived
    <3>. QED
      BY <1>b, <2>3, <3>1 DEF LiveTick, Active, xrayVars
  <2>5. ASSUME orderly PROVE TickOK(new)'
    <3>1. TickOK(k)
      BY <2>2, <2>5 DEF BInv, Billed
    <3>2. \A e \in Emails : ReportPaid(new, e)'
      BY <1>b, <2>3, <3>1 DEF TickOK, ReportPaid, Pending, Due, Later, Life, xrayVars
    <3>3. DetectorTick(new)' /\ OldTick(new)'
      BY <1>b, <2>3, <3>1 DEF TickOK, DetectorTick, OldTick, Active
    <3>. QED
      BY <3>2, <3>3 DEF TickOK
  <2>. QED
    BY <1>a, <1>b, <1>d, <1>e, <1>f, <2>4, <2>5, TickBilling
<1>. QED
  BY <1>1, <1>2, <1>3, <1>4

\* An orderly report is judged by the boot time of the xray that counted, or by
\* none: what it flags as a restart is one, for every row still to be written.
LEMMA JudgeBilling ==
  ASSUME TInv, BInv, NEW t \in Ticks, Judge(t)
  PROVE  BInv'
<1>0. tick \in [Ticks -> TickStates] /\ tick[t] \in TickStates /\ seen \in Boots \cup {None}
  BY DEF TInv, TypeOK
<1>a. TickStep(t)
  BY DEF TickStep
<1>b. UNCHANGED <<xrayVars, counted, email>>
  BY DEF Judge, rowVars
<1>c. orderly' => orderly /\ Alone(t) /\ BootTimeFits(t)
  BY BusyIsAlone DEF Judge
<1>d. PICK k, new : k = tick[t] /\ new = tick'[t]
  OBVIOUS
<1>1. /\ k \in TickStates /\ k.pc = "judge" /\ new.pc = "emails"
      /\ new.stats = k.stats /\ new.life = k.life /\ new.sampled = k.sampled
      /\ new.todo = {e \in Emails : k.stats[e] # None}
      /\ new.restart = Restarted(k.boot) /\ new.at = None
      /\ seen' = NowSeen(k.boot)
  <2>1. PICK attr \in {owner, [e \in Emails |-> None]} :
          Go(t, [tick[t] EXCEPT
                   !.pc = "emails",
                   !.restart = Restarted(tick[t].boot),
                   !.attr = attr,
                   !.price = [e \in Emails |-> IF attr[e] # None THEN weight[e] ELSE 1],
                   !.todo = {e \in Emails : tick[t].stats[e] # None}])
    BY DEF Judge
  <2>2. k.at = None /\ k.pc = "judge" /\ seen' = NowSeen(k.boot)
    BY <1>d DEF Judge, TInv, TodoOK
  <2>3. new = [k EXCEPT
                 !.pc = "emails", !.restart = Restarted(k.boot), !.attr = attr,
                 !.price = [e \in Emails |-> IF attr[e] # None THEN weight[e] ELSE 1],
                 !.todo = {e \in Emails : k.stats[e] # None}]
    BY <1>0, <1>d, <2>1 DEF Go
  <2>. QED
    BY <1>0, <1>d, <2>2, <2>3 DEF TickStates
<1>2. LiveTick(k)
  BY <1>d DEF BInv, Lived
<1>3. LiveTick(new)'
  BY <1>b, <1>1, <1>2 DEF LiveTick, Active, xrayVars
<1>4. ASSUME orderly' PROVE DetectorOK' /\ TickOK(new)'
  <2>1. TickOK(k) /\ DetectorOK
    BY <1>c, <1>d, <1>4 DEF BInv, Billed
  <2>2. k.sampled \in Nat /\ k.sampled <= boot /\ boot \in Nat
    <3>1. k.sampled \in Boots /\ k.sampled <= boot
      BY <1>1, <1>2 DEF LiveTick, Active
    <3>. QED
      BY <3>1 DEF Boots, TInv, TypeOK
  <2>3. /\ k.boot = k.sampled \/ (k.boot = None /\ seen \in {None, k.sampled})
        /\ seen' \in {None, k.sampled}
    <3>1. BootTimeFits(t)
      BY <1>c, <1>4
    <3>2. k.boot = k.sampled \/ (k.boot = None /\ seen \in {None, k.sampled})
      BY <1>d, <3>1 DEF BootTimeFits
    <3>3. k.sampled # None
      BY <2>2, NoneFacts
    <3>. QED
      BY <1>1, <3>2, <3>3 DEF NowSeen
  <2>4. \A e \in Emails : counted[e].boot <= k.sampled
    BY <1>1, <2>1 DEF TickOK, DetectorTick, Active
  <2>5. DetectorOK'
    BY <1>b, <2>2, <2>3, <2>4 DEF DetectorOK, xrayVars
  <2>6. ASSUME new.restart, NEW e \in Emails PROVE counted[e] # k.life[e]
    <3>1. seen \in Nat /\ k.boot = k.sampled /\ seen # k.sampled
      BY <1>0, <1>1, <2>2, <2>3, <2>6, NoneFacts DEF Restarted, Boots
    <3>2. seen <= k.sampled
      BY <1>1, <2>1, <3>1, NoneFacts DEF TickOK, DetectorTick, Active
    <3>3. counted[e].boot <= seen
      BY <2>1, <3>1, NoneFacts DEF DetectorOK
    <3>4. k.life[e].boot = k.sampled
      BY <1>1, <1>2 DEF LiveTick, Active
    <3>. QED
      BY <2>2, <3>1, <3>2, <3>3, <3>4, RowNumbers
  <2>7. DetectorTick(new)' /\ OldTick(new)'
    BY <1>b, <1>1, <2>2, <2>3, <2>4, <2>6 DEF DetectorTick, OldTick, Active
  <2>8. ASSUME NEW e \in Emails PROVE ReportPaid(new, e)'
    BY <1>b, <1>1, <2>1 DEF TickOK, ReportPaid, Pending, Due, Later, Life, xrayVars
  <2>. QED
    BY <2>5, <2>7, <2>8 DEF TickOK
<1>. QED
  BY <1>a, <1>b, <1>c, <1>d, <1>3, <1>4, TickBilling

\* Reading a row, and giving one up.
LEMMA EmailBilling ==
  ASSUME TInv, BInv, NEW t \in Ticks, NEW e \in Emails, NEW who \in Names,
         ReadEmail(t, e) \/ EmailFails(t, e, who)
  PROVE  BInv'
<1>0. tick \in [Ticks -> TickStates] /\ tick[t] \in TickStates
  BY DEF TInv, TypeOK
<1>a. TickStep(t)
  BY DEF TickStep
<1>b. UNCHANGED <<xrayVars, counted, email, seen, orderly>>
  BY DEF ReadEmail, EmailFails, rowVars
<1>c. orderly => Alone(t) /\ DetectorOK'
  BY <1>b, BusyIsAlone DEF ReadEmail, EmailFails, BInv, Billed, DetectorOK, xrayVars
<1>d. PICK k, new : k = tick[t] /\ new = tick'[t]
  OBVIOUS
<1>1. /\ k.pc = "emails" /\ new.pc = "emails"
      /\ new.stats = k.stats /\ new.life = k.life /\ new.sampled = k.sampled
      /\ new.restart = k.restart /\ new.todo \subseteq k.todo
      /\ new.at = None \/ new.old = OldRow(email[new.at])
  <2>1. CASE ReadEmail(t, e)
    <3>1. new = [k EXCEPT !.at = e, !.old = OldRow(email[e])] /\ k.pc = "emails"
      BY <1>0, <1>d, <2>1 DEF ReadEmail, Go
    <3>. QED
      BY <1>0, <1>d, <3>1 DEF TickStates
  <2>2. CASE EmailFails(t, e, who)
    <3>1. /\ k.pc = "emails"
          /\ \E sum, met : new = [k EXCEPT !.at = None, !.old = NoOld, !.todo = @ \ {e},
                                           !.met = met, !.sum = sum]
      BY <1>0, <1>d, <2>2 DEF EmailFails, EmailDone, Go
    <3>. QED
      BY <1>0, <1>d, <3>1 DEF TickStates
  <2>. QED
    BY <2>1, <2>2
<1>2. LiveTick(new)'
  <2>1. LiveTick(k)
    BY <1>d DEF BInv, Lived
  <2>. QED
    BY <1>b, <1>1, <2>1 DEF LiveTick, Active, xrayVars
<1>3. ASSUME orderly PROVE TickOK(new)'
  <2>1. TickOK(k)
    BY <1>d, <1>3 DEF BInv, Billed
  <2>2. DetectorTick(new)'
    BY <1>b, <1>1, <2>1 DEF TickOK, DetectorTick, Active
  <2>3. OldTick(new)'
    BY <1>b, <1>1 DEF OldTick
  <2>4. \A f \in Emails : ReportPaid(new, f)'
    BY <1>b, <1>1, <2>1 DEF TickOK, ReportPaid, Pending, Due, Later, Life, xrayVars
  <2>. QED
    BY <2>2, <2>3, <2>4 DEF TickOK
<1>. QED
  BY <1>a, <1>b, <1>c, <1>d, <1>2, <1>3, TickBilling

\* The steps after the rows of the clients: the users, and the end.
LEMMA UsersBilling ==
  ASSUME TInv, BInv, NEW t \in Ticks,
         \/ EmailsDone(t) \/ Finish(t)
         \/ \E u \in Users : ReadUser(t, u) \/ WriteUser(t, u) \/ UserFails(t, u)
  PROVE  BInv'
<1>0. tick \in [Ticks -> TickStates] /\ tick[t] \in TickStates
  BY DEF TInv, TypeOK
<1>a. TickStep(t)
  BY DEF TickStep
<1>b. UNCHANGED <<xrayVars, counted, email, seen, orderly>>
  BY DEF EmailsDone, Finish, ReadUser, WriteUser, UserFails, rowVars, xrayVars
<1>c. orderly => Alone(t) /\ DetectorOK'
  BY <1>b, BusyIsAlone
     DEF EmailsDone, Finish, ReadUser, WriteUser, UserFails, BInv, Billed, DetectorOK, xrayVars
<1>d. PICK new : new = tick'[t]
  OBVIOUS
<1>1. new.pc \in {"users", "idle"}
  <2>1. CASE EmailsDone(t)
    BY <1>0, <1>d, <2>1, IdleType DEF EmailsDone, Go, TickStates
  <2>2. CASE Finish(t)
    <3>1. new = Idle
      BY <1>0, <1>d, <2>2 DEF Finish, Go
    <3>. QED
      BY <3>1 DEF Idle
  <2>3. ASSUME NEW u \in Users, ReadUser(t, u) \/ WriteUser(t, u) \/ UserFails(t, u)
        PROVE  new.pc = "users"
    <3>1. CASE ReadUser(t, u)
      BY <1>0, <1>d, <3>1 DEF ReadUser, Go, TickStates
    <3>2. CASE WriteUser(t, u)
      BY <1>0, <1>d, <3>2 DEF WriteUser, UserDone, Go, TickStates
    <3>3. CASE UserFails(t, u)
      BY <1>0, <1>d, <3>3 DEF UserFails, UserDone, Go, TickStates
    <3>. QED
      BY <2>3, <3>1, <3>2, <3>3
  <2>. QED
    BY <2>1, <2>2, <2>3
<1>2. LiveTick(new)' /\ TickOK(new)'
  BY <1>1, InactiveOK DEF Active
<1>. QED
  BY <1>a, <1>b, <1>c, <1>d, <1>2, TickBilling

-----------------------------------------------------------------------------
(* The write of a row.                                                       *)

\* A report in order adds to a row at most what is due, and leaves behind that
\* it has counted up to the counter it carries.
LEMMA WrittenRow ==
  ASSUME TInv, BInv, orderly, NEW t \in Ticks, NEW e \in Emails, NEW who \in Names,
         WriteEmail(t, e, who)
  PROVE  /\ email'[e].last = tick[t].stats[e]
         /\ email'[e].up + Later(tick[t], e) <= carried[e]
<1>. DEFINE k == tick[t]
            delta == Delta(k.old.last, k.stats[e], k.restart)
<1>0. k \in TickStates /\ TodoOK(k) /\ email \in [Emails -> EmailRows]
  BY DEF TInv, TypeOK
<1>1. k.pc = "emails" /\ k.at = e /\ e \in k.todo /\ k.stats[e] # None /\ e # None
  BY <1>0, NoneFacts DEF WriteEmail, TodoOK
<1>2. Pending(k, e) /\ ReportPaid(k, e)
  BY <1>1 DEF Pending, BInv, Billed, TickOK
<1>3. /\ counted[e] = k.life[e] => email[e].last <= k.stats[e]
      /\ email[e].up + Due(k, e) + Later(k, e) <= carried[e]
      /\ Due(k, e) \in Nat /\ Later(k, e) \in Nat
  BY <1>0, <1>2, NotNegative DEF ReportPaid
<1>4. k.old = OldRow(email[e])
  BY <1>1 DEF BInv, Billed, TickOK, OldTick
<1>5. k.restart => counted[e] # k.life[e]
  BY <1>1 DEF BInv, Billed, TickOK, DetectorTick
<1>6. /\ k.stats[e] \in Nat /\ k.restart \in BOOLEAN
      /\ email[e].up \in Nat /\ email[e].last \in Nat /\ carried[e] \in Nat
  BY <1>0, <1>1, TickNumbers, RowNumbers
<1>7. delta \in Nat /\ delta <= Due(k, e)
  <2>1. k.old.last = email[e].last
    BY <1>4 DEF OldRow
  <2>. QED
    BY <1>3, <1>5, <1>6, <2>1 DEF Delta, Due
<1>8. CASE k.old.exists
  <2>1. email'[e] = UpdatedEmail(t, e)
    BY <1>0, <1>8 DEF WriteEmail
  <2>2. UpdatedEmail(t, e) =
          [email[e] EXCEPT !.up = @ + delta, !.weighted = @ + Priced(t, e, delta),
                           !.total = NewTotal(t), !.last = k.stats[e],
                           !.user = k.attr[e]]
    BY DEF UpdatedEmail
  <2>3. email[e] \in EmailRows
    BY <1>0
  <2>. HIDE DEF k, delta
  <2>4. email'[e].up = email[e].up + delta /\ email'[e].last = k.stats[e]
    BY <2>1, <2>2, <2>3 DEF EmailRows
  <2>5. email'[e].up + Later(k, e) <= carried[e]
    BY <1>3, <1>6, <1>7, <2>4
  <2>. QED
    BY <2>4, <2>5 DEF k
<1>9. CASE ~k.old.exists
  <2>1. email'[e] = InsertedEmail(t, e)
    BY <1>0, <1>9 DEF WriteEmail
  <2>2. email'[e].up = 0 /\ email'[e].last = k.stats[e]
    BY <2>1 DEF InsertedEmail, NoEmailRow
  <2>. HIDE DEF k
  <2>3. email'[e].up + Later(k, e) <= carried[e]
    BY <1>3, <1>6, <2>2
  <2>. QED
    BY <2>2, <2>3 DEF k
<1>. QED
  BY <1>8, <1>9

LEMMA WriteBilling ==
  ASSUME TInv, BInv, NEW t \in Ticks, NEW e \in Emails, NEW who \in Names,
         WriteEmail(t, e, who)
  PROVE  BInv'
<1>0. /\ tick \in [Ticks -> TickStates] /\ email \in [Emails -> EmailRows]
      /\ counted \in [Emails -> Lives] /\ boot \in Nat
  BY DEF TInv, TypeOK, Boots
<1>a. PICK k, new : k = tick[t] /\ new = tick'[t]
  OBVIOUS
<1>b. UNCHANGED <<boot, adds, counter, carried, seen, orderly>>
  BY DEF WriteEmail, xrayVars
<1>c. \A s \in Ticks \ {t} : tick'[s] = tick[s]
  BY <1>0, OthersStay DEF TickStep
<1>d. \A f \in Emails \ {e} : email'[f] = email[f] /\ counted'[f] = counted[f]
  BY <1>0 DEF WriteEmail
<1>1. /\ k \in TickStates /\ k.pc = "emails" /\ k.at = e /\ new.pc = "emails"
      /\ new.at = None /\ new.todo = k.todo \ {e}
      /\ new.stats = k.stats /\ new.life = k.life /\ new.sampled = k.sampled
      /\ new.restart = k.restart
  <2>1. k \in TickStates /\ k.pc = "emails" /\ k.at = e
    BY <1>0, <1>a DEF WriteEmail
  <2>2. PICK sum, met : new = [k EXCEPT !.at = None, !.old = NoOld, !.todo = @ \ {e},
                                        !.met = met, !.sum = sum]
    BY <1>0, <1>a DEF WriteEmail, EmailDone, Go
  <2>. QED
    BY <2>1, <2>2 DEF TickStates
<1>2. counted'[e] = k.life[e]
  BY <1>0, <1>a DEF WriteEmail
<1>3. /\ k.sampled \in Boots /\ k.sampled <= boot
      /\ \A f \in Emails : k.life[f].boot = k.sampled /\ k.life[f].nth <= adds[f]
  BY <1>a, <1>1 DEF BInv, Lived, LiveTick, Active
<1>4. RowLives'
  BY <1>b, <1>d, <1>2, <1>3 DEF BInv, Lived, RowLives
<1>5. ASSUME NEW s \in Ticks PROVE LiveTick(tick[s])'
  <2>1. CASE s = t
    <3>1. LiveTick(new)'
      BY <1>b, <1>1, <1>3 DEF LiveTick, Active
    <3>. QED
      BY <1>a, <2>1, <3>1
  <2>2. CASE s # t
    <3>1. LiveTick(tick[s]) /\ tick'[s] = tick[s]
      BY <1>c, <2>2 DEF BInv, Lived
    <3>. QED
      BY <1>b, <3>1 DEF LiveTick, Active
  <2>. QED
    BY <2>1, <2>2
<1>6. ASSUME orderly PROVE Billed'
  <2>0. Alone(t)
    BY <1>6, BusyIsAlone DEF WriteEmail
  <2>1. TickOK(k) /\ DetectorOK
    BY <1>a, <1>6 DEF BInv, Billed
  <2>2. DetectorOK'
    <3>1. k.sampled \in Nat /\ (seen # None => seen = k.sampled)
      BY <1>1, <1>3, <2>1 DEF TickOK, DetectorTick, Boots
    <3>2. k.life[e].boot <= k.sampled
      BY <1>3, <3>1
    <3>3. ASSUME seen # None, NEW f \in Emails PROVE counted'[f].boot <= seen
      <4>1. CASE f = e
        BY <1>2, <3>1, <3>2, <3>3, <4>1
      <4>2. CASE f # e
        BY <1>d, <2>1, <3>3, <4>2 DEF DetectorOK
      <4>. QED
        BY <4>1, <4>2
    <3>. QED
      BY <1>b, <2>1, <3>3 DEF DetectorOK
  <2>3. RowPaid(e)'
    <3>1. email'[e].last = k.stats[e] /\ email'[e].up + Later(k, e) <= carried[e]
      BY <1>a, <1>6, WrittenRow
    <3>2. Pending(k, e) /\ ReportPaid(k, e)
      <4>1. TodoOK(k) /\ e # None
        BY <1>a, NoneFacts DEF TInv
      <4>2. e \in k.todo /\ k.stats[e] # None
        BY <1>1, <4>1 DEF TodoOK
      <4>. QED
        BY <1>1, <2>1, <4>2 DEF Pending, TickOK
    <3>3. Life(e)' = Life(e)
      BY <1>b DEF Life
    <3>4. Unseen(e)' = Later(k, e)
      BY <1>b, <1>2, <3>1, <3>3 DEF Unseen, Later
    <3>. QED
      BY <1>b, <1>2, <3>1, <3>2, <3>3, <3>4 DEF RowPaid, ReportPaid
  <2>4. ASSUME NEW f \in Emails PROVE RowPaid(f)'
    <3>1. CASE f = e
      BY <2>3, <3>1
    <3>2. CASE f # e
      <4>1. RowPaid(f)
        BY <1>6 DEF BInv, Billed
      <4>. QED
        BY <1>b, <1>d, <3>2, <4>1 DEF RowPaid, Unseen, Life
    <3>. QED
      BY <3>1, <3>2
  <2>5. TickOK(new)'
    <3>1. DetectorTick(new)'
      <4>1. \A f \in Emails : counted'[f].boot <= k.sampled
        BY <1>d, <1>1, <1>2, <1>3, <2>1 DEF TickOK, DetectorTick, Active, Boots
      <4>2. k.restart => \A f \in new.todo : counted'[f] # k.life[f]
        <5>1. k.todo \subseteq Emails
          BY <1>a, <1>1 DEF TInv, TodoOK
        <5>. QED
          BY <1>d, <1>1, <2>1, <5>1 DEF TickOK, DetectorTick
      <4>. QED
        BY <1>b, <1>1, <2>1, <4>1, <4>2 DEF TickOK, DetectorTick, Active
    <3>2. OldTick(new)'
      BY <1>1 DEF OldTick
    <3>3. ASSUME NEW f \in Emails PROVE ReportPaid(new, f)'
      <4>1. CASE f = e
        BY <1>1, <4>1 DEF ReportPaid, Pending
      <4>2. CASE f # e
        BY <1>b, <1>d, <1>1, <2>1, <4>2
           DEF TickOK, ReportPaid, Pending, Due, Later, Life
      <4>. QED
        BY <4>1, <4>2
    <3>. QED
      BY <3>1, <3>2, <3>3 DEF TickOK
  <2>6. TickOK(Idle)'
    <3>1. Idle.pc = "idle"
      BY DEF Idle
    <3>. QED
      BY <3>1 DEF TickOK, DetectorTick, OldTick, ReportPaid, Pending, Active, Idle
  <2>7. \A s \in Ticks \ {t} : tick'[s] = Idle
    BY <1>c, <2>0 DEF Alone
  <2>8. ASSUME NEW s \in Ticks PROVE TickOK(tick[s])'
    <3>1. CASE s = t
      BY <1>a, <2>5, <3>1
    <3>2. CASE s # t
      <4>1. tick'[s] = Idle
        BY <2>7, <3>2
      <4>. QED
        BY <2>6, <4>1
    <3>. QED
      BY <3>1, <3>2
  <2>9. Single'
    <3>1. \A s, r \in Ticks : s = r \/ tick'[s] = Idle \/ tick'[r] = Idle
      BY <2>7
    <3>. QED
      BY <3>1 DEF Single, Idle
  <2>. QED
    BY <2>2, <2>4, <2>8, <2>9 DEF Billed
<1>. QED
  BY <1>b, <1>4, <1>5, <1>6 DEF BInv, Lived

-----------------------------------------------------------------------------
LEMMA NextBInv == TInv /\ BInv /\ [Next]_vars => BInv'
<1>. SUFFICES ASSUME TInv, BInv, [Next]_vars PROVE BInv'
  OBVIOUS
<1>1. CASE UNCHANGED vars
  BY <1>1, SameBilling DEF vars, xrayVars
<1>2. ASSUME NEW t \in Ticks, TickStep(t) PROVE BInv'
  BY <1>2, ReportBilling, JudgeBilling, EmailBilling, WriteBilling, UsersBilling
     DEF TickStep, Names
<1>. QED
  BY <1>1, <1>2, ServerStepBilling, AdminStepBilling, PanelBilling DEF Next

\* What is charged and what is still to be charged have both been carried.
LEMMA PaidIsCarried == TInv /\ BInv => NeverOverbilled
<1>. SUFFICES ASSUME TInv, BInv, orderly, NEW e \in Emails
              PROVE  email[e].up <= carried[e]
  BY DEF NeverOverbilled
<1>1. RowPaid(e)
  BY DEF BInv, Billed
<1>2. Unseen(e) \in Nat
  BY <1>1, NotNegative
<1>. QED
  BY <1>1, <1>2, RowNumbers DEF RowPaid

\* For any clients and any number of restarts, removals, resets, failed writes
\* and restarts of the panel: while reports come one by one, each with the boot
\* time of the xray that counted, no client is charged a byte that it has not
\* carried (Upsert* with CheckAndUpdate).
THEOREM NoByteTwice == Spec => []NeverOverbilled
<1>1. Spec => [](TInv /\ BInv)
  BY InitTInv, NextTInv, InitBInv, NextBInv, PTL DEF Spec
<1>. QED
  BY <1>1, PaidIsCarried, PTL

-----------------------------------------------------------------------------
(* A byte is counted once.  While reports are orderly the lives of a client  *)
(* are counted in order, from the one that its row was made in.              *)

CountsRow(e) ==
    email[e].exists =>
        /\ born[e].life.boot <= counted[e].boot /\ born[e].life.nth <= counted[e].nth
        /\ born[e].life = counted[e] => email[e].up = email[e].last - born[e].raw
CountsTick(k) == \A e \in Emails : Pending(k, e) => counted[e].nth <= k.life[e].nth
CInv == orderly => /\ \A e \in Emails : CountsRow(e)
                   /\ \A t \in Ticks : CountsTick(tick[t])

LEMMA InitCInv == Init => CInv
<1>1. Idle.pc = "idle"
  BY DEF Idle
<1>. QED
  BY <1>1 DEF Init, CInv, CountsRow, CountsTick, Pending, NoEmailRow

\* A step that writes no counter of a row, and after which every goroutine
\* carries what it carried or what it has just sampled.
LEMMA SameCounts ==
  ASSUME TInv, BInv, CInv, UNCHANGED <<counted, born>>, orderly' => orderly,
         \A e \in Emails : /\ email'[e].up = email[e].up /\ email'[e].last = email[e].last
                           /\ email'[e].exists = email[e].exists,
         \A t \in Ticks, e \in Emails : Pending(tick'[t], e) =>
             \/ Pending(tick[t], e) /\ tick'[t].life[e] = tick[t].life[e]
             \/ tick'[t].life[e] = Life(e)
  PROVE  CInv'
<1>. SUFFICES ASSUME orderly' PROVE (\A e \in Emails : CountsRow(e)') /\ \A t \in Ticks : CountsTick(tick[t])'
  BY DEF CInv
<1>1. \A e \in Emails : CountsRow(e)'
  BY DEF CInv, CountsRow
<1>2. ASSUME NEW t \in Ticks, NEW e \in Emails, Pending(tick'[t], e)
      PROVE  counted[e].nth <= tick'[t].life[e].nth
  BY <1>2, LifeFacts DEF CInv, CountsTick, BInv, Lived, RowLives
<1>. QED
  BY <1>1, <1>2 DEF CountsTick

LEMMA OtherCounts ==
  ASSUME TInv, BInv, CInv, \/ ServerStep \/ AdminStep \/ PanelRestarts
  PROVE  CInv'
<1>1. CASE ServerStep
  <2>1. UNCHANGED <<email, counted, born, tick, orderly>>
    BY <1>1 DEF ServerStep, XrayRestarts, Heartbeat, Transfer, RemoveClient, AddClient, rowVars
  <2>. QED
    BY <2>1, SameCounts
<1>2. CASE AdminStep
  <2>1. ASSUME NEW e \in Emails PROVE OldRow(email'[e]) = OldRow(email[e]) /\ email'[e].up = email[e].up
    <3>1. ASSUME NEW u \in Users, ResetCycle(u)
          PROVE  OldRow(email'[e]) = OldRow(email[e]) /\ email'[e].up = email[e].up
      BY <3>1 DEF ResetCycle, ResetRow, OldRow, TInv, TypeOK, EmailRows
    <3>2. UNCHANGED email \/ \E u \in Users : ResetCycle(u)
      BY <1>2 DEF AdminStep, MoveNode, SetWeight, rowVars
    <3>. QED
      BY <3>1, <3>2
  <2>2. UNCHANGED <<counted, born, tick, orderly>>
    BY <1>2 DEF AdminStep, MoveNode, SetWeight, ResetCycle, rowVars
  <2>. QED
    BY <2>1, <2>2, SameCounts DEF OldRow
<1>3. CASE PanelRestarts
  <2>1. UNCHANGED <<email, counted, born, orderly>> /\ \A t \in Ticks : tick'[t] = Idle
    BY <1>3 DEF PanelRestarts, rowVars
  <2>2. \A e \in Emails : ~Pending(Idle, e)
    BY DEF Pending, Idle
  <2>. QED
    BY <2>1, <2>2, SameCounts
<1>. QED
  BY <1>1, <1>2, <1>3

\* A goroutine that writes no row of a client.
LEMMA TickCounts ==
  ASSUME TInv, BInv, CInv, NEW t \in Ticks, TickStep(t),
         \A e \in Emails, who \in Names : ~WriteEmail(t, e, who)
  PROVE  CInv'
<1>. DEFINE k == tick[t]
            new == tick'[t]
            Kept == /\ UNCHANGED <<email, counted, born>> /\ (orderly' => orderly)
                    /\ \A e \in Emails : Pending(new, e) =>
                          \/ Pending(k, e) /\ new.life[e] = k.life[e]
                          \/ new.life[e] = Life(e)
<1>0. \A s \in Ticks \ {t} : tick'[s] = tick[s]
  BY OthersStay DEF TInv, TypeOK
<1>1. ASSUME PushArrives(t) PROVE Kept
  BY <1>1, ArriveShape DEF Lifes
<1>2. ASSUME PullFetched(t) PROVE Kept
  BY <1>2, FetchShape DEF Lifes
<1>3. ASSUME PushLookup(t) PROVE Kept
  BY <1>3, LookupShape DEF Pending
<1>4. ASSUME Judge(t) PROVE Kept
  BY <1>4, JudgeShape DEF Pending
<1>5. ASSUME NEW f \in Emails, ReadEmail(t, f) PROVE Kept
  BY <1>5, ReadEmailShape DEF Pending
<1>6. ASSUME NEW f \in Emails, NEW who \in Names, EmailFails(t, f, who) PROVE Kept
  <2>1. UNCHANGED <<email, counted, born, orderly>>
    BY <1>6 DEF EmailFails, rowVars
  <2>. QED
    BY <1>6, <2>1, EmailDoneShape DEF Pending
<1>7. ASSUME PullListed(t) PROVE Kept
  BY <1>7, ListShape DEF Pending
<1>8. ASSUME EmailsDone(t) PROVE Kept
  BY <1>8, EmailsDoneShape DEF Pending
<1>9. ASSUME Finish(t) PROVE Kept
  BY <1>9, FinishShape DEF Pending, Idle
<1>10. ASSUME NEW u \in Users, ReadUser(t, u) PROVE Kept
  BY <1>10, ReadUserShape DEF Pending
<1>11. ASSUME NEW u \in Users, WriteUser(t, u) \/ UserFails(t, u) PROVE Kept
  BY <1>11, UserDoneShape DEF Pending
<1>12. Kept
  BY <1>1, <1>2, <1>3, <1>4, <1>5, <1>6, <1>7, <1>8, <1>9, <1>10, <1>11 DEF TickStep
<1>13. \A s \in Ticks, e \in Emails : Pending(tick'[s], e) =>
             \/ Pending(tick[s], e) /\ tick'[s].life[e] = tick[s].life[e]
             \/ tick'[s].life[e] = Life(e)
  BY <1>0, <1>12
<1>. QED
  BY <1>12, <1>13, SameCounts

LEMMA WriteCounts ==
  ASSUME TInv, BInv, CInv, NEW t \in Ticks, NEW e \in Emails, NEW who \in Names,
         WriteEmail(t, e, who)
  PROVE  CInv'
<1>. DEFINE k == tick[t]
            delta == Delta(k.old.last, k.stats[e], k.restart)
<1>. SUFFICES ASSUME orderly' PROVE (\A f \in Emails : CountsRow(f)') /\ \A s \in Ticks : CountsTick(tick[s])'
  BY DEF CInv
<1>0. /\ orderly /\ tick \in [Ticks -> TickStates] /\ k \in TickStates
      /\ TodoOK(k) /\ email \in [Emails -> EmailRows] /\ email[e] \in EmailRows
      /\ counted \in [Emails -> Lives] /\ born \in [Emails -> [life : Lives, raw : Nat]]
  BY DEF WriteEmail, TInv, TypeOK
<1>a. \A f \in Emails \ {e} : email'[f] = email[f] /\ counted'[f] = counted[f] /\ born'[f] = born[f]
  BY <1>0 DEF WriteEmail
<1>b. /\ counted'[e] = k.life[e]
      /\ born'[e] = IF k.old.exists THEN born[e] ELSE [life |-> k.life[e], raw |-> k.stats[e]]
      /\ email'[e] = IF k.old.exists THEN UpdatedEmail(t, e) ELSE InsertedEmail(t, e)
  BY <1>0 DEF WriteEmail
<1>1. k.pc = "emails" /\ k.at = e /\ e \in k.todo /\ k.stats[e] # None /\ e # None
  BY <1>0, NoneFacts DEF WriteEmail, TodoOK
<1>2. Pending(k, e) /\ ReportPaid(k, e) /\ DetectorTick(k) /\ OldTick(k) /\ LiveTick(k)
  BY <1>0, <1>1 DEF Pending, BInv, Lived, Billed, TickOK
<1>3. /\ counted[e].nth <= k.life[e].nth
      /\ counted[e].boot <= k.life[e].boot
      /\ k.restart => counted[e] # k.life[e]
      /\ counted[e] = k.life[e] => email[e].last <= k.stats[e]
      /\ k.old = OldRow(email[e])
  BY <1>0, <1>1, <1>2 DEF CInv, CountsTick, DetectorTick, OldTick, LiveTick, ReportPaid, Active
<1>4. CountsRow(e)'
  <2>1. CASE k.old.exists
    <3>1. CountsRow(e) /\ email[e].exists
      BY <1>0, <1>3, <2>1 DEF CInv, OldRow
    <3>2. email'[e].up = email[e].up + delta /\ email'[e].last = k.stats[e]
      BY <1>0, <1>b, <2>1 DEF UpdatedEmail, EmailRows
    <3>3. born'[e] = born[e] /\ born[e].life \in Lives /\ counted[e] \in Lives /\ k.life[e] \in Lives
      BY <1>0, <1>b, <2>1 DEF TickStates
    <3>4. /\ born[e].life.boot <= k.life[e].boot /\ born[e].life.nth <= k.life[e].nth
      BY <1>3, <3>1, <3>3 DEF CountsRow, Lives, Boots
    <3>5. ASSUME born[e].life = k.life[e] PROVE email'[e].up = k.stats[e] - born[e].raw
      <4>1. counted[e] = k.life[e]
        BY <1>3, <3>1, <3>3, <3>5 DEF CountsRow, Lives, Boots
      <4>2. k.old.last = email[e].last /\ ~k.restart /\ email[e].last <= k.stats[e]
        BY <1>3, <4>1 DEF OldRow
      <4>3. k.stats[e] \in Nat /\ email[e].last \in Nat /\ email[e].up \in Nat /\ born[e].raw \in Nat
        BY <1>0, <1>1, TickNumbers, RowNumbers
      <4>4. delta = k.stats[e] - email[e].last
        BY <4>2, <4>3 DEF Delta
      <4>5. email[e].up = email[e].last - born[e].raw
        BY <3>1, <3>5, <4>1 DEF CountsRow
      <4>. HIDE DEF k, delta
      <4>. QED
        BY <3>2, <4>3, <4>4, <4>5
    <3>. QED
      BY <1>b, <3>2, <3>3, <3>4, <3>5 DEF CountsRow
  <2>2. CASE ~k.old.exists
    <3>1. email'[e].up = 0 /\ email'[e].last = k.stats[e]
      BY <1>b, <2>2 DEF InsertedEmail, NoEmailRow
    <3>2. born'[e].life = k.life[e] /\ born'[e].raw = k.stats[e]
      BY <1>b, <2>2
    <3>3. k.stats[e] \in Nat /\ k.life[e].boot \in Nat /\ k.life[e].nth \in Nat
      BY <1>0, <1>1, TickNumbers
    <3>. QED
      BY <1>b, <3>1, <3>2, <3>3 DEF CountsRow
  <2>. QED
    BY <2>1, <2>2
<1>5. ASSUME NEW f \in Emails PROVE CountsRow(f)'
  <2>1. CASE f = e
    BY <1>4, <2>1
  <2>2. CASE f # e
    BY <1>0, <1>a, <2>2 DEF CInv, CountsRow
  <2>. QED
    BY <2>1, <2>2
<1>6. ASSUME NEW s \in Ticks PROVE CountsTick(tick[s])'
  <2>1. CASE s = t
    <3>1. /\ tick'[t].pc = "emails" /\ tick'[t].life = k.life /\ tick'[t].stats = k.stats
          /\ tick'[t].todo = k.todo \ {e}
      BY EmailDoneShape
    <3>2. CountsTick(k)
      BY <1>0 DEF CInv
    <3>. QED
      BY <1>a, <1>1, <2>1, <3>1, <3>2 DEF CountsTick, Pending
  <2>2. CASE s # t
    <3>1. tick'[s] = Idle
      BY <1>0, <1>1, <2>2, BusyIsAlone DEF Alone, WriteEmail, EmailDone, Go
    <3>. QED
      BY <3>1 DEF CountsTick, Pending, Idle
  <2>. QED
    BY <2>1, <2>2
<1>. QED
  BY <1>5, <1>6

LEMMA NextCInv == TInv /\ BInv /\ CInv /\ [Next]_vars => CInv'
<1>. SUFFICES ASSUME TInv, BInv, CInv, [Next]_vars PROVE CInv'
  OBVIOUS
<1>1. CASE UNCHANGED vars
  BY <1>1, SameCounts DEF vars
<1>2. ASSUME NEW t \in Ticks, TickStep(t) PROVE CInv'
  BY <1>2, TickCounts, WriteCounts
<1>. QED
  BY <1>1, <1>2, OtherCounts DEF Next

\* The life that a row began in is still the present one only if every report
\* since was of that life.
LEMMA CountsAreExact == TInv /\ BInv /\ CInv => CountedOnce
<1>. SUFFICES ASSUME TInv, BInv, CInv, orderly, NEW e \in Emails,
                     email[e].exists, born[e].life = Life(e)
              PROVE  email[e].up = email[e].last - born[e].raw
  BY DEF CountedOnce
<1>1. CountsRow(e)
  BY DEF CInv
<1>2. counted[e].boot <= boot /\ counted[e].nth <= adds[e]
  BY DEF BInv, Lived, RowLives
<1>3. counted[e] = Life(e)
  <2>1. counted[e].boot = boot /\ counted[e].nth = adds[e]
    BY <1>1, <1>2, LifeFacts, RowNumbers DEF CountsRow
  <2>. QED
    BY <2>1, RowNumbers DEF Life, Lives
<1>. QED
  BY <1>1, <1>3 DEF CountsRow

\* For any clients, restarts, removals, resets, failed writes and restarts of
\* the panel: while the counter that a row started from lives and reports come
\* one by one, the row has counted each byte since then exactly once (Upsert*
\* with CheckAndUpdate).
THEOREM EachByteOnce == Spec => []CountedOnce
<1>1. Spec => [](TInv /\ BInv /\ CInv)
  BY InitTInv, NextTInv, InitBInv, NextBInv, InitCInv, NextCInv, PTL DEF Spec
<1>. QED
  BY <1>1, CountsAreExact, PTL

-----------------------------------------------------------------------------
(* The rows of users.  A report adds the counters of a user's clients up.    *)

\* The clients that were last added to the sum of u.
Current(u) == {e \in Emails : payer[e] = u}

LEMMA PartsFinite ==
  \A u : /\ IsFiniteSet(Clients(u)) /\ Clients(u) \subseteq Emails
         /\ IsFiniteSet(Current(u)) /\ Current(u) \subseteq Emails
         /\ \A S \in SUBSET Emails : IsFiniteSet(S)
  BY EmailsAssumption, FS_Subset DEF Clients, Current

LEMMA PartNat ==
  ASSUME NEW S \in SUBSET Emails, NEW f \in [Emails -> Nat]
  PROVE  Sum(f, S) \in Nat
  BY PartsFinite, SumNat

LEMMA PartAt ==
  ASSUME NEW S \in SUBSET Emails, NEW f \in [Emails -> Nat], NEW g \in [Emails -> Nat],
         NEW e \in Emails, \A x \in Emails \ {e} : g[x] = f[x]
  PROVE  Sum(g, S) = Sum(f, S) + (IF e \in S THEN g[e] - f[e] ELSE 0)
<1>0. IsFiniteSet(S) /\ \A x \in S : f[x] \in Nat /\ g[x] \in Nat
  BY PartsFinite
<1>1. Sum(g, S) = IF e \in S THEN Sum(f, S) + (g[e] - f[e]) ELSE Sum(f, S)
  <2>1. \A x \in S \ {e} : g[x] = f[x]
    OBVIOUS
  <2>. QED
    BY <1>0, <2>1, SumAt
<1>2. Sum(f, S) \in Nat /\ f[e] \in Nat /\ g[e] \in Nat
  BY PartNat
<1>. QED
  BY <1>1, <1>2

LEMMA PartAdd ==
  ASSUME NEW S \in SUBSET Emails, NEW f \in [Emails -> Nat], NEW e \in Emails, e \notin S
  PROVE  Sum(f, S \cup {e}) = Sum(f, S) + f[e]
<1>. DEFINE T == S \cup {e}
<1>1. IsFiniteSet(T) /\ T \ {e} = S /\ e \in T /\ \A x \in T : f[x] \in Nat
  BY PartsFinite
<1>. HIDE DEF T
<1>2. Sum(f, T) = f[e] + Sum(f, T \ {e})
  BY <1>1, SumRemove
<1>3. Sum(f, T) = f[e] + Sum(f, S)
  BY <1>1, <1>2
<1>4. Sum(f, S) \in Nat /\ f[e] \in Nat
  BY PartNat
<1>5. Sum(f, T) = Sum(f, S) + f[e]
  BY <1>3, <1>4
<1>. QED
  BY <1>5 DEF T

LEMMA PartZero ==
  ASSUME NEW S \in SUBSET Emails, NEW f \in [Emails -> Nat], \A e \in Emails : f[e] = 0
  PROVE  Sum(f, S) = 0
  BY PartsFinite, SumZero

\* What the clients of u have counted, and what they have carried.
Counts    == [e \in Emails |-> IF counter[e] = None THEN 0 ELSE counter[e]]
Counted(u) == Sum(Counts, Current(u))
Used(u)   == Sum(carried, Clients(u))

\* The counters that a report has still to add up, and whose they are.
Waiting(k) == {e \in Emails : Pending(k, e)}
RestOf(k)  == [e \in Emails |-> IF Pending(k, e) THEN k.stats[e] ELSE 0]

\* If of the waiting counters those of S go into the sum of u: the sum, and what
\* the clients that are in it will have counted when the next report is taken.
Taken(k, u, S) == k.sum[u] + Sum(RestOf(k), S)
Left(k, u, S)  == Sum(Counts, S \cup (Current(u) \ Waiting(k)))

\* Will the next report, this report, the report after this one be taken whole?
Renewed   == seen # None /\ seen # boot
Flagged(k) == IF k.pc \in {"arrived", "judge"} THEN seen # None /\ seen # k.sampled ELSE k.restart
Outlived(k) == IF k.pc \in {"arrived", "judge"} THEN k.sampled # boot ELSE Renewed

\* What a row holds after a report that finds total, and one that finds count.
Charge(row, total, count, flag, w) ==
    row.up + Delta(row.last, total, flag) + Delta(total, count, w)

UserPaid(u) == user[u].up + Delta(user[u].last, Counted(u), Renewed) <= Used(u)
InReport(k, u) == Active(k) \/ (k.pc = "users" /\ u \in k.todo)
Bill(k, u, S) == Charge(user[u], Taken(k, u, S), Left(k, u, S), Flagged(k), Outlived(k))
UserDue(k, u) ==
    InReport(k, u) => \A S \in SUBSET (Current(u) \cap Waiting(k)) : Bill(k, u, S) <= Used(u)
OldUser(k) ==
    k.pc = "users" => /\ k.todo \subseteq Users
                      /\ k.at # None => k.at \in k.todo /\ k.old = OldRow(user[k.at])
Empty(k)  == k.pc \in {"idle", "arrived", "listed", "judge"} => k.sum = NoSum
UserTick(k) == OldUser(k) /\ Empty(k) /\ \A u \in Users : UserDue(k, u)

Calm == orderly /\ steady
UInv == Calm => /\ \A u \in Users : UserPaid(u)
                /\ \A t \in Ticks : UserTick(tick[t])

\* What a client that joins a sum brings with it: it has carried what it counts,
\* and what a report carries of it together with what comes after.
SampleOK(k) ==
    \A e \in Emails : Pending(k, e) =>
        k.stats[e] + Delta(k.stats[e], Counts[e], Outlived(k)) <= carried[e]
VInv ==
    /\ \A e \in Emails : payer[e] # None => payer[e] \in payers[e]
    /\ \A e \in Emails : Counts[e] <= carried[e]
    /\ orderly => \A t \in Ticks : SampleOK(tick[t])

UserNat(u) ==
    /\ user[u] \in UserRows /\ user[u].up \in Nat /\ user[u].last \in Nat
    /\ Counted(u) \in Nat /\ Used(u) \in Nat

LEMMA CountNumbers ==
  ASSUME TInv
  PROVE  /\ Counts \in [Emails -> Nat] /\ carried \in [Emails -> Nat] /\ Renewed \in BOOLEAN
         /\ \A e \in Emails : Counts[e] \in Nat /\ carried[e] \in Nat
  BY NoneFacts DEF TInv, TypeOK, Counts, Raw, Renewed

LEMMA CountNumbersNext ==
  TInv' => /\ Counts' \in [Emails -> Nat] /\ carried' \in [Emails -> Nat] /\ Renewed' \in BOOLEAN
           /\ \A e \in Emails : Counts'[e] \in Nat /\ carried'[e] \in Nat
<1>1. (TInv => /\ Counts \in [Emails -> Nat] /\ carried \in [Emails -> Nat] /\ Renewed \in BOOLEAN
               /\ \A e \in Emails : Counts[e] \in Nat /\ carried[e] \in Nat)'
  BY CountNumbers, PTL
<1>. QED
  BY <1>1

LEMMA UserNumbers == TInv => \A u \in Users : UserNat(u)
<1>. SUFFICES ASSUME TInv, NEW u \in Users PROVE UserNat(u)
  OBVIOUS
<1>1. user[u] \in UserRows /\ user[u].up \in Nat /\ user[u].last \in Nat
  BY DEF TInv, TypeOK, UserRows
<1>2. Counted(u) \in Nat /\ Used(u) \in Nat
  BY CountNumbers, PartsFinite, PartNat DEF Counted, Used
<1>. QED
  BY <1>1, <1>2 DEF UserNat

LEMMA UserNumbersNext == TInv' => \A u \in Users : UserNat(u)'
<1>1. (TInv => \A u \in Users : UserNat(u))'
  BY UserNumbers, PTL
<1>. QED
  BY <1>1

LEMMA DueNumbers ==
  ASSUME TInv, NEW k \in TickStates, NEW u \in Users
  PROVE  /\ RestOf(k) \in [Emails -> Nat] /\ k.sum[u] \in Nat
         /\ Flagged(k) \in BOOLEAN /\ Outlived(k) \in BOOLEAN
         /\ \A S \in SUBSET Emails :
               Taken(k, u, S) \in Nat /\ Left(k, u, S) \in Nat /\ Sum(RestOf(k), S) \in Nat
<1>1. RestOf(k) \in [Emails -> Nat]
  BY NoneFacts DEF RestOf, Pending, TickStates, Raw
<1>2. k.sum[u] \in Nat /\ k.restart \in BOOLEAN
  BY DEF TickStates
<1>3. Flagged(k) \in BOOLEAN /\ Outlived(k) \in BOOLEAN
  BY <1>2 DEF Flagged, Outlived, Renewed
<1>4. ASSUME NEW S \in SUBSET Emails
      PROVE  Taken(k, u, S) \in Nat /\ Left(k, u, S) \in Nat /\ Sum(RestOf(k), S) \in Nat
  <2>1. Sum(RestOf(k), S) \in Nat
    BY <1>1, PartNat
  <2>2. S \cup (Current(u) \ Waiting(k)) \in SUBSET Emails
    BY DEF Current
  <2>3. Left(k, u, S) \in Nat
    BY <2>2, CountNumbers, PartNat DEF Left
  <2>. QED
    BY <1>2, <2>1, <2>3 DEF Taken
<1>. QED
  BY <1>1, <1>2, <1>3, <1>4

-----------------------------------------------------------------------------
(* Arithmetic of one row.                                                    *)

\* What Delta takes grows no faster than the count.
LEMMA DeltaGrows ==
  ASSUME NEW last \in Nat, NEW m \in Nat, NEW n \in Nat, NEW d \in Nat, n <= m + d,
         NEW w \in BOOLEAN
  PROVE  Delta(last, n, w) <= Delta(last, m, w) + d
  BY DEF Delta

LEMMA DeltaLess ==
  ASSUME NEW last \in Nat, NEW n \in Nat, NEW w \in BOOLEAN, NEW v \in BOOLEAN, v => w
  PROVE  Delta(last, n, v) <= Delta(last, n, w)
  BY DEF Delta

\* What is paid stays paid when less outlives the report, with it and without it.
LEMMA LessDue ==
  ASSUME NEW up \in Nat, NEW last \in Nat, NEW total \in Nat, NEW count \in Nat,
         NEW used \in Nat, NEW flag \in BOOLEAN, NEW w \in BOOLEAN, NEW v \in BOOLEAN, v => w,
         up + Delta(last, total, flag) + Delta(total, count, w) <= used
  PROVE  /\ up + Delta(last, total, flag) + Delta(total, count, v) <= used
         /\ up + Delta(last, count, v) <= used
<1>1. CASE v
  BY <1>1 DEF Delta
<1>2. CASE ~v
  BY <1>2 DEF Delta
<1>. QED
  BY <1>1, <1>2

-----------------------------------------------------------------------------
(* What a client that joins a sum brings with it.                            *)

\* A goroutine that processes an orderly report is alone, and no counter moves.
LEMMA OrderlyStep ==
  ASSUME TInv, BInv, NEW t \in Ticks, TickStep(t)
  PROVE  /\ orderly' => orderly /\ Alone(t)
         /\ UNCHANGED <<boot, counter, carried>>
         /\ \A s \in Ticks \ {t} : tick'[s] = tick[s]
<1>0. \A s \in Ticks \ {t} : tick'[s] = tick[s]
  BY OthersStay DEF TInv, TypeOK
<1>1. CASE PushArrives(t) \/ PullListed(t)
  BY <1>0, <1>1, ArriveShape, ListShape DEF PushArrives, PullListed
<1>2. CASE Judge(t)
  BY <1>0, <1>2, JudgeShape, BusyIsAlone
<1>3. ASSUME tick[t].pc # "idle", UNCHANGED <<boot, counter, carried, orderly>>
      PROVE  /\ orderly' => orderly /\ Alone(t)
             /\ UNCHANGED <<boot, counter, carried>>
  BY <1>3, BusyIsAlone
<1>4. CASE PushLookup(t) \/ PullFetched(t)
  BY <1>0, <1>3, <1>4, LookupShape, FetchShape
<1>5. ASSUME NEW e \in Emails, NEW who \in Names,
             ReadEmail(t, e) \/ WriteEmail(t, e, who) \/ EmailFails(t, e, who)
      PROVE  /\ orderly' => orderly /\ Alone(t)
             /\ UNCHANGED <<boot, counter, carried>>
  <2>1. tick[t].pc # "idle" /\ UNCHANGED <<boot, counter, carried, orderly>>
    BY <1>5, ReadEmailShape, EmailDoneShape
  <2>. QED
    BY <1>3, <2>1
<1>6. CASE EmailsDone(t) \/ Finish(t)
  BY <1>0, <1>3, <1>6, EmailsDoneShape, FinishShape
<1>7. ASSUME NEW u \in Users, ReadUser(t, u) \/ WriteUser(t, u) \/ UserFails(t, u)
      PROVE  /\ orderly' => orderly /\ Alone(t)
             /\ UNCHANGED <<boot, counter, carried>>
  <2>1. tick[t].pc # "idle" /\ UNCHANGED <<boot, counter, carried, orderly>>
    BY <1>7, ReadUserShape, UserDoneShape
  <2>. QED
    BY <1>3, <2>1
<1>8. /\ orderly' => orderly /\ Alone(t)
      /\ UNCHANGED <<boot, counter, carried>>
  <2>1. \/ PushArrives(t) \/ PullListed(t) \/ Judge(t) \/ PushLookup(t) \/ PullFetched(t)
        \/ \E e \in Emails, who \in Names :
              ReadEmail(t, e) \/ WriteEmail(t, e, who) \/ EmailFails(t, e, who)
        \/ EmailsDone(t) \/ Finish(t)
        \/ \E u \in Users : ReadUser(t, u) \/ WriteUser(t, u) \/ UserFails(t, u)
    BY DEF TickStep, Names
  <2>. QED
    BY <1>1, <1>2, <1>4, <1>5, <1>6, <1>7, <2>1
<1>. QED
  BY <1>0, <1>8

LEMMA InitVInv == Init => VInv
<1>. SUFFICES ASSUME Init PROVE VInv
  OBVIOUS
<1>1. \A e \in Emails : Counts[e] = 0 /\ carried[e] = 0 /\ payer[e] = None
  BY NoneFacts DEF Init, Counts
<1>2. SampleOK(Idle)
  BY DEF SampleOK, Pending, Idle
<1>. QED
  BY <1>1, <1>2 DEF VInv, Init

\* A counter gains what its client carries, or begins again.
LEMMA ServerSamples ==
  ASSUME TInv, TInv', VInv, UNCHANGED <<tick, orderly, seen, payer, payers>>,
         \A e \in Emails :
            \/ /\ boot' = boot
               /\ \/ Counts'[e] = Counts[e] /\ carried'[e] = carried[e]
                  \/ Counts'[e] = Counts[e] + 1 /\ carried'[e] = carried[e] + 1
            \/ Counts'[e] = 0 /\ carried'[e] = carried[e]
  PROVE  VInv'
<1>1. \A e \in Emails : payer'[e] # None => payer'[e] \in payers'[e]
  BY DEF VInv
<1>2. \A e \in Emails : Counts'[e] <= carried'[e]
  BY CountNumbers, CountNumbersNext DEF VInv
<1>3. ASSUME orderly, NEW t \in Ticks PROVE SampleOK(tick[t])'
  <2>. DEFINE k == tick[t]
  <2>0. k' = k /\ k \in TickStates
    BY DEF TInv, TypeOK
  <2>1. SampleOK(k)
    BY <1>3 DEF VInv
  <2>2. ASSUME NEW e \in Emails, Pending(k, e)
        PROVE  k.stats[e] + Delta(k.stats[e], Counts'[e], Outlived(k)') <= carried'[e]
    <3>1. /\ k.stats[e] \in Nat /\ Counts[e] \in Nat /\ Counts'[e] \in Nat /\ carried[e] \in Nat
          /\ Outlived(k) \in BOOLEAN /\ Outlived(k)' \in BOOLEAN
      BY <2>0, <2>2, TickNumbers, CountNumbers, CountNumbersNext
         DEF Pending, Outlived, Renewed, TickStates
    <3>2. k.stats[e] + Delta(k.stats[e], Counts[e], Outlived(k)) <= carried[e]
      BY <2>1, <2>2 DEF SampleOK
    <3>3. boot' = boot => Outlived(k)' = Outlived(k)
      BY <2>0 DEF Outlived, Renewed
    <3>. DEFINE s == k.stats[e]
    <3>. HIDE DEF k, s
    <3>4. s \in Nat /\ s + Delta(s, Counts[e], Outlived(k)) <= carried[e]
      BY <3>1, <3>2 DEF s
    <3>5. CASE boot' = boot /\ Counts'[e] = Counts[e] /\ carried'[e] = carried[e]
      BY <3>3, <3>4, <3>5 DEF s
    <3>6. CASE boot' = boot /\ Counts'[e] = Counts[e] + 1 /\ carried'[e] = carried[e] + 1
      <4>1. Outlived(k)' = Outlived(k)
        BY <3>3, <3>6
      <4>2. Delta(s, Counts'[e], Outlived(k)) <= Delta(s, Counts[e], Outlived(k)) + 1
        BY <3>1, <3>4, <3>6, DeltaGrows
      <4>3. Delta(s, Counts'[e], Outlived(k)) \in Nat /\ Delta(s, Counts[e], Outlived(k)) \in Nat
        BY <3>1, <3>4, DeltaType
      <4>. QED
        BY <3>1, <3>4, <3>6, <4>1, <4>2, <4>3 DEF s
    <3>7. CASE Counts'[e] = 0 /\ carried'[e] = carried[e]
      <4>1. Delta(s, 0, Outlived(k)') = 0
        BY <3>1, <3>4 DEF Delta
      <4>2. Delta(s, Counts[e], Outlived(k)) \in Nat
        BY <3>1, <3>4, DeltaType
      <4>. QED
        BY <3>1, <3>4, <3>7, <4>1, <4>2 DEF s
    <3>. QED
      BY <3>5, <3>6, <3>7
  <2>. QED
    BY <2>0, <2>2 DEF SampleOK, Pending, Delta
<1>. QED
  BY <1>1, <1>2, <1>3 DEF VInv

\* What the steps of the server do to the counter of a client.
LEMMA CounterSteps ==
  ASSUME TInv, TInv', ServerStep
  PROVE  /\ UNCHANGED <<tick, orderly, seen, payer, payers, steady, user>>
         /\ \/ /\ boot' = boot
               /\ \E e \in Emails :
                    /\ \A x \in Emails \ {e} : Counts'[x] = Counts[x] /\ carried'[x] = carried[x]
                    /\ \/ Counts'[e] = Counts[e] + 1 /\ carried'[e] = carried[e] + 1
                       \/ Counts'[e] = 0 /\ carried'[e] = carried[e]
            \/ carried' = carried /\ \A x \in Emails : Counts'[x] = 0
            \/ UNCHANGED <<boot, counter, carried>>
<1>1. UNCHANGED <<tick, orderly, seen, payer, payers, steady, user>>
  BY DEF ServerStep, XrayRestarts, Heartbeat, Transfer, RemoveClient, AddClient, rowVars, payVars
<1>2. ASSUME NEW e \in Emails, Transfer(e)
      PROVE  /\ boot' = boot
             /\ \A x \in Emails \ {e} : Counts'[x] = Counts[x] /\ carried'[x] = carried[x]
             /\ Counts'[e] = Counts[e] + 1 /\ carried'[e] = carried[e] + 1
  BY <1>2, NoneFacts DEF Transfer, TInv, TypeOK, Counts, Raw
<1>3. ASSUME NEW e \in Emails, RemoveClient(e) \/ AddClient(e)
      PROVE  /\ boot' = boot /\ carried' = carried
             /\ \A x \in Emails \ {e} : Counts'[x] = Counts[x]
             /\ Counts'[e] = 0
  BY <1>3, NoneFacts DEF RemoveClient, AddClient, TInv, TypeOK, Counts, Raw
<1>4. ASSUME XrayRestarts PROVE carried' = carried /\ \A x \in Emails : Counts'[x] = 0
  BY <1>4 DEF XrayRestarts, Counts
<1>5. ASSUME Heartbeat PROVE UNCHANGED <<boot, counter, carried>>
  BY <1>5 DEF Heartbeat, xrayVars
<1>. QED
  BY <1>1, <1>2, <1>3, <1>4, <1>5 DEF ServerStep

LEMMA StillSamples ==
  ASSUME TInv, TInv', VInv,
         UNCHANGED <<tick, orderly, seen, payer, payers, boot, counter, carried>>
  PROVE  VInv'
<1>1. Counts' = Counts
  BY DEF Counts
<1>. QED
  BY <1>1, ServerSamples

\* A report that carries no more than it did, or what it has just sampled.
LEMMA TickSamples ==
  ASSUME TInv, TInv', BInv, VInv, NEW t \in Ticks, TickStep(t)
  PROVE  VInv'
<1>. DEFINE k == tick[t]
            new == tick'[t]
            Drawn == /\ new.stats = Sample /\ new.sampled = boot
                     /\ new.pc \in {"arrived", "judge"}
            Kept == /\ \A e \in Emails : Pending(new, e) => Pending(k, e) /\ new.stats[e] = k.stats[e]
                    /\ (\E e \in Emails : Pending(new, e)) => (Outlived(k)' => Outlived(k))
<1>0. /\ orderly' => orderly /\ Alone(t)
      /\ UNCHANGED <<boot, counter, carried>>
      /\ \A s \in Ticks \ {t} : tick'[s] = tick[s]
  BY OrderlyStep
<1>a. k \in TickStates /\ new \in TickStates /\ Counts' = Counts
  BY <1>0 DEF TInv, TypeOK, Counts
<1>1. \A e \in Emails : payer'[e] # None => payer'[e] \in payers'[e]
  <2>1. ASSUME NEW f \in Emails, NEW who \in Names, WriteEmail(t, f, who) \/ EmailFails(t, f, who)
        PROVE  \A e \in Emails : payer'[e] # None => payer'[e] \in payers'[e]
    <3>1. /\ payer' = [payer EXCEPT ![f] = who]
          /\ payers' = [payers EXCEPT ![f] = @ \cup ({who} \ {None})]
      BY <2>1 DEF WriteEmail, EmailFails, EmailDone
    <3>2. payer \in [Emails -> Names] /\ payers \in [Emails -> SUBSET Users]
      BY DEF TInv, TypeOK
    <3>. QED
      BY <3>1, <3>2 DEF VInv
  <2>2. \/ UNCHANGED <<payer, payers>>
        \/ \E f \in Emails, who \in Names : WriteEmail(t, f, who) \/ EmailFails(t, f, who)
    BY DEF TickStep, PushArrives, PushLookup, PullListed, PullFetched, Judge, ReadEmail,
           EmailsDone, ReadUser, WriteUser, UserFails, Finish, payVars
  <2>. QED
    BY <2>1, <2>2 DEF VInv
<1>2. \A e \in Emails : Counts'[e] <= carried'[e]
  BY <1>0, <1>a DEF VInv
<1>3. ASSUME orderly' PROVE Drawn \/ Kept
  <2>1. CASE PushArrives(t) \/ PullFetched(t)
    BY <2>1, ArriveShape, FetchShape
  <2>2. CASE PushLookup(t)
    BY <2>2, LookupShape DEF Pending, Outlived
  <2>3. CASE Judge(t)
    <3>1. /\ new.pc = "emails" /\ k.pc = "judge" /\ new.stats = k.stats /\ new.sampled = new.sampled
          /\ seen' = NowSeen(k.boot) /\ BootTimeFits(t)
      BY <1>3, <2>3, JudgeShape
    <3>2. k.sampled \in Boots
      BY <1>a, <3>1 DEF BInv, Lived, LiveTick, Active
    <3>3. seen' \in {None, k.sampled}
      BY <3>1, <3>2, NoneFacts DEF BootTimeFits, NowSeen, Boots
    <3>4. Outlived(k)' => Outlived(k)
      BY <1>0, <3>1, <3>3 DEF Outlived, Renewed
    <3>. QED
      BY <3>1, <3>4 DEF Pending
  <2>4. ASSUME NEW f \in Emails, ReadEmail(t, f) PROVE Kept
    BY <1>0, <2>4, ReadEmailShape DEF Pending, Outlived, Renewed
  <2>5. ASSUME NEW f \in Emails, NEW who \in Names, WriteEmail(t, f, who) \/ EmailFails(t, f, who)
        PROVE  Kept
    <3>1. /\ new.pc = "emails" /\ k.pc = "emails" /\ new.stats = k.stats
          /\ new.todo = k.todo \ {f} /\ seen' = seen
      BY <2>5, EmailDoneShape
    <3>2. \A e \in Emails : Pending(new, e) => Pending(k, e)
      BY <3>1 DEF Pending
    <3>3. Outlived(k)' = Outlived(k)
      BY <1>0, <3>1 DEF Outlived, Renewed
    <3>. QED
      BY <3>1, <3>2, <3>3
  <2>6. CASE PullListed(t) \/ EmailsDone(t)
    BY <2>6, ListShape, EmailsDoneShape DEF Pending
  <2>7. CASE Finish(t)
    BY <2>7, FinishShape DEF Pending, Idle
  <2>8. ASSUME NEW u \in Users, ReadUser(t, u) \/ WriteUser(t, u) \/ UserFails(t, u) PROVE Kept
    BY <2>8, ReadUserShape, UserDoneShape DEF Pending
  <2>. QED
    BY <2>1, <2>2, <2>3, <2>4, <2>5, <2>6, <2>7, <2>8 DEF TickStep
<1>4. ASSUME orderly', NEW e \in Emails, Pending(new, e)
      PROVE  new.stats[e] + Delta(new.stats[e], Counts[e], Outlived(k)') <= carried[e]
  <2>0. /\ new.stats[e] \in Nat /\ Counts[e] \in Nat /\ carried[e] \in Nat
        /\ Outlived(k) \in BOOLEAN /\ Outlived(k)' \in BOOLEAN
    BY <1>a, <1>4, TickNumbers, CountNumbers DEF Pending, Outlived, Renewed, TickStates
  <2>1. CASE Drawn
    <3>1. new.stats[e] = Counts[e] /\ Outlived(k)' = FALSE
      BY <1>0, <1>4, <2>1 DEF Sample, Counts, Outlived, Pending
    <3>. QED
      BY <2>0, <3>1 DEF VInv, Delta
  <2>2. CASE Kept
    <3>1. /\ Pending(k, e) /\ new.stats[e] = k.stats[e] /\ (Outlived(k)' => Outlived(k))
      BY <1>4, <2>2
    <3>2. k.stats[e] + Delta(k.stats[e], Counts[e], Outlived(k)) <= carried[e]
      BY <1>0, <1>4, <3>1 DEF VInv, SampleOK
    <3>. DEFINE s == new.stats[e]
    <3>3. s \in Nat /\ s + Delta(s, Counts[e], Outlived(k)) <= carried[e]
      BY <2>0, <3>1, <3>2
    <3>. HIDE DEF k, new, s
    <3>4. Delta(s, Counts[e], Outlived(k)') <= Delta(s, Counts[e], Outlived(k))
      BY <2>0, <3>1, <3>3, DeltaLess
    <3>5. Delta(s, Counts[e], Outlived(k)') \in Nat /\ Delta(s, Counts[e], Outlived(k)) \in Nat
      BY <2>0, <3>3, DeltaType
    <3>6. s + Delta(s, Counts[e], Outlived(k)') <= carried[e]
      BY <2>0, <3>3, <3>4, <3>5
    <3>. QED
      BY <3>6 DEF s
  <2>. QED
    BY <1>3, <1>4, <2>1, <2>2
<1>5. ASSUME orderly', NEW s \in Ticks PROVE SampleOK(tick[s])'
  <2>1. CASE s = t
    BY <1>0, <1>a, <1>4, <1>5, <2>1 DEF SampleOK, Pending, Delta
  <2>2. CASE s # t
    <3>1. tick'[s] = Idle
      BY <1>0, <1>5, <2>2 DEF Alone
    <3>. QED
      BY <3>1 DEF SampleOK, Pending, Idle
  <2>. QED
    BY <2>1, <2>2
<1>. QED
  BY <1>1, <1>2, <1>5 DEF VInv

LEMMA NextVInv == TInv /\ BInv /\ VInv /\ [Next]_vars => VInv'
<1>. SUFFICES ASSUME TInv, BInv, VInv, [Next]_vars PROVE VInv'
  OBVIOUS
<1>0. TInv'
  BY NextTInv
<1>1. CASE ServerStep
  <2>1. UNCHANGED <<tick, orderly, seen, payer, payers>>
    BY <1>0, <1>1, CounterSteps
  <2>2. \A e \in Emails :
            \/ /\ boot' = boot
               /\ \/ Counts'[e] = Counts[e] /\ carried'[e] = carried[e]
                  \/ Counts'[e] = Counts[e] + 1 /\ carried'[e] = carried[e] + 1
            \/ Counts'[e] = 0 /\ carried'[e] = carried[e]
    BY <1>0, <1>1, CounterSteps DEF Counts
  <2>. QED
    BY <1>0, <2>1, <2>2, ServerSamples
<1>2. CASE AdminStep \/ UNCHANGED vars
  BY <1>0, <1>2, StillSamples
     DEF AdminStep, MoveNode, SetWeight, ResetCycle, vars, xrayVars, payVars
<1>3. CASE PanelRestarts
  <2>1. UNCHANGED <<orderly, payer, payers, boot, counter, carried>> /\ \A t \in Ticks : tick'[t] = Idle
    BY <1>3 DEF PanelRestarts, xrayVars, payVars
  <2>2. SampleOK(Idle)'
    BY DEF SampleOK, Pending, Idle
  <2>. QED
    BY <2>1, <2>2 DEF VInv, Counts
<1>4. ASSUME NEW t \in Ticks, TickStep(t) PROVE VInv'
  BY <1>0, <1>4, TickSamples
<1>. QED
  BY <1>1, <1>2, <1>3, <1>4 DEF Next

-----------------------------------------------------------------------------
(* The rows of users: steps of the server, the administrator and the panel.  *)

\* A client that is in a sum has been in it.
LEMMA CurrentIsClient ==
  ASSUME VInv, NEW u \in Users
  PROVE  Current(u) \subseteq Clients(u)
  BY NoneFacts DEF VInv, Current, Clients

LEMMA InitUInv == Init => UInv
<1>. SUFFICES ASSUME Init PROVE UInv
  OBVIOUS
<1>0. TInv
  BY InitTInv
<1>1. ASSUME NEW u \in Users PROVE UserPaid(u)
  <2>1. \A e \in Emails : Counts[e] = 0
    BY NoneFacts DEF Init, Counts
  <2>2. Counted(u) = 0 /\ Used(u) \in Nat
    BY <1>0, <2>1, CountNumbers, UserNumbers, PartZero, PartsFinite DEF Counted, UserNat
  <2>. QED
    BY <2>2 DEF Init, UserPaid, NoUserRow, Delta
<1>2. UserTick(Idle)
  BY DEF UserTick, OldUser, Empty, UserDue, InReport, Active, Idle, NoSum
<1>. QED
  BY <1>1, <1>2 DEF UInv, Init

\* A step that leaves the goroutines: what the counters gain has been carried,
\* and a new start of xray begins at zero.
LEMMA SameUsers ==
  ASSUME TInv, TInv', UInv, VInv, UNCHANGED <<tick, orderly, steady, seen, payer, payers>>,
         \A u \in Users : user'[u].up <= user[u].up /\ OldRow(user'[u]) = OldRow(user[u]),
         \A u \in Users : \E d \in Nat :
             /\ Used(u)' = Used(u) + d
             /\ \A S \in SUBSET Clients(u) : /\ Sum(Counts', S) <= Sum(Counts, S) + d
                                             /\ boot' = boot \/ Sum(Counts', S) = 0
  PROVE  UInv'
<1>. SUFFICES ASSUME Calm PROVE (\A u \in Users : UserPaid(u)') /\ \A t \in Ticks : UserTick(tick[t])'
  BY DEF UInv, Calm
<1>0. /\ \A u \in Users : user'[u].last = user[u].last
      /\ \A u : Current(u)' = Current(u)
  BY DEF OldRow, Current
<1>1. ASSUME NEW u \in Users PROVE UserPaid(u)'
  <2>1. PICK d \in Nat :
           /\ Used(u)' = Used(u) + d
           /\ \A S \in SUBSET Clients(u) : /\ Sum(Counts', S) <= Sum(Counts, S) + d
                                           /\ boot' = boot \/ Sum(Counts', S) = 0
    OBVIOUS
  <2>2. Counted(u)' <= Counted(u) + d /\ (boot' = boot \/ Counted(u)' = 0)
    BY <1>0, <2>1, CurrentIsClient DEF Counted
  <2>3. /\ user[u].up \in Nat /\ user[u].last \in Nat /\ Counted(u) \in Nat /\ Renewed \in BOOLEAN
        /\ user'[u].up \in Nat /\ Counted(u)' \in Nat /\ Used(u) \in Nat /\ Renewed' \in BOOLEAN
    BY UserNumbers, UserNumbersNext, CountNumbers, CountNumbersNext DEF UserNat
  <2>4. UserPaid(u) /\ user'[u].last = user[u].last /\ user'[u].up <= user[u].up
    BY <1>0 DEF UInv
  <2>5. CASE boot' = boot
    <3>1. Renewed' = Renewed
      BY <2>5 DEF Renewed
    <3>. QED
      BY <2>1, <2>2, <2>3, <2>4, <3>1 DEF UserPaid, Delta
  <2>6. CASE Counted(u)' = 0
    BY <2>1, <2>3, <2>4, <2>6 DEF UserPaid, Delta
  <2>. QED
    BY <2>2, <2>5, <2>6
<1>2. ASSUME NEW t \in Ticks PROVE UserTick(tick[t])'
  <2>. DEFINE k == tick[t]
  <2>0. k' = k /\ k \in TickStates
    BY DEF TInv, TypeOK
  <2>1. UserTick(k)
    BY DEF UInv
  <2>2. OldUser(k)' /\ Empty(k)'
    BY <2>0, <2>1 DEF UserTick, OldUser, Empty
  <2>3. /\ RestOf(k)' = RestOf(k) /\ Waiting(k)' = Waiting(k) /\ Flagged(k)' = Flagged(k)
        /\ \A u : InReport(k, u)' = InReport(k, u)
    BY <2>0 DEF RestOf, Waiting, Pending, Flagged, InReport, Active
  <2>4. ASSUME NEW u \in Users, InReport(k, u), NEW S \in SUBSET (Current(u) \cap Waiting(k))
        PROVE  Bill(k, u, S)' <= Used(u)'
    <3>1. PICK d \in Nat :
             /\ Used(u)' = Used(u) + d
             /\ \A R \in SUBSET Clients(u) : /\ Sum(Counts', R) <= Sum(Counts, R) + d
                                             /\ boot' = boot \/ Sum(Counts', R) = 0
      OBVIOUS
    <3>2. S \in SUBSET Emails /\ S \cup (Current(u) \ Waiting(k)) \in SUBSET Clients(u)
      BY CurrentIsClient DEF Current
    <3>3. Left(k, u, S)' = Sum(Counts', S \cup (Current(u) \ Waiting(k)))
      BY <1>0, <2>3 DEF Left
    <3>4. Left(k, u, S)' <= Left(k, u, S) + d /\ (boot' = boot \/ Left(k, u, S)' = 0)
      BY <3>1, <3>2, <3>3 DEF Left
    <3>5. Taken(k, u, S)' = Taken(k, u, S)
      BY <2>0, <2>3 DEF Taken
    <3>6. /\ user[u].up \in Nat /\ user[u].last \in Nat /\ user'[u].up \in Nat /\ Used(u) \in Nat
          /\ user'[u].up <= user[u].up /\ user'[u].last = user[u].last
      BY <1>0, UserNumbers, UserNumbersNext DEF UserNat
    <3>7. /\ Taken(k, u, S) \in Nat /\ Left(k, u, S) \in Nat
          /\ Flagged(k) \in BOOLEAN /\ Outlived(k) \in BOOLEAN /\ Outlived(k)' \in BOOLEAN
      BY <2>0, <3>2, DueNumbers DEF Outlived, Renewed
    <3>8. Left(k, u, S)' \in Nat
      <4>1. S \cup (Current(u) \ Waiting(k)) \in SUBSET Emails
        BY DEF Current
      <4>. QED
        BY <3>3, <4>1, CountNumbersNext, PartNat
    <3>9. boot' = boot => Outlived(k)' = Outlived(k)
      BY <2>0 DEF Outlived, Renewed
    <3>10. Bill(k, u, S) <= Used(u)
      BY <2>1, <2>4 DEF UserTick, UserDue
    <3>. DEFINE total == Taken(k, u, S)
                count == Left(k, u, S)
                due == Delta(user[u].last, total, Flagged(k))
                later == Delta(total, count, Outlived(k))
    <3>11. due \in Nat /\ later \in Nat /\ later' \in Nat /\ later' <= later + d
      <4>1. due \in Nat /\ later \in Nat
        BY <3>6, <3>7, DeltaType
      <4>. HIDE DEF k, due
      <4>2. later' = Delta(total, count', Outlived(k)')
        BY <3>5 DEF Delta
      <4>3. Delta(total, count', Outlived(k)') \in Nat
        BY <3>7, <3>8, DeltaType
      <4>4. Delta(total, count', Outlived(k)') <= later + d
        BY <3>4, <3>7, <3>8, <3>9 DEF Delta
      <4>. QED
        BY <4>1, <4>2, <4>3, <4>4
    <3>12. Bill(k, u, S)' = user'[u].up + due + later'
      BY <2>3, <3>5, <3>6 DEF Bill, Charge, Delta
    <3>13. user[u].up + due + later <= Used(u)
      BY <3>10 DEF Bill, Charge
    <3>. HIDE DEF k, total, count, due, later
    <3>. QED
      BY <3>1, <3>6, <3>11, <3>12, <3>13
  <2>5. ASSUME NEW u \in Users PROVE UserDue(k, u)'
    BY <1>0, <2>3, <2>4 DEF UserDue
  <2>. QED
    BY <2>2, <2>5 DEF UserTick
<1>. QED
  BY <1>1, <1>2

\* Counters, clients and goroutines stay.
LEMMA StillUsers ==
  ASSUME TInv, TInv', UInv, VInv,
         UNCHANGED <<tick, orderly, steady, seen, payer, payers, boot, counter, carried>>,
         \A u \in Users : user'[u].up <= user[u].up /\ OldRow(user'[u]) = OldRow(user[u])
  PROVE  UInv'
<1>1. Counts' = Counts /\ \A u : Used(u)' = Used(u)
  BY DEF Counts, Used, Clients
<1>2. ASSUME NEW u \in Users
      PROVE  /\ Used(u)' = Used(u) + 0
             /\ \A S \in SUBSET Clients(u) : /\ Sum(Counts', S) <= Sum(Counts, S) + 0
                                             /\ boot' = boot \/ Sum(Counts', S) = 0
  <2>1. ASSUME NEW S \in SUBSET Clients(u) PROVE Sum(Counts, S) \in Nat
    BY CountNumbers, PartNat, PartsFinite
  <2>. QED
    BY <1>1, <2>1, UserNumbers DEF UserNat
<1>. QED
  BY <1>2, SameUsers

LEMMA ServerUsers ==
  ASSUME TInv, TInv', UInv, VInv, ServerStep
  PROVE  UInv'
<1>0. UNCHANGED <<tick, orderly, seen, payer, payers, steady, user>>
  BY CounterSteps
<1>1. \A u \in Users : user'[u].up <= user[u].up /\ OldRow(user'[u]) = OldRow(user[u])
  BY <1>0, UserNumbers DEF UserNat
<1>a. /\ Counts \in [Emails -> Nat] /\ Counts' \in [Emails -> Nat]
      /\ carried \in [Emails -> Nat] /\ carried' \in [Emails -> Nat]
  BY CountNumbers, CountNumbersNext
<1>b. \A u \in Users : /\ Used(u)' = Sum(carried', Clients(u)) /\ Used(u) \in Nat
                       /\ \A S \in SUBSET Clients(u) : S \in SUBSET Emails /\ Sum(Counts, S) \in Nat
  <2>1. \A u : Clients(u)' = Clients(u)
    BY <1>0 DEF Clients
  <2>. QED
    BY <1>a, <2>1, UserNumbers, PartNat, PartsFinite DEF Used, UserNat
<1>2. ASSUME NEW e \in Emails, boot' = boot,
             \A x \in Emails \ {e} : Counts'[x] = Counts[x] /\ carried'[x] = carried[x],
             \/ Counts'[e] = Counts[e] + 1 /\ carried'[e] = carried[e] + 1
             \/ Counts'[e] = 0 /\ carried'[e] = carried[e],
             NEW u \in Users
      PROVE  \E d \in Nat :
                 /\ Used(u)' = Used(u) + d
                 /\ \A S \in SUBSET Clients(u) : /\ Sum(Counts', S) <= Sum(Counts, S) + d
                                                 /\ boot' = boot \/ Sum(Counts', S) = 0
  <2>. DEFINE d == IF e \in Clients(u) THEN carried'[e] - carried[e] ELSE 0
  <2>1. d \in Nat /\ Counts[e] \in Nat
    BY <1>a, <1>2
  <2>2. Used(u)' = Used(u) + d
    BY <1>a, <1>b, <1>2, PartAt, PartsFinite DEF Used
  <2>3. ASSUME NEW S \in SUBSET Clients(u) PROVE Sum(Counts', S) <= Sum(Counts, S) + d
    <3>1. Sum(Counts', S) = Sum(Counts, S) + (IF e \in S THEN Counts'[e] - Counts[e] ELSE 0)
      BY <1>a, <1>b, <1>2, PartAt
    <3>2. Sum(Counts, S) \in Nat
      BY <1>b
    <3>3. (IF e \in S THEN Counts'[e] - Counts[e] ELSE 0) <= d
      BY <1>a, <1>2, <2>1
    <3>. QED
      BY <1>a, <1>2, <2>1, <3>1, <3>2, <3>3
  <2>. HIDE DEF d
  <2>. QED
    BY <1>2, <2>1, <2>2, <2>3
<1>3. ASSUME carried' = carried, \A x \in Emails : Counts'[x] = 0, NEW u \in Users
      PROVE  /\ Used(u)' = Used(u) + 0
             /\ \A S \in SUBSET Clients(u) : /\ Sum(Counts', S) <= Sum(Counts, S) + 0
                                             /\ boot' = boot \/ Sum(Counts', S) = 0
  <2>1. \A S \in SUBSET Clients(u) : Sum(Counts', S) = 0
    BY <1>a, <1>b, <1>3, PartZero
  <2>. QED
    BY <1>b, <1>3, <2>1 DEF Used
<1>4. CASE boot' = boot /\ \E e \in Emails :
              /\ \A x \in Emails \ {e} : Counts'[x] = Counts[x] /\ carried'[x] = carried[x]
              /\ \/ Counts'[e] = Counts[e] + 1 /\ carried'[e] = carried[e] + 1
                 \/ Counts'[e] = 0 /\ carried'[e] = carried[e]
  BY <1>0, <1>1, <1>2, <1>4, SameUsers
<1>5. CASE carried' = carried /\ \A x \in Emails : Counts'[x] = 0
  BY <1>0, <1>1, <1>3, <1>5, SameUsers
<1>6. CASE UNCHANGED <<boot, counter, carried>>
  BY <1>0, <1>1, <1>6, StillUsers
<1>. QED
  BY <1>4, <1>5, <1>6, CounterSteps

\* A reset lowers a row; nothing else an administrator does is about users.
LEMMA AdminUsers ==
  ASSUME TInv, TInv', UInv, VInv, AdminStep
  PROVE  UInv'
<1>1. UNCHANGED <<tick, orderly, steady, seen, payer, payers, boot, counter, carried>>
  BY DEF AdminStep, MoveNode, SetWeight, ResetCycle, xrayVars, payVars
<1>2. ASSUME NEW u \in Users
      PROVE  user'[u].up <= user[u].up /\ OldRow(user'[u]) = OldRow(user[u])
  <2>1. user[u].up \in Nat /\ (user'[u] = user[u] \/ user'[u] = [user[u] EXCEPT !.up = 0])
    BY UserNumbers DEF UserNat, AdminStep, MoveNode, SetWeight, ResetCycle, rowVars, TInv, TypeOK
  <2>. QED
    BY <2>1, UserNumbers DEF UserNat, OldRow, UserRows
<1>. QED
  BY <1>1, <1>2, StillUsers

LEMMA PanelUsers ==
  ASSUME TInv, TInv', UInv, PanelRestarts
  PROVE  UInv'
<1>. SUFFICES ASSUME Calm PROVE (\A u \in Users : UserPaid(u)') /\ \A t \in Ticks : UserTick(tick[t])'
  BY DEF PanelRestarts, UInv, Calm, payVars
<1>1. UNCHANGED <<user, boot, counter, carried, payer, payers>> /\ seen' = None
  BY DEF PanelRestarts, xrayVars, rowVars, payVars
<1>2. ASSUME NEW u \in Users PROVE UserPaid(u)'
  <2>1. Counted(u)' = Counted(u) /\ Used(u)' = Used(u) /\ Renewed' = FALSE
    BY <1>1 DEF Used, Counted, Counts, Clients, Current, Renewed
  <2>2. UserPaid(u) /\ UserNat(u) /\ Renewed \in BOOLEAN
    BY UserNumbers, CountNumbers DEF UInv
  <2>. QED
    BY <1>1, <2>1, <2>2 DEF UserPaid, UserNat, Delta
<1>3. \A t \in Ticks : UserTick(tick[t])'
  <2>1. ASSUME NEW t \in Ticks PROVE tick'[t].pc = "idle" /\ tick'[t].sum = NoSum
    BY DEF PanelRestarts, Idle, NoSum
  <2>. QED
    BY <2>1 DEF UserTick, OldUser, Empty, UserDue, InReport, Active
<1>. QED
  BY <1>2, <1>3

-----------------------------------------------------------------------------
(* Steps of a goroutine, which is alone while reports come one by one.       *)

\* What is left to show of a step of the goroutine of a report.
LEMMA OneUserTick ==
  ASSUME TInv, BInv, NEW t \in Ticks, TickStep(t),
         Calm' => (\A u \in Users : UserPaid(u)') /\ UserTick(tick[t])'
  PROVE  UInv'
<1>. SUFFICES ASSUME Calm' PROVE \A s \in Ticks : UserTick(tick[s])'
  BY DEF UInv
<1>1. ASSUME NEW s \in Ticks, s # t PROVE UserTick(tick[s])'
  <2>1. tick'[s].pc = "idle" /\ tick'[s].sum = NoSum
    BY <1>1, OrderlyStep DEF Calm, Alone, Idle, NoSum
  <2>. QED
    BY <2>1 DEF UserTick, OldUser, Empty, UserDue, InReport, Active
<1>. QED
  BY <1>1

\* No row, no counter, no cache and no client's place changes.
LEMMA StillPaid ==
  ASSUME UNCHANGED <<user, carried, counter, boot, seen, payer, payers>>, NEW u \in Users
  PROVE  /\ Counted(u)' = Counted(u) /\ Used(u)' = Used(u) /\ Renewed' = Renewed
         /\ Current(u)' = Current(u) /\ Counts' = Counts
         /\ UserPaid(u)' = UserPaid(u)
  BY DEF UserPaid, Counted, Used, Counts, Clients, Current, Renewed

\* A report that has just sampled: the sum of any of its clients is no more than
\* that of all.
LEMMA SampleUsers ==
  ASSUME TInv, TInv', BInv, UInv, NEW t \in Ticks, PushArrives(t) \/ PullFetched(t)
  PROVE  UInv'
<1>a. TickStep(t)
  BY DEF TickStep
<1>b. UNCHANGED <<payer, payers, steady>> /\ (orderly' => orderly)
  BY <1>a, OrderlyStep DEF PushArrives, PullFetched, payVars
<1>0. TickStep(t) /\ UNCHANGED <<payer, payers, steady>> /\ (orderly' => orderly)
  BY <1>a, <1>b
<1>1. ASSUME Calm
      PROVE  /\ tick'[t].pc \in {"arrived", "judge"} /\ tick'[t].stats = Sample
             /\ tick'[t].sampled = boot /\ tick'[t].sum = NoSum
             /\ UNCHANGED <<user, carried, counter, boot, seen>>
  <2>1. CASE PushArrives(t)
    BY <2>1, ArriveShape
  <2>2. CASE PullFetched(t)
    BY <1>1, <2>2, FetchShape DEF UInv, UserTick, Empty
  <2>. QED
    BY <2>1, <2>2
<1>2. ASSUME Calm PROVE (\A u \in Users : UserPaid(u)') /\ UserTick(tick[t])'
  <2>. DEFINE k == tick[t]
  <2>1. \A u \in Users : UserPaid(u) /\ UserPaid(u)'
    BY <1>0, <1>1, <1>2, StillPaid DEF UInv
  <2>2. OldUser(k)' /\ Empty(k)'
    BY <1>1, <1>2 DEF OldUser, Empty
  <2>3. RestOf(k)' = Counts /\ Waiting(k)' = {e \in Emails : counter[e] # None}
    BY <1>1, <1>2, NoneFacts DEF RestOf, Waiting, Pending, Sample, Counts
  <2>4. Flagged(k)' = Renewed /\ Outlived(k)' = FALSE
    BY <1>1, <1>2 DEF Flagged, Outlived, Renewed
  <2>5. ASSUME NEW u \in Users, NEW S \in SUBSET (Current(u)' \cap Waiting(k)')
        PROVE  Bill(k, u, S)' <= Used(u)'
    <3>. DEFINE R == S \cup (Current(u) \ Waiting(k)')
                n == Sum(Counts, S)
    <3>1. /\ Current(u)' = Current(u) /\ Counts' = Counts /\ Used(u)' = Used(u)
          /\ user'[u] = user[u]
      BY <1>0, <1>1, <1>2, StillPaid
    <3>2. S \subseteq R /\ R \in SUBSET Emails /\ S \subseteq Current(u) /\ IsFiniteSet(R)
      BY <3>1, PartsFinite
    <3>3. \A e \in R \ S : Counts[e] = 0
      BY <2>3, <3>2 DEF Counts
    <3>4. Sum(Counts, R) = n
      BY <3>2, <3>3, CountNumbers, SumPart
    <3>5. n <= Counted(u) /\ n \in Nat
      <4>1. IsFiniteSet(Current(u)) /\ Current(u) \subseteq Emails /\ S \in SUBSET Current(u)
        BY <3>2, PartsFinite
      <4>2. Sum(Counts, S) <= Sum(Counts, Current(u))
        BY <4>1, CountNumbers, SumPart
      <4>. QED
        BY <4>1, <4>2, CountNumbers, PartNat DEF Counted
    <3>6. Left(k, u, S)' = n
      BY <3>1, <3>4 DEF Left
    <3>7. Taken(k, u, S)' = n
      <4>1. tick'[t].sum[u] = 0
        BY <1>1, <1>2 DEF NoSum
      <4>. QED
        BY <2>3, <3>5, <4>1 DEF Taken
    <3>8. UserPaid(u) /\ UserNat(u) /\ Renewed \in BOOLEAN
      BY <2>1, UserNumbers, CountNumbers
    <3>9. Bill(k, u, S)' = user[u].up + Delta(user[u].last, n, Renewed) + Delta(n, n, FALSE)
      BY <2>4, <3>1, <3>6, <3>7 DEF Bill, Charge, Delta
    <3>. HIDE DEF n, R, k
    <3>10. user[u].up + Delta(user[u].last, n, Renewed) + Delta(n, n, FALSE) <= Used(u)
      BY <3>5, <3>8 DEF UserPaid, UserNat, Delta
    <3>. QED
      BY <3>1, <3>9, <3>10
  <2>6. \A u \in Users : UserDue(k, u)'
    BY <2>5 DEF UserDue
  <2>. QED
    BY <2>1, <2>2, <2>6 DEF UserTick
<1>. QED
  BY <1>0, <1>2, OneUserTick DEF Calm

\* A step after which the goroutine has as much to add up as before.
LEMMA CarryUsers ==
  ASSUME TInv, TInv', BInv, UInv, NEW t \in Ticks, TickStep(t),
         UNCHANGED <<user, carried, counter, boot, seen, payer, payers, steady, orderly>>,
         orderly /\ OldUser(tick[t]) => OldUser(tick[t])', Empty(tick[t]) => Empty(tick[t])',
         RestOf(tick[t])' = RestOf(tick[t]), Waiting(tick[t])' = Waiting(tick[t]),
         tick'[t].sum = tick[t].sum,
         \A u \in Users : InReport(tick[t], u)' => InReport(tick[t], u),
         Flagged(tick[t])' = Flagged(tick[t]), Outlived(tick[t])' = Outlived(tick[t])
  PROVE  UInv'
<1>1. ASSUME Calm PROVE (\A u \in Users : UserPaid(u)') /\ UserTick(tick[t])'
  <2>. DEFINE k == tick[t]
  <2>1. \A u \in Users : UserPaid(u)'
    BY <1>1, StillPaid DEF UInv
  <2>2. UserTick(k)
    BY <1>1 DEF UInv
  <2>3. ASSUME NEW u \in Users PROVE UserDue(k, u)'
    <3>1. /\ Current(u)' = Current(u) /\ Counts' = Counts /\ Used(u)' = Used(u)
          /\ user'[u] = user[u]
      BY StillPaid
    <3>2. \A S : Taken(k, u, S)' = Taken(k, u, S) /\ Left(k, u, S)' = Left(k, u, S)
      BY <3>1 DEF Taken, Left
    <3>3. \A S : Bill(k, u, S)' = Bill(k, u, S)
      BY <3>1, <3>2 DEF Bill, Charge, Delta
    <3>4. UserDue(k, u)
      BY <2>2 DEF UserTick
    <3>. QED
      BY <3>1, <3>3, <3>4 DEF UserDue
  <2>. QED
    BY <1>1, <2>1, <2>2, <2>3 DEF UserTick, Calm
<1>. QED
  BY <1>1, OneUserTick DEF Calm

\* A goroutine that has nothing to add up: it listed a server, or is done.
LEMMA IdleUsers ==
  ASSUME TInv, TInv', BInv, UInv, NEW t \in Ticks, PullListed(t) \/ Finish(t)
  PROVE  UInv'
<1>a. TickStep(t)
  BY DEF TickStep
<1>b. UNCHANGED <<payer, payers, steady>> /\ (orderly' => orderly)
  BY <1>a, OrderlyStep DEF PullListed, Finish, payVars
<1>0. TickStep(t) /\ UNCHANGED <<payer, payers, steady>> /\ (orderly' => orderly)
  BY <1>a, <1>b
<1>1. /\ tick'[t].pc \in {"idle", "listed"} /\ tick'[t].sum = NoSum
      /\ UNCHANGED <<user, carried, counter, boot, seen>>
  <2>1. CASE PullListed(t)
    BY <2>1, ListShape
  <2>2. CASE Finish(t)
    BY <2>2, FinishShape DEF Idle, NoSum
  <2>. QED
    BY <2>1, <2>2
<1>2. UserTick(tick[t])'
  BY <1>1 DEF UserTick, OldUser, Empty, UserDue, InReport, Active
<1>3. Calm => \A u \in Users : UserPaid(u)'
  BY <1>0, <1>1, StillPaid DEF UInv
<1>. QED
  BY <1>0, <1>2, <1>3, OneUserTick DEF Calm

LEMMA LookupUsers ==
  ASSUME TInv, TInv', BInv, UInv, NEW t \in Ticks, PushLookup(t)
  PROVE  UInv'
<1>0. TickStep(t) /\ UNCHANGED <<payer, payers, steady>>
  BY DEF TickStep, PushLookup, payVars
<1>1. /\ tick'[t].pc = "judge" /\ tick[t].pc = "arrived"
      /\ tick'[t].stats = tick[t].stats
      /\ tick'[t].sampled = tick[t].sampled /\ tick'[t].sum = tick[t].sum
      /\ UNCHANGED <<user, carried, counter, boot, seen, orderly>>
  BY LookupShape
<1>2. RestOf(tick[t])' = RestOf(tick[t]) /\ Waiting(tick[t])' = Waiting(tick[t])
  BY <1>1 DEF RestOf, Waiting, Pending
<1>3. Flagged(tick[t])' = Flagged(tick[t]) /\ Outlived(tick[t])' = Outlived(tick[t])
  BY <1>1 DEF Flagged, Outlived
<1>4. \A u \in Users : InReport(tick[t], u)
  BY <1>1 DEF InReport, Active
<1>5. OldUser(tick[t])' /\ (Empty(tick[t]) => Empty(tick[t])')
  BY <1>1 DEF OldUser, Empty
<1>. QED
  BY <1>0, <1>1, <1>2, <1>3, <1>4, <1>5, CarryUsers

LEMMA ReadUsers ==
  ASSUME TInv, TInv', BInv, UInv, NEW t \in Ticks,
         \/ \E e \in Emails : ReadEmail(t, e)
         \/ \E u \in Users : ReadUser(t, u)
  PROVE  UInv'
<1>0. TickStep(t) /\ UNCHANGED <<payer, payers, steady>>
  BY DEF TickStep, ReadEmail, ReadUser, payVars
<1>1. /\ tick'[t].pc = tick[t].pc /\ tick[t].pc \in {"emails", "users"}
      /\ RestOf(tick[t])' = RestOf(tick[t]) /\ Waiting(tick[t])' = Waiting(tick[t])
      /\ tick'[t].todo = tick[t].todo
      /\ tick'[t].restart = tick[t].restart /\ tick'[t].sum = tick[t].sum
      /\ UNCHANGED <<user, carried, counter, boot, seen, orderly>>
      /\ OldUser(tick[t]) => OldUser(tick[t])'
  <2>1. CASE \E e \in Emails : ReadEmail(t, e)
    <3>1. PICK e \in Emails : ReadEmail(t, e)
      BY <2>1
    <3>. QED
      BY <3>1, ReadEmailShape DEF RestOf, Waiting, Pending, OldUser
  <2>2. CASE \E u \in Users : ReadUser(t, u)
    <3>1. PICK u \in Users : ReadUser(t, u)
      BY <2>2
    <3>2. RestOf(tick[t])' = RestOf(tick[t]) /\ Waiting(tick[t])' = Waiting(tick[t])
      BY <3>1, ReadUserShape DEF RestOf, Waiting, Pending
    <3>3. OldUser(tick[t]) => OldUser(tick[t])'
      BY <3>1, ReadUserShape DEF OldUser
    <3>. QED
      BY <3>1, <3>2, <3>3, ReadUserShape
  <2>. QED
    BY <2>1, <2>2
<1>2. Flagged(tick[t])' = Flagged(tick[t]) /\ Outlived(tick[t])' = Outlived(tick[t])
  BY <1>1 DEF Flagged, Outlived, Renewed
<1>3. \A u \in Users : InReport(tick[t], u)' = InReport(tick[t], u)
  BY <1>1 DEF InReport, Active
<1>4. Empty(tick[t])'
  BY <1>1 DEF Empty
<1>. QED
  BY <1>0, <1>1, <1>2, <1>3, <1>4, CarryUsers

LEMMA EmailsDoneUsers ==
  ASSUME TInv, TInv', BInv, UInv, NEW t \in Ticks, EmailsDone(t)
  PROVE  UInv'
<1>. DEFINE k == tick[t]
<1>0. TickStep(t) /\ UNCHANGED <<payer, payers, steady>>
  BY DEF TickStep, EmailsDone, payVars
<1>1. /\ tick'[t].pc = "users" /\ k.pc = "emails" /\ k.todo = {}
      /\ tick'[t].sum = k.sum /\ tick'[t].restart = k.restart
      /\ tick'[t].at = None /\ tick'[t].todo \subseteq Users
      /\ UNCHANGED <<user, carried, counter, boot, seen, orderly>>
  BY EmailsDoneShape
<1>2. RestOf(k)' = RestOf(k) /\ Waiting(k)' = Waiting(k)
  BY <1>1 DEF RestOf, Waiting, Pending
<1>3. Flagged(k)' = Flagged(k) /\ Outlived(k)' = Outlived(k)
  BY <1>1 DEF Flagged, Outlived, Renewed
<1>4. \A u \in Users : InReport(k, u)
  BY <1>1 DEF InReport, Active
<1>5. OldUser(k)' /\ Empty(k)'
  BY <1>1 DEF OldUser, Empty
<1>. QED
  BY <1>0, <1>1, <1>2, <1>3, <1>4, <1>5, CarryUsers

LEMMA UserFailsUsers ==
  ASSUME TInv, TInv', BInv, UInv, NEW t \in Ticks, NEW u \in Users, UserFails(t, u)
  PROVE  UInv'
<1>. DEFINE k == tick[t]
<1>0. TickStep(t) /\ UNCHANGED <<payer, payers, steady>>
  BY DEF TickStep, UserFails, payVars
<1>1. /\ tick'[t].pc = "users" /\ k.pc = "users"
      /\ tick'[t].at = None /\ tick'[t].todo = k.todo \ {u}
      /\ tick'[t].sum = k.sum /\ tick'[t].restart = k.restart
      /\ UNCHANGED <<user, carried, counter, boot, seen, orderly>>
  BY UserDoneShape DEF UserFails, rowVars
<1>2. RestOf(k)' = RestOf(k) /\ Waiting(k)' = Waiting(k)
  BY <1>1 DEF RestOf, Waiting, Pending
<1>3. Flagged(k)' = Flagged(k) /\ Outlived(k)' = Outlived(k)
  BY <1>1 DEF Flagged, Outlived, Renewed
<1>4. \A x \in Users : InReport(k, x)' => InReport(k, x)
  BY <1>1 DEF InReport, Active
<1>5. (OldUser(k) => OldUser(k)') /\ Empty(k)'
  BY <1>1 DEF OldUser, Empty
<1>. QED
  BY <1>0, <1>1, <1>2, <1>3, <1>4, <1>5, CarryUsers

\* A counter that has been handled goes into the sum that its client resolved to.
\* The client was in that sum already, or it leaves another one, or it joins and
\* brings with it what it has carried.
LEMMA EmailUsers ==
  ASSUME TInv, TInv', BInv, UInv, VInv, NEW t \in Ticks, NEW e \in Emails, NEW who \in Names,
         WriteEmail(t, e, who) \/ EmailFails(t, e, who)
  PROVE  UInv'
<1>. DEFINE k == tick[t]
<1>0. TickStep(t)
  BY DEF TickStep
<1>1. /\ tick'[t].pc = "emails" /\ k.pc = "emails" /\ e \in k.todo
      /\ tick'[t].stats = k.stats
      /\ tick'[t].todo = k.todo \ {e} /\ tick'[t].restart = k.restart
      /\ tick'[t].sum = [u \in Users |-> IF u = who THEN k.sum[u] + k.stats[e] ELSE k.sum[u]]
      /\ UNCHANGED <<boot, adds, counter, carried, seen, user, orderly>>
  BY EmailDoneShape
<1>2. /\ payer' = [payer EXCEPT ![e] = who]
      /\ payers' = [payers EXCEPT ![e] = @ \cup ({who} \ {None})]
      /\ steady' = (steady /\ (who \in payers[e] => payer[e] = who))
  BY DEF WriteEmail, EmailFails, EmailDone
<1>3. /\ k \in TickStates /\ tick'[t] \in TickStates
      /\ payer \in [Emails -> Names] /\ payers \in [Emails -> SUBSET Users]
  BY DEF TInv, TypeOK
<1>4. Pending(k, e) /\ k.stats[e] \in Nat
  BY <1>1, <1>3, TickNumbers DEF TInv, TodoOK, Pending
<1>5. /\ RestOf(k) \in [Emails -> Nat] /\ RestOf(k)' \in [Emails -> Nat]
      /\ \A x \in Emails \ {e} : RestOf(k)'[x] = RestOf(k)[x]
      /\ RestOf(k)[e] = k.stats[e]
      /\ e \in Waiting(k) /\ Waiting(k)' = Waiting(k) \ {e}
  BY <1>1, <1>3, <1>4, NoneFacts DEF RestOf, Waiting, Pending, TickStates, Raw
<1>6. Flagged(k)' = Flagged(k) /\ Outlived(k)' = Outlived(k) /\ Renewed' = Renewed
  BY <1>1 DEF Flagged, Outlived, Renewed
<1>7. Counts' = Counts /\ Counts[e] \in Nat /\ carried[e] \in Nat /\ Counts[e] <= carried[e]
  BY <1>1, CountNumbers DEF Counts, VInv
<1>8. OldUser(k)' /\ Empty(k)'
  BY <1>1 DEF OldUser, Empty
<1>9. ASSUME Calm' PROVE (\A u \in Users : UserPaid(u)') /\ UserTick(tick[t])'
  <2>0. Calm /\ (who \in payers[e] => payer[e] = who)
    BY <1>1, <1>2, <1>9 DEF Calm
  <2>1. /\ \A u \in Users : UserPaid(u) /\ UserDue(k, u)
        /\ SampleOK(k)
    BY <2>0 DEF UInv, VInv, UserTick, Calm
  <2>2. ASSUME NEW u \in Users
        PROVE  /\ Current(u)' = IF who = u THEN Current(u) \cup {e} ELSE Current(u) \ {e}
               /\ Clients(u)' = IF who = u THEN Clients(u) \cup {e} ELSE Clients(u)
               /\ who = u /\ e \notin Current(u) => e \notin Clients(u)
               /\ Current(u) \subseteq Clients(u) /\ Clients(u) \subseteq Emails
               /\ Counted(u)' = Sum(Counts, Current(u)') /\ Used(u)' = Sum(carried, Clients(u)')
               /\ user'[u] = user[u] /\ UserNat(u) /\ InReport(k, u)
               /\ \A S : Left(k, u, S)' = Sum(Counts, S \cup (Current(u)' \ (Waiting(k) \ {e})))
    <3>1. u # None
      BY NoneFacts
    <3>2. Current(u)' = IF who = u THEN Current(u) \cup {e} ELSE Current(u) \ {e}
      BY <1>2, <1>3 DEF Current
    <3>3. Clients(u)' = IF who = u THEN Clients(u) \cup {e} ELSE Clients(u)
      BY <1>2, <1>3, <3>1 DEF Clients
    <3>4. who = u /\ e \notin Current(u) => e \notin Clients(u)
      BY <2>0 DEF Current, Clients
    <3>5. Current(u) \subseteq Clients(u) /\ Clients(u) \subseteq Emails
      BY CurrentIsClient, PartsFinite
    <3>6. Counted(u)' = Sum(Counts, Current(u)') /\ Used(u)' = Sum(carried, Clients(u)')
      BY <1>1, <1>7 DEF Counted, Used
    <3>7. user'[u] = user[u] /\ UserNat(u) /\ InReport(k, u)
      BY <1>1, UserNumbers DEF InReport, Active
    <3>8. \A S : Left(k, u, S)' = Sum(Counts, S \cup (Current(u)' \ (Waiting(k) \ {e})))
      BY <1>5, <1>7 DEF Left
    <3>. QED
      BY <3>2, <3>3, <3>4, <3>5, <3>6, <3>7, <3>8
  <2>3. ASSUME NEW u \in Users PROVE UserPaid(u)'
    <3>0. /\ UserPaid(u) /\ UserNat(u) /\ Renewed \in BOOLEAN /\ user'[u] = user[u]
          /\ Counted(u)' = Sum(Counts, Current(u)') /\ Used(u)' = Sum(carried, Clients(u)')
          /\ Current(u) \in SUBSET Emails /\ Clients(u) \in SUBSET Emails
      BY <2>1, <2>2, CountNumbers
    <3>1. CASE who = u /\ e \notin Current(u)
      <4>1. /\ Current(u)' = Current(u) \cup {e} /\ Clients(u)' = Clients(u) \cup {e}
            /\ e \notin Clients(u)
        BY <2>2, <3>1
      <4>2. Counted(u)' = Counted(u) + Counts[e] /\ Used(u)' = Used(u) + carried[e]
        BY <3>0, <3>1, <4>1, CountNumbers, PartAdd DEF Counted, Used
      <4>. QED
        BY <1>6, <1>7, <3>0, <4>2 DEF UserPaid, UserNat, Delta
    <3>2. CASE who # u \/ e \in Current(u)
      <4>1. Clients(u)' = Clients(u) /\ Current(u)' \in SUBSET Current(u)
        BY <2>2, <3>2
      <4>2. Used(u)' = Used(u)
        BY <3>0, <4>1 DEF Used
      <4>3. Counted(u)' <= Counted(u) /\ Counted(u)' \in Nat
        <5>1. IsFiniteSet(Current(u)) /\ Current(u)' \in SUBSET Emails
          BY <3>0, <4>1, PartsFinite
        <5>2. Sum(Counts, Current(u)') <= Sum(Counts, Current(u))
          BY <3>0, <4>1, <5>1, CountNumbers, SumPart
        <5>3. Sum(Counts, Current(u)') \in Nat
          BY <5>1, CountNumbers, PartNat
        <5>. QED
          BY <3>0, <5>2, <5>3 DEF Counted
      <4>. QED
        BY <1>6, <3>0, <4>2, <4>3 DEF UserPaid, UserNat, Delta
    <3>. QED
      BY <3>1, <3>2
  <2>4. ASSUME NEW u \in Users, NEW S \in SUBSET (Current(u)' \cap Waiting(k)')
        PROVE  Bill(k, u, S)' <= Used(u)'
    <3>0. /\ S \in SUBSET Emails /\ e \notin S /\ S \subseteq Waiting(k) /\ S \subseteq Current(u)'
      BY <1>5, PartsFinite DEF Waiting
    <3>1. Sum(RestOf(k)', S) = Sum(RestOf(k), S)
      <4>1. Sum(RestOf(k)', S) = Sum(RestOf(k), S) + 0
        BY <1>5, <3>0, PartAt
      <4>. QED
        BY <1>5, <3>0, <4>1, PartNat
    <3>2. Taken(k, u, S)' = (IF who = u THEN k.sum[u] + k.stats[e] ELSE k.sum[u]) + Sum(RestOf(k), S)
      BY <1>1, <3>1 DEF Taken
    <3>3. /\ k.sum[u] \in Nat /\ Sum(RestOf(k), S) \in Nat /\ UserNat(u)
          /\ Flagged(k) \in BOOLEAN /\ Outlived(k) \in BOOLEAN
      BY <1>3, <3>0, DueNumbers, UserNumbers
    <3>4. Bill(k, u, S)' = user[u].up + Delta(user[u].last, Taken(k, u, S)', Flagged(k))
                                      + Delta(Taken(k, u, S)', Left(k, u, S)', Outlived(k))
      BY <1>6, <2>2 DEF Bill, Charge, Delta
    <3>5. \A T \in SUBSET (Current(u) \cap Waiting(k)) :
              user[u].up + Delta(user[u].last, Taken(k, u, T), Flagged(k))
                         + Delta(Taken(k, u, T), Left(k, u, T), Outlived(k)) <= Used(u)
      BY <2>1, <2>2 DEF UserDue, Bill, Charge
    <3>6. Left(k, u, S)' = Sum(Counts, S \cup (Current(u)' \ (Waiting(k) \ {e})))
      BY <2>2
    <3>7. CASE who = u /\ e \in Current(u)
      <4>. DEFINE T == S \cup {e}
      <4>0. /\ Current(u)' = Current(u) \cup {e} /\ Clients(u)' = Clients(u) \cup {e}
            /\ Current(u) \subseteq Clients(u)
        BY <2>2, <3>7
      <4>a. Current(u)' = Current(u) /\ Clients(u)' = Clients(u)
        BY <3>7, <4>0
      <4>b. S \subseteq Current(u) /\ S \subseteq Waiting(k) /\ e \in Waiting(k) /\ e \in Current(u)
        BY <1>5, <3>0, <3>7, <4>a
      <4>c. T \in SUBSET (Current(u) \cap Waiting(k))
        BY <4>b
      <4>d. T \cup (Current(u) \ Waiting(k)) = S \cup (Current(u) \ (Waiting(k) \ {e}))
        BY <4>b
      <4>1. /\ Current(u)' = Current(u) /\ Clients(u)' = Clients(u)
            /\ T \in SUBSET (Current(u) \cap Waiting(k))
            /\ T \cup (Current(u) \ Waiting(k)) = S \cup (Current(u)' \ (Waiting(k) \ {e}))
        BY <4>a, <4>c, <4>d
      <4>2. Left(k, u, S)' = Left(k, u, T) /\ Used(u)' = Used(u)
        BY <2>2, <3>6, <4>1 DEF Left, Used
      <4>3. Sum(RestOf(k), T) = Sum(RestOf(k), S) + k.stats[e]
        BY <1>5, <3>0, PartAdd
      <4>4. Taken(k, u, S)' = Taken(k, u, T)
        BY <1>4, <3>2, <3>3, <3>7, <4>3 DEF Taken
      <4>. HIDE DEF T
      <4>. QED
        BY <3>4, <3>5, <4>1, <4>2, <4>4
    <3>8. CASE who # u
      <4>1. /\ Current(u)' = Current(u) \ {e} /\ Clients(u)' = Clients(u)
            /\ S \in SUBSET (Current(u) \cap Waiting(k))
            /\ S \cup (Current(u) \ Waiting(k)) = S \cup (Current(u)' \ (Waiting(k) \ {e}))
        BY <1>5, <2>2, <3>0, <3>8
      <4>2. Left(k, u, S)' = Left(k, u, S) /\ Used(u)' = Used(u)
        BY <2>2, <3>6, <4>1 DEF Left, Used
      <4>3. Taken(k, u, S)' = Taken(k, u, S)
        BY <3>2, <3>8 DEF Taken
      <4>. QED
        BY <3>4, <3>5, <4>1, <4>2, <4>3
    <3>9. CASE who = u /\ e \notin Current(u)
      <4>. DEFINE R == S \cup (Current(u) \ Waiting(k))
      <4>1. /\ Current(u)' = Current(u) \cup {e} /\ Clients(u)' = Clients(u) \cup {e}
            /\ e \notin Clients(u)
            /\ S \in SUBSET (Current(u) \cap Waiting(k))
            /\ e \notin R /\ R \in SUBSET Emails
            /\ S \cup (Current(u)' \ (Waiting(k) \ {e})) = R \cup {e}
        BY <1>5, <2>2, <3>0, <3>9
      <4>2. Left(k, u, S)' = Left(k, u, S) + Counts[e]
        <5>1. Sum(Counts, R \cup {e}) = Sum(Counts, R) + Counts[e]
          BY <4>1, CountNumbers, PartAdd
        <5>. QED
          BY <3>6, <4>1, <5>1 DEF Left
      <4>3. Used(u)' = Used(u) + carried[e]
        <5>1. Sum(carried, Clients(u) \cup {e}) = Sum(carried, Clients(u)) + carried[e]
          BY <2>2, <4>1, CountNumbers, PartAdd
        <5>. QED
          BY <2>2, <4>1, <5>1 DEF Used
      <4>4. Taken(k, u, S)' = Taken(k, u, S) + k.stats[e]
        BY <1>4, <3>2, <3>3, <3>9 DEF Taken
      <4>5. k.stats[e] + Delta(k.stats[e], Counts[e], Outlived(k)) <= carried[e]
        BY <1>4, <2>1 DEF SampleOK
      <4>. DEFINE total == Taken(k, u, S)
                  count == Left(k, u, S)
                  s == k.stats[e]
                  up == user[u].up
                  last == user[u].last
                  flag == Flagged(k)
                  w == Outlived(k)
      <4>6. total \in Nat /\ count \in Nat
        BY <1>3, <3>0, DueNumbers
      <4>7. up + Delta(last, total, flag) + Delta(total, count, w) <= Used(u)
        BY <3>5, <4>1
      <4>8. /\ up \in Nat /\ last \in Nat /\ s \in Nat /\ flag \in BOOLEAN /\ w \in BOOLEAN
            /\ Used(u) \in Nat
        BY <1>4, <3>3 DEF UserNat
      <4>9. s + Delta(s, Counts[e], w) <= carried[e]
        BY <4>5
      <4>10. Bill(k, u, S)' = up + Delta(last, total + s, flag) + Delta(total + s, count + Counts[e], w)
        BY <3>4, <4>2, <4>4
      <4>. DEFINE c == Counts[e]
      <4>a. c \in Nat /\ carried[e] \in Nat
        BY <1>7
      <4>b. /\ s + Delta(s, c, w) <= carried[e]
            /\ Bill(k, u, S)' = up + Delta(last, total + s, flag) + Delta(total + s, count + c, w)
        BY <4>9, <4>10
      <4>. HIDE DEF k, total, count, s, up, last, flag, w, R, c
      \* What e brings is at most what the report carries of it and what comes after.
      <4>11. up + Delta(last, total + s, flag) + Delta(total + s, count + c, w)
               <= (up + Delta(last, total, flag) + Delta(total, count, w)) + (s + Delta(s, c, w))
        BY <4>6, <4>8, <4>a DEF Delta
      <4>c. total + s \in Nat /\ count + c \in Nat
        BY <4>6, <4>8, <4>a
      <4>12. /\ Delta(last, total, flag) \in Nat /\ Delta(total, count, w) \in Nat
             /\ Delta(s, c, w) \in Nat
        BY <4>6, <4>8, <4>a, DeltaType
      <4>13. /\ Delta(last, total + s, flag) \in Nat
             /\ Delta(total + s, count + c, w) \in Nat
        BY <4>8, <4>c, DeltaType
      <4>. QED
        BY <4>3, <4>7, <4>8, <4>a, <4>b, <4>11, <4>12, <4>13
    <3>. QED
      BY <3>7, <3>8, <3>9
  <2>5. \A u \in Users : UserDue(k, u)'
    BY <2>4 DEF UserDue
  <2>. QED
    BY <1>8, <2>3, <2>5 DEF UserTick
<1>. QED
  BY <1>0, <1>9, OneUserTick

\* The judgement: the report is taken whole if it was not the first after a new
\* start of xray, and what outlives the report is no more than before.
LEMMA JudgeUsers ==
  ASSUME TInv, TInv', BInv, UInv, NEW t \in Ticks, Judge(t)
  PROVE  UInv'
<1>. DEFINE k == tick[t]
<1>0. TickStep(t) /\ UNCHANGED <<payer, payers, steady>>
  BY DEF TickStep, Judge, payVars
<1>1. /\ tick'[t].pc = "emails" /\ k.pc = "judge" /\ tick'[t].stats = k.stats
      /\ tick'[t].todo = {e \in Emails : k.stats[e] # None}
      /\ tick'[t].restart = Restarted(k.boot) /\ tick'[t].sum = k.sum
      /\ UNCHANGED <<boot, adds, counter, carried, email, user, counted, born>>
      /\ seen' = NowSeen(k.boot) /\ orderly' = (orderly /\ BootTimeFits(t))
  BY JudgeShape
<1>2. k \in TickStates /\ k' \in TickStates
  BY DEF TInv, TypeOK
<1>3. ASSUME Calm' PROVE (\A u \in Users : UserPaid(u)') /\ UserTick(tick[t])'
  <2>0. Calm /\ BootTimeFits(t) /\ k.sampled \in Boots
    BY <1>0, <1>1, <1>2, <1>3 DEF Calm, BInv, Lived, LiveTick, Active
  <2>1. /\ Restarted(k.boot) = Flagged(k)
        /\ seen' \in {None, k.sampled}
    BY <1>1, <2>0, NoneFacts DEF BootTimeFits, Restarted, NowSeen, Flagged, Boots
  <2>2. /\ Flagged(k)' = Flagged(k)
        /\ Outlived(k)' = Renewed'
        /\ Renewed' => Outlived(k)
    BY <1>1, <2>1 DEF Flagged, Outlived, Renewed
  <2>3. RestOf(k)' = RestOf(k) /\ Waiting(k)' = Waiting(k)
    BY <1>1 DEF RestOf, Waiting, Pending
  <2>4. OldUser(k)' /\ Empty(k)'
    BY <1>1 DEF OldUser, Empty
  <2>5. ASSUME NEW u \in Users
        PROVE  /\ Current(u)' = Current(u) /\ Counts' = Counts /\ Counted(u)' = Counted(u)
               /\ Used(u)' = Used(u) /\ user'[u] = user[u]
               /\ \A S : Taken(k, u, S)' = Taken(k, u, S) /\ Left(k, u, S)' = Left(k, u, S)
    <3>1. Current(u)' = Current(u) /\ Counts' = Counts
      BY <1>0, <1>1 DEF Current, Counts
    <3>2. Counted(u)' = Counted(u) /\ Used(u)' = Used(u) /\ user'[u] = user[u]
      BY <1>0, <1>1, <3>1 DEF Counted, Used, Clients
    <3>3. \A S : Taken(k, u, S)' = Taken(k, u, S) /\ Left(k, u, S)' = Left(k, u, S)
      BY <1>1, <2>3, <3>1 DEF Taken, Left
    <3>. QED
      BY <3>1, <3>2, <3>3
  <2>6. ASSUME NEW u \in Users, NEW S \in SUBSET (Current(u) \cap Waiting(k))
        PROVE  /\ Bill(k, u, S)' <= Used(u)
               /\ user[u].up + Delta(user[u].last, Left(k, u, S), Renewed') <= Used(u)
    <3>. DEFINE up == user[u].up
                last == user[u].last
                total == Taken(k, u, S)
                count == Left(k, u, S)
    <3>1. up + Delta(last, total, Flagged(k)) + Delta(total, count, Outlived(k)) <= Used(u)
      BY <1>1, <2>0 DEF UInv, UserTick, UserDue, Bill, Charge, InReport, Active
    <3>2. /\ up \in Nat /\ last \in Nat /\ total \in Nat /\ count \in Nat /\ Used(u) \in Nat
          /\ Flagged(k) \in BOOLEAN /\ Outlived(k) \in BOOLEAN /\ Renewed' \in BOOLEAN
      <4>1. S \in SUBSET Emails
        BY PartsFinite
      <4>. QED
        BY <1>2, <4>1, UserNumbers, DueNumbers DEF UserNat, Renewed
    <3>3. Bill(k, u, S)' = up + Delta(last, total, Flagged(k)) + Delta(total, count, Renewed')
      BY <2>2, <2>5 DEF Bill, Charge, Delta
    <3>. HIDE DEF k, up, last, total, count
    <3>4. /\ up + Delta(last, total, Flagged(k)) + Delta(total, count, Renewed') <= Used(u)
          /\ up + Delta(last, count, Renewed') <= Used(u)
      BY <2>2, <3>1, <3>2, LessDue
    <3>. QED
      BY <3>3, <3>4 DEF up, last, count
  <2>7. ASSUME NEW u \in Users PROVE UserDue(k, u)'
    BY <2>3, <2>5, <2>6 DEF UserDue
  <2>8. ASSUME NEW u \in Users PROVE UserPaid(u)'
    <3>. DEFINE S == Current(u) \cap Waiting(k)
    <3>1. S \cup (Current(u) \ Waiting(k)) = Current(u)
      OBVIOUS
    <3>2. Left(k, u, S) = Counted(u)
      BY <3>1 DEF Left, Counted
    <3>3. user[u].up + Delta(user[u].last, Counted(u), Renewed') <= Used(u)
      BY <2>6, <3>2
    <3>. QED
      BY <2>5, <3>3 DEF UserPaid, Delta
  <2>. QED
    BY <2>4, <2>7, <2>8 DEF UserTick
<1>. QED
  BY <1>0, <1>3, OneUserTick

\* The row of a user is written: it takes what was due, and what is left is what
\* the counters have gained since.
LEMMA WriteUsers ==
  ASSUME TInv, TInv', BInv, UInv, NEW t \in Ticks, NEW u \in Users, WriteUser(t, u)
  PROVE  UInv'
<1>. DEFINE k == tick[t]
            delta == Delta(user[u].last, k.sum[u], k.restart)
<1>0. TickStep(t) /\ UNCHANGED <<payer, payers, steady>>
  BY DEF TickStep, WriteUser, payVars
<1>1. /\ tick'[t].pc = "users" /\ k.pc = "users" /\ k.at = u
      /\ tick'[t].at = None /\ tick'[t].todo = k.todo \ {u}
      /\ tick'[t].sum = k.sum /\ tick'[t].restart = k.restart
      /\ UNCHANGED <<carried, counter, boot, seen, orderly>>
  BY UserDoneShape
<1>2. k \in TickStates /\ user \in [Users -> UserRows] /\ u # None
  BY NoneFacts DEF TInv, TypeOK
<1>3. /\ RestOf(k)' = RestOf(k) /\ Waiting(k)' = {} /\ Waiting(k) = {}
      /\ \A e \in Emails : RestOf(k)[e] = 0
  BY <1>1 DEF RestOf, Waiting, Pending
<1>4. Counts' = Counts /\ \A x : Current(x)' = Current(x) /\ Counted(x)' = Counted(x) /\ Used(x)' = Used(x)
  <2>1. Counts' = Counts /\ \A x : Current(x)' = Current(x) /\ Clients(x)' = Clients(x)
    BY <1>0, <1>1 DEF Counts, Current, Clients
  <2>. QED
    BY <1>1, <2>1 DEF Counted, Used
<1>5. \A x \in Users : /\ Taken(k, x, {})' = Taken(k, x, {}) /\ Taken(k, x, {}) = k.sum[x]
                       /\ Left(k, x, {})' = Counted(x) /\ Left(k, x, {}) = Counted(x)
  <2>1. ASSUME NEW x \in Users PROVE Taken(k, x, {}) = k.sum[x] /\ k.sum[x] \in Nat
    <3>1. Sum(RestOf(k), {}) = 0
      BY SumStep, FS_EmptySet
    <3>. QED
      BY <1>2, <3>1 DEF Taken, TickStates
  <2>2. \A x \in Users : {} \cup (Current(x) \ {}) = Current(x)
    OBVIOUS
  <2>. QED
    BY <1>1, <1>3, <1>4, <2>1, <2>2 DEF Taken, Left, Counted
<1>6. /\ Flagged(k)' = Flagged(k) /\ Outlived(k)' = Outlived(k) /\ Renewed' = Renewed
      /\ Flagged(k) = k.restart /\ Outlived(k) = Renewed
  BY <1>1 DEF Flagged, Outlived, Renewed
<1>7. ASSUME Calm PROVE (\A x \in Users : UserPaid(x)') /\ UserTick(tick[t])'
  <2>1. k.todo \subseteq Users /\ u \in k.todo /\ k.old = OldRow(user[u])
    BY <1>1, <1>2, <1>7 DEF UInv, UserTick, OldUser
  <2>2. OldUser(k)' /\ Empty(k)'
    BY <1>1, <2>1 DEF OldUser, Empty
  <2>3. /\ user'[u].last = k.sum[u] /\ user'[u].up \in {0, user[u].up + delta}
        /\ \A x \in Users \ {u} : user'[x] = user[x]
    <3>1. k.old.last = user[u].last
      BY <2>1 DEF OldRow
    <3>2. InsertedUser(t, u).last = k.sum[u] /\ InsertedUser(t, u).up = 0
      BY DEF InsertedUser, NoUserRow
    <3>3. UpdatedUser(t, u).last = k.sum[u] /\ UpdatedUser(t, u).up = user[u].up + delta
      BY <1>2, <3>1 DEF UpdatedUser, UserRows
    <3>4. user' = [user EXCEPT ![u] = IF ~k.old.exists THEN InsertedUser(t, u)
                                                       ELSE UpdatedUser(t, u)]
      BY DEF WriteUser
    <3>. QED
      BY <1>2, <3>2, <3>3, <3>4
  <2>4. ASSUME NEW x \in Users, x # u PROVE UserPaid(x)' /\ UserDue(k, x)'
    <3>1. UserPaid(x) /\ UserDue(k, x) /\ user'[x] = user[x]
      BY <1>7, <2>3, <2>4 DEF UInv, UserTick
    <3>2. InReport(k, x)' => InReport(k, x)
      BY <1>1 DEF InReport, Active
    <3>3. UserPaid(x)'
      BY <1>4, <1>6, <3>1 DEF UserPaid, Delta
    <3>4. Bill(k, x, {})' = Bill(k, x, {})
      BY <1>5, <1>6, <3>1 DEF Bill, Charge, Delta
    <3>5. InReport(k, x) => Bill(k, x, {}) <= Used(x)
      BY <3>1 DEF UserDue
    <3>6. \A S \in SUBSET (Current(x)' \cap Waiting(k)') : S = {}
      BY <1>3
    <3>. QED
      BY <1>4, <3>2, <3>3, <3>4, <3>5, <3>6 DEF UserDue
  <2>5. UserPaid(u)'
    <3>1. user[u].up + delta + Delta(k.sum[u], Counted(u), Renewed) <= Used(u)
      <4>1. UserDue(k, u) /\ InReport(k, u)
        BY <1>1, <1>7, <2>1 DEF UInv, UserTick, InReport
      <4>2. Bill(k, u, {}) <= Used(u)
        BY <4>1 DEF UserDue
      <4>. QED
        BY <1>5, <1>6, <4>2 DEF Bill, Charge
    <3>2. /\ Counted(u) \in Nat /\ Used(u) \in Nat /\ user[u].up \in Nat /\ user[u].last \in Nat
          /\ Renewed \in BOOLEAN /\ k.sum[u] \in Nat /\ k.restart \in BOOLEAN
      BY <1>2, UserNumbers, CountNumbers DEF UserNat, TickStates
    <3>3. delta \in Nat /\ Delta(k.sum[u], Counted(u), Renewed) \in Nat
      BY <3>2, DeltaType
    <3>4. Delta(user'[u].last, Counted(u)', Renewed') = Delta(k.sum[u], Counted(u), Renewed)
      BY <1>4, <1>6, <2>3
    <3>. HIDE DEF k, delta
    <3>5. user'[u].up + Delta(k.sum[u], Counted(u), Renewed) <= Used(u)
      BY <2>3, <3>1, <3>2, <3>3
    <3>. QED
      BY <1>4, <3>4, <3>5 DEF UserPaid, Delta
  <2>6. UserDue(k, u)'
    BY <1>1 DEF UserDue, InReport, Active
  <2>. QED
    BY <2>2, <2>4, <2>5, <2>6 DEF UserTick
<1>. QED
  BY <1>0, <1>1, <1>7, OneUserTick DEF Calm

LEMMA NextUInv == TInv /\ BInv /\ UInv /\ VInv /\ [Next]_vars => UInv'
<1>. SUFFICES ASSUME TInv, BInv, UInv, VInv, [Next]_vars PROVE UInv'
  OBVIOUS
<1>0. TInv'
  BY NextTInv
<1>1. CASE UNCHANGED vars
  <2>1. /\ UNCHANGED <<tick, orderly, steady, seen, payer, payers, boot, counter, carried>>
        /\ UNCHANGED user
    BY <1>1 DEF vars
  <2>2. \A u \in Users : user'[u].up <= user[u].up /\ OldRow(user'[u]) = OldRow(user[u])
    BY <2>1, UserNumbers DEF UserNat
  <2>. QED
    BY <1>0, <2>1, <2>2, StillUsers
<1>2. ASSUME NEW t \in Ticks, TickStep(t) PROVE UInv'
  <2>1. \/ PushArrives(t) \/ PullFetched(t) \/ PullListed(t) \/ Finish(t)
        \/ PushLookup(t) \/ Judge(t) \/ EmailsDone(t)
        \/ \E e \in Emails : ReadEmail(t, e)
        \/ \E e \in Emails, who \in Names : WriteEmail(t, e, who) \/ EmailFails(t, e, who)
        \/ \E u \in Users : ReadUser(t, u) \/ WriteUser(t, u) \/ UserFails(t, u)
    BY <1>2 DEF TickStep
  <2>. QED
    BY <1>0, <2>1, SampleUsers, IdleUsers, LookupUsers, ReadUsers, EmailUsers,
       EmailsDoneUsers, UserFailsUsers, JudgeUsers, WriteUsers
<1>. QED
  BY <1>0, <1>1, <1>2, ServerUsers, AdminUsers, PanelUsers DEF Next

LEMMA UsersPayForUse == TInv /\ UInv => UserNeverOverbilled
<1>. SUFFICES ASSUME TInv, UInv, Calm, NEW u \in Users PROVE user[u].up <= Used(u)
  BY SumIs DEF UserNeverOverbilled, NoMoreThanCarried, Used, Calm
<1>1. UserPaid(u) /\ UserNat(u)
  BY UserNumbers DEF UInv
<1>2. Delta(user[u].last, Counted(u), Renewed) \in Nat
  BY <1>1, CountNumbers, DeltaType DEF UserNat
<1>. QED
  BY <1>1, <1>2 DEF UserPaid, UserNat

\* For any users and clients, whatever restarts, is removed, reset or fails, and
\* whomever each report resolves a client to: while reports come one by one, and
\* until a client comes back to a sum that it had left, the row of a user never
\* holds more than the clients that were ever added to it have carried together
\* (aggregateAndUpsertUserTraffic, ResolveUsernameByEmail).
THEOREM NoUserByteTwice == Spec => []UserNeverOverbilled
<1>1. Spec => [](TInv /\ BInv /\ VInv /\ UInv)
  BY InitTInv, NextTInv, InitBInv, NextBInv, InitVInv, NextVInv, InitUInv, NextUInv, PTL
     DEF Spec
<1>. QED
  BY <1>1, UsersPayForUse, PTL
=============================================================================
