-------------------------- MODULE AgentCallsProofs --------------------------
(* Theorems about AgentCalls, for any calls, addresses, capacities and     *)
(* bounds: the types, that an answered call is not executed again, that a  *)
(* browser sees the lines of one execution in order, that calls keep the   *)
(* safety part of CallContract, and that there is room for every answer.   *)
EXTENDS AgentCallsProps, TLAPS

-----------------------------------------------------------------------------
(* Types.                                                                    *)

\* A probe is sent as a probe first and as a command afterwards, and a call
\* over HTTP has an address left.
KindOK(c) ==
    /\ call[c].kind = KindOf(c) \/ (c \in Probes /\ call[c].kind = "rpc")
    /\ call[c].pc \in {"http", "rekey"} => call[c].left > 0 /\ call[c].kind # "probe"
    /\ call[c].pc = "rekey" => call[c].kind = "rpc"
TInv == TypeOK /\ \A c \in Calls : KindOK(c)

LEMMA Disjoint ==
  /\ Commands \cap Streams = {} /\ Commands \cap Probes = {} /\ Streams \cap Probes = {}
  /\ None \notin Calls
  /\ Addresses \in Nat /\ Lines \in Nat /\ Buffer \in Nat \ {0} /\ MaxRequests \in Nat /\ MaxDrops \in Nat
  /\ \A c \in Calls : KindOf(c) \in Kinds /\ (KindOf(c) = "probe" <=> c \in Probes)
                      /\ (KindOf(c) = "stream" <=> c \in Streams)
<1>1. \A c \in Calls : KindOf(c) \in Kinds /\ (KindOf(c) = "probe" <=> c \in Probes)
                      /\ (KindOf(c) = "stream" <=> c \in Streams)
  BY CallsAssumption DEF KindOf, Kinds, Calls
<1>. QED
  BY <1>1, CallsAssumption DEF Calls

LEMMA SetType ==
  ASSUME TInv, NEW c \in Calls, NEW rec \in CallStates, Set(c, rec),
         rec.kind = call[c].kind \/ (c \in Probes /\ rec.kind = "rpc"),
         rec.pc \in {"http", "rekey"} => rec.left > 0 /\ rec.kind # "probe",
         rec.pc = "rekey" => rec.kind = "rpc"
  PROVE  /\ call' \in [Calls -> CallStates] /\ \A d \in Calls : KindOK(d)'
         /\ call'[c] = rec /\ \A d \in Calls \ {c} : call'[d] = call[d]
<1>1. /\ call' \in [Calls -> CallStates] /\ call'[c] = rec
      /\ \A d \in Calls \ {c} : call'[d] = call[d]
  BY DEF Set, TInv, TypeOK
<1>2. KindOK(c)'
  BY <1>1 DEF KindOK, TInv
<1>3. \A d \in Calls \ {c} : KindOK(d)'
  BY <1>1 DEF KindOK, TInv
<1>. QED
  BY <1>1, <1>2, <1>3

LEMMA InitTInv == Init => TInv
<1>. SUFFICES ASSUME Init PROVE TInv
  OBVIOUS
<1>1. PICK mix \in Mixes : call = [c \in Calls |->
          [pc |-> IF c \in mix THEN "idle" ELSE "unused", kind |-> KindOf(c), id |-> 0,
           left |-> 0, cancelled |-> FALSE, heard |-> FALSE, out |-> <<>>]]
  BY DEF Init
<1>2. call \in [Calls -> CallStates] /\ \A c \in Calls : KindOK(c)
  BY <1>1, Disjoint DEF CallStates, KindOK
<1>3. chan \in [Calls -> [Kinds -> Seq(Frames)]] /\ \A c \in Calls, k \in Kinds : Len(chan[c][k]) <= Capacity(k)
  BY Disjoint DEF Init, Capacity
<1>4. pending \in [Kinds -> [Ids -> Calls \cup {None}]]
  BY DEF Init
<1>5. runs \in [Calls -> [n : Nat, said : SUBSET {"ok", "refused"}]]
  BY DEF Init
<1>. QED
  BY <1>2, <1>3, <1>4, <1>5, Disjoint DEF Init, TInv, TypeOK

\* The calls, the channels and the table of pending requests.
LEMMA BeginTypes ==
  ASSUME TInv, NEW c \in Calls, Begin(c)
  PROVE  TInv'
<1>. DEFINE k == call[c].kind
<1>0. call[c] \in CallStates /\ k \in Kinds /\ call[c].pc = "idle" /\ KindOK(c)
  BY DEF TInv, TypeOK, CallStates, Begin
<1>1. CASE /\ link /\ nextId < MaxRequests
           /\ nextId' = nextId + 1
           /\ pending' = [pending EXCEPT ![k][NextId] = c]
           /\ down' = down \cup {[id |-> NextId, of |-> c, kind |-> k]}
           /\ Set(c, [call[c] EXCEPT !.pc = "wait", !.id = NextId])
  <2>1. NextId \in Ids /\ nextId' \in 0..MaxRequests
    BY <1>1, Disjoint DEF NextId, Ids, TInv, TypeOK
  <2>2. [call[c] EXCEPT !.pc = "wait", !.id = NextId] \in CallStates
    BY <1>0, <2>1 DEF CallStates
  <2>3. call' \in [Calls -> CallStates] /\ \A d \in Calls : KindOK(d)'
    BY <1>0, <1>1, <2>2, SetType DEF CallStates
  <2>4. pending' \in [Kinds -> [Ids -> Calls \cup {None}]]
    BY <1>0, <1>1, <2>1 DEF TInv, TypeOK
  <2>5. down' \subseteq [id : Ids, of : Calls, kind : Kinds]
    BY <1>0, <1>1, <2>1 DEF TInv, TypeOK
  <2>. QED
    BY <2>1, <2>3, <2>4, <2>5 DEF Begin, TInv, TypeOK, agent
<1>2. CASE /\ IF k = "probe" THEN Set(c, [call[c] EXCEPT !.kind = "rpc"]) ELSE Fallback(c)
           /\ UNCHANGED <<nextId, pending, down>>
  <2>1. call' \in [Calls -> CallStates] /\ \A d \in Calls : KindOK(d)'
    <3>1. CASE k = "probe"
      <4>1. [call[c] EXCEPT !.kind = "rpc"] \in CallStates /\ c \in Probes
        BY <1>0, <3>1, Disjoint DEF CallStates, KindOK, Kinds
      <4>. QED
        BY <1>0, <1>2, <3>1, <4>1, SetType DEF CallStates
    <3>2. CASE k # "probe"
      <4>. DEFINE new(n) == [[call[c] EXCEPT !.pc = IF n = 0 THEN "failed" ELSE "http", !.left = n]
                                EXCEPT !.id = 0]
      <4>1. PICK n \in 0..Addresses : Set(c, new(n))
        BY <1>2, <3>2 DEF Fallback, Leave
      <4>2. new(n) \in CallStates
        BY <1>0, Disjoint DEF CallStates, Ended
      <4>3. new(n).kind = k /\ new(n).left = n /\ new(n).pc = IF n = 0 THEN "failed" ELSE "http"
        BY <1>0 DEF CallStates
      <4>4. new(n).pc # "rekey" /\ (new(n).pc = "http" => n > 0)
        BY <4>3, Disjoint
      <4>. HIDE DEF new
      <4>. QED
        BY <1>0, <3>2, <4>1, <4>2, <4>3, <4>4, SetType
    <3>. QED
      BY <3>1, <3>2
  <2>. QED
    BY <1>2, <2>1 DEF Begin, TInv, TypeOK, agent
<1>. QED
  BY <1>1, <1>2 DEF Begin

LEMMA ForgetTypes ==
  ASSUME TInv, NEW c \in Calls, Forget(c)
  PROVE  /\ chan' \in [Calls -> [Kinds -> Seq(Frames)]]
         /\ \A d \in Calls, k \in Kinds : Len(chan'[d][k]) <= Capacity(k)
         /\ \A d \in Calls, k \in Kinds : chan'[d][k] \in {chan[d][k], <<>>}
         /\ pending' \in [Kinds -> [Ids -> Calls \cup {None}]]
         /\ closed' \subseteq Probes
<1>0. call[c] \in CallStates /\ call[c].kind \in Kinds /\ KindOK(c)
  BY DEF TInv, TypeOK, CallStates
<1>1. chan' = chan \/ chan' = [chan EXCEPT ![c][call[c].kind] = <<>>]
  BY DEF Forget
<1>2. chan' \in [Calls -> [Kinds -> Seq(Frames)]]
      /\ \A d \in Calls, k \in Kinds : chan'[d][k] \in {chan[d][k], <<>>}
  <2>1. <<>> \in Seq(Frames)
    OBVIOUS
  <2>2. chan \in [Calls -> [Kinds -> Seq(Frames)]]
    BY DEF TInv, TypeOK
  <2>. HIDE DEF Frames
  <2>3. CASE chan' = [chan EXCEPT ![c][call[c].kind] = <<>>]
    BY <1>0, <2>1, <2>2, <2>3
  <2>. QED
    BY <1>1, <2>2, <2>3
<1>3. \A k \in Kinds : Capacity(k) \in Nat
  BY Disjoint DEF Capacity
<1>4. \A d \in Calls, k \in Kinds : Len(chan'[d][k]) <= Capacity(k)
  BY <1>2, <1>3 DEF TInv, TypeOK
<1>5. pending' \in [Kinds -> [Ids -> Calls \cup {None}]]
  BY <1>0 DEF TInv, TypeOK, Forget
<1>6. closed' \subseteq Probes
  BY <1>0, Disjoint DEF Forget, TInv, TypeOK, KindOK
<1>. QED
  BY <1>2, <1>4, <1>5, <1>6

\* The ways out of a select.
LEMMA OverTypes ==
  ASSUME TInv, NEW c \in Calls, NEW rec \in CallStates, Leave(c, rec), Forget(c),
         rec.kind = call[c].kind \/ (c \in Probes /\ rec.kind = "rpc"),
         rec.pc \in {"http", "rekey"} => rec.left > 0 /\ rec.kind # "probe",
         rec.pc = "rekey" => rec.kind = "rpc",
         UNCHANGED <<nextId, reader, wire, agent>>
  PROVE  TInv'
<1>. DEFINE new == [rec EXCEPT !.id = 0]
<1>1. new \in CallStates /\ new.kind = rec.kind /\ new.pc = rec.pc /\ new.left = rec.left
  BY DEF CallStates
<1>2. call' \in [Calls -> CallStates] /\ \A d \in Calls : KindOK(d)'
  <2>. HIDE DEF new
  <2>1. Set(c, new)
    BY DEF Leave, new
  <2>. QED
    BY <1>1, <2>1, SetType
<1>. QED
  BY <1>2, ForgetTypes DEF TInv, TypeOK, wire, agent

LEMMA HeadFrame ==
  ASSUME TInv, NEW c \in Calls, Arrived(c) # <<>>
  PROVE  /\ call[c] \in CallStates /\ KindOK(c)
         /\ Head(Arrived(c)) \in Frames /\ Head(Arrived(c)).says \in {"ok", "refused"}
         /\ Head(Arrived(c)).type = "data" => Head(Arrived(c)).line \in Nat \X (1..Lines)
         /\ Head(Arrived(c)) = Arrived(c)[1] /\ Len(Arrived(c)) > 0
<1>1. Arrived(c) \in Seq(Frames) /\ call[c] \in CallStates /\ KindOK(c)
  BY DEF TInv, TypeOK, Arrived, CallStates
<1>2. Head(Arrived(c)) \in Frames /\ Head(Arrived(c)) = Arrived(c)[1] /\ Len(Arrived(c)) > 0
  BY <1>1
<1>. QED
  BY <1>1, <1>2 DEF Frames

LEMMA TakeTypes ==
  ASSUME TInv, NEW c \in Calls, Answer(c)
  PROVE  TInv'
<1>0. call[c] \in CallStates /\ KindOK(c) /\ call[c].kind \in Kinds
      /\ call[c].out \in Seq(Nat \X (1..Lines))
  BY DEF TInv, TypeOK, CallStates
<1>. DEFINE h == Head(Arrived(c))
<1>1. CASE TakeReply(c)
  <2>. DEFINE rec == [call[c] EXCEPT !.pc = h.says, !.heard = TRUE]
  <2>1. rec \in CallStates /\ rec.kind = call[c].kind /\ rec.pc \in Ended
    BY <1>0, <1>1, HeadFrame DEF CallStates, Ended, TakeReply
  <2>2. Leave(c, rec)
    BY <1>1 DEF TakeReply
  <2>. HIDE DEF rec
  <2>. QED
    BY <1>1, <2>1, <2>2, OverTypes DEF TakeReply, Ended
<1>2. CASE TakeResult(c)
  <2>. DEFINE rec == IF h.says = "ok" THEN [call[c] EXCEPT !.pc = "ok"]
                     ELSE [call[c] EXCEPT !.pc = "idle", !.kind = "rpc"]
  <2>0. c \in Probes
    BY <1>0, <1>2, Disjoint DEF KindOK, TakeResult, Waits
  <2>1. rec \in CallStates /\ rec.kind \in {call[c].kind, "rpc"} /\ rec.pc \in {"ok", "idle"}
    BY <1>0 DEF CallStates, Ended, Kinds
  <2>2. Leave(c, rec)
    BY <1>2 DEF TakeResult
  <2>. HIDE DEF rec
  <2>. QED
    BY <1>2, <2>0, <2>1, <2>2, OverTypes DEF TakeResult
<1>3. CASE TakeEnd(c)
  <2>. DEFINE rec == [call[c] EXCEPT !.heard = TRUE,
                        !.pc = IF call[c].out = <<>> THEN h.says ELSE "ended"]
  <2>1. rec \in CallStates /\ rec.kind = call[c].kind /\ rec.pc \in Ended
    BY <1>0, <1>3, HeadFrame DEF CallStates, Ended, TakeEnd
  <2>2. Leave(c, rec)
    BY <1>3 DEF TakeEnd
  <2>. HIDE DEF rec
  <2>. QED
    BY <1>3, <2>1, <2>2, OverTypes DEF TakeEnd, Ended
<1>4. CASE TakeData(c)
  <2>1. CASE Leave(c, [call[c] EXCEPT !.pc = "failed", !.heard = TRUE]) /\ Forget(c)
    <3>. DEFINE rec == [call[c] EXCEPT !.pc = "failed", !.heard = TRUE]
    <3>1. rec \in CallStates /\ rec.kind = call[c].kind /\ rec.pc = "failed"
      BY <1>0 DEF CallStates, Ended
    <3>. HIDE DEF rec
    <3>2. Leave(c, rec)
      BY <2>1 DEF rec
    <3>. QED
      BY <1>4, <2>1, <3>1, <3>2, OverTypes DEF TakeData
  <2>2. CASE /\ Set(c, [call[c] EXCEPT !.out = Append(@, h.line), !.heard = TRUE])
             /\ Take(c) /\ UNCHANGED <<pending, closed>>
    <3>. DEFINE rec == [call[c] EXCEPT !.out = Append(@, h.line), !.heard = TRUE]
    <3>1. h.line \in Nat \X (1..Lines) /\ Arrived(c) # <<>>
      BY <1>4, HeadFrame DEF TakeData
    <3>2. Append(call[c].out, h.line) \in Seq(Nat \X (1..Lines))
      BY <1>0, <3>1
    <3>3. rec \in CallStates /\ rec.kind = call[c].kind /\ rec.pc = call[c].pc
      BY <1>0, <3>2 DEF CallStates
    <3>4. Set(c, rec) /\ call[c].pc = "wait"
      BY <1>4, <2>2 DEF TakeData, Waits
    <3>. HIDE DEF rec
    <3>5. call' \in [Calls -> CallStates] /\ \A d \in Calls : KindOK(d)'
      BY <3>3, <3>4, SetType
    <3>6. /\ chan' \in [Calls -> [Kinds -> Seq(Frames)]]
          /\ \A d \in Calls, k \in Kinds : Len(chan'[d][k]) <= Capacity(k)
      <4>1. chan \in [Calls -> [Kinds -> Seq(Frames)]] /\ chan[c][call[c].kind] # <<>>
        BY <3>1 DEF TInv, TypeOK, Arrived
      <4>2. /\ Tail(chan[c][call[c].kind]) \in Seq(Frames)
            /\ Len(Tail(chan[c][call[c].kind])) = Len(chan[c][call[c].kind]) - 1
            /\ Len(chan[c][call[c].kind]) \in Nat
        BY <1>0, <4>1
      <4>3. chan' = [chan EXCEPT ![c][call[c].kind] = Tail(@)]
        BY <2>2 DEF Take
      <4>. HIDE DEF Frames
      <4>4. chan' \in [Calls -> [Kinds -> Seq(Frames)]]
        BY <1>0, <4>1, <4>2, <4>3
      <4>5. \A d \in Calls, k \in Kinds :
               chan'[d][k] = IF d = c /\ k = call[c].kind THEN Tail(chan[d][k]) ELSE chan[d][k]
        BY <1>0, <4>1, <4>3
      <4>6. \A k \in Kinds : Capacity(k) \in Nat
        BY Disjoint DEF Capacity
      <4>7. ASSUME NEW d \in Calls, NEW k \in Kinds PROVE Len(chan'[d][k]) <= Capacity(k)
        <5>1. Len(chan[d][k]) <= Capacity(k) /\ Capacity(k) \in Nat
          BY <4>6 DEF TInv, TypeOK
        <5>2. CASE d = c /\ k = call[c].kind
          <6>1. chan'[d][k] = Tail(chan[c][call[c].kind])
            BY <4>5, <5>2
          <6>. QED
            BY <4>2, <5>1, <5>2, <6>1
        <5>3. CASE ~(d = c /\ k = call[c].kind)
          BY <4>5, <5>1, <5>3
        <5>. QED
          BY <5>2, <5>3
      <4>. QED
        BY <4>4, <4>7
    <3>. QED
      BY <1>4, <2>2, <3>5, <3>6 DEF TakeData, TInv, TypeOK, wire, agent
  <2>. QED
    BY <1>4, <2>1, <2>2 DEF TakeData
<1>. QED
  BY <1>1, <1>2, <1>3, <1>4 DEF Answer

LEMMA GiveUpTypes ==
  ASSUME TInv, NEW c \in Calls, GiveUp(c)
  PROVE  TInv'
<1>0. call[c] \in CallStates /\ KindOK(c) /\ Forget(c) /\ UNCHANGED <<nextId, reader, wire, agent>>
  BY DEF TInv, TypeOK, CallStates, GiveUp
<1>1. CASE call[c].kind = "probe"
  <2>. DEFINE rec == [call[c] EXCEPT !.pc = "idle", !.kind = "rpc"]
  <2>1. rec \in CallStates /\ rec.kind = "rpc" /\ rec.pc = "idle" /\ c \in Probes
    BY <1>0, <1>1, Disjoint DEF CallStates, Kinds, KindOK
  <2>2. Leave(c, rec)
    BY <1>1 DEF GiveUp
  <2>. HIDE DEF rec
  <2>. QED
    BY <1>0, <2>1, <2>2, OverTypes
<1>2. CASE call[c].kind # "probe" /\ MayFallBack(c)
  <2>. DEFINE rec(n) == [call[c] EXCEPT !.pc = IF n = 0 THEN "failed" ELSE "http", !.left = n]
  <2>1. PICK n \in 0..Addresses : Leave(c, rec(n))
    BY <1>2 DEF GiveUp, Fallback
  <2>2. rec(n) \in CallStates
    BY <1>0, Disjoint DEF CallStates, Ended
  <2>3. rec(n).kind = call[c].kind /\ rec(n).left = n
        /\ rec(n).pc = IF n = 0 THEN "failed" ELSE "http"
    BY <1>0 DEF CallStates
  <2>4. rec(n).pc # "rekey" /\ (rec(n).pc = "http" => n > 0)
    BY <2>3, Disjoint
  <2>. HIDE DEF rec
  <2>. QED
    BY <1>0, <1>2, <2>1, <2>2, <2>3, <2>4, OverTypes
<1>3. CASE call[c].kind # "probe" /\ ~MayFallBack(c)
  <2>. DEFINE rec == [call[c] EXCEPT !.pc = "failed"]
  <2>1. rec \in CallStates /\ rec.kind = call[c].kind /\ rec.pc = "failed"
    BY <1>0 DEF CallStates, Ended
  <2>2. Leave(c, rec)
    BY <1>3 DEF GiveUp
  <2>. HIDE DEF rec
  <2>. QED
    BY <1>0, <2>1, <2>2, OverTypes
<1>. QED
  BY <1>1, <1>2, <1>3

LEMMA CancelTypes ==
  ASSUME TInv, NEW c \in Calls, Cancel(c)
  PROVE  TInv'
<1>0. call[c] \in CallStates /\ KindOK(c)
  BY DEF TInv, TypeOK
<1>. DEFINE rec == [call[c] EXCEPT !.cancelled = TRUE]
<1>1. /\ rec \in CallStates /\ rec.kind = call[c].kind /\ rec.pc = call[c].pc
      /\ rec.left = call[c].left /\ Set(c, rec)
  BY <1>0 DEF CallStates, Cancel
<1>. HIDE DEF rec
<1>2. call' \in [Calls -> CallStates] /\ \A d \in Calls : KindOK(d)'
  BY <1>0, <1>1, SetType DEF KindOK
<1>. QED
  BY <1>2 DEF Cancel, TInv, TypeOK, wire, agent

LEMMA RunsType ==
  ASSUME TInv, NEW c \in Calls, NEW said \in SUBSET {"ok", "refused"}, Ran(c, said)
  PROVE  /\ runs' \in [Calls -> [n : Nat, said : SUBSET {"ok", "refused"}]]
         /\ runs'[c].n = runs[c].n + 1 /\ runs'[c].said = runs[c].said \cup said
         /\ \A d \in Calls \ {c} : runs'[d] = runs[d]
<1>1. runs \in [Calls -> [n : Nat, said : SUBSET {"ok", "refused"}]]
  BY DEF TInv, TypeOK
<1>. DEFINE new == [n |-> runs[c].n + 1, said |-> runs[c].said \cup said]
<1>2. new \in [n : Nat, said : SUBSET {"ok", "refused"}]
  <2>1. runs[c] \in [n : Nat, said : SUBSET {"ok", "refused"}]
    BY <1>1
  <2>2. runs[c].n + 1 \in Nat
    BY <2>1
  <2>3. runs[c].said \cup said \in SUBSET {"ok", "refused"}
    BY <2>1, Zenon
  <2>. QED
    BY <2>2, <2>3
<1>3. runs' = [runs EXCEPT ![c] = new]
  BY DEF Ran
<1>4. new.n = runs[c].n + 1 /\ new.said = runs[c].said \cup said
  OBVIOUS
<1>. HIDE DEF new
<1>. QED
  BY <1>1, <1>2, <1>3, <1>4

LEMMA ExchangeType ==
  ASSUME TInv, NEW c \in Calls, NEW answer, NEW ran \in BOOLEAN, Exchange(c, answer, ran)
  PROVE  /\ runs' \in [Calls -> [n : Nat, said : SUBSET {"ok", "refused"}]]
         /\ \A d \in Calls \ {c} : runs'[d] = runs[d]
         /\ runs'[c].said = IF ran THEN runs[c].said \cup ({answer} \cap {"ok", "refused"})
                                   ELSE runs[c].said
         /\ runs'[c].n = IF ran THEN runs[c].n + 1 ELSE runs[c].n
<1>1. CASE ran
  BY <1>1, RunsType DEF Exchange
<1>2. CASE ~ran
  BY <1>2 DEF Exchange, TInv, TypeOK
<1>. QED
  BY <1>1, <1>2

\* The next address, or the outcome.
LEMMA OutcomeShape ==
  ASSUME TInv, NEW c \in Calls, NEW answer \in {"ok", "refused", "lost"}, Outcome(c, answer),
         call[c].pc \in {"http", "rekey"}
  PROVE  /\ call' \in [Calls -> CallStates] /\ \A d \in Calls : KindOK(d)'
         /\ \A d \in Calls \ {c} : call'[d] = call[d]
         /\ call'[c].kind = call[c].kind /\ call'[c].heard = call[c].heard
         /\ call'[c].out = call[c].out /\ call'[c].id = call[c].id
         /\ call'[c].pc = IF answer = "ok" THEN "ok" ELSE IF call[c].left > 1 THEN "http"
                          ELSE IF answer = "refused" THEN "refused" ELSE "failed"
         /\ call'[c].left = IF answer = "ok" THEN 0 ELSE call[c].left - 1
<1>0. call[c] \in CallStates /\ KindOK(c) /\ call[c].left \in 0..Addresses /\ call[c].left > 0
      /\ Addresses \in Nat
  BY Disjoint DEF TInv, TypeOK, CallStates, KindOK
<1>. DEFINE left == IF answer = "ok" THEN 0 ELSE call[c].left - 1
            pc == IF answer = "ok" THEN "ok" ELSE IF call[c].left > 1 THEN "http"
                  ELSE IF answer = "refused" THEN "refused" ELSE "failed"
            rec == [call[c] EXCEPT !.pc = pc, !.left = left]
<1>1. left \in 0..Addresses /\ (pc = "http" => left > 0)
  BY <1>0
<1>2. pc \in Ended \cup {"http"}
  BY DEF Ended
<1>3. Set(c, rec)
  BY <1>0 DEF Outcome, CallStates
<1>. HIDE DEF left, pc
<1>4. rec \in CallStates /\ rec.kind = call[c].kind /\ rec.pc = pc /\ rec.left = left
      /\ rec.heard = call[c].heard /\ rec.out = call[c].out /\ rec.id = call[c].id
  BY <1>0, <1>1, <1>2 DEF CallStates
<1>. HIDE DEF rec
<1>5. /\ call' \in [Calls -> CallStates]
      /\ \A d \in Calls : KindOK(d)'
      /\ call'[c] = rec /\ \A d \in Calls \ {c} : call'[d] = call[d]
  BY <1>0, <1>1, <1>2, <1>3, <1>4, SetType DEF KindOK, Ended
<1>. QED
  BY <1>4, <1>5 DEF pc, left

LEMMA HttpTypes ==
  ASSUME TInv, NEW c \in Calls, Http(c)
  PROVE  TInv'
<1>0. call[c] \in CallStates /\ KindOK(c)
  BY DEF TInv, TypeOK
<1>u. UNCHANGED <<pending, chan, closed, nextId, reader, wire, jobs>>
  BY DEF Http, Attempt, Rekey, AttemptStream
<1>1. CASE Attempt(c)
  <2>1. PICK answer \in {"ok", "refused", "lost", "stale"}, ran \in BOOLEAN :
              /\ Exchange(c, answer, ran)
              /\ IF answer = "stale" THEN Set(c, [call[c] EXCEPT !.pc = "rekey"])
                 ELSE Outcome(c, answer)
    BY <1>1 DEF Attempt
  <2>2. call' \in [Calls -> CallStates] /\ \A d \in Calls : KindOK(d)'
    <3>1. CASE answer = "stale"
      <4>. DEFINE rec == [call[c] EXCEPT !.pc = "rekey"]
      <4>1. rec \in CallStates /\ rec.kind = call[c].kind /\ rec.pc = "rekey" /\ rec.left = call[c].left
        BY <1>0 DEF CallStates
      <4>2. Set(c, rec) /\ call[c].kind = "rpc" /\ call[c].left > 0
        BY <1>0, <1>1, <2>1, <3>1 DEF Attempt, KindOK
      <4>. HIDE DEF rec
      <4>. QED
        BY <4>1, <4>2, SetType
    <3>2. CASE answer # "stale"
      BY <1>1, <2>1, <3>2, OutcomeShape DEF Attempt
    <3>. QED
      BY <3>1, <3>2
  <2>3. runs' \in [Calls -> [n : Nat, said : SUBSET {"ok", "refused"}]]
    BY <2>1, ExchangeType
  <2>. QED
    BY <1>u, <2>2, <2>3 DEF TInv, TypeOK, wire
<1>2. CASE Rekey(c)
  <2>1. PICK answer \in {"ok", "refused", "lost"}, ran \in BOOLEAN :
              Exchange(c, answer, ran) /\ Outcome(c, answer)
    BY <1>2 DEF Rekey
  <2>2. call' \in [Calls -> CallStates] /\ \A d \in Calls : KindOK(d)'
    BY <1>2, <2>1, OutcomeShape DEF Rekey
  <2>3. runs' \in [Calls -> [n : Nat, said : SUBSET {"ok", "refused"}]]
    BY <2>1, ExchangeType
  <2>. QED
    BY <1>u, <2>2, <2>3 DEF TInv, TypeOK, wire
<1>3. CASE AttemptStream(c)
  <2>1. PICK answer \in {"ok", "refused", "lost"}, ran \in BOOLEAN, n \in 0..Lines :
         /\ Exchange(c, answer, ran)
         /\ answer # "ok" => n = 0
         /\ Set(c, [call[c] EXCEPT
                !.pc = IF answer = "ok" THEN "ok" ELSE IF call[c].left > 1 THEN "http"
                       ELSE IF answer = "refused" THEN "refused" ELSE "failed",
                !.left = IF answer = "ok" THEN 0 ELSE @ - 1,
                !.out = @ \o [k \in 1..n |-> <<runs[c].n + 1, k>>]])
    BY <1>3 DEF AttemptStream
  <2>. DEFINE left == IF answer = "ok" THEN 0 ELSE call[c].left - 1
              pc == IF answer = "ok" THEN "ok" ELSE IF call[c].left > 1 THEN "http"
                    ELSE IF answer = "refused" THEN "refused" ELSE "failed"
              out == call[c].out \o [k \in 1..n |-> <<runs[c].n + 1, k>>]
              rec == [call[c] EXCEPT !.pc = pc, !.left = left, !.out = out]
  <2>2. call[c].left \in 0..Addresses /\ call[c].left > 0 /\ Addresses \in Nat
    BY <1>0, <1>3, Disjoint DEF CallStates, KindOK, AttemptStream
  <2>3. left \in 0..Addresses /\ (pc = "http" => left > 0)
    BY <2>2
  <2>4. pc \in Ended \cup {"http"}
    BY DEF Ended
  <2>5. out \in Seq(Nat \X (1..Lines))
    <3>1. runs[c].n + 1 \in Nat /\ n \in Nat /\ n <= Lines /\ Lines \in Nat
      BY Disjoint DEF TInv, TypeOK
    <3>2. [k \in 1..n |-> <<runs[c].n + 1, k>>] \in Seq(Nat \X (1..Lines))
      BY <3>1
    <3>3. call[c].out \in Seq(Nat \X (1..Lines))
      BY <1>0 DEF CallStates
    <3>. QED
      BY <3>2, <3>3
  <2>6. Set(c, rec)
    BY <1>0, <2>1 DEF CallStates
  <2>. HIDE DEF left, pc, out
  <2>7. rec \in CallStates /\ rec.kind = call[c].kind /\ rec.pc = pc /\ rec.left = left
    BY <1>0, <2>3, <2>4, <2>5 DEF CallStates
  <2>. HIDE DEF rec
  <2>8. call[c].kind = "stream" /\ pc # "rekey"
    BY <1>3, <2>4 DEF AttemptStream, Ended
  <2>9. call' \in [Calls -> CallStates] /\ \A d \in Calls : KindOK(d)'
    BY <2>3, <2>6, <2>7, <2>8, SetType
  <2>10. runs' \in [Calls -> [n : Nat, said : SUBSET {"ok", "refused"}]]
    <3>1. Exchange(c, answer, ran)
      BY <2>1
    <3>. QED
      BY <3>1, ExchangeType
  <2>. QED
    BY <1>u, <2>9, <2>10 DEF TInv, TypeOK, wire
<1>. QED
  BY <1>1, <1>2, <1>3 DEF Http

LEMMA ReaderTypes ==
  ASSUME TInv, ReadLoop
  PROVE  TInv'
<1>0. reader = NoReader \/ reader \in [pc : {"send"}, call : Calls, kind : Kinds, frame : Frames]
  BY DEF TInv, TypeOK
<1>1. CASE Read
  <2>. DEFINE f == Head(up)
  <2>1. f \in Frames /\ Tail(up) \in Seq(Frames) /\ up # <<>>
    BY <1>1 DEF Read, TInv, TypeOK
  <2>2. Table(f) \in Kinds /\ f.id \in Ids
    BY <2>1 DEF Table, Kinds, Frames
  <2>3. pending[Table(f)][f.id] \in Calls \cup {None}
    BY <2>2 DEF TInv, TypeOK
  <2>4. reader' = IF pending[Table(f)][f.id] = None THEN NoReader
                  ELSE [pc |-> "send", call |-> pending[Table(f)][f.id], kind |-> Table(f), frame |-> f]
    BY <1>1 DEF Read
  <2>. HIDE DEF f
  <2>5. reader' = NoReader \/ reader' \in [pc : {"send"}, call : Calls, kind : Kinds, frame : Frames]
    BY <2>1, <2>2, <2>3, <2>4
  <2>6. UNCHANGED <<call, pending, chan, closed, nextId, link, down, drops, agent>> /\ up' = Tail(up)
    BY <1>1 DEF Read
  <2>7. \A c \in Calls : KindOK(c)'
    BY <2>6 DEF KindOK, TInv
  <2>8. NoReader' = NoReader
    BY DEF NoReader
  <2>. QED
    BY <2>1, <2>5, <2>6, <2>7, <2>8 DEF TInv, TypeOK, agent
<1>2. CASE Push \/ PushResult
  <2>1. reader \in [pc : {"send"}, call : Calls, kind : Kinds, frame : Frames]
    BY <1>0, <1>2 DEF Push, PushResult, NoReader
  <2>2. chan \in [Calls -> [Kinds -> Seq(Frames)]] /\ reader.frame \in Frames /\ reader.call \in Calls
        /\ reader.kind \in Kinds
    BY <2>1 DEF TInv, TypeOK
  <2>3. /\ chan' \in [Calls -> [Kinds -> Seq(Frames)]]
        /\ \A c \in Calls, k \in Kinds : Len(chan'[c][k]) <= Capacity(k)
    <3>1. CASE chan' = chan
      BY <3>1, <2>2 DEF TInv, TypeOK
    <3>2. CASE ~Full /\ Deliver
      <4>. DEFINE ch == chan[reader.call][reader.kind]
      <4>1. ch \in Seq(Frames) /\ Append(ch, reader.frame) \in Seq(Frames)
            /\ Len(Append(ch, reader.frame)) = Len(ch) + 1 /\ Len(ch) \in Nat
            /\ ~(Len(ch) >= Capacity(reader.kind))
        BY <2>2, <3>2 DEF Full
      <4>2. chan' = [chan EXCEPT ![reader.call][reader.kind] = Append(@, reader.frame)]
        BY <3>2 DEF Deliver
      <4>. HIDE DEF Frames
      <4>3. chan' \in [Calls -> [Kinds -> Seq(Frames)]]
        BY <2>2, <4>1, <4>2
      <4>4. ASSUME NEW c \in Calls, NEW k \in Kinds PROVE Len(chan'[c][k]) <= Capacity(k)
        <5>1. Len(chan[c][k]) <= Capacity(k) /\ Capacity(k) \in Nat
          BY Disjoint DEF TInv, TypeOK, Capacity
        <5>2. CASE c = reader.call /\ k = reader.kind
          <6>1. chan'[c][k] = Append(ch, reader.frame)
            BY <2>2, <4>2, <5>2
          <6>. HIDE DEF ch
          <6>. QED
            BY <4>1, <5>1, <5>2, <6>1
        <5>3. CASE ~(c = reader.call /\ k = reader.kind)
          <6>1. chan'[c][k] = chan[c][k]
            BY <2>2, <4>2, <5>3
          <6>. QED
            BY <5>1, <6>1
        <5>. QED
          BY <5>2, <5>3
      <4>. QED
        BY <4>3, <4>4
    <3>. QED
      BY <1>2, <3>1, <3>2 DEF Push, PushResult
  <2>4. UNCHANGED <<call, pending, closed, nextId, wire, agent>> /\ reader' = NoReader
    BY <1>2 DEF Push, PushResult
  <2>5. \A c \in Calls : KindOK(c)'
    BY <2>4 DEF KindOK, TInv
  <2>. QED
    BY <2>3, <2>4, <2>5 DEF TInv, TypeOK, wire, agent, NoReader
<1>3. CASE Panic
  <2>1. call' \in [Calls -> CallStates]
    <3>1. \A rec \in CallStates : [rec EXCEPT !.pc = "gone"] \in CallStates
      BY DEF CallStates, Ended
    <3>2. call \in [Calls -> CallStates]
      BY DEF TInv, TypeOK
    <3>. QED
      BY <1>3, <3>1, <3>2 DEF Panic
  <2>2. \A c \in Calls : KindOK(c)'
    BY <1>3 DEF Panic, TInv, TypeOK, KindOK, CallStates
  <2>3. \A k \in Kinds : Capacity(k) \in Nat
    BY Disjoint DEF Capacity
  <2>4. /\ chan' \in [Calls -> [Kinds -> Seq(Frames)]]
        /\ \A c \in Calls, k \in Kinds : Len(chan'[c][k]) <= Capacity(k)
    BY <1>3, <2>3 DEF Panic
  <2>5. pending' \in [Kinds -> [Ids -> Calls \cup {None}]]
    BY <1>3 DEF Panic
  <2>6. /\ reader' = NoReader /\ link' = FALSE /\ down' = {} /\ up' = <<>>
        /\ UNCHANGED <<closed, nextId, drops, agent>>
    BY <1>3 DEF Panic
  <2>7. NoReader' = NoReader /\ <<>> \in Seq(Frames)
    BY DEF NoReader
  <2>. QED
    BY <2>1, <2>2, <2>4, <2>5, <2>6, <2>7 DEF TInv, TypeOK, agent
<1>. QED
  BY <1>1, <1>2, <1>3 DEF ReadLoop

Requests == [id : Ids, of : Calls, kind : Kinds]
Jobs == [id : Ids, says : {"ok", "refused"}, run : Nat \ {0}, line : 0..Lines]

LEMMA EmitType ==
  ASSUME TInv, NEW f \in Frames, Emit(f)
  PROVE  up' \in Seq(Frames) /\ up' \in {up, Append(up, f)}
<1>1. up \in Seq(Frames)
  BY DEF TInv, TypeOK
<1>. HIDE DEF Frames
<1>. QED
  BY <1>1 DEF Emit

\* What the agent does with a request, and with a stream that it started.
LEMMA AnswersShape ==
  ASSUME TInv, AgentAnswers
  PROVE  \E r \in down, says \in {"ok", "refused"}, type \in {"reply", "result"}, error \in BOOLEAN :
           LET f == [id |-> r.id, type |-> type, line |-> <<>>, says |-> says,
                      error |-> error] IN
            /\ r \in Requests /\ r.kind # "stream" /\ down' = down \ {r}
            /\ Ran(r.of, {says}) /\ Emit(f) /\ f \in Frames
            /\ UNCHANGED <<master, link, drops, jobs>>
<1>1. PICK r \in down, says \in {"ok", "refused"}, error \in BOOLEAN :
        /\ r.kind # "stream"
        /\ down' = down \ {r}
        /\ Ran(r.of, {says})
        /\ Emit(Frame(r, IF r.kind = "probe" THEN "result" ELSE "reply", <<>>, says, error))
        /\ UNCHANGED <<master, link, drops, jobs>>
  BY DEF AgentAnswers
<1>2. r \in Requests
  BY DEF TInv, TypeOK, Requests
<1>. DEFINE type == IF r.kind = "probe" THEN "result" ELSE "reply"
<1>3. type \in {"reply", "result"}
  OBVIOUS
<1>. HIDE DEF type
<1>4. Frame(r, type, <<>>, says, error) = [id |-> r.id, type |-> type, line |-> <<>>, says |-> says,
                      error |-> error]
      /\ Frame(r, type, <<>>, says, error) \in Frames
  BY <1>2, <1>3 DEF Frame, Frames, Requests
<1>5. Emit(Frame(r, type, <<>>, says, error))
  BY <1>1 DEF type
<1>. QED
  BY <1>1, <1>2, <1>3, <1>4, <1>5

LEMMA StartsShape ==
  ASSUME TInv, AgentStarts
  PROVE  \E r \in down, says \in {"ok", "refused"} :
           LET j == [id |-> r.id, says |-> says, run |-> runs[r.of].n + 1, line |-> 0] IN
            /\ r \in Requests /\ r.kind = "stream" /\ down' = down \ {r}
            /\ Ran(r.of, {says}) /\ jobs' = jobs \cup {j} /\ j \in Jobs
            /\ UNCHANGED <<master, link, up, drops>>
<1>1. PICK r \in down, says \in {"ok", "refused"} :
        /\ r.kind = "stream"
        /\ down' = down \ {r}
        /\ Ran(r.of, {says})
        /\ jobs' = jobs \cup {[id |-> r.id, says |-> says, run |-> runs[r.of].n + 1, line |-> 0]}
        /\ UNCHANGED <<master, link, up, drops>>
  BY DEF AgentStarts
<1>2. r \in Requests
  BY DEF TInv, TypeOK, Requests
<1>3. runs[r.of].n \in Nat
  BY <1>2 DEF TInv, TypeOK, Requests
<1>4. [id |-> r.id, says |-> says, run |-> runs[r.of].n + 1, line |-> 0] \in Jobs
  BY <1>2, <1>3, Disjoint DEF Jobs, Requests
<1>. QED
  BY <1>1, <1>2, <1>4

LEMMA WritesShape ==
  ASSUME TInv, AgentWrites
  PROVE  \E j \in jobs :
           LET f == [id |-> j.id, type |-> "data", line |-> <<j.run, j.line + 1>>, says |-> "ok",
                      error |-> FALSE]
               k == [id |-> j.id, says |-> j.says, run |-> j.run, line |-> j.line + 1]
           IN
            /\ j \in Jobs /\ k \in Jobs /\ f \in Frames
            /\ Emit(f) /\ jobs' = (jobs \ {j}) \cup {k}
            /\ UNCHANGED <<master, link, down, drops, runs>>
<1>1. PICK j \in jobs :
        /\ j.line < Lines
        /\ Emit(Frame(j, "data", <<j.run, j.line + 1>>, "ok", FALSE))
        /\ jobs' = (jobs \ {j}) \cup {[j EXCEPT !.line = @ + 1]}
        /\ UNCHANGED <<master, link, down, drops, runs>>
  BY DEF AgentWrites
<1>2. j \in Jobs /\ j.run \in Nat /\ j.line + 1 \in 1..Lines /\ j.id \in Ids
  BY <1>1, Disjoint DEF TInv, TypeOK, Jobs
<1>3. [j EXCEPT !.line = @ + 1] = [id |-> j.id, says |-> j.says, run |-> j.run, line |-> j.line + 1]
  BY <1>2 DEF Jobs
<1>4. [id |-> j.id, says |-> j.says, run |-> j.run, line |-> j.line + 1] \in Jobs
  BY <1>2, Disjoint DEF Jobs
<1>5. [id |-> j.id, type |-> "data", line |-> <<j.run, j.line + 1>>, says |-> "ok",
                      error |-> FALSE] \in Frames
  BY <1>2 DEF Frames
<1>6. Frame(j, "data", <<j.run, j.line + 1>>, "ok", FALSE)
        = [id |-> j.id, type |-> "data", line |-> <<j.run, j.line + 1>>, says |-> "ok",
                      error |-> FALSE]
  BY DEF Frame
<1>. QED
  BY <1>1, <1>2, <1>3, <1>4, <1>5, <1>6

LEMMA EndsShape ==
  ASSUME TInv, AgentEnds
  PROVE  \E j \in jobs :
           LET f == [id |-> j.id, type |-> "reply", line |-> <<>>, says |-> j.says,
                      error |-> FALSE] IN
            /\ j \in Jobs /\ f \in Frames /\ Emit(f) /\ jobs' = jobs \ {j}
            /\ UNCHANGED <<master, link, down, drops, runs>>
<1>1. PICK j \in jobs :
        /\ Emit(Frame(j, "reply", <<>>, j.says, FALSE))
        /\ jobs' = jobs \ {j}
        /\ UNCHANGED <<master, link, down, drops, runs>>
  BY DEF AgentEnds
<1>2. j \in Jobs
  BY DEF TInv, TypeOK, Jobs
<1>3. [id |-> j.id, type |-> "reply", line |-> <<>>, says |-> j.says,
                      error |-> FALSE] \in Frames
  BY <1>2 DEF Frames, Jobs
<1>. QED
  BY <1>1, <1>2, <1>3 DEF Frame

LEMMA SameMaster ==
  ASSUME TInv, UNCHANGED master
  PROVE  /\ call' = call /\ pending' = pending /\ chan' = chan /\ closed' = closed
         /\ nextId' = nextId /\ reader' = reader
         /\ \A c \in Calls : KindOK(c)'
  BY DEF master, TInv, KindOK

LEMMA AgentTypes ==
  ASSUME TInv, Agent
  PROVE  TInv'
<1>1. CASE AgentAnswers
  <2>1. PICK r \in down, says \in {"ok", "refused"}, f \in Frames :
            /\ r \in Requests /\ down' = down \ {r}
            /\ Ran(r.of, {says}) /\ Emit(f)
            /\ UNCHANGED <<master, link, drops, jobs>>
    BY <1>1, AnswersShape
  <2>2. runs' \in [Calls -> [n : Nat, said : SUBSET {"ok", "refused"}]]
    BY <2>1, RunsType DEF Requests
  <2>3. up' \in Seq(Frames)
    BY <2>1, EmitType
  <2>4. UNCHANGED <<master, link, drops, jobs>> /\ down' \subseteq down
    BY <2>1
  <2>. QED
    BY <2>2, <2>3, <2>4, SameMaster DEF TInv, TypeOK, NoReader
<1>2. CASE AgentStarts
  <2>1. PICK r \in down, says \in {"ok", "refused"}, j \in Jobs :
            /\ r \in Requests /\ down' = down \ {r}
            /\ Ran(r.of, {says}) /\ jobs' = jobs \cup {j}
            /\ UNCHANGED <<master, link, up, drops>>
    BY <1>2, StartsShape
  <2>2. runs' \in [Calls -> [n : Nat, said : SUBSET {"ok", "refused"}]]
    BY <2>1, RunsType DEF Requests
  <2>3. jobs' \subseteq Jobs
    BY <2>1 DEF TInv, TypeOK, Jobs
  <2>4. UNCHANGED <<master, link, up, drops>> /\ down' \subseteq down
    BY <2>1
  <2>. QED
    BY <2>2, <2>3, <2>4, SameMaster DEF TInv, TypeOK, NoReader, Jobs
<1>3. CASE AgentWrites \/ AgentEnds
  <2>1. PICK f \in Frames : Emit(f) /\ jobs' \subseteq Jobs /\ UNCHANGED <<master, link, down, drops, runs>>
    <3>1. CASE AgentWrites
      <4>1. PICK j \in jobs, k \in Jobs, f \in Frames :
              Emit(f) /\ jobs' = (jobs \ {j}) \cup {k} /\ UNCHANGED <<master, link, down, drops, runs>>
        BY <3>1, WritesShape
      <4>2. jobs' \subseteq Jobs
        BY <4>1 DEF TInv, TypeOK, Jobs
      <4>. QED
        BY <4>1, <4>2
    <3>2. CASE AgentEnds
      <4>1. PICK j \in jobs, f \in Frames :
              Emit(f) /\ jobs' = jobs \ {j} /\ UNCHANGED <<master, link, down, drops, runs>>
        BY <3>2, EndsShape
      <4>2. jobs' \subseteq Jobs
        BY <4>1 DEF TInv, TypeOK, Jobs
      <4>. QED
        BY <4>1, <4>2
    <3>. QED
      BY <1>3, <3>1, <3>2
  <2>2. up' \in Seq(Frames)
    BY <2>1, EmitType
  <2>. QED
    BY <2>1, <2>2, SameMaster DEF TInv, TypeOK, NoReader, Jobs
<1>. QED
  BY <1>1, <1>2, <1>3 DEF Agent

LEMMA NetTypes ==
  ASSUME TInv, Drop \/ Reconnect
  PROVE  TInv'
<1>1. UNCHANGED master /\ UNCHANGED agent
  BY DEF Drop, Reconnect
<1>2. link' \in BOOLEAN /\ drops' \in 0..MaxDrops /\ down' \subseteq down /\ up' \in Seq(Frames)
  <2>1. CASE Drop
    <3>1. link' = FALSE /\ down' = {} /\ up' = <<>> /\ drops' = drops + 1 /\ drops < MaxDrops
      BY <2>1 DEF Drop
    <3>2. drops \in 0..MaxDrops /\ MaxDrops \in Nat
      BY Disjoint DEF TInv, TypeOK
    <3>3. drops' \in 0..MaxDrops
      BY <3>1, <3>2
    <3>4. <<>> \in Seq(Frames)
      OBVIOUS
    <3>5. up' \in Seq(Frames)
      BY <3>1, <3>4
    <3>6. down' \subseteq down /\ link' \in BOOLEAN
      BY <3>1
    <3>. QED
      BY <3>3, <3>5, <3>6
  <2>2. CASE Reconnect
    BY <2>2 DEF Reconnect, TInv, TypeOK
  <2>. QED
    BY <2>1, <2>2
<1>. QED
  BY <1>1, <1>2, SameMaster DEF TInv, TypeOK, NoReader, agent

LEMMA NextTInv == TInv /\ [Next]_vars => TInv'
<1>. SUFFICES ASSUME TInv, [Next]_vars PROVE TInv'
  OBVIOUS
<1>1. CASE UNCHANGED vars
  BY <1>1 DEF TInv, TypeOK, KindOK, NoReader, vars, master, wire, agent
<1>2. ASSUME NEW c \in Calls, Begin(c) \/ Step(c) \/ Cancel(c) PROVE TInv'
  BY <1>2, BeginTypes, TakeTypes, GiveUpTypes, HttpTypes, CancelTypes DEF Step
<1>. QED
  BY <1>1, <1>2, ReaderTypes, AgentTypes, NetTypes DEF Next

\* Every call, frame and table stays of its type, and no channel ever holds more
\* than its capacity, for any number of calls and frames (routeRPCReply,
\* routeRPCStreamData).
THEOREM TypeCorrect == Spec => []TypeOK
<1>1. TInv => TypeOK
  BY DEF TInv
<1>. QED
  BY <1>1, InitTInv, NextTInv, PTL DEF Spec

-----------------------------------------------------------------------------
(* Requests and answers.  An id belongs to one request of one call, and what *)
(* arrives at a call answers the request that it waits for.                  *)

Waiting(c) == call[c].pc = "wait"

\* The first send of a call in this form is behind it.
Started(c, k) ==
    IF call[c].kind = k THEN call[c].pc \notin {"unused", "idle"}
    ELSE k = "probe" /\ c \in Probes /\ call[c].kind = "rpc" /\ call[c].pc # "unused"

\* The frames that have reached the goroutine, or the hand of the read loop, and
\* those that have left the agent.
Reading(c, k) == reader.pc = "send" /\ reader.call = c /\ reader.kind = k
Held(c, k) == {chan[c][k][n] : n \in 1..Len(chan[c][k])}
                 \cup (IF Reading(c, k) THEN {reader.frame} ELSE {})
OnWire == {up[n] : n \in 1..Len(up)}

WaitOK(c) ==
    Waiting(c) => call[c].id \in 1..nextId /\ pending[call[c].kind][call[c].id] = c
PendingOK ==
    \A k \in Kinds, i \in Ids : pending[k][i] # None =>
        /\ Waiting(pending[k][i])
        /\ call[pending[k][i]].kind = k /\ call[pending[k][i]].id = i
OneEach == \A c, d \in Calls : Waiting(c) /\ Waiting(d) /\ call[c].id = call[d].id => c = d

\* Until a request is executed no frame has its id.
Unseen(i) ==
    /\ \A j \in jobs : j.id # i
    /\ \A f \in OnWire : f.id # i
    /\ \A c \in Calls, k \in Kinds : \A f \in Held(c, k) : f.id # i
RequestOK(r) ==
    /\ r.id <= nextId /\ Unseen(r.id)
    /\ Started(r.of, r.kind)
    /\ Waiting(r.of) /\ call[r.of].kind = r.kind => call[r.of].id = r.id
    /\ \A c \in Calls : Waiting(c) /\ call[c].id = r.id => c = r.of /\ call[c].kind = r.kind
    /\ \A s \in down : s.id = r.id \/ (s.of = r.of /\ s.kind = r.kind) => s = r

\* An answer says what an execution of the call said.
Said(x) == \A c \in Calls : Waiting(c) /\ call[c].id = x.id => x.says \in runs[c].said
JobsOK == /\ \A j \in jobs : j.id <= nextId /\ Said(j)
          /\ \A j, l \in jobs : j.id = l.id => j = l
WireOK == \A f \in OnWire : f.id <= nextId /\ (f.type # "data" => Said(f))
HeldOK(c, k) ==
    \A f \in Held(c, k) :
        /\ f.id <= nextId /\ Started(c, k)
        /\ Waiting(c) /\ call[c].kind = k => f.id = call[c].id
        /\ IF f.type = "data" THEN k = "stream" ELSE f.says \in runs[c].said

FInv ==
    /\ \A c \in Calls : WaitOK(c)
    /\ PendingOK /\ OneEach /\ JobsOK /\ WireOK
    /\ \A r \in down : RequestOK(r)
    /\ \A c \in Calls, k \in Kinds : HeldOK(c, k)

\* No frame that is still to be seen belongs to a request that was not executed.
Executed(i) == i <= nextId /\ \A r \in down' : r.id # i
NowSaid(x) == \A c \in Calls : Waiting(c) /\ call[c].id = x.id => x.says \in runs'[c].said

\* A step that sends no request keeps all this if what is new on the wire, and
\* what is new in a channel, comes from where it should.
LEMMA Flow ==
  ASSUME TInv, FInv, nextId' = nextId, down' \subseteq down,
         \A c \in Calls : Waiting(c)' =>
             /\ Waiting(c) /\ call'[c].id = call[c].id /\ call'[c].kind = call[c].kind
             /\ pending'[call[c].kind][call[c].id] = c,
         \A c \in Calls, k \in Kinds : Started(c, k) => Started(c, k)',
         \A k \in Kinds, i \in Ids : pending'[k][i] # None =>
             pending'[k][i] = pending[k][i] /\ Waiting(pending[k][i])',
         \A c \in Calls : runs[c].said \subseteq runs'[c].said,
         \A c \in Calls, k \in Kinds : \A f \in Held(c, k)' :
             \/ f \in Held(c, k)
             \/ /\ f \in OnWire /\ f.id \in Ids /\ pending[k][f.id] = c
                /\ f.type = "data" => k = "stream",
         \A f \in OnWire' : f \in OnWire \/ (Executed(f.id) /\ (f.type # "data" => NowSaid(f))),
         \A j \in jobs' : \/ \E l \in jobs : l.id = j.id /\ l.says = j.says
                          \/ Executed(j.id) /\ NowSaid(j),
         \A j, l \in jobs' : j.id = l.id => j = l
  PROVE  FInv'
<1>0. \A r \in down : r.of \in Calls /\ r.kind \in Kinds /\ r.id \in Ids
  BY DEF TInv, TypeOK
<1>n. None \notin Calls
  BY Disjoint
<1>w. \A c \in Calls : Waiting(c)' => call'[c] # call[c] \/ Waiting(c)
  OBVIOUS
<1>a. \A x : Said(x) => NowSaid(x)
  BY DEF Said, NowSaid
<1>b. \A x : NowSaid(x) => Said(x)'
  BY DEF Said, NowSaid
<1>1. \A c \in Calls : WaitOK(c)'
  BY DEF FInv, WaitOK
<1>2. PendingOK'
  <2>. SUFFICES ASSUME NEW k \in Kinds, NEW i \in Ids, pending'[k][i] # None
                PROVE  Waiting(pending[k][i])' /\ call'[pending[k][i]].kind = k /\ call'[pending[k][i]].id = i
    BY DEF PendingOK
  <2>1. pending[k][i] \in Calls
    BY <1>n DEF TInv, TypeOK
  <2>. QED
    BY <2>1 DEF FInv, PendingOK
<1>3. OneEach'
  BY DEF FInv, OneEach
<1>4. \A f \in OnWire' : f.id <= nextId /\ (f.type # "data" => NowSaid(f)) /\ \A r \in down' : r.id # f.id
  BY <1>a DEF FInv, WireOK, RequestOK, Unseen, Executed
<1>5. WireOK'
  BY <1>4, <1>b DEF WireOK
<1>6. \A j \in jobs' : j.id <= nextId /\ NowSaid(j) /\ \A r \in down' : r.id # j.id
  <2>. SUFFICES ASSUME NEW j \in jobs', NEW l \in jobs, l.id = j.id, l.says = j.says
                PROVE  j.id <= nextId /\ NowSaid(j) /\ \A r \in down' : r.id # j.id
    BY DEF Executed
  <2>1. l.id <= nextId /\ Said(l) /\ \A r \in down : r.id # l.id
    BY DEF FInv, JobsOK, RequestOK, Unseen
  <2>. QED
    BY <2>1 DEF Said, NowSaid
<1>7. JobsOK'
  BY <1>6, <1>b DEF JobsOK
<1>8. ASSUME NEW c \in Calls, NEW k \in Kinds, NEW f \in Held(c, k)'
      PROVE  /\ f.id <= nextId /\ Started(c, k)
             /\ Waiting(c) /\ call[c].kind = k => f.id = call[c].id
             /\ IF f.type = "data" THEN k = "stream" ELSE f.says \in runs[c].said
             /\ \A r \in down' : r.id # f.id
  <2>1. CASE f \in Held(c, k)
    BY <2>1 DEF FInv, HeldOK, RequestOK, Unseen
  <2>2. CASE f \in OnWire /\ f.id \in Ids /\ pending[k][f.id] = c /\ (f.type = "data" => k = "stream")
    <3>1. Waiting(c) /\ call[c].kind = k /\ call[c].id = f.id
      BY <1>n, <2>2 DEF FInv, PendingOK
    <3>2. Started(c, k)
      BY <3>1 DEF Started, Waiting
    <3>3. f.id <= nextId /\ (f.type # "data" => f.says \in runs[c].said)
      BY <2>2, <3>1 DEF FInv, WireOK, Said
    <3>4. \A r \in down' : r.id # f.id
      BY <2>2 DEF FInv, RequestOK, Unseen
    <3>. QED
      BY <2>2, <3>1, <3>2, <3>3, <3>4
  <2>. QED
    BY <2>1, <2>2
<1>9. \A c \in Calls, k \in Kinds : HeldOK(c, k)'
  BY <1>8 DEF HeldOK
<1>10. ASSUME NEW r \in down' PROVE RequestOK(r)'
  <2>1. r \in down /\ RequestOK(r) /\ r.of \in Calls /\ r.kind \in Kinds
    BY <1>0 DEF FInv
  <2>2. Unseen(r.id)'
    BY <1>4, <1>6, <1>8 DEF Unseen
  <2>. QED
    BY <2>1, <2>2 DEF RequestOK
<1>. QED
  BY <1>1, <1>2, <1>3, <1>5, <1>7, <1>9, <1>10 DEF FInv

LEMMA InitFInv == Init => FInv
<1>. SUFFICES ASSUME Init PROVE FInv
  OBVIOUS
<1>1. \A c \in Calls : call[c].pc \in {"idle", "unused"}
  BY DEF Init
<1>2. \A c \in Calls, k \in Kinds : Held(c, k) = {}
  BY DEF Init, Held, Reading, NoReader
<1>3. OnWire = {}
  BY DEF Init, OnWire
<1>4. \A k \in Kinds, i \in Ids : pending[k][i] = None
  BY DEF Init
<1>. QED
  BY <1>1, <1>2, <1>3, <1>4 DEF Init, FInv, WaitOK, PendingOK, OneEach, JobsOK, WireOK, HeldOK, Waiting

-----------------------------------------------------------------------------
(* The ways out of a select.                                                 *)

\* A goroutine stops waiting.
Over(c) == \/ TakeReply(c) \/ TakeResult(c) \/ TakeEnd(c) \/ GiveUp(c)
           \/ TakeData(c) /\ Forget(c) /\ Leave(c, [call[c] EXCEPT !.pc = "failed", !.heard = TRUE])
\* It copies a line to the browser and goes on.
Copies(c) == /\ TakeData(c) /\ Take(c) /\ UNCHANGED <<pending, closed>>
             /\ Set(c, [call[c] EXCEPT !.out = Append(@, Head(Arrived(c)).line), !.heard = TRUE])

LEMMA OverOrCopies == ASSUME NEW c PROVE Answer(c) \/ GiveUp(c) => Over(c) \/ Copies(c)
  BY DEF Answer, Over, Copies, TakeData

LEMMA LeaveFields ==
  ASSUME TInv, NEW c \in Calls, NEW rec \in CallStates, Leave(c, rec)
  PROVE  /\ \A d \in Calls \ {c} : call'[d] = call[d]
         /\ call'[c].pc = rec.pc /\ call'[c].kind = rec.kind /\ call'[c].left = rec.left
         /\ call'[c].heard = rec.heard /\ call'[c].out = rec.out
<1>. DEFINE new == [rec EXCEPT !.id = 0]
<1>1. /\ new.pc = rec.pc /\ new.kind = rec.kind /\ new.left = rec.left
      /\ new.heard = rec.heard /\ new.out = rec.out
  BY DEF CallStates
<1>2. call' = [call EXCEPT ![c] = new] /\ call \in [Calls -> CallStates]
  BY DEF Leave, Set, TInv, TypeOK
<1>. HIDE DEF new
<1>. QED
  BY <1>1, <1>2

\* What a call that stops waiting becomes, and why.
Outcomes(c) ==
    LET old == call[c]
        new == call'[c]
        frames == Held(c, old.kind)
    IN
    /\ new.out = old.out /\ new.left \in 0..Addresses
    /\ \/ new.pc = "idle" /\ new.kind = "rpc" /\ old.kind = "probe" /\ new.heard = old.heard
       \/ new.pc = "http" /\ new.kind = old.kind /\ old.kind # "probe" /\ new.heard = old.heard /\ old.out = <<>>
       \/ new.pc = "failed" /\ new.kind = old.kind /\ (new.heard = old.heard \/ frames # {})
       \/ new.pc = "ended" /\ new.kind = old.kind /\ \E f \in frames : f.type # "data"
       \/ /\ new.pc \in {"ok", "refused"} /\ new.kind = old.kind
          /\ \E f \in frames : f.type # "data" /\ f.says = new.pc

LEMMA HeadHeld ==
  ASSUME TInv, NEW c \in Calls, Arrived(c) # <<>>
  PROVE  Head(Arrived(c)) \in Held(c, call[c].kind)
<1>1. Head(Arrived(c)) = Arrived(c)[1] /\ Len(Arrived(c)) > 0
  BY HeadFrame
<1>t. Arrived(c) \in Seq(Frames)
  <2>1. chan \in [Calls -> [Kinds -> Seq(Frames)]] /\ call[c].kind \in Kinds
    BY DEF TInv, TypeOK, CallStates
  <2>. HIDE DEF Frames
  <2>. QED
    BY <2>1 DEF Arrived
<1>2. 1 \in 1..Len(Arrived(c))
  BY <1>1, <1>t
<1>. QED
  BY <1>1, <1>2 DEF Held, Arrived

LEMMA OverShape ==
  ASSUME TInv, FInv, NEW c \in Calls, Over(c)
  PROVE  /\ Waiting(c) /\ Forget(c) /\ Outcomes(c)
         /\ \A d \in Calls \ {c} : call'[d] = call[d]
         /\ UNCHANGED <<nextId, reader, wire, agent>>
<1>0. call[c] \in CallStates /\ KindOK(c) /\ call[c].kind \in Kinds
  BY DEF TInv, TypeOK, CallStates
<1>u. UNCHANGED <<nextId, reader, wire, agent>>
  BY DEF Over, TakeReply, TakeResult, TakeEnd, GiveUp, TakeData
<1>f. Forget(c)
  BY DEF Over, TakeReply, TakeResult, TakeEnd, GiveUp, TakeData
<1>w. Waiting(c)
  BY DEF Over, TakeReply, TakeResult, TakeEnd, GiveUp, TakeData, Waits, Waiting
<1>. DEFINE h == Head(Arrived(c))
<1>h. Arrived(c) # <<>> => /\ h \in Held(c, call[c].kind) /\ h.says \in {"ok", "refused"}
                           /\ h.type = "data" => call[c].kind = "stream"
  BY <1>0, HeadFrame, HeadHeld DEF FInv, HeldOK
<1>. DEFINE Same == \A d \in Calls \ {c} : call'[d] = call[d]
<1>1. ASSUME TakeReply(c) PROVE Same /\ Outcomes(c)
  <2>. DEFINE rec == [call[c] EXCEPT !.pc = h.says, !.heard = TRUE]
  <2>1. Leave(c, rec) /\ Arrived(c) # <<>> /\ call[c].kind = "rpc"
    BY <1>1 DEF TakeReply, Waits
  <2>2. rec \in CallStates /\ rec.kind = call[c].kind /\ rec.pc = h.says /\ rec.out = call[c].out
        /\ rec.left \in 0..Addresses
    BY <1>0, <1>h, <2>1 DEF CallStates, Ended
  <2>. HIDE DEF rec, h
  <2>3. h \in Held(c, call[c].kind) /\ h.type # "data"
    BY <1>h, <2>1
  <2>. QED
    BY <1>h, <2>1, <2>2, <2>3, LeaveFields DEF Outcomes
<1>2. ASSUME TakeResult(c) PROVE Same /\ Outcomes(c)
  <2>0. Arrived(c) # <<>> /\ call[c].kind = "probe"
    BY <1>2 DEF TakeResult, Waits
  <2>1. CASE h.says = "ok"
    <3>. DEFINE rec == [call[c] EXCEPT !.pc = "ok"]
    <3>1. Leave(c, rec)
      BY <1>2, <2>1 DEF TakeResult
    <3>2. rec \in CallStates /\ rec.kind = call[c].kind /\ rec.pc = "ok" /\ rec.out = call[c].out
          /\ rec.left \in 0..Addresses
      BY <1>0 DEF CallStates, Ended
    <3>. HIDE DEF rec, h
    <3>3. h \in Held(c, call[c].kind) /\ h.type # "data"
      BY <1>h, <2>0
    <3>. QED
      BY <2>1, <3>1, <3>2, <3>3, LeaveFields DEF Outcomes
  <2>2. CASE h.says # "ok"
    <3>. DEFINE rec == [call[c] EXCEPT !.pc = "idle", !.kind = "rpc"]
    <3>1. Leave(c, rec)
      BY <1>2, <2>2 DEF TakeResult
    <3>2. rec \in CallStates /\ rec.kind = "rpc" /\ rec.pc = "idle" /\ rec.out = call[c].out
          /\ rec.left \in 0..Addresses /\ rec.heard = call[c].heard
      BY <1>0 DEF CallStates, Kinds
    <3>. HIDE DEF rec, h
    <3>. QED
      BY <2>0, <3>1, <3>2, LeaveFields DEF Outcomes
  <2>. QED
    BY <2>1, <2>2
<1>3. ASSUME TakeEnd(c) PROVE Same /\ Outcomes(c)
  <2>. DEFINE pc == IF call[c].out = <<>> THEN h.says ELSE "ended"
              rec == [call[c] EXCEPT !.heard = TRUE, !.pc = pc]
  <2>1. Leave(c, rec) /\ Arrived(c) # <<>> /\ h.type # "data"
    BY <1>3 DEF TakeEnd
  <2>2. pc \in {h.says, "ended"}
    OBVIOUS
  <2>. HIDE DEF pc
  <2>3. rec \in CallStates /\ rec.kind = call[c].kind /\ rec.pc = pc /\ rec.out = call[c].out
        /\ rec.left \in 0..Addresses
    BY <1>0, <1>h, <2>1, <2>2 DEF CallStates, Ended
  <2>. HIDE DEF rec, h
  <2>. QED
    BY <1>h, <2>1, <2>2, <2>3, LeaveFields DEF Outcomes
<1>4. ASSUME TakeData(c), Leave(c, [call[c] EXCEPT !.pc = "failed", !.heard = TRUE]) PROVE Same /\ Outcomes(c)
  <2>. DEFINE rec == [call[c] EXCEPT !.pc = "failed", !.heard = TRUE]
  <2>1. Leave(c, rec) /\ Arrived(c) # <<>>
    BY <1>4 DEF TakeData
  <2>2. rec \in CallStates /\ rec.kind = call[c].kind /\ rec.pc = "failed" /\ rec.out = call[c].out
        /\ rec.left \in 0..Addresses
    BY <1>0 DEF CallStates, Ended
  <2>. HIDE DEF rec, h
  <2>. QED
    BY <1>h, <2>1, <2>2, LeaveFields DEF Outcomes
<1>5. ASSUME GiveUp(c) PROVE Same /\ Outcomes(c)
  <2>1. CASE call[c].kind = "probe"
    <3>. DEFINE rec == [call[c] EXCEPT !.pc = "idle", !.kind = "rpc"]
    <3>1. Leave(c, rec)
      BY <1>5, <2>1 DEF GiveUp
    <3>2. rec \in CallStates /\ rec.kind = "rpc" /\ rec.pc = "idle" /\ rec.out = call[c].out
          /\ rec.left \in 0..Addresses /\ rec.heard = call[c].heard
      BY <1>0 DEF CallStates, Kinds
    <3>. HIDE DEF rec, h
    <3>. QED
      BY <2>1, <3>1, <3>2, LeaveFields DEF Outcomes
  <2>2. CASE call[c].kind # "probe" /\ MayFallBack(c)
    <3>. DEFINE pc(n) == IF n = 0 THEN "failed" ELSE "http"
                rec(n) == [call[c] EXCEPT !.pc = pc(n), !.left = n]
    <3>1. PICK n \in 0..Addresses : Leave(c, rec(n))
      BY <1>5, <2>2 DEF GiveUp, Fallback
    <3>2. pc(n) \in {"http", "failed"}
      OBVIOUS
    <3>. HIDE DEF pc
    <3>3. rec(n) \in CallStates /\ rec(n).kind = call[c].kind /\ rec(n).pc = pc(n)
          /\ rec(n).out = call[c].out /\ rec(n).left = n /\ rec(n).heard = call[c].heard
      BY <1>0, <3>2 DEF CallStates, Ended
    <3>. HIDE DEF rec, h
    <3>. QED
      BY <2>2, <3>1, <3>2, <3>3, LeaveFields DEF Outcomes, MayFallBack
  <2>3. CASE call[c].kind # "probe" /\ ~MayFallBack(c)
    <3>. DEFINE rec == [call[c] EXCEPT !.pc = "failed"]
    <3>1. Leave(c, rec)
      BY <1>5, <2>3 DEF GiveUp
    <3>2. rec \in CallStates /\ rec.kind = call[c].kind /\ rec.pc = "failed" /\ rec.out = call[c].out
          /\ rec.left \in 0..Addresses /\ rec.heard = call[c].heard
      BY <1>0 DEF CallStates, Ended
    <3>. HIDE DEF rec, h
    <3>. QED
      BY <2>3, <3>1, <3>2, LeaveFields DEF Outcomes
  <2>. QED
    BY <2>1, <2>2, <2>3
<1>. QED
  BY <1>u, <1>f, <1>w, <1>1, <1>2, <1>3, <1>4, <1>5 DEF Over

-----------------------------------------------------------------------------
(* Every step keeps requests and answers together.                           *)

LEMMA HeldFrames ==
  ASSUME TInv
  PROVE  /\ \A c \in Calls, k \in Kinds : Held(c, k) \subseteq Frames
         /\ OnWire \subseteq Frames
<1>1. chan \in [Calls -> [Kinds -> Seq(Frames)]] /\ up \in Seq(Frames)
  BY DEF TInv, TypeOK
<1>2. reader.pc = "send" => reader.frame \in Frames
  BY DEF TInv, TypeOK, NoReader
<1>. HIDE DEF Frames
<1>3. OnWire \subseteq Frames
  BY <1>1 DEF OnWire
<1>4. \A c \in Calls, k \in Kinds : Held(c, k) \subseteq Frames
  BY <1>1, <1>2 DEF Held, Reading
<1>. QED
  BY <1>3, <1>4

\* Nothing new in a channel that keeps its frames or loses them.
LEMMA HeldFewer ==
  ASSUME NEW c, NEW k, reader' = reader \/ reader' = NoReader, chan'[c][k] \in {chan[c][k], <<>>}
  PROVE  Held(c, k)' \subseteq Held(c, k)
<1>1. Reading(c, k)' => Reading(c, k) /\ reader' = reader
  BY DEF Reading, NoReader
<1>2. {chan'[c][k][n] : n \in 1..Len(chan'[c][k])} \subseteq {chan[c][k][n] : n \in 1..Len(chan[c][k])}
  <2>1. CASE chan'[c][k] = chan[c][k]
    BY <2>1
  <2>2. CASE chan'[c][k] = <<>>
    BY <2>2
  <2>. QED
    BY <2>1, <2>2
<1>. QED
  BY <1>1, <1>2 DEF Held

LEMMA OverFlow ==
  ASSUME TInv, FInv, NEW c \in Calls, Over(c)
  PROVE  FInv'
<1>0. /\ Waiting(c) /\ Forget(c) /\ Outcomes(c)
      /\ \A d \in Calls \ {c} : call'[d] = call[d]
      /\ nextId' = nextId /\ reader' = reader /\ down' = down /\ up' = up /\ jobs' = jobs /\ runs' = runs
  BY OverShape DEF wire, agent
<1>k. call[c] \in CallStates /\ KindOK(c) /\ call[c].kind \in Kinds
  BY DEF TInv, TypeOK, CallStates
<1>1. ~Waiting(c)' /\ call'[c].pc # "unused" /\ (call'[c].pc = "idle" => call'[c].kind = "rpc" /\ call[c].kind = "probe")
      /\ (call'[c].kind = call[c].kind \/ (call'[c].kind = "rpc" /\ call[c].kind = "probe"))
  BY <1>0 DEF Outcomes, Waiting
<1>i. call[c].id \in Ids /\ pending \in [Kinds -> [Ids -> Calls \cup {None}]]
  <2>1. call[c].id \in 1..nextId
    BY <1>0 DEF FInv, WaitOK
  <2>. QED
    BY <2>1, Disjoint DEF TInv, TypeOK, Ids
<1>2. \A k \in Kinds, i \in Ids :
         pending'[k][i] = IF k = call[c].kind /\ i = call[c].id THEN None ELSE pending[k][i]
  BY <1>0, <1>k, <1>i DEF Forget
<1>3. ASSUME NEW d \in Calls, Waiting(d)'
      PROVE  /\ Waiting(d) /\ call'[d].id = call[d].id /\ call'[d].kind = call[d].kind
             /\ pending'[call[d].kind][call[d].id] = d
  <2>1. d # c /\ call'[d] = call[d] /\ Waiting(d)
    BY <1>0, <1>1, <1>3 DEF Waiting
  <2>2. call[d].id # call[c].id /\ pending[call[d].kind][call[d].id] = d /\ call[d].id \in Ids /\ call[d].kind \in Kinds
    BY <1>0, <2>1 DEF FInv, OneEach, WaitOK, TInv, TypeOK, CallStates, Ids
  <2>. QED
    BY <1>2, <2>1, <2>2
<1>4. ASSUME NEW d \in Calls, NEW k \in Kinds, Started(d, k) PROVE Started(d, k)'
  <2>1. CASE d # c
    BY <1>0, <1>4, <2>1 DEF Started
  <2>2. CASE d = c /\ call'[c].kind = call[c].kind
    BY <1>1, <1>4, <2>2 DEF Started
  <2>3. CASE d = c /\ call'[c].kind # call[c].kind
    <3>1. c \in Probes
      BY <1>1, <1>k, <2>3, Disjoint DEF KindOK
    <3>. QED
      BY <1>1, <1>4, <2>3, <3>1 DEF Started
  <2>. QED
    BY <2>1, <2>2, <2>3
<1>5. ASSUME NEW k \in Kinds, NEW i \in Ids, pending'[k][i] # None
      PROVE  pending'[k][i] = pending[k][i] /\ Waiting(pending[k][i])'
  <2>1. pending'[k][i] = pending[k][i] /\ pending[k][i] \in Calls
    BY <1>2, <1>5, <1>i
  <2>2. pending[k][i] # c
    BY <1>2, <1>5, <2>1 DEF FInv, PendingOK
  <2>. QED
    BY <1>0, <1>5, <2>1, <2>2 DEF FInv, PendingOK, Waiting
<1>6. \A d \in Calls, k \in Kinds : Held(d, k)' \subseteq Held(d, k)
  BY <1>0, ForgetTypes, HeldFewer
<1>7. OnWire' = OnWire
  BY <1>0 DEF OnWire
<1>8. \A j, l \in jobs : j.id = l.id => j = l
  BY DEF FInv, JobsOK
<1>. QED
  BY <1>0, <1>3, <1>4, <1>5, <1>6, <1>7, <1>8, Flow

\* A call whose goroutine goes on as before.
LEMMA GoesOn ==
  ASSUME TInv, FInv, NEW c \in Calls,
         \A d \in Calls \ {c} : call'[d] = call[d],
         call'[c].id = call[c].id, call'[c].kind = call[c].kind,
         \/ call'[c].pc = call[c].pc
         \/ call[c].pc \notin {"unused", "idle", "wait"} /\ call'[c].pc \notin {"unused", "idle", "wait"},
         \A d \in Calls : runs[d].said \subseteq runs'[d].said,
         \A d \in Calls, k \in Kinds : Held(d, k)' \subseteq Held(d, k),
         UNCHANGED <<pending, nextId, down, up, jobs>>
  PROVE  FInv'
<1>1. \A d \in Calls : Waiting(d)' <=> Waiting(d)
  BY DEF Waiting
<1>2. \A d \in Calls : call'[d].id = call[d].id /\ call'[d].kind = call[d].kind
  OBVIOUS
<1>3. \A d \in Calls : Waiting(d) => pending[call[d].kind][call[d].id] = d
  BY DEF FInv, WaitOK
<1>4. \A d \in Calls, k \in Kinds : Started(d, k) => Started(d, k)'
  BY <1>2 DEF Started
<1>5. \A k \in Kinds, i \in Ids : pending[k][i] # None => pending[k][i] \in Calls /\ Waiting(pending[k][i])'
  BY <1>1 DEF FInv, PendingOK, TInv, TypeOK
<1>6. OnWire' = OnWire
  BY DEF OnWire
<1>7. \A j, l \in jobs : j.id = l.id => j = l
  BY DEF FInv, JobsOK
<1>. QED
  BY <1>1, <1>2, <1>3, <1>4, <1>5, <1>6, <1>7, Flow

LEMMA CopiesShape ==
  ASSUME TInv, NEW c \in Calls, Copies(c)
  PROVE  /\ \A d \in Calls \ {c} : call'[d] = call[d]
         /\ Waiting(c) /\ call[c].kind = "stream" /\ call[c].kind \in Kinds /\ chan[c]["stream"] # <<>>
         /\ call'[c].id = call[c].id /\ call'[c].kind = call[c].kind /\ call'[c].pc = call[c].pc
         /\ call'[c].left = call[c].left
         /\ call'[c].heard = TRUE /\ call'[c].out = Append(call[c].out, Head(chan[c]["stream"]).line)
         /\ Head(chan[c]["stream"]).type = "data"
         /\ \A d \in Calls, k \in Kinds :
               chan'[d][k] = IF d = c /\ k = "stream" THEN Tail(chan[d][k]) ELSE chan[d][k]
         /\ UNCHANGED <<pending, closed, nextId, reader, wire, agent>>
<1>0. call[c] \in CallStates /\ call[c].kind \in Kinds /\ call \in [Calls -> CallStates]
  BY DEF TInv, TypeOK, CallStates
<1>1. TakeData(c) /\ Take(c) /\ Waits(c, "stream") /\ Arrived(c) = chan[c]["stream"] /\ call[c].kind = "stream"
  BY DEF Copies, TakeData, Waits, Arrived
<1>. DEFINE out == Append(call[c].out, Head(Arrived(c)).line)
            rec == [call[c] EXCEPT !.out = out, !.heard = TRUE]
<1>2. Set(c, rec)
  BY DEF Copies
<1>3. /\ rec.id = call[c].id /\ rec.kind = call[c].kind /\ rec.pc = call[c].pc
      /\ rec.left = call[c].left /\ rec.heard = TRUE /\ rec.out = out
  BY <1>0 DEF CallStates
<1>. HIDE DEF rec
<1>4. call'[c] = rec /\ \A d \in Calls \ {c} : call'[d] = call[d]
  BY <1>0, <1>2 DEF Set
<1>5. chan \in [Calls -> [Kinds -> Seq(Frames)]]
  BY DEF TInv, TypeOK
<1>6. \A d \in Calls, k \in Kinds :
               chan'[d][k] = IF d = c /\ k = "stream" THEN Tail(chan[d][k]) ELSE chan[d][k]
  BY <1>0, <1>1, <1>5 DEF Take
<1>7. UNCHANGED <<pending, closed, nextId, reader, wire, agent>>
  BY DEF Copies, TakeData
<1>8. Head(chan[c]["stream"]).type = "data" /\ chan[c]["stream"] # <<>>
  BY <1>1 DEF TakeData
<1>. QED
  BY <1>0, <1>1, <1>3, <1>4, <1>6, <1>7, <1>8 DEF Waits, Waiting

LEMMA CopiesHeld ==
  ASSUME TInv, NEW c \in Calls, Copies(c), NEW d \in Calls, NEW k \in Kinds
  PROVE  Held(d, k)' \subseteq Held(d, k)
<1>1. \A x \in Calls, y \in Kinds :
               chan'[x][y] = IF x = c /\ y = "stream" THEN Tail(chan[x][y]) ELSE chan[x][y]
  BY CopiesShape
<1>2. reader' = reader
  BY CopiesShape
<1>3. CASE d = c /\ k = "stream"
  <2>1. chan[c]["stream"] # <<>> /\ chan'[c]["stream"] = Tail(chan[c]["stream"]) /\ chan[c]["stream"] \in Seq(Frames)
    <3>1. chan[c]["stream"] # <<>> /\ "stream" \in Kinds
      BY CopiesShape DEF Kinds
    <3>2. chan'[c]["stream"] = Tail(chan[c]["stream"])
      BY <1>1, <3>1
    <3>3. chan \in [Calls -> [Kinds -> Seq(Frames)]]
      BY DEF TInv, TypeOK
    <3>. HIDE DEF Frames
    <3>. QED
      BY <3>1, <3>2, <3>3
  <2>2. {chan'[d][k][n] : n \in 1..Len(chan'[d][k])} \subseteq {chan[d][k][n] : n \in 1..Len(chan[d][k])}
    <3>. DEFINE s == chan[d][k]
                t == chan'[d][k]
    <3>1. t = Tail(s) /\ s # <<>> /\ s \in Seq(Frames)
      BY <1>3, <2>1
    <3>. HIDE DEF s, t, Frames
    <3>2. \A n \in 1..Len(t) : n + 1 \in 1..Len(s) /\ t[n] = s[n + 1]
      BY <3>1
    <3>3. {t[n] : n \in 1..Len(t)} \subseteq {s[n] : n \in 1..Len(s)}
      BY <3>2
    <3>. QED
      BY <3>3 DEF s, t
  <2>. QED
    BY <1>2, <2>2 DEF Held, Reading
<1>4. CASE ~(d = c /\ k = "stream")
  <2>1. chan'[d][k] = chan[d][k]
    BY <1>1, <1>4
  <2>. QED
    BY <1>2, <2>1 DEF Held, Reading
<1>. QED
  BY <1>3, <1>4

LEMMA CopiesFlow ==
  ASSUME TInv, FInv, NEW c \in Calls, Copies(c)
  PROVE  FInv'
<1>1. runs' = runs /\ UNCHANGED <<pending, nextId, down, up, jobs>>
  BY CopiesShape DEF wire, agent
<1>. QED
  BY <1>1, CopiesHeld, CopiesShape, GoesOn

LEMMA HttpShape ==
  ASSUME TInv, NEW c \in Calls, Http(c)
  PROVE  /\ call[c].pc \in {"http", "rekey"} /\ call[c].left > 0 /\ call[c].left \in 0..Addresses
         /\ \A d \in Calls \ {c} : call'[d] = call[d] /\ runs'[d] = runs[d]
         /\ call'[c].id = call[c].id /\ call'[c].kind = call[c].kind /\ call'[c].heard = call[c].heard
         /\ \/ call'[c].pc = "rekey" /\ call[c].pc = "http" /\ call'[c].left = call[c].left
            \/ call'[c].pc = "http" /\ call'[c].left = call[c].left - 1
            \/ call'[c].pc \in {"ok", "refused", "failed"}
         /\ \/ call'[c].out = call[c].out
            \/ /\ call'[c].pc = "ok"
               /\ \E n \in 0..Lines : call'[c].out = call[c].out \o [k \in 1..n |-> <<runs[c].n + 1, k>>]
         /\ runs[c].said \subseteq runs'[c].said /\ runs'[c].n \in {runs[c].n, runs[c].n + 1}
         /\ call'[c].pc \in {"ok", "refused"} => call'[c].pc \in runs'[c].said
         /\ UNCHANGED <<pending, chan, closed, nextId, reader, wire, jobs>>
<1>0. call[c] \in CallStates /\ KindOK(c) /\ call \in [Calls -> CallStates]
  BY DEF TInv, TypeOK
<1>1. call[c].pc \in {"http", "rekey"} /\ UNCHANGED <<pending, chan, closed, nextId, reader, wire, jobs>>
  BY DEF Http, Attempt, Rekey, AttemptStream
<1>2. call[c].left > 0 /\ call[c].left \in 0..Addresses
  BY <1>0, <1>1 DEF KindOK, CallStates
<1>. DEFINE P == /\ \A d \in Calls \ {c} : call'[d] = call[d] /\ runs'[d] = runs[d]
                 /\ call'[c].id = call[c].id /\ call'[c].kind = call[c].kind /\ call'[c].heard = call[c].heard
                 /\ \/ call'[c].pc = "rekey" /\ call[c].pc = "http" /\ call'[c].left = call[c].left
                    \/ call'[c].pc = "http" /\ call'[c].left = call[c].left - 1
                    \/ call'[c].pc \in {"ok", "refused", "failed"}
                 /\ \/ call'[c].out = call[c].out
                    \/ /\ call'[c].pc = "ok"
                       /\ \E n \in 0..Lines : call'[c].out = call[c].out \o [k \in 1..n |-> <<runs[c].n + 1, k>>]
                 /\ runs[c].said \subseteq runs'[c].said /\ runs'[c].n \in {runs[c].n, runs[c].n + 1}
                 /\ call'[c].pc \in {"ok", "refused"} => call'[c].pc \in runs'[c].said
<1>. SUFFICES P
  BY <1>1, <1>2
<1>x. ASSUME NEW answer, NEW ran \in BOOLEAN, Exchange(c, answer, ran)
      PROVE  /\ \A d \in Calls \ {c} : runs'[d] = runs[d]
             /\ runs[c].said \subseteq runs'[c].said /\ runs'[c].n \in {runs[c].n, runs[c].n + 1}
             /\ answer \in {"ok", "refused"} => answer \in runs'[c].said
  <2>1. runs'[c].said = IF ran THEN runs[c].said \cup ({answer} \cap {"ok", "refused"}) ELSE runs[c].said
    BY <1>x, ExchangeType
  <2>2. answer \in {"ok", "refused"} => ran
    BY <1>x DEF Exchange
  <2>3. \A d \in Calls \ {c} : runs'[d] = runs[d]
    BY <1>x, ExchangeType
  <2>4. runs'[c].n \in {runs[c].n, runs[c].n + 1}
    BY <1>x, ExchangeType
  <2>5. answer \in {"ok", "refused"} => answer \in runs'[c].said
    BY <2>1, <2>2
  <2>6. runs[c].said \subseteq runs'[c].said
    BY <2>1
  <2>. QED
    BY <2>3, <2>4, <2>5, <2>6
<1>o. ASSUME NEW answer \in {"ok", "refused", "lost"}, NEW ran \in BOOLEAN,
             Exchange(c, answer, ran), Outcome(c, answer)
      PROVE  P
  BY <1>o, <1>x, <1>1, OutcomeShape
<1>3. CASE Attempt(c)
  <2>1. PICK answer \in {"ok", "refused", "lost", "stale"}, ran \in BOOLEAN :
              /\ Exchange(c, answer, ran)
              /\ IF answer = "stale" THEN Set(c, [call[c] EXCEPT !.pc = "rekey"])
                 ELSE Outcome(c, answer)
    BY <1>3 DEF Attempt
  <2>2. CASE answer = "stale"
    <3>. DEFINE rec == [call[c] EXCEPT !.pc = "rekey"]
    <3>1. rec.pc = "rekey" /\ rec.left = call[c].left /\ rec.id = call[c].id /\ rec.kind = call[c].kind
          /\ rec.heard = call[c].heard /\ rec.out = call[c].out
      BY <1>0 DEF CallStates
    <3>2. Set(c, rec)
      BY <2>1, <2>2
    <3>. HIDE DEF rec
    <3>3. call'[c] = rec /\ \A d \in Calls \ {c} : call'[d] = call[d]
      BY <1>0, <3>2 DEF Set
    <3>4. call[c].pc = "http"
      BY <1>3 DEF Attempt
    <3>. QED
      BY <1>x, <2>1, <3>1, <3>3, <3>4
  <2>3. CASE answer # "stale"
    BY <1>o, <2>1, <2>3
  <2>. QED
    BY <2>2, <2>3
<1>4. CASE Rekey(c)
  BY <1>4, <1>o DEF Rekey
<1>5. CASE AttemptStream(c)
  <2>1. PICK answer \in {"ok", "refused", "lost"}, ran \in BOOLEAN, n \in 0..Lines :
         /\ Exchange(c, answer, ran)
         /\ answer # "ok" => n = 0
         /\ Set(c, [call[c] EXCEPT
                !.pc = IF answer = "ok" THEN "ok" ELSE IF call[c].left > 1 THEN "http"
                       ELSE IF answer = "refused" THEN "refused" ELSE "failed",
                !.left = IF answer = "ok" THEN 0 ELSE @ - 1,
                !.out = @ \o [k \in 1..n |-> <<runs[c].n + 1, k>>]])
    BY <1>5 DEF AttemptStream
  <2>. DEFINE left == IF answer = "ok" THEN 0 ELSE call[c].left - 1
              pc == IF answer = "ok" THEN "ok" ELSE IF call[c].left > 1 THEN "http"
                    ELSE IF answer = "refused" THEN "refused" ELSE "failed"
              out == call[c].out \o [k \in 1..n |-> <<runs[c].n + 1, k>>]
              rec == [call[c] EXCEPT !.pc = pc, !.left = left, !.out = out]
  <2>2. Set(c, rec)
    BY <1>0, <2>1 DEF CallStates
  <2>3. rec.pc = pc /\ rec.left = left /\ rec.out = out /\ rec.id = call[c].id
        /\ rec.kind = call[c].kind /\ rec.heard = call[c].heard
    BY <1>0 DEF CallStates
  <2>4. out = call[c].out \/ answer = "ok"
    <3>1. CASE answer # "ok"
      <4>1. n = 0 /\ [k \in 1..n |-> <<runs[c].n + 1, k>>] = <<>>
        BY <2>1, <3>1
      <4>2. call[c].out \o <<>> = call[c].out
        BY <1>0 DEF CallStates
      <4>. QED
        BY <4>1, <4>2
    <3>. QED
      BY <3>1
  <2>. HIDE DEF rec
  <2>5. call'[c] = rec /\ \A d \in Calls \ {c} : call'[d] = call[d]
    BY <1>0, <2>2 DEF Set
  <2>6. answer = "ok" => pc = "ok"
    OBVIOUS
  <2>7. pc \in {"http", "ok", "refused", "failed"} /\ (pc = "http" => left = call[c].left - 1)
        /\ (pc \in {"ok", "refused"} => answer = pc)
    OBVIOUS
  <2>8. call'[c].out = call[c].out
         \/ (call'[c].pc = "ok" /\ \E m \in 0..Lines : call'[c].out = call[c].out \o [k \in 1..m |-> <<runs[c].n + 1, k>>])
    BY <2>3, <2>4, <2>5, <2>6
  <2>. HIDE DEF out, left, pc
  <2>. QED
    BY <1>x, <2>1, <2>3, <2>5, <2>7, <2>8
<1>. QED
  BY <1>3, <1>4, <1>5 DEF Http

LEMMA HttpFlow ==
  ASSUME TInv, FInv, NEW c \in Calls, Http(c)
  PROVE  FInv'
<1>1. UNCHANGED <<pending, nextId, down, up, jobs, chan, reader>>
  BY HttpShape DEF wire
<1>2. \A d \in Calls, k \in Kinds : Held(d, k)' \subseteq Held(d, k)
  BY <1>1 DEF Held, Reading
<1>3. \A d \in Calls : runs[d].said \subseteq runs'[d].said
  BY HttpShape
<1>4. call'[c].pc \notin {"unused", "idle", "wait"} /\ call[c].pc \notin {"unused", "idle", "wait"}
  BY HttpShape
<1>. QED
  BY <1>1, <1>2, <1>3, <1>4, HttpShape, GoesOn

LEMMA CancelShape ==
  ASSUME TInv, NEW c \in Calls, Cancel(c)
  PROVE  /\ \A d \in Calls \ {c} : call'[d] = call[d]
         /\ call'[c].id = call[c].id /\ call'[c].kind = call[c].kind /\ call'[c].pc = call[c].pc
         /\ call'[c].left = call[c].left /\ call'[c].heard = call[c].heard /\ call'[c].out = call[c].out
         /\ UNCHANGED <<pending, chan, closed, nextId, reader, wire, agent>>
<1>0. call[c] \in CallStates /\ call \in [Calls -> CallStates]
  BY DEF TInv, TypeOK
<1>. DEFINE rec == [call[c] EXCEPT !.cancelled = TRUE]
<1>1. /\ rec.id = call[c].id /\ rec.kind = call[c].kind /\ rec.pc = call[c].pc
      /\ rec.left = call[c].left /\ rec.heard = call[c].heard /\ rec.out = call[c].out /\ Set(c, rec)
  BY <1>0 DEF CallStates, Cancel
<1>. HIDE DEF rec
<1>2. call'[c] = rec /\ \A d \in Calls \ {c} : call'[d] = call[d]
  BY <1>0, <1>1 DEF Set
<1>. QED
  BY <1>1, <1>2 DEF Cancel

LEMMA CancelFlow ==
  ASSUME TInv, FInv, NEW c \in Calls, Cancel(c)
  PROVE  FInv'
<1>1. UNCHANGED <<pending, nextId, down, up, jobs, chan, reader, runs>>
  BY CancelShape DEF wire, agent
<1>2. \A d \in Calls, k \in Kinds : Held(d, k)' \subseteq Held(d, k)
  BY <1>1 DEF Held, Reading
<1>. QED
  BY <1>1, <1>2, CancelShape, GoesOn

LEMMA ReaderState ==
  ASSUME TInv
  PROVE  /\ reader.pc = "send" => /\ reader.call \in Calls /\ reader.kind \in Kinds
                                  /\ reader.frame \in Frames
         /\ reader.pc \in {"idle", "send"} /\ NoReader.pc = "idle"
  BY DEF TInv, TypeOK, NoReader

\* The frame that the read loop takes next, and where it goes.
LEMMA ReadShape ==
  ASSUME TInv, Read
  PROVE  \E f \in Frames :
           /\ up # <<>> /\ f = Head(up) /\ f = up[1] /\ f \in OnWire /\ up' = Tail(up) /\ OnWire' \subseteq OnWire
           /\ reader.pc = "idle" /\ Table(f) \in Kinds /\ f.id \in Ids
           /\ f.type = "data" => Table(f) = "stream"
           /\ \/ reader' = NoReader
              \/ /\ pending[Table(f)][f.id] \in Calls
                 /\ reader' = [pc |-> "send", call |-> pending[Table(f)][f.id], kind |-> Table(f), frame |-> f]
           /\ UNCHANGED <<call, pending, chan, closed, nextId, link, down, drops, agent>>
<1>. DEFINE f == Head(up)
<1>1. up \in Seq(Frames) /\ up # <<>>
  BY DEF Read, TInv, TypeOK
<1>2. f \in Frames /\ f = up[1] /\ 1 \in 1..Len(up)
  <2>. HIDE DEF Frames
  <2>. QED
    BY <1>1
<1>3. f \in OnWire
  BY <1>2 DEF OnWire
<1>4. up' = Tail(up) /\ reader.pc = "idle" /\ UNCHANGED <<call, pending, chan, closed, nextId, link, down, drops, agent>>
  BY DEF Read
<1>5. OnWire' \subseteq OnWire
  <2>. HIDE DEF Frames
  <2>1. \A n \in 1..Len(up') : n + 1 \in 1..Len(up) /\ up'[n] = up[n + 1]
    BY <1>1, <1>4
  <2>. QED
    BY <2>1 DEF OnWire
<1>6. Table(f) \in Kinds /\ f.id \in Ids /\ (f.type = "data" => Table(f) = "stream")
  BY <1>2 DEF Table, Kinds, Frames
<1>7. reader' = IF pending[Table(f)][f.id] = None THEN NoReader
                  ELSE [pc |-> "send", call |-> pending[Table(f)][f.id], kind |-> Table(f), frame |-> f]
  BY DEF Read
<1>8. pending[Table(f)][f.id] \in Calls \cup {None}
  BY <1>6 DEF TInv, TypeOK
<1>. HIDE DEF f
<1>9. \/ reader' = NoReader
      \/ /\ pending[Table(f)][f.id] \in Calls
         /\ reader' = [pc |-> "send", call |-> pending[Table(f)][f.id], kind |-> Table(f), frame |-> f]
  BY <1>7, <1>8
<1>. QED
  BY <1>1, <1>2, <1>3, <1>4, <1>5, <1>6, <1>9 DEF f

\* The read loop gets rid of the frame in its hand.
LEMMA PushShape ==
  ASSUME TInv, Push \/ PushResult
  PROVE  /\ reader.pc = "send" /\ reader' = NoReader
         /\ UNCHANGED <<call, pending, closed, nextId, wire, agent>>
         /\ \A c \in Calls, k \in Kinds :
               \/ chan'[c][k] = chan[c][k]
               \/ Reading(c, k) /\ chan'[c][k] = Append(chan[c][k], reader.frame)
<1>1. reader.pc = "send" /\ reader' = NoReader /\ UNCHANGED <<call, pending, closed, nextId, wire, agent>>
      /\ (chan' = chan \/ Deliver)
  BY DEF Push, PushResult
<1>2. chan \in [Calls -> [Kinds -> Seq(Frames)]] /\ reader.call \in Calls /\ reader.kind \in Kinds
  BY <1>1, ReaderState DEF TInv, TypeOK
<1>. HIDE DEF Frames
<1>3. ASSUME Deliver, NEW c \in Calls, NEW k \in Kinds
      PROVE  \/ chan'[c][k] = chan[c][k]
             \/ Reading(c, k) /\ chan'[c][k] = Append(chan[c][k], reader.frame)
  BY <1>1, <1>2, <1>3 DEF Deliver, Reading
<1>. QED
  BY <1>1, <1>3

\* A step that touches no goroutine and no table.
LEMMA Routes ==
  ASSUME TInv, FInv, UNCHANGED <<call, pending, nextId>>, down' \subseteq down,
         \A c \in Calls : runs[c].said \subseteq runs'[c].said,
         \A c \in Calls, k \in Kinds : \A f \in Held(c, k)' :
             \/ f \in Held(c, k)
             \/ /\ f \in OnWire /\ f.id \in Ids /\ pending[k][f.id] = c
                /\ f.type = "data" => k = "stream",
         \A f \in OnWire' : f \in OnWire \/ (Executed(f.id) /\ (f.type # "data" => NowSaid(f))),
         \A j \in jobs' : \/ \E l \in jobs : l.id = j.id /\ l.says = j.says
                          \/ Executed(j.id) /\ NowSaid(j),
         \A j, l \in jobs' : j.id = l.id => j = l
  PROVE  FInv'
<1>1. \A c \in Calls : (Waiting(c)' <=> Waiting(c)) /\ call'[c].id = call[c].id /\ call'[c].kind = call[c].kind
  BY DEF Waiting
<1>2. \A c \in Calls : Waiting(c) => pending[call[c].kind][call[c].id] = c
  BY DEF FInv, WaitOK
<1>3. \A c \in Calls, k \in Kinds : Started(c, k) => Started(c, k)'
  BY DEF Started
<1>4. \A k \in Kinds, i \in Ids : pending[k][i] # None => pending[k][i] \in Calls /\ Waiting(pending[k][i])'
  BY <1>1 DEF FInv, PendingOK, TInv, TypeOK
<1>. QED
  BY <1>1, <1>2, <1>3, <1>4, Flow

LEMMA JobsSame == FInv => \A j, l \in jobs : j.id = l.id => j = l
  BY DEF FInv, JobsOK

LEMMA ReadFlow ==
  ASSUME TInv, FInv, Read
  PROVE  FInv'
<1>1. PICK f \in Frames :
           /\ f \in OnWire /\ OnWire' \subseteq OnWire
           /\ reader.pc = "idle" /\ Table(f) \in Kinds /\ f.id \in Ids
           /\ f.type = "data" => Table(f) = "stream"
           /\ \/ reader' = NoReader
              \/ /\ pending[Table(f)][f.id] \in Calls
                 /\ reader' = [pc |-> "send", call |-> pending[Table(f)][f.id], kind |-> Table(f), frame |-> f]
           /\ UNCHANGED <<call, pending, chan, closed, nextId, link, down, drops, agent>>
  BY ReadShape
<1>. HIDE DEF Frames
<1>2. ASSUME NEW c \in Calls, NEW k \in Kinds, NEW g \in Held(c, k)', g \notin Held(c, k)
      PROVE  /\ g \in OnWire /\ g.id \in Ids /\ pending[k][g.id] = c
             /\ g.type = "data" => k = "stream"
  <2>1. reader'.pc = "send" /\ reader'.call = c /\ reader'.kind = k /\ g = reader'.frame
    BY <1>1, <1>2 DEF Held, Reading
  <2>2. g = f /\ k = Table(f) /\ c = pending[Table(f)][f.id]
    BY <1>1, <2>1, ReaderState
  <2>. QED
    BY <1>1, <2>2
<1>3. UNCHANGED <<call, pending, nextId, down, jobs, runs>>
  BY <1>1 DEF agent
<1>. QED
  BY <1>1, <1>2, <1>3, JobsSame, Routes

LEMMA PushHeld ==
  ASSUME TInv, Push \/ PushResult, NEW c \in Calls, NEW k \in Kinds
  PROVE  Held(c, k)' \subseteq Held(c, k)
<1>1. ~Reading(c, k)'
  BY PushShape, ReaderState DEF Reading
<1>2. CASE chan'[c][k] = chan[c][k]
  BY <1>1, <1>2 DEF Held
<1>3. CASE Reading(c, k) /\ chan'[c][k] = Append(chan[c][k], reader.frame)
  <2>. DEFINE s == chan[c][k]
              t == chan'[c][k]
  <2>1. s \in Seq(Frames) /\ reader.frame \in Frames
    BY <1>3, ReaderState DEF Reading, TInv, TypeOK
  <2>2. t = Append(s, reader.frame)
    BY <1>3
  <2>. HIDE DEF s, t, Frames
  <2>3. \A n \in 1..Len(t) : (n \in 1..Len(s) /\ t[n] = s[n]) \/ t[n] = reader.frame
    BY <2>1, <2>2
  <2>4. {t[n] : n \in 1..Len(t)} \subseteq {s[n] : n \in 1..Len(s)} \cup {reader.frame}
    BY <2>3
  <2>. QED
    BY <1>1, <1>3, <2>4 DEF s, t, Held
<1>. QED
  BY <1>2, <1>3, PushShape

LEMMA PushFlow ==
  ASSUME TInv, FInv, Push \/ PushResult
  PROVE  FInv'
<1>1. UNCHANGED <<call, pending, nextId, down, up, jobs, runs>>
  BY PushShape DEF wire, agent
<1>2. OnWire' = OnWire
  BY <1>1 DEF OnWire
<1>. QED
  BY <1>1, <1>2, PushHeld, JobsSame, Routes

LEMMA PanicShape ==
  ASSUME TInv, Panic
  PROVE  /\ \A c \in Calls :
              /\ call'[c].pc = IF Open(c) THEN "gone" ELSE call[c].pc
              /\ call'[c].kind = call[c].kind /\ call'[c].id = call[c].id /\ call'[c].left = call[c].left
              /\ call'[c].heard = call[c].heard /\ call'[c].out = call[c].out
              /\ ~Waiting(c)'
              /\ \A k \in Kinds : Held(c, k)' = {}
         /\ \A k \in Kinds, i \in Ids : pending'[k][i] = None
         /\ OnWire' = {} /\ down' = {} /\ UNCHANGED <<closed, nextId, jobs, runs>>
<1>1. \A c \in Calls : call'[c] = IF Open(c) THEN [call[c] EXCEPT !.pc = "gone"] ELSE call[c]
  BY DEF Panic
<1>2. ASSUME NEW c \in Calls
      PROVE  /\ call'[c].pc = IF Open(c) THEN "gone" ELSE call[c].pc
             /\ call'[c].kind = call[c].kind /\ call'[c].id = call[c].id /\ call'[c].left = call[c].left
             /\ call'[c].heard = call[c].heard /\ call'[c].out = call[c].out
  <2>1. call[c] \in CallStates
    BY DEF TInv, TypeOK
  <2>. QED
    BY <1>1, <2>1 DEF CallStates
<1>3. ASSUME NEW c \in Calls PROVE ~Waiting(c)'
  BY <1>2 DEF Waiting, Open, New, Ended
<1>4. ASSUME NEW c \in Calls, NEW k \in Kinds PROVE Held(c, k)' = {}
  BY DEF Panic, Held, Reading, NoReader
<1>5. OnWire' = {}
  BY DEF Panic, OnWire
<1>6. \A k \in Kinds, i \in Ids : pending'[k][i] = None
  BY DEF Panic
<1>. QED
  BY <1>2, <1>3, <1>4, <1>5, <1>6 DEF Panic, agent

LEMMA PanicFlow ==
  ASSUME TInv, FInv, Panic
  PROVE  FInv'
<1>1. \A c \in Calls, k \in Kinds : Started(c, k) => Started(c, k)'
  BY PanicShape DEF Started
<1>2. UNCHANGED <<nextId, jobs, runs>> /\ down' = {} /\ OnWire' = {}
  BY PanicShape
<1>3. \A c \in Calls : ~Waiting(c)' /\ \A k \in Kinds : Held(c, k)' = {}
  BY PanicShape
<1>4. \A k \in Kinds, i \in Ids : pending'[k][i] = None
  BY PanicShape
<1>. QED
  BY <1>1, <1>2, <1>3, <1>4, JobsSame, Flow

LEMMA EmitWire ==
  ASSUME TInv, NEW f \in Frames, Emit(f)
  PROVE  OnWire' \subseteq OnWire \cup {f}
<1>1. up \in Seq(Frames) /\ up' \in {up, Append(up, f)}
  BY EmitType DEF TInv, TypeOK
<1>. HIDE DEF Frames
<1>2. \A n \in 1..Len(up') : (n \in 1..Len(up) /\ up'[n] = up[n]) \/ up'[n] = f
  BY <1>1
<1>. QED
  BY <1>2 DEF OnWire

LEMMA AgentFlow ==
  ASSUME TInv, FInv, Agent
  PROVE  FInv'
<1>r. ASSUME NEW r \in down, down' = down \ {r}, nextId' = nextId PROVE Executed(r.id)
  BY <1>r DEF FInv, RequestOK, Executed
<1>j. ASSUME NEW j \in jobs, down' = down, nextId' = nextId PROVE Executed(j.id)
  BY <1>j DEF FInv, RequestOK, Unseen, JobsOK, Executed
<1>m. ASSUME UNCHANGED master
      PROVE  UNCHANGED <<call, pending, nextId, chan, reader>> /\ \A c \in Calls, k \in Kinds : Held(c, k)' = Held(c, k)
  BY <1>m DEF master, Held, Reading
<1>1. CASE AgentAnswers
  <2>1. PICK r \in down, says \in {"ok", "refused"}, type \in {"reply", "result"}, error \in BOOLEAN :
           LET f == [id |-> r.id, type |-> type, line |-> <<>>, says |-> says,
                      error |-> error] IN
            /\ r \in Requests /\ r.kind # "stream" /\ down' = down \ {r}
            /\ Ran(r.of, {says}) /\ Emit(f) /\ f \in Frames
            /\ UNCHANGED <<master, link, drops, jobs>>
    BY <1>1, AnswersShape
  <2>. DEFINE f == [id |-> r.id, type |-> type, line |-> <<>>, says |-> says,
                      error |-> error]
  <2>2. f.id = r.id /\ f.says = says
    OBVIOUS
  <2>3. f \in Frames /\ Emit(f)
    BY <2>1
  <2>. HIDE DEF f
  <2>4. OnWire' \subseteq OnWire \cup {f}
    BY <2>3, EmitWire
  <2>5. UNCHANGED <<call, pending, nextId>> /\ jobs' = jobs /\ down' \subseteq down
    BY <1>m, <2>1
  <2>6. runs'[r.of].said = runs[r.of].said \cup {says} /\ \A d \in Calls \ {r.of} : runs'[d] = runs[d]
    BY <2>1, RunsType DEF Requests
  <2>7. \A c \in Calls : runs[c].said \subseteq runs'[c].said
    BY <2>6
  <2>8. NowSaid(f)
    BY <2>2, <2>6 DEF NowSaid, FInv, RequestOK
  <2>9. Executed(f.id)
    BY <1>r, <2>1, <2>2, <2>5
  <2>. QED
    BY <1>m, <2>1, <2>4, <2>5, <2>7, <2>8, <2>9, JobsSame, Routes
<1>2. CASE AgentStarts
  <2>1. PICK r \in down, says \in {"ok", "refused"} :
           LET j == [id |-> r.id, says |-> says, run |-> runs[r.of].n + 1, line |-> 0] IN
            /\ r \in Requests /\ r.kind = "stream" /\ down' = down \ {r}
            /\ Ran(r.of, {says}) /\ jobs' = jobs \cup {j} /\ j \in Jobs
            /\ UNCHANGED <<master, link, up, drops>>
    BY <1>2, StartsShape
  <2>. DEFINE j == [id |-> r.id, says |-> says, run |-> runs[r.of].n + 1, line |-> 0]
  <2>2. j.id = r.id /\ j.says = says /\ jobs' = jobs \cup {j}
    BY <2>1
  <2>. HIDE DEF j
  <2>4. OnWire' = OnWire
    BY <2>1 DEF OnWire
  <2>5. UNCHANGED <<call, pending, nextId>> /\ down' \subseteq down
    BY <1>m, <2>1
  <2>6. runs'[r.of].said = runs[r.of].said \cup {says} /\ \A d \in Calls \ {r.of} : runs'[d] = runs[d]
    BY <2>1, RunsType DEF Requests
  <2>7. \A c \in Calls : runs[c].said \subseteq runs'[c].said
    BY <2>6
  <2>8. NowSaid(j)
    BY <2>2, <2>6 DEF NowSaid, FInv, RequestOK
  <2>9. Executed(j.id)
    BY <1>r, <2>1, <2>2, <2>5
  <2>10. \A k, l \in jobs' : k.id = l.id => k = l
    BY <2>2, JobsSame DEF FInv, RequestOK, Unseen
  <2>. QED
    BY <1>m, <2>1, <2>2, <2>4, <2>5, <2>7, <2>8, <2>9, <2>10, Routes
<1>3. CASE AgentWrites
  <2>1. PICK j \in jobs :
           LET f == [id |-> j.id, type |-> "data", line |-> <<j.run, j.line + 1>>, says |-> "ok",
                      error |-> FALSE]
               k == [id |-> j.id, says |-> j.says, run |-> j.run, line |-> j.line + 1]
           IN
            /\ j \in Jobs /\ k \in Jobs /\ f \in Frames
            /\ Emit(f) /\ jobs' = (jobs \ {j}) \cup {k}
            /\ UNCHANGED <<master, link, down, drops, runs>>
    BY <1>3, WritesShape
  <2>. DEFINE f == [id |-> j.id, type |-> "data", line |-> <<j.run, j.line + 1>>, says |-> "ok",
                      error |-> FALSE]
              k == [id |-> j.id, says |-> j.says, run |-> j.run, line |-> j.line + 1]
  <2>2. f.id = j.id /\ f.type = "data" /\ k.id = j.id /\ k.says = j.says
    OBVIOUS
  <2>3. f \in Frames /\ Emit(f) /\ jobs' = (jobs \ {j}) \cup {k}
    BY <2>1
  <2>. HIDE DEF f, k
  <2>4. OnWire' \subseteq OnWire \cup {f}
    BY <2>3, EmitWire
  <2>5. UNCHANGED <<call, pending, nextId>> /\ down' = down /\ runs' = runs
    BY <1>m, <2>1
  <2>6. Executed(f.id)
    BY <1>j, <2>2, <2>5
  <2>7. \A h, l \in jobs' : h.id = l.id => h = l
    BY <2>2, <2>3, JobsSame
  <2>8. \A h \in jobs' : \E l \in jobs : l.id = h.id /\ l.says = h.says
    BY <2>2, <2>3
  <2>. QED
    BY <1>m, <2>1, <2>2, <2>4, <2>5, <2>6, <2>7, <2>8, Routes
<1>4. CASE AgentEnds
  <2>1. PICK j \in jobs :
           LET f == [id |-> j.id, type |-> "reply", line |-> <<>>, says |-> j.says,
                      error |-> FALSE] IN
            /\ j \in Jobs /\ f \in Frames /\ Emit(f) /\ jobs' = jobs \ {j}
            /\ UNCHANGED <<master, link, down, drops, runs>>
    BY <1>4, EndsShape
  <2>. DEFINE f == [id |-> j.id, type |-> "reply", line |-> <<>>, says |-> j.says,
                      error |-> FALSE]
  <2>2. f.id = j.id /\ f.says = j.says
    OBVIOUS
  <2>3. f \in Frames /\ Emit(f) /\ jobs' = jobs \ {j}
    BY <2>1
  <2>. HIDE DEF f
  <2>4. OnWire' \subseteq OnWire \cup {f}
    BY <2>3, EmitWire
  <2>5. UNCHANGED <<call, pending, nextId>> /\ down' = down /\ runs' = runs
    BY <1>m, <2>1
  <2>6. Executed(f.id)
    BY <1>j, <2>2, <2>5
  <2>7. NowSaid(f)
    BY <2>2, <2>5 DEF NowSaid, FInv, JobsOK, Said
  <2>8. \A h \in jobs' : \E l \in jobs : l.id = h.id /\ l.says = h.says
    BY <2>3
  <2>. QED
    BY <1>m, <2>1, <2>3, <2>4, <2>5, <2>6, <2>7, <2>8, JobsSame, Routes
<1>. QED
  BY <1>1, <1>2, <1>3, <1>4 DEF Agent

LEMMA NetFlow ==
  ASSUME TInv, FInv, Drop \/ Reconnect
  PROVE  FInv'
<1>1. UNCHANGED <<call, pending, nextId, chan, reader, jobs, runs>> /\ down' \subseteq down
      /\ (up' = <<>> \/ up' = up)
  BY DEF Drop, Reconnect, master, agent
<1>2. OnWire' \subseteq OnWire /\ \A c \in Calls, k \in Kinds : Held(c, k)' = Held(c, k)
  BY <1>1 DEF OnWire, Held, Reading
<1>. QED
  BY <1>1, <1>2, JobsSame, Routes

\* A request is sent, or there is no connection to send it on.
Sends(c) ==
    /\ nextId' = nextId + 1 /\ nextId < MaxRequests
    /\ \A k \in Kinds, i \in Ids :
          pending'[k][i] = IF k = call[c].kind /\ i = nextId + 1 THEN c ELSE pending[k][i]
    /\ down' = down \cup {[id |-> nextId + 1, of |-> c, kind |-> call[c].kind]}
    /\ call'[c].pc = "wait" /\ call'[c].id = nextId + 1 /\ call'[c].kind = call[c].kind
Falls(c) ==
    /\ UNCHANGED <<nextId, pending, down>>
    /\ call'[c].left \in 0..Addresses
    /\ \/ call'[c].pc = "idle" /\ call[c].kind = "probe" /\ call'[c].kind = "rpc"
       \/ call'[c].pc = "http" /\ call[c].kind # "probe" /\ call'[c].kind = call[c].kind
       \/ call'[c].pc = "failed" /\ call[c].kind # "probe" /\ call'[c].kind = call[c].kind

LEMMA BeginShape ==
  ASSUME TInv, NEW c \in Calls, Begin(c)
  PROVE  /\ call[c].pc = "idle" /\ call[c].kind \in Kinds /\ KindOK(c)
         /\ \A d \in Calls \ {c} : call'[d] = call[d]
         /\ call'[c].heard = call[c].heard /\ call'[c].out = call[c].out
         /\ UNCHANGED <<chan, closed, reader, link, up, drops, agent>>
         /\ Sends(c) \/ Falls(c)
<1>0. call[c] \in CallStates /\ KindOK(c) /\ call[c].kind \in Kinds /\ call \in [Calls -> CallStates]
  BY DEF TInv, TypeOK, CallStates
<1>1. call[c].pc = "idle" /\ UNCHANGED <<chan, closed, reader, link, up, drops, agent>>
  BY DEF Begin
<1>. DEFINE P == /\ \A d \in Calls \ {c} : call'[d] = call[d]
                 /\ call'[c].heard = call[c].heard /\ call'[c].out = call[c].out
                 /\ Sends(c) \/ Falls(c)
<1>. SUFFICES P
  BY <1>0, <1>1
<1>2. CASE /\ link /\ nextId < MaxRequests
           /\ nextId' = nextId + 1
           /\ pending' = [pending EXCEPT ![call[c].kind][NextId] = c]
           /\ down' = down \cup {[id |-> NextId, of |-> c, kind |-> call[c].kind]}
           /\ Set(c, [call[c] EXCEPT !.pc = "wait", !.id = NextId])
  <2>. DEFINE rec == [call[c] EXCEPT !.pc = "wait", !.id = NextId]
  <2>1. rec.pc = "wait" /\ rec.id = NextId /\ rec.kind = call[c].kind
        /\ rec.heard = call[c].heard /\ rec.out = call[c].out
    BY <1>0 DEF CallStates
  <2>2. Set(c, rec)
    BY <1>2
  <2>. HIDE DEF rec
  <2>3. call'[c] = rec /\ \A d \in Calls \ {c} : call'[d] = call[d]
    BY <1>0, <2>2 DEF Set
  <2>4. NextId = nextId + 1 /\ NextId \in Ids
    BY <1>2, Disjoint DEF NextId, Ids, TInv, TypeOK
  <2>5. \A k \in Kinds, i \in Ids :
          pending'[k][i] = IF k = call[c].kind /\ i = nextId + 1 THEN c ELSE pending[k][i]
    BY <1>0, <1>2, <2>4 DEF TInv, TypeOK
  <2>6. Sends(c)
    BY <1>2, <2>1, <2>3, <2>4, <2>5 DEF Sends
  <2>. QED
    BY <2>1, <2>3, <2>6
<1>3. CASE /\ IF call[c].kind = "probe" THEN Set(c, [call[c] EXCEPT !.kind = "rpc"]) ELSE Fallback(c)
           /\ UNCHANGED <<nextId, pending, down>>
  <2>1. CASE call[c].kind = "probe"
    <3>. DEFINE rec == [call[c] EXCEPT !.kind = "rpc"]
    <3>1. rec.pc = "idle" /\ rec.kind = "rpc" /\ rec.heard = call[c].heard /\ rec.out = call[c].out
          /\ rec.left \in 0..Addresses
      BY <1>0, <1>1 DEF CallStates
    <3>2. Set(c, rec)
      BY <1>3, <2>1
    <3>. HIDE DEF rec
    <3>3. call'[c] = rec /\ \A d \in Calls \ {c} : call'[d] = call[d]
      BY <1>0, <3>2 DEF Set
    <3>. QED
      BY <1>3, <2>1, <3>1, <3>3 DEF Falls
  <2>2. CASE call[c].kind # "probe"
    <3>. DEFINE pc(n) == IF n = 0 THEN "failed" ELSE "http"
                rec(n) == [call[c] EXCEPT !.pc = pc(n), !.left = n]
    <3>1. PICK n \in 0..Addresses : Leave(c, rec(n))
      BY <1>3, <2>2 DEF Fallback
    <3>2. pc(n) \in {"http", "failed"}
      OBVIOUS
    <3>. HIDE DEF pc
    <3>3. rec(n) \in CallStates /\ rec(n).kind = call[c].kind /\ rec(n).pc = pc(n)
          /\ rec(n).out = call[c].out /\ rec(n).left = n /\ rec(n).heard = call[c].heard
      BY <1>0, <3>2 DEF CallStates, Ended
    <3>. HIDE DEF rec
    <3>. QED
      BY <1>3, <2>2, <3>1, <3>2, <3>3, LeaveFields DEF Falls
  <2>. QED
    BY <2>1, <2>2
<1>. QED
  BY <1>2, <1>3 DEF Begin

LEMMA FallsFlow ==
  ASSUME TInv, FInv, NEW c \in Calls, Begin(c), Falls(c)
  PROVE  FInv'
<1>0. /\ call[c].pc = "idle" /\ call[c].kind \in Kinds /\ KindOK(c)
      /\ \A d \in Calls \ {c} : call'[d] = call[d]
      /\ UNCHANGED <<nextId, pending, down, chan, reader, up, jobs, runs>>
  BY BeginShape DEF Falls, agent
<1>1. /\ ~Waiting(c) /\ ~Waiting(c)' /\ call'[c].pc # "unused"
      /\ call'[c].pc = "idle" => call'[c].kind = "rpc"
      /\ call'[c].kind = call[c].kind \/ (call'[c].kind = "rpc" /\ call[c].kind = "probe")
  BY <1>0 DEF Falls, Waiting
<1>2. \A d \in Calls : Waiting(d)' <=> Waiting(d)
  BY <1>0, <1>1 DEF Waiting
<1>3. ASSUME NEW d \in Calls, Waiting(d)'
      PROVE  /\ Waiting(d) /\ call'[d].id = call[d].id /\ call'[d].kind = call[d].kind
             /\ pending'[call[d].kind][call[d].id] = d
  BY <1>0, <1>1, <1>2, <1>3 DEF FInv, WaitOK
<1>4. ASSUME NEW d \in Calls, NEW k \in Kinds, Started(d, k) PROVE Started(d, k)'
  <2>1. CASE d # c
    BY <1>0, <1>4, <2>1 DEF Started
  <2>2. CASE d = c
    <3>1. k = "probe" /\ c \in Probes /\ call[c].kind = "rpc"
      BY <1>0, <1>4, <2>2 DEF Started
    <3>. QED
      BY <1>1, <2>2, <3>1 DEF Started
  <2>. QED
    BY <2>1, <2>2
<1>5. ASSUME NEW k \in Kinds, NEW i \in Ids, pending[k][i] # None
      PROVE  pending[k][i] \in Calls /\ Waiting(pending[k][i])'
  <2>1. pending[k][i] \in Calls
    BY <1>5 DEF TInv, TypeOK
  <2>2. Waiting(pending[k][i])
    BY <1>5 DEF FInv, PendingOK
  <2>. QED
    BY <1>0, <1>1, <2>1, <2>2 DEF Waiting
<1>6. OnWire' = OnWire /\ \A d \in Calls, k \in Kinds : Held(d, k)' = Held(d, k)
  BY <1>0 DEF OnWire, Held, Reading
<1>. QED
  BY <1>0, <1>3, <1>4, <1>5, <1>6, JobsSame, Flow

\* The id of a new request is in no frame, and the channel of the call is empty.
LEMMA SendsFlow ==
  ASSUME TInv, FInv, NEW c \in Calls, Begin(c), Sends(c)
  PROVE  FInv'
<1>N. PICK N : N = nextId + 1
  OBVIOUS
<1>new. PICK new : new = [id |-> N, of |-> c, kind |-> call[c].kind]
  OBVIOUS
<1>0. /\ call[c].pc = "idle" /\ call[c].kind \in Kinds /\ KindOK(c)
      /\ \A d \in Calls \ {c} : call'[d] = call[d]
      /\ UNCHANGED <<chan, reader, up, jobs, runs>>
  BY BeginShape DEF agent
<1>1. /\ nextId' = N /\ nextId \in Nat /\ N \in Ids /\ down' = down \cup {new}
      /\ call'[c].pc = "wait" /\ call'[c].id = N /\ call'[c].kind = call[c].kind
      /\ \A k \in Kinds, i \in Ids :
            pending'[k][i] = IF k = call[c].kind /\ i = N THEN c ELSE pending[k][i]
  BY <1>N, <1>new, Disjoint DEF Sends, TInv, TypeOK, Ids
<1>2. new.id = N /\ new.of = c /\ new.kind = call[c].kind
  BY <1>new
<1>n. \A i : i <= nextId /\ i \in Ids => i # N /\ i <= nextId'
  BY <1>1, <1>N DEF Ids
<1>3. ~Waiting(c) /\ Waiting(c)' /\ \A d \in Calls \ {c} : Waiting(d)' <=> Waiting(d)
  BY <1>0, <1>1 DEF Waiting
<1>4. ASSUME NEW d \in Calls, Waiting(d)
      PROVE  d # c /\ call[d].id \in Ids /\ call[d].id \in 1..nextId /\ call[d].id # N /\ call[d].kind \in Kinds
             /\ pending[call[d].kind][call[d].id] = d
  <2>1. call[d].id \in 1..nextId /\ pending[call[d].kind][call[d].id] = d /\ d # c
    BY <1>3, <1>4 DEF FInv, WaitOK
  <2>2. call[d].id \in Ids /\ call[d].id <= nextId
    BY <2>1, <1>1, Disjoint DEF TInv, TypeOK, Ids
  <2>. QED
    BY <1>n, <2>1, <2>2 DEF TInv, TypeOK, CallStates
<1>5. ASSUME NEW d \in Calls PROVE WaitOK(d)'
  <2>1. CASE d = c
    BY <1>0, <1>1, <1>N, <2>1 DEF WaitOK
  <2>2. CASE d # c /\ Waiting(d)'
    <3>1. Waiting(d) /\ call'[d] = call[d]
      BY <1>0, <1>3, <2>2
    <3>2. call[d].id \in 1..nextId'
      BY <1>1, <1>N, <1>4, <3>1
    <3>. QED
      BY <1>1, <1>4, <3>1, <3>2 DEF WaitOK
  <2>. QED
    BY <2>1, <2>2 DEF WaitOK
<1>6. PendingOK'
  <2>. SUFFICES ASSUME NEW k \in Kinds, NEW i \in Ids, NEW d, d = pending'[k][i], d # None
                PROVE  Waiting(d)' /\ call'[d].kind = k /\ call'[d].id = i
    BY DEF PendingOK, Waiting
  <2>1. CASE k = call[c].kind /\ i = N
    BY <1>1, <1>3, <2>1
  <2>2. CASE ~(k = call[c].kind /\ i = N)
    <3>1. d = pending[k][i]
      BY <1>1, <2>2
    <3>2. d \in Calls
      BY <3>1 DEF TInv, TypeOK
    <3>3. Waiting(d) /\ call[d].kind = k /\ call[d].id = i
      BY <3>1 DEF FInv, PendingOK
    <3>. QED
      BY <1>0, <1>3, <3>1, <3>2, <3>3
  <2>. QED
    BY <2>1, <2>2
<1>7. OneEach'
  BY <1>0, <1>1, <1>3, <1>4 DEF FInv, OneEach
<1>8. ASSUME NEW x, Said(x), x.id \in Ids, x.id <= nextId PROVE Said(x)'
  BY <1>0, <1>1, <1>3, <1>8, <1>n DEF Said
<1>9. OnWire' = OnWire /\ \A d \in Calls, k \in Kinds : Held(d, k)' = Held(d, k)
  BY <1>0 DEF OnWire, Held, Reading
<1>10. /\ \A j \in jobs : j.id \in Ids /\ j.id <= nextId
       /\ \A f \in OnWire : f.id \in Ids /\ f.id <= nextId
       /\ \A d \in Calls, k \in Kinds : \A f \in Held(d, k) : f.id \in Ids /\ f.id <= nextId
       /\ \A r \in down : r.id \in Ids /\ r.id <= nextId /\ r.of \in Calls /\ r.kind \in Kinds
  <2>1. \A f \in Frames : f.id \in Ids
    BY DEF Frames
  <2>2. \A j \in jobs : j.id \in Ids /\ j.id <= nextId
    BY DEF TInv, TypeOK, FInv, JobsOK
  <2>3. \A f \in OnWire : f.id \in Ids /\ f.id <= nextId
    BY <2>1, HeldFrames DEF FInv, WireOK
  <2>4. \A d \in Calls, k \in Kinds : \A f \in Held(d, k) : f.id \in Ids /\ f.id <= nextId
    BY <2>1, HeldFrames DEF FInv, HeldOK
  <2>5. \A r \in down : r.id \in Ids /\ r.id <= nextId /\ r.of \in Calls /\ r.kind \in Kinds
    BY DEF TInv, TypeOK, FInv, RequestOK
  <2>. QED
    BY <2>2, <2>3, <2>4, <2>5
<1>11. JobsOK'
  BY <1>0, <1>8, <1>10, <1>n DEF FInv, JobsOK
<1>12. WireOK'
  BY <1>8, <1>9, <1>10, <1>n DEF FInv, WireOK
<1>13. /\ \A d \in Calls, k \in Kinds : Started(d, k) => Started(d, k)'
       /\ ~Started(c, call[c].kind) /\ Started(c, call[c].kind)'
  BY <1>0, <1>1 DEF Started
<1>14. ASSUME NEW d \in Calls, NEW k \in Kinds PROVE HeldOK(d, k)'
  <2>. SUFFICES ASSUME NEW f \in Held(d, k)
                PROVE  /\ f.id <= nextId' /\ Started(d, k)'
                       /\ Waiting(d)' /\ call'[d].kind = k => f.id = call'[d].id
                       /\ IF f.type = "data" THEN k = "stream" ELSE f.says \in runs'[d].said
    BY <1>9 DEF HeldOK
  <2>1. /\ Started(d, k)
        /\ Waiting(d) /\ call[d].kind = k => f.id = call[d].id
        /\ IF f.type = "data" THEN k = "stream" ELSE f.says \in runs[d].said
    BY DEF FInv, HeldOK
  <2>2. ~(d = c /\ k = call[c].kind)
    BY <1>13, <2>1
  <2>3. Waiting(d)' /\ call'[d].kind = k => f.id = call'[d].id
    BY <1>0, <1>1, <1>3, <2>1, <2>2
  <2>. QED
    BY <1>0, <1>10, <1>13, <1>n, <2>1, <2>3
<1>15. ASSUME NEW r \in down PROVE RequestOK(r)'
  <2>1. /\ r.id <= nextId /\ Unseen(r.id) /\ Started(r.of, r.kind)
        /\ Waiting(r.of) /\ call[r.of].kind = r.kind => call[r.of].id = r.id
        /\ \A d \in Calls : Waiting(d) /\ call[d].id = r.id => d = r.of /\ call[d].kind = r.kind
        /\ \A s \in down : s.id = r.id \/ (s.of = r.of /\ s.kind = r.kind) => s = r
    BY DEF FInv, RequestOK
  <2>2. r.id # N /\ r.of \in Calls /\ r.kind \in Kinds /\ r.id <= nextId'
    BY <1>10, <1>n
  <2>3. ~(r.of = c /\ r.kind = call[c].kind)
    BY <1>13, <2>1
  <2>4. Unseen(r.id)'
    BY <1>0, <1>9, <2>1 DEF Unseen
  <2>5. Waiting(r.of)' /\ call'[r.of].kind = r.kind => call'[r.of].id = r.id
    BY <1>0, <1>1, <1>3, <2>1, <2>2, <2>3
  <2>6. \A d \in Calls : Waiting(d)' /\ call'[d].id = r.id => d = r.of /\ call'[d].kind = r.kind
    BY <1>0, <1>1, <1>3, <2>1, <2>2
  <2>7. \A s \in down' : s.id = r.id \/ (s.of = r.of /\ s.kind = r.kind) => s = r
    BY <1>1, <1>2, <2>1, <2>2, <2>3
  <2>. QED
    BY <1>13, <2>1, <2>2, <2>4, <2>5, <2>6, <2>7 DEF RequestOK
<1>16. RequestOK(new)'
  <2>1. Unseen(N)'
    BY <1>0, <1>9, <1>10, <1>n DEF Unseen
  <2>2. N <= nextId'
    BY <1>1, <1>N DEF Ids
  <2>3. \A d \in Calls : Waiting(d)' /\ call'[d].id = N => d = c
    BY <1>0, <1>3, <1>4
  <2>4. \A s \in down' : s.id = N \/ (s.of = c /\ s.kind = call[c].kind) => s = new
    <3>1. \A s \in down : s.id # N /\ Started(s.of, s.kind)
      BY <1>10, <1>n DEF FInv, RequestOK
    <3>. QED
      BY <1>1, <1>13, <3>1
  <2>. QED
    BY <1>1, <1>2, <1>13, <2>1, <2>2, <2>3, <2>4 DEF RequestOK
<1>. QED
  BY <1>1, <1>5, <1>6, <1>7, <1>11, <1>12, <1>14, <1>15, <1>16 DEF FInv

LEMMA NextFInv == TInv /\ FInv /\ [Next]_vars => FInv'
<1>. SUFFICES ASSUME TInv, FInv, [Next]_vars PROVE FInv'
  OBVIOUS
<1>1. CASE UNCHANGED vars
  <2>1. UNCHANGED <<call, pending, nextId, chan, reader, down, up, jobs, runs>>
    BY <1>1 DEF vars, master, wire, agent
  <2>2. OnWire' = OnWire /\ \A c \in Calls, k \in Kinds : Held(c, k)' = Held(c, k)
    BY <2>1 DEF OnWire, Held, Reading
  <2>. QED
    BY <2>1, <2>2, JobsSame, Routes
<1>2. ASSUME NEW c \in Calls, Begin(c) PROVE FInv'
  BY <1>2, BeginShape, FallsFlow, SendsFlow
<1>3. ASSUME NEW c \in Calls, Step(c) PROVE FInv'
  <2>1. CASE Answer(c) \/ GiveUp(c)
    BY <2>1, OverOrCopies, OverFlow, CopiesFlow
  <2>2. CASE Http(c)
    BY <2>2, HttpFlow
  <2>. QED
    BY <1>3, <2>1, <2>2 DEF Step
<1>4. ASSUME NEW c \in Calls, Cancel(c) PROVE FInv'
  BY <1>4, CancelFlow
<1>5. CASE ReadLoop
  BY <1>5, ReadFlow, PushFlow, PanicFlow DEF ReadLoop
<1>. QED
  BY <1>1, <1>2, <1>3, <1>4, <1>5, AgentFlow, NetFlow DEF Next

-----------------------------------------------------------------------------
(* A call that the agent has answered.                                       *)

\* Nothing is on its way to the agent for it, nor will it go on to HTTP.
HeardOK(c) ==
    c \notin Probes /\ call[c].heard =>
        /\ call[c].pc \in Ended \cup {"wait"}
        /\ Waiting(c) => call[c].out # <<>>
        /\ \A r \in down : r.of # c
HInv == \A c \in Calls : HeardOK(c)

\* The request of a call that has a frame has been executed.
LEMMA FrameMeansRun ==
  ASSUME TInv, FInv, NEW c \in Calls \ Probes, Waiting(c), Held(c, call[c].kind) # {}
  PROVE  \A r \in down : r.of # c
<1>. SUFFICES ASSUME NEW r \in down, r.of = c PROVE FALSE
  OBVIOUS
<1>0. call[c].kind \in Kinds
  BY DEF TInv, TypeOK, CallStates
<1>1. PICK f \in Held(c, call[c].kind) : TRUE
  OBVIOUS
<1>2. /\ Started(r.of, r.kind) /\ Unseen(r.id) /\ r.kind \in Kinds
      /\ Waiting(r.of) /\ call[r.of].kind = r.kind => call[r.of].id = r.id
  BY DEF FInv, RequestOK, TInv, TypeOK
<1>3. r.kind = call[c].kind
  BY <1>2 DEF Started
<1>4. f.id = call[c].id
  BY <1>0, <1>1 DEF FInv, HeldOK
<1>. QED
  BY <1>0, <1>1, <1>2, <1>3, <1>4 DEF Unseen

LEMMA InitHInv == Init => HInv
  BY DEF Init, HInv, HeardOK

LEMMA NextHInv == TInv /\ FInv /\ HInv /\ [Next]_vars => HInv'
<1>. SUFFICES ASSUME TInv, FInv, HInv, [Next]_vars PROVE HInv'
  OBVIOUS
<1>s. ASSUME NEW d \in Calls, call'[d].heard = call[d].heard, call'[d].out = call[d].out,
             call'[d].pc \in {call[d].pc} \cup Ended, \A r \in down' : r \in down \/ r.of # d
      PROVE  HeardOK(d)'
  BY <1>s DEF HInv, HeardOK, Waiting, Ended
<1>1. CASE UNCHANGED vars
  BY <1>1, <1>s DEF vars, wire, master, HInv
<1>2. ASSUME NEW c \in Calls, Begin(c) PROVE HInv'
  <2>1. /\ call[c].pc = "idle" /\ \A d \in Calls \ {c} : call'[d] = call[d]
        /\ call'[c].heard = call[c].heard /\ \A r \in down' : r \in down \/ r.of = c
    BY <1>2, BeginShape DEF Sends, Falls
  <2>2. HeardOK(c)'
    BY <2>1 DEF HInv, HeardOK, Ended
  <2>3. ASSUME NEW d \in Calls \ {c} PROVE HeardOK(d)'
    BY <1>s, <2>1
  <2>. QED
    BY <2>2, <2>3 DEF HInv
<1>3. ASSUME NEW c \in Calls, Over(c) PROVE HInv'
  <2>1. /\ Waiting(c) /\ Outcomes(c) /\ KindOK(c) /\ down' = down
        /\ \A d \in Calls \ {c} : call'[d] = call[d]
    BY <1>3, OverShape DEF TInv, wire
  <2>2. ASSUME c \notin Probes, call'[c].heard PROVE HeardOK(c)'
    <3>1. call[c].kind # "probe"
      BY <2>1, <2>2, Disjoint DEF KindOK
    <3>2. call'[c].pc \in Ended
      BY <2>1, <2>2, <3>1 DEF Outcomes, Ended, HInv, HeardOK
    <3>3. \A r \in down : r.of # c
      BY <2>1, <2>2, <3>1, FrameMeansRun DEF Outcomes, HInv, HeardOK
    <3>. QED
      BY <2>1, <3>2, <3>3 DEF HeardOK, Ended, Waiting
  <2>3. ASSUME NEW d \in Calls \ {c} PROVE HeardOK(d)'
    BY <1>s, <2>1
  <2>. QED
    BY <2>2, <2>3 DEF HInv, HeardOK
<1>4. ASSUME NEW c \in Calls, Copies(c) PROVE HInv'
  <2>1. /\ \A d \in Calls \ {c} : call'[d] = call[d]
        /\ Waiting(c) /\ call[c].kind = "stream" /\ chan[c]["stream"] # <<>>
        /\ call'[c].pc = call[c].pc /\ down' = down
        /\ call'[c].out = Append(call[c].out, Head(chan[c]["stream"]).line)
    BY <1>4, CopiesShape DEF wire
  <2>2. Held(c, call[c].kind) # {}
    BY <2>1, HeadHeld DEF Arrived
  <2>3. call'[c].out # <<>>
    <3>1. call[c].out \in Seq(Nat \X (1..Lines))
      BY DEF TInv, TypeOK, CallStates
    <3>2. Head(chan[c]["stream"]).line \in Nat \X (1..Lines)
      <4>1. Arrived(c) = chan[c]["stream"] /\ Arrived(c) # <<>> /\ Head(Arrived(c)).type = "data"
        BY <1>4, <2>1, CopiesShape DEF Arrived
      <4>. QED
        BY <4>1, HeadFrame
    <3>3. \A s \in Seq(Nat \X (1..Lines)), e \in Nat \X (1..Lines) : Append(s, e) # <<>>
      <4>. DEFINE S == Nat \X (1..Lines)
      <4>. HIDE DEF S
      <4>1. ASSUME NEW s \in Seq(S), NEW e \in S PROVE Append(s, e) # <<>>
        <5>1. Len(Append(s, e)) = Len(s) + 1 /\ Len(s) \in Nat /\ Len(<<>>) = 0
          OBVIOUS
        <5>. QED
          BY <5>1
      <4>. QED
        BY <4>1 DEF S
    <3>. QED
      BY <2>1, <3>1, <3>2, <3>3
  <2>4. HeardOK(c)'
    BY <2>1, <2>2, <2>3, FrameMeansRun DEF HeardOK, Waiting
  <2>5. ASSUME NEW d \in Calls \ {c} PROVE HeardOK(d)'
    BY <1>s, <2>1
  <2>. QED
    BY <2>4, <2>5 DEF HInv
<1>5. ASSUME NEW c \in Calls, Http(c) PROVE HInv'
  <2>1. /\ call[c].pc \in {"http", "rekey"} /\ call'[c].heard = call[c].heard /\ down' = down
        /\ \A d \in Calls \ {c} : call'[d] = call[d]
    BY <1>5, HttpShape DEF wire
  <2>2. HeardOK(c)'
    BY <2>1 DEF HInv, HeardOK, Ended
  <2>3. ASSUME NEW d \in Calls \ {c} PROVE HeardOK(d)'
    BY <1>s, <2>1
  <2>. QED
    BY <2>2, <2>3 DEF HInv
<1>6. ASSUME NEW c \in Calls, Cancel(c) PROVE HInv'
  <2>1. down' = down
    BY <1>6, CancelShape DEF wire
  <2>2. ASSUME NEW d \in Calls PROVE HeardOK(d)'
    BY <1>6, <1>s, <2>1, CancelShape
  <2>. QED
    BY <2>2 DEF HInv
<1>7. CASE Panic
  <2>1. ASSUME NEW c \in Calls PROVE HeardOK(c)'
    BY <1>7, <1>s, PanicShape DEF Ended
  <2>. QED
    BY <2>1 DEF HInv
<1>8. ASSUME call' = call, down' \subseteq down PROVE HInv'
  <2>1. ASSUME NEW c \in Calls PROVE HeardOK(c)'
    BY <1>8, <1>s
  <2>. QED
    BY <2>1 DEF HInv
<1>9. Read \/ Push \/ PushResult \/ Agent \/ Drop \/ Reconnect => call' = call /\ down' \subseteq down
  BY DEF Read, Push, PushResult, Agent, AgentAnswers, AgentStarts, AgentWrites, AgentEnds, Drop, Reconnect,
         master, wire
<1>. QED
  BY <1>1, <1>2, <1>3, <1>4, <1>5, <1>6, <1>7, <1>8, <1>9, OverOrCopies DEF Next, Step, ReadLoop

\* A call whose agent answered over the WebSocket is not executed again, neither
\* over HTTP nor by a request still on its way (tryWSRPC, tryWSRPCStream).
THEOREM AnsweredOnce == Spec => AnsweredIsNotRunAgain
<1>1. TInv /\ FInv /\ HInv /\ [Next]_vars => [\A c \in Calls \ Probes : call[c].heard => runs'[c] = runs[c]]_vars
  <2>. SUFFICES ASSUME TInv, HInv, Next, NEW c \in Calls \ Probes, call[c].heard PROVE runs'[c] = runs[c]
    OBVIOUS
  <2>0. call[c].pc \in Ended \cup {"wait"} /\ \A r \in down : r.of # c
    BY DEF HInv, HeardOK
  <2>1. ASSUME NEW d \in Calls, Http(d) PROVE runs'[c] = runs[c]
    BY <2>0, <2>1, HttpShape DEF Ended
  <2>2. CASE AgentAnswers
    <3>1. PICK r \in down, says \in {"ok", "refused"} : r \in Requests /\ Ran(r.of, {says})
      BY <2>2, AnswersShape
    <3>2. r.of \in Calls /\ r.of # c /\ {says} \in SUBSET {"ok", "refused"}
      BY <2>0, <3>1 DEF Requests
    <3>. QED
      BY <3>1, <3>2, RunsType
  <2>3. CASE AgentStarts
    <3>1. PICK r \in down, says \in {"ok", "refused"} : r \in Requests /\ Ran(r.of, {says})
      BY <2>3, StartsShape
    <3>2. r.of \in Calls /\ r.of # c /\ {says} \in SUBSET {"ok", "refused"}
      BY <2>0, <3>1 DEF Requests
    <3>. QED
      BY <3>1, <3>2, RunsType
  <2>4. ASSUME NEW d \in Calls, Begin(d) \/ Answer(d) \/ GiveUp(d) \/ Cancel(d) PROVE runs'[c] = runs[c]
    BY <2>4 DEF Begin, Answer, TakeReply, TakeResult, TakeData, TakeEnd, GiveUp, Cancel, agent
  <2>5. CASE ReadLoop \/ AgentWrites \/ AgentEnds \/ Drop \/ Reconnect
    BY <2>5 DEF ReadLoop, Read, Push, PushResult, Panic, AgentWrites, AgentEnds, Drop, Reconnect, agent
  <2>. QED
    BY <2>1, <2>2, <2>3, <2>4, <2>5 DEF Next, Step, Agent
<1>. QED
  BY <1>1, InitTInv, InitFInv, InitHInv, NextTInv, NextFInv, NextHInv, PTL DEF Spec, AnsweredIsNotRunAgain

-----------------------------------------------------------------------------
(* The lines of a stream, from the agent to the browser.                     *)

Before(a, b) == a[1] = b[1] /\ a[2] < b[2]
Ahead(S, T)  == \A a \in S, b \in T : Before(a, b)
Ordered(s)   == \A m, n \in 1..Len(s) : m < n => Before(s[m], s[n])
LinesOf(s)   == {s[n] : n \in 1..Len(s)}

\* The data frames of a request in a sequence of frames.
DataAt(s, n, i)  == n \in 1..Len(s) /\ s[n].type = "data" /\ s[n].id = i
InOrder(s, i)    == \A m, n : DataAt(s, m, i) /\ DataAt(s, n, i) /\ m < n => Before(s[m].line, s[n].line)
DataLines(s, i)  == {s[n].line : n \in {m \in 1..Len(s) : DataAt(s, m, i)}}

\* Where the lines of the request that is waited for may be: with the browser, in
\* the channel, in the hand of the read loop, on the wire, still to be written.
Shown(c)  == LinesOf(call[c].out)
Queued(c) == DataLines(chan[c]["stream"], call[c].id)
InHand(c) == IF Reading(c, "stream") /\ reader.frame.type = "data" THEN {reader.frame.line} ELSE {}
Wire(i)   == DataLines(up, i)
ToCome(i) == {a \in Nat \X (1..Lines) : \E j \in jobs : j.id = i /\ a[1] = j.run /\ j.line < a[2]}

Pipe(c) ==
    /\ InOrder(chan[c]["stream"], call[c].id) /\ InOrder(up, call[c].id)
    /\ Ahead(Shown(c), Queued(c) \cup InHand(c) \cup Wire(call[c].id) \cup ToCome(call[c].id))
    /\ Ahead(Queued(c), InHand(c) \cup Wire(call[c].id) \cup ToCome(call[c].id))
    /\ Ahead(InHand(c), Wire(call[c].id) \cup ToCome(call[c].id))
    /\ Ahead(Wire(call[c].id), ToCome(call[c].id))
StreamOK(c) ==
    /\ call[c].pc \notin Ended \cup {"wait"} => call[c].out = <<>>
    /\ Ordered(call[c].out)
    /\ Waiting(c) => (call[c].out # <<>> => call[c].heard) /\ Pipe(c)
SInv == \A c \in Streams : StreamOK(c)

\* Taking the first frame, and adding one at the end.
LEMMA EmptyFrames == \A i : InOrder(<<>>, i) /\ DataLines(<<>>, i) = {}
  BY DEF InOrder, DataLines, DataAt

LEMMA TailFrames ==
  ASSUME NEW s \in Seq(Frames), s # <<>>, NEW i, InOrder(s, i)
  PROVE  /\ InOrder(Tail(s), i) /\ DataLines(Tail(s), i) \subseteq DataLines(s, i)
         /\ Head(s).type = "data" /\ Head(s).id = i =>
              Head(s).line \in DataLines(s, i) /\ Ahead({Head(s).line}, DataLines(Tail(s), i))
<1>. DEFINE t == Tail(s)
<1>. HIDE DEF Frames
<1>1. /\ \A n \in 1..Len(t) : n + 1 \in 1..Len(s) /\ t[n] = s[n + 1] /\ 1 < n + 1 /\ n \in Nat
      /\ Head(s) = s[1] /\ 1 \in 1..Len(s)
  OBVIOUS
<1>. HIDE DEF t
<1>2. \A n : DataAt(t, n, i) => n \in Nat /\ DataAt(s, n + 1, i) /\ t[n] = s[n + 1]
  BY <1>1 DEF DataAt
<1>3. InOrder(t, i)
  <2>. SUFFICES ASSUME NEW m, NEW n, DataAt(t, m, i), DataAt(t, n, i), m < n
                PROVE  Before(t[m].line, t[n].line)
    BY DEF InOrder
  <2>1. m + 1 < n + 1
    BY <1>2
  <2>. QED
    BY <1>2, <2>1 DEF InOrder
<1>4. DataLines(t, i) \subseteq DataLines(s, i)
  BY <1>2 DEF DataLines, DataAt
<1>5. ASSUME Head(s).type = "data", Head(s).id = i
      PROVE  Head(s).line \in DataLines(s, i) /\ Ahead({Head(s).line}, DataLines(t, i))
  <2>1. DataAt(s, 1, i)
    BY <1>1, <1>5 DEF DataAt
  <2>2. Head(s).line \in DataLines(s, i)
    BY <1>1, <2>1 DEF DataLines
  <2>3. ASSUME NEW n, DataAt(t, n, i) PROVE Before(Head(s).line, t[n].line)
    <3>1. DataAt(s, n + 1, i) /\ t[n] = s[n + 1] /\ 1 < n + 1
      BY <1>1, <1>2, <2>3 DEF DataAt
    <3>. QED
      BY <1>1, <2>1, <3>1 DEF InOrder
  <2>4. Ahead({Head(s).line}, DataLines(t, i))
    BY <2>3 DEF Ahead, DataLines
  <2>. QED
    BY <2>2, <2>4
<1>. QED
  BY <1>3, <1>4, <1>5 DEF t

LEMMA AppendFrames ==
  ASSUME NEW s \in Seq(Frames), NEW f \in Frames, NEW i, InOrder(s, i),
         f.type = "data" /\ f.id = i => Ahead(DataLines(s, i), {f.line})
  PROVE  /\ InOrder(Append(s, f), i)
         /\ DataLines(Append(s, f), i) \subseteq
              DataLines(s, i) \cup (IF f.type = "data" /\ f.id = i THEN {f.line} ELSE {})
<1>. DEFINE t == Append(s, f)
<1>. HIDE DEF Frames
<1>1. /\ Len(t) = Len(s) + 1 /\ Len(s) \in Nat
      /\ \A n \in 1..Len(t) : (n \in 1..Len(s) /\ t[n] = s[n]) \/ (n = Len(t) /\ t[n] = f)
  OBVIOUS
<1>. HIDE DEF t
<1>2. \A n : DataAt(t, n, i) =>
        \/ DataAt(s, n, i) /\ t[n] = s[n] /\ n \in 1..Len(s)
        \/ n = Len(t) /\ t[n] = f /\ f.type = "data" /\ f.id = i
  BY <1>1 DEF DataAt
<1>3. InOrder(t, i)
  <2>. SUFFICES ASSUME NEW m, NEW n, DataAt(t, m, i), DataAt(t, n, i), m < n
                PROVE  Before(t[m].line, t[n].line)
    BY DEF InOrder
  <2>1. CASE DataAt(s, n, i) /\ t[n] = s[n] /\ n \in 1..Len(s)
    <3>1. DataAt(s, m, i) /\ t[m] = s[m]
      BY <1>1, <1>2, <2>1
    <3>. QED
      BY <2>1, <3>1 DEF InOrder
  <2>2. CASE n = Len(t) /\ t[n] = f /\ f.type = "data" /\ f.id = i
    <3>1. DataAt(s, m, i) /\ t[m] = s[m]
      BY <1>1, <1>2, <2>2
    <3>2. s[m].line \in DataLines(s, i)
      BY <3>1 DEF DataLines, DataAt
    <3>. QED
      BY <2>2, <3>1, <3>2 DEF Ahead
  <2>. QED
    BY <1>2, <2>1, <2>2
<1>4. DataLines(t, i) \subseteq DataLines(s, i) \cup (IF f.type = "data" /\ f.id = i THEN {f.line} ELSE {})
  BY <1>2 DEF DataLines, DataAt
<1>. QED
  BY <1>3, <1>4 DEF t

LEMMA NoFrames ==
  ASSUME NEW s, NEW i, \A n \in 1..Len(s) : s[n].id # i
  PROVE  InOrder(s, i) /\ DataLines(s, i) = {}
  BY DEF InOrder, DataLines, DataAt

LEMMA AppendLine ==
  ASSUME NEW S, NEW s \in Seq(S), NEW a \in S, Ordered(s), Ahead(LinesOf(s), {a})
  PROVE  Ordered(Append(s, a)) /\ LinesOf(Append(s, a)) = LinesOf(s) \cup {a}
<1>. DEFINE t == Append(s, a)
<1>1. /\ Len(t) = Len(s) + 1 /\ Len(s) \in Nat /\ t[Len(t)] = a
      /\ \A n \in 1..Len(s) : t[n] = s[n]
  OBVIOUS
<1>. HIDE DEF t
<1>2. ASSUME NEW m \in 1..Len(t), NEW n \in 1..Len(t), m < n PROVE Before(t[m], t[n])
  <2>1. m \in 1..Len(s) /\ t[m] = s[m] /\ s[m] \in LinesOf(s)
    BY <1>1, <1>2 DEF LinesOf
  <2>2. CASE n \in 1..Len(s)
    BY <1>1, <1>2, <2>1, <2>2 DEF Ordered
  <2>3. CASE n = Len(t)
    BY <1>1, <2>1, <2>3 DEF Ahead
  <2>. QED
    BY <1>1, <2>2, <2>3
<1>3. LinesOf(t) = LinesOf(s) \cup {a}
  <2>1. \A n \in 1..Len(t) : n \in 1..Len(s) \/ n = Len(t)
    BY <1>1
  <2>2. Len(t) \in 1..Len(t) /\ \A n \in 1..Len(s) : n \in 1..Len(t)
    BY <1>1
  <2>. QED
    BY <1>1, <2>1, <2>2 DEF LinesOf
<1>. QED
  BY <1>2, <1>3 DEF Ordered, t

\* The lines that one HTTP response brings to a browser that has seen nothing.
LEMMA ResponseLines ==
  ASSUME NEW n \in Nat, NEW run
  PROVE  Ordered(<<>> \o [k \in 1..n |-> <<run, k>>])
<1>. DEFINE t == [k \in 1..n |-> <<run, k>>]
<1>1. t \in Seq({run} \X (1..n)) /\ Len(t) = n /\ \A k \in 1..n : t[k] = <<run, k>>
  OBVIOUS
<1>. HIDE DEF t
<1>2. <<>> \o t = t
  BY <1>1
<1>3. Ordered(t)
  BY <1>1 DEF Ordered, Before
<1>. QED
  BY <1>2, <1>3 DEF t

LEMMA StreamFacts ==
  ASSUME TInv, FInv, NEW c \in Streams
  PROVE  /\ c \in Calls /\ c \notin Probes /\ call[c].kind = "stream" /\ "stream" \in Kinds
         /\ call[c] \in CallStates /\ call[c].out \in Seq(Nat \X (1..Lines))
         /\ chan[c]["stream"] \in Seq(Frames) /\ up \in Seq(Frames)
         /\ \A f \in Held(c, "stream") : Waiting(c) => f.id = call[c].id
<1>1. c \in Calls /\ "stream" \in Kinds
  BY DEF Calls, Kinds
<1>2. call[c] \in CallStates /\ KindOK(c) /\ chan[c]["stream"] \in Seq(Frames) /\ up \in Seq(Frames)
  BY <1>1 DEF TInv, TypeOK
<1>3. c \notin Probes /\ call[c].kind = "stream"
  BY <1>1, <1>2, Disjoint DEF KindOK, Kinds
<1>4. call[c].out \in Seq(Nat \X (1..Lines))
  BY <1>2 DEF CallStates
<1>5. \A f \in Held(c, "stream") : Waiting(c) => f.id = call[c].id
  BY <1>1, <1>3 DEF FInv, HeldOK
<1>. QED
  BY <1>1, <1>2, <1>3, <1>4, <1>5

LEMMA InitSInv == Init => SInv
<1>1. Init => \A c \in Calls : call[c].pc \in {"idle", "unused"} /\ call[c].out = <<>>
  BY DEF Init
<1>2. Ordered(<<>>)
  BY DEF Ordered
<1>. QED
  BY <1>1, <1>2 DEF SInv, StreamOK, Waiting, Calls

\* A stream whose lines stay where they are, or are lost.
LEMMA StaysInOrder ==
  ASSUME NEW c, StreamOK(c), call'[c].out = call[c].out, call'[c].heard = call[c].heard,
         call'[c].id = call[c].id, call'[c].pc = call[c].pc,
         Waiting(c) =>
            /\ InOrder(chan'[c]["stream"], call[c].id) /\ Queued(c)' \subseteq Queued(c)
            /\ InHand(c)' \subseteq InHand(c)
            /\ InOrder(up', call[c].id) /\ DataLines(up', call[c].id) \subseteq Wire(call[c].id)
            /\ ToCome(call[c].id)' \subseteq ToCome(call[c].id)
  PROVE  StreamOK(c)'
<1>1. Waiting(c)' = Waiting(c)
  BY DEF Waiting
<1>2. ASSUME Waiting(c) PROVE Pipe(c)'
  <2>1. /\ Shown(c)' = Shown(c) /\ Wire(call[c].id)' = DataLines(up', call'[c].id)
        /\ ToCome(call[c].id)' \subseteq ToCome(call[c].id)
        /\ InOrder(chan[c]["stream"], call[c].id)' /\ InOrder(up, call[c].id)'
    BY <1>2 DEF Shown, Wire, LinesOf, InOrder, DataAt
  <2>2. Pipe(c)
    BY <1>2 DEF StreamOK
  <2>. QED
    BY <1>2, <2>1, <2>2 DEF Pipe, Ahead
<1>. QED
  BY <1>1, <1>2 DEF StreamOK, Ordered

\* A stream that waits for no frame.
LEMMA NotWaiting ==
  ASSUME NEW c, StreamOK(c), ~Waiting(c)', call'[c].out = call[c].out,
         call'[c].pc \in Ended \/ call[c].out = <<>>
  PROVE  StreamOK(c)'
  BY DEF StreamOK, Waiting, Ordered

LEMMA ToComeSame == ASSUME jobs' = jobs, NEW i PROVE ToCome(i)' = ToCome(i)
  BY DEF ToCome

LEMMA QueueLess ==
  ASSUME NEW c, InOrder(chan[c]["stream"], call[c].id),
         chan'[c]["stream"] \in {chan[c]["stream"], <<>>}, call'[c].id = call[c].id
  PROVE  InOrder(chan'[c]["stream"], call[c].id) /\ Queued(c)' \subseteq Queued(c)
<1>1. Queued(c)' = DataLines(chan'[c]["stream"], call[c].id)
  BY DEF Queued, DataLines, DataAt
<1>2. CASE chan'[c]["stream"] = <<>>
  BY <1>1, <1>2, EmptyFrames
<1>3. CASE chan'[c]["stream"] = chan[c]["stream"]
  BY <1>1, <1>3 DEF Queued
<1>. QED
  BY <1>2, <1>3

\* A stream that a step of another call, of the network or of the agent passes by.
LEMMA PassedBy ==
  ASSUME NEW c, StreamOK(c), call'[c].out = call[c].out, call'[c].heard = call[c].heard,
         call'[c].id = call[c].id, call'[c].pc = call[c].pc,
         chan'[c]["stream"] \in {chan[c]["stream"], <<>>}, reader' = reader,
         up' \in {up, <<>>}, ToCome(call[c].id)' \subseteq ToCome(call[c].id)
  PROVE  StreamOK(c)'
<1>. SUFFICES ASSUME Waiting(c)
              PROVE  /\ InOrder(chan'[c]["stream"], call[c].id) /\ Queued(c)' \subseteq Queued(c)
                     /\ InHand(c)' \subseteq InHand(c)
                     /\ InOrder(up', call[c].id) /\ DataLines(up', call[c].id) \subseteq Wire(call[c].id)
  BY StaysInOrder
<1>1. Pipe(c)
  BY DEF StreamOK
<1>2. InHand(c)' = InHand(c)
  BY DEF InHand, Reading
<1>3. InOrder(up', call[c].id) /\ DataLines(up', call[c].id) \subseteq Wire(call[c].id)
  BY <1>1, EmptyFrames DEF Pipe, Wire
<1>4. InOrder(chan[c]["stream"], call[c].id)
  BY <1>1 DEF Pipe
<1>. QED
  BY <1>2, <1>3, <1>4, QueueLess

LEMMA OthersStreams ==
  ASSUME TInv, SInv, NEW c \in Calls, \A d \in Calls \ {c} : call'[d] = call[d],
         \A d \in Calls \ {c} : chan'[d]["stream"] \in {chan[d]["stream"], <<>>},
         reader' = reader, up' = up, jobs' = jobs
  PROVE  \A d \in Streams \ {c} : StreamOK(d)'
<1>. TAKE d \in Streams \ {c}
<1>1. d \in Calls \ {c} /\ StreamOK(d)
  BY DEF Calls, SInv
<1>2. ToCome(call[d].id)' \subseteq ToCome(call[d].id)
  <2>1. call'[d] = call[d]
    BY <1>1
  <2>. QED
    BY <2>1 DEF ToCome
<1>. QED
  BY <1>1, <1>2, PassedBy

LEMMA OverStreams ==
  ASSUME TInv, FInv, SInv, NEW c \in Calls, Over(c)
  PROVE  SInv'
<1>1. /\ Waiting(c) /\ Outcomes(c) /\ \A d \in Calls \ {c} : call'[d] = call[d]
      /\ Forget(c) /\ UNCHANGED <<reader, up, jobs>>
  BY OverShape DEF wire, agent
<1>2. \A d \in Calls, k \in Kinds : chan'[d][k] \in {chan[d][k], <<>>}
  BY <1>1, ForgetTypes
<1>3. \A d \in Streams \ {c} : StreamOK(d)'
  BY <1>1, <1>2, OthersStreams DEF Kinds
<1>4. ASSUME c \in Streams PROVE StreamOK(c)'
  <2>1. call[c].kind = "stream" /\ StreamOK(c)
    BY <1>4, StreamFacts DEF SInv
  <2>2. call'[c].out = call[c].out /\ ~Waiting(c)' /\ (call'[c].pc \in Ended \/ call[c].out = <<>>)
    BY <1>1, <2>1 DEF Outcomes, Ended, Waiting
  <2>. QED
    BY <2>1, <2>2, NotWaiting
<1>. QED
  BY <1>3, <1>4 DEF SInv

\* The browser gets the first line of the channel.
LEMMA CopiesStreams ==
  ASSUME TInv, FInv, SInv, NEW c \in Calls, Copies(c)
  PROVE  SInv'
<1>1. /\ \A d \in Calls \ {c} : call'[d] = call[d]
      /\ Waiting(c) /\ call[c].kind = "stream" /\ chan[c]["stream"] # <<>>
      /\ call'[c].id = call[c].id /\ call'[c].pc = call[c].pc /\ call'[c].heard = TRUE
      /\ call'[c].out = Append(call[c].out, Head(chan[c]["stream"]).line)
      /\ Head(chan[c]["stream"]).type = "data"
      /\ \A d \in Calls, k \in Kinds :
               chan'[d][k] = IF d = c /\ k = "stream" THEN Tail(chan[d][k]) ELSE chan[d][k]
      /\ UNCHANGED <<reader, up, jobs>>
  BY CopiesShape DEF wire, agent
<1>2. \A d \in Streams \ {c} : StreamOK(d)'
  BY <1>1, OthersStreams DEF Kinds
<1>3. c \in Streams
  BY <1>1, Disjoint DEF TInv, KindOK, Kinds
<1>. DEFINE s == chan[c]["stream"]
            h == Head(chan[c]["stream"])
            i == call[c].id
<1>4. /\ s \in Seq(Frames) /\ call[c].out \in Seq(Nat \X (1..Lines)) /\ StreamOK(c)
      /\ chan'[c]["stream"] = Tail(s)
  BY <1>1, <1>3, StreamFacts DEF SInv
<1>5. h.id = i /\ h.line \in Nat \X (1..Lines)
  <2>1. Arrived(c) = s
    BY <1>1 DEF Arrived
  <2>2. h \in Held(c, "stream") /\ h.line \in Nat \X (1..Lines)
    BY <1>1, <2>1, HeadHeld, HeadFrame
  <2>. QED
    BY <1>1, <1>3, <2>2, StreamFacts
<1>6. Pipe(c) /\ Ordered(call[c].out)
  BY <1>1, <1>4 DEF StreamOK
<1>7. /\ InOrder(Tail(s), i) /\ DataLines(Tail(s), i) \subseteq Queued(c)
      /\ h.line \in Queued(c) /\ Ahead({h.line}, DataLines(Tail(s), i))
  <2>1. InOrder(s, i) /\ Queued(c) = DataLines(s, i)
    BY <1>6 DEF Pipe, Queued
  <2>2. s \in Seq(Frames) /\ s # <<>> /\ h = Head(s) /\ h.type = "data" /\ h.id = i
    BY <1>1, <1>4, <1>5
  <2>. HIDE DEF s, h, i, Frames
  <2>3. /\ InOrder(Tail(s), i) /\ DataLines(Tail(s), i) \subseteq DataLines(s, i)
        /\ Head(s).type = "data" /\ Head(s).id = i =>
             Head(s).line \in DataLines(s, i) /\ Ahead({Head(s).line}, DataLines(Tail(s), i))
    BY <2>1, <2>2, TailFrames, Zenon
  <2>. QED
    BY <2>1, <2>2, <2>3
<1>8. Ahead(LinesOf(call[c].out), {h.line})
  BY <1>6, <1>7 DEF Pipe, Shown, Ahead
<1>9. Ordered(call'[c].out) /\ LinesOf(call'[c].out) = LinesOf(call[c].out) \cup {h.line}
  <2>. DEFINE S == Nat \X (1..Lines)
              a == h.line
              out == call[c].out
  <2>1. a \in S /\ out \in Seq(S) /\ Ordered(out) /\ Ahead(LinesOf(out), {a})
    BY <1>4, <1>5, <1>6, <1>8
  <2>2. call'[c].out = Append(out, a)
    BY <1>1
  <2>. HIDE DEF S, a, out
  <2>3. Ordered(Append(out, a)) /\ LinesOf(Append(out, a)) = LinesOf(out) \cup {a}
    BY <2>1, AppendLine
  <2>. QED
    BY <2>2, <2>3 DEF a, out
<1>10. Pipe(c)'
  <2>1. Queued(c)' = DataLines(Tail(s), i) /\ Shown(c)' = Shown(c) \cup {h.line} /\ InHand(c)' = InHand(c)
    <3>1. chan'[c]["stream"] = Tail(s) /\ call'[c].id = i /\ reader' = reader
      BY <1>1, <1>4
    <3>2. LinesOf(call'[c].out) = LinesOf(call[c].out) \cup {h.line}
      BY <1>9
    <3>. HIDE DEF s, h, i
    <3>3. Queued(c)' = DataLines(Tail(s), i)
      BY <3>1 DEF Queued, DataLines, DataAt
    <3>4. Shown(c)' = Shown(c) \cup {h.line}
      BY <3>2 DEF Shown, LinesOf
    <3>5. InHand(c)' = InHand(c)
      BY <3>1 DEF InHand, Reading
    <3>. QED
      BY <3>3, <3>4, <3>5
  <2>2. Wire(call[c].id)' = Wire(i) /\ ToCome(call[c].id)' = ToCome(i)
    BY <1>1 DEF Wire, ToCome, DataLines, DataAt
  <2>3. InOrder(chan[c]["stream"], call[c].id)' /\ InOrder(up, call[c].id)'
    <3>1. InOrder(Tail(s), i) /\ InOrder(up, i)
      BY <1>6, <1>7 DEF Pipe
    <3>2. chan'[c]["stream"] = Tail(s) /\ call'[c].id = i /\ up' = up
      BY <1>1, <1>4
    <3>. HIDE DEF s, i, h
    <3>. QED
      BY <3>1, <3>2 DEF InOrder, DataAt
  <2>. HIDE DEF s, h, i
  <2>4. /\ Ahead(Shown(c), Queued(c) \cup InHand(c) \cup Wire(i) \cup ToCome(i))
        /\ Ahead(Queued(c), InHand(c) \cup Wire(i) \cup ToCome(i))
        /\ Ahead(InHand(c), Wire(i) \cup ToCome(i))
        /\ Ahead(Wire(i), ToCome(i))
    BY <1>6 DEF Pipe, i
  <2>. QED
    BY <1>7, <2>1, <2>2, <2>3, <2>4 DEF Pipe, Ahead
<1>11. StreamOK(c)'
  BY <1>1, <1>9, <1>10 DEF StreamOK, Ordered, Waiting
<1>. QED
  BY <1>2, <1>11 DEF SInv

LEMMA HttpStreams ==
  ASSUME TInv, FInv, SInv, NEW c \in Calls, Http(c)
  PROVE  SInv'
<1>1. /\ call[c].pc \in {"http", "rekey"}
      /\ call'[c].pc \in {"rekey", "http", "ok", "refused", "failed"}
      /\ \A d \in Calls \ {c} : call'[d] = call[d]
      /\ \/ call'[c].out = call[c].out
         \/ /\ call'[c].pc = "ok"
            /\ \E n \in 0..Lines : call'[c].out = call[c].out \o [k \in 1..n |-> <<runs[c].n + 1, k>>]
      /\ UNCHANGED <<chan, reader, up, jobs>>
  BY HttpShape DEF wire
<1>2. \A d \in Streams \ {c} : StreamOK(d)'
  BY <1>1, OthersStreams
<1>3. ASSUME c \in Streams PROVE StreamOK(c)'
  <2>1. StreamOK(c) /\ call[c].out = <<>> /\ ~Waiting(c)'
    BY <1>1, <1>3 DEF SInv, StreamOK, Ended, Waiting
  <2>2. CASE call'[c].out = call[c].out
    BY <2>1, <2>2, NotWaiting
  <2>3. CASE call'[c].out # call[c].out
    <3>1. PICK n \in 0..Lines : call'[c].out = <<>> \o [k \in 1..n |-> <<runs[c].n + 1, k>>]
      BY <1>1, <2>1, <2>3
    <3>2. Ordered(call'[c].out)
      <4>1. n \in Nat
        BY Disjoint
      <4>2. PICK run : run = runs[c].n + 1
        OBVIOUS
      <4>3. call'[c].out = <<>> \o [k \in 1..n |-> <<run, k>>]
        BY <3>1, <4>2
      <4>. QED
        BY <4>1, <4>3, ResponseLines
    <3>3. call'[c].pc = "ok"
      BY <1>1, <2>3
    <3>. QED
      BY <2>1, <3>2, <3>3 DEF StreamOK, Ended, Ordered
  <2>. QED
    BY <2>2, <2>3
<1>. QED
  BY <1>2, <1>3 DEF SInv

LEMMA CancelStreams ==
  ASSUME TInv, FInv, SInv, NEW c \in Calls, Cancel(c)
  PROVE  SInv'
<1>1. /\ \A d \in Calls \ {c} : call'[d] = call[d]
      /\ call'[c].id = call[c].id /\ call'[c].pc = call[c].pc
      /\ call'[c].heard = call[c].heard /\ call'[c].out = call[c].out
      /\ UNCHANGED <<chan, reader, up, jobs>>
  BY CancelShape DEF wire, agent
<1>2. \A d \in Streams \ {c} : StreamOK(d)'
  BY <1>1, OthersStreams
<1>3. ASSUME c \in Streams PROVE StreamOK(c)'
  <2>1. ToCome(call[c].id)' = ToCome(call[c].id)
    BY <1>1 DEF ToCome
  <2>. QED
    BY <1>1, <1>3, <2>1, PassedBy DEF SInv
<1>. QED
  BY <1>2, <1>3 DEF SInv

\* No frame has the id of a new request.
LEMMA BeginStreams ==
  ASSUME TInv, FInv, SInv, NEW c \in Calls, Begin(c)
  PROVE  SInv'
<1>1. /\ call[c].pc = "idle" /\ call[c].kind \in Kinds
      /\ \A d \in Calls \ {c} : call'[d] = call[d]
      /\ call'[c].heard = call[c].heard /\ call'[c].out = call[c].out
      /\ UNCHANGED <<chan, reader, up, jobs>>
      /\ Sends(c) \/ Falls(c)
  BY BeginShape DEF agent
<1>2. \A d \in Streams \ {c} : StreamOK(d)'
  BY <1>1, OthersStreams
<1>3. ASSUME c \in Streams PROVE StreamOK(c)'
  <2>1. StreamOK(c) /\ call[c].out = <<>> /\ call[c].kind = "stream"
    BY <1>1, <1>3, StreamFacts DEF SInv, StreamOK, Ended
  <2>2. CASE Falls(c)
    <3>1. ~Waiting(c)'
      BY <2>2 DEF Falls, Waiting
    <3>. QED
      BY <1>1, <2>1, <3>1, NotWaiting
  <2>3. CASE Sends(c)
    <3>N. PICK N : N = nextId + 1
      OBVIOUS
    <3>1. call'[c].pc = "wait" /\ call'[c].id = N
      BY <2>3, <3>N DEF Sends
    <3>2. Held(c, "stream") = {}
      BY <1>1, <1>3, <2>1, StreamFacts DEF FInv, HeldOK, Started
    <3>3. \A n \in 1..Len(chan'[c]["stream"]) : FALSE
      BY <1>1, <3>2 DEF Held
    <3>4. InHand(c)' = {}
      BY <1>1, <3>2 DEF InHand, Reading, Held
    <3>n. nextId \in Nat
      BY DEF TInv, TypeOK
    <3>5. \A n \in 1..Len(up') : up'[n].id # N
      <4>1. ASSUME NEW n \in 1..Len(up) PROVE up[n].id # N
        <5>1. up[n] \in OnWire
          BY DEF OnWire
        <5>2. up[n].id \in Ids
          BY <5>1, HeldFrames DEF Frames
        <5>3. up[n].id <= nextId /\ up[n].id \in Nat
          BY <5>1, <5>2 DEF FInv, WireOK, Ids
        <5>. QED
          BY <3>N, <3>n, <5>3
      <4>. QED
        BY <1>1, <4>1
    <3>6. \A j \in jobs' : j.id # N
      <4>1. ASSUME NEW j \in jobs PROVE j.id # N
        <5>1. j.id <= nextId /\ j.id \in Nat
          BY DEF FInv, JobsOK, TInv, TypeOK, Ids
        <5>. QED
          BY <3>N, <3>n, <5>1
      <4>. QED
        BY <1>1, <4>1
    <3>7. /\ InOrder(chan[c]["stream"], call[c].id)' /\ InOrder(up, call[c].id)'
          /\ Queued(c)' = {} /\ Wire(call[c].id)' = {} /\ ToCome(call[c].id)' = {} /\ Shown(c)' = {}
      <4>1. InOrder(chan[c]["stream"], call[c].id)' /\ Queued(c)' = {}
        BY <3>3 DEF InOrder, Queued, DataLines, DataAt
      <4>2. InOrder(up, call[c].id)' /\ Wire(call[c].id)' = {}
        BY <3>1, <3>5 DEF InOrder, Wire, DataLines, DataAt
      <4>3. ToCome(call[c].id)' = {}
        BY <3>1, <3>6 DEF ToCome
      <4>4. Shown(c)' = {}
        BY <1>1, <2>1 DEF Shown, LinesOf
      <4>. QED
        BY <4>1, <4>2, <4>3, <4>4
    <3>8. Pipe(c)'
      BY <3>4, <3>7 DEF Pipe, Ahead
    <3>. QED
      BY <1>1, <2>1, <3>1, <3>8 DEF StreamOK, Waiting, Ordered
  <2>. QED
    BY <1>1, <2>2, <2>3
<1>. QED
  BY <1>2, <1>3 DEF SInv

\* The read loop takes a frame from the wire into its hand.
LEMMA ReadStreams ==
  ASSUME TInv, FInv, SInv, Read
  PROVE  SInv'
<1>1. PICK f \in Frames :
           /\ up # <<>> /\ f = Head(up) /\ up' = Tail(up) /\ reader.pc = "idle" /\ f.id \in Ids
           /\ \/ reader' = NoReader
              \/ /\ pending[Table(f)][f.id] \in Calls
                 /\ reader' = [pc |-> "send", call |-> pending[Table(f)][f.id], kind |-> Table(f), frame |-> f]
           /\ UNCHANGED <<call, pending, chan, closed, nextId, link, down, drops, agent>>
  BY ReadShape
<1>u. UNCHANGED <<call, chan, jobs>>
  BY <1>1 DEF agent
<1>2. SUFFICES ASSUME NEW c \in Streams PROVE StreamOK(c)'
  BY DEF SInv
<1>3. /\ c \in Calls /\ StreamOK(c) /\ "stream" \in Kinds /\ up \in Seq(Frames)
  BY StreamFacts DEF SInv
<1>4. CASE ~Waiting(c)
  <2>1. ~Waiting(c)' /\ call' = call
    BY <1>u, <1>4 DEF Waiting
  <2>. QED
    BY <1>3, <2>1 DEF StreamOK, Ordered
<1>5. CASE Waiting(c)
  <2>. DEFINE i == call[c].id
  <2>1. Pipe(c)
    BY <1>3, <1>5 DEF StreamOK
  <2>2. /\ InOrder(Tail(up), i) /\ DataLines(Tail(up), i) \subseteq DataLines(up, i)
        /\ Head(up).type = "data" /\ Head(up).id = i =>
             Head(up).line \in DataLines(up, i) /\ Ahead({Head(up).line}, DataLines(Tail(up), i))
    <3>1. InOrder(up, i)
      BY <2>1 DEF Pipe
    <3>2. up # <<>>
      BY <1>1
    <3>. HIDE DEF i, Frames
    <3>. QED
      BY <1>3, <3>1, <3>2, TailFrames, Zenon
  <2>3. InHand(c) = {}
    BY <1>1 DEF InHand, Reading
  <2>4. /\ Queued(c)' = Queued(c) /\ Shown(c)' = Shown(c) /\ ToCome(call[c].id)' = ToCome(i)
        /\ Wire(call[c].id)' = DataLines(Tail(up), i)
        /\ InOrder(chan[c]["stream"], call[c].id)' /\ InOrder(up, call[c].id)'
    <3>1. UNCHANGED <<call, chan, jobs>> /\ up' = Tail(up) /\ InOrder(Tail(up), i)
      BY <1>1, <1>u, <2>2
    <3>2. InOrder(chan[c]["stream"], i)
      BY <2>1 DEF Pipe
    <3>3. Queued(c)' = Queued(c) /\ Shown(c)' = Shown(c)
      BY <3>1 DEF Queued, Shown, LinesOf, DataLines, DataAt
    <3>4. ToCome(call[c].id)' = ToCome(i)
      BY <3>1 DEF ToCome
    <3>5. Wire(call[c].id)' = DataLines(Tail(up), i)
      BY <3>1 DEF Wire, DataLines, DataAt
    <3>6. InOrder(chan[c]["stream"], call[c].id)' /\ InOrder(up, call[c].id)'
      BY <3>1, <3>2 DEF InOrder, DataAt
    <3>. QED
      BY <3>3, <3>4, <3>5, <3>6
  <2>5. /\ InHand(c)' \subseteq {f.line}
        /\ InHand(c)' # {} => f.type = "data" /\ f.id = i
    <3>1. ASSUME Reading(c, "stream")', reader'.frame.type = "data"
          PROVE  reader'.frame = f /\ f.type = "data" /\ f.id = i
      <4>1. reader' # NoReader
        BY <3>1 DEF Reading, NoReader
      <4>2. /\ reader' = [pc |-> "send", call |-> pending[Table(f)][f.id], kind |-> Table(f), frame |-> f]
            /\ pending[Table(f)][f.id] \in Calls
        BY <1>1, <4>1
      <4>3. reader'.frame = f /\ pending["stream"][f.id] = c
        BY <3>1, <4>2 DEF Reading
      <4>4. call[c].id = f.id
        BY <1>1, <1>3, <4>3, Disjoint DEF FInv, PendingOK
      <4>. QED
        BY <3>1, <4>3, <4>4
    <3>. QED
      BY <3>1 DEF InHand
  <2>6. /\ Ahead(Shown(c), Queued(c) \cup InHand(c) \cup Wire(i) \cup ToCome(i))
        /\ Ahead(Queued(c), InHand(c) \cup Wire(i) \cup ToCome(i))
        /\ Ahead(InHand(c), Wire(i) \cup ToCome(i))
        /\ Ahead(Wire(i), ToCome(i))
        /\ Wire(i) = DataLines(up, i)
    BY <2>1 DEF Pipe, Wire
  <2>7. InHand(c)' # {} => f.line \in Wire(i) /\ Ahead({f.line}, DataLines(Tail(up), i))
    BY <1>1, <2>2, <2>5, <2>6
  <2>8. Pipe(c)'
    <3>. HIDE DEF i
    <3>. QED
      BY <2>2, <2>4, <2>5, <2>6, <2>7 DEF Pipe, Ahead
  <2>. QED
    BY <1>3, <1>u, <2>8 DEF StreamOK, Waiting, Ordered
<1>. QED
  BY <1>4, <1>5

\* It puts the frame in its hand into the channel, or drops it.
LEMMA PushStreams ==
  ASSUME TInv, FInv, SInv, Push \/ PushResult
  PROVE  SInv'
<1>1. /\ reader.pc = "send" /\ reader' = NoReader
      /\ UNCHANGED <<call, pending, closed, nextId, wire, agent>>
      /\ \A c \in Calls, k \in Kinds :
               \/ chan'[c][k] = chan[c][k]
               \/ Reading(c, k) /\ chan'[c][k] = Append(chan[c][k], reader.frame)
  BY PushShape
<1>u. UNCHANGED <<call, up, jobs>> /\ reader.frame \in Frames
  BY <1>1, ReaderState DEF agent, wire
<1>2. SUFFICES ASSUME NEW c \in Streams PROVE StreamOK(c)'
  BY DEF SInv
<1>3. c \in Calls /\ StreamOK(c) /\ "stream" \in Kinds /\ chan[c]["stream"] \in Seq(Frames)
  BY StreamFacts DEF SInv
<1>. DEFINE i == call[c].id
            s == chan[c]["stream"]
            f == reader.frame
<1>n. InHand(c)' = {}
  BY <1>1 DEF InHand, Reading, NoReader
<1>t. ToCome(call[c].id)' = ToCome(call[c].id)
  BY <1>u DEF ToCome
<1>4. CASE chan'[c]["stream"] = chan[c]["stream"]
  <2>1. Waiting(c) => InOrder(chan[c]["stream"], i) /\ InOrder(up, i)
    BY <1>3 DEF StreamOK, Pipe
  <2>2. Queued(c)' = Queued(c)
    BY <1>4, <1>u DEF Queued
  <2>3. DataLines(up', i) = Wire(i)
    BY <1>u DEF Wire
  <2>. QED
    BY <1>3, <1>4, <1>n, <1>t, <1>u, <2>1, <2>2, <2>3, StaysInOrder
<1>5. CASE ~Waiting(c)
  <2>1. ~Waiting(c)'
    BY <1>u, <1>5 DEF Waiting
  <2>. QED
    BY <1>3, <1>u, <2>1 DEF StreamOK, Ordered
<1>6. CASE Waiting(c) /\ Reading(c, "stream") /\ chan'[c]["stream"] = Append(s, f)
  <2>1. Pipe(c) /\ InOrder(s, i) /\ Queued(c) = DataLines(s, i)
    BY <1>3, <1>6 DEF StreamOK, Pipe, Queued
  <2>2. InHand(c) = IF f.type = "data" THEN {f.line} ELSE {}
    BY <1>6 DEF InHand
  <2>3. f.type = "data" /\ f.id = i => Ahead(DataLines(s, i), {f.line})
    BY <2>1, <2>2 DEF Pipe, Ahead
  <2>4. /\ InOrder(Append(s, f), i)
        /\ DataLines(Append(s, f), i) \subseteq
              DataLines(s, i) \cup (IF f.type = "data" /\ f.id = i THEN {f.line} ELSE {})
    <3>1. s \in Seq(Frames) /\ f \in Frames
      BY <1>3, <1>u
    <3>. HIDE DEF s, f, i, Frames
    <3>. QED
      BY <2>1, <2>3, <3>1, AppendFrames
  <2>5. Queued(c)' = DataLines(chan'[c]["stream"], i)
    BY <1>u DEF Queued, DataLines, DataAt
  <2>6. Queued(c)' \subseteq Queued(c) \cup InHand(c)
    BY <1>6, <2>1, <2>2, <2>4, <2>5
  <2>7. /\ Shown(c)' = Shown(c) /\ Wire(call[c].id)' = Wire(i) /\ ToCome(call[c].id)' = ToCome(i)
        /\ InOrder(up, call[c].id)'
    BY <1>u, <2>1 DEF Shown, LinesOf, Wire, ToCome, InOrder, DataLines, DataAt, Pipe
  <2>8. InOrder(chan[c]["stream"], call[c].id)'
    <3>1. InOrder(chan'[c]["stream"], i) /\ call'[c].id = i
      BY <1>6, <1>u, <2>4
    <3>. HIDE DEF i, s, f
    <3>. QED
      BY <3>1 DEF InOrder, DataAt
  <2>9. /\ Ahead(Shown(c), Queued(c) \cup InHand(c) \cup Wire(i) \cup ToCome(i))
        /\ Ahead(Queued(c), InHand(c) \cup Wire(i) \cup ToCome(i))
        /\ Ahead(InHand(c), Wire(i) \cup ToCome(i))
        /\ Ahead(Wire(i), ToCome(i))
    BY <2>1 DEF Pipe
  <2>10. Pipe(c)'
    <3>. HIDE DEF i, s, f
    <3>. QED
      BY <1>n, <2>6, <2>7, <2>8, <2>9 DEF Pipe, Ahead
  <2>. QED
    BY <1>3, <1>6, <1>u, <2>10 DEF StreamOK, Waiting, Ordered
<1>. QED
  BY <1>1, <1>3, <1>4, <1>5, <1>6

LEMMA PanicStreams ==
  ASSUME TInv, SInv, Panic
  PROVE  SInv'
<1>. SUFFICES ASSUME NEW c \in Streams PROVE StreamOK(c)'
  BY DEF SInv
<1>1. c \in Calls /\ StreamOK(c)
  BY DEF SInv, Calls
<1>2. /\ call'[c].out = call[c].out /\ ~Waiting(c)' /\ call'[c].pc \in {call[c].pc, "gone"}
  BY <1>1, PanicShape
<1>3. call'[c].pc \in Ended \/ call[c].out = <<>>
  <2>1. CASE call'[c].pc = call[c].pc
    BY <1>1, <1>2, <2>1 DEF StreamOK, Waiting
  <2>2. CASE call'[c].pc = "gone"
    BY <2>2 DEF Ended
  <2>. QED
    BY <1>2, <2>1, <2>2
<1>. QED
  BY <1>1, <1>2, <1>3, NotWaiting

\* The agent sends a frame that carries no line, or the next line of its stream.
LEMMA EmitStreams ==
  ASSUME TInv, FInv, SInv, NEW f \in Frames, Emit(f), UNCHANGED <<call, chan, reader>>,
         \A i : ToCome(i)' \subseteq ToCome(i),
         f.type = "data" =>
            f.line \in ToCome(f.id) /\ \A a \in ToCome(f.id)' : Before(f.line, a)
  PROVE  SInv'
<1>2. SUFFICES ASSUME NEW c \in Streams PROVE StreamOK(c)'
  BY DEF SInv
<1>3. c \in Calls /\ StreamOK(c) /\ up \in Seq(Frames)
  BY StreamFacts DEF SInv
<1>4. CASE ~Waiting(c)
  <2>1. ~Waiting(c)'
    BY <1>4 DEF Waiting
  <2>. QED
    BY <1>3, <2>1 DEF StreamOK, Ordered
<1>5. CASE Waiting(c)
  <2>i. PICK i : i = call[c].id
    OBVIOUS
  <2>1. Pipe(c)
    BY <1>3, <1>5 DEF StreamOK
  <2>2. /\ InOrder(up, i) /\ Wire(i) = DataLines(up, i)
        /\ Ahead(Shown(c), Queued(c) \cup InHand(c) \cup Wire(i) \cup ToCome(i))
        /\ Ahead(Queued(c), InHand(c) \cup Wire(i) \cup ToCome(i))
        /\ Ahead(InHand(c), Wire(i) \cup ToCome(i))
        /\ Ahead(Wire(i), ToCome(i))
    BY <2>1, <2>i DEF Pipe, Wire
  <2>3. f.type = "data" /\ f.id = i => Ahead(DataLines(up, i), {f.line})
    BY <2>2 DEF Ahead
  <2>4. up' \in {up, Append(up, f)}
    BY EmitType
  <2>5. /\ InOrder(up', i)
        /\ DataLines(up', i) \subseteq DataLines(up, i) \cup (IF f.type = "data" /\ f.id = i THEN {f.line} ELSE {})
    <3>1. CASE up' = up
      BY <2>2, <3>1
    <3>2. CASE up' = Append(up, f)
      <4>. HIDE DEF Frames
      <4>1. /\ InOrder(Append(up, f), i)
            /\ DataLines(Append(up, f), i) \subseteq
                 DataLines(up, i) \cup (IF f.type = "data" /\ f.id = i THEN {f.line} ELSE {})
        BY <1>3, <2>2, <2>3, AppendFrames
      <4>. QED
        BY <3>2, <4>1
    <3>. QED
      BY <2>4, <3>1, <3>2
  <2>6. /\ Queued(c)' = Queued(c) /\ Shown(c)' = Shown(c) /\ InHand(c)' = InHand(c)
        /\ InOrder(chan[c]["stream"], call[c].id)' /\ call'[c].id = i
    BY <2>1, <2>i DEF Queued, Shown, InHand, Reading, LinesOf, InOrder, DataLines, DataAt, Pipe
  <2>7. Wire(i)' = DataLines(up', i) /\ InOrder(up, call[c].id)'
    BY <2>5, <2>6 DEF Wire, InOrder, DataLines, DataAt
  <2>8. Wire(call[c].id)' = Wire(i)' /\ ToCome(call[c].id)' = ToCome(i)'
    BY <2>6 DEF Wire, ToCome, DataLines, DataAt
  <2>9. /\ \A a \in Wire(i)' : a \in Wire(i) \/ (f.type = "data" /\ f.id = i /\ a = f.line)
        /\ \A a \in ToCome(i)' : a \in ToCome(i)
        /\ f.type = "data" /\ f.id = i => f.line \in ToCome(i) /\ \A a \in ToCome(i)' : Before(f.line, a)
    BY <2>2, <2>5, <2>7
  <2>10. Pipe(c)'
    BY <2>2, <2>6, <2>7, <2>8, <2>9 DEF Pipe, Ahead
  <2>. QED
    BY <1>3, <2>10 DEF StreamOK, Waiting, Ordered
<1>. QED
  BY <1>4, <1>5

LEMMA AgentStreams ==
  ASSUME TInv, FInv, HInv, SInv, Agent
  PROVE  SInv'
<1>1. CASE AgentAnswers
  <2>1. PICK r \in down, says \in {"ok", "refused"}, type \in {"reply", "result"}, error \in BOOLEAN :
           LET f == [id |-> r.id, type |-> type, line |-> <<>>, says |-> says,
                      error |-> error] IN
            Emit(f) /\ f \in Frames /\ UNCHANGED <<master, link, drops, jobs>>
    BY <1>1, AnswersShape
  <2>. DEFINE f == [id |-> r.id, type |-> type, line |-> <<>>, says |-> says,
                      error |-> error]
  <2>2. f \in Frames /\ Emit(f) /\ f.type # "data" /\ UNCHANGED <<call, chan, reader>>
    BY <2>1 DEF master
  <2>3. \A i : ToCome(i)' = ToCome(i)
    BY <2>1 DEF ToCome
  <2>. HIDE DEF f
  <2>. QED
    BY <2>2, <2>3, EmitStreams
<1>2. CASE AgentStarts
  <2>1. PICK r \in down, says \in {"ok", "refused"} :
           LET j == [id |-> r.id, says |-> says, run |-> runs[r.of].n + 1, line |-> 0] IN
            /\ r \in Requests /\ jobs' = jobs \cup {j} /\ UNCHANGED <<master, link, up, drops>>
    BY <1>2, StartsShape
  <2>2. UNCHANGED <<call, chan, reader, up>>
    BY <2>1 DEF master
  <2>3. \A i : i # r.id => ToCome(i)' \subseteq ToCome(i)
    BY <2>1 DEF ToCome
  <2>4. SUFFICES ASSUME NEW c \in Streams PROVE StreamOK(c)'
    BY DEF SInv
  <2>5. c \in Calls /\ StreamOK(c) /\ "stream" \in Kinds /\ c \notin Probes
    BY StreamFacts DEF SInv
  <2>6. CASE ~(Waiting(c) /\ call[c].id = r.id)
    <3>1. CASE Waiting(c)
      BY <2>2, <2>3, <2>5, <2>6, <3>1, PassedBy
    <3>2. CASE ~Waiting(c)
      <4>1. ~Waiting(c)'
        BY <2>2, <3>2 DEF Waiting
      <4>. QED
        BY <2>2, <2>5, <4>1 DEF StreamOK, Ordered
    <3>. QED
      BY <3>1, <3>2
  <2>7. CASE Waiting(c) /\ call[c].id = r.id
    <3>i. PICK i : i = r.id
      OBVIOUS
    <3>1. RequestOK(r) /\ c = r.of
      BY <2>5, <2>7 DEF FInv, RequestOK
    <3>2. Unseen(i)
      BY <3>1, <3>i DEF RequestOK
    <3>3. call[c].out = <<>>
      BY <2>5, <2>7, <3>1 DEF StreamOK, HInv, HeardOK
    <3>4. /\ \A n \in 1..Len(up) : up[n].id # i
          /\ \A n \in 1..Len(chan[c]["stream"]) : chan[c]["stream"][n].id # i
      BY <2>5, <3>2 DEF Unseen, OnWire, Held
    <3>5. InHand(c) = {}
      <4>1. ASSUME Reading(c, "stream") PROVE FALSE
        <5>1. reader.frame \in Held(c, "stream")
          BY <4>1 DEF Held
        <5>. QED
          BY <2>5, <2>7, <3>2, <3>i, <5>1, StreamFacts DEF Unseen
      <4>. QED
        BY <4>1 DEF InHand
    <3>6. /\ Shown(c)' = {} /\ Queued(c)' = {} /\ InHand(c)' = {} /\ Wire(call[c].id)' = {}
          /\ InOrder(chan[c]["stream"], call[c].id)' /\ InOrder(up, call[c].id)'
      <4>1. Shown(c)' = {} /\ InHand(c)' = {}
        <5>1. Shown(c)' = LinesOf(<<>>)
          BY <2>2, <3>3 DEF Shown, LinesOf
        <5>2. LinesOf(<<>>) = {}
          BY DEF LinesOf
        <5>3. InHand(c)' = InHand(c)
          BY <2>2 DEF InHand, Reading
        <5>. QED
          BY <3>5, <5>1, <5>2, <5>3
      <4>2. call'[c].id = i
        BY <2>2, <2>7, <3>i
      <4>3. Queued(c)' = {} /\ InOrder(chan[c]["stream"], call[c].id)'
        BY <2>2, <3>4, <4>2 DEF Queued, DataLines, DataAt, InOrder
      <4>4. Wire(call[c].id)' = {} /\ InOrder(up, call[c].id)'
        BY <2>2, <3>4, <4>2 DEF Wire, DataLines, DataAt, InOrder
      <4>. QED
        BY <4>1, <4>3, <4>4
    <3>7. Pipe(c)'
      BY <3>6 DEF Pipe, Ahead
    <3>. QED
      BY <2>2, <2>5, <3>7 DEF StreamOK, Waiting, Ordered
  <2>. QED
    BY <2>6, <2>7
<1>3. CASE AgentWrites
  <2>1. PICK j \in jobs :
           LET f == [id |-> j.id, type |-> "data", line |-> <<j.run, j.line + 1>>, says |-> "ok",
                      error |-> FALSE]
               k == [id |-> j.id, says |-> j.says, run |-> j.run, line |-> j.line + 1]
           IN
            /\ j \in Jobs /\ k \in Jobs /\ f \in Frames
            /\ Emit(f) /\ jobs' = (jobs \ {j}) \cup {k}
            /\ UNCHANGED <<master, link, down, drops, runs>>
    BY <1>3, WritesShape
  <2>. DEFINE f == [id |-> j.id, type |-> "data", line |-> <<j.run, j.line + 1>>, says |-> "ok",
                      error |-> FALSE]
              k == [id |-> j.id, says |-> j.says, run |-> j.run, line |-> j.line + 1]
  <2>2. /\ f.id = j.id /\ f.line = <<j.run, j.line + 1>> /\ k.id = j.id /\ k.run = j.run
        /\ k.line = j.line + 1
    OBVIOUS
  <2>3. /\ f \in Frames /\ Emit(f) /\ jobs' = (jobs \ {j}) \cup {k} /\ UNCHANGED <<call, chan, reader>>
        /\ j \in Jobs /\ j.line \in Nat /\ j.run \in Nat /\ k \in Jobs
    BY <2>1, Disjoint DEF master, Jobs
  <2>4. j.line + 1 \in 1..Lines
    BY <2>2, <2>3, Disjoint DEF Jobs
  <2>. HIDE DEF f, k
  <2>5. \A i : ToCome(i)' \subseteq ToCome(i)
    <3>. SUFFICES ASSUME NEW i, NEW a \in Nat \X (1..Lines), NEW h \in jobs', h.id = i, a[1] = h.run, h.line < a[2]
                  PROVE  \E l \in jobs : l.id = i /\ a[1] = l.run /\ l.line < a[2]
      BY DEF ToCome
    <3>1. CASE h \in jobs
      BY <3>1
    <3>2. CASE h = k
      <4>1. a[2] \in Nat
        OBVIOUS
      <4>2. j.line < a[2]
        BY <2>2, <2>3, <3>2, <4>1
      <4>. QED
        BY <2>2, <3>2, <4>2
    <3>. QED
      BY <2>3, <3>1, <3>2
  <2>6. f.line \in ToCome(f.id)
    <3>1. f.line \in Nat \X (1..Lines) /\ f.line[1] = j.run /\ j.line < f.line[2]
      BY <2>2, <2>3, <2>4
    <3>. QED
      BY <2>2, <3>1 DEF ToCome
  <2>7. ASSUME NEW a \in ToCome(f.id)' PROVE Before(f.line, a)
    <3>1. PICK h \in jobs' : h.id = f.id /\ a[1] = h.run /\ h.line < a[2]
      BY DEF ToCome
    <3>2. h = k
      BY <2>2, <2>3, <3>1, JobsSame
    <3>. QED
      BY <2>2, <3>1, <3>2 DEF Before
  <2>. QED
    BY <2>3, <2>5, <2>6, <2>7, EmitStreams
<1>4. CASE AgentEnds
  <2>1. PICK j \in jobs :
           LET f == [id |-> j.id, type |-> "reply", line |-> <<>>, says |-> j.says,
                      error |-> FALSE] IN
            /\ f \in Frames /\ Emit(f) /\ jobs' = jobs \ {j}
            /\ UNCHANGED <<master, link, down, drops, runs>>
    BY <1>4, EndsShape
  <2>. DEFINE f == [id |-> j.id, type |-> "reply", line |-> <<>>, says |-> j.says,
                      error |-> FALSE]
  <2>2. f \in Frames /\ Emit(f) /\ f.type # "data" /\ UNCHANGED <<call, chan, reader>>
    BY <2>1 DEF master
  <2>3. \A i : ToCome(i)' \subseteq ToCome(i)
    BY <2>1 DEF ToCome
  <2>. HIDE DEF f
  <2>. QED
    BY <2>2, <2>3, EmitStreams
<1>. QED
  BY <1>1, <1>2, <1>3, <1>4 DEF Agent

LEMMA NextSInv == TInv /\ FInv /\ HInv /\ SInv /\ [Next]_vars => SInv'
<1>. SUFFICES ASSUME TInv, FInv, HInv, SInv, [Next]_vars PROVE SInv'
  OBVIOUS
<1>1. ASSUME UNCHANGED <<call, chan, reader, jobs>>, up' \in {up, <<>>} PROVE SInv'
  <2>1. ASSUME NEW c \in Streams PROVE StreamOK(c)'
    <3>1. ToCome(call[c].id)' = ToCome(call[c].id)
      BY <1>1 DEF ToCome
    <3>. QED
      BY <1>1, <3>1, PassedBy DEF SInv
  <2>. QED
    BY <2>1 DEF SInv
<1>2. UNCHANGED vars \/ Drop \/ Reconnect => UNCHANGED <<call, chan, reader, jobs>> /\ up' \in {up, <<>>}
  BY DEF Drop, Reconnect, vars, master, wire, agent
<1>3. ASSUME NEW c \in Calls, Begin(c) \/ Step(c) \/ Cancel(c) PROVE SInv'
  BY <1>3, BeginStreams, OverOrCopies, OverStreams, CopiesStreams, HttpStreams, CancelStreams DEF Step
<1>4. CASE ReadLoop
  BY <1>4, ReadStreams, PushStreams, PanicStreams DEF ReadLoop
<1>. QED
  BY <1>1, <1>2, <1>3, <1>4, AgentStreams DEF Next

\* Whatever frames are lost, the browser sees lines of one execution only, in the
\* order in which the agent wrote them and none twice (CallAgentStream,
\* routeRPCStreamData).
THEOREM StreamsInOrder == Spec => []ProgressIsOneRun
<1>1. SInv => ProgressIsOneRun
  BY DEF SInv, StreamOK, Ordered, Before, ProgressIsOneRun
<1>. QED
  BY <1>1, InitTInv, InitFInv, InitHInv, InitSInv, NextTInv, NextFInv, NextHInv, NextSInv, PTL DEF Spec

-----------------------------------------------------------------------------
(* How often a call may be executed.                                         *)

\* The executions on their way to the agent, and those that the goroutine may
\* still ask for.
OnWay(c, k) == IF \E r \in down : r.of = c /\ r.kind = k THEN 1 ELSE 0
InFlight(c) == OnWay(c, KindOf(c)) + (IF c \in Probes THEN OnWay(c, "rpc") ELSE 0)
Possible(c) ==
    CASE call[c].pc \in Ended -> 0
      [] call[c].pc = "http"  -> 2 * call[c].left
      [] call[c].pc = "rekey" -> 2 * call[c].left - 1
      [] OTHER -> 2 * Addresses + (IF Waiting(c) THEN 0 ELSE 1)
                    + (IF call[c].kind = "probe" THEN 1 ELSE 0)
RunsOK(c) == runs[c].n + InFlight(c) + Possible(c) <= 2 + 2 * Addresses
RInv == \A c \in Calls : RunsOK(c)

\* What is counted is a number, and falls as the goroutine goes on.
Counted(c) ==
    /\ runs[c].n \in Nat /\ InFlight(c) \in 0..2 /\ Possible(c) \in Nat /\ call[c].left \in 0..Addresses
    /\ call[c].pc \in Ended => Possible(c) = 0
    /\ call[c].pc = "http"  => Possible(c) = 2 * call[c].left
    /\ call[c].pc = "rekey" => Possible(c) = 2 * call[c].left - 1
    /\ call[c].pc \in {"wait", "idle", "unused"} =>
          Possible(c) = 2 * Addresses + (IF call[c].pc = "wait" THEN 0 ELSE 1)
                          + (IF call[c].kind = "probe" THEN 1 ELSE 0)
    /\ call[c].pc \in {"unused", "idle", "wait", "http", "rekey"} \cup Ended
    /\ call[c].pc \in {"http", "rekey"} => call[c].left > 0

LEMMA RunsTypes == TInv => \A c \in Calls : Counted(c)
<1>. SUFFICES ASSUME TInv, NEW c \in Calls PROVE Counted(c)
  OBVIOUS
<1>1. call[c] \in CallStates /\ KindOK(c) /\ runs[c].n \in Nat
  BY DEF TInv, TypeOK
<1>2. InFlight(c) \in 0..2
  BY DEF InFlight, OnWay
<1>3. call[c].left \in 0..Addresses /\ call[c].pc \in {"unused", "idle", "wait", "http", "rekey"} \cup Ended
  BY <1>1 DEF CallStates
<1>. QED
  BY <1>1, <1>2, <1>3, Disjoint DEF Counted, Possible, Ended, Waiting, KindOK

LEMMA NowTypes == TInv' => \A c \in Calls : Counted(c)'
<1>1. (TInv => \A c \in Calls : Counted(c))'
  BY RunsTypes, PTL DEF Counted
<1>. QED
  BY <1>1

\* A call that is not executed and asks for no more than before.
LEMMA NoMoreRuns ==
  ASSUME TInv, TInv', RInv, NEW c \in Calls, runs'[c].n = runs[c].n,
         InFlight(c)' + Possible(c)' <= InFlight(c) + Possible(c)
  PROVE  RunsOK(c)'
<1>1. /\ runs[c].n \in Nat /\ InFlight(c) \in Nat /\ Possible(c) \in Nat /\ Addresses \in Nat
      /\ InFlight(c)' \in Nat /\ Possible(c)' \in Nat
      /\ runs[c].n + InFlight(c) + Possible(c) <= 2 + 2 * Addresses
  BY RunsTypes, NowTypes, Disjoint DEF Counted, RInv, RunsOK
<1>. QED
  BY <1>1 DEF RunsOK

\* The requests on their way, when no new one is sent.
LEMMA InFlightLess ==
  ASSUME down' \subseteq down, NEW c
  PROVE  InFlight(c)' <= InFlight(c)
<1>1. \A k : OnWay(c, k)' \in {0, 1} /\ OnWay(c, k) \in {0, 1} /\ OnWay(c, k)' <= OnWay(c, k)
  BY DEF OnWay
<1>2. InFlight(c)' = OnWay(c, KindOf(c))' + (IF c \in Probes THEN OnWay(c, "rpc")' ELSE 0)
  BY DEF InFlight, KindOf
<1>. QED
  BY <1>1, <1>2 DEF InFlight

LEMMA PossibleSame ==
  ASSUME NEW c, call'[c].pc = call[c].pc, call'[c].kind = call[c].kind, call'[c].left = call[c].left
  PROVE  Possible(c)' = Possible(c)
  BY DEF Possible, Waiting

LEMMA InitRInv == Init => RInv
<1>. SUFFICES ASSUME Init, NEW c \in Calls PROVE RunsOK(c)
  BY DEF RInv
<1>1. TInv /\ call[c].pc \in {"idle", "unused"} /\ runs[c].n = 0 /\ down = {}
  <2>1. TInv
    BY InitTInv
  <2>. QED
    BY <2>1 DEF Init
<1>2. InFlight(c) = 0
  BY <1>1 DEF InFlight, OnWay
<1>. QED
  <2>1. Counted(c) /\ Addresses \in Nat
    BY <1>1, RunsTypes, Disjoint
  <2>. QED
    BY <1>1, <1>2, <2>1 DEF RunsOK, Counted

\* The calls that a step of another one does not concern.
LEMMA OthersRuns ==
  ASSUME TInv, TInv', RInv, NEW c \in Calls, \A d \in Calls \ {c} : call'[d] = call[d] /\ runs'[d] = runs[d],
         \A r \in down' : r \in down \/ r.of = c
  PROVE  \A d \in Calls \ {c} : RunsOK(d)'
<1>. TAKE d \in Calls \ {c}
<1>1. Possible(d)' = Possible(d) /\ Possible(d) \in Nat /\ InFlight(d) \in Nat
  BY PossibleSame, RunsTypes DEF Ended, Counted
<1>2. InFlight(d)' <= InFlight(d)
  <2>1. \A k : OnWay(d, k)' \in {0, 1} /\ OnWay(d, k) \in {0, 1} /\ OnWay(d, k)' <= OnWay(d, k)
    BY DEF OnWay
  <2>2. InFlight(d)' = OnWay(d, KindOf(d))' + (IF d \in Probes THEN OnWay(d, "rpc")' ELSE 0)
    BY DEF InFlight, KindOf
  <2>. QED
    BY <2>1, <2>2 DEF InFlight
<1>4. InFlight(d)' \in Nat
  BY NowTypes DEF Counted
<1>5. InFlight(d)' + Possible(d)' <= InFlight(d) + Possible(d)
  BY <1>1, <1>2, <1>4
<1>. QED
  BY <1>5, NoMoreRuns

LEMMA BeginRuns ==
  ASSUME TInv, TInv', FInv, RInv, NEW c \in Calls, Begin(c)
  PROVE  RInv'
<1>1. /\ call[c].pc = "idle" /\ call[c].kind \in Kinds /\ KindOK(c)
      /\ \A d \in Calls \ {c} : call'[d] = call[d]
      /\ runs' = runs
      /\ Sends(c) \/ Falls(c)
  BY BeginShape DEF agent
<1>2. \A r \in down' : r \in down \/ r.of = c
  BY <1>1 DEF Sends, Falls
<1>3. \A d \in Calls \ {c} : RunsOK(d)'
  BY <1>1, <1>2, OthersRuns
<1>4. CASE Falls(c)
  <2>1. InFlight(c)' = InFlight(c)
    BY <1>4 DEF Falls, InFlight, OnWay, KindOf
  <2>2. Possible(c)' <= Possible(c) /\ Possible(c) \in Nat /\ Possible(c)' \in Nat
    BY <1>1, <1>4, RunsTypes, NowTypes, Disjoint DEF Falls, Ended, Counted
  <2>3. InFlight(c)' + Possible(c)' <= InFlight(c) + Possible(c)
    BY <2>1, <2>2, RunsTypes DEF Counted
  <2>4. RunsOK(c)'
    BY <1>1, <2>3, NoMoreRuns
  <2>. QED
    BY <1>3, <2>4 DEF RInv
<1>5. CASE Sends(c)
  <2>1. /\ call'[c].pc = "wait" /\ call'[c].kind = call[c].kind
        /\ \A r \in down' : r \in down \/ (r.of = c /\ r.kind = call[c].kind)
    BY <1>5 DEF Sends
  <2>2. \A k : OnWay(c, k)' \in {0, 1} /\ OnWay(c, k) \in {0, 1}
               /\ (k # call[c].kind => OnWay(c, k)' <= OnWay(c, k))
    BY <2>1 DEF OnWay
  <2>3. InFlight(c)' = OnWay(c, KindOf(c))' + (IF c \in Probes THEN OnWay(c, "rpc")' ELSE 0)
    BY DEF InFlight, KindOf
  <2>4. c \in Probes => KindOf(c) # "rpc"
    BY Disjoint
  <2>5. InFlight(c)' <= InFlight(c) + 1
    BY <2>2, <2>3, <2>4 DEF InFlight
  <2>6. Possible(c)' + 1 = Possible(c) /\ Possible(c)' \in Nat
    <3>1. Counted(c) /\ Counted(c)' /\ Addresses \in Nat
      BY RunsTypes, NowTypes, Disjoint
    <3>2. /\ Possible(c) = 2 * Addresses + 1 + (IF call[c].kind = "probe" THEN 1 ELSE 0)
          /\ Possible(c)' = 2 * Addresses + (IF call'[c].kind = "probe" THEN 1 ELSE 0)
      BY <1>1, <2>1, <3>1 DEF Counted
    <3>. QED
      BY <2>1, <3>1, <3>2
  <2>7. InFlight(c)' + Possible(c)' <= InFlight(c) + Possible(c)
    BY <2>5, <2>6, RunsTypes, NowTypes DEF Counted
  <2>8. RunsOK(c)'
    BY <1>1, <2>7, NoMoreRuns
  <2>. QED
    BY <1>3, <2>8 DEF RInv
<1>. QED
  BY <1>1, <1>4, <1>5

LEMMA StepRuns ==
  ASSUME TInv, TInv', FInv, RInv, NEW c \in Calls, Step(c) \/ Cancel(c)
  PROVE  RInv'
<1>1. CASE Over(c)
  <2>1. /\ Waiting(c) /\ Outcomes(c) /\ \A d \in Calls \ {c} : call'[d] = call[d]
        /\ down' = down /\ runs' = runs
    BY <1>1, OverShape DEF wire, agent
  <2>2. Possible(c)' <= Possible(c) /\ Possible(c)' \in Nat /\ Possible(c) \in Nat
    <3>1. Counted(c) /\ Counted(c)' /\ Addresses \in Nat
      BY RunsTypes, NowTypes, Disjoint
    <3>2. /\ Possible(c) \in Nat /\ Possible(c)' \in Nat
          /\ Possible(c) = 2 * Addresses + (IF call[c].kind = "probe" THEN 1 ELSE 0)
      BY <2>1, <3>1 DEF Counted, Waiting
    <3>3. CASE call'[c].pc = "idle"
      BY <2>1, <3>1, <3>2, <3>3 DEF Outcomes, Counted
    <3>4. CASE call'[c].pc = "http"
      <4>1. Possible(c)' = 2 * call'[c].left /\ call'[c].left \in 0..Addresses
        BY <3>1, <3>4 DEF Counted
      <4>. QED
        BY <3>1, <3>2, <4>1
    <3>5. CASE call'[c].pc \in Ended
      BY <3>1, <3>2, <3>5 DEF Counted
    <3>. QED
      BY <2>1, <3>3, <3>4, <3>5 DEF Outcomes, Ended
  <2>3. InFlight(c)' = InFlight(c)
    BY <2>1 DEF InFlight, OnWay, KindOf
  <2>4. RunsOK(c)'
    BY <2>1, <2>2, <2>3, RunsTypes, NoMoreRuns DEF Counted
  <2>5. \A d \in Calls \ {c} : RunsOK(d)'
    BY <2>1, OthersRuns
  <2>. QED
    BY <2>4, <2>5 DEF RInv
<1>2. CASE Copies(c) \/ Cancel(c)
  <2>1. /\ \A d \in Calls \ {c} : call'[d] = call[d]
        /\ call'[c].pc = call[c].pc /\ call'[c].kind = call[c].kind /\ call'[c].left = call[c].left
        /\ down' = down /\ runs' = runs
    BY <1>2, CopiesShape, CancelShape DEF wire, agent
  <2>2. Possible(c)' = Possible(c) /\ InFlight(c)' = InFlight(c)
    BY <2>1, PossibleSame DEF InFlight, OnWay, KindOf
  <2>3. Possible(c) \in Nat
    BY RunsTypes DEF Ended, Counted
  <2>4. RunsOK(c)'
    BY <2>1, <2>2, <2>3, RunsTypes, NoMoreRuns DEF Counted
  <2>5. \A d \in Calls \ {c} : RunsOK(d)'
    BY <2>1, OthersRuns
  <2>. QED
    BY <2>4, <2>5 DEF RInv
<1>3. CASE Http(c)
  <2>1. /\ call[c].pc \in {"http", "rekey"} /\ call[c].left > 0 /\ call[c].left \in 0..Addresses
        /\ \A d \in Calls \ {c} : call'[d] = call[d] /\ runs'[d] = runs[d]
        /\ \/ call'[c].pc = "rekey" /\ call[c].pc = "http" /\ call'[c].left = call[c].left
           \/ call'[c].pc = "http" /\ call'[c].left = call[c].left - 1
           \/ call'[c].pc \in {"ok", "refused", "failed"}
        /\ runs'[c].n \in {runs[c].n, runs[c].n + 1} /\ down' = down
    BY <1>3, HttpShape DEF wire
  <2>2. InFlight(c)' = InFlight(c)
    BY <2>1 DEF InFlight, OnWay, KindOf
  <2>3. Possible(c)' + 1 <= Possible(c) /\ Possible(c)' \in Nat /\ Possible(c) \in Nat
    BY <2>1, RunsTypes, NowTypes DEF Ended, Counted
  <2>4. RunsOK(c)'
    <3>1. /\ runs[c].n \in Nat /\ InFlight(c) \in Nat /\ Addresses \in Nat
          /\ runs[c].n + InFlight(c) + Possible(c) <= 2 + 2 * Addresses
      BY RunsTypes, Disjoint DEF RInv, RunsOK, Counted
    <3>. QED
      BY <2>1, <2>2, <2>3, <3>1 DEF RunsOK
  <2>5. \A d \in Calls \ {c} : RunsOK(d)'
    BY <2>1, OthersRuns
  <2>. QED
    BY <2>4, <2>5 DEF RInv
<1>. QED
  BY <1>1, <1>2, <1>3, OverOrCopies DEF Step

\* An execution is one that was on its way.
LEMMA ExecutedRuns ==
  ASSUME TInv, TInv', FInv, RInv, NEW r \in down, down' = down \ {r}, call' = call,
         NEW said \in SUBSET {"ok", "refused"}, Ran(r.of, said)
  PROVE  /\ RInv' /\ runs[r.of].n < 2 + 2 * Addresses
<1>. DEFINE c == r.of
<1>1. c \in Calls /\ runs'[c].n = runs[c].n + 1 /\ \A d \in Calls \ {c} : runs'[d] = runs[d]
  BY RunsType DEF TInv, TypeOK
<1>2. /\ Started(c, r.kind) /\ KindOK(c) /\ r.kind \in Kinds
      /\ \A s \in down : s.of = c /\ s.kind = r.kind => s = r
  BY <1>1 DEF FInv, RequestOK, TInv, TypeOK
<1>3. r.kind = KindOf(c) \/ (c \in Probes /\ r.kind = "rpc")
  BY <1>1, <1>2, Disjoint DEF Started, KindOK
<1>4. /\ OnWay(c, r.kind)' = 0 /\ OnWay(c, r.kind) = 1
      /\ \A k : OnWay(c, k)' \in {0, 1} /\ OnWay(c, k) \in {0, 1} /\ OnWay(c, k)' <= OnWay(c, k)
  BY <1>2 DEF OnWay
<1>5. InFlight(c)' = OnWay(c, KindOf(c))' + (IF c \in Probes THEN OnWay(c, "rpc")' ELSE 0)
  BY DEF InFlight, KindOf
<1>6. c \in Probes => KindOf(c) # "rpc"
  BY <1>1, Disjoint
<1>7. InFlight(c)' + 1 <= InFlight(c)
  BY <1>3, <1>4, <1>5, <1>6 DEF InFlight
<1>8. Possible(c)' = Possible(c) /\ Possible(c) \in Nat
  BY <1>1, PossibleSame, RunsTypes DEF Ended, Counted
<1>. HIDE DEF c
<1>9. RunsOK(c)' /\ runs[c].n < 2 + 2 * Addresses
  <2>1. /\ runs[c].n \in Nat /\ InFlight(c) \in Nat /\ InFlight(c)' \in Nat /\ Addresses \in Nat
        /\ runs[c].n + InFlight(c) + Possible(c) <= 2 + 2 * Addresses
    BY <1>1, RunsTypes, NowTypes, Disjoint DEF RInv, RunsOK, Counted
  <2>. QED
    BY <1>1, <1>7, <1>8, <2>1 DEF RunsOK
<1>10. \A d \in Calls \ {c} : RunsOK(d)'
  BY <1>1, OthersRuns
<1>. QED
  BY <1>9, <1>10 DEF RInv, c

LEMMA NextRInv == TInv /\ TInv' /\ FInv /\ RInv /\ [Next]_vars => RInv'
<1>. SUFFICES ASSUME TInv, TInv', FInv, RInv, [Next]_vars PROVE RInv'
  OBVIOUS
<1>1. ASSUME \A c \in Calls : call'[c].left = call[c].left /\ call'[c].kind = call[c].kind
                               /\ call'[c].pc \in {call[c].pc, "gone"},
             runs' = runs, down' \subseteq down
      PROVE  RInv'
  <2>1. ASSUME NEW c \in Calls PROVE RunsOK(c)'
    <3>1. Possible(c)' <= Possible(c) /\ Possible(c)' \in Nat /\ Possible(c) \in Nat
      <4>1. Possible(c)' = Possible(c) \/ Possible(c)' = 0
        BY <1>1, PossibleSame, NowTypes DEF Ended, Counted
      <4>2. Possible(c) \in Nat
        BY RunsTypes DEF Ended, Counted
      <4>. QED
        BY <4>1, <4>2
    <3>2. InFlight(c)' <= InFlight(c)
      BY <1>1, InFlightLess
    <3>3. InFlight(c)' + Possible(c)' <= InFlight(c) + Possible(c)
      BY <3>1, <3>2, RunsTypes, NowTypes DEF Counted
    <3>. QED
      BY <1>1, <3>3, NoMoreRuns
  <2>. QED
    BY <2>1 DEF RInv
<1>2. CASE UNCHANGED vars
  BY <1>1, <1>2 DEF vars, master, wire, agent
<1>3. CASE Read \/ Push \/ PushResult \/ AgentWrites \/ AgentEnds \/ Drop \/ Reconnect
  <2>1. call' = call /\ runs' = runs /\ down' \subseteq down
    BY <1>3 DEF Read, Push, PushResult, AgentWrites, AgentEnds, Drop, Reconnect, master, wire, agent
  <2>. QED
    BY <1>1, <2>1
<1>4. CASE Panic
  <2>1. \A c \in Calls : call'[c].left = call[c].left /\ call'[c].kind = call[c].kind
                               /\ call'[c].pc \in {call[c].pc, "gone"}
    BY <1>4, PanicShape
  <2>2. runs' = runs /\ down' \subseteq down
    BY <1>4, PanicShape
  <2>. QED
    BY <1>1, <2>1, <2>2
<1>5. CASE AgentAnswers
  <2>1. PICK r \in down, says \in {"ok", "refused"} : down' = down \ {r} /\ Ran(r.of, {says}) /\ call' = call
    BY <1>5, AnswersShape DEF master
  <2>2. {says} \in SUBSET {"ok", "refused"}
    OBVIOUS
  <2>. QED
    BY <2>1, <2>2, ExecutedRuns
<1>6. CASE AgentStarts
  <2>1. PICK r \in down, says \in {"ok", "refused"} : down' = down \ {r} /\ Ran(r.of, {says}) /\ call' = call
    BY <1>6, StartsShape DEF master
  <2>2. {says} \in SUBSET {"ok", "refused"}
    OBVIOUS
  <2>. QED
    BY <2>1, <2>2, ExecutedRuns
<1>. QED
  BY <1>2, <1>3, <1>4, <1>5, <1>6, BeginRuns, StepRuns DEF Next, ReadLoop, Agent

-----------------------------------------------------------------------------
(* Calls keep the contract: every step is a step of CallContract, or none.   *)

PhaseOf(c) == IF call[c].pc \in Ended THEN call[c].pc ELSE IF New(c) THEN "idle" ELSE "open"

LEMMA PhaseIs == Phase = [c \in Calls |-> PhaseOf(c)]
  BY DEF Phase, PhaseOf

LEMMA PhaseNow == Phase' = [c \in Calls |-> PhaseOf(c)']
  BY DEF Phase, PhaseOf

LEMMA PhaseMoves ==
  ASSUME NEW c \in Calls, NEW p, PhaseOf(c)' = p, \A d \in Calls \ {c} : PhaseOf(d)' = PhaseOf(d)
  PROVE  Phase' = [Phase EXCEPT ![c] = p] /\ Phase[c] = PhaseOf(c)
  BY PhaseIs, PhaseNow

LEMMA PhaseStays ==
  ASSUME \A c \in Calls : PhaseOf(c)' = PhaseOf(c)
  PROVE  Phase' = Phase
  BY PhaseIs, PhaseNow

LEMMA OthersPhase ==
  ASSUME NEW c, NEW d, d # c, call'[d] = call[d]
  PROVE  PhaseOf(d)' = PhaseOf(d)
  BY DEF PhaseOf, New, KindOf, Ended

LEMMA SamePhase ==
  ASSUME NEW c, call'[c].pc = call[c].pc, call'[c].kind = call[c].kind
  PROVE  PhaseOf(c)' = PhaseOf(c)
  BY DEF PhaseOf, New, KindOf, Ended

\* The steps of the contract.
LEMMA ByStart ==
  ASSUME NEW c \in Calls, NEW p \in {"open", "failed"}, Phase[c] = "idle",
         Phase' = [Phase EXCEPT ![c] = p], runs' = runs
  PROVE  Contract!Next
  BY DEF Contract!Next, Contract!Start

LEMMA ByReturn ==
  ASSUME NEW c \in Calls, NEW p \in runs[c].said \cup {"ended", "failed"}, Phase[c] = "open",
         p = "ended" => runs[c].said # {},
         Phase' = [Phase EXCEPT ![c] = p], runs' = runs
  PROVE  Contract!Next
  BY DEF Contract!Next, Contract!Return

LEMMA ByExecute ==
  ASSUME NEW c \in Calls, NEW says \in {"ok", "refused", "lost"}, Phase[c] # "idle",
         runs[c].n < 2 + 2 * Addresses, Ran(c, {says} \ {"lost"}), Phase' = Phase
  PROVE  Contract!Next
  BY DEF Contract!Next, Contract!Execute, Contract!Ran, Ran

LEMMA ByExchange ==
  ASSUME NEW c \in Calls, NEW says \in {"ok", "refused", "lost"}, NEW p \in {"ok", "refused", "failed"},
         Phase[c] = "open", p \in {says, "failed"},
         runs[c].n < 2 + 2 * Addresses, Ran(c, {says} \ {"lost"}), Phase' = [Phase EXCEPT ![c] = p]
  PROVE  Contract!Next
  BY DEF Contract!Next, Contract!Exchange, Contract!Ran, Ran

LEMMA ByCrash ==
  ASSUME Phase' = [c \in Calls |-> IF Phase[c] = "open" THEN "gone" ELSE Phase[c]], runs' = runs
  PROVE  Contract!Next
  BY DEF Contract!Next, Contract!Crash

LEMMA ContractInit == Init => Contract!Init
<1>. SUFFICES ASSUME Init PROVE Contract!Init
  OBVIOUS
<1>1. ASSUME NEW c \in Calls PROVE PhaseOf(c) = "idle"
  BY DEF Init, PhaseOf, New, Ended
<1>. QED
  BY <1>1, PhaseIs DEF Init, Contract!Init

LEMMA BeginKeeps ==
  ASSUME TInv, NEW c \in Calls, Begin(c)
  PROVE  [Contract!Next]_(Contract!vars)
<1>1. /\ call[c].pc = "idle" /\ KindOK(c) /\ \A d \in Calls \ {c} : call'[d] = call[d]
      /\ runs' = runs
      /\ Sends(c) \/ Falls(c)
  BY BeginShape DEF agent
<1>2. \A d \in Calls \ {c} : PhaseOf(d)' = PhaseOf(d)
  BY <1>1, OthersPhase
<1>3. PhaseOf(c) = IF call[c].kind = KindOf(c) THEN "idle" ELSE "open"
  BY <1>1 DEF PhaseOf, New, Ended
<1>4. PhaseOf(c)' \in {"open", "failed"}
  <2>1. CASE call'[c].pc \in {"wait", "http", "failed"}
    BY <2>1 DEF PhaseOf, New, Ended
  <2>2. CASE call'[c].pc = "idle"
    <3>1. call'[c].kind = "rpc" /\ c \in Probes /\ KindOf(c) # "rpc"
      BY <1>1, <2>2, Disjoint DEF Sends, Falls, KindOK
    <3>2. KindOf(c)' = KindOf(c)
      BY DEF KindOf
    <3>. QED
      BY <2>2, <3>1, <3>2 DEF PhaseOf, New, Ended
  <2>. QED
    BY <1>1, <2>1, <2>2 DEF Sends, Falls
<1>5. CASE PhaseOf(c) = "idle"
  <2>1. PICK p \in {"open", "failed"} : PhaseOf(c)' = p
    BY <1>4
  <2>2. Phase' = [Phase EXCEPT ![c] = p] /\ Phase[c] = "idle"
    BY <1>2, <1>5, <2>1, PhaseMoves
  <2>. QED
    BY <1>1, <2>2, ByStart
<1>6. CASE PhaseOf(c) = "open" /\ PhaseOf(c)' = "failed"
  <2>1. Phase' = [Phase EXCEPT ![c] = "failed"] /\ Phase[c] = "open"
    BY <1>2, <1>6, PhaseMoves
  <2>. QED
    BY <1>1, <2>1, ByReturn
<1>7. CASE PhaseOf(c) = "open" /\ PhaseOf(c)' = "open"
  <2>1. Phase' = Phase
    BY <1>2, <1>7, PhaseStays
  <2>. QED
    BY <1>1, <2>1 DEF Contract!vars
<1>. QED
  BY <1>3, <1>4, <1>5, <1>6, <1>7

LEMMA OverKeeps ==
  ASSUME TInv, FInv, NEW c \in Calls, Over(c)
  PROVE  [Contract!Next]_(Contract!vars)
<1>1. /\ Waiting(c) /\ Outcomes(c) /\ \A d \in Calls \ {c} : call'[d] = call[d] /\ KindOK(c)
      /\ runs' = runs /\ call[c].kind \in Kinds
  BY OverShape DEF agent, TInv, TypeOK, CallStates
<1>2. \A d \in Calls \ {c} : PhaseOf(d)' = PhaseOf(d)
  BY <1>1, OthersPhase
<1>3. PhaseOf(c) = "open"
  BY <1>1 DEF PhaseOf, New, Ended, Waiting
<1>4. \A f \in Held(c, call[c].kind) : f.type # "data" => f.says \in runs[c].said
  BY <1>1 DEF FInv, HeldOK
<1>5. CASE call'[c].pc \in {"idle", "http"}
  <2>1. PhaseOf(c)' = "open"
    <3>1. CASE call'[c].pc = "http"
      BY <3>1 DEF PhaseOf, New, Ended
    <3>2. CASE call'[c].pc = "idle"
      <4>1. call'[c].kind = "rpc" /\ call[c].kind = "probe"
        BY <1>1, <3>2 DEF Outcomes
      <4>2. c \in Probes /\ KindOf(c) # "rpc" /\ KindOf(c)' = KindOf(c)
        <5>1. KindOK(c)
          BY DEF TInv
        <5>. QED
          BY <4>1, <5>1, Disjoint DEF KindOK, KindOf
      <4>. QED
        BY <3>2, <4>1, <4>2 DEF PhaseOf, New, Ended
    <3>. QED
      BY <1>5, <3>1, <3>2
  <2>2. Phase' = Phase
    BY <1>2, <1>3, <2>1, PhaseStays
  <2>. QED
    BY <1>1, <2>2 DEF Contract!vars
<1>6. CASE call'[c].pc \in {"failed", "ended", "ok", "refused"}
  <2>p. PICK p : p = call'[c].pc
    OBVIOUS
  <2>1. PhaseOf(c)' = p
    BY <1>6, <2>p DEF PhaseOf, Ended
  <2>2. Phase' = [Phase EXCEPT ![c] = p] /\ Phase[c] = "open"
    BY <1>2, <1>3, <2>1, PhaseMoves
  <2>3. /\ p \in runs[c].said \cup {"ended", "failed"}
        /\ p = "ended" => runs[c].said # {}
    BY <1>1, <1>4, <1>6, <2>p DEF Outcomes
  <2>. QED
    BY <1>1, <2>2, <2>3, ByReturn
<1>. QED
  BY <1>1, <1>5, <1>6 DEF Outcomes

\* What one HTTP request does to the executions and to the call.
LEMMA HttpRuns ==
  ASSUME TInv, NEW c \in Calls, Http(c)
  PROVE  \E says \in {"ok", "refused", "lost"}, ran \in BOOLEAN :
           /\ IF ran THEN Ran(c, {says} \ {"lost"}) ELSE runs' = runs /\ says = "lost"
           /\ call'[c].pc \in {"http", "rekey"} \/ call'[c].pc \in {says, "failed"}
<1>0. \E answer \in {"ok", "refused", "lost", "stale"}, ran \in BOOLEAN :
         /\ Exchange(c, answer, ran)
         /\ call'[c].pc \in {"http", "rekey", "failed"} \/ (answer \in {"ok", "refused"} /\ call'[c].pc = answer)
  <2>1. CASE Attempt(c)
    <3>1. PICK answer \in {"ok", "refused", "lost", "stale"}, ran \in BOOLEAN :
              /\ Exchange(c, answer, ran)
              /\ IF answer = "stale" THEN Set(c, [call[c] EXCEPT !.pc = "rekey"])
                 ELSE Outcome(c, answer)
      BY <2>1 DEF Attempt
    <3>2. CASE answer = "stale"
      <4>1. call'[c].pc = "rekey"
        BY <3>1, <3>2 DEF Set, TInv, TypeOK, CallStates
      <4>. QED
        BY <3>1, <4>1
    <3>3. CASE answer # "stale"
      <4>1. call'[c].pc = IF answer = "ok" THEN "ok" ELSE IF call[c].left > 1 THEN "http"
                          ELSE IF answer = "refused" THEN "refused" ELSE "failed"
        BY <2>1, <3>1, <3>3, OutcomeShape DEF Attempt
      <4>. QED
        BY <3>1, <4>1
    <3>. QED
      BY <3>2, <3>3
  <2>2. CASE Rekey(c)
    <3>1. PICK answer \in {"ok", "refused", "lost"}, ran \in BOOLEAN :
              Exchange(c, answer, ran) /\ Outcome(c, answer)
      BY <2>2 DEF Rekey
    <3>2. call'[c].pc = IF answer = "ok" THEN "ok" ELSE IF call[c].left > 1 THEN "http"
                        ELSE IF answer = "refused" THEN "refused" ELSE "failed"
      BY <2>2, <3>1, OutcomeShape DEF Rekey
    <3>. QED
      BY <3>1, <3>2
  <2>3. CASE AttemptStream(c)
    <3>1. PICK answer \in {"ok", "refused", "lost"}, ran \in BOOLEAN, n \in 0..Lines :
         /\ Exchange(c, answer, ran)
         /\ answer # "ok" => n = 0
         /\ Set(c, [call[c] EXCEPT
                !.pc = IF answer = "ok" THEN "ok" ELSE IF call[c].left > 1 THEN "http"
                       ELSE IF answer = "refused" THEN "refused" ELSE "failed",
                !.left = IF answer = "ok" THEN 0 ELSE @ - 1,
                !.out = @ \o [k \in 1..n |-> <<runs[c].n + 1, k>>]])
      BY <2>3 DEF AttemptStream
    <3>2. call'[c].pc = IF answer = "ok" THEN "ok" ELSE IF call[c].left > 1 THEN "http"
                        ELSE IF answer = "refused" THEN "refused" ELSE "failed"
      BY <3>1 DEF Set, TInv, TypeOK, CallStates
    <3>. QED
      BY <3>1, <3>2
  <2>. QED
    BY <2>1, <2>2, <2>3 DEF Http
<1>1. PICK answer \in {"ok", "refused", "lost", "stale"}, ran \in BOOLEAN :
         /\ Exchange(c, answer, ran)
         /\ call'[c].pc \in {"http", "rekey", "failed"} \/ (answer \in {"ok", "refused"} /\ call'[c].pc = answer)
  BY <1>0
<1>says. PICK says : says = IF answer \in {"ok", "refused"} THEN answer ELSE "lost"
  OBVIOUS
<1>2. says \in {"ok", "refused", "lost"} /\ {says} \ {"lost"} = {answer} \cap {"ok", "refused"}
  BY <1>says
<1>3. IF ran THEN Ran(c, {says} \ {"lost"}) ELSE runs' = runs /\ says = "lost"
  BY <1>1, <1>2, <1>says DEF Exchange
<1>4. call'[c].pc \in {"http", "rekey"} \/ call'[c].pc \in {says, "failed"}
  BY <1>1, <1>says
<1>. QED
  BY <1>2, <1>3, <1>4

LEMMA HttpKeeps ==
  ASSUME TInv, TInv', RInv, NEW c \in Calls, Http(c)
  PROVE  [Contract!Next]_(Contract!vars)
<1>1. PICK says \in {"ok", "refused", "lost"}, ran \in BOOLEAN :
           /\ IF ran THEN Ran(c, {says} \ {"lost"}) ELSE runs' = runs /\ says = "lost"
           /\ call'[c].pc \in {"http", "rekey"} \/ call'[c].pc \in {says, "failed"}
  BY HttpRuns
<1>2. /\ call[c].pc \in {"http", "rekey"} /\ call[c].left > 0
      /\ \A d \in Calls \ {c} : call'[d] = call[d]
      /\ call'[c].pc \in {"rekey", "http", "ok", "refused", "failed"}
  BY HttpShape
<1>3. \A d \in Calls \ {c} : PhaseOf(d)' = PhaseOf(d)
  BY <1>2, OthersPhase
<1>4. PhaseOf(c) = "open"
  BY <1>2 DEF PhaseOf, New, Ended
<1>5. runs[c].n < 2 + 2 * Addresses
  <2>1. Counted(c) /\ Addresses \in Nat /\ runs[c].n + InFlight(c) + Possible(c) <= 2 + 2 * Addresses
    BY RunsTypes, Disjoint DEF RInv, RunsOK
  <2>2. Possible(c) > 0
    BY <1>2, <2>1 DEF Counted
  <2>. QED
    BY <2>1, <2>2 DEF Counted
<1>6. CASE call'[c].pc \in {"http", "rekey"}
  <2>1. PhaseOf(c)' = "open"
    BY <1>6 DEF PhaseOf, New, Ended
  <2>2. Phase' = Phase /\ Phase[c] # "idle"
    BY <1>3, <1>4, <2>1, PhaseStays, PhaseIs
  <2>3. CASE ran
    BY <1>1, <1>5, <2>2, <2>3, ByExecute
  <2>4. CASE ~ran
    BY <1>1, <2>2, <2>4 DEF Contract!vars
  <2>. QED
    BY <2>3, <2>4
<1>7. CASE call'[c].pc \in {"ok", "refused", "failed"}
  <2>p. PICK p \in {"ok", "refused", "failed"} : p = call'[c].pc
    BY <1>7
  <2>1. PhaseOf(c)' = p
    BY <2>p DEF PhaseOf, Ended
  <2>2. Phase' = [Phase EXCEPT ![c] = p] /\ Phase[c] = "open"
    BY <1>3, <1>4, <2>1, PhaseMoves
  <2>3. p \in {says, "failed"}
    BY <1>1, <2>p
  <2>4. CASE ran
    BY <1>1, <1>5, <2>2, <2>3, <2>4, ByExchange
  <2>5. CASE ~ran
    <3>1. p = "failed" /\ runs' = runs
      BY <1>1, <2>3, <2>5
    <3>. QED
      BY <2>2, <3>1, ByReturn
  <2>. QED
    BY <2>4, <2>5
<1>. QED
  BY <1>2, <1>6, <1>7

LEMMA AgentKeeps ==
  ASSUME TInv, TInv', FInv, RInv, AgentAnswers \/ AgentStarts
  PROVE  Contract!Next
<1>1. PICK r \in down, says \in {"ok", "refused"} : down' = down \ {r} /\ Ran(r.of, {says}) /\ UNCHANGED master
  BY AnswersShape, StartsShape
<1>2. call' = call
  BY <1>1 DEF master
<1>3. {says} \in SUBSET {"ok", "refused"} /\ {says} \ {"lost"} = {says}
  OBVIOUS
<1>4. runs[r.of].n < 2 + 2 * Addresses
  BY <1>1, <1>2, <1>3, ExecutedRuns
<1>5. r.of \in Calls /\ Started(r.of, r.kind) /\ r.kind \in Kinds
  BY DEF FInv, RequestOK, TInv, TypeOK
<1>6. PhaseOf(r.of) # "idle"
  <2>1. call[r.of].pc # "unused" /\ (call[r.of].pc = "idle" => call[r.of].kind = "rpc" /\ r.of \in Probes)
    <3>1. CASE call[r.of].kind = r.kind
      BY <1>5, <3>1 DEF Started
    <3>2. CASE call[r.of].kind # r.kind
      <4>1. r.of \in Probes /\ call[r.of].kind = "rpc"
        BY <1>5, <3>2 DEF Started
      <4>2. call[r.of].pc # "unused"
        BY <1>5, <3>2 DEF Started
      <4>. QED
        BY <4>1, <4>2
    <3>. QED
      BY <3>1, <3>2
  <2>. QED
    BY <1>5, <2>1, Disjoint DEF PhaseOf, New, Ended
<1>7. Phase' = Phase /\ Phase[r.of] # "idle"
  BY <1>2, <1>5, <1>6, SamePhase, PhaseStays, PhaseIs
<1>. QED
  BY <1>1, <1>3, <1>4, <1>5, <1>7, ByExecute

LEMMA PanicKeeps == ASSUME TInv, Panic PROVE Contract!Next
<1>1. /\ \A c \in Calls : call'[c].pc = IF Open(c) THEN "gone" ELSE call[c].pc
      /\ \A c \in Calls : call'[c].kind = call[c].kind
      /\ runs' = runs
  BY PanicShape
<1>2. ASSUME NEW c \in Calls
      PROVE  PhaseOf(c)' = IF PhaseOf(c) = "open" THEN "gone" ELSE PhaseOf(c)
  <2>1. CASE Open(c)
    <3>1. PhaseOf(c) = "open" /\ call'[c].pc = "gone"
      BY <1>1, <2>1 DEF Open, PhaseOf
    <3>. QED
      BY <3>1 DEF PhaseOf, Ended
  <2>2. CASE ~Open(c)
    <3>1. PhaseOf(c) # "open"
      BY <2>2 DEF Open, PhaseOf, Ended
    <3>2. PhaseOf(c)' = PhaseOf(c)
      BY <1>1, <2>2, SamePhase
    <3>. QED
      BY <3>1, <3>2
  <2>. QED
    BY <2>1, <2>2
<1>3. Phase' = [c \in Calls |-> IF Phase[c] = "open" THEN "gone" ELSE Phase[c]]
  BY <1>2, PhaseIs, PhaseNow
<1>. QED
  BY <1>1, <1>3, ByCrash

LEMMA NextKeeps == TInv /\ TInv' /\ FInv /\ RInv /\ [Next]_vars => [Contract!Next]_(Contract!vars)
<1>. SUFFICES ASSUME TInv, TInv', FInv, RInv, [Next]_vars PROVE [Contract!Next]_(Contract!vars)
  OBVIOUS
<1>1. ASSUME \A c \in Calls : call'[c].pc = call[c].pc /\ call'[c].kind = call[c].kind, runs' = runs
      PROVE  UNCHANGED Contract!vars
  <2>1. \A c \in Calls : PhaseOf(c)' = PhaseOf(c)
    BY <1>1, SamePhase
  <2>. QED
    BY <1>1, <2>1, PhaseStays DEF Contract!vars
<1>2. CASE UNCHANGED vars
  BY <1>1, <1>2 DEF vars, master, wire, agent
<1>3. CASE Read \/ Push \/ PushResult \/ AgentWrites \/ AgentEnds \/ Drop \/ Reconnect
  <2>1. call' = call /\ runs' = runs
    BY <1>3 DEF Read, Push, PushResult, AgentWrites, AgentEnds, Drop, Reconnect, master, wire, agent
  <2>. QED
    BY <1>1, <2>1
<1>4. ASSUME NEW c \in Calls, Copies(c) \/ Cancel(c) PROVE UNCHANGED Contract!vars
  <2>1. runs' = runs
    BY <1>4, CopiesShape, CancelShape DEF wire, agent
  <2>2. \A d \in Calls : call'[d].pc = call[d].pc /\ call'[d].kind = call[d].kind
    BY <1>4, CopiesShape, CancelShape
  <2>. QED
    BY <1>1, <2>1, <2>2
<1>5. ASSUME NEW c \in Calls, Step(c) PROVE [Contract!Next]_(Contract!vars)
  <2>1. CASE Answer(c) \/ GiveUp(c)
    BY <1>4, <2>1, OverOrCopies, OverKeeps
  <2>2. CASE Http(c)
    BY <2>2, HttpKeeps
  <2>. QED
    BY <1>5, <2>1, <2>2 DEF Step
<1>6. ASSUME NEW c \in Calls, Begin(c) PROVE [Contract!Next]_(Contract!vars)
  BY <1>6, BeginKeeps
<1>7. CASE Panic
  BY <1>7, PanicKeeps
<1>8. CASE AgentAnswers \/ AgentStarts
  BY <1>8, AgentKeeps
<1>. QED
  BY <1>2, <1>3, <1>4, <1>5, <1>6, <1>7, <1>8 DEF Next, ReadLoop, Agent

\* A call never reports an outcome that no execution of that very call had, and
\* it is executed at most twice per address and once per WebSocket request: the
\* calls implement the safety part of the contract (tryWSRPC,
\* forwardToRemoteServer, SendDomainLatencyProbe).
THEOREM ContractKept == Spec => Contract!Init /\ [][Contract!Next]_(Contract!vars)
<1>. QED
  BY InitTInv, InitFInv, InitRInv, NextTInv, NextFInv, NextRInv, ContractInit, NextKeeps, PTL DEF Spec

-----------------------------------------------------------------------------
(* There is room for every answer: a request has one, and it is in one place. *)

\* Whenever the read loop holds the reply to a command or the result of a probe,
\* the channel that it goes to, of one place, is empty: no answer is lost for want
\* of room, and the one send that blocks never does (routeRPCReply,
\* handleDomainLatencyResult).
AnswersHaveRoom == reader.pc = "send" /\ reader.kind # "stream" => ~Full

\* No answer to this request has reached a goroutine or the read loop, or is on
\* the wire.
NotHeld(i) == \A c \in Calls, k \in Kinds : \A f \in Held(c, k) : f.type # "data" => f.id # i
NotOnWire(i) == \A f \in OnWire : f.type # "data" => f.id # i

OneAnswer ==
    \A m, n \in 1..Len(up) : up[m].type # "data" /\ up[n].type # "data" /\ up[m].id = up[n].id => m = n
HandOK == reader.pc = "send" /\ reader.kind # "stream" => chan[reader.call][reader.kind] = <<>>
AInv ==
    /\ OneAnswer /\ HandOK
    /\ \A f \in OnWire : f.type # "data" => NotHeld(f.id)
    /\ \A j \in jobs : NotHeld(j.id) /\ NotOnWire(j.id)

LEMMA InitAInv == Init => AInv
<1>. SUFFICES ASSUME Init PROVE AInv
  OBVIOUS
<1>1. \A c \in Calls, k \in Kinds : Held(c, k) = {}
  BY DEF Init, Held, Reading, NoReader
<1>2. OnWire = {} /\ OneAnswer
  BY DEF Init, OnWire, OneAnswer
<1>3. HandOK
  BY DEF Init, HandOK, NoReader
<1>. QED
  BY <1>1, <1>2, <1>3 DEF AInv, Init

LEMMA UnseenNowhere == \A i : Unseen(i) => NotHeld(i) /\ NotOnWire(i) /\ \A j \in jobs : j.id # i
  BY DEF Unseen, NotHeld, NotOnWire

\* A step that emits no frame and takes none from the wire.
LEMMA QuietAnswers ==
  ASSUME AInv, up' \in {up, <<>>},
         \A j \in jobs' : (\E l \in jobs : l.id = j.id) \/ Unseen(j.id),
         \A c \in Calls, k \in Kinds : Held(c, k)' \subseteq Held(c, k),
         HandOK'
  PROVE  AInv'
<1>1. OneAnswer'
  <2>1. CASE up' = up
    BY <2>1 DEF AInv, OneAnswer
  <2>2. CASE up' = <<>>
    BY <2>2 DEF OneAnswer
  <2>. QED
    BY <2>1, <2>2
<1>2. OnWire' \subseteq OnWire
  <2>1. CASE up' = up
    BY <2>1 DEF OnWire
  <2>2. CASE up' = <<>>
    BY <2>2 DEF OnWire
  <2>. QED
    BY <2>1, <2>2
<1>3. \A i : (NotHeld(i) => NotHeld(i)') /\ (NotOnWire(i) => NotOnWire(i)')
  BY <1>2 DEF NotHeld, NotOnWire
<1>. QED
  BY <1>1, <1>2, <1>3, UnseenNowhere DEF AInv

\* The reader and what it is about to fill.
LEMMA SameHand ==
  ASSUME AInv, reader' \in {reader, NoReader},
         reader.pc = "send" /\ reader.kind # "stream" =>
            chan'[reader.call][reader.kind] \in {chan[reader.call][reader.kind], <<>>}
  PROVE  HandOK'
<1>1. NoReader.pc # "send"
  BY DEF NoReader
<1>2. CASE reader' = NoReader
  BY <1>1, <1>2 DEF HandOK
<1>3. CASE reader' = reader
  <2>. SUFFICES ASSUME reader.pc = "send", reader.kind # "stream" PROVE chan'[reader.call][reader.kind] = <<>>
    BY <1>3 DEF HandOK
  <2>. QED
    BY DEF AInv, HandOK
<1>. QED
  BY <1>2, <1>3

\* The agent emits a frame.
LEMMA EmitAnswers ==
  ASSUME TInv, AInv, NEW f \in Frames, Emit(f), UNCHANGED <<chan, reader>>,
         f.type # "data" => NotHeld(f.id) /\ NotOnWire(f.id),
         \A j \in jobs' : (\E l \in jobs : l.id = j.id) /\ (f.type # "data" => j.id # f.id)
  PROVE  AInv'
<1>0. up \in Seq(Frames) /\ up' \in {up, Append(up, f)}
  BY EmitType DEF TInv, TypeOK
<1>. HIDE DEF Frames
<1>1. \A c \in Calls, k \in Kinds : Held(c, k)' = Held(c, k)
  BY DEF Held, Reading
<1>2. \A i : NotHeld(i)' <=> NotHeld(i)
  BY <1>1 DEF NotHeld
<1>3. OnWire' \subseteq OnWire \cup {f}
  BY EmitWire
<1>4. OneAnswer'
  <2>1. CASE up' = up
    BY <2>1 DEF AInv, OneAnswer
  <2>2. CASE up' = Append(up, f)
    <3>1. \A n \in 1..Len(up') : \/ n \in 1..Len(up) /\ up'[n] = up[n] /\ up[n] \in OnWire
                                 \/ n = Len(up) + 1 /\ up'[n] = f
      BY <1>0, <2>2 DEF OnWire
    <3>. QED
      BY <3>1 DEF AInv, OneAnswer, NotOnWire
  <2>. QED
    BY <1>0, <2>1, <2>2
<1>5. HandOK'
  BY DEF AInv, HandOK
<1>6. \A g \in OnWire' : g.type # "data" => NotHeld(g.id)'
  BY <1>2, <1>3 DEF AInv
<1>7. \A j \in jobs' : NotHeld(j.id)' /\ NotOnWire(j.id)'
  BY <1>2, <1>3 DEF AInv, NotOnWire
<1>. QED
  BY <1>4, <1>5, <1>6, <1>7 DEF AInv

LEMMA ReadAnswers ==
  ASSUME TInv, FInv, AInv, Read
  PROVE  AInv'
<1>1. PICK f \in Frames :
           /\ up # <<>> /\ f = up[1] /\ f \in OnWire /\ up' = Tail(up) /\ OnWire' \subseteq OnWire
           /\ reader.pc = "idle" /\ Table(f) \in Kinds /\ f.id \in Ids
           /\ f.type = "data" => Table(f) = "stream"
           /\ \/ reader' = NoReader
              \/ /\ pending[Table(f)][f.id] \in Calls
                 /\ reader' = [pc |-> "send", call |-> pending[Table(f)][f.id], kind |-> Table(f), frame |-> f]
           /\ UNCHANGED <<call, pending, chan, closed, nextId, link, down, drops, agent>>
  BY ReadShape
<1>2. up \in Seq(Frames) /\ jobs' = jobs
  BY <1>1 DEF TInv, TypeOK, agent
<1>. HIDE DEF Frames
<1>3. \A n \in 1..Len(up') : n + 1 \in 1..Len(up) /\ up'[n] = up[n + 1] /\ n + 1 # 1
  BY <1>1, <1>2
<1>4. OneAnswer'
  BY <1>3 DEF AInv, OneAnswer
<1>5. \A g \in OnWire' : g.type # "data" => f.type = "data" \/ g.id # f.id
  <2>1. 1 \in 1..Len(up)
    BY <1>1, <1>2
  <2>2. ASSUME NEW n \in 1..Len(up'), up'[n].type # "data", f.type # "data" PROVE up'[n].id # f.id
    BY <1>1, <1>3, <2>1, <2>2 DEF AInv, OneAnswer
  <2>. QED
    BY <2>2 DEF OnWire
<1>6. \A c \in Calls, k \in Kinds : Held(c, k)' \subseteq Held(c, k) \cup {f}
  <2>1. ASSUME NEW c \in Calls, NEW k \in Kinds, Reading(c, k)' PROVE reader'.frame = f
    <3>1. reader' # NoReader
      BY <2>1 DEF Reading, NoReader
    <3>. QED
      BY <1>1, <3>1
  <2>. QED
    BY <1>1, <2>1 DEF Held
<1>7. \A i : NotHeld(i) /\ (f.type # "data" => f.id # i) => NotHeld(i)'
  BY <1>6 DEF NotHeld
<1>8. \A g \in OnWire' : g.type # "data" => NotHeld(g.id)'
  BY <1>1, <1>5, <1>7 DEF AInv
<1>9. \A j \in jobs' : NotHeld(j.id)' /\ NotOnWire(j.id)'
  BY <1>1, <1>2, <1>7 DEF AInv, NotOnWire
<1>10. HandOK'
  <2>. SUFFICES ASSUME reader'.pc = "send", reader'.kind # "stream"
                PROVE  chan[reader'.call][reader'.kind] = <<>>
    BY <1>1 DEF HandOK
  <2>. DEFINE k == Table(f)
              c == pending[k][f.id]
  <2>1. reader' # NoReader
    BY DEF NoReader
  <2>2. c \in Calls /\ k \in Kinds /\ reader'.call = c /\ reader'.kind = k /\ k # "stream" /\ f.type # "data"
    BY <1>1, <2>1
  <2>3. Waiting(c) /\ call[c].kind = k /\ call[c].id = f.id
    BY <1>1, <2>2, Disjoint DEF FInv, PendingOK
  <2>4. ASSUME NEW g \in Held(c, k) PROVE g.type # "data" /\ g.id = f.id
    BY <2>2, <2>3, <2>4 DEF FInv, HeldOK
  <2>5. NotHeld(f.id)
    BY <1>1, <2>2 DEF AInv
  <2>6. Held(c, k) = {}
    BY <2>2, <2>4, <2>5 DEF NotHeld
  <2>7. chan[c][k] \in Seq(Frames)
    BY <2>2 DEF TInv, TypeOK
  <2>8. chan[c][k] = <<>>
    <3>. HIDE DEF c, k
    <3>1. chan[c][k] # <<>> => 1 \in 1..Len(chan[c][k])
      BY <2>7
    <3>. QED
      BY <2>6, <3>1 DEF Held
  <2>. QED
    BY <2>2, <2>8
<1>. QED
  BY <1>4, <1>8, <1>9, <1>10 DEF AInv

LEMMA AgentAnswered ==
  ASSUME TInv, FInv, AInv, Agent
  PROVE  AInv'
<1>m. ASSUME UNCHANGED master
      PROVE  UNCHANGED <<chan, reader>> /\ \A c \in Calls, k \in Kinds : Held(c, k)' \subseteq Held(c, k)
  BY <1>m DEF master, Held, Reading
<1>1. CASE AgentAnswers
  <2>1. PICK r \in down, says \in {"ok", "refused"}, type \in {"reply", "result"}, error \in BOOLEAN :
           LET f == [id |-> r.id, type |-> type, line |-> <<>>, says |-> says,
                      error |-> error] IN
            Emit(f) /\ f \in Frames /\ UNCHANGED <<master, link, drops, jobs>>
    BY <1>1, AnswersShape
  <2>. DEFINE f == [id |-> r.id, type |-> type, line |-> <<>>, says |-> says,
                      error |-> error]
  <2>2. f.id = r.id /\ f \in Frames /\ Emit(f) /\ jobs' = jobs
    BY <2>1
  <2>. HIDE DEF f
  <2>3. Unseen(r.id)
    BY DEF FInv, RequestOK
  <2>. QED
    BY <1>m, <2>1, <2>2, <2>3, UnseenNowhere, EmitAnswers
<1>2. CASE AgentStarts
  <2>1. PICK r \in down, says \in {"ok", "refused"} :
           LET j == [id |-> r.id, says |-> says, run |-> runs[r.of].n + 1, line |-> 0] IN
            jobs' = jobs \cup {j} /\ UNCHANGED <<master, link, up, drops>>
    BY <1>2, StartsShape
  <2>2. Unseen(r.id)
    BY DEF FInv, RequestOK
  <2>3. \A j \in jobs' : (\E l \in jobs : l.id = j.id) \/ Unseen(j.id)
    BY <2>1, <2>2
  <2>4. HandOK'
    BY <1>m, <2>1, SameHand
  <2>. QED
    BY <1>m, <2>1, <2>3, <2>4, QuietAnswers
<1>3. CASE AgentWrites
  <2>1. PICK j \in jobs :
           LET f == [id |-> j.id, type |-> "data", line |-> <<j.run, j.line + 1>>, says |-> "ok",
                      error |-> FALSE]
               k == [id |-> j.id, says |-> j.says, run |-> j.run, line |-> j.line + 1]
           IN f \in Frames /\ Emit(f) /\ jobs' = (jobs \ {j}) \cup {k} /\ UNCHANGED <<master, link, down, drops, runs>>
    BY <1>3, WritesShape
  <2>. DEFINE f == [id |-> j.id, type |-> "data", line |-> <<j.run, j.line + 1>>, says |-> "ok",
                      error |-> FALSE]
  <2>2. f.type = "data" /\ f \in Frames /\ Emit(f)
    BY <2>1
  <2>3. \A h \in jobs' : \E l \in jobs : l.id = h.id
    BY <2>1
  <2>. HIDE DEF f
  <2>. QED
    BY <1>m, <2>1, <2>2, <2>3, EmitAnswers
<1>4. CASE AgentEnds
  <2>1. PICK j \in jobs :
           LET f == [id |-> j.id, type |-> "reply", line |-> <<>>, says |-> j.says,
                      error |-> FALSE] IN
            f \in Frames /\ Emit(f) /\ jobs' = jobs \ {j} /\ UNCHANGED <<master, link, down, drops, runs>>
    BY <1>4, EndsShape
  <2>. DEFINE f == [id |-> j.id, type |-> "reply", line |-> <<>>, says |-> j.says,
                      error |-> FALSE]
  <2>2. f.id = j.id /\ f \in Frames /\ Emit(f)
    BY <2>1
  <2>. HIDE DEF f
  <2>3. NotHeld(j.id) /\ NotOnWire(j.id)
    BY DEF AInv
  <2>4. \A h \in jobs' : h \in jobs /\ h.id # j.id
    BY <2>1, JobsSame
  <2>. QED
    BY <1>m, <2>1, <2>2, <2>3, <2>4, EmitAnswers
<1>. QED
  BY <1>1, <1>2, <1>3, <1>4 DEF Agent

LEMMA NextAInv == TInv /\ FInv /\ AInv /\ [Next]_vars => AInv'
<1>. SUFFICES ASSUME TInv, FInv, AInv, [Next]_vars PROVE AInv'
  OBVIOUS
<1>1. ASSUME UNCHANGED <<chan, reader, jobs>>, up' \in {up, <<>>} PROVE AInv'
  <2>1. \A c \in Calls, k \in Kinds : Held(c, k)' \subseteq Held(c, k)
    BY <1>1 DEF Held, Reading
  <2>2. HandOK'
    BY <1>1, SameHand
  <2>. QED
    BY <1>1, <2>1, <2>2, QuietAnswers
<1>2. CASE UNCHANGED vars
  BY <1>1, <1>2 DEF vars, master, wire, agent
<1>3. CASE Drop \/ Reconnect
  BY <1>1, <1>3 DEF Drop, Reconnect, master, agent
<1>4. ASSUME NEW c \in Calls, Begin(c) PROVE AInv'
  BY <1>1, <1>4 DEF Begin, agent
<1>5. ASSUME NEW c \in Calls, Http(c) PROVE AInv'
  BY <1>1, <1>5, HttpShape DEF wire
<1>6. ASSUME NEW c \in Calls, Cancel(c) PROVE AInv'
  BY <1>1, <1>6, CancelShape DEF wire, agent
<1>7. ASSUME NEW c \in Calls, Over(c) PROVE AInv'
  <2>1. Forget(c) /\ reader' = reader /\ up' = up /\ jobs' = jobs
    BY <1>7, OverShape DEF wire, agent
  <2>2. \A d \in Calls, k \in Kinds : chan'[d][k] \in {chan[d][k], <<>>}
    BY <2>1, ForgetTypes
  <2>3. \A d \in Calls, k \in Kinds : Held(d, k)' \subseteq Held(d, k)
    BY <2>1, <2>2, HeldFewer
  <2>4. HandOK'
    BY <2>1, <2>2, SameHand, ReaderState
  <2>. QED
    BY <2>1, <2>3, <2>4, QuietAnswers
<1>8. ASSUME NEW c \in Calls, Copies(c) PROVE AInv'
  <2>1. /\ \A d \in Calls, k \in Kinds : chan'[d][k] = IF d = c /\ k = "stream" THEN Tail(chan[d][k]) ELSE chan[d][k]
        /\ reader' = reader /\ up' = up /\ jobs' = jobs
    BY <1>8, CopiesShape DEF wire, agent
  <2>2. \A d \in Calls, k \in Kinds : Held(d, k)' \subseteq Held(d, k)
    BY <1>8, CopiesHeld
  <2>3. HandOK'
    BY <2>1, SameHand, ReaderState
  <2>. QED
    BY <2>1, <2>2, <2>3, QuietAnswers
<1>9. CASE Push \/ PushResult
  <2>1. reader' = NoReader /\ up' = up /\ jobs' = jobs
    BY <1>9, PushShape DEF wire, agent
  <2>2. \A d \in Calls, k \in Kinds : Held(d, k)' \subseteq Held(d, k)
    BY <1>9, PushHeld
  <2>3. HandOK'
    BY <2>1, ReaderState DEF HandOK
  <2>. QED
    BY <2>1, <2>2, <2>3, QuietAnswers
<1>10. CASE Panic
  <2>1. reader' = NoReader /\ up' = <<>> /\ jobs' = jobs
    BY <1>10 DEF Panic, agent
  <2>2. \A d \in Calls, k \in Kinds : Held(d, k)' \subseteq Held(d, k)
    BY <1>10, PanicShape
  <2>3. HandOK'
    BY <2>1, ReaderState DEF HandOK
  <2>. QED
    BY <2>1, <2>2, <2>3, QuietAnswers
<1>11. ASSUME NEW c \in Calls, Step(c) PROVE AInv'
  BY <1>5, <1>7, <1>8, <1>11, OverOrCopies DEF Step
<1>. QED
  BY <1>2, <1>3, <1>4, <1>6, <1>9, <1>10, <1>11, ReadAnswers, AgentAnswered DEF Next, ReadLoop

\* A reply to a command and the result of a probe always find their channel empty:
\* none is lost for want of room, and the send that blocks never waits, whatever
\* calls are under way and whenever they gave up (routeRPCReply,
\* handleDomainLatencyResult).
THEOREM RoomForAnswers == Spec => []AnswersHaveRoom
<1>1. AInv => AnswersHaveRoom
  <2>. SUFFICES ASSUME AInv, reader.pc = "send", reader.kind # "stream" PROVE ~Full
    BY DEF AnswersHaveRoom
  <2>1. Len(chan[reader.call][reader.kind]) = 0 /\ Capacity(reader.kind) = 1
    BY DEF AInv, HandOK, Capacity
  <2>. QED
    BY <2>1 DEF Full
<1>. QED
  BY <1>1, InitTInv, InitFInv, InitAInv, NextTInv, NextFInv, NextAInv, PTL DEF Spec
=============================================================================
