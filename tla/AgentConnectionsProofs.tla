------------------------ MODULE AgentConnectionsProofs ------------------------
(***************************************************************************)
(* Proofs about AgentConnections, for any number of connections,           *)
(* addresses, token resets and faults.                                     *)
(***************************************************************************)
EXTENDS AgentConnectionsProps, TLAPS

ConnRecords == [pc : Steps, ip : Ips \cup {None}, token : Tokens \cup {None},
                auth : Tokens \cup {None}, fresh : BOOLEAN,
                socket : {"open", "dead", "closed"}, had : Conns \cup {None}]

PushRecords == [pc : Stages, old : Tokens \cup {None}, new : Tokens \cup {None},
                to : Conns \cup {None}]

\* Where a connection may be in the map.
Late == {"announce", "live", "closing", "delete", "mark", "over"}

\* The conjuncts of TypeOK.
ConnOK  == conn \in [Conns -> ConnRecords]
MapOK   == conns \in [Tokens -> Conns \cup {None}]
AddrOK  == lock \in Ips \cup {None} /\ fails \in [Ips -> 0..FailThreshold]
RowOK   == row \in [token : Tokens, state : States, crossed : BOOLEAN]
StageOK(p) == /\ p.pc # "idle" => p.old # None
              /\ p.pc \in {"find", "send", "store"} => p.new # None
              /\ p.pc \in {"send", "store"} <=> p.to # None
PushOK  == push \in [Resets -> PushRecords] /\ \A r \in Resets : StageOK(push[r])
SweepOK == sweep = NoSweep \/ sweep \in [of : Conns, token : Tokens]
RestOK  == knows \in Tokens \cup {0} /\ tick \in {"idle", "take"} /\ faults \in 0..MaxFaults

\* A connection that passed the authentication has a token, and until it is in the
\* map that is the one it authenticated with.
HasToken(r) ==
    /\ r.pc \notin {"new", "up", "over"} => r.token \in Tokens
    /\ r.pc \in {"check", "take", "store"} => r.auth = r.token
    /\ r.pc = "announce" => r.auth \in Tokens

\* The map, and the requests that change a token, name connections that were stored.
Kept == /\ \A t \in Tokens, c \in Conns : conns[t] = c => conn[c].pc \in Late
        /\ \A r \in Resets, c \in Conns : push[r].to = c => conn[c].pc \in Late

\* The map has them under the token they have.
MapTied == \A t \in Tokens, c \in Conns : conns[t] = c => conn[c].token = t

\* Each request that wrote gave the row the token after the one it had read, and
\* its own; the connection it found has the one, and the other once it was sent.
Wrote(r) == push[r].pc \in {"find", "send", "store"}

PushTied ==
    /\ \A r \in Resets : Wrote(r) => push[r].new = push[r].old + 1 /\ push[r].new <= row.token
    /\ \A r, q \in Resets : Wrote(r) /\ Wrote(q) /\ push[r].new = push[q].new => r = q
    /\ \A r \in Resets, c \in Conns : push[r].to = c =>
           conn[c].token = IF push[r].pc = "store" THEN push[r].new ELSE push[r].old

\* No more can be said once a reset replaced another token than it had read.
Tied == ~row.crossed => MapTied /\ PushTied

Types == ConnOK /\ MapOK /\ AddrOK /\ RowOK /\ PushOK /\ SweepOK /\ RestOK

IInv == Types /\ (\A c \in Conns : HasToken(conn[c])) /\ Kept /\ Tied

LEMMA PushFacts ==
    ASSUME PushOK, NEW r \in Resets
    PROVE  /\ push[r] \in PushRecords /\ StageOK(push[r])
           /\ push[r].pc # "idle" => push[r].old \in Tokens
           /\ Wrote(r) => push[r].new \in Tokens
           /\ push[r].pc \in {"send", "store"} => push[r].to \in Conns
BY DEF PushOK, PushRecords, StageOK, Wrote

LEMMA InitInv == Init => IInv
<1> SUFFICES ASSUME Init PROVE IInv
  OBVIOUS
<1>1. 1 \in Tokens /\ 0 \in 0..FailThreshold /\ 0 \in 0..MaxFaults
  BY ConnectionsAssumption DEF Tokens
<1>2. NoConn \in ConnRecords /\ HasToken(NoConn)
  BY DEF NoConn, ConnRecords, Steps, HasToken
<1>3. \A c \in Conns : conn[c] = NoConn
  BY DEF Init
<1>4. ConnOK /\ MapOK /\ AddrOK
  BY <1>1, <1>2 DEF Init, ConnOK, MapOK, AddrOK
<1>5. RowOK /\ PushOK /\ SweepOK /\ RestOK
  BY <1>1 DEF Init, RowOK, PushOK, SweepOK, RestOK, NoPush, States, PushRecords, Stages, StageOK
<1>6. \A c \in Conns : HasToken(conn[c])
  BY <1>2, <1>3
<1>7. Kept /\ Tied
  BY ConnectionsAssumption DEF Init, Kept, Tied, MapTied, PushTied, Wrote, NoPush
<1> QED
  BY <1>4, <1>5, <1>6, <1>7 DEF IInv, Types

LEMMA ConnFacts ==
    ASSUME IInv, NEW c \in Conns
    PROVE  conn[c] \in ConnRecords /\ HasToken(conn[c])
BY DEF IInv, Types, ConnOK

\* Stored connections keep their tokens, and entries of the map are only taken out.
LEMMA TiedKept ==
    ASSUME IInv, MapOK',
           \A c \in Conns : conn[c].pc \in Late =>
               conn'[c].pc \in Late /\ conn'[c].token = conn[c].token,
           \A t \in Tokens : conns'[t] \in {conns[t], None},
           push' = push, row'.token = row.token /\ row'.crossed = row.crossed
    PROVE  Kept' /\ Tied'
<1>1. ASSUME NEW t \in Tokens, NEW c \in Conns, conns'[t] = c
      PROVE  conns[t] = c /\ conn[c].pc \in Late
  <2>1. conns[t] = c
    BY <1>1, ConnectionsAssumption
  <2> QED
    BY <2>1 DEF IInv, Kept
<1>2. ASSUME NEW r \in Resets, NEW c \in Conns, push'[r].to = c
      PROVE  push[r].to = c /\ conn[c].pc \in Late
  BY <1>2 DEF IInv, Kept
<1>3. Kept'
  BY <1>1, <1>2 DEF Kept
<1>4. MapTied => MapTied'
  BY <1>1 DEF MapTied
<1>5. PushTied => PushTied'
  BY <1>2 DEF PushTied, Wrote
<1> QED
  BY <1>3, <1>4, <1>5 DEF IInv, Tied

\* One connection moves; the map stays or loses entries.
LEMMA MoveKeeps ==
    ASSUME IInv, MapOK', AddrOK', RowOK', RestOK', SweepOK',
           NEW c \in Conns, NEW rec \in ConnRecords, Set(c, rec), HasToken(rec),
           conn[c].pc \in Late => rec.pc \in Late /\ rec.token = conn[c].token,
           \A t \in Tokens : conns'[t] \in {conns[t], None},
           push' = push, row'.token = row.token /\ row'.crossed = row.crossed
    PROVE  IInv'
<1>1. \A d \in Conns : conn'[d] = IF d = c THEN rec ELSE conn[d]
  BY DEF Set, IInv, Types, ConnOK
<1>2. ConnOK' /\ PushOK'
  BY DEF Set, IInv, Types, ConnOK, PushOK
<1>3. \A d \in Conns : HasToken(conn'[d])
  BY <1>1 DEF IInv
<1>4. Kept' /\ Tied'
  BY <1>1, TiedKept
<1> QED
  BY <1>2, <1>3, <1>4 DEF IInv, Types
-----------------------------------------------------------------------------
(* Records and rows                                                         *)

LEMMA Moved ==
    ASSUME NEW r \in ConnRecords, NEW pc \in Steps
    PROVE  [r EXCEPT !.pc = pc] \in ConnRecords
BY DEF ConnRecords

LEMMA Named ==
    ASSUME NEW r \in ConnRecords, NEW pc \in Steps, NEW token \in Tokens \cup {None}
    PROVE  [r EXCEPT !.pc = pc, !.token = token, !.auth = token] \in ConnRecords
BY DEF ConnRecords

LEMMA Sought ==
    ASSUME NEW r \in ConnRecords, NEW pc \in Steps, NEW had \in Conns \cup {None}
    PROVE  [r EXCEPT !.pc = pc, !.had = had] \in ConnRecords
BY DEF ConnRecords

LEMMA Heard ==
    ASSUME NEW r \in ConnRecords, NEW fresh \in BOOLEAN
    PROVE  [r EXCEPT !.fresh = fresh] \in ConnRecords
BY DEF ConnRecords

LEMMA Cut ==
    ASSUME NEW r \in ConnRecords, NEW socket \in {"open", "dead", "closed"}
    PROVE  [r EXCEPT !.socket = socket] \in ConnRecords
BY DEF ConnRecords

LEMMA Written ==
    ASSUME RowOK, NEW new \in States, Write(new)
    PROVE  RowOK' /\ row'.token = row.token /\ row'.crossed = row.crossed /\ row'.state = new
BY DEF RowOK, Write

LEMMA StateTypes ==
    ASSUME NEW s \in States
    PROVE  Online(s) \in States /\ MarkOffline(s) \in States
BY DEF States, Online, MarkOffline

LEMMA FailTypes ==
    ASSUME AddrOK, NEW ip, NEW n, MarkFail(ip, n), ip \in Ips => n \in 0..FailThreshold
    PROVE  fails' \in [Ips -> 0..FailThreshold]
<1> DEFINE m == IF n < FailThreshold THEN n + 1 ELSE n
<1>1. ip \in Ips => m \in 0..FailThreshold
  BY ConnectionsAssumption
<1>2. fails' = [fails EXCEPT ![ip] = m]
  BY DEF MarkFail
<1> HIDE DEF m
<1> QED
  BY <1>1, <1>2 DEF AddrOK

LEMMA FaultTypes == ASSUME RestOK, Fault PROVE faults' \in 0..MaxFaults
BY ConnectionsAssumption DEF RestOK, Fault

-----------------------------------------------------------------------------
(* The goroutine of a connection                                            *)

LEMMA DialKeeps == ASSUME IInv, NEW c \in Conns, NEW ip \in Ips, Dial(c, ip) PROVE IInv'
<1> DEFINE rec == [NoConn EXCEPT !.pc = "up", !.ip = ip]
<1>1. rec \in ConnRecords /\ rec.pc = "up"
  BY DEF NoConn, ConnRecords, Steps
<1>2. conn[c].pc \notin Late
  BY DEF Dial, At, Late
<1>3. Set(c, rec) /\ UNCHANGED <<conns, lock, fails, push, sweep, row, knows, tick, faults>>
  BY DEF Dial
<1> HIDE DEF rec
<1>4. HasToken(rec)
  BY <1>1 DEF HasToken
<1>5. MapOK' /\ AddrOK' /\ RowOK' /\ RestOK' /\ SweepOK'
  BY <1>3 DEF IInv, Types, MapOK, AddrOK, RowOK, RestOK, SweepOK
<1> QED
  BY <1>1, <1>2, <1>3, <1>4, <1>5, MoveKeeps

\* A connection moves and nothing else changes but the failures, the lock and the row.
LEMMA StepKeeps ==
    ASSUME IInv, NEW c \in Conns, NEW rec \in ConnRecords, Set(c, rec), HasToken(rec),
           conn[c].pc \in Late => rec.pc \in Late /\ rec.token = conn[c].token,
           AddrOK', RowOK', row'.token = row.token /\ row'.crossed = row.crossed, faults' \in 0..MaxFaults,
           UNCHANGED <<conns, push, sweep, knows, tick>>
    PROVE  IInv'
<1>1. MapOK' /\ RestOK' /\ SweepOK'
  BY DEF IInv, Types, MapOK, RestOK, SweepOK
<1> QED
  BY <1>1, MoveKeeps

LEMMA AuthenticateKeeps == ASSUME IInv, NEW c \in Conns, Authenticate(c) PROVE IInv'
<1> DEFINE ip == conn[c].ip
<1>1. conn[c] \in ConnRecords /\ HasToken(conn[c]) /\ conn[c].pc = "up"
  BY ConnFacts DEF Authenticate, At
<1>2. AddrOK /\ RowOK /\ RestOK
  BY DEF IInv, Types
<1>3. UNCHANGED <<conns, lock, push, sweep, row, knows, tick, faults>>
  BY DEF Authenticate
<1>4. RowOK' /\ row'.token = row.token /\ row'.crossed = row.crossed /\ faults' \in 0..MaxFaults
  BY <1>2, <1>3 DEF RowOK, RestOK
<1>5. CASE conn' = conn
  <2>1. Set(c, conn[c])
    BY <1>5 DEF Set, IInv, Types, ConnOK
  <2>2. PICK n : MarkFail(ip, n) /\ (ip \in Ips => n \in 0..FailThreshold)
    <3>1. \/ MarkFail(ip, fails[ip])
          \/ MarkFail(ip, 0)
          \/ fails' = [fails EXCEPT ![ip] = 0] /\ Set(c, [conn[c] EXCEPT !.pc = "check", !.token = knows, !.auth = knows])
      BY DEF Authenticate
    <3>2. 0 \in 0..FailThreshold /\ (ip \in Ips => fails[ip] \in 0..FailThreshold)
      BY <1>2, ConnectionsAssumption DEF AddrOK
    <3>3. ~Set(c, [conn[c] EXCEPT !.pc = "check", !.token = knows, !.auth = knows])
      <4>1. [conn[c] EXCEPT !.pc = "check", !.token = knows, !.auth = knows].pc = "check"
        BY <1>1 DEF ConnRecords
      <4> QED
        BY <1>1, <1>5, <4>1 DEF Set, IInv, Types, ConnOK
    <3> QED
      BY <3>1, <3>2, <3>3
  <2>3. AddrOK'
    BY <1>2, <1>3, <2>2, FailTypes DEF AddrOK
  <2> QED
    BY <1>1, <1>3, <1>4, <2>1, <2>3, StepKeeps
<1>6. CASE conn' # conn
  <2> DEFINE rec == [conn[c] EXCEPT !.pc = "check", !.token = knows, !.auth = knows]
  <2>1. knows = row.token /\ fails' = [fails EXCEPT ![ip] = 0] /\ Set(c, rec)
    BY <1>6 DEF Authenticate
  <2>2. knows \in Tokens /\ knows \in Tokens \cup {None} /\ "check" \in Steps
    BY <1>2, <2>1 DEF RowOK, Steps
  <2>a. rec \in ConnRecords
    BY <1>1, <2>2, Named
  <2>3. rec.pc = "check" /\ rec.token = knows /\ rec.auth = knows
    BY <1>1 DEF ConnRecords
  <2>4. AddrOK'
    <3>1. 0 \in 0..FailThreshold
      BY ConnectionsAssumption
    <3> QED
      BY <1>2, <1>3, <2>1, <3>1 DEF AddrOK
  <2> HIDE DEF rec
  <2>5. HasToken(rec)
    BY <2>2, <2>3 DEF HasToken
  <2>6. conn[c].pc \notin Late
    BY <1>1 DEF Late
  <2> QED
    BY <1>3, <1>4, <2>1, <2>a, <2>3, <2>4, <2>5, <2>6, StepKeeps
<1> QED
  BY <1>5, <1>6

LEMMA CheckExistingKeeps == ASSUME IInv, NEW c \in Conns, CheckExisting(c) PROVE IInv'
<1> DEFINE t == conn[c].auth
           d == conns[t]
           ip == conn[c].ip
<1>1. conn[c] \in ConnRecords /\ HasToken(conn[c]) /\ conn[c].pc = "check"
  BY ConnFacts DEF CheckExisting, At
<1>2. t \in Tokens /\ d \in Conns \cup {None}
  BY <1>1 DEF HasToken, IInv, Types, MapOK
<1>3. UNCHANGED <<conns, push, sweep, row, knows, tick, faults>>
  BY DEF CheckExisting
<1>4. AddrOK /\ RowOK' /\ row'.token = row.token /\ row'.crossed = row.crossed /\ faults' \in 0..MaxFaults
  BY <1>3 DEF IInv, Types, RowOK, RestOK
<1>5. conn[c].pc \notin Late
  BY <1>1 DEF Late
<1>6. CASE Conflicts(c, d)
  <2> DEFINE rec == [conn[c] EXCEPT !.pc = "up", !.token = None, !.auth = None]
  <2>1. /\ lock' = IF t = row.token THEN conn[d].ip ELSE lock
        /\ MarkFail(ip, fails[ip]) /\ Set(c, rec)
    BY <1>6 DEF CheckExisting
  <2>2. rec \in ConnRecords /\ rec.pc = "up"
    <3>1. "up" \in Steps /\ None \in Tokens \cup {None}
      BY DEF Steps
    <3>2. rec \in ConnRecords
      BY <1>1, <3>1, Named
    <3> QED
      BY <1>1, <3>2 DEF ConnRecords
  <2> HIDE DEF rec
  <2>3. HasToken(rec)
    BY <2>2 DEF HasToken
  <2>4. d \in Conns
    BY <1>2, <1>6 DEF Conflicts
  <2>5. conn[d].ip \in Ips \cup {None}
    BY <2>4, ConnFacts DEF ConnRecords
  <2>6. fails' \in [Ips -> 0..FailThreshold]
    BY <1>4, <2>1, FailTypes DEF AddrOK
  <2>7. AddrOK'
    BY <1>4, <2>1, <2>5, <2>6 DEF AddrOK
  <2> QED
    BY <1>3, <1>4, <1>5, <2>1, <2>2, <2>3, <2>7, StepKeeps
<1>7. CASE ~Conflicts(c, d)
  <2> DEFINE rec == [conn[c] EXCEPT !.pc = "take", !.had = d]
  <2>1. Set(c, rec) /\ UNCHANGED <<lock, fails>>
    BY <1>7 DEF CheckExisting
  <2>2. rec \in ConnRecords /\ rec.pc = "take" /\ rec.token = conn[c].token /\ rec.auth = t
    <3>1. "take" \in Steps
      BY DEF Steps
    <3>2. rec \in ConnRecords
      BY <1>1, <1>2, <3>1, Sought
    <3> QED
      BY <1>1, <3>2 DEF ConnRecords
  <2> HIDE DEF rec
  <2>3. HasToken(rec)
    BY <1>1, <1>2, <2>2 DEF HasToken
  <2>4. AddrOK'
    BY <1>4, <2>1 DEF AddrOK
  <2> QED
    BY <1>3, <1>4, <1>5, <2>1, <2>2, <2>3, <2>4, StepKeeps
<1> QED
  BY <1>6, <1>7

\* Several connections move.
LEMMA ManyKeep ==
    ASSUME IInv, ConnOK', MapOK', AddrOK', RowOK', RestOK', SweepOK',
           \A d \in Conns : HasToken(conn'[d]),
           \A d \in Conns : conn[d].pc \in Late =>
               conn'[d].pc \in Late /\ conn'[d].token = conn[d].token,
           \A t \in Tokens : conns'[t] \in {conns[t], None},
           push' = push, row'.token = row.token /\ row'.crossed = row.crossed
    PROVE  IInv'
<1>1. PushOK'
  BY DEF IInv, Types, PushOK
<1>2. Kept' /\ Tied'
  BY TiedKept
<1> QED
  BY <1>1, <1>2 DEF IInv, Types

LEMMA TakePlaceKeeps == ASSUME IInv, NEW c \in Conns, TakePlace(c) PROVE IInv'
<1> DEFINE t == conn[c].auth
           taken == conn[c].had # None /\ conns[t] # None
           stored  == [conn[c] EXCEPT !.pc = "store"]
           refused == [conn[c] EXCEPT !.pc = "up", !.token = None, !.auth = None, !.had = None]
           closed(k) == [conn[k] EXCEPT !.socket = "closed"]
<1>1. conn[c] \in ConnRecords /\ HasToken(conn[c]) /\ conn[c].pc = "take"
  BY ConnFacts DEF TakePlace, At
<1>2. t \in Tokens /\ conn[c].pc \notin Late
  BY <1>1 DEF HasToken, Late
<1>3. stored \in ConnRecords /\ HasToken(stored)
  <2>1. "store" \in Steps
    BY DEF Steps
  <2>2. stored \in ConnRecords
    BY <1>1, <2>1, Moved
  <2>3. stored.pc = "store" /\ stored.token = t /\ stored.auth = t
    BY <1>1 DEF ConnRecords, HasToken
  <2> QED
    BY <1>2, <2>2, <2>3 DEF HasToken
<1>4. refused \in ConnRecords /\ HasToken(refused)
  <2>1. "up" \in Steps
    BY DEF Steps
  <2>2. refused \in ConnRecords /\ refused.pc = "up"
    BY <1>1, <2>1 DEF ConnRecords
  <2> QED
    BY <2>2 DEF HasToken
<1>5. ASSUME NEW k \in Conns
      PROVE  /\ closed(k) \in ConnRecords /\ closed(k).pc = conn[k].pc
             /\ closed(k).token = conn[k].token /\ closed(k).auth = conn[k].auth
  <2>1. conn[k] \in ConnRecords /\ "closed" \in {"open", "dead", "closed"}
    BY ConnFacts
  <2>2. closed(k) \in ConnRecords
    BY <2>1, Cut
  <2> QED
    BY <2>1, <2>2 DEF ConnRecords
<1>6. PICK rec \in {stored, refused} :
        conn' = [k \in Conns |-> IF k = c THEN rec
                                 ELSE IF taken /\ k = conn[c].had THEN closed(k) ELSE conn[k]]
  BY DEF TakePlace
<1>7. rec \in ConnRecords /\ HasToken(rec)
  BY <1>3, <1>4
<1>8. /\ conns' = IF taken THEN [conns EXCEPT ![t] = None] ELSE conns
      /\ UNCHANGED <<lock, fails, push, sweep, row, knows, tick>>
      /\ faults' = faults \/ Fault
  BY DEF TakePlace
<1> HIDE DEF stored, refused, closed, taken
<1>9. ASSUME NEW k \in Conns
      PROVE  /\ conn'[k] \in ConnRecords /\ HasToken(conn'[k])
             /\ conn[k].pc \in Late => conn'[k].pc \in Late /\ conn'[k].token = conn[k].token
  <2>1. CASE k = c
    BY <1>2, <1>6, <1>7, <2>1
  <2>2. CASE k # c
    <3>1. conn'[k] = closed(k) \/ conn'[k] = conn[k]
      BY <1>6, <2>2
    <3>2. conn[k] \in ConnRecords /\ HasToken(conn[k])
      BY ConnFacts
    <3> QED
      BY <1>5, <3>1, <3>2 DEF HasToken
  <2> QED
    BY <2>1, <2>2
<1>10. ConnOK'
  BY <1>6, <1>9 DEF ConnOK
<1>11. MapOK' /\ \A z \in Tokens : conns'[z] \in {conns[z], None}
  BY <1>8 DEF IInv, Types, MapOK
<1>12. AddrOK' /\ RowOK' /\ SweepOK' /\ row'.token = row.token /\ row'.crossed = row.crossed
  BY <1>8 DEF IInv, Types, AddrOK, RowOK, SweepOK
<1>13. RestOK'
  BY <1>8, FaultTypes DEF IInv, Types, RestOK
<1> QED
  BY <1>8, <1>9, <1>10, <1>11, <1>12, <1>13, ManyKeep

LEMMA StoreKeeps == ASSUME IInv, NEW c \in Conns, Store(c) PROVE IInv'
<1> DEFINE t   == conn[c].auth
           rec == [conn[c] EXCEPT !.pc = "announce"]
<1>1. conn[c] \in ConnRecords /\ HasToken(conn[c]) /\ conn[c].pc = "store"
  BY ConnFacts DEF Store, At
<1>2. t \in Tokens /\ conn[c].token = t /\ conn[c].pc \notin Late
  BY <1>1 DEF HasToken, Late
<1>3. /\ conns' = [conns EXCEPT ![t] = c] /\ Set(c, rec)
      /\ UNCHANGED <<lock, fails, push, sweep, row, knows, tick, faults>>
  BY DEF Store, Go
<1>4. rec \in ConnRecords /\ rec.pc = "announce" /\ rec.token = t /\ rec.auth = t
  <2>1. "announce" \in Steps
    BY DEF Steps
  <2>2. rec \in ConnRecords
    BY <1>1, <2>1, Moved
  <2> QED
    BY <1>1, <1>2, <2>2 DEF ConnRecords
<1> HIDE DEF rec
<1>5. \A d \in Conns : conn'[d] = IF d = c THEN rec ELSE conn[d]
  BY <1>3 DEF Set, IInv, Types, ConnOK
<1>6. ConnOK' /\ \A d \in Conns : HasToken(conn'[d])
  BY <1>2, <1>3, <1>4, <1>5 DEF Set, HasToken, IInv, Types, ConnOK
<1>7. MapOK' /\ AddrOK' /\ RowOK' /\ PushOK' /\ SweepOK' /\ RestOK'
  BY <1>2, <1>3 DEF IInv, Types, MapOK, AddrOK, RowOK, PushOK, SweepOK, RestOK
<1>8. \A z \in Tokens : conns'[z] = IF z = t THEN c ELSE conns[z]
  BY <1>3 DEF IInv, Types, MapOK
<1>9. \A d \in Conns : conn[d].pc \in Late => d # c
  BY <1>2
<1>10. Kept'
  <2>1. \A z \in Tokens, d \in Conns : conns'[z] = d => conn'[d].pc \in Late
    BY <1>4, <1>5, <1>8 DEF IInv, Kept, Late
  <2>2. \A r \in Resets, d \in Conns : push'[r].to = d => conn'[d].pc \in Late
    BY <1>3, <1>5, <1>9 DEF IInv, Kept
  <2> QED
    BY <2>1, <2>2 DEF Kept
<1>11. MapTied => MapTied'
  <2> SUFFICES ASSUME MapTied, NEW z \in Tokens, NEW d \in Conns, conns'[z] = d
               PROVE  conn'[d].token = z
    BY DEF MapTied
  <2>1. CASE z = t
    BY <1>4, <1>5, <1>8, <2>1
  <2>2. CASE z # t
    <3>1. conns[z] = d
      BY <1>8, <2>2
    <3>2. conn[d].pc \in Late /\ conn[d].token = z
      BY <3>1 DEF IInv, Kept, MapTied
    <3> QED
      BY <1>5, <1>9, <3>2
  <2> QED
    BY <2>1, <2>2
<1>12. PushTied => PushTied'
  <2>1. ASSUME NEW r \in Resets, NEW d \in Conns, push[r].to = d PROVE conn'[d] = conn[d]
    BY <1>5, <1>9, <2>1 DEF IInv, Kept
  <2> QED
    BY <1>3, <2>1 DEF PushTied, Wrote
<1> QED
  BY <1>3, <1>6, <1>7, <1>10, <1>11, <1>12 DEF IInv, Types, Tied

\* A late connection goes on to a later place.
LEMMA GoKeeps ==
    ASSUME IInv, NEW c \in Conns, conn[c].pc \in Late, NEW pc \in Late \ {"announce"}, Go(c, pc),
           MapOK', \A t \in Tokens : conns'[t] \in {conns[t], None},
           RowOK', row'.token = row.token /\ row'.crossed = row.crossed, faults' \in 0..MaxFaults,
           pc # "over" => conn[c].pc # "over",
           UNCHANGED <<lock, fails, push, sweep, knows, tick>>
    PROVE  IInv'
<1> DEFINE rec == [conn[c] EXCEPT !.pc = pc]
<1>1. conn[c] \in ConnRecords /\ HasToken(conn[c])
  BY ConnFacts
<1>2. rec \in ConnRecords
  <2>1. pc \in Steps
    BY DEF Steps, Late
  <2> QED
    BY <1>1, <2>1, Moved
<1>3. rec.pc = pc /\ rec.token = conn[c].token /\ rec.auth = conn[c].auth
  BY <1>1 DEF ConnRecords
<1>4. Set(c, rec)
  BY DEF Go
<1> HIDE DEF rec
<1>5. HasToken(rec)
  BY <1>1, <1>3 DEF HasToken, Late
<1>6. AddrOK' /\ SweepOK' /\ RestOK'
  BY DEF IInv, Types, AddrOK, SweepOK, RestOK
<1> QED
  BY <1>2, <1>3, <1>4, <1>5, <1>6, MoveKeeps

\* What is written to the row by the token of a connection, or not at all.
LEMMA RowFacts ==
    ASSUME IInv
    PROVE  RowOK /\ row.state \in States /\ 0 \in Nat /\ faults \in 0..MaxFaults
BY DEF IInv, Types, RowOK, RestOK

LEMMA AnnounceKeeps == ASSUME IInv, NEW c \in Conns, Announce(c) PROVE IInv'
<1> DEFINE new == IF row.token = conn[c].auth THEN Online(row.state) ELSE row.state
           rec == [conn[c] EXCEPT !.pc = "live", !.auth = None, !.had = None]
<1>1. conn[c] \in ConnRecords /\ HasToken(conn[c]) /\ conn[c].pc = "announce"
  BY ConnFacts DEF Announce, At
<1>2. /\ Write(new) /\ Set(c, rec)
      /\ UNCHANGED <<conns, lock, fails, push, sweep, knows, tick, faults>>
  BY DEF Announce
<1>3. new \in States
  BY RowFacts, StateTypes
<1> HIDE DEF new
<1>4. RowOK' /\ row'.token = row.token /\ row'.crossed = row.crossed
  BY <1>2, <1>3, RowFacts, Written
<1>5. rec \in ConnRecords
  <2>1. "live" \in Steps /\ None \in Conns \cup {None}
    BY DEF Steps
  <2> QED
    BY <1>1, <2>1 DEF ConnRecords
<1>6. rec.pc = "live" /\ rec.token = conn[c].token
  BY <1>1 DEF ConnRecords
<1> HIDE DEF rec
<1>7. HasToken(rec) /\ rec.pc \in Late
  BY <1>1, <1>6 DEF HasToken, Late
<1>8. AddrOK' /\ faults' \in 0..MaxFaults
  BY <1>2 DEF IInv, Types, AddrOK, RestOK
<1> QED
  BY <1>2, <1>4, <1>5, <1>6, <1>7, <1>8, StepKeeps

LEMMA HeartbeatKeeps == ASSUME IInv, NEW c \in Conns, Heartbeat(c) PROVE IInv'
<1> DEFINE new == IF row.token = conn[c].token THEN Online(row.state) ELSE row.state
           rec == [conn[c] EXCEPT !.fresh = TRUE]
<1>1. conn[c] \in ConnRecords /\ HasToken(conn[c])
  BY ConnFacts
<1>2. /\ Write(new) /\ Set(c, rec)
      /\ UNCHANGED <<conns, lock, fails, push, sweep, knows, tick, faults>>
  BY DEF Heartbeat
<1>3. new \in States
  BY RowFacts, StateTypes
<1> HIDE DEF new
<1>4. RowOK' /\ row'.token = row.token /\ row'.crossed = row.crossed
  BY <1>2, <1>3, RowFacts, Written
<1>5. rec \in ConnRecords
  BY <1>1, Heard
<1>6. rec.pc = conn[c].pc /\ rec.token = conn[c].token /\ rec.auth = conn[c].auth
  BY <1>1 DEF ConnRecords
<1> HIDE DEF rec
<1>7. HasToken(rec)
  BY <1>1, <1>6 DEF HasToken
<1>8. AddrOK' /\ faults' \in 0..MaxFaults
  BY <1>2 DEF IInv, Types, AddrOK, RestOK
<1> QED
  BY <1>2, <1>4, <1>5, <1>6, <1>7, <1>8, StepKeeps

LEMMA PeerLeavesKeeps == ASSUME IInv, NEW c \in Conns, PeerLeaves(c) PROVE IInv'
<1> DEFINE rec == [conn[c] EXCEPT !.socket = "dead"]
<1>1. conn[c] \in ConnRecords /\ HasToken(conn[c])
  BY ConnFacts
<1>2. Set(c, rec) /\ Fault /\ UNCHANGED <<conns, lock, fails, push, sweep, row, knows, tick>>
  BY DEF PeerLeaves
<1>3. rec \in ConnRecords
  BY <1>1, Cut
<1>4. rec.pc = conn[c].pc /\ rec.token = conn[c].token /\ rec.auth = conn[c].auth
  BY <1>1 DEF ConnRecords
<1> HIDE DEF rec
<1>5. HasToken(rec)
  BY <1>1, <1>4 DEF HasToken
<1>6. AddrOK' /\ RowOK' /\ row'.token = row.token /\ row'.crossed = row.crossed /\ faults' \in 0..MaxFaults
  BY <1>2, FaultTypes DEF IInv, Types, AddrOK, RowOK
<1> QED
  BY <1>2, <1>3, <1>4, <1>5, <1>6, StepKeeps

LEMMA PingAgesKeeps == ASSUME IInv, NEW c \in Conns, PingAges(c) PROVE IInv'
<1> DEFINE rec == [conn[c] EXCEPT !.fresh = FALSE]
<1>1. conn[c] \in ConnRecords /\ HasToken(conn[c])
  BY ConnFacts
<1>2. Set(c, rec) /\ UNCHANGED <<conns, lock, fails, push, sweep, row, knows, tick, faults>>
  BY DEF PingAges
<1>3. rec \in ConnRecords
  BY <1>1, Heard
<1>4. rec.pc = conn[c].pc /\ rec.token = conn[c].token /\ rec.auth = conn[c].auth
  BY <1>1 DEF ConnRecords
<1> HIDE DEF rec
<1>5. HasToken(rec)
  BY <1>1, <1>4 DEF HasToken
<1>6. AddrOK' /\ RowOK' /\ row'.token = row.token /\ row'.crossed = row.crossed /\ faults' \in 0..MaxFaults
  BY <1>2 DEF IInv, Types, AddrOK, RowOK, RestOK
<1> QED
  BY <1>2, <1>3, <1>4, <1>5, <1>6, StepKeeps

\* The read of a connection that never got in ends; or it goes to the clean-up.
LEMMA ReadEndsKeeps == ASSUME IInv, NEW c \in Conns, ReadEnds(c) PROVE IInv'
<1>1. UNCHANGED <<conns, lock, fails, push, sweep, row, knows, tick, faults>>
  BY DEF ReadEnds
<1>2. MapOK' /\ AddrOK' /\ RowOK' /\ row'.token = row.token /\ row'.crossed = row.crossed /\ faults' \in 0..MaxFaults
  BY <1>1 DEF IInv, Types, MapOK, AddrOK, RowOK, RestOK
<1>3. CASE conn[c].pc = "live"
  <2>1. Go(c, "closing") /\ "closing" \in Late \ {"announce"} /\ conn[c].pc \in Late
    BY <1>3 DEF ReadEnds, At, Late
  <2> QED
    BY <1>1, <1>2, <1>3, <2>1, GoKeeps
<1>4. CASE conn[c].pc = "up"
  <2> DEFINE rec == [conn[c] EXCEPT !.pc = "over"]
  <2>1. Set(c, rec)
    BY <1>4 DEF ReadEnds, Go, At
  <2>2. conn[c] \in ConnRecords /\ "over" \in Steps
    BY ConnFacts DEF Steps
  <2>3. rec \in ConnRecords
    BY <2>2, Moved
  <2>4. rec.pc = "over"
    BY <2>2 DEF ConnRecords
  <2> HIDE DEF rec
  <2>5. HasToken(rec) /\ conn[c].pc \notin Late
    BY <1>4, <2>4 DEF HasToken, Late
  <2> QED
    BY <1>1, <1>2, <2>1, <2>3, <2>5, StepKeeps
<1> QED
  BY <1>3, <1>4 DEF ReadEnds

LEMMA CompareKeeps == ASSUME IInv, NEW c \in Conns, Compare(c) PROVE IInv'
<1>1. UNCHANGED <<conns, lock, fails, push, sweep, row, knows, tick, faults>>
  BY DEF Compare
<1>2. MapOK' /\ RowOK' /\ row'.token = row.token /\ row'.crossed = row.crossed /\ faults' \in 0..MaxFaults
  BY <1>1 DEF IInv, Types, MapOK, RowOK, RestOK
<1>3. PICK pc \in {"delete", "over"} : Go(c, pc)
  BY DEF Compare
<1>4. conn[c].pc = "closing" /\ conn[c].pc \in Late /\ pc \in Late \ {"announce"}
  BY DEF Compare, At, Late
<1> QED
  BY <1>1, <1>2, <1>3, <1>4, GoKeeps

LEMMA DeleteOwnKeeps == ASSUME IInv, NEW c \in Conns, DeleteOwn(c) PROVE IInv'
<1>1. /\ conns' = [conns EXCEPT ![conn[c].token] = None] /\ Go(c, "mark")
      /\ UNCHANGED <<lock, fails, push, sweep, row, knows, tick, faults>>
  BY DEF DeleteOwn
<1>2. MapOK' /\ \A t \in Tokens : conns'[t] \in {conns[t], None}
  BY <1>1 DEF IInv, Types, MapOK
<1>3. RowOK' /\ row'.token = row.token /\ row'.crossed = row.crossed /\ faults' \in 0..MaxFaults
  BY <1>1 DEF IInv, Types, RowOK, RestOK
<1>4. conn[c].pc = "delete" /\ conn[c].pc \in Late /\ "mark" \in Late \ {"announce"}
  BY DEF DeleteOwn, At, Late
<1> QED
  BY <1>1, <1>2, <1>3, <1>4, GoKeeps

LEMMA MarkGoneKeeps == ASSUME IInv, NEW c \in Conns, MarkGone(c) PROVE IInv'
<1>1. Go(c, "over") /\ UNCHANGED <<conns, lock, fails, push, sweep, knows, tick>>
  BY DEF MarkGone
<1>2. conn[c].pc \in Late /\ "over" \in Late \ {"announce"}
  BY DEF MarkGone, At, Late
<1>3. MapOK'
  BY <1>1 DEF IInv, Types, MapOK
<1>4. RowOK' /\ row'.token = row.token /\ row'.crossed = row.crossed /\ faults' \in 0..MaxFaults
  <2>1. CASE Write(MarkOffline(row.state)) /\ UNCHANGED faults
    <3>1. MarkOffline(row.state) \in States
      BY RowFacts, StateTypes
    <3> QED
      BY <2>1, <3>1, RowFacts, Written
  <2>2. CASE UNCHANGED row /\ Fault
    BY <2>2, FaultTypes DEF IInv, Types, RowOK
  <2> QED
    BY <2>1, <2>2 DEF MarkGone
<1> QED
  BY <1>1, <1>2, <1>3, <1>4, GoKeeps

LEMMA CollectedKeeps == ASSUME IInv, NEW c \in Conns, Collected(c) PROVE IInv'
<1>1. /\ Set(c, NoConn) /\ Forgotten(c)
      /\ UNCHANGED <<conns, lock, fails, push, sweep, row, knows, tick, faults>>
  BY DEF Collected
<1>2. NoConn \in ConnRecords /\ HasToken(NoConn)
  BY DEF NoConn, ConnRecords, Steps, HasToken
<1>3. \A d \in Conns : conn'[d] = IF d = c THEN NoConn ELSE conn[d]
  BY <1>1 DEF Set, IInv, Types, ConnOK
<1>4. ConnOK' /\ \A d \in Conns : HasToken(conn'[d])
  BY <1>1, <1>2, <1>3 DEF Set, IInv, Types, ConnOK
<1>5. MapOK' /\ AddrOK' /\ RowOK' /\ PushOK' /\ SweepOK' /\ RestOK'
  BY <1>1 DEF IInv, Types, MapOK, AddrOK, RowOK, PushOK, SweepOK, RestOK
<1>6. /\ \A t \in Tokens, d \in Conns : conns[t] = d => conn'[d] = conn[d]
      /\ \A r \in Resets, d \in Conns : push[r].to = d => conn'[d] = conn[d]
  BY <1>1, <1>3 DEF Forgotten, Registered
<1>7. Kept' /\ (MapTied => MapTied')
  BY <1>1, <1>6 DEF IInv, Kept, MapTied
<1>8. PushTied => PushTied'
  BY <1>1, <1>6 DEF PushTied, Wrote
<1> QED
  BY <1>1, <1>4, <1>5, <1>7, <1>8 DEF IInv, Types, Tied

-----------------------------------------------------------------------------
(* The others                                                               *)

\* No connection moves and the map stays.
LEMMA IdleKeeps ==
    ASSUME IInv, AddrOK', RowOK', RestOK', SweepOK', row'.token = row.token /\ row'.crossed = row.crossed,
           UNCHANGED <<conn, conns, push>>
    PROVE  IInv'
<1>1. ConnOK' /\ MapOK' /\ \A d \in Conns : HasToken(conn'[d])
  BY DEF IInv, Types, ConnOK, MapOK
<1> QED
  BY <1>1, ManyKeep

\* Only the row, the tick and the faults change.
LEMMA WriteKeeps ==
    ASSUME IInv, NEW new \in States, Write(new), tick' \in {"idle", "take"},
           faults' \in 0..MaxFaults, UNCHANGED <<memory, knows>>
    PROVE  IInv'
<1>1. RowOK' /\ row'.token = row.token /\ row'.crossed = row.crossed
  BY RowFacts, Written
<1>2. AddrOK' /\ RestOK' /\ SweepOK' /\ UNCHANGED <<conn, conns, push>>
  BY DEF memory, IInv, Types, AddrOK, RestOK, SweepOK
<1> QED
  BY <1>1, <1>2, IdleKeeps

LEMMA ReportKeeps == ASSUME IInv, NEW c \in Conns, Report(c) PROVE IInv'
<1>1. Online(row.state) \in States
  BY RowFacts, StateTypes
<1>2. /\ Write(Online(row.state)) /\ UNCHANGED <<memory, knows>>
      /\ tick' \in {"idle", "take"} /\ faults' \in 0..MaxFaults
  BY DEF Report, IInv, Types, RestOK
<1> QED
  BY <1>1, <1>2, WriteKeeps

LEMMA CollectorLooksKeeps == ASSUME IInv, CollectorLooks PROVE IInv'
<1> DEFINE new == IF Expired(row.state) THEN MarkOffline(row.state) ELSE row.state
<1>1. new \in States
  BY RowFacts, StateTypes
<1>2. Write(new) /\ UNCHANGED <<memory, knows>>
  BY DEF CollectorLooks
<1>3. tick' \in {"idle", "take"} /\ faults' \in 0..MaxFaults
  BY DEF CollectorLooks, IInv, Types, RestOK
<1> HIDE DEF new
<1> QED
  BY <1>1, <1>2, <1>3, WriteKeeps

LEMMA CollectorTakesKeeps == ASSUME IInv, CollectorTakes PROVE IInv'
<1>1. tick' \in {"idle", "take"} /\ UNCHANGED <<memory, knows>>
  BY DEF CollectorTakes
<1>2. CASE Fault /\ UNCHANGED row
  <2>1. Write(row.state)
    BY <1>2 DEF Write, IInv, Types, RowOK
  <2>2. faults' \in 0..MaxFaults
    BY <1>2, FaultTypes DEF IInv, Types
  <2> QED
    BY <1>1, <2>1, <2>2, RowFacts, WriteKeeps
<1>3. CASE Write(IF row.state = "due" THEN "notified" ELSE row.state) /\ UNCHANGED faults
  <2> DEFINE new == IF row.state = "due" THEN "notified" ELSE row.state
  <2>1. new \in States
    BY RowFacts DEF States
  <2>2. Write(new) /\ faults' \in 0..MaxFaults
    BY <1>3, RowFacts
  <2> HIDE DEF new
  <2> QED
    BY <1>1, <2>1, <2>2, WriteKeeps
<1> QED
  BY <1>2, <1>3 DEF CollectorTakes

LEMMA RowAgesKeeps == ASSUME IInv, RowAges PROVE IInv'
<1> DEFINE new == IF row.state = "connected" THEN "silent" ELSE "due"
<1>1. new \in States
  BY DEF States
<1>2. /\ Write(new) /\ UNCHANGED <<memory, knows>>
      /\ tick' \in {"idle", "take"} /\ faults' \in 0..MaxFaults
  BY DEF RowAges, IInv, Types, RestOK
<1> HIDE DEF new
<1> QED
  BY <1>1, <1>2, WriteKeeps

LEMMA ClocksKeep ==
    ASSUME IInv, LockEnds \/ \E ip \in Ips : CooldownEnds(ip)
    PROVE  IInv'
<1>1. UNCHANGED <<conn, conns, push, sweep, row, knows, tick, faults>>
  BY DEF LockEnds, CooldownEnds
<1>2. RowOK' /\ RestOK' /\ SweepOK' /\ row'.token = row.token /\ row'.crossed = row.crossed
  BY <1>1 DEF IInv, Types, RowOK, RestOK, SweepOK
<1>3. AddrOK'
  <2>1. CASE LockEnds
    BY <2>1 DEF LockEnds, Unlocked, IInv, Types, AddrOK
  <2>2. ASSUME NEW ip \in Ips, CooldownEnds(ip) PROVE AddrOK'
    <3>1. PICK n \in {0, FailThreshold - 1} : fails' = [fails EXCEPT ![ip] = n]
      BY <2>2 DEF CooldownEnds
    <3>2. n \in 0..FailThreshold
      BY ConnectionsAssumption
    <3> QED
      BY <2>2, <3>1, <3>2 DEF CooldownEnds, IInv, Types, AddrOK
  <2> QED
    BY <2>1, <2>2
<1> QED
  BY <1>1, <1>2, <1>3, IdleKeeps

LEMMA FindStaleKeeps == ASSUME IInv, FindStale PROVE IInv'
<1>1. UNCHANGED <<conn, conns, lock, fails, push, row, knows, tick, faults>>
  BY DEF FindStale
<1>2. AddrOK' /\ RowOK' /\ RestOK' /\ row'.token = row.token /\ row'.crossed = row.crossed
  BY <1>1 DEF IInv, Types, AddrOK, RowOK, RestOK
<1>3. SweepOK'
  <2>1. PICK t \in Tokens : conns[t] # None /\ sweep' = [of |-> conns[t], token |-> t]
    BY DEF FindStale
  <2>2. conns[t] \in Conns
    BY <2>1 DEF IInv, Types, MapOK
  <2> QED
    BY <2>1, <2>2 DEF SweepOK
<1> QED
  BY <1>1, <1>2, <1>3, IdleKeeps

\* Sockets are cut; tokens and places stay.
LEMMA SocketsKeep ==
    ASSUME IInv, MapOK', RestOK', SweepOK',
           \A t \in Tokens : conns'[t] \in {conns[t], None},
           NEW Those \in SUBSET Conns, NEW socket \in {"dead", "closed"},
           conn' = [k \in Conns |-> IF k \in Those THEN [conn[k] EXCEPT !.socket = socket] ELSE conn[k]],
           UNCHANGED <<lock, fails, push, row>>
    PROVE  IInv'
<1>1. ASSUME NEW k \in Conns
      PROVE  /\ conn'[k] \in ConnRecords
             /\ conn'[k].pc = conn[k].pc /\ conn'[k].token = conn[k].token
             /\ conn'[k].auth = conn[k].auth
  <2>1. conn[k] \in ConnRecords /\ socket \in {"open", "dead", "closed"}
    BY ConnFacts
  <2>2. [conn[k] EXCEPT !.socket = socket] \in ConnRecords
    BY <2>1, Cut
  <2> QED
    BY <2>1, <2>2 DEF ConnRecords
<1>2. ConnOK'
  BY <1>1 DEF ConnOK
<1>3. \A k \in Conns : HasToken(conn'[k])
  BY <1>1, ConnFacts DEF HasToken
<1>4. AddrOK' /\ RowOK' /\ row'.token = row.token /\ row'.crossed = row.crossed
  BY DEF IInv, Types, AddrOK, RowOK
<1> QED
  BY <1>1, <1>2, <1>3, <1>4, ManyKeep

LEMMA AgentStopsKeeps == ASSUME IInv, AgentStops PROVE IInv'
<1> DEFINE Those == {c \in Conns : conn[c].pc \notin {"new", "over"} /\ conn[c].socket = "open"}
<1>1. /\ conn' = [k \in Conns |-> IF k \in Those THEN [conn[k] EXCEPT !.socket = "dead"] ELSE conn[k]]
      /\ UNCHANGED <<conns, lock, fails, push, sweep, row, tick>> /\ knows' = 0 /\ Fault
  BY DEF AgentStops
<1>2. MapOK' /\ SweepOK' /\ RestOK' /\ \A t \in Tokens : conns'[t] \in {conns[t], None}
  BY <1>1, FaultTypes DEF IInv, Types, MapOK, SweepOK, RestOK
<1>3. Those \in SUBSET Conns
  OBVIOUS
<1> HIDE DEF Those
<1> QED
  BY <1>1, <1>2, <1>3, SocketsKeep

LEMMA DropStaleKeeps == ASSUME IInv, DropStale PROVE IInv'
<1>1. sweep.of \in Conns /\ sweep.token \in Tokens
  BY DEF DropStale, IInv, Types, SweepOK
<1>2. /\ conn' = [conn EXCEPT ![sweep.of] = [conn[sweep.of] EXCEPT !.socket = "closed"]]
      /\ conns' = [conns EXCEPT ![sweep.token] = None] /\ sweep' = NoSweep
      /\ UNCHANGED <<lock, fails, push, row, knows, tick, faults>>
  BY DEF DropStale, Dropped
<1>3. conn' = [k \in Conns |-> IF k \in {sweep.of} THEN [conn[k] EXCEPT !.socket = "closed"] ELSE conn[k]]
  BY <1>2 DEF IInv, Types, ConnOK
<1>4. MapOK' /\ \A t \in Tokens : conns'[t] \in {conns[t], None}
  BY <1>1, <1>2 DEF IInv, Types, MapOK
<1>5. SweepOK' /\ RestOK'
  BY <1>2 DEF IInv, Types, SweepOK, RestOK
<1>6. {sweep.of} \in SUBSET Conns
  BY <1>1
<1> QED
  BY <1>2, <1>3, <1>4, <1>5, <1>6, SocketsKeep

-----------------------------------------------------------------------------
(* The change of the token                                                  *)

\* Only requests that are not sent on change, to where the connections stay.
LEMMA PushFits ==
    ASSUME PushOK, NEW r \in Resets, NEW p \in PushRecords, StageOK(p),
           push' = [push EXCEPT ![r] = p]
    PROVE  PushOK' /\ \A q \in Resets : push'[q] = IF q = r THEN p ELSE push[q]
BY DEF PushOK

LEMMA NoPushFits == NoPush \in PushRecords /\ StageOK(NoPush)
BY DEF NoPush, PushRecords, StageOK, Stages

\* A request ends.
LEMMA EndKeeps ==
    ASSUME IInv, NEW r \in Resets, push' = [push EXCEPT ![r] = NoPush],
           UNCHANGED <<conn, conns, lock, fails, sweep, row, knows, tick, faults>>
    PROVE  IInv'
<1>1. PushOK' /\ \A q \in Resets : push'[q] = IF q = r THEN NoPush ELSE push[q]
  BY NoPushFits, PushFits DEF IInv, Types
<1>2. ConnOK' /\ MapOK' /\ AddrOK' /\ RowOK' /\ SweepOK' /\ RestOK' /\ \A c \in Conns : HasToken(conn'[c])
  BY DEF IInv, Types, ConnOK, MapOK, AddrOK, RowOK, SweepOK, RestOK
<1>3. NoPush.pc = "idle" /\ \A c \in Conns : NoPush.to # c
  BY ConnectionsAssumption DEF NoPush
<1>4. Kept' /\ (MapTied => MapTied')
  BY <1>1, <1>3 DEF IInv, Kept, MapTied
<1>5. PushTied => PushTied'
  BY <1>1, <1>3 DEF PushTied, Wrote
<1> QED
  BY <1>1, <1>2, <1>4, <1>5 DEF IInv, Types, Tied

LEMMA ResetReadsKeeps == ASSUME IInv, NEW r \in Resets, ResetReads(r) PROVE IInv'
<1> DEFINE p == [push[r] EXCEPT !.pc = "write", !.old = row.token]
<1>1. push[r] \in PushRecords /\ StageOK(push[r]) /\ push[r].pc = "idle" /\ row.token \in Tokens
  BY PushFacts DEF ResetReads, IInv, Types, RowOK
<1>2. /\ push' = [push EXCEPT ![r] = p]
      /\ UNCHANGED <<conn, conns, lock, fails, sweep, row, knows, tick, faults>>
  BY DEF ResetReads, IInv, Types, PushOK
<1>3. p \in PushRecords /\ p.pc = "write" /\ p.old = row.token /\ p.to = push[r].to
  BY <1>1 DEF PushRecords, Stages
<1>4. p.to = None
  BY <1>1, <1>3 DEF StageOK
<1> HIDE DEF p
<1>5. StageOK(p)
  BY <1>1, <1>3, <1>4, ConnectionsAssumption DEF StageOK, Tokens
<1>6. PushOK' /\ \A q \in Resets : push'[q] = IF q = r THEN p ELSE push[q]
  BY <1>2, <1>3, <1>5, PushFits DEF IInv, Types
<1>7. ConnOK' /\ MapOK' /\ AddrOK' /\ RowOK' /\ SweepOK' /\ RestOK' /\ \A c \in Conns : HasToken(conn'[c])
  BY <1>2 DEF IInv, Types, ConnOK, MapOK, AddrOK, RowOK, SweepOK, RestOK
<1>8. Kept' /\ (MapTied => MapTied')
  BY <1>2, <1>4, <1>6, ConnectionsAssumption DEF IInv, Kept, MapTied
<1>9. PushTied => PushTied'
  BY <1>2, <1>3, <1>4, <1>6, ConnectionsAssumption DEF PushTied, Wrote
<1> QED
  BY <1>2, <1>6, <1>7, <1>8, <1>9 DEF IInv, Types, Tied

\* The row's next token is no other request's, and follows the one that was read
\* unless the row's was another by now.
LEMMA ResetWritesKeeps == ASSUME IInv, NEW r \in Resets, ResetWrites(r) PROVE IInv'
<1> DEFINE p == [push[r] EXCEPT !.pc = "find", !.new = row.token + 1]
<1>1. push[r] \in PushRecords /\ StageOK(push[r]) /\ push[r].pc = "write" /\ push[r].old \in Tokens
  BY PushFacts DEF ResetWrites, IInv, Types
<1>2. CASE push' = [push EXCEPT ![r] = NoPush] /\ UNCHANGED <<row, lock>>
  BY <1>2, EndKeeps DEF ResetWrites
<1>3. CASE ~(push' = [push EXCEPT ![r] = NoPush] /\ UNCHANGED <<row, lock>>)
  <2>1. /\ row.token <= MaxResets /\ lock' = None
        /\ row' = [row EXCEPT !.token = row.token + 1, !.crossed = row.crossed \/ row.token # push[r].old]
        /\ push' = [push EXCEPT ![r] = p]
        /\ UNCHANGED <<conn, conns, fails, sweep, knows, tick, faults>>
    BY <1>3 DEF ResetWrites, IInv, Types, PushOK
  <2>2. row.token \in Tokens /\ row.token \in Nat /\ row.token + 1 \in Tokens
    BY <2>1, ConnectionsAssumption DEF IInv, Types, RowOK, Tokens
  <2>3. /\ RowOK' /\ row'.token = row.token + 1
        /\ ~row'.crossed => ~row.crossed /\ row.token = push[r].old
    BY <2>1, <2>2 DEF IInv, Types, RowOK
  <2>4. /\ p \in PushRecords /\ p.pc = "find" /\ p.new = row.token + 1
        /\ p.old = push[r].old /\ p.to = push[r].to
    BY <1>1, <2>2 DEF PushRecords, Stages
  <2>5. p.to = None
    BY <1>1, <2>4 DEF StageOK
  <2> HIDE DEF p
  <2>6. StageOK(p)
    BY <1>1, <2>2, <2>4, <2>5, ConnectionsAssumption DEF StageOK, Tokens
  <2>7. PushOK' /\ \A q \in Resets : push'[q] = IF q = r THEN p ELSE push[q]
    BY <2>1, <2>4, <2>6, PushFits DEF IInv, Types
  <2>8. ConnOK' /\ MapOK' /\ AddrOK' /\ SweepOK' /\ RestOK' /\ \A c \in Conns : HasToken(conn'[c])
    BY <2>1 DEF IInv, Types, ConnOK, MapOK, AddrOK, SweepOK, RestOK
  <2>9. Kept' /\ (MapTied => MapTied')
    BY <2>1, <2>5, <2>7, ConnectionsAssumption DEF IInv, Kept, MapTied
  <2>10. ASSUME PushTied, ~row'.crossed PROVE PushTied'
    <3>1. \A q \in Resets : Wrote(q) => push[q].new \in Nat /\ push[q].new <= row.token
      BY <2>10, PushFacts DEF PushTied, IInv, Types, Tokens
    <3>2. \A q \in Resets : q # r => (Wrote(q)' <=> Wrote(q)) /\ push'[q] = push[q]
      BY <2>7 DEF Wrote
    <3>3. \A q \in Resets : Wrote(q)' => push'[q].new = push'[q].old + 1 /\ push'[q].new <= row'.token
      BY <2>2, <2>3, <2>4, <2>7, <2>10, <3>1, <3>2 DEF PushTied
    <3>4. \A q, z \in Resets : Wrote(q)' /\ Wrote(z)' /\ push'[q].new = push'[z].new => q = z
      BY <2>2, <2>4, <2>7, <2>10, <3>1, <3>2 DEF PushTied
    <3>5. \A q \in Resets, c \in Conns : push'[q].to = c => q # r /\ push[q].to = c
      BY <2>5, <2>7, ConnectionsAssumption
    <3> QED
      BY <2>1, <2>10, <3>2, <3>3, <3>4, <3>5 DEF PushTied
  <2> QED
    BY <2>3, <2>7, <2>8, <2>9, <2>10 DEF IInv, Types, Tied
<1> QED
  BY <1>2, <1>3

LEMMA ResetFindsKeeps == ASSUME IInv, NEW r \in Resets, ResetFinds(r) PROVE IInv'
<1> DEFINE c == conns[push[r].old]
           p == [push[r] EXCEPT !.pc = "send", !.to = c]
<1>1. push[r] \in PushRecords /\ StageOK(push[r]) /\ push[r].pc = "find" /\ push[r].old \in Tokens
  BY PushFacts DEF ResetFinds, IInv, Types
<1>2. UNCHANGED <<conn, conns, lock, fails, sweep, row, knows, tick, faults>>
  BY DEF ResetFinds
<1>3. CASE c = None
  BY <1>2, <1>3, EndKeeps DEF ResetFinds, Found
<1>4. CASE c # None
  <2>1. push' = [push EXCEPT ![r] = p]
    BY <1>4 DEF ResetFinds, Found, IInv, Types, PushOK
  <2>2. c \in Conns /\ conn[c].pc \in Late
    BY <1>1, <1>4 DEF IInv, Types, MapOK, Kept
  <2>3. /\ p \in PushRecords /\ p.pc = "send" /\ p.to = c
        /\ p.new = push[r].new /\ p.old = push[r].old
    BY <1>1, <2>2 DEF PushRecords, Stages
  <2>4. MapTied => conn[c].token = push[r].old
    BY <1>1, <2>2 DEF MapTied
  <2> HIDE DEF p, c
  <2>5. StageOK(p)
    BY <1>1, <2>2, <2>3, ConnectionsAssumption DEF StageOK
  <2>6. PushOK' /\ \A q \in Resets : push'[q] = IF q = r THEN p ELSE push[q]
    BY <2>1, <2>3, <2>5, PushFits DEF IInv, Types
  <2>7. ConnOK' /\ MapOK' /\ AddrOK' /\ RowOK' /\ SweepOK' /\ RestOK' /\ \A d \in Conns : HasToken(conn'[d])
    BY <1>2 DEF IInv, Types, ConnOK, MapOK, AddrOK, RowOK, SweepOK, RestOK
  <2>8. Kept' /\ (MapTied => MapTied')
    BY <1>2, <2>2, <2>3, <2>6 DEF IInv, Kept, MapTied
  <2>9. ASSUME PushTied, MapTied PROVE PushTied'
    <3>1. \A q \in Resets : (Wrote(q)' <=> Wrote(q)) /\ push'[q].new = push[q].new /\ push'[q].old = push[q].old
      BY <1>1, <2>3, <2>6 DEF Wrote
    <3>2. \A q \in Resets, d \in Conns : push'[q].to = d =>
              conn'[d].token = IF push'[q].pc = "store" THEN push'[q].new ELSE push'[q].old
      BY <1>2, <2>3, <2>4, <2>6, <2>9 DEF PushTied
    <3> QED
      BY <1>2, <2>9, <3>1, <3>2 DEF PushTied
  <2> QED
    BY <1>2, <2>6, <2>7, <2>8, <2>9 DEF IInv, Types, Tied
<1> QED
  BY <1>3, <1>4

\* The old entry goes with the old name; nobody else renames the connection now.
LEMMA PushTokenKeeps == ASSUME IInv, NEW r \in Resets, PushToken(r) PROVE IInv'
<1> DEFINE c   == push[r].to
           rec == [conn[c] EXCEPT !.token = push[r].new]
           p   == [push[r] EXCEPT !.pc = "store"]
<1>1. /\ push[r] \in PushRecords /\ StageOK(push[r]) /\ push[r].pc = "send"
      /\ push[r].old \in Tokens /\ push[r].new \in Tokens /\ c \in Conns
  BY PushFacts DEF PushToken, IInv, Types, Wrote
<1>2. UNCHANGED <<lock, fails, sweep, row, tick, faults>>
  BY DEF PushToken
<1>3. CASE conn[c].socket = "closed"
  BY <1>2, <1>3, EndKeeps DEF PushToken
<1>4. CASE conn[c].socket # "closed"
  <2>1. /\ knows' = IF conn[c].socket = "open" THEN push[r].new ELSE knows
        /\ conns' = [conns EXCEPT ![push[r].old] = None]
        /\ conn' = [conn EXCEPT ![c] = rec]
        /\ push' = [push EXCEPT ![r] = p]
    BY <1>4 DEF PushToken, DropOld, IInv, Types, ConnOK, PushOK
  <2>2. conn[c] \in ConnRecords /\ HasToken(conn[c]) /\ conn[c].pc \in Late
    BY <1>1, ConnFacts DEF IInv, Kept
  <2>3. /\ rec \in ConnRecords /\ rec.pc = conn[c].pc /\ rec.token = push[r].new
        /\ rec.auth = conn[c].auth
    BY <1>1, <2>2 DEF ConnRecords
  <2>4. /\ p \in PushRecords /\ p.pc = "store" /\ p.to = c
        /\ p.new = push[r].new /\ p.old = push[r].old
    BY <1>1 DEF PushRecords, Stages
  <2>5. \A q \in Resets : push[q].to = c => push[q].pc # "store"
    BY DEF PushToken
  <2> HIDE DEF p, rec
  <2>6. HasToken(rec)
    BY <1>1, <2>2, <2>3 DEF HasToken, Late
  <2>7. \A d \in Conns : conn'[d] = IF d = c THEN rec ELSE conn[d]
    BY <2>1 DEF IInv, Types, ConnOK
  <2>8. ConnOK' /\ \A d \in Conns : HasToken(conn'[d])
    BY <2>1, <2>3, <2>6, <2>7 DEF IInv, Types, ConnOK
  <2>9. StageOK(p)
    BY <1>1, <2>4, ConnectionsAssumption DEF StageOK
  <2>10. PushOK' /\ \A q \in Resets : push'[q] = IF q = r THEN p ELSE push[q]
    BY <2>1, <2>4, <2>9, PushFits DEF IInv, Types
  <2>11. MapOK' /\ AddrOK' /\ RowOK' /\ SweepOK' /\ RestOK'
    BY <1>1, <1>2, <2>1 DEF IInv, Types, MapOK, AddrOK, RowOK, SweepOK, RestOK
  <2>12. \A t \in Tokens, d \in Conns : conns'[t] = d => conns[t] = d /\ t # push[r].old
    BY <2>1, ConnectionsAssumption DEF IInv, Types, MapOK
  <2>13. Kept'
    BY <2>2, <2>3, <2>4, <2>7, <2>10, <2>12 DEF IInv, Kept
  <2>14. ASSUME MapTied, PushTied PROVE MapTied' /\ PushTied'
    <3>1. conn[c].token = push[r].old
      BY <1>1, <2>14 DEF PushTied
    <3>2. MapTied'
      BY <2>7, <2>12, <2>14, <3>1 DEF MapTied
    <3>3. \A q \in Resets : (Wrote(q)' <=> Wrote(q)) /\ push'[q].new = push[q].new /\ push'[q].old = push[q].old
      BY <1>1, <2>4, <2>10 DEF Wrote
    <3>4. ASSUME NEW q \in Resets, q # r PROVE push[q].to # c
      <4> SUFFICES ASSUME push[q].to = c PROVE FALSE
        OBVIOUS
      <4>1. push[q].pc = "send"
        BY <1>1, <2>5, PushFacts, ConnectionsAssumption DEF IInv, Types, StageOK
      <4>2. Wrote(q) /\ Wrote(r) /\ push[q].old = push[r].old
        BY <1>1, <2>14, <3>1, <4>1 DEF PushTied, Wrote
      <4>3. push[q].new = push[r].new
        BY <2>14, <4>2 DEF PushTied
      <4> QED
        BY <2>14, <3>4, <4>2, <4>3 DEF PushTied
    <3>5. \A q \in Resets, d \in Conns : push'[q].to = d =>
              conn'[d].token = IF push'[q].pc = "store" THEN push'[q].new ELSE push'[q].old
      BY <2>3, <2>4, <2>7, <2>10, <2>14, <3>4 DEF PushTied
    <3> QED
      BY <1>2, <2>14, <3>2, <3>3, <3>5 DEF PushTied
  <2> QED
    BY <1>2, <2>8, <2>10, <2>11, <2>13, <2>14 DEF IInv, Types, Tied
<1> QED
  BY <1>3, <1>4

LEMMA PushStoreKeeps == ASSUME IInv, NEW r \in Resets, PushStore(r) PROVE IInv'
<1> DEFINE c == push[r].to
           t == push[r].new
<1>1. push[r].pc = "store" /\ c \in Conns /\ t \in Tokens
  BY PushFacts DEF PushStore, IInv, Types, Wrote
<1>2. /\ conns' = [conns EXCEPT ![t] = c] /\ push' = [push EXCEPT ![r] = NoPush]
      /\ UNCHANGED <<conn, lock, fails, sweep, row, knows, tick, faults>>
  BY DEF PushStore
<1>3. PushOK' /\ \A q \in Resets : push'[q] = IF q = r THEN NoPush ELSE push[q]
  BY <1>2, NoPushFits, PushFits DEF IInv, Types
<1>4. MapOK' /\ \A z \in Tokens : conns'[z] = IF z = t THEN c ELSE conns[z]
  BY <1>1, <1>2 DEF IInv, Types, MapOK
<1>5. ConnOK' /\ AddrOK' /\ RowOK' /\ SweepOK' /\ RestOK' /\ \A d \in Conns : HasToken(conn'[d])
  BY <1>2 DEF IInv, Types, ConnOK, AddrOK, RowOK, SweepOK, RestOK
<1>6. NoPush.pc = "idle" /\ \A d \in Conns : NoPush.to # d
  BY ConnectionsAssumption DEF NoPush
<1>7. conn[c].pc \in Late /\ (PushTied => conn[c].token = t)
  BY <1>1 DEF IInv, Kept, PushTied
<1>8. Kept' /\ (MapTied /\ PushTied => MapTied')
  BY <1>2, <1>3, <1>4, <1>6, <1>7 DEF IInv, Kept, MapTied
<1>9. PushTied => PushTied'
  BY <1>2, <1>3, <1>6 DEF PushTied, Wrote
<1> QED
  BY <1>2, <1>3, <1>4, <1>5, <1>8, <1>9 DEF IInv, Types, Tied

LEMMA ReinstallKeeps == ASSUME IInv, Reinstall PROVE IInv'
<1>1. knows' = row.token /\ UNCHANGED <<memory, row, tick, faults>>
  BY DEF Reinstall
<1>2. AddrOK' /\ RowOK' /\ SweepOK' /\ RestOK' /\ row'.token = row.token /\ row'.crossed = row.crossed /\ UNCHANGED <<conn, conns, push>>
  BY <1>1 DEF memory, IInv, Types, AddrOK, RowOK, SweepOK, RestOK
<1> QED
  BY <1>2, IdleKeeps

LEMMA PanelRestartsKeeps == ASSUME IInv, PanelRestarts PROVE IInv'
<1>1. /\ conn' = [c \in Conns |-> NoConn] /\ conns' = [t \in Tokens |-> None]
      /\ lock' = None /\ fails' = [ip \in Ips |-> 0]
      /\ push' = [r \in Resets |-> NoPush] /\ sweep' = NoSweep /\ tick' = "idle"
      /\ UNCHANGED <<row, knows>> /\ Fault
  BY DEF PanelRestarts
<1>2. NoConn \in ConnRecords /\ HasToken(NoConn)
  BY DEF NoConn, ConnRecords, Steps, HasToken
<1>3. ConnOK' /\ MapOK' /\ \A c \in Conns : HasToken(conn'[c])
  BY <1>1, <1>2 DEF ConnOK, MapOK
<1>4. AddrOK'
  <2>1. 0 \in 0..FailThreshold
    BY ConnectionsAssumption
  <2> QED
    BY <1>1, <2>1 DEF AddrOK
<1>5. RowOK' /\ PushOK' /\ SweepOK'
  BY <1>1 DEF IInv, Types, RowOK, PushOK, SweepOK, NoPush, PushRecords, Stages, StageOK
<1>6. RestOK'
  BY <1>1, FaultTypes DEF IInv, Types, RestOK
<1>7. Kept' /\ Tied'
  BY <1>1, ConnectionsAssumption DEF Kept, Tied, MapTied, PushTied, Wrote, NoPush
<1> QED
  BY <1>3, <1>4, <1>5, <1>6, <1>7 DEF IInv, Types

-----------------------------------------------------------------------------
(* The theorems                                                             *)

LEMMA Stutter == ASSUME IInv, UNCHANGED vars PROVE IInv'
<1>1. UNCHANGED <<conn, conns, lock, fails, push, sweep, row, knows, tick, faults>>
  BY DEF vars, memory
<1>2. AddrOK' /\ RowOK' /\ SweepOK' /\ RestOK' /\ row'.token = row.token /\ row'.crossed = row.crossed
  BY <1>1 DEF IInv, Types, AddrOK, RowOK, SweepOK, RestOK
<1> QED
  BY <1>1, <1>2, IdleKeeps

LEMMA NextKeeps == IInv /\ [Next]_vars => IInv'
<1> SUFFICES ASSUME IInv, [Next]_vars PROVE IInv'
  OBVIOUS
<1>1. ASSUME NEW c \in Conns, Goroutine(c) PROVE IInv'
  BY <1>1, AuthenticateKeeps, CheckExistingKeeps, TakePlaceKeeps, StoreKeeps, AnnounceKeeps,
     HeartbeatKeeps, ReportKeeps, ReadEndsKeeps, CompareKeeps, DeleteOwnKeeps, MarkGoneKeeps
  DEF Goroutine, Auth, CleanUp
<1>2. ASSUME NEW c \in Conns, (\E ip \in Ips : Dial(c, ip)) \/ PeerLeaves(c) \/ Collected(c)
      PROVE  IInv'
  BY <1>2, DialKeeps, PeerLeavesKeeps, CollectedKeeps
<1>3. ASSUME Sweeper \/ Collector PROVE IInv'
  BY <1>3, FindStaleKeeps, DropStaleKeeps, CollectorLooksKeeps, CollectorTakesKeeps
  DEF Sweeper, Collector
<1>4. ASSUME Time PROVE IInv'
  BY <1>4, PingAgesKeeps, RowAgesKeeps, ClocksKeep DEF Time
<1>5. ASSUME NEW r \in Resets, ResetReads(r) \/ Reset(r) PROVE IInv'
  BY <1>5, ResetReadsKeeps, ResetWritesKeeps, ResetFindsKeeps, PushTokenKeeps, PushStoreKeeps DEF Reset
<1> QED
  BY <1>1, <1>2, <1>3, <1>4, <1>5, ReinstallKeeps, AgentStopsKeeps,
     PanelRestartsKeeps, Stutter DEF Next

LEMMA Invariant == Spec => []IInv
<1> QED
  BY InitInv, NextKeeps, PTL DEF Spec

\* What the panel keeps of the connections and the row has its type.
THEOREM TypeCorrect == Spec => []TypeOK
<1>1. IInv => TypeOK
  BY DEF IInv, Types, TypeOK, ConnOK, MapOK, AddrOK, RowOK, PushOK, SweepOK, RestOK, ConnRecords,
     PushRecords, StageOK
<1> QED
  BY <1>1, Invariant, PTL

\* However connections replace each other, are swept and have their token changed
\* by any number of requests at once, the map names each under its own token, as
\* long as every reset replaced the token it had read (handleAuth, SendTokenUpdate).
THEOREM OwnToken == Spec => []RegisteredUnderOwnToken
<1>1. IInv => RegisteredUnderOwnToken
  BY DEF IInv, Types, MapOK, Tied, MapTied, RegisteredUnderOwnToken
<1> QED
  BY <1>1, Invariant, PTL

\* An absence is notified once (MarkOfflineRemoteServers, TakeOfflineServersToNotify).
THEOREM OneNotice == Spec => NotifiedOnce
<1>1. IInv /\ [Next]_vars =>
          [row.state = "notified" /\ row'.state # "notified" => row'.state = "connected"]_vars
  <2> SUFFICES ASSUME IInv, Next, row.state = "notified", row'.state # "notified"
               PROVE  row'.state = "connected"
    OBVIOUS
  <2>1. ASSUME NEW new \in States, Write(new) PROVE row'.state = new
    BY <2>1, RowFacts, Written
  <2>2. row' # row /\ row.state \in States
    BY RowFacts
  <2>3. ASSUME NEW c \in Conns, Announce(c) \/ Heartbeat(c) \/ Report(c) PROVE row'.state = "connected"
    <3>1. Write("connected") \/ Write(row.state)
      BY <2>3 DEF Announce, Heartbeat, Report, Online
    <3>2. "connected" \in States
      BY DEF States
    <3> QED
      BY <2>1, <2>2, <3>1, <3>2
  <2>4. ASSUME NEW c \in Conns, MarkGone(c) PROVE FALSE
    BY <2>1, <2>2, <2>4 DEF MarkGone, MarkOffline
  <2>5. ~Collector
    <3>1. ~CollectorLooks
      BY <2>1, <2>2 DEF CollectorLooks, Expired
    <3>2. ~CollectorTakes
      BY <2>1, <2>2 DEF CollectorTakes
    <3> QED
      BY <3>1, <3>2 DEF Collector
  <2>6. ASSUME NEW r \in Resets, ResetReads(r) \/ Reset(r) PROVE FALSE
    <3>1. ~ResetWrites(r)
      BY <2>2, RowFacts DEF ResetWrites, RowOK
    <3> QED
      BY <2>2, <2>6, <3>1 DEF ResetReads, Reset, ResetFinds, PushToken, PushStore
  <2>7. ~RowAges
    BY DEF RowAges
  <2>8. ASSUME NEW c \in Conns,
               \/ \E ip \in Ips : Dial(c, ip)
               \/ Authenticate(c) \/ CheckExisting(c) \/ TakePlace(c) \/ Store(c)
               \/ ReadEnds(c) \/ Compare(c) \/ DeleteOwn(c)
               \/ PeerLeaves(c) \/ Collected(c) \/ PingAges(c)
        PROVE  FALSE
    BY <2>2, <2>8 DEF Dial, Authenticate, CheckExisting, TakePlace, Store, ReadEnds, Compare,
       DeleteOwn, PeerLeaves, Collected, PingAges
  <2>9. ~(Sweeper \/ Reinstall \/ AgentStops \/ LockEnds \/ PanelRestarts
          \/ \E ip \in Ips : CooldownEnds(ip))
    BY <2>2 DEF Sweeper, FindStale, DropStale, Reinstall, AgentStops, LockEnds, CooldownEnds, PanelRestarts
  <2> QED
    BY <2>3, <2>4, <2>5, <2>6, <2>7, <2>8, <2>9 DEF Next, Goroutine, Auth, CleanUp, Time
<1> QED
  BY <1>1, Invariant, PTL DEF Spec, NotifiedOnce
=============================================================================
