-------------------------- MODULE SecureChannelProofs --------------------------
(***************************************************************************)
(* Proofs about ReplayWindow and SecureChannel, for every width of the     *)
(* window and any number of sessions, calls, repeats and losses.           *)
(***************************************************************************)
EXTENDS SecureChannelProps, TLAPS

Windows == [max : Nat, bits : SUBSET (0..(W - 1))]

CallRecords == [pc : Places, session : Sessions \cup {None}, seq : Nat, asked : Nat,
                at : Sessions \cup {None}, runs : Nat, opened : Nat, why : Reasons]

-----------------------------------------------------------------------------
(* The window                                                               *)

\* The new window is a window.
LEMMA MarkType ==
    ASSUME NEW w \in Windows, NEW seq \in Nat, Accepts(w, seq)
    PROVE  Mark(w, seq) \in Windows
<1>1. w.max \in Nat /\ w.bits \subseteq 0..(W - 1)
  BY DEF Windows
<1>2. CASE seq > w.max
  <2>1. Shift(w.bits, seq - w.max) \cup {0} \subseteq 0..(W - 1)
    BY WindowAssumption DEF Shift
  <2> QED
    BY <1>2, <2>1 DEF Mark, Windows
<1>3. CASE ~(seq > w.max)
  <2>1. w.max - seq \in 0..(W - 1)
    BY <1>1, <1>3, WindowAssumption DEF Accepts
  <2>2. [w EXCEPT !.bits = @ \cup {w.max - seq}] = [max |-> w.max, bits |-> w.bits \cup {w.max - seq}]
    BY DEF Windows
  <2> QED
    BY <1>1, <1>3, <2>1, <2>2 DEF Mark, Windows
<1> QED
  BY <1>2, <1>3

\* A number that passed does not pass again.
LEMMA NeverTwice ==
    ASSUME NEW w \in Windows, NEW seen \in SUBSET Nat, Represents(w, seen), NEW seq \in seen
    PROVE  ~Accepts(w, seq)
<1>1. w.max \in Nat /\ seq \in Nat /\ seq <= w.max
  BY DEF Windows, Represents
<1>2. CASE w.max - seq < W
  BY <1>1, <1>2, WindowAssumption DEF Accepts, Represents
<1>3. CASE ~(w.max - seq < W)
  BY <1>1, <1>3 DEF Accepts
<1> QED
  BY <1>2, <1>3

\* One that does not pass is 0, has passed before, or is W below the greatest.
LEMMA RefusedBecause ==
    ASSUME NEW w \in Windows, NEW seen \in SUBSET Nat, Represents(w, seen),
           NEW seq \in Nat, ~Accepts(w, seq), seq # 0, seq \notin seen
    PROVE  w.max \in seen /\ w.max >= seq + W
<1>1. w.max \in Nat /\ seq <= w.max
  BY DEF Windows, Accepts
<1>2. w.max - seq \notin w.bits
  BY <1>1 DEF Represents
<1>3. ~(w.max - seq < W)
  BY <1>1, <1>2 DEF Accepts
<1>4. w.max \in seen
  BY <1>1 DEF Represents
<1> QED
  BY <1>1, <1>3, <1>4, WindowAssumption

\* The marked window represents one number more.
LEMMA MarkRepresents ==
    ASSUME NEW w \in Windows, NEW seen \in SUBSET Nat, Represents(w, seen),
           NEW seq \in Nat, Accepts(w, seq)
    PROVE  Represents(Mark(w, seq), seen \cup {seq})
<1>1. w.max \in Nat /\ w.bits = {d \in 0..(W - 1) : w.max - d \in seen}
  BY DEF Windows, Represents
<1>2. \A n \in seen : n \in Nat /\ n <= w.max
  BY DEF Represents
<1>3. w.max \in seen \cup {0}
  BY DEF Represents
<1>4. CASE seq > w.max
  <2>1. Mark(w, seq).max = seq /\ Mark(w, seq).bits = Shift(w.bits, seq - w.max) \cup {0}
    BY <1>4 DEF Mark
  <2>2. \A n \in seen \cup {seq} : n <= seq
    BY <1>1, <1>2, <1>4
  <2>3. ASSUME NEW d \in 0..(W - 1)
        PROVE  d \in Shift(w.bits, seq - w.max) \cup {0} <=> seq - d \in seen \cup {seq}
    <3>1. CASE d = 0
      BY <3>1
    <3>2. CASE d # 0 /\ d < seq - w.max
      <4>1. seq - d \notin seen \cup {seq}
        BY <1>1, <1>2, <3>2, WindowAssumption
      <4>2. d - (seq - w.max) \notin w.bits
        BY <1>1, <3>2, WindowAssumption
      <4> QED
        BY <3>2, <4>1, <4>2 DEF Shift
    <3>3. CASE d # 0 /\ ~(d < seq - w.max)
      <4>1. d - (seq - w.max) \in 0..(W - 1)
        BY <1>1, <1>4, <3>3, WindowAssumption
      <4>2. w.max - (d - (seq - w.max)) = seq - d
        BY <1>1, WindowAssumption
      <4>3. d - (seq - w.max) \in w.bits <=> seq - d \in seen
        BY <1>1, <4>1, <4>2
      <4>4. seq - d # seq
        BY <3>3, WindowAssumption
      <4> QED
        BY <3>3, <4>3, <4>4 DEF Shift
    <3> QED
      BY <3>1, <3>2, <3>3
  <2>4. Shift(w.bits, seq - w.max) \cup {0} \subseteq 0..(W - 1)
    BY WindowAssumption DEF Shift
  <2>5. Mark(w, seq).bits = {d \in 0..(W - 1) : seq - d \in seen \cup {seq}}
    BY <2>1, <2>3, <2>4
  <2> QED
    BY <2>1, <2>2, <2>5 DEF Represents
<1>5. CASE ~(seq > w.max)
  <2>1. Mark(w, seq).max = w.max /\ Mark(w, seq).bits = w.bits \cup {w.max - seq}
    BY <1>5 DEF Mark, Windows
  <2>2. w.max - seq \in 0..(W - 1)
    BY <1>1, <1>5, WindowAssumption DEF Accepts
  <2>3. \A n \in seen \cup {seq} : n <= w.max
    BY <1>1, <1>2, <1>5
  <2>4. ASSUME NEW d \in 0..(W - 1)
        PROVE  w.max - d = seq <=> d = w.max - seq
    BY <1>1, WindowAssumption
  <2>5. w.bits \cup {w.max - seq} = {d \in 0..(W - 1) : w.max - d \in seen \cup {seq}}
    BY <1>1, <2>2, <2>4
  <2> QED
    BY <1>3, <2>1, <2>3, <2>5 DEF Represents
<1> QED
  BY <1>4, <1>5
-----------------------------------------------------------------------------
(* The channel                                                              *)

\* An exchange that is under way knows its sessions.
Knows(r) ==
    /\ r.pc \in {"sealed", "open", "reply"} => r.session \in Sessions
    /\ r.pc \in {"open", "done", "reply", "plain"} => r.at \in Sessions
    /\ r.pc = "reply" => r.at = r.session

\* A request that was executed passed a window, a result that is on its way has
\* not; g is what passed, n what was sent.
Sound(r, g, n) ==
    /\ r.opened <= 1
    /\ r.pc \in {"idle", "sealed", "open", "invalid"} => r.runs = 0 /\ r.opened = 0
    /\ r.pc \in {"done", "reply"} => r.asked \in g[r.at]["owner"]
    /\ r.pc = "invalid" => r.why \in {"no session", "decrypt failed"}
    /\ r.pc = "failed" => r.why \in {"lost", "refused"}
    /\ r.pc = "exchange" /\ r.runs > 0 /\ r.why # "refused" =>
           /\ r.session \in Sessions
           /\ \E m \in g[r.session]["consumer"] : m >= r.seq + W
    /\ r.pc = "reply" => /\ r.seq \in 1..n[r.session]["owner"]
                         /\ r.seq \notin g[r.session]["consumer"]

\* Results on their way have numbers of their own.
Distinct ==
    \A c, d \in Calls :
        /\ c # d
        /\ call[c].pc = "reply" /\ call[d].pc = "reply"
        /\ call[c].session = call[d].session
        => call[c].seq # call[d].seq

\* The consumer accepts results that the owner sealed.
Counted == \A s \in Sessions : got[s]["consumer"] \subseteq 1..sent[s]["owner"]

\* The conjuncts of TypeOK.
BoundsOK == repeats \in Nat /\ lost \in Nat /\ ends \in Nat
CallsOK  == call \in [Calls -> CallRecords]
KeysOK   == held \in Sessions \cup {None} /\ cache \in Sessions \cup {None} /\ made \in Sessions
SealsOK  == /\ sent \in [Sessions -> [Sides -> Nat]]
            /\ window \in [Sessions -> [Sides -> Windows]]
            /\ got \in [Sessions -> [Sides -> SUBSET Nat]]

IInv ==
    /\ KeysOK /\ BoundsOK
    /\ SealsOK /\ WindowIsTheSet /\ Counted
    /\ CallsOK /\ Distinct
    /\ \A c \in Calls : Knows(call[c]) /\ Sound(call[c], got, sent)

LEMMA InitInv == Init => IInv
<1> SUFFICES ASSUME Init PROVE IInv
  OBVIOUS
<1>1. 1 \in Sessions
  BY ChannelAssumption DEF Sessions
<1>2. NewWindow \in Windows
  BY DEF NewWindow, Windows
<1>3. KeysOK /\ SealsOK /\ BoundsOK
  BY <1>1, <1>2 DEF Init, KeysOK, SealsOK, BoundsOK
<1>4. CallsOK
  BY DEF Init, CallsOK, NewCall, CallRecords, Places, Reasons
<1>5. WindowIsTheSet
  BY DEF Init, WindowIsTheSet, Represents, NewWindow
<1>6. Distinct
  BY DEF Init, Distinct, NewCall
<1>7. Counted
  BY DEF Init, Counted, Sides
<1>8. \A c \in Calls : call[c] = NewCall
  BY DEF Init
<1>9. Knows(NewCall) /\ Sound(NewCall, got, sent)
  BY DEF NewCall, Knows, Sound
<1> QED
  BY <1>3, <1>4, <1>5, <1>6, <1>7, <1>8, <1>9 DEF IInv

\* One call changes, and what passed the windows with it.
LEMMA SetKeeps ==
    ASSUME IInv, KeysOK', BoundsOK', SealsOK', WindowIsTheSet', Counted',
           NEW c \in Calls, NEW rec \in CallRecords, Set(c, rec),
           Knows(rec), Sound(rec, got', sent'),
           \A d \in Calls \ {c} : Sound(call[d], got', sent'),
           \A d \in Calls \ {c} : rec.pc = "reply" /\ call[d].pc = "reply"
                                  /\ call[d].session = rec.session => call[d].seq # rec.seq
    PROVE  IInv'
<1>1. CallsOK
  BY DEF IInv
<1>2. CallsOK'
  BY <1>1 DEF Set, CallsOK
<1>3. \A d \in Calls : call'[d] = IF d = c THEN rec ELSE call[d]
  BY <1>1 DEF Set, CallsOK
<1>4. Distinct'
  <2> SUFFICES ASSUME NEW a \in Calls, NEW b \in Calls, a # b,
                      call'[a].pc = "reply", call'[b].pc = "reply",
                      call'[a].session = call'[b].session
               PROVE  call'[a].seq # call'[b].seq
    BY DEF Distinct
  <2>1. CASE a = c
    BY <1>3, <2>1
  <2>2. CASE b = c
    BY <1>3, <2>2
  <2>3. CASE a # c /\ b # c
    BY <1>3, <2>3 DEF IInv, Distinct
  <2> QED
    BY <2>1, <2>2, <2>3
<1>5. ASSUME NEW d \in Calls PROVE Knows(call'[d]) /\ Sound(call'[d], got', sent')
  <2>1. CASE d = c
    BY <1>3, <2>1
  <2>2. CASE d # c
    <3>1. Knows(call[d])
      BY DEF IInv
    <3> QED
      BY <1>3, <2>2, <3>1
  <2> QED
    BY <2>1, <2>2
<1> QED
  BY <1>2, <1>4, <1>5 DEF IInv

\* One call changes and nothing was sealed or opened.
LEMMA QuietKeeps ==
    ASSUME IInv, KeysOK', BoundsOK', UNCHANGED seals,
           NEW c \in Calls, NEW rec \in CallRecords, Set(c, rec),
           Knows(rec), Sound(rec, got, sent), rec.pc # "reply"
    PROVE  IInv'
<1>1. got' = got /\ sent' = sent /\ window' = window
  BY DEF seals
<1>2. SealsOK' /\ WindowIsTheSet' /\ Counted'
  BY <1>1 DEF IInv, SealsOK, WindowIsTheSet, Counted
<1>3. \A d \in Calls : Sound(call[d], got', sent')
  BY <1>1 DEF IInv
<1> QED
  BY <1>1, <1>2, <1>3, SetKeeps
\* What sealing changes, besides the call.
LEMMA SealSeals ==
    ASSUME IInv, NEW c \in Calls, NEW s \in Sessions, NEW side \in Sides, NEW pc,
           Seal(c, s, side, pc)
    PROVE  /\ SealsOK' /\ WindowIsTheSet' /\ Counted'
           /\ \A z \in Sessions : sent[z]["owner"] <= sent'[z]["owner"]
<1>1. got' = got /\ window' = window /\ sent' = [sent EXCEPT ![s][side] = @ + 1]
  BY DEF Seal
<1>2. sent \in [Sessions -> [Sides -> Nat]]
  BY DEF IInv, SealsOK
<1>3. sent' \in [Sessions -> [Sides -> Nat]]
  BY <1>1, <1>2
<1>4. SealsOK' /\ WindowIsTheSet'
  BY <1>1, <1>3 DEF IInv, SealsOK, WindowIsTheSet
<1>5. ASSUME NEW z \in Sessions PROVE sent[z]["owner"] <= sent'[z]["owner"]
  BY <1>1, <1>2 DEF Sides
<1>6. Counted'
  <2> SUFFICES ASSUME NEW z \in Sessions, NEW n \in got[z]["consumer"]
               PROVE  n \in 1..sent'[z]["owner"]
    BY <1>1 DEF Counted
  <2>1. n \in 1..sent[z]["owner"]
    BY DEF IInv, Counted
  <2>2. sent[z]["owner"] \in Nat /\ sent'[z]["owner"] \in Nat
    BY <1>2, <1>3 DEF Sides
  <2> QED
    BY <1>5, <2>1, <2>2
<1> QED
  BY <1>4, <1>5, <1>6

\* Sealing disturbs no call that is not its own.
LEMMA SealOthers ==
    ASSUME IInv, NEW c \in Calls, NEW s \in Sessions, NEW side \in Sides, NEW pc,
           Seal(c, s, side, pc), NEW r \in CallRecords, Knows(r), Sound(r, got, sent)
    PROVE  Sound(r, got', sent')
<1>1. got' = got
  BY DEF Seal
<1>2. r.pc = "reply" => r.seq \in 1..sent'[r.session]["owner"]
  <2> SUFFICES ASSUME r.pc = "reply" PROVE r.seq \in 1..sent'[r.session]["owner"]
    OBVIOUS
  <2>1. r.session \in Sessions /\ r.seq \in 1..sent[r.session]["owner"]
    BY DEF Knows, Sound
  <2>2. sent[r.session]["owner"] <= sent'[r.session]["owner"] /\ SealsOK'
    BY <2>1, SealSeals
  <2>3. sent[r.session]["owner"] \in Nat /\ sent'[r.session]["owner"] \in Nat
    BY <2>1, <2>2 DEF IInv, SealsOK, Sides
  <2> QED
    BY <2>1, <2>2, <2>3
<1> QED
  BY <1>1, <1>2 DEF Sound

\* What opening changes, besides the call.
LEMMA PassSeals ==
    ASSUME IInv, NEW s \in Sessions, NEW side \in Sides, NEW seq \in Nat, Pass(s, side, seq),
           side = "consumer" => seq \in 1..sent[s]["owner"]
    PROVE  /\ SealsOK' /\ WindowIsTheSet' /\ Counted'
           /\ \A z \in Sessions, p \in Sides :
                  /\ got[z][p] \subseteq got'[z][p]
                  /\ got'[z][p] \subseteq got[z][p] \cup {seq}
                  /\ <<z, p>> # <<s, side>> => got'[z][p] = got[z][p]
<1> DEFINE w == IF Passes(s, side, seq) THEN Mark(window[s][side], seq) ELSE window[s][side]
           g == IF Passes(s, side, seq) THEN got[s][side] \cup {seq} ELSE got[s][side]
<1>1. window[s][side] \in Windows /\ got[s][side] \in SUBSET Nat
  BY DEF IInv, SealsOK
<1>2. w \in Windows /\ g \in SUBSET Nat
  BY <1>1, MarkType DEF Passes
<1>3. Represents(w, g)
  <2>1. Represents(window[s][side], got[s][side])
    BY DEF IInv, WindowIsTheSet
  <2> QED
    BY <1>1, <2>1, MarkRepresents DEF Passes
<1>4. window' = [window EXCEPT ![s] = [window[s] EXCEPT ![side] = w]]
  BY DEF Pass
<1>5. got' = [got EXCEPT ![s] = [got[s] EXCEPT ![side] = g]]
  BY DEF Pass
<1>6. got[s][side] \subseteq g /\ g \subseteq got[s][side] \cup {seq}
  OBVIOUS
<1>7. sent' = sent
  BY DEF Pass
<1> HIDE DEF w, g
<1>8. window' \in [Sessions -> [Sides -> Windows]]
  BY <1>2, <1>4 DEF IInv, SealsOK
<1>9. got' \in [Sessions -> [Sides -> SUBSET Nat]]
  BY <1>2, <1>5 DEF IInv, SealsOK
<1>10. \A z \in Sessions, p \in Sides :
          /\ window'[z][p] = IF z = s /\ p = side THEN w ELSE window[z][p]
          /\ got'[z][p] = IF z = s /\ p = side THEN g ELSE got[z][p]
  BY <1>4, <1>5 DEF IInv, SealsOK
<1>11. SealsOK'
  BY <1>7, <1>8, <1>9 DEF IInv, SealsOK
<1>12. WindowIsTheSet'
  BY <1>3, <1>10 DEF IInv, WindowIsTheSet
<1>13. Counted'
  <2> SUFFICES ASSUME NEW z \in Sessions, NEW n \in got'[z]["consumer"]
               PROVE  n \in 1..sent[z]["owner"]
    BY <1>7 DEF Counted
  <2>1. "consumer" \in Sides
    BY DEF Sides
  <2>2. CASE z = s /\ side = "consumer"
    BY <1>6, <1>10, <2>1, <2>2 DEF IInv, Counted
  <2>3. CASE ~(z = s /\ side = "consumer")
    BY <1>10, <2>1, <2>3 DEF IInv, Counted
  <2> QED
    BY <2>2, <2>3
<1> QED
  BY <1>6, <1>10, <1>11, <1>12, <1>13

\* Opening disturbs a call only by taking the number of its result.
LEMMA PassOthers ==
    ASSUME IInv, NEW s \in Sessions, NEW side \in Sides, NEW seq \in Nat, Pass(s, side, seq),
           side = "consumer" => seq \in 1..sent[s]["owner"],
           NEW r \in CallRecords, Knows(r), Sound(r, got, sent),
           r.pc = "reply" /\ side = "consumer" /\ r.session = s => r.seq # seq
    PROVE  Sound(r, got', sent')
<1>1. \A z \in Sessions, p \in Sides :
          /\ got[z][p] \subseteq got'[z][p]
          /\ got'[z][p] \subseteq got[z][p] \cup {seq}
          /\ <<z, p>> # <<s, side>> => got'[z][p] = got[z][p]
  BY PassSeals
<1>2. sent' = sent
  BY DEF Pass
<1>3. "owner" \in Sides /\ "consumer" \in Sides
  BY DEF Sides
<1>4. r.pc \in {"done", "reply"} => r.asked \in got'[r.at]["owner"]
  BY <1>1, <1>3 DEF Knows, Sound
<1>5. r.pc = "exchange" /\ r.runs > 0 /\ r.why # "refused" =>
          /\ r.session \in Sessions
          /\ \E m \in got'[r.session]["consumer"] : m >= r.seq + W
  BY <1>1, <1>3 DEF Sound
<1>6. r.pc = "reply" => r.seq \notin got'[r.session]["consumer"]
  BY <1>1, <1>3 DEF Knows, Sound
<1> QED
  BY <1>2, <1>4, <1>5, <1>6 DEF Sound
-----------------------------------------------------------------------------
(* The actions keep the invariant                                           *)

LEMMA CallFacts ==
    ASSUME IInv, NEW c \in Calls
    PROVE  call[c] \in CallRecords /\ Knows(call[c]) /\ Sound(call[c], got, sent)
BY DEF IInv, CallsOK

\* A record with other fields is a record of a call.
LEMMA MovedCall ==
    ASSUME NEW r \in CallRecords, NEW pc \in Places
    PROVE  [r EXCEPT !.pc = pc] \in CallRecords
BY DEF CallRecords

LEMMA AnsweredCall ==
    ASSUME NEW r \in CallRecords, NEW pc \in Places, NEW why \in Reasons
    PROVE  [r EXCEPT !.pc = pc, !.why = why] \in CallRecords
BY DEF CallRecords

LEMMA SealedCall ==
    ASSUME NEW r \in CallRecords, NEW pc \in Places,
           NEW session \in Sessions \cup {None}, NEW seq \in Nat
    PROVE  [r EXCEPT !.pc = pc, !.session = session, !.seq = seq] \in CallRecords
BY DEF CallRecords

LEMMA ExchangedCall ==
    ASSUME NEW r \in CallRecords, NEW pc \in Places, NEW at \in Sessions \cup {None}, NEW runs \in Nat
    PROVE  [r EXCEPT !.pc = pc, !.at = at, !.runs = runs] \in CallRecords
BY DEF CallRecords

LEMMA OpenedCall ==
    ASSUME NEW r \in CallRecords, NEW pc \in Places,
           NEW runs \in Nat, NEW opened \in Nat, NEW asked \in Nat
    PROVE  [r EXCEPT !.pc = pc, !.runs = runs, !.opened = opened, !.asked = asked] \in CallRecords
BY DEF CallRecords

\* A call that moves on without a seal.
LEMMA GoKeeps ==
    ASSUME IInv, KeysOK', BoundsOK', UNCHANGED seals, NEW c \in Calls, NEW rec \in CallRecords,
           Set(c, rec), rec.session = call[c].session, rec.opened = call[c].opened,
           rec.pc \in {"exchange", "invalid", "ok", "failed", "error", "open", "plain"},
           rec.pc \in {"open", "plain"} => rec.at \in Sessions,
           rec.pc = "open" => rec.session \in Sessions,
           rec.pc \in {"invalid", "open"} => rec.runs = 0 /\ rec.opened = 0,
           rec.pc = "invalid" => rec.why \in {"no session", "decrypt failed"},
           rec.pc = "failed" => rec.why \in {"lost", "refused"},
           rec.pc = "exchange" => rec.runs = 0 \/ rec.why = "refused"
    PROVE  IInv'
<1>1. call[c].opened <= 1
  BY CallFacts DEF Sound
<1>2. Knows(rec)
  BY DEF Knows
<1>3. Sound(rec, got, sent)
  <2>1. rec.pc = "exchange" /\ rec.runs > 0 => rec.why = "refused"
    OBVIOUS
  <2>2. rec.pc \in {"idle", "sealed", "open", "invalid"} => rec.runs = 0 /\ rec.opened = 0
    OBVIOUS
  <2>3. rec.pc \notin {"done", "reply"}
    OBVIOUS
  <2> QED
    BY <1>1, <2>1, <2>2, <2>3 DEF Sound
<1>4. rec.pc # "reply"
  OBVIOUS
<1> QED
  BY <1>2, <1>3, <1>4, QuietKeeps

LEMMA SendKeeps == ASSUME IInv, NEW c \in Calls, Send(c) PROVE IInv'
<1>1. KeysOK' /\ BoundsOK'
  BY DEF Send, keys, bounds, IInv, KeysOK, BoundsOK
<1>2. call[c] \in CallRecords /\ Sound(call[c], got, sent) /\ call[c].pc = "idle"
  BY CallFacts DEF Send, At
<1>3. CASE held = None
  <2> DEFINE rec == [call[c] EXCEPT !.pc = "exchange"]
  <2>1. Set(c, rec) /\ UNCHANGED seals
    BY <1>3 DEF Send, Go
  <2>2. rec \in CallRecords
    BY <1>2 DEF CallRecords, Places
  <2>3. /\ rec.pc = "exchange" /\ rec.runs = 0
        /\ rec.session = call[c].session /\ rec.opened = call[c].opened
    BY <1>2 DEF CallRecords, Sound
  <2> HIDE DEF rec
  <2> QED
    BY <1>1, <2>1, <2>2, <2>3, GoKeeps
<1>4. CASE held # None
  <2> DEFINE rec == [call[c] EXCEPT !.pc = "sealed", !.session = held,
                                    !.seq = sent[held]["consumer"] + 1]
  <2>1. held \in Sessions /\ sent[held]["consumer"] + 1 \in Nat
    BY <1>4 DEF IInv, KeysOK, SealsOK, Sides
  <2>2. Seal(c, held, "consumer", "sealed") /\ Set(c, rec)
    BY <1>4 DEF Send, Seal
  <2>3. rec \in CallRecords
    <3>1. "sealed" \in Places /\ held \in Sessions \cup {None}
      BY <2>1 DEF Places
    <3> QED
      BY <1>2, <2>1, <3>1, SealedCall
  <2>4. /\ rec.pc = "sealed" /\ rec.session = held
        /\ rec.runs = 0 /\ rec.opened = 0
    BY <1>2 DEF CallRecords, Sound
  <2> HIDE DEF rec
  <2>5. Knows(rec) /\ Sound(rec, got', sent')
    BY <2>1, <2>4 DEF Knows, Sound
  <2>6. SealsOK' /\ WindowIsTheSet' /\ Counted'
    BY <2>1, <2>2, SealSeals DEF Sides
  <2>7. \A d \in Calls \ {c} : Sound(call[d], got', sent')
    BY <2>1, <2>2, SealOthers, CallFacts DEF Sides
  <2> QED
    BY <1>1, <2>2, <2>3, <2>4, <2>5, <2>6, <2>7, SetKeeps
<1> QED
  BY <1>3, <1>4

LEMMA OwnerExchangesKeeps == ASSUME IInv, NEW c \in Calls, OwnerExchanges(c) PROVE IInv'
<1> DEFINE rec == [call[c] EXCEPT !.pc = "plain", !.at = made + 1, !.runs = @ + 1]
<1>1. made + 1 \in Sessions
  BY ChannelAssumption DEF OwnerExchanges, IInv, KeysOK, Sessions
<1>2. KeysOK' /\ BoundsOK'
  BY <1>1 DEF OwnerExchanges, bounds, IInv, KeysOK, BoundsOK
<1>3. call[c] \in CallRecords
  BY CallFacts
<1>4. rec \in CallRecords
  <2>1. "plain" \in Places /\ made + 1 \in Sessions \cup {None} /\ call[c].runs + 1 \in Nat
    BY <1>1, <1>3 DEF Places, CallRecords
  <2> QED
    BY <1>3, <2>1, ExchangedCall
<1>5. /\ rec.pc = "plain" /\ rec.at \in Sessions
      /\ rec.session = call[c].session /\ rec.opened = call[c].opened
  BY <1>1, <1>3 DEF CallRecords
<1>6. Set(c, rec) /\ UNCHANGED seals
  BY DEF OwnerExchanges
<1> HIDE DEF rec
<1> QED
  BY <1>2, <1>4, <1>5, <1>6, GoKeeps

LEMMA OwnerLooksUpKeeps == ASSUME IInv, NEW c \in Calls, OwnerLooksUp(c) PROVE IInv'
<1> DEFINE rec == IF cache = None THEN [call[c] EXCEPT !.pc = "invalid", !.why = "no session"]
                  ELSE [call[c] EXCEPT !.pc = "open", !.at = cache]
<1>1. /\ call[c] \in CallRecords /\ Knows(call[c]) /\ Sound(call[c], got, sent)
      /\ call[c].pc = "sealed" /\ cache \in Sessions \cup {None}
  BY CallFacts DEF OwnerLooksUp, At, IInv, KeysOK
<1>2. KeysOK' /\ BoundsOK'
  BY DEF OwnerLooksUp, keys, bounds, IInv, KeysOK, BoundsOK
<1>3. rec \in CallRecords
  BY <1>1 DEF CallRecords, Places, Reasons
<1>4. /\ rec.session = call[c].session /\ rec.session \in Sessions
      /\ rec.opened = call[c].opened /\ rec.opened = 0 /\ rec.runs = 0
  BY <1>1 DEF CallRecords, Knows, Sound
<1>5. \/ rec.pc = "invalid" /\ rec.why = "no session"
      \/ rec.pc = "open" /\ rec.at \in Sessions
  BY <1>1 DEF CallRecords
<1>6. Set(c, rec) /\ UNCHANGED seals
  BY DEF OwnerLooksUp
<1> HIDE DEF rec
<1> QED
  BY <1>2, <1>3, <1>4, <1>5, <1>6, GoKeeps
LEMMA OwnerOpensKeeps == ASSUME IInv, NEW c \in Calls, OwnerOpens(c) PROVE IInv'
<1> DEFINE at  == call[c].at
           seq == call[c].seq
           rec == IF Passes(at, "owner", seq) /\ at = call[c].session
                  THEN [call[c] EXCEPT !.pc = "done", !.runs = @ + 1, !.opened = @ + 1, !.asked = seq]
                  ELSE [call[c] EXCEPT !.pc = "invalid", !.why = "decrypt failed"]
<1>1. /\ call[c] \in CallRecords /\ Knows(call[c]) /\ Sound(call[c], got, sent)
      /\ call[c].pc = "open"
  BY CallFacts DEF OwnerOpens, At
<1>2. at \in Sessions /\ seq \in Nat /\ "owner" \in Sides
  BY <1>1 DEF Knows, CallRecords, Sides
<1>3. KeysOK' /\ BoundsOK'
  BY DEF OwnerOpens, keys, bounds, IInv, KeysOK, BoundsOK
<1>4. Pass(at, "owner", seq) /\ Set(c, rec)
  BY DEF OwnerOpens
<1>5. SealsOK' /\ WindowIsTheSet' /\ Counted'
  BY <1>2, <1>4, PassSeals
<1>6. \A d \in Calls \ {c} : Sound(call[d], got', sent')
  BY <1>2, <1>4, PassOthers, CallFacts
<1>7. rec \in CallRecords
  <2>0. "done" \in Places /\ "invalid" \in Places /\ "decrypt failed" \in Reasons
    BY DEF Places, Reasons
  <2>1. call[c].runs + 1 \in Nat /\ call[c].opened + 1 \in Nat
    BY <1>1 DEF CallRecords
  <2>2. CASE Passes(at, "owner", seq) /\ at = call[c].session
    BY <1>1, <1>2, <2>0, <2>1, <2>2, OpenedCall
  <2>3. CASE ~(Passes(at, "owner", seq) /\ at = call[c].session)
    BY <1>1, <2>0, <2>3, AnsweredCall
  <2> QED
    BY <2>2, <2>3
<1>8. rec.at = at /\ rec.pc \in {"done", "invalid"}
  BY <1>1 DEF CallRecords
<1>9. Sound(rec, got', sent')
  <2>1. CASE Passes(at, "owner", seq) /\ at = call[c].session
    <3>1. /\ rec.pc = "done" /\ rec.at = at /\ rec.asked = seq
          /\ rec.opened = call[c].opened + 1
      BY <1>1, <2>1 DEF CallRecords
    <3>2. rec.opened <= 1
      BY <1>1, <3>1 DEF Sound
    <3>3. seq \in got'[at]["owner"]
      BY <1>2, <1>4, <2>1 DEF Pass, IInv, SealsOK
    <3> HIDE DEF rec
    <3> QED
      BY <3>1, <3>2, <3>3 DEF Sound
  <2>2. CASE ~(Passes(at, "owner", seq) /\ at = call[c].session)
    <3>1. /\ rec.pc = "invalid" /\ rec.why = "decrypt failed"
          /\ rec.runs = 0 /\ rec.opened = 0
      BY <1>1, <2>2 DEF CallRecords, Sound
    <3> HIDE DEF rec
    <3>2. 0 <= 1
      OBVIOUS
    <3> QED
      BY <3>1, <3>2 DEF Sound
  <2> QED
    BY <2>1, <2>2
<1> HIDE DEF rec
<1>10. Knows(rec)
  BY <1>2, <1>8 DEF Knows
<1> QED
  BY <1>3, <1>4, <1>5, <1>6, <1>7, <1>8, <1>9, <1>10, SetKeeps

LEMMA OwnerRepliesKeeps == ASSUME IInv, NEW c \in Calls, OwnerReplies(c) PROVE IInv'
<1> DEFINE s   == call[c].at
           rec == [call[c] EXCEPT !.pc = "reply", !.session = s, !.seq = sent[s]["owner"] + 1]
<1>1. /\ call[c] \in CallRecords /\ Knows(call[c]) /\ Sound(call[c], got, sent)
      /\ call[c].pc = "done"
  BY CallFacts DEF OwnerReplies, At
<1>2. s \in Sessions /\ sent[s]["owner"] \in Nat /\ "owner" \in Sides
  BY <1>1 DEF Knows, Sides, IInv, SealsOK
<1>3. KeysOK' /\ BoundsOK'
  BY DEF OwnerReplies, keys, bounds, IInv, KeysOK, BoundsOK
<1>4. Seal(c, s, "owner", "reply") /\ Set(c, rec)
  BY DEF OwnerReplies, Seal
<1>5. SealsOK' /\ WindowIsTheSet' /\ Counted'
  BY <1>2, <1>4, SealSeals
<1>6. \A d \in Calls \ {c} : Sound(call[d], got', sent')
  BY <1>2, <1>4, SealOthers, CallFacts
<1>7. rec \in CallRecords
  <2>1. "reply" \in Places /\ s \in Sessions \cup {None} /\ sent[s]["owner"] + 1 \in Nat
    BY <1>2 DEF Places
  <2> QED
    BY <1>1, <2>1, SealedCall
<1>8. /\ rec.pc = "reply" /\ rec.session = s /\ rec.at = s /\ rec.asked = call[c].asked
      /\ rec.seq = sent[s]["owner"] + 1 /\ rec.opened = call[c].opened
  BY <1>1 DEF CallRecords
<1> HIDE DEF rec
<1>9. Knows(rec)
  BY <1>2, <1>8 DEF Knows
<1>10. Sound(rec, got', sent')
  <2>1. got' = got /\ sent'[s]["owner"] = sent[s]["owner"] + 1
    BY <1>2, <1>4 DEF Seal, IInv, SealsOK
  <2>2. rec.seq \in 1..sent'[s]["owner"]
    BY <1>2, <1>8, <2>1
  <2>3. rec.seq \notin got'[s]["consumer"]
    BY <1>2, <1>8, <2>1 DEF IInv, Counted
  <2>4. rec.asked \in got'[rec.at]["owner"] /\ rec.opened <= 1
    BY <1>1, <1>8, <2>1 DEF Sound
  <2> QED
    BY <1>8, <2>2, <2>3, <2>4 DEF Sound
<1>11. \A d \in Calls \ {c} : call[d].pc = "reply" /\ call[d].session = s => call[d].seq # rec.seq
  <2> SUFFICES ASSUME NEW d \in Calls, call[d].pc = "reply", call[d].session = s
               PROVE  call[d].seq # rec.seq
    OBVIOUS
  <2>1. call[d].seq \in 1..sent[s]["owner"]
    BY CallFacts DEF Sound
  <2> QED
    BY <1>2, <1>8, <2>1
<1> QED
  BY <1>3, <1>4, <1>5, <1>6, <1>7, <1>8, <1>9, <1>10, <1>11, SetKeeps

LEMMA OwnerRefusesKeeps == ASSUME IInv, NEW c \in Calls, OwnerRefuses(c) PROVE IInv'
<1> DEFINE rec == [call[c] EXCEPT !.pc = "error"]
<1>1. KeysOK' /\ BoundsOK'
  BY DEF OwnerRefuses, keys, bounds, IInv, KeysOK, BoundsOK
<1>2. call[c] \in CallRecords
  BY CallFacts
<1>3. rec \in CallRecords
  BY <1>2 DEF CallRecords, Places
<1>4. rec.pc = "error" /\ rec.session = call[c].session /\ rec.opened = call[c].opened
  BY <1>2 DEF CallRecords
<1>5. Set(c, rec) /\ UNCHANGED seals
  BY DEF OwnerRefuses, Go
<1> HIDE DEF rec
<1> QED
  BY <1>1, <1>3, <1>4, <1>5, GoKeeps
LEMMA TakePlainKeeps == ASSUME IInv, NEW c \in Calls, TakePlain(c) PROVE IInv'
<1>1. call[c] \in CallRecords /\ Knows(call[c]) /\ call[c].pc = "plain"
  BY CallFacts DEF TakePlain, At
<1>2. call[c].at \in Sessions
  BY <1>1 DEF Knows
<1>3. KeysOK' /\ BoundsOK' /\ UNCHANGED seals
  BY <1>2 DEF TakePlain, bounds, IInv, KeysOK, BoundsOK
<1>4. "ok" \in Places /\ "failed" \in Places /\ "refused" \in Reasons
  BY DEF Places, Reasons
<1>5. CASE Go(c, "ok")
  <2> DEFINE rec == [call[c] EXCEPT !.pc = "ok"]
  <2>1. rec \in CallRecords
    BY <1>1, <1>4, MovedCall
  <2>2. rec.pc = "ok" /\ rec.session = call[c].session /\ rec.opened = call[c].opened
    BY <1>1 DEF CallRecords
  <2>3. Set(c, rec)
    BY <1>5 DEF Go
  <2> HIDE DEF rec
  <2> QED
    BY <1>3, <2>1, <2>2, <2>3, GoKeeps
<1>6. CASE Set(c, [call[c] EXCEPT !.pc = "failed", !.why = "refused"])
  <2> DEFINE rec == [call[c] EXCEPT !.pc = "failed", !.why = "refused"]
  <2>1. rec \in CallRecords
    BY <1>1, <1>4, AnsweredCall
  <2>2. /\ rec.pc = "failed" /\ rec.why = "refused"
        /\ rec.session = call[c].session /\ rec.opened = call[c].opened
    BY <1>1 DEF CallRecords
  <2>3. Set(c, rec)
    BY <1>6
  <2> HIDE DEF rec
  <2> QED
    BY <1>3, <2>1, <2>2, <2>3, GoKeeps
<1> QED
  BY <1>5, <1>6 DEF TakePlain

\* A call whose session is gone is sent again; what is required of it is that it
\* was not executed, or refused.
LEMMA RenegotiateKeeps ==
    ASSUME IInv, UNCHANGED <<seals, bounds>>, NEW c \in Calls, NEW why \in Reasons,
           Renegotiate(c, why), call[c].runs = 0 \/ why = "refused"
    PROVE  IInv'
<1> DEFINE rec == [call[c] EXCEPT !.pc = "exchange", !.why = why]
<1>1. call[c] \in CallRecords
  BY CallFacts
<1>2. KeysOK' /\ BoundsOK'
  BY DEF Renegotiate, bounds, IInv, KeysOK, BoundsOK
<1>3. rec \in CallRecords
  <2>1. "exchange" \in Places
    BY DEF Places
  <2> QED
    BY <1>1, <2>1, AnsweredCall
<1>4. /\ rec.pc = "exchange" /\ rec.why = why /\ rec.runs = call[c].runs
      /\ rec.session = call[c].session /\ rec.opened = call[c].opened
  BY <1>1 DEF CallRecords
<1>5. Set(c, rec) /\ UNCHANGED seals
  BY DEF Renegotiate
<1> HIDE DEF rec
<1> QED
  BY <1>2, <1>3, <1>4, <1>5, GoKeeps

LEMMA FailKeeps ==
    ASSUME IInv, BoundsOK', UNCHANGED <<keys, seals>>, NEW c \in Calls, NEW why \in {"lost", "refused"},
           Set(c, [call[c] EXCEPT !.pc = "failed", !.why = why])
    PROVE  IInv'
<1> DEFINE rec == [call[c] EXCEPT !.pc = "failed", !.why = why]
<1>1. call[c] \in CallRecords
  BY CallFacts
<1>2. KeysOK'
  BY DEF keys, IInv, KeysOK
<1>3. rec \in CallRecords
  <2>1. "failed" \in Places /\ why \in Reasons
    BY DEF Places, Reasons
  <2> QED
    BY <1>1, <2>1, AnsweredCall
<1>4. /\ rec.pc = "failed" /\ rec.why = why
      /\ rec.session = call[c].session /\ rec.opened = call[c].opened
  BY <1>1 DEF CallRecords
<1>5. Set(c, rec) /\ UNCHANGED seals
  OBVIOUS
<1> HIDE DEF rec
<1> QED
  BY <1>2, <1>3, <1>4, <1>5, GoKeeps

LEMMA TakeInvalidKeeps == ASSUME IInv, NEW c \in Calls, TakeInvalid(c) PROVE IInv'
<1>1. /\ Sound(call[c], got, sent) /\ call[c].pc = "invalid"
  BY CallFacts DEF TakeInvalid, At
<1>2. call[c].why \in {"no session", "decrypt failed"} /\ call[c].runs = 0
  BY <1>1 DEF Sound
<1>3. SessionInvalid(call[c].why) /\ call[c].why \in Reasons
  BY <1>2 DEF SessionInvalid, Reasons
<1>4. Renegotiate(c, call[c].why) /\ UNCHANGED <<seals, bounds>>
  BY <1>3 DEF TakeInvalid
<1> QED
  BY <1>2, <1>3, <1>4, RenegotiateKeeps

LEMMA TakeErrorKeeps == ASSUME IInv, NEW c \in Calls, TakeError(c) PROVE IInv'
<1>1. "refused" \in Reasons /\ UNCHANGED <<seals, bounds>>
  BY DEF Reasons, TakeError
<1>2. CASE Fail(c, "refused")
  BY <1>1, <1>2, FailKeeps DEF Fail, bounds, IInv, BoundsOK
<1>3. CASE Renegotiate(c, "refused")
  BY <1>1, <1>3, RenegotiateKeeps
<1> QED
  BY <1>2, <1>3 DEF TakeError

LEMMA ExchangeFailsKeeps == ASSUME IInv, NEW c \in Calls, ExchangeFails(c) PROVE IInv'
<1>1. BoundsOK' /\ UNCHANGED <<keys, seals>>
  BY DEF ExchangeFails, IInv, BoundsOK
<1> QED
  BY <1>1, FailKeeps DEF ExchangeFails
LEMMA TakeReplyKeeps == ASSUME IInv, NEW c \in Calls, TakeReply(c) PROVE IInv'
<1> DEFINE s   == call[c].session
           seq == call[c].seq
<1>1. /\ call[c] \in CallRecords /\ Knows(call[c]) /\ Sound(call[c], got, sent)
      /\ call[c].pc = "reply"
  BY CallFacts DEF TakeReply, At
<1>2. s \in Sessions /\ seq \in Nat /\ "consumer" \in Sides
  BY <1>1 DEF Knows, CallRecords, Sides
<1>3. seq \in 1..sent[s]["owner"] /\ seq \notin got[s]["consumer"]
  BY <1>1 DEF Sound
<1>4. Pass(s, "consumer", seq)
  BY DEF TakeReply
<1>5. SealsOK' /\ WindowIsTheSet' /\ Counted'
  BY <1>2, <1>3, <1>4, PassSeals
<1>6. ASSUME NEW d \in Calls \ {c} PROVE Sound(call[d], got', sent')
  <2>1. call[d] \in CallRecords /\ Knows(call[d]) /\ Sound(call[d], got, sent)
    BY CallFacts
  <2>2. call[d].pc = "reply" /\ call[d].session = s => call[d].seq # seq
    BY <1>1 DEF IInv, Distinct
  <2> QED
    BY <1>2, <1>3, <1>4, <2>1, <2>2, PassOthers
<1>7. BoundsOK'
  BY DEF TakeReply, bounds, IInv, BoundsOK
<1>8. CASE Passes(s, "consumer", seq)
  <2> DEFINE rec == [call[c] EXCEPT !.pc = "ok"]
  <2>1. Set(c, rec) /\ UNCHANGED keys
    BY <1>8 DEF TakeReply, Go
  <2>2. rec \in CallRecords
    <3>1. "ok" \in Places
      BY DEF Places
    <3> QED
      BY <1>1, <3>1, MovedCall
  <2>3. rec.pc = "ok" /\ rec.opened = call[c].opened
    BY <1>1 DEF CallRecords
  <2>4. KeysOK'
    BY <2>1 DEF keys, IInv, KeysOK
  <2> HIDE DEF rec
  <2>5. Knows(rec) /\ Sound(rec, got', sent')
    BY <1>1, <2>3 DEF Knows, Sound
  <2> QED
    BY <1>5, <1>6, <1>7, <2>1, <2>2, <2>3, <2>4, <2>5, SetKeeps
<1>9. CASE ~Passes(s, "consumer", seq)
  <2> DEFINE rec == [call[c] EXCEPT !.pc = "exchange", !.why = "decrypt response"]
  <2>1. Renegotiate(c, "decrypt response")
    BY <1>9 DEF TakeReply, SessionInvalid
  <2>2. Set(c, rec)
    BY <2>1 DEF Renegotiate
  <2>3. rec \in CallRecords
    <3>1. "exchange" \in Places /\ "decrypt response" \in Reasons
      BY DEF Places, Reasons
    <3> QED
      BY <1>1, <3>1, AnsweredCall
  <2>4. /\ rec.pc = "exchange" /\ rec.opened = call[c].opened
        /\ rec.session = s /\ rec.seq = seq
    BY <1>1 DEF CallRecords
  <2>5. KeysOK'
    BY <2>1 DEF Renegotiate, IInv, KeysOK
  <2>6. \E m \in got'[s]["consumer"] : m >= seq + W
    <3>1. window[s]["consumer"] \in Windows /\ got[s]["consumer"] \in SUBSET Nat
      BY <1>2 DEF IInv, SealsOK
    <3>2. Represents(window[s]["consumer"], got[s]["consumer"])
      BY <1>2 DEF IInv, WindowIsTheSet
    <3>3. seq # 0
      BY <1>2, <1>3 DEF IInv, SealsOK, Sides
    <3>4. /\ window[s]["consumer"].max \in got[s]["consumer"]
          /\ window[s]["consumer"].max >= seq + W
      BY <1>2, <1>3, <1>9, <3>1, <3>2, <3>3, RefusedBecause DEF Passes
    <3>5. got[s]["consumer"] \subseteq got'[s]["consumer"]
      BY <1>2, <1>3, <1>4, PassSeals
    <3> QED
      BY <3>4, <3>5
  <2> HIDE DEF rec
  <2>7. Knows(rec) /\ Sound(rec, got', sent')
    BY <1>1, <1>2, <2>4, <2>6 DEF Knows, Sound
  <2> QED
    BY <1>5, <1>6, <1>7, <2>2, <2>3, <2>4, <2>5, <2>7, SetKeeps
<1> QED
  BY <1>8, <1>9

\* A request that is delivered again does not pass the window that it passed.
LEMMA RepeatKeeps == ASSUME IInv, NEW c \in Calls, Repeat(c) PROVE IInv'
<1> DEFINE r == call[c]
<1>1. /\ r \in CallRecords /\ Knows(r) /\ Sound(r, got, sent) /\ r.pc = "reply"
  BY CallFacts DEF Repeat, At
<1>2. cache \in Sessions /\ r.asked \in Nat /\ "owner" \in Sides
  BY <1>1 DEF Repeat, IInv, KeysOK, CallRecords, Sides
<1>3. Pass(cache, "owner", r.asked)
  BY DEF Repeat
<1>4. ~(Passes(cache, "owner", r.asked) /\ cache = r.at)
  <2> SUFFICES ASSUME cache = r.at PROVE ~Passes(cache, "owner", r.asked)
    OBVIOUS
  <2>1. r.asked \in got[cache]["owner"]
    BY <1>1 DEF Sound
  <2>2. window[cache]["owner"] \in Windows /\ got[cache]["owner"] \in SUBSET Nat
    BY <1>2 DEF IInv, SealsOK
  <2>3. Represents(window[cache]["owner"], got[cache]["owner"])
    BY <1>2 DEF IInv, WindowIsTheSet
  <2> QED
    BY <2>1, <2>2, <2>3, NeverTwice DEF Passes
<1>5. Set(c, r)
  BY <1>4 DEF Repeat, Set, IInv, CallsOK
<1>6. SealsOK' /\ WindowIsTheSet' /\ Counted'
  BY <1>2, <1>3, PassSeals
<1>7. \A d \in Calls : Sound(call[d], got', sent')
  BY <1>2, <1>3, PassOthers, CallFacts
<1>8. KeysOK' /\ BoundsOK'
  BY DEF Repeat, keys, IInv, KeysOK, BoundsOK
<1>9. \A d \in Calls \ {c} : r.pc = "reply" /\ call[d].pc = "reply"
                             /\ call[d].session = r.session => call[d].seq # r.seq
  BY DEF IInv, Distinct
<1> HIDE DEF r
<1> QED
  BY <1>1, <1>5, <1>6, <1>7, <1>8, <1>9, SetKeeps DEF r

LEMMA CacheExpiresKeeps == ASSUME IInv, CacheExpires PROVE IInv'
<1>1. KeysOK' /\ BoundsOK'
  BY DEF CacheExpires, IInv, KeysOK, BoundsOK
<1>2. UNCHANGED <<sent, window, got, call>>
  BY DEF CacheExpires, seals
<1> QED
  BY <1>1, <1>2 DEF IInv, SealsOK, WindowIsTheSet, Counted, CallsOK, Distinct

LEMMA ConsumerRestartsKeeps == ASSUME IInv, ConsumerRestarts PROVE IInv'
<1> DEFINE Over(c) == call[c].pc \in {"idle", "ok", "failed"}
           Cut(c)  == [call[c] EXCEPT !.pc = "failed", !.why = "lost"]
<1>1. KeysOK' /\ BoundsOK'
  <2>1. /\ held' = None /\ ends' = ends + 1
        /\ cache' = cache /\ made' = made /\ repeats' = repeats /\ lost' = lost
    BY DEF ConsumerRestarts
  <2> QED
    BY <2>1 DEF IInv, KeysOK, BoundsOK
<1>2. UNCHANGED <<sent, window, got>>
  BY DEF ConsumerRestarts, seals
<1>3. SealsOK' /\ WindowIsTheSet' /\ Counted'
  BY <1>2 DEF IInv, SealsOK, WindowIsTheSet, Counted
<1>4. call' = [c \in Calls |-> IF Over(c) THEN call[c] ELSE Cut(c)]
  BY DEF ConsumerRestarts
<1>5. ASSUME NEW c \in Calls
      PROVE  /\ Cut(c) \in CallRecords /\ Cut(c).pc = "failed" /\ Cut(c).why = "lost"
             /\ Cut(c).opened <= 1
  <2>1. call[c] \in CallRecords /\ call[c].opened <= 1
    BY CallFacts DEF Sound
  <2>2. "failed" \in Places /\ "lost" \in Reasons
    BY DEF Places, Reasons
  <2>3. Cut(c) \in CallRecords
    BY <2>1, <2>2, AnsweredCall
  <2> QED
    BY <2>1, <2>3 DEF CallRecords
<1> HIDE DEF Cut
<1>6. ASSUME NEW c \in Calls
      PROVE  /\ call'[c] \in CallRecords /\ call'[c].pc # "reply"
             /\ Knows(call'[c]) /\ Sound(call'[c], got', sent')
  <2>1. CASE Over(c)
    BY <1>2, <1>4, <2>1, CallFacts
  <2>2. CASE ~Over(c)
    <3>1. call'[c] = Cut(c)
      BY <1>4, <2>2
    <3> QED
      BY <1>5, <3>1 DEF Knows, Sound
  <2> QED
    BY <2>1, <2>2
<1>7. CallsOK' /\ Distinct'
  BY <1>4, <1>6 DEF CallsOK, Distinct
<1> QED
  BY <1>1, <1>3, <1>6, <1>7 DEF IInv

-----------------------------------------------------------------------------
(* The theorems                                                             *)

LEMMA Stutter == ASSUME IInv, UNCHANGED vars PROVE IInv'
BY DEF vars, keys, seals, bounds, IInv, KeysOK, BoundsOK, SealsOK, WindowIsTheSet, Counted,
       CallsOK, Distinct

LEMMA StepKeeps == IInv /\ [Next]_vars => IInv'
<1> SUFFICES ASSUME IInv, [Next]_vars PROVE IInv'
  OBVIOUS
<1>1. ASSUME NEW c \in Calls, Owner(c) PROVE IInv'
  BY <1>1, OwnerExchangesKeeps, OwnerLooksUpKeeps, OwnerOpensKeeps, OwnerRepliesKeeps,
     OwnerRefusesKeeps DEF Owner
<1>2. ASSUME NEW c \in Calls, Consumer(c) PROVE IInv'
  BY <1>2, SendKeeps, TakePlainKeeps, TakeInvalidKeeps, TakeReplyKeeps, TakeErrorKeeps
  DEF Consumer
<1> QED
  BY <1>1, <1>2, ExchangeFailsKeeps, RepeatKeeps, CacheExpiresKeeps, ConsumerRestartsKeeps,
     Stutter DEF Next

LEMMA Invariant == Spec => []IInv
<1>1. Init => IInv
  BY InitInv
<1> QED
  BY <1>1, StepKeeps, PTL DEF Spec

\* The two panels keep values of the types they declare.
THEOREM TypeCorrect == Spec => []TypeOK
<1>1. IInv => TypeOK
  BY DEF IInv, TypeOK, KeysOK, BoundsOK, SealsOK, CallsOK, Windows, CallRecords
<1> QED
  BY <1>1, Invariant, PTL

\* Every window stands for the numbers that passed it (replayWindow.Check).
THEOREM WindowMeansTheSet == Spec => []WindowIsTheSet
<1>1. IInv => WindowIsTheSet
  BY DEF IInv
<1> QED
  BY <1>1, Invariant, PTL

\* A sealed request is executed at most once, however often it is delivered and
\* whatever happens to the sessions (Session.Decrypt, handleManage).
THEOREM ExecutedOnce == Spec => []OncePerEnvelope
<1>1. IInv => OncePerEnvelope
  BY DEF IInv, Sound, OncePerEnvelope
<1> QED
  BY <1>1, Invariant, PTL

\* A command that was executed is sent again only after a refusal, or when its
\* result was overtaken by a window of others (isSessionInvalidErr).
THEOREM ResentOnlyIfOvertaken == Spec => []SentAgainOnlyIfOvertaken
<1>1. IInv => SentAgainOnlyIfOvertaken
  BY DEF IInv, Sound, SentAgainOnlyIfOvertaken, At
<1> QED
  BY <1>1, Invariant, PTL

\* Lost and crossed sessions fail no command (doFederationRequest).
THEOREM ChannelHeals == Spec => []SessionsHeal
<1>1. IInv => SessionsHeal
  BY DEF IInv, Sound, SessionsHeal, At
<1> QED
  BY <1>1, Invariant, PTL
=============================================================================
