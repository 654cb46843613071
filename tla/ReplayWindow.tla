---------------------------- MODULE ReplayWindow ----------------------------
(* The receive window of a session (internal/securechan/securechan.go): the *)
(* greatest number received and a bit for each of the W numbers below it.   *)
(* Bit d stands for the number max - d.                                     *)
EXTENDS Integers

CONSTANT W   \* windowSize

ASSUME WindowAssumption == W \in Nat \ {0}

NewWindow == [max |-> 0, bits |-> {}]

\* Shifting by the whole width or more leaves no bit.
ShiftByOne(bits, n) == {d \in 0..(W - 1) : d - 1 \in bits}                    \* mutant
ShiftGrows(bits, n) == {b + n : b \in bits}                                   \* mutant
Shift(bits, n)      == {d \in 0..(W - 1) : d - n \in bits}

\* Check: numbers from the greatest on are new; the others must be inside the
\* window and not be marked.
AcceptsMarked(w, seq) == seq # 0 /\ (seq <= w.max => w.max - seq < W)         \* mutant
AcceptsNarrow(w, seq) ==                                                      \* mutant
    seq # 0 /\ (seq <= w.max => w.max - seq < W - 1 /\ w.max - seq \notin w.bits)
Accepts(w, seq) ==
    /\ seq # 0
    /\ seq <= w.max => w.max - seq < W /\ w.max - seq \notin w.bits

Mark(w, seq) ==
    IF seq > w.max THEN [max |-> seq, bits |-> Shift(w.bits, seq - w.max) \cup {0}]
    ELSE [w EXCEPT !.bits = @ \cup {w.max - seq}]
=============================================================================
