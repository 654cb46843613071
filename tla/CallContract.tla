---------------------------- MODULE CallContract ----------------------------
(* What a call to an agent promises to the code that makes it, however it   *)
(* travels: it never reports an outcome that no execution of that very call *)
(* had, it is executed a bounded number of times, and it comes back if every *)
(* stage of it has a time limit.                                            *)
EXTENDS Naturals, Sequences

CONSTANTS Calls, Timed, MaxRuns
VARIABLES phase, runs

vars == <<phase, runs>>

Init == phase = [c \in Calls |-> "idle"] /\ runs = [c \in Calls |-> [n |-> 0, said |-> {}]]

\* One more execution; its answer says how it went, or is never given.
Ran(c, says) ==
    /\ runs[c].n < MaxRuns
    /\ runs' = [runs EXCEPT ![c] = [n |-> @.n + 1, said |-> @.said \cup ({says} \ {"lost"})]]

\* A call of an agent that is known to be away fails at once.
Start(c) ==
    /\ phase[c] = "idle"
    /\ \E p \in {"open", "failed"} : phase' = [phase EXCEPT ![c] = p]
    /\ UNCHANGED runs

\* The agent executes the call, perhaps late and perhaps again.
Execute(c) ==
    /\ phase[c] # "idle"
    /\ \E says \in {"ok", "refused", "lost"} : Ran(c, says)
    /\ UNCHANGED phase

\* The call returns what an execution said, that one has ended, or that it does
\* not know.
Return(c) ==
    /\ phase[c] = "open"
    /\ \E p \in runs[c].said \cup {"ended", "failed"} :
         /\ p = "ended" => runs[c].said # {}
         /\ phase' = [phase EXCEPT ![c] = p]
    /\ UNCHANGED runs

\* An HTTP request that is executed and answered in one exchange.
Exchange(c) ==
    /\ phase[c] = "open"
    /\ \E says \in {"ok", "refused", "lost"}, p \in {"ok", "refused", "failed"} :
         /\ Ran(c, says)
         /\ p \in {says, "failed"}
         /\ phase' = [phase EXCEPT ![c] = p]

\* The panel's process ends, and with it the calls under way.
Crash == /\ phase' = [c \in Calls |-> IF phase[c] = "open" THEN "gone" ELSE phase[c]]
         /\ UNCHANGED runs

Next == (\E c \in Calls : Start(c) \/ Execute(c) \/ Return(c) \/ Exchange(c)) \/ Crash

Spec == Init /\ [][Next]_vars /\ \A c \in Timed : WF_vars(Return(c))
=============================================================================
