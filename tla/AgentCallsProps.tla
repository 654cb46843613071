--------------------------- MODULE AgentCallsProps ---------------------------
(* What calls to an agent promise. *)
EXTENDS AgentCalls

CallStates ==
    [pc : {"unused", "idle", "wait", "http", "rekey"} \cup Ended, kind : Kinds,
     id : Ids \cup {0}, left : 0..Addresses, cancelled : BOOLEAN, heard : BOOLEAN,
     out : Seq(Nat \X (1..Lines))]
\* Only data frames carry a line, of one execution.
Frames ==
    [id : Ids, type : {"reply", "result"}, line : {<<>>}, says : {"ok", "refused"},
     error : BOOLEAN]
        \cup [id : Ids, type : {"data"}, line : Nat \X (1..Lines), says : {"ok"},
              error : {FALSE}]

\* The types; a channel never holds more than its capacity.
TypeOK ==
    /\ call \in [Calls -> CallStates]
    /\ pending \in [Kinds -> [Ids -> Calls \cup {None}]]
    /\ chan \in [Calls -> [Kinds -> Seq(Frames)]]
    /\ \A c \in Calls, k \in Kinds : Len(chan[c][k]) <= Capacity(k)
    /\ closed \subseteq Probes
    /\ nextId \in 0..MaxRequests
    /\ reader = NoReader \/ reader \in [pc : {"send"}, call : Calls, kind : Kinds, frame : Frames]
    /\ link \in BOOLEAN /\ drops \in 0..MaxDrops
    /\ down \subseteq [id : Ids, of : Calls, kind : Kinds]
    /\ up \in Seq(Frames)
    /\ jobs \subseteq [id : Ids, says : {"ok", "refused"},
                       run : Nat \ {0}, line : 0..Lines]
    /\ runs \in [Calls -> [n : Nat, said : SUBSET {"ok", "refused"}]]

\* A call keeps the contract: it returns only the outcome of one of its own
\* executions, of which there are at most two per address and one per WebSocket
\* request, and a command or a probe does return (tryWSRPC, forwardToRemoteServer,
\* nextRPCRequestID).  A stream need not: its HTTP client has no time limit.
Phase == [c \in Calls |->
    IF call[c].pc \in Ended THEN call[c].pc
    ELSE IF New(c) THEN "idle" ELSE "open"]
Contract == INSTANCE CallContract WITH phase <- Phase, MaxRuns <- 2 + 2 * Addresses
KeepsContract == Contract!Spec

\* What the agent answered over the WebSocket is final: neither a refusal, nor the
\* error of a handler that panicked, nor a stream that broke after its first data is
\* executed again over HTTP (CallAgent and its comment, tryWSRPC, tryWSRPCStream).
\* The head of ws_rpc.go says the opposite of panics (CallAgent returns their error).
AnsweredIsNotRunAgain ==
    [][\A c \in Calls \ Probes : call[c].heard => runs'[c] = runs[c]]_vars

\* The browser sees the lines of one execution, in order and none twice, though
\* frames may be lost (CallAgentStream, routeRPCStreamData).
ProgressIsOneRun ==
    \A c \in Streams : LET out == call[c].out IN
        \A m, n \in 1..Len(out) :
            m < n => out[m][1] = out[n][1] /\ out[m][2] < out[n][2]

\* No frame holds up the frames behind it: the read loop always gets rid of the
\* frame in its hand, also when its call has returned (routeRPCReply,
\* routeRPCStreamData).
FramesAreRouted == reader.pc = "send" ~> reader.pc = "idle"
=============================================================================
