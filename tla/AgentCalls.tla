----------------------------- MODULE AgentCalls -----------------------------
(***************************************************************************)
(* Calls of the panel to one agent (internal/handler/ws_rpc.go, the        *)
(* forwarding functions of remote_manage.go, the latency probes of         *)
(* remote_ws.go).  A call goes over the agent's WebSocket when there is    *)
(* one, and over HTTP to the agent's addresses when the WebSocket did not  *)
(* answer.  The replies of all calls arrive on one connection, and its     *)
(* read loop hands each to the goroutine that waits for it.                *)
(***************************************************************************)
EXTENDS Naturals, Sequences, FiniteSets

CONSTANTS Commands,   \* calls of forwardToRemoteServer
          Streams,    \* calls whose output is copied to a browser
          Probes,     \* latency probes, which fall back to a command
          Addresses,  \* the most addresses of an agent (IPv4, IPv6)
          Lines,      \* data frames an agent writes for one stream
          Buffer,     \* capacity of a stream's channel
          Leaving,    \* calls whose browser may go away
          Mixes,      \* bound: the sets of calls that are made together
          MaxRequests,\* bound: requests over the WebSocket
          MaxDrops,   \* bound: lost connections
          None

Calls == Commands \cup Streams \cup Probes
Kinds == {"rpc", "stream", "probe"}
Ids   == 1..MaxRequests

ASSUME CallsAssumption ==
    /\ Commands \cap Streams = {} /\ (Commands \cup Streams) \cap Probes = {}
    /\ Addresses \in Nat /\ Lines \in Nat /\ Buffer \in Nat \ {0}
    /\ Leaving \subseteq Commands \cup Streams
    /\ Mixes \subseteq SUBSET Calls /\ MaxRequests \in Nat /\ MaxDrops \in Nat
    /\ None \notin Commands \cup Streams \cup Probes

VARIABLES
    call,      \* per call: its goroutine
    pending,   \* per kind: pendingRPC, pendingStream, pendingProbes
    chan,      \* per call and kind: the channel the goroutine reads
    closed,    \* calls whose probe channel is closed
    nextId,    \* rpcReqCounter
    reader,    \* the read loop of the connection (handleConnection)
    link,      \* a connection is registered
    down, up,  \* frames on their way to the agent, from the agent
    jobs,      \* streaming handlers at the agent
    runs,      \* per call: how often the agent executed it, and what came of it
    drops

master == <<call, pending, chan, closed, nextId, reader>>
wire   == <<link, down, up, drops>>
agent  == <<jobs, runs>>
vars   == <<master, wire, agent>>

KindOf(c) == IF c \in Streams THEN "stream" ELSE IF c \in Probes THEN "probe" ELSE "rpc"
NoReader == [pc |-> "idle", call |-> None, kind |-> "rpc", frame |-> <<>>]

Init ==
    /\ \E mix \in Mixes : call = [c \in Calls |->
          [pc |-> IF c \in mix THEN "idle" ELSE "unused", kind |-> KindOf(c), id |-> 0,
           left |-> 0, cancelled |-> FALSE, heard |-> FALSE, out |-> <<>>]]
    /\ pending = [k \in Kinds |-> [i \in Ids |-> None]]
    /\ chan = [c \in Calls |-> [k \in Kinds |-> <<>>]]
    /\ closed = {}
    /\ nextId = 0
    /\ reader = NoReader
    /\ link = TRUE /\ down = {} /\ up = <<>> /\ drops = 0
    /\ jobs = {} /\ runs = [c \in Calls |-> [n |-> 0, said |-> {}]]

\* A call is new until its first request; a probe then goes on as a command.
New(c)  == call[c].pc = "unused" \/ (call[c].pc = "idle" /\ call[c].kind = KindOf(c))
Ended   == {"ok", "refused", "ended", "failed", "gone"}
Open(c) == ~New(c) /\ call[c].pc \notin Ended

Set(c, rec) == call' = [call EXCEPT ![c] = rec]
Leave(c, rec) == Set(c, [rec EXCEPT !.id = 0])

(***************************************************************************)
(* Sending: CallAgent, CallAgentStream, SendDomainLatencyProbe             *)
(***************************************************************************)

\* nextRPCRequestID: the clock may stand still, the counter does not.  The id of
\* a probe is the clock alone; two probes of one server are taken not to begin in
\* the same nanosecond.
ClockId == 1            \* mutant: only the clock
NextId  == nextId + 1

\* The addresses left to try; none when the row says that the agent is not
\* connected.
Fallback(c) == \E n \in 0..Addresses :
    Leave(c, [call[c] EXCEPT !.pc = IF n = 0 THEN "failed" ELSE "http", !.left = n])

\* The connection is looked up, the channel registered and the request sent.
\* Without a connection, or when sending fails, the call falls back.
Begin(c) ==
    /\ call[c].pc = "idle"
    /\ \/ /\ link /\ nextId < MaxRequests
          /\ nextId' = nextId + 1
          /\ pending' = [pending EXCEPT ![call[c].kind][NextId] = c]
          /\ down' = down \cup {[id |-> NextId, of |-> c, kind |-> call[c].kind]}
          /\ Set(c, [call[c] EXCEPT !.pc = "wait", !.id = NextId])
       \/ /\ IF call[c].kind = "probe"
             THEN Set(c, [call[c] EXCEPT !.kind = "rpc"])
             ELSE Fallback(c)
          /\ UNCHANGED <<nextId, pending, down>>
    /\ UNCHANGED <<chan, closed, reader, link, up, drops, agent>>

(***************************************************************************)
(* Waiting: one select per goroutine.  Every way out forgets the pending   *)
(* entry; a probe also closes its channel, a command never does.           *)
(***************************************************************************)
Waits(c, kind) == call[c].pc = "wait" /\ call[c].kind = kind

\* The channel is garbage, unless the read loop is about to send on it.
Forget(c) ==
    /\ chan' = IF reader.call = c /\ reader.kind = call[c].kind THEN chan
               ELSE [chan EXCEPT ![c][call[c].kind] = <<>>]
    /\ pending' = [pending EXCEPT ![call[c].kind][call[c].id] = None]
    /\ closed' = IF call[c].kind = "probe" THEN closed \cup {c} ELSE closed

Arrived(c) == chan[c][call[c].kind]
Take(c) == chan' = [chan EXCEPT ![c][call[c].kind] = Tail(@)]

\* mutant: a refusal falls back
TakeReplyOrFallBack(c) ==
    /\ Waits(c, "rpc") /\ Arrived(c) # <<>>
    /\ IF Head(Arrived(c)).says = "refused"
       THEN Leave(c, [call[c] EXCEPT !.pc = "http", !.left = Addresses, !.heard = TRUE])
       ELSE Leave(c, [call[c] EXCEPT !.pc = "ok", !.heard = TRUE])
    /\ Forget(c)
    /\ UNCHANGED <<nextId, reader, wire, agent>>

\* CallAgent: whatever the agent answered is the outcome of the call, an error
\* as well as a status.
TakeReply(c) ==
    /\ Waits(c, "rpc") /\ Arrived(c) # <<>>
    /\ Leave(c, [call[c] EXCEPT !.pc = Head(Arrived(c)).says, !.heard = TRUE])
    /\ Forget(c)
    /\ UNCHANGED <<nextId, reader, wire, agent>>

\* SendDomainLatencyProbe: an unsuccessful result is asked for again over HTTP.
TakeResult(c) ==
    /\ Waits(c, "probe") /\ Arrived(c) # <<>>
    /\ Leave(c, IF Head(Arrived(c)).says = "ok" THEN [call[c] EXCEPT !.pc = "ok"]
              ELSE [call[c] EXCEPT !.pc = "idle", !.kind = "rpc"])
    /\ Forget(c)
    /\ UNCHANGED <<nextId, reader, wire, agent>>

\* CallAgentStream: a data frame is written to the browser, which may have left.
TakeData(c) ==
    /\ Waits(c, "stream") /\ Arrived(c) # <<>> /\ Head(Arrived(c)).type = "data"
    /\ \/ /\ Set(c, [call[c] EXCEPT !.out = Append(@, Head(Arrived(c)).line), !.heard = TRUE])
          /\ Take(c)
          /\ UNCHANGED <<pending, closed>>
       \/ /\ call[c].cancelled
          /\ Leave(c, [call[c] EXCEPT !.pc = "failed", !.heard = TRUE])
          /\ Forget(c)
    /\ UNCHANGED <<nextId, reader, wire, agent>>

\* The end frame says how the handler ended; once data was written the browser
\* has seen what there is to see, and a bad status is not reported.
TakeEnd(c) ==
    /\ Waits(c, "stream") /\ Arrived(c) # <<>> /\ Head(Arrived(c)).type = "reply"
    /\ Leave(c, [call[c] EXCEPT !.heard = TRUE,
                 !.pc = IF call[c].out = <<>> THEN Head(Arrived(c)).says ELSE "ended"])
    /\ Forget(c)
    /\ UNCHANGED <<nextId, reader, wire, agent>>

\* Nothing was written yet: bytesWritten is zero, or the call is no stream.
AlwaysFallBack(c) == TRUE                 \* mutant
MayFallBack(c)    == call[c].out = <<>>

\* The timer or the end of the browser's request, whichever the select takes.
GiveUp(c) ==
    /\ call[c].pc = "wait"
    /\ IF call[c].kind = "probe"
       THEN Leave(c, [call[c] EXCEPT !.pc = "idle", !.kind = "rpc"])
       ELSE IF MayFallBack(c) THEN Fallback(c)
       ELSE Leave(c, [call[c] EXCEPT !.pc = "failed"])
    /\ Forget(c)
    /\ UNCHANGED <<nextId, reader, wire, agent>>

\* The browser goes away: the context of the request is done.
Cancel(c) ==
    /\ c \in Leaving /\ call[c].pc \notin Ended \cup {"unused"} /\ ~call[c].cancelled
    /\ Set(c, [call[c] EXCEPT !.cancelled = TRUE])
    /\ UNCHANGED <<pending, chan, closed, nextId, reader, wire, agent>>

(***************************************************************************)
(* The read loop: routeRPCReply, routeRPCStreamData,                       *)
(* handleDomainLatencyResult                                               *)
(***************************************************************************)

\* Which table a frame is looked up in.  The end frame of a stream is a reply.
Table(f) == CASE f.type = "data"   -> "stream"
              [] f.type = "result" -> "probe"
              [] OTHER -> IF pending["stream"][f.id] # None THEN "stream" ELSE "rpc"

\* The channel is looked up; a frame nobody waits for is discarded.
Read ==
    /\ reader.pc = "idle" /\ up # <<>>
    /\ LET f == Head(up) IN
         reader' = IF pending[Table(f)][f.id] = None THEN NoReader
                   ELSE [pc |-> "send", call |-> pending[Table(f)][f.id],
                         kind |-> Table(f), frame |-> f]
    /\ up' = Tail(up)
    /\ UNCHANGED <<call, pending, chan, closed, nextId, link, down, drops, agent>>

Capacity(kind) == IF kind = "stream" THEN Buffer ELSE 1
NeverFull == FALSE                       \* mutant
Full == Len(chan[reader.call][reader.kind]) >= Capacity(reader.kind)
Deliver == chan' = [chan EXCEPT ![reader.call][reader.kind] = Append(@, reader.frame)]

\* mutant: the send waits for room
PushWaits ==
    /\ reader.pc = "send" /\ reader.kind # "probe" /\ ~Full
    /\ Deliver
    /\ reader' = NoReader
    /\ UNCHANGED <<call, pending, closed, nextId, wire, agent>>

\* The sends of replies and data do not block: a full channel loses the frame.
Push ==
    /\ reader.pc = "send" /\ reader.kind # "probe"
    /\ IF Full THEN UNCHANGED chan ELSE Deliver
    /\ reader' = NoReader
    /\ UNCHANGED <<call, pending, closed, nextId, wire, agent>>

\* The send of a probe's result blocks while the channel is full.
PushResult ==
    /\ reader.pc = "send" /\ reader.kind = "probe" /\ reader.call \notin closed
    /\ ~Full
    /\ Deliver
    /\ reader' = NoReader
    /\ UNCHANGED <<call, pending, closed, nextId, wire, agent>>

\* A send on a closed channel panics in a goroutine that nothing recovers: the
\* process ends, and with it the requests it served.
Panic ==
    /\ reader.pc = "send" /\ reader.kind = "probe" /\ reader.call \in closed
    /\ call' = [c \in Calls |-> IF Open(c) THEN [call[c] EXCEPT !.pc = "gone"] ELSE call[c]]
    /\ pending' = [k \in Kinds |-> [i \in Ids |-> None]]
    /\ chan' = [c \in Calls |-> [k \in Kinds |-> <<>>]]
    /\ reader' = NoReader
    /\ link' = FALSE /\ down' = {} /\ up' = <<>>
    /\ UNCHANGED <<closed, nextId, drops, agent>>

(***************************************************************************)
(* The agent and the network                                               *)
(***************************************************************************)
Frame(j, type, line, says, error) ==
    [id |-> j.id, type |-> type, line |-> line, says |-> says, error |-> error]
Emit(f) == IF link THEN up' = Append(up, f) ELSE UNCHANGED up

\* One more execution, and what its answer says if it has one.
Ran(c, said) == runs' = [runs EXCEPT ![c] = [n |-> @.n + 1, said |-> @.said \cup said]]

\* The agent executes a command or a probe and answers.  A slow handler is one
\* that is executed late.  The reply to a command is an error, not a status, when
\* the handler panicked.
AgentAnswers ==
    \E r \in down, says \in {"ok", "refused"}, error \in BOOLEAN :
        /\ r.kind # "stream"
        /\ error => r.kind = "rpc" /\ says = "refused"
        /\ down' = down \ {r}
        /\ Ran(r.of, {says})
        /\ Emit(Frame(r, IF r.kind = "probe" THEN "result" ELSE "reply", <<>>, says, error))
        /\ UNCHANGED <<master, link, drops, jobs>>

\* The agent starts a handler that streams.
AgentStarts ==
    \E r \in down, says \in {"ok", "refused"} :
        /\ r.kind = "stream"
        /\ down' = down \ {r}
        /\ Ran(r.of, {says})
        /\ jobs' = jobs \cup {[id |-> r.id, says |-> says, run |-> runs[r.of].n + 1, line |-> 0]}
        /\ UNCHANGED <<master, link, up, drops>>

\* The handler flushes the next line.
AgentWrites ==
    \E j \in jobs :
        /\ j.line < Lines
        /\ Emit(Frame(j, "data", <<j.run, j.line + 1>>, "ok", FALSE))
        /\ jobs' = (jobs \ {j}) \cup {[j EXCEPT !.line = @ + 1]}
        /\ UNCHANGED <<master, link, down, drops, runs>>

\* The handler is done: the end of the stream.
AgentEnds ==
    \E j \in jobs :
        /\ Emit(Frame(j, "reply", <<>>, j.says, FALSE))
        /\ jobs' = jobs \ {j}
        /\ UNCHANGED <<master, link, down, drops, runs>>

\* The connection is lost with every frame on it; the agent connects again.
Drop ==
    /\ link /\ drops < MaxDrops
    /\ link' = FALSE /\ down' = {} /\ up' = <<>> /\ drops' = drops + 1
    /\ UNCHANGED <<master, agent>>

Reconnect == ~link /\ link' = TRUE /\ UNCHANGED <<master, down, up, drops, agent>>

(***************************************************************************)
(* HTTP: one address after the other                                       *)
(***************************************************************************)

\* What one HTTP request may come to.  A request of a cancelled context is not
\* sent.  The agent may have executed a request whose response was lost.
Exchange(c, answer, ran) ==
    /\ answer \in {"ok", "refused"} => ran
    /\ call[c].cancelled => answer = "lost" /\ ~ran
    /\ IF ran
       THEN Ran(c, {answer} \cap {"ok", "refused"})
       ELSE UNCHANGED runs

\* Any failure moves on to the next address; the last one is the outcome.
Outcome(c, answer) ==
    Set(c, [call[c] EXCEPT
        !.pc = IF answer = "ok" THEN "ok"
               ELSE IF call[c].left > 1 THEN "http"
               ELSE IF answer = "refused" THEN "refused" ELSE "failed",
        !.left = IF answer = "ok" THEN 0 ELSE @ - 1])

\* A command, sealed when there is a session with the agent, otherwise with a
\* key exchange.  "stale": the agent does not know the session, or one of the
\* two could not decrypt, perhaps only the response of an executed request.
Attempt(c) ==
    /\ call[c].pc = "http" /\ call[c].kind = "rpc"
    /\ \E answer \in {"ok", "refused", "lost", "stale"}, ran \in BOOLEAN :
         /\ Exchange(c, answer, ran)
         /\ IF answer = "stale" THEN Set(c, [call[c] EXCEPT !.pc = "rekey"])
            ELSE Outcome(c, answer)
    /\ UNCHANGED <<pending, chan, closed, nextId, reader, wire, jobs>>

\* The same address again, with a key exchange.
Rekey(c) ==
    /\ call[c].pc = "rekey"
    /\ \E answer \in {"ok", "refused", "lost"}, ran \in BOOLEAN :
         /\ Exchange(c, answer, ran)
         /\ Outcome(c, answer)
    /\ UNCHANGED <<pending, chan, closed, nextId, reader, wire, jobs>>

\* A stream: the lines of the response are copied until it ends or breaks, which
\* may be never: this client has no time limit.
AttemptStream(c) ==
    /\ call[c].pc = "http" /\ call[c].kind = "stream"
    /\ \E answer \in {"ok", "refused", "lost"}, ran \in BOOLEAN, n \in 0..Lines :
         /\ Exchange(c, answer, ran)
         /\ answer # "ok" => n = 0
         /\ Set(c, [call[c] EXCEPT
                !.pc = IF answer = "ok" THEN "ok" ELSE IF call[c].left > 1 THEN "http"
                       ELSE IF answer = "refused" THEN "refused" ELSE "failed",
                !.left = IF answer = "ok" THEN 0 ELSE @ - 1,
                !.out = @ \o [k \in 1..n |-> <<runs[c].n + 1, k>>]])
    /\ UNCHANGED <<pending, chan, closed, nextId, reader, wire, jobs>>

Answer(c) == TakeReply(c) \/ TakeResult(c) \/ TakeData(c) \/ TakeEnd(c)
Http(c)   == Attempt(c) \/ Rekey(c) \/ AttemptStream(c)
Step(c)   == Answer(c) \/ GiveUp(c) \/ Http(c)
ReadLoop  == Read \/ Push \/ PushResult \/ Panic
Agent     == AgentAnswers \/ AgentStarts \/ AgentWrites \/ AgentEnds

Next ==
    \/ \E c \in Calls : Begin(c) \/ Step(c) \/ Cancel(c)
    \/ ReadLoop \/ Agent \/ Drop \/ Reconnect

\* Calls of which every stage has a time limit.  A stream has none over HTTP, and
\* none while it writes to its browser.
Timed == Commands \cup Probes

\* Goroutines are scheduled and timers fire; agents and networks promise nothing.
\* A probe that gave up goes on to its command in the same goroutine.
Fairness ==
    /\ \A c \in Timed : WF_vars(GiveUp(c)) /\ WF_vars(Http(c))
    /\ \A c \in Probes : WF_vars(Begin(c) /\ call[c].kind = "rpc")
    /\ WF_vars(ReadLoop)

Spec == Init /\ [][Next]_vars /\ Fairness
=============================================================================
