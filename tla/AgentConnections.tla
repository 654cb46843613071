--------------------------- MODULE AgentConnections ---------------------------
(***************************************************************************)
(* The WebSocket connections of one server's agent                         *)
(* (internal/handler/remote_ws.go), the row that says whether the server   *)
(* is online (internal/storage) and the collector that finds out that it   *)
(* is not (internal/traffic/collector.go).  A goroutine per connection     *)
(* authenticates it, takes the place of an older one, reads its messages   *)
(* and cleans up after it; they share a map from tokens to connections     *)
(* that every access locks for itself.                                     *)
(***************************************************************************)
EXTENDS Naturals

CONSTANTS Conns,         \* connections that exist at a time
          Ips,           \* addresses that agents connect from
          FailThreshold, \* failures of an address before it must wait
          Resets,        \* requests that reset the token
          MaxResets,     \* bound: resets of the token
          MaxFaults,     \* bound: lost or refused connections, failed writes, restarts
          None

ASSUME ConnectionsAssumption ==
    /\ FailThreshold \in Nat \ {0}
    /\ MaxResets \in Nat /\ MaxFaults \in Nat
    /\ None \notin Conns \cup Ips /\ None \notin Nat

Tokens == 1..(MaxResets + 1)

VARIABLES
    conn,      \* the goroutines of handleConnection
    conns,     \* RemoteWSHandler.conns
    lock,      \* tokenConflicts: the address that the row's token is locked to; the
               \* lock of an older one is not read again
    fails,     \* authFailIPs: failures in the window, per address
    row,       \* the row in remote_servers: its token and its state; history: did a
               \* reset replace another token than the one it had read
    knows,     \* the token the agent has; 0 when it is gone for good
    push,      \* per request: HandleResetServerToken, SendTokenUpdate
    sweep,     \* CleanupStaleConnections in progress
    tick,      \* the collector
    faults

memory == <<conn, conns, lock, fails, push, sweep>>
vars   == <<memory, row, knows, tick, faults>>

\* token: wsConn.Token; auth: authPayload.Token, while it is used; fresh: heard of
\* within tokenConflictFreshness; had: the connection found.
NoConn == [pc |-> "new", ip |-> None, token |-> None, auth |-> None, fresh |-> TRUE,
           socket |-> "open", had |-> None]
NoPush  == [pc |-> "idle", old |-> None, new |-> None, to |-> None]
NoSweep == [of |-> None, token |-> None]

Init ==
    /\ conn = [c \in Conns |-> NoConn]
    /\ conns = [t \in Tokens |-> None]
    /\ lock = None
    /\ fails = [ip \in Ips |-> 0]
    /\ row = [token |-> 1, state |-> "pending", crossed |-> FALSE]
    /\ knows = 1
    /\ push = [r \in Resets |-> NoPush] /\ sweep = NoSweep /\ tick = "idle"
    /\ faults = 0

At(c, pc)   == conn[c].pc = pc
Set(c, rec) == conn' = [conn EXCEPT ![c] = rec]
Go(c, pc)   == Set(c, [conn[c] EXCEPT !.pc = pc])
Registered(c) == \E t \in Tokens : conns[t] = c
Fault == faults < MaxFaults /\ faults' = faults + 1

(***************************************************************************)
(* The row.  Its columns status, last_heartbeat, offline_since and         *)
(* offline_notified are one state: connected, or silent when the last      *)
(* heartbeat is past the threshold; offline, due when that was long enough *)
(* ago to notify, and notified.                                            *)
(***************************************************************************)
States == {"pending", "connected", "silent", "offline", "due", "notified"}

\* UpdateRemoteServerHeartbeat, ...WithRestart, UpdateRemoteServerLastActivity
Online(s) == "connected"

\* MarkRemoteServerOfflineByID, MarkOfflineRemoteServers
MarkAlways(s) == "offline"                                                \* mutant
MarkOffline(s) == IF s \in {"connected", "silent"} THEN "offline" ELSE s

Write(new) == row' = [row EXCEPT !.state = new]

(***************************************************************************)
(* A connection arrives: ServeHTTP, handleAuth                             *)
(***************************************************************************)

\* shouldRejectIP: an address that failed too often must wait.
Rejected(ip) == fails[ip] >= FailThreshold

Dial(c, ip) ==
    /\ At(c, "new") /\ ~Rejected(ip) /\ knows # 0
    /\ Set(c, [NoConn EXCEPT !.pc = "up", !.ip = ip])
    /\ UNCHANGED <<conns, lock, fails, push, sweep, row, knows, tick, faults>>

\* The count stops at the threshold: no more is asked of it.
MarkFail(ip, n) == fails' = [fails EXCEPT ![ip] = IF n < FailThreshold THEN n + 1 ELSE n]

\* isTokenConflictRejected: the token is locked to another address.
LockedOut(ip) == lock \notin {None, ip}

\* The token is looked up.  A known one clears the failures of the address.
Authenticate(c) ==
    /\ At(c, "up") /\ conn[c].socket = "open"
    /\ IF knows # row.token
       THEN MarkFail(conn[c].ip, fails[conn[c].ip]) /\ UNCHANGED conn
       ELSE IF LockedOut(conn[c].ip)
       THEN MarkFail(conn[c].ip, 0) /\ UNCHANGED conn
       ELSE /\ fails' = [fails EXCEPT ![conn[c].ip] = 0]
            /\ Set(c, [conn[c] EXCEPT !.pc = "check", !.token = knows, !.auth = knows])
    /\ UNCHANGED <<conns, lock, push, sweep, row, knows, tick, faults>>

\* Another connection of another address that was heard of a minute ago keeps
\* the token; any other has to go.
Conflicts(c, d) == d # None /\ conn[d].ip # conn[c].ip /\ conn[d].fresh

CheckExisting(c) ==
    LET t == conn[c].auth
        d == conns[t] IN
    /\ At(c, "check")
    /\ IF Conflicts(c, d)
       THEN /\ lock' = IF t = row.token THEN conn[d].ip ELSE lock
            /\ MarkFail(conn[c].ip, fails[conn[c].ip])
            /\ Set(c, [conn[c] EXCEPT !.pc = "up", !.token = None, !.auth = None])
       ELSE /\ Set(c, [conn[c] EXCEPT !.pc = "take", !.had = d])
            /\ UNCHANGED <<lock, fails>>
    /\ UNCHANGED <<conns, push, sweep, row, knows, tick, faults>>

\* Whatever is in the map by now is deleted; what was found is closed.  Then a
\* connection that exchanged no key may be refused.
TakePlace(c) ==
    LET t == conn[c].auth
        d == conn[c].had
        taken == d # None /\ conns[t] # None
        Then(rec) == conn' = [k \in Conns |->
                         IF k = c THEN rec
                         ELSE IF taken /\ k = d THEN [conn[k] EXCEPT !.socket = "closed"]
                         ELSE conn[k]] IN
    /\ At(c, "take")
    /\ conns' = IF taken THEN [conns EXCEPT ![t] = None] ELSE conns
    /\ \/ Then([conn[c] EXCEPT !.pc = "store"]) /\ UNCHANGED faults
       \/ Then([conn[c] EXCEPT !.pc = "up", !.token = None, !.auth = None, !.had = None]) /\ Fault
    /\ UNCHANGED <<lock, fails, push, sweep, row, knows, tick>>

Store(c) ==
    /\ At(c, "store")
    /\ conns' = [conns EXCEPT ![conn[c].auth] = c]
    /\ Go(c, "announce")
    /\ UNCHANGED <<lock, fails, push, sweep, row, knows, tick, faults>>

\* The row says online, unless its token is no longer the one authenticated with.
Announce(c) ==
    /\ At(c, "announce")
    /\ Write(IF row.token = conn[c].auth THEN Online(row.state) ELSE row.state)
    /\ Set(c, [conn[c] EXCEPT !.pc = "live", !.auth = None, !.had = None])
    /\ UNCHANGED <<conns, lock, fails, push, sweep, knows, tick, faults>>

Auth(c) == \/ Authenticate(c) \/ CheckExisting(c) \/ TakePlace(c) \/ Store(c) \/ Announce(c)

(***************************************************************************)
(* A connection is read: handleHeartbeat, handleTraffic, handleSpeed       *)
(***************************************************************************)

\* Only a heartbeat counts for the connection; it writes by token, and ...
Heartbeat(c) ==
    /\ At(c, "live") /\ conn[c].socket = "open"
    /\ Set(c, [conn[c] EXCEPT !.fresh = TRUE])
    /\ Write(IF row.token = conn[c].token THEN Online(row.state) ELSE row.state)
    /\ UNCHANGED <<conns, lock, fails, push, sweep, knows, tick, faults>>

\* ... the other messages by server.
Report(c) ==
    /\ At(c, "live") /\ conn[c].socket = "open"
    /\ Write(Online(row.state))
    /\ UNCHANGED <<memory, knows, tick, faults>>

\* The peer is gone, or the network.
PeerLeaves(c) ==
    /\ conn[c].pc \notin {"new", "over"} /\ conn[c].socket = "open"
    /\ Fault
    /\ Set(c, [conn[c] EXCEPT !.socket = "dead"])
    /\ UNCHANGED <<conns, lock, fails, push, sweep, row, knows, tick>>

AgentStops ==
    /\ Fault /\ knows' = 0
    /\ conn' = [c \in Conns |-> IF conn[c].pc \notin {"new", "over"} /\ conn[c].socket = "open"
                              THEN [conn[c] EXCEPT !.socket = "dead"] ELSE conn[c]]
    /\ UNCHANGED <<conns, lock, fails, push, sweep, row, tick>>

\* The read fails, at the latest when its deadline passes.
ReadEnds(c) ==
    /\ conn[c].pc \in {"up", "live"} /\ conn[c].socket # "open"
    /\ Go(c, IF At(c, "live") THEN "closing" ELSE "over")
    /\ UNCHANGED <<conns, lock, fails, push, sweep, row, knows, tick, faults>>

(***************************************************************************)
(* The end of handleConnection                                             *)
(***************************************************************************)
Compare(c) ==
    /\ At(c, "closing")
    /\ Go(c, IF conns[conn[c].token] = c THEN "delete" ELSE "over")
    /\ UNCHANGED <<conns, lock, fails, push, sweep, row, knows, tick, faults>>

DeleteOwn(c) ==
    /\ At(c, "delete")
    /\ conns' = [conns EXCEPT ![conn[c].token] = None]
    /\ Go(c, "mark")
    /\ UNCHANGED <<lock, fails, push, sweep, row, knows, tick, faults>>

\* The write may fail; it is logged.
MarkGone(c) ==
    /\ At(c, "mark")
    /\ \/ Write(MarkOffline(row.state)) /\ UNCHANGED faults
       \/ UNCHANGED row /\ Fault
    /\ Go(c, "over")
    /\ UNCHANGED <<conns, lock, fails, push, sweep, knows, tick>>

CleanUp(c) == Compare(c) \/ DeleteOwn(c) \/ MarkGone(c)

\* The connection is garbage when nothing refers to it; another may come.
Forgotten(c) ==
    /\ ~Registered(c) /\ sweep.of # c /\ \A r \in Resets : push[r].to # c
    /\ \A d \in Conns : conn[d].had # c

Collected(c) ==
    /\ At(c, "over") /\ Forgotten(c)
    /\ Set(c, NoConn)
    /\ UNCHANGED <<conns, lock, fails, push, sweep, row, knows, tick, faults>>

(***************************************************************************)
(* CleanupStaleConnections                                                 *)
(***************************************************************************)
FindStale ==
    /\ sweep = NoSweep
    /\ \E t \in Tokens : /\ conns[t] # None /\ ~conn[conns[t]].fresh
                         /\ sweep' = [of |-> conns[t], token |-> t]
    /\ UNCHANGED <<conn, conns, lock, fails, push, row, knows, tick, faults>>

\* The connection is closed, and what is in the map by now is deleted.
CloseOnly(t) == conns                                                     \* mutant
Dropped(t)   == [conns EXCEPT ![t] = None]

DropStale ==
    /\ sweep # NoSweep
    /\ conn' = [conn EXCEPT ![sweep.of].socket = "closed"]
    /\ conns' = Dropped(sweep.token)
    /\ sweep' = NoSweep
    /\ UNCHANGED <<lock, fails, push, row, knows, tick, faults>>

(***************************************************************************)
(* HandleResetServerToken, SendTokenUpdate                                 *)
(***************************************************************************)

\* Any number of requests at once; nothing but the connection's lock keeps them
\* apart.  The row is read for the token that the connection is known by, ...
ResetReads(r) ==
    /\ push[r].pc = "idle" /\ row.token <= MaxResets
    /\ push' = [push EXCEPT ![r].pc = "write", ![r].old = row.token]
    /\ UNCHANGED <<conn, conns, lock, fails, sweep, row, knows, tick, faults>>

\* ... is given a token that no row ever had, whatever its token is by now, ...
ResetWrites(r) ==
    /\ push[r].pc = "write"
    /\ \/ /\ row.token <= MaxResets
          /\ row' = [row EXCEPT !.token = @ + 1,
                                !.crossed = @ \/ row.token # push[r].old]
          /\ lock' = None
          /\ push' = [push EXCEPT ![r].pc = "find", ![r].new = row.token + 1]
       \/ push' = [push EXCEPT ![r] = NoPush] /\ UNCHANGED <<row, lock>>
    /\ UNCHANGED <<conn, conns, fails, sweep, knows, tick, faults>>

\* ... and the connection is looked up.
Unchecked(c) == TRUE                                                      \* mutant
Found(c)     == c # None

ResetFinds(r) ==
    LET c == conns[push[r].old] IN
    /\ push[r].pc = "find"
    /\ push' = IF Found(c) THEN [push EXCEPT ![r].pc = "send", ![r].to = c]
               ELSE [push EXCEPT ![r] = NoPush]
    /\ UNCHANGED <<conn, conns, lock, fails, sweep, row, knows, tick, faults>>

\* Under the lock of the connection the token is sent, the old entry deleted and
\* the connection renamed ...
KeepOld(t) == conns                                                       \* mutant
DropOld(t) == [conns EXCEPT ![t] = None]

PushToken(r) ==
    LET c == push[r].to IN
    /\ push[r].pc = "send"
    /\ \A q \in Resets : ~(push[q].pc = "store" /\ push[q].to = c)
    /\ IF conn[c].socket = "closed"
       THEN push' = [push EXCEPT ![r] = NoPush] /\ UNCHANGED <<conn, conns, knows>>
       ELSE /\ knows' = IF conn[c].socket = "open" THEN push[r].new ELSE knows
            /\ conns' = DropOld(push[r].old)
            /\ conn' = [conn EXCEPT ![c].token = push[r].new]
            /\ push' = [push EXCEPT ![r].pc = "store"]
    /\ UNCHANGED <<lock, fails, sweep, row, tick, faults>>

\* ... and stored under the new token.
PushStore(r) ==
    /\ push[r].pc = "store"
    /\ conns' = [conns EXCEPT ![push[r].new] = push[r].to]
    /\ push' = [push EXCEPT ![r] = NoPush]
    /\ UNCHANGED <<conn, lock, fails, sweep, row, knows, tick, faults>>

\* An agent that was not told is given the token by hand.
Reinstall ==
    /\ knows \notin {0, row.token}
    /\ knows' = row.token
    /\ UNCHANGED <<memory, row, tick, faults>>

(***************************************************************************)
(* Collector.collectAll                                                    *)
(***************************************************************************)

\* MarkOfflineRemoteServers and the query of TakeOfflineServersToNotify: what
\* the one writes the other does not read.
NeverExpired(s) == FALSE                                                  \* mutant
Expired(s) == s = "silent"

CollectorLooks ==
    /\ tick = "idle"
    /\ Write(IF Expired(row.state) THEN MarkOffline(row.state) ELSE row.state)
    /\ tick' = IF row.state = "due" THEN "take" ELSE "idle"
    /\ UNCHANGED <<memory, knows, faults>>

\* Its update has the same condition.  What the query found is notified.
CollectorTakes ==
    /\ tick = "take" /\ tick' = "idle"
    /\ \/ Write(IF row.state = "due" THEN "notified" ELSE row.state) /\ UNCHANGED faults
       \/ Fault /\ UNCHANGED row
    /\ UNCHANGED <<memory, knows>>

Collector == CollectorLooks \/ CollectorTakes

(***************************************************************************)
(* Time passes, and the panel restarts                                     *)
(***************************************************************************)

\* tokenConflictFreshness; the five minutes of the cleanup loop end later.
PingAges(c) ==
    /\ At(c, "live") \/ (At(c, "over") /\ Registered(c))
    /\ conn[c].fresh
    /\ Set(c, [conn[c] EXCEPT !.fresh = FALSE])
    /\ UNCHANGED <<conns, lock, fails, push, sweep, row, knows, tick, faults>>

\* offlineThreshold, and the tolerance of the notification.
RowAges ==
    /\ row.state \in {"connected", "offline"}
    /\ Write(IF row.state = "connected" THEN "silent" ELSE "due")
    /\ UNCHANGED <<memory, knows, tick, faults>>

\* tokenConflictCooldown
NeverUnlocked == FALSE                                                    \* mutant
Unlocked == lock' = None

LockEnds ==
    /\ lock # None /\ Unlocked
    /\ UNCHANGED <<conn, conns, fails, push, sweep, row, knows, tick, faults>>

\* wsFailCooldown: the window may have been moved by the attempts that were
\* rejected, so that the next failure is one too many again.
CooldownEnds(ip) ==
    /\ Rejected(ip)
    /\ \E n \in {0, FailThreshold - 1} : fails' = [fails EXCEPT ![ip] = n]
    /\ UNCHANGED <<conn, conns, lock, push, sweep, row, knows, tick, faults>>

PanelRestarts ==
    /\ Fault
    /\ conn' = [c \in Conns |-> NoConn]
    /\ conns' = [t \in Tokens |-> None]
    /\ lock' = None
    /\ fails' = [ip \in Ips |-> 0]
    /\ push' = [r \in Resets |-> NoPush] /\ sweep' = NoSweep /\ tick' = "idle"
    /\ UNCHANGED <<row, knows>>

-----------------------------------------------------------------------------
Goroutine(c) == Auth(c) \/ Heartbeat(c) \/ Report(c) \/ ReadEnds(c) \/ CleanUp(c)
Sweeper == FindStale \/ DropStale
Reset(r) == ResetWrites(r) \/ ResetFinds(r) \/ PushToken(r) \/ PushStore(r)
Time    == \/ \E c \in Conns : PingAges(c)
           \/ RowAges \/ LockEnds \/ (\E ip \in Ips : CooldownEnds(ip))

Next ==
    \/ \E c \in Conns : \/ \E ip \in Ips : Dial(c, ip)
                        \/ Goroutine(c) \/ PeerLeaves(c) \/ Collected(c)
    \/ \E r \in Resets : ResetReads(r) \/ Reset(r)
    \/ Sweeper \/ Reinstall \/ AgentStops
    \/ Collector \/ Time \/ PanelRestarts

Spec == Init /\ [][Next]_vars

\* What must go on for a connection that is gone to be found and dropped.
SweepFairness ==
    /\ \A c \in Conns : WF_vars(PingAges(c))
    /\ \A r \in Resets : WF_vars(Reset(r))
    /\ WF_vars(Sweeper)

\* Goroutines go on, timers fire and time passes for what is silent; an agent
\* keeps dialling and is given the token some day.  Messages are not promised.
Fairness ==
    /\ SweepFairness
    /\ \A c \in Conns :
         /\ WF_vars(\E ip \in Ips : Dial(c, ip)) /\ WF_vars(Auth(c))
         /\ WF_vars(ReadEnds(c)) /\ WF_vars(CleanUp(c)) /\ WF_vars(Collected(c))
    /\ WF_vars(Reinstall)
    /\ WF_vars(CollectorLooks) /\ WF_vars(CollectorTakes) /\ WF_vars(RowAges) /\ WF_vars(LockEnds)
    /\ \A ip \in Ips : WF_vars(CooldownEnds(ip))

SweepSpec == Spec /\ SweepFairness
FairSpec == Spec /\ Fairness
=============================================================================
