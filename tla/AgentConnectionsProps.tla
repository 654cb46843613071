------------------------ MODULE AgentConnectionsProps ------------------------
(* What the connections of an agent promise. *)
EXTENDS AgentConnections

Steps == {"new", "up", "check", "take", "store", "announce", "live", "closing", "delete", "mark", "over"}

Stages == {"idle", "write", "find", "send", "store"}

\* The types; a request that resets a token has what its stage needs; the token of the row is never reset further than the bound.
TypeOK ==
    /\ conn \in [Conns -> [pc : Steps, ip : Ips \cup {None}, token : Tokens \cup {None},
                           auth : Tokens \cup {None}, fresh : BOOLEAN, socket : {"open", "dead", "closed"},
                           had : Conns \cup {None}]]
    /\ conns \in [Tokens -> Conns \cup {None}]
    /\ lock \in Ips \cup {None}
    /\ fails \in [Ips -> 0..FailThreshold]
    /\ row \in [token : Tokens, state : States, crossed : BOOLEAN]
    /\ knows \in Tokens \cup {0}
    /\ push \in [Resets -> [pc : Stages, old : Tokens \cup {None}, new : Tokens \cup {None},
                            to : Conns \cup {None}]]
    /\ \A r \in Resets : /\ push[r].pc # "idle" => push[r].old # None
                         /\ push[r].pc \in {"find", "send", "store"} => push[r].new # None
                         /\ push[r].pc \in {"send", "store"} <=> push[r].to # None
    /\ sweep = NoSweep \/ sweep \in [of : Conns, token : Tokens]
    /\ tick \in {"idle", "take"}
    /\ faults \in 0..MaxFaults

\* The map has a connection under its own token and no other, as the comments on
\* RemoteWSHandler.conns and in SendTokenUpdate say of it, also while connections
\* replace each other and the token is changed under them (handleAuth,
\* SendTokenUpdate), as long as every reset replaced the token that it had read.
\* Two requests that read one token each rename the connection that they find under
\* it, which is then stored under the new token of the one with that of the other.
RegisteredUnderOwnToken ==
    ~row.crossed => \A t \in Tokens : conns[t] # None => conn[conns[t]].token = t

\* An absence is notified once: what was notified is next online, whoever finds
\* the server gone again meanwhile (handleConnection, MarkOfflineRemoteServers).
NotifiedOnce ==
    [][row.state = "notified" /\ row'.state # "notified" => row'.state = "connected"]_vars

\* A connection that is gone does not stay registered, where calls of the panel
\* would find it (GetConnectionByServerID).
DeadIsUnregistered ==
    \A c \in Conns : At(c, "over") /\ Registered(c) ~> ~Registered(c)

\* A server that is gone is found to be offline and not online again, although
\* goroutines that are late go on for a while (handleConnection, handleAuth,
\* CleanupStaleConnections, Collector.collectAll).
GoneIsOffline == knows = 0 ~> [](row.state \notin {"connected", "silent"})

\* Whatever connections, locks and failures were before: an agent that keeps
\* dialling gets in.
Live(c) == At(c, "live") /\ conn[c].socket = "open"
AgentGetsIn == []<>(knows = 0 \/ \E c \in Conns : Live(c))
=============================================================================
