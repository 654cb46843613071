-------------------------- MODULE SecureChannelProps --------------------------
(* What the sealed channel promises. *)
EXTENDS SecureChannel

Places == {"idle", "exchange", "plain", "sealed", "open", "done", "reply", "error",
           "invalid", "ok", "failed"}
Reasons == {"none", "lost", "refused", "no session", "decrypt failed", "decrypt response"}

\* The types of what the two panels keep.
TypeOK ==
    /\ held \in Sessions \cup {None} /\ cache \in Sessions \cup {None} /\ made \in Sessions
    /\ sent \in [Sessions -> [Sides -> Nat]]
    /\ window \in [Sessions -> [Sides -> [max : Nat, bits : SUBSET (0..(W - 1))]]]
    /\ got \in [Sessions -> [Sides -> SUBSET Nat]]
    /\ call \in [Calls -> [pc : Places, session : Sessions \cup {None}, seq : Nat, asked : Nat,
                           at : Sessions \cup {None}, runs : Nat, opened : Nat, why : Reasons]]
    /\ repeats \in Nat /\ lost \in Nat /\ ends \in Nat

\* What the window means: the numbers received, as far as it reaches.
Represents(w, seen) ==
    /\ \A n \in seen : n <= w.max
    /\ w.max \in seen \cup {0}
    /\ w.bits = {d \in 0..(W - 1) : w.max - d \in seen}

\* The window of every session and side stands for the numbers that passed it,
\* whatever order they came in and however far apart (replayWindow.Check).
WindowIsTheSet ==
    \A s \in Sessions, p \in Sides : Represents(window[s][p], got[s][p])

\* A sealed request is executed at most once, though it may be delivered again
\* after the sessions changed (Decrypt, negotiateManage).
OncePerEnvelope == \A c \in Calls : call[c].opened <= 1

\* A command that was executed is sent again only when its error looked like an
\* invalid session, or W results of the session, sealed after its own, came
\* before it (isSessionInvalidErr, Decrypt).
SentAgainOnlyIfOvertaken ==
    \A c \in Calls : At(c, "exchange") /\ call[c].runs > 0 =>
        \/ call[c].why = "refused"
        \/ \E n \in got[call[c].session]["consumer"] : n >= call[c].seq + W

\* Sessions that are lost, replaced or crossed never fail a command: it fails
\* when an exchange is lost or the agent refuses it (doFederationRequest).
SessionsHeal ==
    \A c \in Calls : At(c, "failed") => call[c].why \in {"lost", "refused"}
=============================================================================
