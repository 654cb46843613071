---------------------------- MODULE SecureChannel ----------------------------
(***************************************************************************)
(* Sealed commands between two panels (internal/handler/remote_manage.go:  *)
(* doFederationRequest and what it calls; federation.go: handleManage and  *)
(* negotiateManage; internal/securechan).  The consumer sends commands for *)
(* a shared server to its owner, several at once, each over an HTTP        *)
(* exchange of its own.  Both sides keep one session in memory.  A command *)
(* is sealed with the session of the consumer, or, when there is none or   *)
(* it turned out invalid, sent with a key exchange, which makes a new      *)
(* session for both.  Calls of a panel to its agents (doPullKeyExchange,   *)
(* doEncryptedPullRequest) have the same shape.                            *)
(***************************************************************************)
EXTENDS ReplayWindow, FiniteSets

CONSTANTS Calls,
          MaxSessions,   \* bound: sessions ever made
          MaxRepeats,    \* bound: requests that an intermediary repeats
          MaxLost,       \* bound: exchanges that fail
          MaxEnds,       \* bound: expirations and restarts
          None

ASSUME ChannelAssumption ==
    /\ MaxSessions \in Nat \ {0}
    /\ MaxRepeats \in Nat /\ MaxLost \in Nat /\ MaxEnds \in Nat

Sessions == 1..MaxSessions
Sides    == {"owner", "consumer"}

VARIABLES
    held,      \* the consumer's fedSessions entry
    cache,     \* the owner's SessionCache entry
    made,      \* sessions made so far
    sent,      \* per session and side: sendSeq
    window,    \* per session and side: recvWindow
    got,       \* per session and side: the numbers that passed the window
    call,      \* per call: its exchange
    repeats, lost, ends

keys   == <<held, cache, made>>
seals  == <<sent, window, got>>
bounds == <<repeats, lost, ends>>
vars   == <<keys, seals, call, bounds>>

\* session, seq: the envelope on its way; asked: the number of the request;
\* at: the session that the owner opens it with; runs, opened: executions, and
\* those of the sealed request; why: the reason of an answer that is no result.
NewCall == [pc |-> "idle", session |-> None, seq |-> 0, asked |-> 0, at |-> None,
            runs |-> 0, opened |-> 0, why |-> "none"]

\* The two panels have just exchanged keys.
Init ==
    /\ held = 1 /\ cache = 1 /\ made = 1
    /\ sent = [s \in Sessions |-> [p \in Sides |-> 0]]
    /\ window = [s \in Sessions |-> [p \in Sides |-> NewWindow]]
    /\ got = [s \in Sessions |-> [p \in Sides |-> {}]]
    /\ call = [c \in Calls |-> NewCall]
    /\ repeats = 0 /\ lost = 0 /\ ends = 0

At(c, pc)     == call[c].pc = pc
Set(c, rec)   == call' = [call EXCEPT ![c] = rec]
Go(c, pc)     == Set(c, [call[c] EXCEPT !.pc = pc])

\* Session.Encrypt: the next number of the session and the side.
Seal(c, s, side, pc) ==
    /\ sent' = [sent EXCEPT ![s][side] = @ + 1]
    /\ Set(c, [call[c] EXCEPT !.pc = pc, !.session = s, !.seq = sent[s][side] + 1])
    /\ UNCHANGED <<window, got>>

\* Session.Decrypt: the number is checked and marked before the seal is opened,
\* so that an envelope of another session moves the window too.
Passes(s, side, seq) == Accepts(window[s][side], seq)
Pass(s, side, seq) ==
    /\ window' = [window EXCEPT ![s][side] = IF Passes(s, side, seq) THEN Mark(@, seq) ELSE @]
    /\ got' = [got EXCEPT ![s][side] = IF Passes(s, side, seq) THEN @ \cup {seq} ELSE @]
    /\ UNCHANGED sent

(***************************************************************************)
(* The consumer sends                                                      *)
(***************************************************************************)

\* doFederationRequest
Send(c) ==
    /\ At(c, "idle")
    /\ IF held = None THEN Go(c, "exchange") /\ UNCHANGED seals
       ELSE Seal(c, held, "consumer", "sealed")
    /\ UNCHANGED <<keys, bounds>>

(***************************************************************************)
(* The owner: handleManage                                                 *)
(***************************************************************************)

\* negotiateManage, key exchange: a new session replaces the one in the cache;
\* the command in the clear is executed.
OwnerExchanges(c) ==
    /\ At(c, "exchange") /\ made < MaxSessions
    /\ made' = made + 1 /\ cache' = made + 1
    /\ Set(c, [call[c] EXCEPT !.pc = "plain", !.at = made + 1, !.runs = @ + 1])
    /\ UNCHANGED <<held, seals, bounds>>

\* negotiateManage, sealed request: the session is looked up ...
OwnerLooksUp(c) ==
    /\ At(c, "sealed")
    /\ Set(c, IF cache = None THEN [call[c] EXCEPT !.pc = "invalid", !.why = "no session"]
              ELSE [call[c] EXCEPT !.pc = "open", !.at = cache])
    /\ UNCHANGED <<keys, seals, bounds>>

\* ... and opens the envelope.  Then the command is executed.
OwnerOpens(c) ==
    /\ At(c, "open")
    /\ Pass(call[c].at, "owner", call[c].seq)
    /\ Set(c, IF Passes(call[c].at, "owner", call[c].seq) /\ call[c].at = call[c].session
              THEN [call[c] EXCEPT !.pc = "done", !.runs = @ + 1, !.opened = @ + 1,
                                   !.asked = call[c].seq]
              ELSE [call[c] EXCEPT !.pc = "invalid", !.why = "decrypt failed"])
    /\ UNCHANGED <<keys, bounds>>

\* The result is sealed with the session that opened the request.
OwnerReplies(c) ==
    /\ At(c, "done")
    /\ Seal(c, call[c].at, "owner", "reply")
    /\ UNCHANGED <<keys, bounds>>

\* The command failed at the agent: an error in the clear.
OwnerRefuses(c) ==
    /\ At(c, "done")
    /\ Go(c, "error")
    /\ UNCHANGED <<keys, seals, bounds>>

(***************************************************************************)
(* The consumer receives                                                   *)
(***************************************************************************)

\* The response of a key exchange: the session is there from now on.  When the
\* command failed, the consumer does not take the session that the owner made.
TakePlain(c) ==
    /\ At(c, "plain")
    /\ \/ held' = call[c].at /\ Go(c, "ok")
       \/ UNCHANGED held /\ Set(c, [call[c] EXCEPT !.pc = "failed", !.why = "refused"])
    /\ UNCHANGED <<cache, made, seals, bounds>>

\* isSessionInvalidErr: 412, re-negotiate, decrypt.  The entry is deleted,
\* whichever session it holds by now, and the command sent again in the clear.
OnlyMissing(why)    == why = "no session"                                  \* mutant
SessionInvalid(why) == why \in {"no session", "decrypt failed", "decrypt response"}

Renegotiate(c, why) ==
    /\ held' = None
    /\ Set(c, [call[c] EXCEPT !.pc = "exchange", !.why = why])
    /\ UNCHANGED <<cache, made>>
Fail(c, why) == Set(c, [call[c] EXCEPT !.pc = "failed", !.why = why]) /\ UNCHANGED keys

TakeInvalid(c) ==
    /\ At(c, "invalid")
    /\ IF SessionInvalid(call[c].why) THEN Renegotiate(c, call[c].why)
       ELSE Fail(c, call[c].why)
    /\ UNCHANGED <<seals, bounds>>

\* doEncryptedFederationRequest opens the response with its own session.
TakeReply(c) ==
    /\ At(c, "reply")
    /\ Pass(call[c].session, "consumer", call[c].seq)
    /\ IF Passes(call[c].session, "consumer", call[c].seq) THEN Go(c, "ok") /\ UNCHANGED keys
       ELSE IF SessionInvalid("decrypt response") THEN Renegotiate(c, "decrypt response")
       ELSE Fail(c, "decrypt response")
    /\ UNCHANGED bounds

\* An error whose text has one of the three words in it by chance is taken for
\* an invalid session.
TakeError(c) ==
    /\ At(c, "error")
    /\ Fail(c, "refused") \/ Renegotiate(c, "refused")
    /\ UNCHANGED <<seals, bounds>>

(***************************************************************************)
(* The environment                                                         *)
(***************************************************************************)

\* An exchange fails, before or after the command was executed.
ExchangeFails(c) ==
    /\ lost < MaxLost /\ lost' = lost + 1
    /\ call[c].pc \notin {"idle", "ok", "failed"}
    /\ Set(c, [call[c] EXCEPT !.pc = "failed", !.why = "lost"])
    /\ UNCHANGED <<keys, seals, repeats, ends>>

\* An intermediary delivers an opened request again; its answer goes nowhere.
Repeat(c) ==
    /\ repeats < MaxRepeats /\ repeats' = repeats + 1
    /\ At(c, "reply") /\ cache # None
    /\ Pass(cache, "owner", call[c].asked)
    /\ IF Passes(cache, "owner", call[c].asked) /\ cache = call[c].at
       THEN Set(c, [call[c] EXCEPT !.runs = @ + 1, !.opened = @ + 1])
       ELSE UNCHANGED call
    /\ UNCHANGED <<keys, lost, ends>>

\* SessionCache.Get and cleanupLoop: the time to live passes; or the owner restarts.
CacheExpires ==
    /\ cache # None /\ ends < MaxEnds
    /\ cache' = None /\ ends' = ends + 1
    /\ UNCHANGED <<held, made, seals, call, repeats, lost>>

\* The consumer restarts: its session and its calls are gone.
ConsumerRestarts ==
    /\ ends < MaxEnds /\ ends' = ends + 1
    /\ held' = None
    /\ call' = [c \in Calls |-> IF call[c].pc \in {"idle", "ok", "failed"} THEN call[c]
                                ELSE [call[c] EXCEPT !.pc = "failed", !.why = "lost"]]
    /\ UNCHANGED <<cache, made, seals, repeats, lost>>

Owner(c)    == \/ OwnerExchanges(c) \/ OwnerLooksUp(c) \/ OwnerOpens(c)
               \/ OwnerReplies(c) \/ OwnerRefuses(c)
Consumer(c) == \/ Send(c) \/ TakePlain(c) \/ TakeInvalid(c) \/ TakeReply(c) \/ TakeError(c)

Next ==
    \/ \E c \in Calls : Consumer(c) \/ Owner(c) \/ ExchangeFails(c) \/ Repeat(c)
    \/ CacheExpires \/ ConsumerRestarts

Spec == Init /\ [][Next]_vars
=============================================================================
