------------------------- MODULE MCTrafficAccounting -------------------------
(* Instances of TrafficAccounting for TLC. *)
EXTENDS TrafficAccountingProps, TLC

CONSTANTS e1, e2, u1, t1, t2

\* For properties that are about orderly reports only.
WhileOrderly == orderly
WhileSteady == orderly /\ steady

\* Clients, and goroutines, are interchangeable.
Symmetry == Permutations(Emails) \cup Permutations(Ticks)

\* The histories are read by no action, and the rows of users and of clients
\* do not depend on each other: a run about one of the tables need not tell
\* states apart by the other, by what a goroutine carries for the other or no
\* longer reads, by the totals, or by histories its properties do not mention.
Uncounted(row) == [row EXCEPT !.total = 0]
ForUsers(k) ==
    [k EXCEPT !.attr = Idle.attr, !.price = Idle.price, !.life = Idle.life,
              !.boot = IF k.pc = "emails" THEN None ELSE @,
              !.sampled = IF k.pc = "emails" THEN None ELSE @,
              !.stats = [e \in Emails |-> IF k.pc = "emails" /\ e \notin k.todo THEN None ELSE @[e]],
              !.old = IF k.pc = "emails" THEN NoOld ELSE Uncounted(@)]
UserTable == <<boot, adds, counter, reported, seen, carried, orderly,
               [u \in Users |-> Uncounted(user[u])],
               [t \in Ticks |-> ForUsers(tick[t])], payer, payers, steady>>
ForClients(k) ==
    IF k.pc \in {"emails", "users"} /\ k.todo \subseteq Users
    THEN [Idle EXCEPT !.pc = k.pc, !.met = k.met, !.todo = k.todo, !.at = k.at]
    ELSE [k EXCEPT !.sum = Idle.sum, !.old = Uncounted(@),
                   !.boot = IF k.pc = "emails" THEN None ELSE @,
                   !.life = IF orderly THEN @ ELSE Idle.life,
                   !.sampled = IF orderly THEN @ ELSE None]
ClientTable == <<boot, adds, counter, reported, seen, weight, owner, changes, carried,
                 orderly, [e \in Emails |-> Uncounted(email[e])],
                 [t \in Ticks |-> ForClients(tick[t])],
                 IF orderly THEN <<counted, born>> ELSE <<>> >>

\* A bound of the run about clients: either the reports are orderly, no price
\* changes and no cycle is reset, or one byte is counted by the first xray.  Clients
\* are resolved to nobody, as the rows of users are those of another run.
OnePrice == /\ changes = 0
            /\ \A e \in Emails : weight[e] = 1 /\ owner[e] = None /\ email[e].base = 0
OneByte == boot = 1 /\ \A e \in Emails : carried[e] <= 1 /\ adds[e] = 0
NoSums == \A t \in Ticks : tick[t].met = {}
LongOrMixed == NoSums /\ ((orderly /\ OnePrice) \/ OneByte)
=============================================================================
