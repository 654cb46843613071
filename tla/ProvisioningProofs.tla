-------------------------- MODULE ProvisioningProofs --------------------------
(***************************************************************************)
(* Proofs about Provisioning, for any number of users, packages, inbounds, *)
(* concurrent requests, failures and restarts.                             *)
(***************************************************************************)
EXTENDS ProvisioningProps, TLAPS

\* What is added to an inbound has a credential.
TypedItems == {x \in Items : x.stage \in {"batch", "save", "post"} => x.cred \in Creds}

\* The conjuncts of TypeOK, and whom a visit and a request are about.
AccountOK == account \in [Users -> Accounts]
TablesOK  == used \in [Users -> Nat] /\ due \in SUBSET Users /\ nodes \in [Packages -> SUBSET Inbounds]
RowOK     == row \in [Users -> [Inbounds -> Creds \cup {None}]]
ClientOK  == client \in [Inbounds -> SUBSET (Users \X Creds)]
SnapOK    == snap \in [Inbounds -> SUBSET (Users \X Creds)]
AgentsOK  == refresh \in SUBSET Inbounds /\ online \in [Inbounds -> BOOLEAN]
Visiting(v) == v.pc \notin {"idle", "next"} => v.user \in Users
EnfOK     == enf \in Visits /\ Visiting(enf)
RecOK     == rec \in Runs
Asking(q) == /\ q.pc \in {"prev", "bind", "remove", "unbind"} => q.user \in Users
             /\ q.pc \in {"prev", "bind"} => q.pkg \in Packages
ReqOK     == req \in [Requests -> Served] /\ \A r \in Requests : Asking(req[r])
WorkOK    == work \in [Procs -> SUBSET TypedItems]
BoundsOK  == requests \in Nat /\ faults \in Nat
TouchedOK == touched \in SUBSET Inbounds

Types == /\ AccountOK /\ TablesOK /\ RowOK /\ ClientOK /\ SnapOK /\ AgentsOK
         /\ EnfOK /\ RecOK /\ ReqOK /\ WorkOK /\ BoundsOK /\ TouchedOK

\* The enforcer takes the expired user's clients away; it only removes.
Expiring    == enf.pc = "work" /\ enf.why = "expire"
OnlyRemoves == Expiring \/ enf.pc = "forget" => \A x \in work["enforcer"] : x.stage = "remove"

\* While no removal failed, a client that a row stands for and nobody else
\* touched is still to be removed, and none is left when the rows go.
Delivered(i) == row[enf.user][i] # None /\ <<enf.user, row[enf.user][i]>> \in client[i]
Owed(i)      == Item(enf.user, i, row[enf.user][i], "remove") \in work["enforcer"]
Visit ==
    /\ Expiring /\ enf.safe => \A i \in Inbounds \ touched : Delivered(i) => Owed(i)
    /\ enf.pc = "forget" => \A i \in Inbounds \ touched : ~Delivered(i)

IInv == Types /\ OnlyRemoves /\ Visit

-----------------------------------------------------------------------------
(* Records                                                                   *)

LEMMA AccountField ==
    ASSUME NEW a \in Accounts
    PROVE  /\ \A p \in Packages \cup {None}, l \in Limits :
                 [a EXCEPT !.pkg = p, !.ended = FALSE, !.limit = l] \in Accounts
           /\ \A f \in BOOLEAN : [a EXCEPT !.flag = f] \in Accounts
           /\ \A l \in Limits : [a EXCEPT !.limit = l] \in Accounts
           /\ [a EXCEPT !.ended = TRUE] \in Accounts
BY DEF Accounts

LEMMA ItemTypes ==
    ASSUME NEW u \in Users, NEW i \in Inbounds, NEW c \in Creds \cup {None}, NEW s \in Stages,
           s \in {"batch", "save", "post"} => c \in Creds
    PROVE  Item(u, i, c, s) \in TypedItems
BY DEF Item, Items, TypedItems

LEMMA ItemFields ==
    ASSUME NEW x \in TypedItems
    PROVE  /\ x.user \in Users /\ x.inbound \in Inbounds /\ x.cred \in Creds \cup {None}
           /\ x.stage \in Stages /\ (x.stage \in {"batch", "save", "post"} => x.cred \in Creds)
BY DEF TypedItems, Items

LEMMA RowItemTypes ==
    ASSUME RowOK, NEW u \in Users, NEW s \in Stages
    PROVE  RowItems(u, s) \subseteq TypedItems
<1> SUFFICES ASSUME NEW i \in Inbounds, row[u][i] # None
             PROVE  Item(u, i, row[u][i], s) \in TypedItems
  BY DEF RowItems
<1>1. row[u][i] \in Creds
  BY DEF RowOK
<1> QED
  BY <1>1, ItemTypes

LEMMA InitInv == Init => IInv
<1> SUFFICES ASSUME Init PROVE IInv
  OBVIOUS
<1> USE ProvisioningAssumption
<1>1. PICK pkg \in [Users -> Packages \cup {None}], limit \in Limits \ {0}, cred \in [Users -> Creds] :
        /\ account = [u \in Users |->
               [NoAccount EXCEPT !.exists = TRUE, !.pkg = pkg[u],
                                 !.limit = IF pkg[u] = None THEN 0 ELSE limit]]
        /\ row = [u \in Users |->
               [i \in Inbounds |-> IF pkg[u] # None /\ i \in nodes[pkg[u]] THEN cred[u] ELSE None]]
        /\ client = [i \in Inbounds |->
               {<<u, cred[u]>> : u \in {v \in Users : pkg[v] # None /\ i \in nodes[pkg[v]]}}]
  BY DEF Init
<1>2. AccountOK
  <2>1. NoAccount \in Accounts
    BY DEF NoAccount, Accounts
  <2>2. ASSUME NEW p \in Packages \cup {None}, NEW l \in Limits
        PROVE  [NoAccount EXCEPT !.exists = TRUE, !.pkg = p, !.limit = l] \in Accounts
    BY <2>1 DEF Accounts
  <2>3. ASSUME NEW u \in Users
        PROVE  (IF pkg[u] = None THEN 0 ELSE limit) \in Limits /\ pkg[u] \in Packages \cup {None}
    BY <1>1
  <2> QED
    BY <1>1, <2>2, <2>3 DEF AccountOK
<1>3. RowOK
  BY <1>1 DEF RowOK
<1>a. ClientOK /\ SnapOK
  <2>1. ASSUME NEW i \in Inbounds PROVE client[i] \in SUBSET (Users \X Creds)
    <3>1. client[i] = {<<u, cred[u]>> : u \in {v \in Users : pkg[v] # None /\ i \in nodes[pkg[v]]}}
      BY <1>1
    <3>2. ASSUME NEW u \in Users PROVE <<u, cred[u]>> \in Users \X Creds
      OBVIOUS
    <3> QED
      BY <3>1, <3>2
  <2> QED
    BY <1>1, <2>1 DEF Init, ClientOK, SnapOK
<1>4. TablesOK /\ AgentsOK /\ BoundsOK /\ TouchedOK
  BY DEF Init, TablesOK, AgentsOK, BoundsOK, TouchedOK
<1>5. EnfOK /\ RecOK /\ ReqOK /\ WorkOK
  BY DEF Init, EnfOK, RecOK, ReqOK, WorkOK, NoVisit, NoRun, NoRequest, Visits, Runs, Served,
     Visiting, Asking
<1>6. OnlyRemoves /\ Visit
  BY DEF Init, OnlyRemoves, Visit, Expiring, NoVisit
<1> QED
  BY <1>2, <1>3, <1>a, <1>4, <1>5, <1>6 DEF IInv, Types

-----------------------------------------------------------------------------
(* Calls, rows and lists of items                                            *)

LEMMA CallTypes ==
    ASSUME Types, NEW i \in Inbounds, NEW new \in SUBSET (Users \X Creds), NEW ok, Call(i, new, ok)
    PROVE  /\ ClientOK' /\ refresh' \in SUBSET Inbounds /\ faults' \in Nat
           /\ client' = client \/ client' = [client EXCEPT ![i] = new]
           /\ ok => client' = [client EXCEPT ![i] = new]
BY DEF Types, Call, ClientOK, AgentsOK, BoundsOK, Fault

LEMMA CredTypes ==
    ASSUME Types, NEW u \in Users, NEW i \in Inbounds, NEW settings,
           NEW c \in Credentials(u, i, settings)
    PROVE  c \in Creds
BY DEF Types, RowOK, Credentials, Has, Fresh

LEMMA SaveTypes ==
    ASSUME Types, NEW u \in Users, NEW i \in Inbounds, NEW c \in Creds, SaveRow(u, i, c)
    PROVE  /\ RowOK'
           /\ \A v \in Users, j \in Inbounds :
                 row[v][j] # None \/ v # u \/ j # i => row'[v][j] = row[v][j]
BY DEF Types, RowOK, SaveRow

LEMMA ReplaceTypes ==
    ASSUME Types, NEW p \in Procs, NEW x, NEW new \in SUBSET TypedItems, Replace(p, x, new)
    PROVE  /\ WorkOK'
           /\ \A q \in Procs : work'[q] = IF q = p THEN (work[p] \ {x}) \cup new ELSE work[q]
BY DEF Types, WorkOK, Replace

LEMMA TouchTypes ==
    ASSUME Types, NEW p, NEW x \in TypedItems, Touch(p, x)
    PROVE  /\ TouchedOK' /\ touched \subseteq touched' /\ touched' \subseteq touched \cup {x.inbound}
           /\ p # "enforcer" /\ x.user = enf.user /\ <<row', client'>> # <<row, client>>
                 => touched' = touched \cup {x.inbound}
<1>1. x.inbound \in Inbounds
  BY ItemFields
<1> QED
  BY <1>1 DEF Types, TouchedOK, Touch

\* A step in which the enforcer does not move: bindings that are not touched
\* can only be taken away.
LEMMA OthersKeep ==
    ASSUME IInv, enf' = enf, touched \subseteq touched', work'["enforcer"] = work["enforcer"],
           \A i \in Inbounds \ touched' :
               enf.user \in Users /\ row'[enf.user][i] # None /\ <<enf.user, row'[enf.user][i]>> \in client'[i]
               => row'[enf.user][i] = row[enf.user][i] /\ <<enf.user, row[enf.user][i]>> \in client[i]
    PROVE  OnlyRemoves' /\ Visit'
<1>1. OnlyRemoves'
  BY DEF IInv, OnlyRemoves, Expiring
<1>2. Visit'
  <2>1. enf.pc \in {"work", "forget"} => enf.user \in Users
    BY DEF IInv, Types, EnfOK, Visiting
  <2>2. ASSUME NEW i \in Inbounds \ touched', enf.pc \in {"work", "forget"}, Delivered(i)'
        PROVE  i \in Inbounds \ touched /\ Delivered(i) /\ row'[enf.user][i] = row[enf.user][i]
    BY <2>1, <2>2 DEF Delivered
  <2>3. ASSUME NEW i \in Inbounds \ touched', Expiring, enf.safe, Delivered(i)'
        PROVE  Owed(i)'
    BY <2>2, <2>3 DEF IInv, Visit, Expiring, Owed, Item
  <2>4. ASSUME NEW i \in Inbounds \ touched', enf.pc = "forget"
        PROVE  ~Delivered(i)'
    BY <2>2, <2>4 DEF IInv, Visit
  <2> QED
    BY <2>3, <2>4 DEF Visit, Expiring
<1> QED
  BY <1>1, <1>2

-----------------------------------------------------------------------------
(* What an item does.  Whoever works on it, types are kept; if it is not the *)
(* enforcer's, no binding appears untouched.                                 *)

\* The item is done or replaced; rows and clients changed as the lemma says.
LEMMA ItemKeeps ==
    ASSUME IInv, NEW p \in Procs, NEW x \in TypedItems, NEW new \in SUBSET TypedItems,
           x \in work[p], x.stage # "remove", Replace(p, x, new),
           RowOK', ClientOK', SnapOK', AgentsOK', BoundsOK', TouchedOK',
           touched \subseteq touched', UNCHANGED <<db, threads>>,
           p # "enforcer" =>
               \A i \in Inbounds \ touched' :
                   enf.user \in Users /\ row'[enf.user][i] # None
                   /\ <<enf.user, row'[enf.user][i]>> \in client'[i]
                   => row'[enf.user][i] = row[enf.user][i] /\ <<enf.user, row[enf.user][i]>> \in client[i]
    PROVE  IInv'
<1>1. WorkOK' /\ \A q \in Procs : work'[q] = IF q = p THEN (work[p] \ {x}) \cup new ELSE work[q]
  BY ReplaceTypes DEF IInv
<1>2. Types'
  BY <1>1 DEF IInv, Types, AccountOK, TablesOK, EnfOK, RecOK, ReqOK, db, threads
<1>3. OnlyRemoves' /\ Visit'
  <2>1. CASE p = "enforcer"
    <3>1. enf' = enf /\ ~(Expiring \/ enf.pc = "forget")
      BY <2>1 DEF IInv, OnlyRemoves, threads
    <3> QED
      BY <3>1 DEF OnlyRemoves, Visit, Expiring
  <2>2. CASE p # "enforcer"
    BY <1>1, <2>2, OthersKeep DEF Procs, threads
  <2> QED
    BY <2>1, <2>2
<1> QED
  BY <1>2, <1>3 DEF IInv

LEMMA CollectKeeps ==
    ASSUME IInv, NEW p \in Procs, NEW x \in work[p], Collect(p, x) PROVE IInv'
<1> DEFINE u == x.user  i == x.inbound
<1>1. x \in TypedItems /\ u \in Users /\ i \in Inbounds /\ Types
  BY ItemFields DEF IInv, Types, WorkOK
<1>2. x.stage = "collect" /\ UNCHANGED <<db, agents, threads, requests, faults>>
  BY DEF Collect
<1>3. ClientOK' /\ SnapOK' /\ AgentsOK' /\ BoundsOK'
  BY <1>1, <1>2 DEF Types, ClientOK, SnapOK, AgentsOK, BoundsOK, agents
<1>4. CASE UNCHANGED <<row, touched>>
  <2>1. PICK new \in SUBSET TypedItems : Replace(p, x, new)
    <3>1. Item(u, i, None, "get") \in TypedItems
      BY <1>1, ItemTypes DEF Stages
    <3>2. ASSUME NEW c \in Credentials(u, i, snap[i]), Replace(p, x, {Item(u, i, c, "batch")})
          PROVE  {Item(u, i, c, "batch")} \in SUBSET TypedItems
      <4>1. c \in Creds
        BY <1>1, CredTypes DEF Types, SnapOK
      <4> QED
        BY <1>1, <4>1, ItemTypes DEF Stages
    <3> QED
      BY <3>1, <3>2 DEF Collect
  <2>2. RowOK' /\ TouchedOK'
    BY <1>1, <1>4 DEF Types, RowOK, TouchedOK
  <2> QED
    BY <1>1, <1>2, <1>3, <1>4, <2>1, <2>2, ItemKeeps DEF agents
<1>5. CASE ~UNCHANGED <<row, touched>>
  <2>1. PICK c \in Credentials(u, i, snap[i]) :
           SaveRow(u, i, c) /\ Replace(p, x, {Item(u, i, c, "batch")}) /\ Touch(p, x)
    BY <1>5 DEF Collect
  <2>2. c \in Creds
    BY <1>1, CredTypes DEF Types, SnapOK
  <2>3. {Item(u, i, c, "batch")} \in SUBSET TypedItems
    BY <1>1, <2>2, ItemTypes DEF Stages
  <2>4. RowOK' /\ \A v \in Users, j \in Inbounds :
                     row[v][j] # None \/ v # u \/ j # i => row'[v][j] = row[v][j]
    BY <1>1, <2>1, <2>2, SaveTypes
  <2>5. /\ TouchedOK' /\ touched \subseteq touched'
        /\ p # "enforcer" /\ x.user = enf.user /\ <<row', client'>> # <<row, client>> => i \in touched'
    BY <1>1, <2>1, TouchTypes
  <2> QED
    BY <1>1, <1>2, <1>3, <2>1, <2>3, <2>4, <2>5, ItemKeeps DEF agents
<1> QED
  BY <1>4, <1>5

\* A client is added, and touched unless it is the enforcer that adds it.
LEMMA AddedIsTouched ==
    ASSUME IInv, NEW p \in Procs, NEW x \in TypedItems, Touch(p, x), p # "enforcer", ClientOK',
           row' = row \/ (\A v \in Users, j \in Inbounds :
                             row[v][j] # None \/ v # x.user \/ j # x.inbound => row'[v][j] = row[v][j]),
           client' = client \/ client' = [client EXCEPT ![x.inbound] = WithClient(x.inbound, x.user, x.cred)]
    PROVE  \A i \in Inbounds \ touched' :
               enf.user \in Users /\ row'[enf.user][i] # None
               /\ <<enf.user, row'[enf.user][i]>> \in client'[i]
               => row'[enf.user][i] = row[enf.user][i] /\ <<enf.user, row[enf.user][i]>> \in client[i]
<1> SUFFICES ASSUME NEW i \in Inbounds \ touched', enf.user \in Users,
                    <<enf.user, row'[enf.user][i]>> \in client'[i]
             PROVE  row'[enf.user][i] = row[enf.user][i] /\ <<enf.user, row[enf.user][i]>> \in client[i]
  OBVIOUS
<1>1. x.inbound \in Inbounds /\ client \in [Inbounds -> SUBSET (Users \X Creds)]
  BY ItemFields DEF IInv, Types, ClientOK
<1>2. x.user = enf.user /\ <<row', client'>> # <<row, client>> => i # x.inbound
  BY TouchTypes DEF IInv
<1>3. row'[enf.user][i] = row[enf.user][i]
  BY <1>2
<1>4. client'[i] = client[i] \/ (i = x.inbound /\ client'[i] = client[i] \cup {<<x.user, x.cred>>})
  BY <1>1 DEF WithClient
<1>5. CASE x.user = enf.user /\ i = x.inbound
  BY <1>2, <1>3, <1>5
<1>6. CASE ~(x.user = enf.user /\ i = x.inbound)
  BY <1>3, <1>4, <1>6
<1> QED
  BY <1>5, <1>6

LEMMA WithClientTypes ==
    ASSUME Types, NEW x \in TypedItems, x.cred \in Creds
    PROVE  WithClient(x.inbound, x.user, x.cred) \in SUBSET (Users \X Creds)
BY ItemFields DEF Types, ClientOK, WithClient

LEMMA BatchKeeps ==
    ASSUME IInv, NEW p \in Procs, NEW x \in work[p], Batch(p, x) PROVE IInv'
<1> DEFINE u == x.user  i == x.inbound
<1>1. x \in TypedItems /\ Types /\ x.stage = "batch"
  BY DEF IInv, Types, WorkOK, Batch
<1>2. u \in Users /\ i \in Inbounds /\ x.cred \in Creds
  BY <1>1, ItemFields
<1>3. Touch(p, x) /\ UNCHANGED <<db, row, snap, online, threads, requests>>
  BY DEF Batch
<1>4. PICK ok \in BOOLEAN :
         /\ Call(i, WithClient(i, u, x.cred), ok)
         /\ Replace(p, x, {IF ok THEN Item(u, i, x.cred, "save") ELSE Item(u, i, None, "get")})
  BY DEF Batch
<1>5. /\ ClientOK' /\ refresh' \in SUBSET Inbounds /\ faults' \in Nat
      /\ client' = client \/ client' = [client EXCEPT ![i] = WithClient(i, u, x.cred)]
  BY <1>1, <1>2, <1>4, CallTypes, WithClientTypes
<1>6. PICK new \in SUBSET TypedItems : Replace(p, x, new)
  <2>1. Item(u, i, x.cred, "save") \in TypedItems /\ Item(u, i, None, "get") \in TypedItems
    BY <1>2, ItemTypes DEF Stages
  <2> QED
    BY <1>4, <2>1
<1>7. RowOK' /\ SnapOK' /\ AgentsOK' /\ BoundsOK'
  BY <1>1, <1>3, <1>5 DEF Types, RowOK, SnapOK, AgentsOK, BoundsOK
<1>8. TouchedOK' /\ touched \subseteq touched'
  BY <1>1, <1>3, TouchTypes
<1> QED
  BY <1>1, <1>3, <1>5, <1>6, <1>7, <1>8, ItemKeeps, AddedIsTouched

LEMMA BatchRefusedKeeps ==
    ASSUME IInv, NEW p \in Procs, NEW x \in work[p], BatchRefused(p, x) PROVE IInv'
<1>1. x \in TypedItems /\ Types /\ x.inbound \in Inbounds
  BY ItemFields DEF IInv, Types, WorkOK
<1>2. /\ x.stage = "batch" /\ Fault /\ Replace(p, x, {})
      /\ refresh' = refresh \cup {x.inbound}
      /\ UNCHANGED <<db, row, client, snap, online, threads, requests, touched>>
  BY DEF BatchRefused
<1>3. RowOK' /\ ClientOK' /\ SnapOK' /\ AgentsOK' /\ BoundsOK' /\ TouchedOK'
  BY <1>1, <1>2 DEF Types, RowOK, ClientOK, SnapOK, AgentsOK, BoundsOK, TouchedOK, Fault
<1> QED
  BY <1>1, <1>2, <1>3, ItemKeeps

\* A credential is written to the row, and the item goes on or is done.
LEMMA SavedKeeps ==
    ASSUME IInv, NEW p \in Procs, NEW x \in work[p], NEW c \in Creds,
           NEW new \in SUBSET TypedItems, x.stage # "remove",
           SaveRow(x.user, x.inbound, c), Replace(p, x, new), Touch(p, x),
           UNCHANGED <<db, agents, threads, requests, faults>>
    PROVE  IInv'
<1>1. x \in TypedItems /\ x.user \in Users /\ x.inbound \in Inbounds /\ Types
  BY ItemFields DEF IInv, Types, WorkOK
<1>2. RowOK' /\ \A v \in Users, j \in Inbounds :
                   row[v][j] # None \/ v # x.user \/ j # x.inbound => row'[v][j] = row[v][j]
  BY <1>1, SaveTypes
<1>3. ClientOK' /\ SnapOK' /\ AgentsOK' /\ BoundsOK' /\ client' = client
  BY <1>1 DEF Types, ClientOK, SnapOK, AgentsOK, BoundsOK, agents
<1>4. TouchedOK' /\ touched \subseteq touched'
  BY <1>1, TouchTypes
<1> QED
  BY <1>1, <1>2, <1>3, <1>4, ItemKeeps, AddedIsTouched

LEMMA SaveKeeps ==
    ASSUME IInv, NEW p \in Procs, NEW x \in work[p], Save(p, x) PROVE IInv'
<1>1. x \in TypedItems /\ x.stage = "save" /\ x.cred \in Creds
  BY ItemFields DEF IInv, Types, WorkOK, Save
<1> QED
  BY <1>1, SavedKeeps DEF Save

LEMMA GetKeeps ==
    ASSUME IInv, NEW p \in Procs, NEW x \in work[p], Get(p, x) PROVE IInv'
<1> DEFINE u == x.user  i == x.inbound
<1>1. x \in TypedItems /\ u \in Users /\ i \in Inbounds /\ Types
  BY ItemFields DEF IInv, Types, WorkOK
<1>2. x.stage = "get" /\ UNCHANGED <<db, row, agents, threads, requests, touched>>
  BY DEF Get
<1>3. PICK new \in SUBSET TypedItems : Replace(p, x, new)
  <2>1. ASSUME NEW c \in Creds \cup {None} PROVE Item(u, i, c, "create") \in TypedItems
    BY <1>1, ItemTypes DEF Stages
  <2>2. \/ Replace(p, x, {})
        \/ \E c \in Creds \cup {None} : Replace(p, x, {Item(u, i, c, "create")})
    BY DEF Get
  <2> QED
    BY <2>1, <2>2
<1>4. faults' = faults \/ Fault
  BY DEF Get
<1>5. RowOK' /\ ClientOK' /\ SnapOK' /\ AgentsOK' /\ BoundsOK' /\ TouchedOK' /\ client' = client
  BY <1>1, <1>2, <1>4
     DEF Types, RowOK, ClientOK, SnapOK, AgentsOK, BoundsOK, TouchedOK, agents, Fault
<1> QED
  BY <1>1, <1>2, <1>3, <1>5, ItemKeeps

LEMMA CreateKeeps ==
    ASSUME IInv, NEW p \in Procs, NEW x \in work[p], Create(p, x) PROVE IInv'
<1> DEFINE u == x.user  i == x.inbound
<1>1. x \in TypedItems /\ u \in Users /\ i \in Inbounds /\ Types /\ x.stage = "create"
  BY ItemFields DEF IInv, Types, WorkOK, Create
<1>2. PICK c \in Credentials(u, i, {<<u, x.cred>>}) :
         SaveRow(u, i, c) /\ Replace(p, x, {Item(u, i, c, "post")})
  BY DEF Create
<1>3. c \in Creds
  BY <1>1, CredTypes
<1>4. {Item(u, i, c, "post")} \in SUBSET TypedItems
  BY <1>1, <1>3, ItemTypes DEF Stages
<1> QED
  BY <1>1, <1>2, <1>3, <1>4, SavedKeeps DEF Create

LEMMA PostKeeps ==
    ASSUME IInv, NEW p \in Procs, NEW x \in work[p], Post(p, x) PROVE IInv'
<1> DEFINE u == x.user  i == x.inbound
<1>1. x \in TypedItems /\ Types /\ x.stage = "post"
  BY DEF IInv, Types, WorkOK, Post
<1>2. u \in Users /\ i \in Inbounds /\ x.cred \in Creds
  BY <1>1, ItemFields
<1>3. /\ Touch(p, x) /\ Replace(p, x, {})
      /\ UNCHANGED <<db, row, snap, online, threads, requests>>
  BY DEF Post
<1>4. PICK ok \in BOOLEAN : Call(i, WithClient(i, u, x.cred), ok)
  BY DEF Post
<1>5. /\ ClientOK' /\ refresh' \in SUBSET Inbounds /\ faults' \in Nat
      /\ client' = client \/ client' = [client EXCEPT ![i] = WithClient(i, u, x.cred)]
  BY <1>1, <1>2, <1>4, CallTypes, WithClientTypes
<1>6. RowOK' /\ SnapOK' /\ AgentsOK' /\ BoundsOK'
  BY <1>1, <1>3, <1>5 DEF Types, RowOK, SnapOK, AgentsOK, BoundsOK
<1>7. TouchedOK' /\ touched \subseteq touched'
  BY <1>1, <1>3, TouchTypes
<1> QED
  BY <1>1, <1>3, <1>5, <1>6, <1>7, ItemKeeps, AddedIsTouched

\* The items that take clients away: of the handlers, the cleaner and the enforcer.
LEMMA TakenAway ==
    ASSUME ClientOK, NEW i \in Inbounds, NEW gone \in SUBSET client[i],
           client' = client \/ client' = [client EXCEPT ![i] = gone]
    PROVE  \A j \in Inbounds : client'[j] \subseteq client[j]
BY DEF ClientOK

LEMMA GoneTypes ==
    ASSUME Types, NEW x \in TypedItems
    PROVE  /\ WithoutClient(x.inbound, x.user, x.cred) \in SUBSET client[x.inbound]
           /\ WithoutEmail(x.inbound, x.user) \in SUBSET client[x.inbound]
           /\ client[x.inbound] \in SUBSET (Users \X Creds)
BY ItemFields DEF WithoutClient, WithoutEmail, Types, ClientOK

LEMMA AwayKeeps ==
    ASSUME IInv, NEW p \in Procs, NEW x \in work[p], NEW new \in SUBSET TypedItems,
           NEW gone \in SUBSET client[x.inbound], NEW ok \in BOOLEAN,
           x.stage # "remove", Replace(p, x, new), Call(x.inbound, gone, ok),
           UNCHANGED <<db, row, snap, online, threads, requests, touched>>
    PROVE  IInv'
<1>1. x \in TypedItems /\ Types /\ x.inbound \in Inbounds
  BY ItemFields DEF IInv, Types, WorkOK
<1>2. gone \in SUBSET (Users \X Creds)
  BY <1>1, GoneTypes
<1>3. /\ ClientOK' /\ refresh' \in SUBSET Inbounds /\ faults' \in Nat
      /\ client' = client \/ client' = [client EXCEPT ![x.inbound] = gone]
  BY <1>1, <1>2, CallTypes
<1>4. \A j \in Inbounds : client'[j] \subseteq client[j]
  BY <1>1, <1>3, TakenAway DEF Types
<1>5. RowOK' /\ SnapOK' /\ AgentsOK' /\ BoundsOK' /\ TouchedOK'
  BY <1>1, <1>3 DEF Types, RowOK, SnapOK, AgentsOK, BoundsOK, TouchedOK
<1> QED
  BY <1>1, <1>3, <1>4, <1>5, ItemKeeps

LEMMA RemoveNodeKeeps ==
    ASSUME IInv, NEW p \in Procs, NEW x \in work[p], RemoveNode(p, x) PROVE IInv'
<1>1. x \in TypedItems /\ Types /\ x.stage = "removeNode"
  BY DEF IInv, Types, WorkOK, RemoveNode
<1>2. PICK ok \in BOOLEAN :
         /\ Call(x.inbound, WithoutClient(x.inbound, x.user, x.cred), ok)
         /\ Replace(p, x, IF ok THEN {[x EXCEPT !.stage = "drop"]} ELSE {})
  BY DEF RemoveNode
<1>3. [x EXCEPT !.stage = "drop"] \in TypedItems
  <2>1. x \in Items
    BY <1>1 DEF TypedItems
  <2>2. [x EXCEPT !.stage = "drop"] \in Items /\ [x EXCEPT !.stage = "drop"].stage = "drop"
    BY <2>1 DEF Items, Stages
  <2> QED
    BY <2>2 DEF TypedItems
<1>4. PICK new \in SUBSET TypedItems : Replace(p, x, new)
  BY <1>2, <1>3
<1>5. UNCHANGED <<db, row, snap, online, threads, requests, touched>>
  BY DEF RemoveNode
<1> QED
  BY <1>1, <1>2, <1>4, <1>5, GoneTypes, AwayKeeps

LEMMA PurgeKeeps ==
    ASSUME IInv, NEW p \in Procs, NEW x \in work[p], Purge(p, x) PROVE IInv'
<1>1. x \in TypedItems /\ Types /\ x.stage = "purge" /\ Replace(p, x, {})
  BY DEF IInv, Types, WorkOK, Purge
<1>2. PICK ok \in BOOLEAN : Call(x.inbound, WithoutEmail(x.inbound, x.user), ok)
  BY DEF Purge
<1>3. UNCHANGED <<db, row, snap, online, threads, requests, touched>>
  BY DEF Purge
<1> QED
  BY <1>1, <1>2, <1>3, GoneTypes, AwayKeeps

LEMMA DropRowKeeps ==
    ASSUME IInv, NEW p \in Procs, NEW x \in work[p], DropRow(p, x) PROVE IInv'
<1>1. x \in TypedItems /\ Types /\ x.stage = "drop" /\ Replace(p, x, {})
  BY DEF IInv, Types, WorkOK, DropRow
<1>2. /\ row' = [row EXCEPT ![x.user][x.inbound] = None]
      /\ UNCHANGED <<db, agents, threads, requests, faults, touched>>
  BY DEF DropRow
<1>3. RowOK' /\ \A v \in Users, j \in Inbounds : row'[v][j] \in {row[v][j], None}
  BY <1>1, <1>2, ItemFields DEF Types, RowOK
<1>4. ClientOK' /\ SnapOK' /\ AgentsOK' /\ BoundsOK' /\ TouchedOK'
  BY <1>1, <1>2 DEF Types, ClientOK, SnapOK, AgentsOK, BoundsOK, TouchedOK, agents
<1>5. client' = client
  BY <1>2 DEF agents
<1> QED
  BY <1>1, <1>2, <1>3, <1>4, <1>5, ItemKeeps

\* A removal by the enforcer that fails is remembered.
LEMMA RemoveKeeps ==
    ASSUME IInv, NEW p \in Procs, NEW x \in work[p], Remove(p, x) PROVE IInv'
<1> DEFINE u == x.user  i == x.inbound
<1>1. x \in TypedItems /\ Types /\ i \in Inbounds /\ x.stage = "remove"
  BY ItemFields DEF IInv, Types, WorkOK, Remove
<1>2. Replace(p, x, {}) /\ UNCHANGED <<db, row, snap, online, rec, req, requests, touched>>
  BY DEF Remove
<1>3. PICK ok \in BOOLEAN :
         /\ Call(i, WithoutClient(i, u, x.cred), ok)
         /\ enf' = IF p = "enforcer" /\ ~ok THEN [enf EXCEPT !.safe = FALSE] ELSE enf
  BY DEF Remove
<1>4. /\ WithoutClient(i, u, x.cred) \in SUBSET client[i]
      /\ WithoutClient(i, u, x.cred) \in SUBSET (Users \X Creds)
  BY <1>1, GoneTypes
<1>5. /\ ClientOK' /\ refresh' \in SUBSET Inbounds /\ faults' \in Nat
      /\ client' = client \/ client' = [client EXCEPT ![i] = WithoutClient(i, u, x.cred)]
      /\ ok => client' = [client EXCEPT ![i] = WithoutClient(i, u, x.cred)]
  BY <1>1, <1>3, <1>4, CallTypes
<1>6. \A j \in Inbounds : client'[j] \subseteq client[j]
  <2>1. ClientOK
    BY <1>1 DEF Types
  <2>2. PICK gone \in SUBSET client[i] : gone = WithoutClient(i, u, x.cred)
    BY <1>4
  <2>3. client' = client \/ client' = [client EXCEPT ![i] = gone]
    BY <1>5, <2>2
  <2> QED
    BY <1>1, <2>1, <2>3, TakenAway
<1>7. WorkOK' /\ \A q \in Procs : work'[q] = IF q = p THEN work[p] \ {x} ELSE work[q]
  <2>1. {} \in SUBSET TypedItems
    OBVIOUS
  <2>2. WorkOK' /\ \A q \in Procs : work'[q] = IF q = p THEN (work[p] \ {x}) \cup {} ELSE work[q]
    BY <1>1, <1>2, <2>1, ReplaceTypes
  <2> QED
    BY <2>2
<1>8. EnfOK'
  <2>1. ASSUME NEW v \in Visits, Visiting(v)
        PROVE  [v EXCEPT !.safe = FALSE] \in Visits /\ Visiting([v EXCEPT !.safe = FALSE])
    BY <2>1 DEF Visits, Visiting
  <2> QED
    BY <1>1, <1>3, <2>1 DEF Types, EnfOK
<1>9. Types'
  BY <1>1, <1>2, <1>5, <1>7, <1>8 DEF Types, AccountOK, TablesOK, RowOK, SnapOK, AgentsOK, RecOK, ReqOK,
     BoundsOK, TouchedOK, db
<1>10. enf'.pc = enf.pc /\ enf'.why = enf.why /\ enf'.user = enf.user /\ (enf'.safe => enf.safe)
       /\ (p = "enforcer" /\ ~ok => ~enf'.safe)
  BY <1>1, <1>3 DEF Types, EnfOK, Visits
<1>11. OnlyRemoves'
  BY <1>7, <1>10 DEF IInv, OnlyRemoves, Expiring, Procs
<1>12. Visit'
  <2>1. enf.pc \in {"work", "forget"} => enf.user \in Users
    BY <1>1 DEF Types, EnfOK, Visiting
  <2>2. ASSUME NEW j \in Inbounds, enf.pc \in {"work", "forget"}, Delivered(j)' PROVE Delivered(j)
    BY <1>2, <1>6, <1>10, <2>2 DEF Delivered
  <2>3. ASSUME NEW j \in Inbounds \ touched', Expiring', enf'.safe, Delivered(j)' PROVE Owed(j)'
    <3>1. Delivered(j) /\ Owed(j)
      BY <1>2, <1>10, <2>2, <2>3 DEF Expiring, IInv, Visit
    <3>2. Owed(j)' <=> Item(enf.user, j, row[enf.user][j], "remove") \in work'["enforcer"]
      BY <1>2, <1>10 DEF Owed, Item
    <3>3. CASE p # "enforcer" \/ x # Item(enf.user, j, row[enf.user][j], "remove")
      BY <1>7, <3>1, <3>2, <3>3 DEF Owed, Procs
    <3>4. CASE p = "enforcer" /\ x = Item(enf.user, j, row[enf.user][j], "remove")
      <4>1. ok
        BY <1>10, <2>3, <3>4
      <4>2. u = enf.user /\ i = j /\ x.cred = row[enf.user][j]
        BY <3>4 DEF Item
      <4>3. client'[j] = client[j] \ {<<enf.user, row[enf.user][j]>>}
        BY <1>1, <1>5, <4>1, <4>2 DEF WithoutClient, Types, ClientOK
      <4> QED
        BY <1>2, <1>10, <2>3, <4>3 DEF Delivered
    <3> QED
      BY <3>3, <3>4
  <2>4. ASSUME NEW j \in Inbounds \ touched', enf'.pc = "forget" PROVE ~Delivered(j)'
    BY <1>2, <1>10, <2>2, <2>4 DEF IInv, Visit
  <2> QED
    BY <2>3, <2>4 DEF Visit
<1> QED
  BY <1>9, <1>11, <1>12 DEF IInv

LEMMA WorkKeeps == ASSUME IInv, NEW p \in Procs, WorkOn(p) PROVE IInv'
BY CollectKeeps, BatchKeeps, BatchRefusedKeeps, SaveKeeps, GetKeeps, CreateKeeps, PostKeeps,
   RemoveKeeps, RemoveNodeKeeps, DropRowKeeps, PurgeKeeps DEF WorkOn

-----------------------------------------------------------------------------
(* The enforcer                                                              *)

LEMMA VisitTypes ==
    ASSUME NEW v \in Visits, Visiting(v)
    PROVE  /\ \A pc \in {"idle", "next", "reset", "check", "work", "forget", "unbind"},
                 why \in {"none", "expire", "cut", "restore", "giveBack"} :
                 v.user \in Users =>
                     /\ [v EXCEPT !.pc = pc] \in Visits /\ Visiting([v EXCEPT !.pc = pc])
                     /\ [v EXCEPT !.pc = pc, !.why = why] \in Visits
                     /\ Visiting([v EXCEPT !.pc = pc, !.why = why])
           /\ v.pc \notin {"idle", "next"} => v.user \in Users
BY DEF Visits, Visiting

\* The enforcer moves on and is neither taking an expired user's clients away
\* nor about to forget the rows.
LEMMA MovesOn ==
    ASSUME IInv, Types', ~(Expiring' \/ enf'.pc = "forget")
    PROVE  IInv'
BY DEF IInv, OnlyRemoves, Visit

LEMMA NoVisitTypes == NoVisit \in Visits /\ Visiting(NoVisit) /\ NoVisit.pc = "idle"
BY ProvisioningAssumption DEF NoVisit, Visits, Visiting

LEMMA ListsKeeps == ASSUME IInv, EnforcerLists PROVE IInv'
<1> DEFINE listed == {Listed(u) : u \in {v \in Users : Bound(v)}}
           new == [NoVisit EXCEPT !.pc = "next", !.listed = listed]
<1>1. /\ enf' = new
      /\ UNCHANGED <<db, row, agents, rec, req, work, requests, faults, touched>>
  BY DEF EnforcerLists
<1>2. listed \in SUBSET Lists
  <2> SUFFICES ASSUME NEW u \in Users, Bound(u) PROVE Listed(u) \in Lists
    OBVIOUS
  <2>1. account[u] \in Accounts
    BY DEF IInv, Types, AccountOK
  <2> QED
    BY <2>1 DEF Bound, Listed, Lists, Accounts
<1>3. new \in Visits /\ Visiting(new) /\ new.pc = "next"
  <2>1. ASSUME NEW v \in Visits, NEW l \in SUBSET Lists
        PROVE  /\ [v EXCEPT !.pc = "next", !.listed = l] \in Visits
               /\ [v EXCEPT !.pc = "next", !.listed = l].pc = "next"
    BY DEF Visits
  <2> QED
    BY <1>2, <2>1, NoVisitTypes DEF Visiting
<1> HIDE DEF new
<1>4. Types'
  BY <1>1, <1>3 DEF IInv, Types, AccountOK, TablesOK, RowOK, ClientOK, SnapOK, AgentsOK, EnfOK, RecOK,
     ReqOK, WorkOK, BoundsOK, TouchedOK, db, agents
<1> QED
  BY <1>1, <1>3, <1>4, MovesOn DEF Expiring

LEMMA EndsKeeps == ASSUME IInv, EnforcerEnds PROVE IInv'
<1>1. /\ enf' = NoVisit /\ touched' = {}
      /\ UNCHANGED <<db, row, agents, rec, req, work, requests, faults>>
  BY DEF EnforcerEnds
<1>2. Types'
  BY <1>1, NoVisitTypes DEF IInv, Types, AccountOK, TablesOK, RowOK, ClientOK, SnapOK, AgentsOK, EnfOK,
     RecOK, ReqOK, WorkOK, BoundsOK, TouchedOK, db, agents
<1> QED
  BY <1>1, <1>2, NoVisitTypes, MovesOn DEF Expiring

LEMMA VisitBegins ==
    ASSUME NEW v \in Visits, NEW ls \in SUBSET Lists, NEW u \in Users, NEW limit \in Limits,
           NEW pc \in {"work", "reset"}, NEW why \in {"expire", "none"}
    PROVE  [v EXCEPT !.listed = ls, !.user = u, !.limit = limit, !.safe = TRUE, !.pc = pc, !.why = why]
               \in Visits
BY DEF Visits

LEMMA VisitsKeeps == ASSUME IInv, NEW l \in enf.listed, EnforcerVisits(l) PROVE IInv'
<1>1. l \in Lists /\ enf \in Visits
  BY DEF IInv, Types, EnfOK, Visits
<1>2. l.user \in Users /\ l.ended \in BOOLEAN /\ l.limit \in Limits
  BY <1>1 DEF Lists
<1>3. /\ work' = [work EXCEPT !["enforcer"] = IF l.ended THEN RowItems(l.user, "remove") ELSE {}]
      /\ touched' = {}
      /\ UNCHANGED <<db, row, agents, rec, req, requests, faults>>
  BY DEF EnforcerVisits
<1> DEFINE pc == IF l.ended THEN "work" ELSE "reset"
           why == IF l.ended THEN "expire" ELSE "none"
           new(limit) == [enf EXCEPT !.listed = @ \ {l}, !.user = l.user, !.limit = limit, !.safe = TRUE,
                                     !.pc = pc, !.why = why]
<1>4. PICK limit \in Limits : enf' = new(limit)
  <2>1. PICK limit \in {l.limit} \cup {account[u].limit : u \in {v \in {l.user} : account[v].pkg = l.pkg}} :
           enf' = new(limit)
    BY DEF EnforcerVisits
  <2>2. account[l.user].limit \in Limits
    BY <1>2 DEF IInv, Types, AccountOK, Accounts
  <2> QED
    BY <1>2, <2>1, <2>2
<1>5. pc \in {"work", "reset"} /\ why \in {"expire", "none"} /\ (pc = "work" => l.ended) /\ pc # "forget"
  OBVIOUS
<1> HIDE DEF pc, why
<1>6. /\ new(limit) \in Visits
      /\ new(limit).pc = pc /\ new(limit).user = l.user
  <2>1. enf.listed \ {l} \in SUBSET Lists
    BY <1>1 DEF Visits
  <2> DEFINE ls == enf.listed \ {l}
             v  == [enf EXCEPT !.listed = ls, !.user = l.user, !.limit = limit, !.safe = TRUE,
                               !.pc = pc, !.why = why]
  <2>3. new(limit) = v
    OBVIOUS
  <2> HIDE DEF new, ls
  <2>4. ls \in SUBSET Lists
    BY <2>1 DEF ls
  <2>5. v \in Visits
    BY <1>1, <1>2, <1>5, <2>4, VisitBegins
  <2>6. v.pc = pc /\ v.user = l.user
    BY <1>1 DEF Visits
  <2> QED
    BY <2>3, <2>5, <2>6
<1> HIDE DEF new
<1>7. EnfOK'
  BY <1>2, <1>4, <1>6 DEF EnfOK, Visiting
<1>8. RowItems(l.user, "remove") \in SUBSET TypedItems
  <2>1. RowOK /\ "remove" \in Stages
    BY DEF IInv, Types, Stages
  <2> QED
    BY <1>2, <2>1, RowItemTypes
<1>9. WorkOK' /\ work'["enforcer"] = IF l.ended THEN RowItems(l.user, "remove") ELSE {}
  BY <1>3, <1>8 DEF IInv, Types, WorkOK, Procs
<1>10. Types'
  BY <1>3, <1>7, <1>9 DEF IInv, Types, AccountOK, TablesOK, RowOK, ClientOK, SnapOK, AgentsOK, RecOK,
     ReqOK, BoundsOK, TouchedOK, db, agents
<1>11. enf'.pc = pc /\ enf'.user = l.user
  BY <1>4, <1>6
<1>12. OnlyRemoves'
  BY <1>5, <1>9, <1>11 DEF OnlyRemoves, Expiring, RowItems, Item
<1>13. Visit'
  <2>1. ASSUME NEW i \in Inbounds, Expiring', Delivered(i)' PROVE Owed(i)'
    BY <1>3, <1>5, <1>9, <1>11, <2>1 DEF Expiring, Delivered, Owed, RowItems, Item
  <2> QED
    BY <1>5, <1>11, <2>1 DEF Visit
<1> QED
  BY <1>10, <1>12, <1>13 DEF IInv

LEMMA ResetsKeeps == ASSUME IInv, EnforcerResets PROVE IInv'
<1> DEFINE u == enf.user
           check == [enf EXCEPT !.pc = "check"]
           back  == [enf EXCEPT !.pc = "work", !.why = "giveBack"]
<1>1. enf \in Visits /\ Visiting(enf) /\ u \in Users
  BY DEF IInv, Types, EnfOK, Visiting, EnforcerResets
<1>2. UNCHANGED <<account, nodes, row, agents, rec, req, requests, touched>>
  BY DEF EnforcerResets
<1>3. check \in Visits /\ Visiting(check) /\ back \in Visits /\ Visiting(back)
  BY <1>1, VisitTypes
<1>4. check.pc = "check" /\ back.why = "giveBack" /\ back.pc = "work"
  BY <1>1 DEF Visits
<1>5. \/ enf' = check /\ work' = work
      \/ enf' = back /\ work' = [work EXCEPT !["enforcer"] = RowItems(u, "get")]
  BY DEF EnforcerResets
<1> HIDE DEF check, back
<1>6. WorkOK'
  <2>1. RowOK /\ "get" \in Stages /\ WorkOK
    BY DEF IInv, Types, Stages
  <2>2. RowItems(u, "get") \in SUBSET TypedItems
    BY <1>1, <2>1, RowItemTypes
  <2> QED
    BY <1>5, <2>1, <2>2 DEF WorkOK
<1>7. TablesOK' /\ faults' \in Nat
  <2>1. used' = used \/ used' = [used EXCEPT ![u] = 0]
    BY DEF EnforcerResets
  <2>2. due' \subseteq due /\ (faults' = faults \/ Fault)
    BY DEF EnforcerResets
  <2> QED
    BY <1>2, <2>1, <2>2 DEF IInv, Types, TablesOK, BoundsOK, Fault
<1>8. EnfOK' /\ ~(Expiring' \/ enf'.pc = "forget")
  BY <1>3, <1>4, <1>5 DEF EnfOK, Expiring
<1>9. Types'
  BY <1>2, <1>6, <1>7, <1>8 DEF IInv, Types, AccountOK, RowOK, ClientOK, SnapOK, AgentsOK, RecOK,
     ReqOK, BoundsOK, TouchedOK, agents
<1> QED
  BY <1>8, <1>9, MovesOn

LEMMA ChecksKeeps == ASSUME IInv, EnforcerChecks PROVE IInv'
<1> DEFINE u == enf.user
           why == IF Over(u, enf.limit) THEN "cut" ELSE "restore"
           next  == [enf EXCEPT !.pc = "next"]
           turn  == [enf EXCEPT !.pc = "work", !.why = why]
           items == RowItems(u, IF Over(u, enf.limit) THEN "remove" ELSE "get")
<1>1. enf \in Visits /\ Visiting(enf) /\ u \in Users
  BY DEF IInv, Types, EnfOK, Visiting, EnforcerChecks
<1>2. UNCHANGED <<db, row, agents, rec, req, requests, faults, touched>>
  BY DEF EnforcerChecks
<1>3. \/ enf' = next /\ work' = work
      \/ enf' = turn /\ work' = [work EXCEPT !["enforcer"] = items]
  BY DEF EnforcerChecks
<1>4. next \in Visits /\ Visiting(next) /\ next.pc = "next"
  <2>1. next.pc = "next"
    BY <1>1 DEF Visits
  <2> QED
    BY <1>1, <2>1, VisitTypes
<1>5. why \in {"cut", "restore"}
  OBVIOUS
<1>6. items \in SUBSET TypedItems
  <2>1. RowOK /\ "remove" \in Stages /\ "get" \in Stages
    BY DEF IInv, Types, Stages
  <2> QED
    BY <1>1, <2>1, RowItemTypes
<1> HIDE DEF why, items
<1>7. turn \in Visits /\ Visiting(turn) /\ turn.why # "expire" /\ turn.pc = "work"
  <2>1. turn.why = why /\ turn.pc = "work"
    BY <1>1 DEF Visits
  <2> QED
    BY <1>1, <1>5, <2>1, VisitTypes
<1> HIDE DEF next, turn
<1>8. WorkOK'
  BY <1>3, <1>6 DEF IInv, Types, WorkOK
<1>9. EnfOK' /\ ~(Expiring' \/ enf'.pc = "forget")
  BY <1>3, <1>4, <1>7 DEF EnfOK, Expiring
<1>10. Types'
  BY <1>2, <1>8, <1>9 DEF IInv, Types, AccountOK, TablesOK, RowOK, ClientOK, SnapOK, AgentsOK, RecOK,
     ReqOK, BoundsOK, TouchedOK, db, agents
<1> QED
  BY <1>9, <1>10, MovesOn

LEMMA ConcludesKeeps == ASSUME IInv, EnforcerConcludes PROVE IInv'
<1> DEFINE pc == CASE enf.why = "expire" -> AfterExpiry
                   [] enf.why = "giveBack" -> "check"
                   [] OTHER -> "next"
           new == [enf EXCEPT !.pc = pc]
<1>1. /\ enf' = new /\ enf.pc = "work" /\ work["enforcer"] = {}
      /\ UNCHANGED <<used, due, nodes, row, agents, rec, req, work, requests, faults, touched>>
  BY DEF EnforcerConcludes
<1>2. enf \in Visits /\ Visiting(enf) /\ enf.user \in Users
  BY <1>1 DEF IInv, Types, EnfOK, Visiting
<1>3. pc \in {"forget", "next", "check"} /\ (pc = "forget" => enf.why = "expire" /\ enf.safe)
  BY DEF AfterExpiry
<1>4. AccountOK'
  <2>1. account' = account \/ account' = [account EXCEPT ![enf.user].flag = (enf.why = "cut")]
    BY DEF EnforcerConcludes, SetFlag
  <2>2. account[enf.user] \in Accounts /\ (enf.why = "cut") \in BOOLEAN
    BY <1>2 DEF IInv, Types, AccountOK
  <2>3. [account[enf.user] EXCEPT !.flag = (enf.why = "cut")] \in Accounts
    BY <2>2, AccountField
  <2> QED
    BY <2>1, <2>3 DEF IInv, Types, AccountOK
<1> HIDE DEF pc
<1>5. new.pc = pc /\ new.user = enf.user
  BY <1>2 DEF Visits
<1>a. new \in Visits /\ Visiting(new)
  BY <1>2, <1>3, VisitTypes
<1> HIDE DEF new
<1>6. Types'
  BY <1>1, <1>4, <1>a DEF IInv, Types, TablesOK, RowOK, ClientOK, SnapOK, AgentsOK, EnfOK, RecOK,
     ReqOK, WorkOK, BoundsOK, TouchedOK, agents
<1>7. OnlyRemoves'
  BY <1>1 DEF OnlyRemoves
<1>8. Visit'
  <2>1. ~Expiring'
    BY <1>1, <1>3, <1>5 DEF Expiring
  <2>2. ASSUME NEW i \in Inbounds \ touched', enf'.pc = "forget" PROVE ~Delivered(i)'
    <3>1. Expiring /\ enf.safe /\ ~Owed(i)
      BY <1>1, <1>3, <1>5, <2>2 DEF Expiring, Owed
    <3>2. ~Delivered(i)
      BY <1>1, <3>1 DEF IInv, Visit
    <3> QED
      BY <1>1, <1>5, <3>2 DEF Delivered, agents
  <2> QED
    BY <2>1, <2>2 DEF Visit
<1> QED
  BY <1>6, <1>7, <1>8 DEF IInv

LEMMA RowsGone ==
    ASSUME RowOK, NEW u, DeleteRows(u)
    PROVE  RowOK' /\ \A v \in Users, i \in Inbounds : row'[v][i] \in {row[v][i], None}
BY DEF RowOK, DeleteRows

LEMMA PackageGone ==
    ASSUME AccountOK, due \in SUBSET Users, NEW u \in Users, RemovePackage(u)
    PROVE  AccountOK' /\ due' \in SUBSET Users
<1>1. None \in Packages \cup {None} /\ 0 \in Limits
  BY ProvisioningAssumption
<1>2. account' = [account EXCEPT ![u] = [account[u] EXCEPT !.pkg = None, !.ended = FALSE, !.limit = 0]]
  BY DEF RemovePackage
<1>3. account[u] \in Accounts
  BY DEF AccountOK
<1>4. [account[u] EXCEPT !.pkg = None, !.ended = FALSE, !.limit = 0] \in Accounts
  BY <1>1, <1>3, AccountField
<1> QED
  BY <1>2, <1>4 DEF AccountOK, RemovePackage

LEMMA ForgetsKeeps == ASSUME IInv, EnforcerForgets PROVE IInv'
<1> DEFINE new == [enf EXCEPT !.pc = "unbind"]
<1>1. /\ enf' = new /\ DeleteRows(enf.user)
      /\ UNCHANGED <<db, agents, rec, req, work, requests, faults, touched>>
  BY DEF EnforcerForgets
<1>2. enf \in Visits /\ Visiting(enf) /\ enf.user \in Users
  BY DEF IInv, Types, EnfOK, Visiting, EnforcerForgets
<1>3. new.pc = "unbind"
  BY <1>2 DEF Visits
<1>4. new \in Visits /\ Visiting(new)
  BY <1>2, VisitTypes
<1> HIDE DEF new
<1>5. RowOK'
  BY <1>1, RowsGone DEF IInv, Types
<1>6. Types'
  BY <1>1, <1>4, <1>5 DEF IInv, Types, AccountOK, TablesOK, ClientOK, SnapOK, AgentsOK, EnfOK, RecOK,
     ReqOK, WorkOK, BoundsOK, TouchedOK, agents, db
<1> QED
  BY <1>1, <1>3, <1>6, MovesOn DEF Expiring

LEMMA UnbindsKeeps == ASSUME IInv, EnforcerUnbinds PROVE IInv'
<1> DEFINE new == [enf EXCEPT !.pc = "next"]
<1>1. /\ enf' = new /\ RemovePackage(enf.user)
      /\ UNCHANGED <<used, nodes, row, agents, rec, req, work, requests, faults, touched>>
  BY DEF EnforcerUnbinds
<1>2. enf \in Visits /\ Visiting(enf) /\ enf.user \in Users
  BY DEF IInv, Types, EnfOK, Visiting, EnforcerUnbinds
<1>3. new.pc = "next"
  BY <1>2 DEF Visits
<1>4. new \in Visits /\ Visiting(new)
  BY <1>2, VisitTypes
<1> HIDE DEF new
<1>5. AccountOK' /\ TablesOK'
  BY <1>1, <1>2, PackageGone DEF IInv, Types, TablesOK
<1>6. Types'
  BY <1>1, <1>4, <1>5 DEF IInv, Types, RowOK, ClientOK, SnapOK, AgentsOK, EnfOK, RecOK,
     ReqOK, WorkOK, BoundsOK, TouchedOK, agents
<1> QED
  BY <1>1, <1>3, <1>6, MovesOn DEF Expiring

LEMMA EnforcerKeeps == ASSUME IInv, Enforcer PROVE IInv'
<1>1. "enforcer" \in Procs
  BY DEF Procs
<1> QED
  BY <1>1, ListsKeeps, EndsKeeps, VisitsKeeps, ResetsKeeps, ChecksKeeps, ConcludesKeeps, ForgetsKeeps,
     UnbindsKeeps, WorkKeeps DEF Enforcer

-----------------------------------------------------------------------------
(* The daily tasks                                                           *)

\* A task writes its list while the enforcer rests.
LEMMA TaskKeeps ==
    ASSUME IInv, NEW p \in Procs, p # "enforcer", NEW new \in SUBSET TypedItems,
           work' = work \/ work' = [work EXCEPT ![p] = new],
           RecOK', ReqOK', AccountOK', TablesOK', RowOK', BoundsOK',
           \A u \in Users, i \in Inbounds : row'[u][i] \in {row[u][i], None},
           UNCHANGED <<agents, enf, touched>>
    PROVE  IInv'
<1>1. WorkOK' /\ work'["enforcer"] = work["enforcer"]
  BY DEF IInv, Types, WorkOK, Procs
<1>2. Types'
  BY <1>1 DEF IInv, Types, ClientOK, SnapOK, AgentsOK, EnfOK, TouchedOK, agents
<1>3. OnlyRemoves' /\ Visit'
  BY <1>1, OthersKeep DEF agents
<1> QED
  BY <1>2, <1>3 DEF IInv

LEMMA ReconcilerKeeps == ASSUME IInv, Reconciler PROVE IInv'
<1>1. "reconciler" \in Procs /\ {} \in SUBSET TypedItems /\ RowOK /\ "batch" \in Stages
  BY DEF Procs, IInv, Types, Stages
<1>2. ASSUME rec' \in Runs, UNCHANGED <<db, row, agents, enf, req, requests, faults, touched>>,
             NEW new \in SUBSET TypedItems,
             work' = work \/ work' = [work EXCEPT !["reconciler"] = new]
      PROVE  IInv'
  <2>1. RecOK' /\ ReqOK' /\ AccountOK' /\ TablesOK' /\ RowOK' /\ BoundsOK'
    BY <1>2 DEF IInv, Types, RecOK, ReqOK, AccountOK, TablesOK, RowOK, BoundsOK, db
  <2> QED
    BY <1>1, <1>2, <2>1, TaskKeeps
<1>3. CASE ReconcilerSelects
  <2>1. rec' \in Runs /\ work' = work /\ UNCHANGED <<db, row, agents, enf, req, requests, faults, touched>>
    BY <1>3 DEF ReconcilerSelects, Runs
  <2> QED
    BY <1>1, <1>2, <2>1
<1>4. CASE ReconcilerCompares
  <2> DEFINE new == {x \in UNION {RowItems(u, "batch") : u \in rec.eligible} : Absent(x)}
  <2>1. rec' \in Runs /\ UNCHANGED <<db, row, agents, enf, req, requests, faults, touched>>
    BY <1>4 DEF ReconcilerCompares, Runs
  <2>2. work' = [work EXCEPT !["reconciler"] = new]
    BY <1>4 DEF ReconcilerCompares
  <2>3. \A u \in rec.eligible : RowItems(u, "batch") \subseteq TypedItems
    BY <1>1, RowItemTypes DEF IInv, Types, RecOK, Runs
  <2>4. new \in SUBSET TypedItems
    BY <2>3
  <2> HIDE DEF new
  <2> QED
    BY <1>2, <2>1, <2>2, <2>4
<1>5. CASE ReconcilerEnds
  <2>1. rec' \in Runs /\ work' = work /\ UNCHANGED <<db, row, agents, enf, req, requests, faults, touched>>
    BY <1>5 DEF ReconcilerEnds, NoRun, Runs
  <2> QED
    BY <1>1, <1>2, <2>1
<1> QED
  BY <1>1, <1>3, <1>4, <1>5, WorkKeeps DEF Reconciler

LEMMA CleanerKeeps == ASSUME IInv, Cleaner PROVE IInv'
<1>1. "cleaner" \in Procs
  BY DEF Procs
<1>2. CASE CleanerScans
  <2> DEFINE new == {x \in {Item(u, i, None, "purge") : u \in Users, i \in UnderClients} :
                        ~account[x.user].exists /\ Has(snap[x.inbound], x.user)}
  <2>1. new \in SUBSET TypedItems
    <3>1. \A u \in Users, i \in UnderClients : Item(u, i, None, "purge") \in TypedItems
      BY ItemTypes, ProvisioningAssumption DEF Stages
    <3> QED
      BY <3>1
  <2>2. /\ work' = [work EXCEPT !["cleaner"] = new]
        /\ UNCHANGED <<db, row, agents, threads, requests, faults, touched>>
    BY <1>2 DEF CleanerScans
  <2> HIDE DEF new
  <2>3. RecOK' /\ ReqOK' /\ AccountOK' /\ TablesOK' /\ RowOK' /\ BoundsOK'
    BY <2>2 DEF IInv, Types, RecOK, ReqOK, AccountOK, TablesOK, RowOK, BoundsOK, db, threads
  <2> QED
    BY <1>1, <2>1, <2>2, <2>3, TaskKeeps DEF threads
<1> QED
  BY <1>1, <1>2, WorkKeeps DEF Cleaner

-----------------------------------------------------------------------------
(* Requests                                                                  *)

LEMMA ServedTypes ==
    ASSUME NEW q \in Served, NEW pc \in {"idle", "prev", "bind", "work", "remove", "unbind"}
    PROVE  /\ [q EXCEPT !.pc = pc] \in Served
           /\ [q EXCEPT !.pc = pc].pc = pc /\ [q EXCEPT !.pc = pc].user = q.user
           /\ [q EXCEPT !.pc = pc].pkg = q.pkg
BY DEF Served

LEMMA NoRequestTypes == NoRequest \in Served /\ Asking(NoRequest)
BY DEF NoRequest, Served, Asking

\* One request changes; its list may.
LEMMA RequestKeeps ==
    ASSUME IInv, NEW r \in Requests, NEW q \in Served, Asking(q), NEW new \in SUBSET TypedItems,
           req' = [req EXCEPT ![r] = q],
           work' = work \/ work' = [work EXCEPT ![r] = new],
           AccountOK', TablesOK', RowOK', BoundsOK',
           \A u \in Users, i \in Inbounds : row'[u][i] \in {row[u][i], None},
           UNCHANGED <<agents, enf, rec, touched>>
    PROVE  IInv'
<1>1. r \in Procs /\ r # "enforcer"
  BY ProvisioningAssumption DEF Procs
<1>2. ReqOK' /\ RecOK'
  BY DEF IInv, Types, ReqOK, RecOK
<1> QED
  BY <1>1, <1>2, TaskKeeps

LEMMA AssignKeeps ==
    ASSUME IInv, NEW r \in Requests, NEW u \in Users, NEW p \in Packages, AssignAsked(r, u, p)
    PROVE  IInv'
<1> DEFINE q == [pc |-> "prev", user |-> u, pkg |-> p, prev |-> None]
<1>1. q \in Served /\ Asking(q)
  BY DEF Served, Asking
<1>2. /\ req' = [req EXCEPT ![r] = q]
      /\ UNCHANGED <<db, row, agents, enf, rec, work, faults, touched>> /\ requests' = requests + 1
  BY DEF AssignAsked, Ask
<1> HIDE DEF q
<1>3. AccountOK' /\ TablesOK' /\ RowOK' /\ BoundsOK'
  BY <1>2 DEF IInv, Types, AccountOK, TablesOK, RowOK, BoundsOK, db
<1>4. {} \in SUBSET TypedItems
  OBVIOUS
<1> QED
  BY <1>1, <1>2, <1>3, <1>4, RequestKeeps

LEMMA ExtendKeeps ==
    ASSUME IInv, NEW r \in Requests, NEW u \in Users, ExtendAsked(r, u) PROVE IInv'
<1>1. account[u].pkg \in Packages
  BY DEF IInv, Types, AccountOK, Accounts, ExtendAsked, Bound
<1> QED
  BY <1>1, AssignKeeps DEF ExtendAsked

LEMMA PreviousKeeps == ASSUME IInv, NEW r \in Requests, ReadPrevious(r) PROVE IInv'
<1> DEFINE prev == account[req[r].user].pkg
           q == [req[r] EXCEPT !.pc = "bind", !.prev = prev]
<1>1. /\ req' = [req EXCEPT ![r] = q] /\ req[r].pc = "prev"
      /\ UNCHANGED <<db, row, agents, enf, rec, work, requests, faults, touched>>
  BY DEF ReadPrevious
<1>2. req[r] \in Served /\ req[r].user \in Users /\ req[r].pkg \in Packages
  BY <1>1 DEF IInv, Types, ReqOK, Asking
<1>3. prev \in Packages \cup {None}
  BY <1>2 DEF IInv, Types, AccountOK, Accounts
<1> HIDE DEF prev
<1>4. q \in Served
  BY <1>2, <1>3 DEF Served
<1>5. q.user = req[r].user /\ q.pkg = req[r].pkg
  BY <1>2 DEF Served
<1> HIDE DEF q
<1>6. AccountOK' /\ TablesOK' /\ RowOK' /\ BoundsOK'
  BY <1>1 DEF IInv, Types, AccountOK, TablesOK, RowOK, BoundsOK, db
<1>7. {} \in SUBSET TypedItems /\ Asking(q)
  BY <1>2, <1>5 DEF Asking
<1> QED
  BY <1>1, <1>4, <1>6, <1>7, RequestKeeps

LEMMA BindKeeps == ASSUME IInv, NEW r \in Requests, Bind(r) PROVE IInv'
<1> DEFINE u == req[r].user  p == req[r].pkg
           items == {Item(u, i, None, "collect") : i \in nodes[p]}
           turn == [req[r] EXCEPT !.pc = "work"]
<1>1. req[r] \in Served /\ u \in Users /\ p \in Packages
  BY DEF IInv, Types, ReqOK, Asking, Bind
<1>2. UNCHANGED <<used, due, nodes, row, agents, enf, rec, requests, faults, touched>>
  BY DEF Bind
<1>3. AccountOK'
  <2>1. CASE account' = account
    BY <2>1 DEF IInv, Types, AccountOK
  <2>2. CASE account' # account
    <3>a. PICK limit \in (IF account[u].pkg = p THEN {account[u].limit} ELSE Limits \ {0}) :
             account' = [account EXCEPT ![u].pkg = p, ![u].ended = FALSE, ![u].limit = limit]
      BY <2>2, Zenon DEF Bind
    <3>1. account' = [account EXCEPT ![u] = [account[u] EXCEPT !.pkg = p, !.ended = FALSE, !.limit = limit]]
      BY <3>a
    <3>2. account[u] \in Accounts
      BY <1>1 DEF IInv, Types, AccountOK
    <3>3. limit \in Limits
      BY <3>a, <3>2 DEF Accounts
    <3>4. [account[u] EXCEPT !.pkg = p, !.ended = FALSE, !.limit = limit] \in Accounts
      BY <1>1, <3>2, <3>3, AccountField
    <3> QED
      BY <3>1, <3>4 DEF IInv, Types, AccountOK
  <2> QED
    BY <2>1, <2>2
<1>4. items \in SUBSET TypedItems
  <2>1. nodes[p] \subseteq Inbounds
    BY <1>1 DEF IInv, Types, TablesOK
  <2>2. \A i \in Inbounds : Item(u, i, None, "collect") \in TypedItems
    BY <1>1, ItemTypes DEF Stages
  <2> QED
    BY <2>1, <2>2
<1>5. turn \in Served /\ Asking(turn)
  BY <1>1, ServedTypes DEF Asking
<1>6. \/ req' = [req EXCEPT ![r] = NoRequest] /\ work' = work
      \/ req' = [req EXCEPT ![r] = turn] /\ work' = [work EXCEPT ![r] = items]
  BY DEF Bind
<1> HIDE DEF turn, items
<1>7. TablesOK' /\ RowOK' /\ BoundsOK'
  BY <1>2 DEF IInv, Types, TablesOK, RowOK, BoundsOK
<1>8. \A v \in Users, i \in Inbounds : row'[v][i] \in {row[v][i], None}
  BY <1>2
<1> QED
  BY <1>2, <1>3, <1>4, <1>5, <1>6, <1>7, <1>8, NoRequestTypes, RequestKeeps

LEMMA RespondKeeps == ASSUME IInv, NEW r \in Requests, Respond(r) PROVE IInv'
<1>1. /\ req' = [req EXCEPT ![r] = NoRequest]
      /\ UNCHANGED <<db, row, agents, enf, rec, work, requests, faults, touched>>
  BY DEF Respond
<1>2. AccountOK' /\ TablesOK' /\ RowOK' /\ BoundsOK' /\ {} \in SUBSET TypedItems
  BY <1>1 DEF IInv, Types, AccountOK, TablesOK, RowOK, BoundsOK, db
<1> QED
  BY <1>1, <1>2, NoRequestTypes, RequestKeeps

LEMMA UnassignKeeps ==
    ASSUME IInv, NEW r \in Requests, NEW u \in Users, UnassignAsked(r, u) PROVE IInv'
<1> DEFINE q == [NoRequest EXCEPT !.pc = "remove", !.user = u]
<1>1. q \in Served /\ Asking(q)
  BY NoRequestTypes DEF NoRequest, Served, Asking
<1>2. /\ req' = [req EXCEPT ![r] = q] /\ work' = [work EXCEPT ![r] = RowItems(u, "remove")]
      /\ UNCHANGED <<db, row, agents, enf, rec, faults, touched>> /\ requests' = requests + 1
  BY DEF UnassignAsked, Ask
<1> HIDE DEF q
<1>3. AccountOK' /\ TablesOK' /\ RowOK' /\ BoundsOK' /\ RowOK
  BY <1>2 DEF IInv, Types, AccountOK, TablesOK, RowOK, BoundsOK, db
<1>4. RowItems(u, "remove") \in SUBSET TypedItems
  BY <1>3, RowItemTypes DEF Stages
<1> QED
  BY <1>1, <1>2, <1>3, <1>4, RequestKeeps

LEMMA UnassignForgetsKeeps == ASSUME IInv, NEW r \in Requests, UnassignForgets(r) PROVE IInv'
<1> DEFINE q == [req[r] EXCEPT !.pc = "unbind"]
<1>1. /\ req' = [req EXCEPT ![r] = q] /\ DeleteRows(req[r].user) /\ req[r].pc = "remove"
      /\ UNCHANGED <<db, agents, enf, rec, work, requests, faults, touched>>
  BY DEF UnassignForgets
<1>2. req[r] \in Served /\ req[r].user \in Users
  BY <1>1 DEF IInv, Types, ReqOK, Asking
<1>3. q \in Served /\ Asking(q)
  BY <1>2, ServedTypes DEF Asking
<1> HIDE DEF q
<1>4. RowOK' /\ \A v \in Users, i \in Inbounds : row'[v][i] \in {row[v][i], None}
  BY <1>1, RowsGone DEF IInv, Types
<1>5. AccountOK' /\ TablesOK' /\ BoundsOK' /\ {} \in SUBSET TypedItems
  BY <1>1 DEF IInv, Types, AccountOK, TablesOK, BoundsOK, db
<1> QED
  BY <1>1, <1>3, <1>4, <1>5, RequestKeeps

LEMMA UnassignUnbindsKeeps == ASSUME IInv, NEW r \in Requests, UnassignUnbinds(r) PROVE IInv'
<1>1. /\ req' = [req EXCEPT ![r] = NoRequest] /\ RemovePackage(req[r].user) /\ req[r].pc = "unbind"
      /\ UNCHANGED <<used, nodes, row, agents, enf, rec, work, requests, faults, touched>>
  BY DEF UnassignUnbinds
<1>2. req[r].user \in Users
  BY <1>1 DEF IInv, Types, ReqOK, Asking
<1>3. AccountOK' /\ TablesOK'
  BY <1>1, <1>2, PackageGone DEF IInv, Types, TablesOK
<1>4. RowOK' /\ BoundsOK' /\ {} \in SUBSET TypedItems
  BY <1>1 DEF IInv, Types, RowOK, BoundsOK
<1> QED
  BY <1>1, <1>3, <1>4, NoRequestTypes, RequestKeeps

LEMMA UpdateKeeps ==
    ASSUME IInv, NEW r \in Requests, NEW p \in Packages, NEW new \in SUBSET Inbounds, UpdateAsked(r, p, new)
    PROVE  IInv'
<1> DEFINE q == [NoRequest EXCEPT !.pc = "work"]
           targets == {u \in Users : account[u].pkg = p}
           added   == {Item(u, i, None, "collect") : u \in targets, i \in new \ nodes[p]}
           removed == {x \in UNION {RowItems(u, "removeNode") : u \in targets} : x.inbound \in nodes[p] \ new}
<1>1. q \in Served /\ Asking(q)
  BY NoRequestTypes DEF NoRequest, Served, Asking
<1>2. /\ req' = [req EXCEPT ![r] = q] /\ work' = [work EXCEPT ![r] = added \cup removed]
      /\ nodes' = [nodes EXCEPT ![p] = new]
      /\ UNCHANGED <<account, used, due, row, agents, enf, rec, faults, touched>> /\ requests' = requests + 1
  BY DEF UpdateAsked, Ask
<1>3. added \cup removed \in SUBSET TypedItems
  <2>1. \A u \in Users, i \in Inbounds : Item(u, i, None, "collect") \in TypedItems
    BY ItemTypes DEF Stages
  <2>2. \A u \in Users : RowItems(u, "removeNode") \subseteq TypedItems
    BY RowItemTypes DEF IInv, Types, Stages
  <2>3. added \subseteq TypedItems
    BY <2>1
  <2>4. removed \subseteq TypedItems
    BY <2>2
  <2> QED
    BY <2>3, <2>4
<1> HIDE DEF q, added, removed
<1>4. AccountOK' /\ TablesOK' /\ RowOK' /\ BoundsOK'
  BY <1>2 DEF IInv, Types, AccountOK, TablesOK, RowOK, BoundsOK
<1> QED
  BY <1>1, <1>2, <1>3, <1>4, RequestKeeps

LEMMA ServeKeeps == ASSUME IInv, NEW r \in Requests, Serve(r) PROVE IInv'
<1>1. r \in Procs
  BY DEF Procs
<1> QED
  BY <1>1, PreviousKeeps, BindKeeps, RespondKeeps, UnassignForgetsKeeps, UnassignUnbindsKeeps, WorkKeeps
     DEF Serve

\* Tables change and no one who works does.
LEMMA TablesKeep ==
    ASSUME IInv, AccountOK', TablesOK', RowOK', BoundsOK',
           \A u \in Users, i \in Inbounds : row'[u][i] \in {row[u][i], None},
           UNCHANGED <<agents, threads, work, touched>>
    PROVE  IInv'
<1>1. RecOK' /\ ReqOK'
  BY DEF IInv, Types, RecOK, ReqOK, threads
<1>2. "cleaner" \in Procs /\ {} \in SUBSET TypedItems
  BY DEF Procs
<1> QED
  BY <1>1, <1>2, TaskKeeps DEF threads

LEMMA AdministratorKeeps == ASSUME IInv, Administrator PROVE IInv'
<1>1. ASSUME NEW u \in Users, NEW limit \in Limits, LimitSet(u, limit) PROVE IInv'
  <2>1. /\ account' = [account EXCEPT ![u] = [account[u] EXCEPT !.limit = limit]] /\ requests' = requests + 1
        /\ UNCHANGED <<used, due, nodes, row, agents, threads, work, faults, touched>>
    BY <1>1 DEF LimitSet, Ask
  <2>2. [account[u] EXCEPT !.limit = limit] \in Accounts
    BY AccountField DEF IInv, Types, AccountOK
  <2>3. AccountOK' /\ TablesOK' /\ RowOK' /\ BoundsOK'
    BY <2>1, <2>2 DEF IInv, Types, AccountOK, TablesOK, RowOK, BoundsOK
  <2> QED
    BY <2>1, <2>3, TablesKeep
<1>2. ASSUME NEW u \in Users, CycleReset(u) PROVE IInv'
  <2>1. /\ used' = [used EXCEPT ![u] = 0] /\ requests' = requests + 1
        /\ UNCHANGED <<account, due, nodes, row, agents, threads, work, faults, touched>>
    BY <1>2 DEF CycleReset, Ask
  <2>2. AccountOK' /\ TablesOK' /\ RowOK' /\ BoundsOK'
    BY <2>1 DEF IInv, Types, AccountOK, TablesOK, RowOK, BoundsOK
  <2> QED
    BY <2>1, <2>2, TablesKeep
<1>3. ASSUME NEW u \in Users, UserDeleted(u) PROVE IInv'
  <2>1. /\ account' = [account EXCEPT ![u] = NoAccount] /\ DeleteRows(u) /\ due' = due \ {u}
        /\ requests' = requests + 1
        /\ UNCHANGED <<used, nodes, agents, threads, work, faults, touched>>
    BY <1>3 DEF UserDeleted, Ask
  <2>2. NoAccount \in Accounts
    BY ProvisioningAssumption DEF NoAccount, Accounts
  <2>3. RowOK' /\ \A v \in Users, i \in Inbounds : row'[v][i] \in {row[v][i], None}
    BY <2>1, RowsGone DEF IInv, Types
  <2>4. AccountOK' /\ TablesOK' /\ BoundsOK'
    BY <2>1, <2>2 DEF IInv, Types, AccountOK, TablesOK, BoundsOK
  <2> QED
    BY <2>1, <2>3, <2>4, TablesKeep
<1> QED
  BY <1>1, <1>2, <1>3, AssignKeeps, ExtendKeeps, UnassignKeeps, UpdateKeeps DEF Administrator

-----------------------------------------------------------------------------
(* Traffic, the calendar, agents, restarts                                   *)

LEMMA WorldKeeps ==
    ASSUME IInv, NEW u \in Users, Traffic(u) \/ EndDatePasses(u) \/ ResetDayComes(u)
    PROVE  IInv'
<1>1. /\ UNCHANGED <<nodes, row, agents, threads, work, touched>>
      /\ used' \in [Users -> Nat] /\ due' \in SUBSET Users /\ BoundsOK'
  BY DEF Traffic, EndDatePasses, ResetDayComes, Ask, IInv, Types, TablesOK, BoundsOK
<1>2. AccountOK'
  <2>1. account' = account \/ account' = [account EXCEPT ![u] = [account[u] EXCEPT !.ended = TRUE]]
    BY DEF Traffic, EndDatePasses, ResetDayComes
  <2>2. [account[u] EXCEPT !.ended = TRUE] \in Accounts
    BY AccountField DEF IInv, Types, AccountOK
  <2> QED
    BY <2>1, <2>2 DEF IInv, Types, AccountOK
<1>3. TablesOK' /\ RowOK'
  BY <1>1 DEF IInv, Types, TablesOK, RowOK
<1> QED
  BY <1>1, <1>2, <1>3, TablesKeep

LEMMA AgentKeeps ==
    ASSUME IInv, NEW i \in Inbounds, AgentLost(i) \/ AgentBack(i) \/ Refresh(i) PROVE IInv'
<1>1. UNCHANGED <<db, row, client, threads, work, requests, touched>>
  BY DEF AgentLost, AgentBack, Refresh
<1>2. SnapOK' /\ AgentsOK'
  BY DEF AgentLost, AgentBack, Refresh, IInv, Types, SnapOK, AgentsOK, ClientOK
<1>3. BoundsOK'
  BY DEF AgentLost, AgentBack, Refresh, Fault, IInv, Types, BoundsOK
<1>4. Types'
  BY <1>1, <1>2, <1>3 DEF IInv, Types, AccountOK, TablesOK, RowOK, ClientOK, EnfOK, RecOK, ReqOK,
     WorkOK, TouchedOK, db, threads
<1>5. OnlyRemoves' /\ Visit'
  BY <1>1, OthersKeep DEF threads
<1> QED
  BY <1>4, <1>5 DEF IInv

LEMMA RestartKeeps == ASSUME IInv, Restart PROVE IInv'
<1>1. /\ enf' = NoVisit /\ rec' = NoRun /\ req' = [r \in Requests |-> NoRequest]
      /\ work' = [p \in Procs |-> {}] /\ refresh' = {} /\ touched' = {} /\ faults' = faults + 1
      /\ UNCHANGED <<db, row, client, snap, online, requests>>
  BY DEF Restart, Fault
<1>2. EnfOK' /\ RecOK' /\ ReqOK' /\ WorkOK'
  BY <1>1, NoVisitTypes, NoRequestTypes DEF EnfOK, RecOK, ReqOK, WorkOK, NoRun, Runs
<1>3. Types'
  BY <1>1, <1>2 DEF IInv, Types, AccountOK, TablesOK, RowOK, ClientOK, SnapOK, AgentsOK, BoundsOK,
     TouchedOK, db
<1> QED
  BY <1>1, <1>3, NoVisitTypes, MovesOn DEF Expiring

-----------------------------------------------------------------------------
LEMMA NextKeeps == IInv /\ [Next]_vars => IInv'
<1> SUFFICES ASSUME IInv, [Next]_vars PROVE IInv'
  OBVIOUS
<1>1. CASE UNCHANGED vars
  <2>1. Types'
    BY <1>1 DEF IInv, Types, AccountOK, TablesOK, RowOK, ClientOK, SnapOK, AgentsOK, EnfOK, RecOK,
       ReqOK, WorkOK, BoundsOK, TouchedOK, vars, db, agents, threads
  <2>2. OnlyRemoves' /\ Visit'
    BY <1>1, OthersKeep DEF vars, agents, threads
  <2> QED
    BY <2>1, <2>2 DEF IInv
<1>2. CASE Next
  BY <1>2, EnforcerKeeps, ReconcilerKeeps, CleanerKeeps, ServeKeeps, AdministratorKeeps, WorldKeeps,
     AgentKeeps, RestartKeeps DEF Next
<1> QED
  BY <1>1, <1>2

THEOREM Invariant == Spec => []IInv
BY InitInv, NextKeeps, PTL DEF Spec

\* The tables, the agents and what goroutines carry have their types.
THEOREM TypeCorrect == Spec => []TypeOK
<1>1. IInv => TypeOK
  <2> SUFFICES ASSUME IInv PROVE TypeOK
    OBVIOUS
  <2>1. TypedItems \subseteq Items
    BY DEF TypedItems
  <2>2. work \in [Procs -> SUBSET Items]
    BY <2>1 DEF IInv, Types, WorkOK
  <2> QED
    BY <2>2 DEF IInv, Types, TypeOK, AccountOK, TablesOK, RowOK, ClientOK, SnapOK, AgentsOK, EnfOK,
       RecOK, ReqOK, BoundsOK, TouchedOK
<1> QED
  BY <1>1, Invariant, PTL

\* The rows of an expired user go only when the agents have lost the clients
\* that the rows stand for (CheckAll, removeUserFromAllInbounds).
THEOREM ExpirySafe == Spec => []ExpiryForgetsNothing
<1>1. IInv => ExpiryForgetsNothing
  <2> SUFFICES ASSUME IInv, enf.pc = "forget", NEW i \in Inbounds \ touched,
                      <<enf.user, row[enf.user][i]>> \in client[i]
               PROVE  FALSE
    BY DEF ExpiryForgetsNothing
  <2>1. ~Delivered(i)
    BY DEF IInv, Visit
  <2>2. row[enf.user][i] \in Creds
    BY DEF IInv, Types, ClientOK
  <2> QED
    BY <2>1, <2>2, ProvisioningAssumption DEF Delivered
<1> QED
  BY <1>1, Invariant, PTL

\* However many provision a binding at once, its credential is the one that was
\* first written (getOrCreateInboundCredential, SaveUserInboundConfig).
THEOREM StableCredential == Spec => CredentialIsStable
<1> DEFINE Stable == \A u \in Users, i \in Inbounds :
                        row[u][i] # None /\ row'[u][i] # None => row'[u][i] = row[u][i]
<1>1. IInv /\ [Next]_vars => [Stable]_vars
  <2> SUFFICES ASSUME IInv, Next PROVE Stable
    OBVIOUS
  <2>1. ASSUME NEW p \in Procs, NEW x \in TypedItems, NEW c \in Creds, SaveRow(x.user, x.inbound, c)
        PROVE  Stable
    BY <2>1, SaveTypes, ItemFields DEF IInv
  <2>2. ASSUME row' = row \/ (\E u \in Users \cup {None} : DeleteRows(u)) PROVE Stable
    BY <2>2, RowsGone DEF IInv, Types
  <2>3. ASSUME NEW p \in Procs, WorkOn(p) PROVE Stable
    <3>1. PICK x \in work[p] :
             \/ Collect(p, x) \/ Batch(p, x) \/ BatchRefused(p, x) \/ Save(p, x)
             \/ Get(p, x) \/ Create(p, x) \/ Post(p, x)
             \/ Remove(p, x) \/ RemoveNode(p, x) \/ DropRow(p, x) \/ Purge(p, x)
      BY <2>3 DEF WorkOn
    <3>2. x \in TypedItems /\ Types /\ x.user \in Users /\ x.inbound \in Inbounds
          /\ (x.stage = "save" => x.cred \in Creds)
      BY ItemFields DEF IInv, Types, WorkOK
    <3>3. CASE Collect(p, x)
      <4>1. \/ row' = row
            \/ \E c \in Credentials(x.user, x.inbound, snap[x.inbound]) : SaveRow(x.user, x.inbound, c)
        BY <3>3 DEF Collect
      <4> QED
        BY <2>1, <2>2, <2>3, <3>2, <4>1, CredTypes
    <3>4. CASE Create(p, x)
      BY <2>1, <2>3, <3>2, <3>4, CredTypes DEF Create
    <3>5. CASE Save(p, x)
      BY <2>1, <2>3, <3>2, <3>5 DEF Save
    <3>6. CASE DropRow(p, x)
      BY <3>2, <3>6 DEF DropRow, Types, RowOK
    <3>7. CASE \/ Batch(p, x) \/ BatchRefused(p, x) \/ Get(p, x) \/ Post(p, x)
               \/ Remove(p, x) \/ RemoveNode(p, x) \/ Purge(p, x)
      BY <2>2, <3>7 DEF Batch, BatchRefused, Get, Post, Remove, RemoveNode, Purge
    <3> QED
      BY <3>1, <3>3, <3>4, <3>5, <3>6, <3>7
  <2>4. CASE Enforcer
    <3>1. CASE EnforcerForgets
      <4>1. enf.user \in Users
        BY <3>1 DEF EnforcerForgets, IInv, Types, EnfOK, Visiting
      <4> QED
        BY <2>2, <3>1, <4>1 DEF EnforcerForgets
    <3>2. CASE ~EnforcerForgets /\ ~WorkOn("enforcer")
      BY <2>2, <2>4, <3>2 DEF Enforcer, EnforcerLists, EnforcerEnds, EnforcerVisits, EnforcerResets,
         EnforcerChecks, EnforcerConcludes, EnforcerUnbinds
    <3> QED
      BY <2>3, <3>1, <3>2 DEF Procs
  <2>5. CASE Reconciler \/ Cleaner
    BY <2>2, <2>3, <2>5 DEF Reconciler, Cleaner, ReconcilerSelects, ReconcilerCompares, ReconcilerEnds,
       CleanerScans, Procs
  <2>6. ASSUME NEW r \in Requests, Serve(r) PROVE Stable
    <3>1. CASE UnassignForgets(r)
      <4>1. req[r].user \in Users
        BY <3>1 DEF UnassignForgets, IInv, Types, ReqOK, Asking
      <4> QED
        BY <2>2, <3>1, <4>1 DEF UnassignForgets
    <3>2. CASE ~UnassignForgets(r) /\ ~WorkOn(r)
      BY <2>2, <2>6, <3>2 DEF Serve, ReadPrevious, Bind, Respond, UnassignUnbinds
    <3> QED
      BY <2>3, <3>1, <3>2 DEF Procs
  <2>7. CASE Administrator
    <3>1. ASSUME NEW u \in Users, UserDeleted(u) PROVE Stable
      BY <2>2, <3>1 DEF UserDeleted
    <3>2. ASSUME NEW r \in Requests, NEW u \in Users,
                 ExtendAsked(r, u) \/ UnassignAsked(r, u) \/ \E q \in Packages : AssignAsked(r, u, q)
          PROVE  Stable
      BY <2>2, <3>2 DEF AssignAsked, ExtendAsked, UnassignAsked
    <3>3. ASSUME NEW r \in Requests, NEW q \in Packages, NEW new \in SUBSET Inbounds, UpdateAsked(r, q, new)
          PROVE  Stable
      BY <2>2, <3>3 DEF UpdateAsked
    <3>4. ASSUME NEW u \in Users, CycleReset(u) \/ \E limit \in Limits : LimitSet(u, limit) PROVE Stable
      BY <2>2, <3>4 DEF LimitSet, CycleReset
    <3> QED
      BY <2>7, <3>1, <3>2, <3>3, <3>4 DEF Administrator
  <2>8. ASSUME NEW u \in Users, Traffic(u) \/ EndDatePasses(u) \/ ResetDayComes(u) PROVE Stable
    BY <2>2, <2>8 DEF Traffic, EndDatePasses, ResetDayComes
  <2>9. ASSUME NEW i \in Inbounds, AgentLost(i) \/ AgentBack(i) \/ Refresh(i) PROVE Stable
    BY <2>2, <2>9 DEF AgentLost, AgentBack, Refresh
  <2>10. CASE Restart
    BY <2>2, <2>10 DEF Restart
  <2> QED
    BY <2>4, <2>5, <2>6, <2>7, <2>8, <2>9, <2>10 DEF Next
<1>2. CredentialIsStable <=> [][Stable]_vars
  BY DEF CredentialIsStable
<1> QED
  BY <1>1, Invariant, PTL DEF Spec, CredentialIsStable
=============================================================================
