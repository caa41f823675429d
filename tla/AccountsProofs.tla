--------------------------- MODULE AccountsProofs ---------------------------
(***************************************************************************)
(* What holds of Accounts for any number of rows, emails, names and        *)
(* requests in flight, with starts, stops and failures: the rows keep      *)
(* their types and unique keys, and only a start makes a SUPER_ADMIN.      *)
(***************************************************************************)
EXTENDS Accounts, TLAPS

-----------------------------------------------------------------------------
(* The invariants *)

\* A request that searches for a name has one to begin with.
Searching ==
  \A r \in Requests :
     req[r].pc \in {"register.email", "register.name", "admin.create", "create.name"}
        => req[r].name \in Names

TypeInv == TypeOK /\ Searching

\* What a request has read of the role of its target cannot go out of date: a
\* row becomes SUPER_ADMIN only while no request runs.
RoleInv ==
  /\ SupersAreAppointed
  /\ \A r \in Requests :
        /\ At(r, "update.write") /\ req[r].target \in Supers => req[r].target = req[r].by
        /\ At(r, "remove.delete") => req[r].target \notin Supers
  /\ ~up => \A r \in Requests : req[r] = Idle

-----------------------------------------------------------------------------
(* Lemmas about rows and requests *)

\* What a request is made of.
LEMMA RequestType ==
  ASSUME NEW q, q \in Request
  PROVE  /\ q = [pc |-> q.pc, by |-> q.by, target |-> q.target, email |-> q.email,
                 uid |-> q.uid, name |-> q.name]
         /\ q.pc \in Await \cup {"idle"}
         /\ q.by \in Accounts \cup {None} /\ q.target \in Accounts \cup {None}
         /\ q.email \in Emails \cup {None} /\ q.uid \in Uids \cup {None}
         /\ q.name \in Names \cup {None}
  BY DEF Request

LEMMA IdleType == Idle \in Request
  BY DEF Idle, Request, Await

LEMMA NoUserType ==
  ASSUME NEW why \in {"unborn", "gone"}
  PROVE  NoUser(why) \in User /\ NoUser(why).state = why /\ ~NoUser(why).super
  BY DEF NoUser, User

\* A request that goes elsewhere, or ends, is still one.
LEMMA GotoType ==
  ASSUME TypeInv, NEW r \in Requests, NEW where \in Await,
         Goto(r, where),
         where \in {"register.email", "register.name", "admin.create", "create.name"}
            => req[r].name \in Names
  PROVE  req' \in [Requests -> Request] /\ Searching'
  <1>1. req[r] \in Request
    BY DEF TypeInv, TypeOK
  <1>2. [req[r] EXCEPT !.pc = where] \in Request
    BY <1>1 DEF Request
  <1>3. req' \in [Requests -> Request]
    BY <1>2 DEF TypeInv, TypeOK, Goto
  <1>4. Searching'
    <2> SUFFICES ASSUME NEW s \in Requests,
                        req'[s].pc \in {"register.email", "register.name", "admin.create", "create.name"}
                 PROVE  req'[s].name \in Names
      BY DEF Searching, Names
    <2>1. CASE s = r
      BY <2>1, <1>1 DEF TypeInv, TypeOK, Goto, Request
    <2>2. CASE s # r
      BY <2>2 DEF TypeInv, TypeOK, Searching, Goto
    <2> QED
      BY <2>1, <2>2
  <1> QED
    BY <1>3, <1>4

LEMMA FinishType ==
  ASSUME TypeInv, NEW r \in Requests, Finish(r)
  PROVE  req' \in [Requests -> Request] /\ Searching'
  <1>1. req' \in [Requests -> Request]
    BY IdleType DEF TypeInv, TypeOK, Finish
  <1>2. \A s \in Requests : req'[s] = IF s = r THEN Idle ELSE req[s]
    BY DEF TypeInv, TypeOK, Finish
  <1>3. Searching'
    BY <1>2 DEF TypeInv, Searching, Idle, Names
  <1> QED
    BY <1>1, <1>3

\* A request that begins, in a free slot, and one that learns what it looked for.
LEMMA SetType ==
  ASSUME TypeInv, NEW r \in Requests, NEW q \in Request,
         req' = [req EXCEPT ![r] = q],
         q.pc \in {"register.email", "register.name", "admin.create", "create.name"}
            => q.name \in Names
  PROVE  req' \in [Requests -> Request] /\ Searching'
  <1>1. req' \in [Requests -> Request]
    BY DEF TypeInv, TypeOK
  <1>2. \A s \in Requests : req'[s] = IF s = r THEN q ELSE req[s]
    BY DEF TypeInv, TypeOK
  <1>3. Searching'
    BY <1>2 DEF TypeInv, Searching, Names
  <1> QED
    BY <1>1, <1>3

\* The rows after one of them was written.
LEMMA WriteRow ==
  ASSUME TypeInv, NEW a \in Accounts, NEW u \in User,
         user' = [user EXCEPT ![a] = u],
         u.state # "there" => u = NoUser(u.state),
         u.state = "there" => \A b \in There \ {a} :
            /\ user[b].email # u.email
            /\ user[b].name # u.name
            /\ user[b].uid # u.uid \/ u.uid = None
  PROVE  /\ user' \in [Accounts -> User]
         /\ \A b \in Accounts : user'[b].state # "there" => user'[b] = NoUser(user'[b].state)
         /\ \A b, c \in There' : b # c =>
              /\ user'[b].email # user'[c].email
              /\ user'[b].name # user'[c].name
              /\ user'[b].uid # user'[c].uid \/ user'[b].uid = None
  <1>1. \A b \in Accounts : user'[b] = IF b = a THEN u ELSE user[b]
    BY DEF TypeInv, TypeOK
  <1>2. user' \in [Accounts -> User]
    BY DEF TypeInv, TypeOK
  <1>3. \A b \in There' : IF b = a THEN u.state = "there" ELSE b \in There
    BY <1>1 DEF There
  <1>4. \A b \in Accounts : user'[b].state # "there" => user'[b] = NoUser(user'[b].state)
    BY <1>1 DEF TypeInv, TypeOK
  <1>5. ASSUME NEW b \in There', NEW c \in There', b # c
        PROVE  /\ user'[b].email # user'[c].email
               /\ user'[b].name # user'[c].name
               /\ user'[b].uid # user'[c].uid \/ user'[b].uid = None
    <2>0. b \in Accounts /\ c \in Accounts
      BY <1>5 DEF There
    <2>1. CASE b # a /\ c # a
      BY <1>1, <1>3, <1>5, <2>0, <2>1 DEF TypeInv, TypeOK
    <2>2. CASE b = a
      BY <1>1, <1>3, <1>5, <2>0, <2>2
    <2>3. CASE c = a
      BY <1>1, <1>3, <1>5, <2>0, <2>3
    <2> QED
      BY <2>1, <2>2, <2>3
  <1> QED
    BY <1>2, <1>4, <1>5

LEMMA CreateRow ==
  ASSUME TypeInv, NEW a \in Accounts, NEW e \in Emails \cup {None}, NEW n \in Names \cup {None},
         NEW g \in Uids \cup {None}, NEW super \in BOOLEAN, Create(a, e, n, g, super)
  PROVE  /\ user' \in [Accounts -> User]
         /\ \A b \in Accounts : user'[b].state # "there" => user'[b] = NoUser(user'[b].state)
         /\ \A b, c \in There' : b # c =>
              /\ user'[b].email # user'[c].email
              /\ user'[b].name # user'[c].name
              /\ user'[b].uid # user'[c].uid \/ user'[b].uid = None
  <1> DEFINE u == [state |-> "there", email |-> e, name |-> n, uid |-> g, super |-> super]
  <1>1. u \in User /\ u.state = "there"
    BY DEF User
  <1>2. user' = [user EXCEPT ![a] = u]
    BY DEF Create
  <1>3. \A b \in There \ {a} :
            /\ user[b].email # u.email
            /\ user[b].name # u.name
            /\ user[b].uid # u.uid \/ u.uid = None
    BY DEF Create, Holder, Called, Linked
  <1> HIDE DEF u
  <1> QED
    BY <1>1, <1>2, <1>3, WriteRow

-----------------------------------------------------------------------------
(* Types and unique keys *)

LEMMA TypeInit == AccountsAssumption /\ Init => TypeInv
  <1> SUFFICES ASSUME AccountsAssumption, Init
               PROVE  TypeInv
    OBVIOUS
  <1>1. /\ user = [a \in Accounts |-> NoUser("unborn")] /\ up = FALSE /\ appointed = {}
        /\ req = [r \in Requests |-> Idle]
    BY DEF Init
  <1>2. NoUser("unborn") \in User /\ NoUser("unborn").state = "unborn"
    BY NoUserType
  <1>3. There = {}
    BY <1>1, <1>2 DEF There
  <1>4. TypeOK
    BY <1>1, <1>2, <1>3, IdleType DEF TypeOK
  <1>5. Searching
    BY <1>1 DEF Searching, Idle
  <1> QED
    BY <1>4, <1>5 DEF TypeInv

\* A step that writes no row keeps the rows' part, whatever it does to requests.
LEMMA RowsStay ==
  ASSUME TypeInv, user' = user, up' \in BOOLEAN, appointed' \subseteq Accounts,
         req' \in [Requests -> Request], Searching'
  PROVE  TypeInv'
  BY DEF TypeInv, TypeOK, There

\* One that writes rows keeps the rest.
LEMMA RowsChange ==
  ASSUME TypeInv, user' \in [Accounts -> User],
         \A b \in Accounts : user'[b].state # "there" => user'[b] = NoUser(user'[b].state),
         \A b, c \in There' : b # c =>
              /\ user'[b].email # user'[c].email
              /\ user'[b].name # user'[c].name
              /\ user'[b].uid # user'[c].uid \/ user'[b].uid = None,
         up' \in BOOLEAN, appointed' \subseteq Accounts,
         req' \in [Requests -> Request], Searching'
  PROVE  TypeInv'
  BY DEF TypeInv, TypeOK, There

\* A row that keeps its keys can be written, and any row can go.
LEMMA ChangeRow ==
  ASSUME TypeInv, NEW a \in There, NEW u \in User, u.state = "there",
         user' = [user EXCEPT ![a] = u],
         Holder(u.email) \subseteq {a}, Called(u.name) \subseteq {a},
         u.uid = user[a].uid,
         up' \in BOOLEAN, appointed' \subseteq Accounts,
         req' \in [Requests -> Request], Searching'
  PROVE  TypeInv'
  <1>1. \A b \in There \ {a} :
            /\ user[b].email # u.email
            /\ user[b].name # u.name
            /\ user[b].uid # u.uid \/ u.uid = None
    BY DEF Holder, Called, TypeInv, TypeOK
  <1>2. a \in Accounts
    BY DEF There
  <1> QED
    BY <1>1, <1>2, WriteRow, RowsChange

LEMMA DropRow ==
  ASSUME TypeInv, NEW a \in There, user' = [user EXCEPT ![a] = NoUser("gone")],
         up' \in BOOLEAN, appointed' \subseteq Accounts,
         req' \in [Requests -> Request], Searching'
  PROVE  TypeInv'
  <1>1. NoUser("gone") \in User /\ NoUser("gone").state = "gone"
    BY NoUserType
  <1>2. a \in Accounts
    BY DEF There
  <1> QED
    BY <1>1, <1>2, WriteRow, RowsChange

\* The keys of a row that is there are its own.
LEMMA OwnKeys ==
  ASSUME TypeInv, NEW a \in There
  PROVE  Holder(user[a].email) \subseteq {a} /\ Called(user[a].name) \subseteq {a}
  BY DEF TypeInv, TypeOK, Holder, Called, There

LEMMA ReadType ==
  ASSUME TypeInv, NEW r \in Requests, NEW next \in Await \cup {"refused"}, Read(r, next),
         next \in {"register.email", "register.name", "admin.create", "create.name"}
            => req[r].name \in Names
  PROVE  TypeInv'
  <1>1. user' = user /\ up' = up /\ appointed' = appointed
    BY DEF Read
  <1>2. CASE next = "refused"
    <2>1. Finish(r)
      BY <1>2 DEF Read
    <2> QED
      BY <1>1, <2>1, FinishType, RowsStay DEF TypeInv, TypeOK
  <1>3. CASE next # "refused"
    <2>1. Goto(r, next) /\ next \in Await
      BY <1>3 DEF Read
    <2>2. req' \in [Requests -> Request] /\ Searching'
      BY <2>1, GotoType
    <2> QED
      BY <1>1, <2>2, RowsStay DEF TypeInv, TypeOK
  <1> QED
    BY <1>2, <1>3

LEMMA BeginType ==
  ASSUME TypeInv, NEW r \in Requests, NEW q \in Request, Begin(r, q),
         q.pc \in {"register.email", "register.name", "admin.create", "create.name"}
            => q.name \in Names
  PROVE  TypeInv'
  <1>1. /\ user' = user /\ up' = up /\ appointed' = appointed
        /\ req' = [req EXCEPT ![r] = q]
    BY DEF Begin
  <1>2. req' \in [Requests -> Request] /\ Searching'
    BY <1>1, SetType
  <1> QED
    BY <1>1, <1>2, RowsStay DEF TypeInv, TypeOK

LEMMA SearchType ==
  ASSUME AccountsAssumption, TypeInv, NEW r \in Requests,
         req[r].pc \in {"register.name", "create.name"},
         NEW next \in {"register.create", "create.email"}, SearchName(r, next)
  PROVE  TypeInv'
  <1>1. user' = user /\ up' = up /\ appointed' = appointed
    BY DEF SearchName
  <1>2. CASE Called(req[r].name) = {}
    <2>1. Goto(r, next) /\ next \in Await
      BY <1>2 DEF SearchName, Await
    <2>2. req' \in [Requests -> Request] /\ Searching'
      BY <2>1, GotoType
    <2> QED
      BY <1>1, <2>2, RowsStay DEF TypeInv, TypeOK
  <1>3. CASE Called(req[r].name) # {}
    <2>1. req[r] \in Request /\ req[r].name \in Names /\ req[r].name < LastName
      BY <1>3 DEF SearchName, TypeInv, TypeOK, Searching
    <2>2. req[r].name + 1 \in Names
      BY <2>1 DEF Names, AccountsAssumption
    <2>3. [req[r] EXCEPT !.name = req[r].name + 1] \in Request
      BY <2>1, <2>2 DEF Request
    <2>4. req' = [req EXCEPT ![r] = [req[r] EXCEPT !.name = req[r].name + 1]]
      BY <1>3 DEF SearchName, TypeInv, TypeOK
    <2>5. [req[r] EXCEPT !.name = req[r].name + 1].name \in Names
      BY <2>1, <2>2 DEF Request
    <2>6. req' \in [Requests -> Request] /\ Searching'
      BY <2>3, <2>4, <2>5, SetType
    <2> QED
      BY <1>1, <2>6, RowsStay DEF TypeInv, TypeOK
  <1> QED
    BY <1>2, <1>3

\* Creation by a request, and its end.
LEMMA CreateType ==
  ASSUME TypeInv, NEW r \in Requests, NEW a \in Accounts, NEW e \in Emails \cup {None},
         NEW n \in Names \cup {None}, NEW g \in Uids \cup {None},
         Create(a, e, n, g, FALSE), Finish(r), UNCHANGED <<up, appointed>>
  PROVE  TypeInv'
  <1>1. req' \in [Requests -> Request] /\ Searching'
    BY FinishType
  <1>2. up' = up /\ appointed' = appointed
    OBVIOUS
  <1>3. /\ user' \in [Accounts -> User]
        /\ \A b \in Accounts : user'[b].state # "there" => user'[b] = NoUser(user'[b].state)
        /\ \A b, c \in There' : b # c =>
              /\ user'[b].email # user'[c].email
              /\ user'[b].name # user'[c].name
              /\ user'[b].uid # user'[c].uid \/ user'[b].uid = None
    BY CreateRow, FALSE \in BOOLEAN
  <1> QED
    BY <1>1, <1>2, <1>3, RowsChange DEF TypeInv, TypeOK

\* Each step of a request keeps the types; those that write a row look first
\* whether its keys are free, or leave them as they are.
LEMMA TypeStart ==
  ASSUME AccountsAssumption, TypeInv, NEW r \in Requests, Start(r)
  PROVE  TypeInv'
  <1>0. 0 \in Names
    BY DEF AccountsAssumption, Names
  <1>1. ASSUME NEW e \in Emails, RegisterStart(r, e) PROVE TypeInv'
    <2> DEFINE q == [Idle EXCEPT !.pc = "register.email", !.email = e, !.name = 0]
    <2>1. q \in Request /\ q.name \in Names
      BY <1>0 DEF Idle, Request, Await
    <2>2. Begin(r, q)
      BY <1>1 DEF RegisterStart
    <2> HIDE DEF q
    <2> QED
      BY <2>1, <2>2, BeginType
  <1>2. ASSUME NEW g \in Uids, NEW e \in Emails, GoogleStart(r, g, e) PROVE TypeInv'
    <2> DEFINE q == [Idle EXCEPT !.pc = "google.find", !.uid = g, !.email = e]
    <2>1. q \in Request /\ q.pc = "google.find"
      BY DEF Idle, Request, Await
    <2>2. Begin(r, q)
      BY <1>2 DEF GoogleStart
    <2> HIDE DEF q
    <2> QED
      BY <2>1, <2>2, BeginType
  <1>3. ASSUME NEW a \in Accounts, NEW where \in {"leave.find", "rename.find"},
               NEW n \in Names \cup {None}, OwnStart(r, a, where, n)
        PROVE TypeInv'
    <2> DEFINE q == [Idle EXCEPT !.pc = where, !.by = a, !.target = a, !.name = n]
    <2>1. q \in Request /\ q.pc \in {"leave.find", "rename.find"}
      BY DEF Idle, Request, Await
    <2>2. Begin(r, q)
      BY <1>3 DEF OwnStart
    <2> HIDE DEF q
    <2> QED
      BY <2>1, <2>2, BeginType
  <1>4. ASSUME NEW a \in Accounts, NEW where \in {"admin.create", "admin.update", "admin.remove"},
               NEW b \in Accounts \cup {None}, NEW e \in Emails \cup {None},
               AdminStart(r, a, where, b, e)
        PROVE TypeInv'
    <2> DEFINE q == [Idle EXCEPT !.pc = where, !.by = a, !.target = b, !.email = e,
                                 !.name = IF where = "admin.create" THEN 0 ELSE None]
    <2>1. q \in Request /\ (q.pc = "admin.create" => q.name \in Names)
          /\ q.pc \in {"admin.create", "admin.update", "admin.remove"}
      BY <1>0 DEF Idle, Request, Await
    <2>2. Begin(r, q)
      BY <1>4 DEF AdminStart
    <2> HIDE DEF q
    <2> QED
      BY <2>1, <2>2, BeginType
  <1>5. ASSUME NEW b \in Accounts, DevStart(r, b) PROVE TypeInv'
    <2> DEFINE q == [Idle EXCEPT !.pc = "dev.find", !.target = b]
    <2>1. q \in Request /\ q.pc = "dev.find"
      BY DEF Idle, Request, Await
    <2>2. Begin(r, q)
      BY <1>5 DEF DevStart
    <2> HIDE DEF q
    <2> QED
      BY <2>1, <2>2, BeginType
  <1> QED
    BY <1>1, <1>2, <1>3, <1>4, <1>5 DEF Start

LEMMA TypeStep ==
  ASSUME AccountsAssumption, TypeInv, NEW r \in Requests, Step(r)
  PROVE  TypeInv'
  <1>0. req[r] \in Request /\ (up \in BOOLEAN) /\ appointed \subseteq Accounts
    BY DEF TypeInv, TypeOK
  <1>t. /\ req[r].email \in Emails \cup {None} /\ req[r].name \in Names \cup {None}
        /\ req[r].uid \in Uids \cup {None}
    BY <1>0, RequestType
  <1>n. req[r].pc \in {"register.email", "register.name", "admin.create", "create.name"}
           => req[r].name \in Names
    BY DEF TypeInv, Searching
  <1>1. ASSUME RegisterEmail(r) PROVE TypeInv'
    <2>1. PICK next \in {"register.name", "refused"} : Read(r, next)
      BY <1>1 DEF RegisterEmail
    <2> QED
      BY <1>1, <1>n, <2>1, ReadType DEF RegisterEmail, At, Await
  <1>2. ASSUME RegisterName(r) PROVE TypeInv'
    BY <1>2, SearchType DEF RegisterName, At
  <1>3. ASSUME NEW a \in Accounts, RegisterCreate(r, a) PROVE TypeInv'
    BY <1>3, <1>t, CreateType DEF RegisterCreate
  <1>4. ASSUME GoogleFind(r) PROVE TypeInv'
    <2> DEFINE b == IF Linked(req[r].uid) = {} THEN None
                    ELSE CHOOSE a \in Linked(req[r].uid) : TRUE
    <2>1. b \in Accounts \cup {None}
      BY DEF Linked, There
    <2>2. /\ req' = [req EXCEPT ![r] = [req[r] EXCEPT !.pc = "google.write", !.target = b]]
          /\ UNCHANGED <<user, up, appointed>>
      BY <1>4 DEF GoogleFind, TypeInv, TypeOK
    <2> HIDE DEF b
    <2>3. [req[r] EXCEPT !.pc = "google.write", !.target = b] \in Request
      BY <1>0, <2>1 DEF Request, Await
    <2>4. [req[r] EXCEPT !.pc = "google.write", !.target = b].pc = "google.write"
      BY <1>0 DEF Request
    <2>5. req' \in [Requests -> Request] /\ Searching'
      BY <2>2, <2>3, <2>4, SetType
    <2> QED
      BY <1>0, <2>2, <2>5, RowsStay
  <1>5. ASSUME GoogleUpdate(r) PROVE TypeInv'
    <2> DEFINE a == req[r].target
    <2> DEFINE u == [user[a] EXCEPT !.email = req[r].email]
    <2>1. a \in There /\ Holder(req[r].email) \subseteq {a} /\ user' = [user EXCEPT ![a] = u]
      BY <1>5 DEF GoogleUpdate, TypeInv, TypeOK, There
    <2>2. user[a] \in User /\ user[a].state = "there"
      BY <2>1 DEF There, TypeInv, TypeOK
    <2>3. u \in User /\ u.state = "there" /\ u.email = req[r].email
          /\ u.name = user[a].name /\ u.uid = user[a].uid
      BY <1>t, <2>2 DEF User
    <2>4. Called(user[a].name) \subseteq {a}
      BY <2>1, OwnKeys
    <2>5. Holder(u.email) \subseteq {a} /\ Called(u.name) \subseteq {a}
      BY <2>1, <2>3, <2>4
    <2>6. Finish(r) /\ up' = up /\ appointed' = appointed
      BY <1>5 DEF GoogleUpdate
    <2>7. req' \in [Requests -> Request] /\ Searching'
      BY <2>6, FinishType
    <2> HIDE DEF u, a
    <2> QED
      BY <1>0, <2>1, <2>3, <2>5, <2>6, <2>7, ChangeRow
  <1>6. ASSUME NEW a \in Accounts, NEW n \in Names, GoogleCreate(r, a, n) PROVE TypeInv'
    BY <1>6, <1>t, CreateType DEF GoogleCreate
  <1>7. ASSUME RenameFind(r) PROVE TypeInv'
    <2>1. user' = user /\ up' = up /\ appointed' = appointed
      BY <1>7 DEF RenameFind
    <2>2. CASE req[r].by \in There
      <3> DEFINE n == IF req[r].name = None THEN user[req[r].by].name ELSE req[r].name
      <3>1. n \in Names \cup {None}
        BY <1>t, <2>2 DEF TypeInv, TypeOK, User, There
      <3>2. req' = [req EXCEPT ![r] = [req[r] EXCEPT !.pc = "rename.write", !.name = n]]
        BY <1>0, <1>7, <2>2 DEF RenameFind, TypeInv, TypeOK, Request
      <3> HIDE DEF n
      <3>3. [req[r] EXCEPT !.pc = "rename.write", !.name = n] \in Request
        BY <1>0, <3>1 DEF Request, Await
      <3>4. [req[r] EXCEPT !.pc = "rename.write", !.name = n].pc = "rename.write"
        BY <1>0 DEF Request
      <3>5. req' \in [Requests -> Request] /\ Searching'
        BY <3>2, <3>3, <3>4, SetType
      <3> QED
        BY <1>0, <2>1, <3>5, RowsStay
    <2>3. CASE req[r].by \notin There
      <3>1. Finish(r)
        BY <1>7, <2>3 DEF RenameFind, Finish
      <3> QED
        BY <1>0, <2>1, <3>1, FinishType, RowsStay
    <2> QED
      BY <2>2, <2>3
  <1>8. ASSUME RenameWrite(r) PROVE TypeInv'
    <2> DEFINE a == req[r].by
    <2> DEFINE u == [user[a] EXCEPT !.name = req[r].name]
    <2>1. a \in There /\ Called(req[r].name) \subseteq {a} /\ user' = [user EXCEPT ![a] = u]
      BY <1>8 DEF RenameWrite, TypeInv, TypeOK, There
    <2>2. user[a] \in User /\ user[a].state = "there"
      BY <2>1 DEF There, TypeInv, TypeOK
    <2>3. u \in User /\ u.state = "there" /\ u.name = req[r].name
          /\ u.email = user[a].email /\ u.uid = user[a].uid
      BY <1>t, <2>2 DEF User
    <2>4. Holder(user[a].email) \subseteq {a}
      BY <2>1, OwnKeys
    <2>5. Holder(u.email) \subseteq {a} /\ Called(u.name) \subseteq {a}
      BY <2>1, <2>3, <2>4
    <2>6. Finish(r) /\ up' = up /\ appointed' = appointed
      BY <1>8 DEF RenameWrite
    <2>7. req' \in [Requests -> Request] /\ Searching'
      BY <2>6, FinishType
    <2> HIDE DEF u, a
    <2> QED
      BY <1>0, <2>1, <2>3, <2>5, <2>6, <2>7, ChangeRow
  <1>9. ASSUME LeaveFind(r) PROVE TypeInv'
    <2>1. PICK next \in {"leave.delete", "refused"} : Read(r, next)
      BY <1>9 DEF LeaveFind
    <2> QED
      BY <2>1, ReadType DEF Await
  <1>10. ASSUME LeaveDelete(r) PROVE TypeInv'
    <2>1. /\ req[r].by \in There /\ user' = [user EXCEPT ![req[r].by] = NoUser("gone")]
          /\ appointed' \subseteq appointed /\ up' = up /\ Finish(r)
      BY <1>10 DEF LeaveDelete
    <2> QED
      BY <1>0, <2>1, FinishType, DropRow
  <1>11. ASSUME AdminCreate(r) PROVE TypeInv'
    <2>1. PICK next \in {"create.name", "refused"} : Read(r, next)
      BY <1>11 DEF AdminCreate
    <2> QED
      BY <1>11, <1>n, <2>1, ReadType DEF AdminCreate, At, Await
  <1>12. ASSUME CreateName(r) PROVE TypeInv'
    BY <1>12, SearchType DEF CreateName, At
  <1>13. ASSUME CreateEmail(r) PROVE TypeInv'
    <2>1. PICK next \in {"create.create", "refused"} : Read(r, next)
      BY <1>13 DEF CreateEmail
    <2> QED
      BY <2>1, ReadType DEF Await
  <1>14. ASSUME NEW a \in Accounts, CreateCreate(r, a) PROVE TypeInv'
    BY <1>14, <1>t, CreateType DEF CreateCreate
  <1>15. ASSUME AdminUpdate(r) PROVE TypeInv'
    <2>1. PICK next \in {"update.write", "refused"} : Read(r, next)
      BY <1>15 DEF AdminUpdate
    <2> QED
      BY <2>1, ReadType DEF Await
  <1>16. ASSUME NEW given \in BOOLEAN, UpdateWrite(r, given) PROVE TypeInv'
    <2> DEFINE b == req[r].target
    <2>1. b \in There /\ Finish(r) /\ up' = up /\ appointed' \subseteq appointed
      BY <1>16 DEF UpdateWrite
    <2>2. req' \in [Requests -> Request] /\ Searching'
      BY <2>1, FinishType
    <2>3. CASE given
      <3> DEFINE u == [user[b] EXCEPT !.super = FALSE]
      <3>1. user' = [user EXCEPT ![b] = u]
        BY <1>16, <2>1, <2>3 DEF UpdateWrite, TypeInv, TypeOK, There
      <3>2. user[b] \in User /\ user[b].state = "there"
        BY <2>1 DEF There, TypeInv, TypeOK
      <3>3. u \in User /\ u.state = "there" /\ u.name = user[b].name
            /\ u.email = user[b].email /\ u.uid = user[b].uid
        BY <3>2 DEF User
      <3>4. Holder(u.email) \subseteq {b} /\ Called(u.name) \subseteq {b}
        BY <2>1, <3>3, OwnKeys
      <3> HIDE DEF u, b
      <3> QED
        BY <1>0, <2>1, <2>2, <3>1, <3>3, <3>4, ChangeRow
    <2>4. CASE ~given
      <3>1. user' = user
        BY <1>16, <2>4 DEF UpdateWrite
      <3> QED
        BY <1>0, <2>1, <2>2, <3>1, RowsStay
    <2> QED
      BY <2>3, <2>4
  <1>17. ASSUME AdminRemove(r) PROVE TypeInv'
    <2>1. PICK next \in {"remove.delete", "refused"} : Read(r, next)
      BY <1>17 DEF AdminRemove
    <2> QED
      BY <2>1, ReadType DEF Await
  <1>18. ASSUME RemoveDelete(r) PROVE TypeInv'
    <2>1. /\ req[r].target \in There /\ user' = [user EXCEPT ![req[r].target] = NoUser("gone")]
          /\ appointed' = appointed /\ up' = up /\ Finish(r)
      BY <1>18 DEF RemoveDelete
    <2> QED
      BY <1>0, <2>1, FinishType, DropRow
  <1>19. ASSUME DevFind(r) PROVE TypeInv'
    <2>1. PICK next \in {"dev.delete", "refused"} : Read(r, next)
      BY <1>19 DEF DevFind
    <2> QED
      BY <2>1, ReadType DEF Await
  <1>20. ASSUME DevDelete(r) PROVE TypeInv'
    <2>1. /\ req[r].target \in There /\ user' = [user EXCEPT ![req[r].target] = NoUser("gone")]
          /\ appointed' \subseteq appointed /\ up' = up /\ Finish(r)
      BY <1>20 DEF DevDelete
    <2> QED
      BY <1>0, <2>1, FinishType, DropRow
  <1> QED
    BY <1>1, <1>2, <1>3, <1>4, <1>5, <1>6, <1>7, <1>8, <1>9, <1>10, <1>11, <1>12,
       <1>13, <1>14, <1>15, <1>16, <1>17, <1>18, <1>19, <1>20 DEF Step

LEMMA TypeNext == AccountsAssumption /\ TypeInv /\ [Next]_vars => TypeInv'
  <1> SUFFICES ASSUME AccountsAssumption, TypeInv, [Next]_vars
               PROVE  TypeInv'
    OBVIOUS
  <1>0. /\ user \in [Accounts -> User] /\ appointed \subseteq Accounts /\ up \in BOOLEAN
        /\ req \in [Requests -> Request] /\ Searching
    BY DEF TypeInv, TypeOK
  <1>1. ASSUME NEW r \in Requests, Fail(r) PROVE TypeInv'
    <2>1. Finish(r) /\ user' = user /\ up' = up /\ appointed' = appointed
      BY <1>1 DEF Fail
    <2> QED
      BY <1>0, <2>1, FinishType, RowsStay
  <1>2. ASSUME NEW a \in Accounts, SeedUpdate(a) PROVE TypeInv'
    <2> DEFINE u == [user[a] EXCEPT !.super = TRUE]
    <2>1. /\ a \in There /\ user' = [user EXCEPT ![a] = u] /\ req' = req
          /\ up' \in BOOLEAN /\ appointed' \subseteq Accounts
      BY <1>0, <1>2 DEF SeedUpdate, Holder
    <2>2. user[a] \in User /\ user[a].state = "there"
      BY <1>0, <2>1 DEF There
    <2>3. u \in User /\ u.state = "there" /\ u.name = user[a].name
          /\ u.email = user[a].email /\ u.uid = user[a].uid
      BY <2>2 DEF User
    <2>4. Holder(u.email) \subseteq {a} /\ Called(u.name) \subseteq {a}
      BY <2>1, <2>3, OwnKeys
    <2>5. Searching'
      BY <1>0, <2>1 DEF Searching
    <2> HIDE DEF u
    <2> QED
      BY <1>0, <2>1, <2>3, <2>4, <2>5, ChangeRow
  <1>3. ASSUME NEW a \in Accounts, NEW n \in Names, SeedCreate(a, n) PROVE TypeInv'
    <2>1. /\ Create(a, AdminEmail, n, None, TRUE) /\ req' = req
          /\ up' \in BOOLEAN /\ appointed' \subseteq Accounts
      BY <1>0, <1>3 DEF SeedCreate
    <2>2. AdminEmail \in Emails \cup {None}
      BY DEF AccountsAssumption
    <2>3. /\ user' \in [Accounts -> User]
          /\ \A b \in Accounts : user'[b].state # "there" => user'[b] = NoUser(user'[b].state)
          /\ \A b, c \in There' : b # c =>
               /\ user'[b].email # user'[c].email
               /\ user'[b].name # user'[c].name
               /\ user'[b].uid # user'[c].uid \/ user'[b].uid = None
      BY <2>1, <2>2, CreateRow, TRUE \in BOOLEAN
    <2>4. Searching'
      BY <1>0, <2>1 DEF Searching
    <2> QED
      BY <1>0, <2>1, <2>3, <2>4, RowsChange
  <1>4. ASSUME Stop PROVE TypeInv'
    <2>1. /\ user' = user /\ up' = FALSE /\ appointed' = appointed
          /\ req' = [r \in Requests |-> Idle]
      BY <1>4 DEF Stop
    <2>2. req' \in [Requests -> Request] /\ Searching'
      BY <2>1, IdleType DEF Searching, Idle
    <2> QED
      BY <1>0, <2>1, <2>2, RowsStay
  <1>5. ASSUME UNCHANGED vars PROVE TypeInv'
    BY <1>5 DEF vars, TypeInv, TypeOK, Searching, There
  <1> QED
    BY <1>1, <1>2, <1>3, <1>4, <1>5, TypeStart, TypeStep DEF Next

-----------------------------------------------------------------------------
(* SUPER_ADMINs *)

LEMMA RoleInit == Init => RoleInv
  <1> SUFFICES ASSUME Init PROVE RoleInv
    OBVIOUS
  <1>1. /\ user = [a \in Accounts |-> NoUser("unborn")] /\ up = FALSE /\ appointed = {}
        /\ req = [r \in Requests |-> Idle]
    BY DEF Init
  <1>2. NoUser("unborn").state = "unborn"
    BY DEF NoUser
  <1>3. Supers = {}
    BY <1>1, <1>2 DEF Supers, There
  <1> QED
    BY <1>1, <1>3 DEF RoleInv, SupersAreAppointed, At, Idle

\* A step of a request that lets nobody become SUPER_ADMIN, and appoints nobody,
\* keeps what the other requests have read.
LEMMA OthersKnow ==
  ASSUME TypeInv, RoleInv, NEW r \in Requests, up, up',
         Supers' \subseteq Supers, SupersAreAppointed',
         \A s \in Requests \ {r} : req'[s] = req[s],
         req'[r].pc = "update.write" /\ req'[r].target \in Supers' => req'[r].target = req'[r].by,
         req'[r].pc = "remove.delete" => req'[r].target \notin Supers'
  PROVE  RoleInv'
  <1>1. ASSUME NEW s \in Requests
        PROVE  /\ req'[s].pc = "update.write" /\ req'[s].target \in Supers' => req'[s].target = req'[s].by
               /\ req'[s].pc = "remove.delete" => req'[s].target \notin Supers'
    <2>1. CASE s = r
      BY <2>1
    <2>2. CASE s # r
      <3>1. req'[s] = req[s]
        BY <2>2
      <3> QED
        BY <3>1 DEF RoleInv, At
    <2> QED
      BY <2>1, <2>2
  <1> QED
    BY <1>1 DEF RoleInv, At

\* While a request runs the server is up.
LEMMA UpWhileRunning ==
  ASSUME RoleInv, NEW r \in Requests, req[r].pc # "idle", up' = up, TypeInv
  PROVE  up /\ up'
  BY DEF RoleInv, Idle, TypeInv, TypeOK

\* A step that writes no row and goes elsewhere than to the two writes.
LEMMA RoleKept ==
  ASSUME TypeInv, RoleInv, NEW r \in Requests, up, NEW q,
         req' = [req EXCEPT ![r] = q], q.pc \notin {"update.write", "remove.delete"},
         UNCHANGED <<user, up, appointed>>
  PROVE  RoleInv'
  <1>1. Supers' = Supers /\ SupersAreAppointed' /\ up'
    BY DEF Supers, There, SupersAreAppointed, RoleInv
  <1>2. \A s \in Requests : req'[s] = IF s = r THEN q ELSE req[s]
    BY DEF TypeInv, TypeOK
  <1> QED
    BY <1>1, <1>2, OthersKnow

\* One that writes a row and ends the request.
LEMMA RoleWritten ==
  ASSUME TypeInv, RoleInv, NEW r \in Requests, req[r].pc # "idle", Finish(r), up' = up,
         Supers' \subseteq Supers, Supers' = appointed'
  PROVE  RoleInv'
  <1>1. up /\ up'
    BY UpWhileRunning
  <1>2. \A s \in Requests : req'[s] = IF s = r THEN Idle ELSE req[s]
    BY DEF Finish, TypeInv, TypeOK
  <1>3. Idle.pc = "idle"
    BY DEF Idle
  <1> QED
    BY <1>1, <1>2, <1>3, OthersKnow DEF SupersAreAppointed

\* What a write does to the set of SUPER_ADMINs.
LEMMA SupersAfter ==
  ASSUME TypeInv, NEW a \in Accounts, NEW u, user' = [user EXCEPT ![a] = u]
  PROVE  Supers' = (Supers \ {a}) \cup (IF u.state = "there" /\ u.super THEN {a} ELSE {})
  <1>1. \A b \in Accounts : user'[b] = IF b = a THEN u ELSE user[b]
    BY DEF TypeInv, TypeOK
  <1> QED
    BY <1>1 DEF Supers, There

LEMMA CreateSupers ==
  ASSUME TypeInv, NEW a \in Accounts, NEW e, NEW n, NEW g, NEW super \in BOOLEAN,
         Create(a, e, n, g, super)
  PROVE  Supers' = Supers \cup (IF super THEN {a} ELSE {})
  <1> DEFINE u == [state |-> "there", email |-> e, name |-> n, uid |-> g, super |-> super]
  <1>1. user' = [user EXCEPT ![a] = u] /\ a \notin Supers
    BY DEF Create, Supers, There
  <1>2. u.state = "there" /\ u.super = super
    OBVIOUS
  <1> HIDE DEF u
  <1> QED
    BY <1>1, <1>2, SupersAfter

LEMMA DropSupers ==
  ASSUME TypeInv, NEW a \in There, user' = [user EXCEPT ![a] = NoUser("gone")]
  PROVE  Supers' = Supers \ {a}
  <1>1. NoUser("gone").state = "gone" /\ a \in Accounts
    BY DEF NoUser, There
  <1> QED
    BY <1>1, SupersAfter

LEMMA RoleStep ==
  ASSUME TypeInv, RoleInv, NEW r \in Requests, Step(r)
  PROVE  RoleInv'
  <1>0. req[r] \in Request /\ user \in [Accounts -> User] /\ Supers = appointed
    BY DEF TypeInv, TypeOK, RoleInv, SupersAreAppointed
  \* What a read without consequences for the role does.
  <1>r. ASSUME NEW next, Read(r, next), next \notin {"update.write", "remove.delete"},
               req[r].pc # "idle"
        PROVE  RoleInv'
    <2>1. up
      BY <1>r DEF RoleInv, Idle
    <2>2. UNCHANGED <<user, up, appointed>>
      BY <1>r DEF Read
    <2>3. CASE next = "refused"
      <3>1. req' = [req EXCEPT ![r] = Idle] /\ Idle.pc = "idle"
        BY <1>r, <2>3 DEF Read, Finish, Idle
      <3> QED
        BY <2>1, <2>2, <3>1, RoleKept
    <2>4. CASE next # "refused"
      <3> DEFINE q == [req[r] EXCEPT !.pc = next]
      <3>1. req' = [req EXCEPT ![r] = q] /\ q.pc = next
        BY <1>0, <1>r, <2>4 DEF Read, Goto, Request, TypeInv, TypeOK
      <3> HIDE DEF q
      <3> QED
        BY <1>r, <2>1, <2>2, <3>1, RoleKept
    <2> QED
      BY <2>3, <2>4
  \* And the search for a name.
  <1>s. ASSUME NEW next, SearchName(r, next), next \notin {"update.write", "remove.delete"},
               req[r].pc \in {"register.name", "create.name"}
        PROVE  RoleInv'
    <2>1. up
      BY <1>s DEF RoleInv, Idle
    <2>2. UNCHANGED <<user, up, appointed>>
      BY <1>s DEF SearchName
    <2>3. CASE Called(req[r].name) = {}
      <3> DEFINE q == [req[r] EXCEPT !.pc = next]
      <3>1. req' = [req EXCEPT ![r] = q] /\ q.pc = next
        BY <1>0, <1>s, <2>3 DEF SearchName, Goto, Request, TypeInv, TypeOK
      <3> HIDE DEF q
      <3> QED
        BY <1>s, <2>1, <2>2, <3>1, RoleKept
    <2>4. CASE Called(req[r].name) # {}
      <3> DEFINE q == [req[r] EXCEPT !.name = req[r].name + 1]
      <3>1. req' = [req EXCEPT ![r] = q]
        BY <1>s, <2>4 DEF SearchName, TypeInv, TypeOK
      <3>2. q.pc = req[r].pc
        BY <1>0 DEF Request
      <3> HIDE DEF q
      <3> QED
        BY <1>s, <2>1, <2>2, <3>1, <3>2, RoleKept
    <2> QED
      BY <2>3, <2>4
  \* And the creation of a row.
  <1>c. ASSUME NEW a \in Accounts, NEW e, NEW n, NEW g, Create(a, e, n, g, FALSE),
               Finish(r), UNCHANGED <<up, appointed>>, req[r].pc # "idle"
        PROVE  RoleInv'
    <2>1. Supers' = Supers
      BY <1>c, CreateSupers, FALSE \in BOOLEAN
    <2> QED
      BY <1>0, <1>c, <2>1, RoleWritten
  \* And a write that leaves the role alone.
  <1>k. ASSUME NEW a \in There, NEW u, u.state = user[a].state, u.super = user[a].super,
               user' = [user EXCEPT ![a] = u],
               Finish(r), UNCHANGED <<up, appointed>>, req[r].pc # "idle"
        PROVE  RoleInv'
    <2>0. a \in Accounts /\ user[a].state = "there"
      BY DEF There
    <2>1. Supers' = (Supers \ {a}) \cup (IF user[a].super THEN {a} ELSE {})
      BY <1>k, <2>0, SupersAfter
    <2>2. a \in Supers <=> user[a].super
      BY DEF Supers
    <2>3. Supers' = Supers
      BY <2>1, <2>2
    <2> QED
      BY <1>0, <1>k, <2>3, RoleWritten
  <1>1. ASSUME RegisterEmail(r) PROVE RoleInv'
    BY <1>1, <1>r DEF RegisterEmail, At
  <1>2. ASSUME RegisterName(r) PROVE RoleInv'
    BY <1>2, <1>s DEF RegisterName, At
  <1>3. ASSUME NEW a \in Accounts, RegisterCreate(r, a) PROVE RoleInv'
    BY <1>3, <1>c DEF RegisterCreate, At
  <1>4. ASSUME GoogleFind(r) PROVE RoleInv'
    <2> DEFINE b == IF Linked(req[r].uid) = {} THEN None
                    ELSE CHOOSE a \in Linked(req[r].uid) : TRUE
    <2> DEFINE q == [req[r] EXCEPT !.pc = "google.write", !.target = b]
    <2>1. /\ req' = [req EXCEPT ![r] = q] /\ UNCHANGED <<user, up, appointed>>
          /\ req[r].pc # "idle"
      BY <1>4 DEF GoogleFind, TypeInv, TypeOK, At
    <2> HIDE DEF b
    <2>2. q.pc = "google.write"
      BY <1>0 DEF Request
    <2>3. up
      BY <2>1 DEF RoleInv, Idle
    <2> HIDE DEF q
    <2> QED
      BY <2>1, <2>2, <2>3, RoleKept
  <1>5. ASSUME GoogleUpdate(r) PROVE RoleInv'
    <2> DEFINE a == req[r].target
    <2> DEFINE u == [user[a] EXCEPT !.email = req[r].email]
    <2>1. a \in There /\ user' = [user EXCEPT ![a] = u] /\ Finish(r)
          /\ UNCHANGED <<up, appointed>> /\ req[r].pc # "idle"
      BY <1>5 DEF GoogleUpdate, TypeInv, TypeOK, At
    <2>2. u.state = user[a].state /\ u.super = user[a].super
      BY <1>0, <2>1 DEF There, User
    <2> HIDE DEF u, a
    <2> QED
      BY <1>k, <2>1, <2>2
  <1>6. ASSUME NEW a \in Accounts, NEW n \in Names, GoogleCreate(r, a, n) PROVE RoleInv'
    BY <1>6, <1>c DEF GoogleCreate, At
  <1>7. ASSUME RenameFind(r) PROVE RoleInv'
    <2>1. UNCHANGED <<user, up, appointed>> /\ req[r].pc # "idle"
      BY <1>7 DEF RenameFind, At
    <2>2. PICK q : req' = [req EXCEPT ![r] = q] /\ q.pc \in {"rename.write", "idle"}
      <3>1. CASE req[r].by \in There
        <4> DEFINE n == IF req[r].name = None THEN user[req[r].by].name ELSE req[r].name
        <4>1. req' = [req EXCEPT ![r] = [req[r] EXCEPT !.pc = "rename.write", !.name = n]]
          BY <1>0, <1>7, <3>1 DEF RenameFind, TypeInv, TypeOK, Request
        <4> HIDE DEF n
        <4>2. [req[r] EXCEPT !.pc = "rename.write", !.name = n].pc = "rename.write"
          BY <1>0 DEF Request
        <4> QED
          BY <4>1, <4>2
      <3>2. CASE req[r].by \notin There
        <4>1. req' = [req EXCEPT ![r] = Idle]
          BY <1>7, <3>2 DEF RenameFind
        <4>2. Idle.pc = "idle"
          BY DEF Idle
        <4> QED
          BY <4>1, <4>2
      <3> QED
        BY <3>1, <3>2
    <2>3. up
      BY <2>1 DEF RoleInv, Idle
    <2> QED
      BY <2>1, <2>2, <2>3, RoleKept
  <1>8. ASSUME RenameWrite(r) PROVE RoleInv'
    <2> DEFINE a == req[r].by
    <2> DEFINE u == [user[a] EXCEPT !.name = req[r].name]
    <2>1. a \in There /\ user' = [user EXCEPT ![a] = u] /\ Finish(r)
          /\ UNCHANGED <<up, appointed>> /\ req[r].pc # "idle"
      BY <1>8 DEF RenameWrite, TypeInv, TypeOK, At
    <2>2. u.state = user[a].state /\ u.super = user[a].super
      BY <1>0, <2>1 DEF There, User
    <2> HIDE DEF u, a
    <2> QED
      BY <1>k, <2>1, <2>2
  <1>9. ASSUME LeaveFind(r) PROVE RoleInv'
    BY <1>9, <1>r DEF LeaveFind, At
  <1>10. ASSUME LeaveDelete(r) PROVE RoleInv'
    <2>1. /\ req[r].by \in There /\ user' = [user EXCEPT ![req[r].by] = NoUser("gone")]
          /\ appointed' = appointed \ {req[r].by} /\ up' = up /\ Finish(r) /\ req[r].pc # "idle"
      BY <1>10 DEF LeaveDelete, At
    <2>2. Supers' = Supers \ {req[r].by}
      BY <2>1, DropSupers
    <2> QED
      BY <1>0, <2>1, <2>2, RoleWritten
  <1>11. ASSUME AdminCreate(r) PROVE RoleInv'
    BY <1>11, <1>r DEF AdminCreate, At
  <1>12. ASSUME CreateName(r) PROVE RoleInv'
    BY <1>12, <1>s DEF CreateName, At
  <1>13. ASSUME CreateEmail(r) PROVE RoleInv'
    BY <1>13, <1>r DEF CreateEmail, At
  <1>14. ASSUME NEW a \in Accounts, CreateCreate(r, a) PROVE RoleInv'
    BY <1>14, <1>c DEF CreateCreate, At
  \* The role of the target is read: it is not a SUPER_ADMIN, or it is he himself.
  <1>15. ASSUME AdminUpdate(r) PROVE RoleInv'
    <2> DEFINE b == req[r].target
    <2>1. CASE b \in There /\ (b \in Supers => b = req[r].by)
      <3> DEFINE q == [req[r] EXCEPT !.pc = "update.write"]
      <3>1. req' = [req EXCEPT ![r] = q] /\ UNCHANGED <<user, up, appointed>>
        BY <1>15, <2>1 DEF AdminUpdate, Read, Goto, TypeInv, TypeOK
      <3>2. q.pc = "update.write" /\ q.target = b /\ q.by = req[r].by
        BY <1>0 DEF Request
      <3>3. up /\ up' /\ Supers' = Supers /\ SupersAreAppointed'
        BY <1>0, <1>15, <3>1 DEF RoleInv, Idle, AdminUpdate, At, Supers, There, SupersAreAppointed
      <3> HIDE DEF q
      <3>4. \A s \in Requests : req'[s] = IF s = r THEN q ELSE req[s]
        BY <3>1 DEF TypeInv, TypeOK
      <3> QED
        BY <2>1, <3>2, <3>3, <3>4, OthersKnow
    <2>2. CASE ~(b \in There /\ (b \in Supers => b = req[r].by))
      BY <1>15, <1>r, <2>2 DEF AdminUpdate, At
    <2> QED
      BY <2>1, <2>2
  \* The write meets what was read: only his own role goes.
  <1>16. ASSUME NEW given \in BOOLEAN, UpdateWrite(r, given) PROVE RoleInv'
    <2> DEFINE b == req[r].target
    <2>1. /\ b \in There /\ Finish(r) /\ up' = up /\ req[r].pc = "update.write"
          /\ user' = IF given THEN [user EXCEPT ![b].super = FALSE] ELSE user
          /\ appointed' = IF given /\ b = req[r].by THEN appointed \ {b} ELSE appointed
      BY <1>16 DEF UpdateWrite, At
    <2>2. b \in Supers => b = req[r].by
      BY <2>1 DEF RoleInv, At
    <2>3. Supers' = IF given THEN Supers \ {b} ELSE Supers
      <3>1. CASE given
        <4> DEFINE u == [user[b] EXCEPT !.super = FALSE]
        <4>1. user' = [user EXCEPT ![b] = u]
          BY <1>0, <2>1, <3>1 DEF There
        <4>2. user[b] \in User /\ b \in Accounts
          BY <1>0, <2>1 DEF There
        <4>3. ~u.super
          BY <4>2 DEF User
        <4> HIDE DEF u, b
        <4> QED
          BY <3>1, <4>1, <4>2, <4>3, SupersAfter
      <3>2. CASE ~given
        BY <2>1, <3>2 DEF Supers, There
      <3> QED
        BY <3>1, <3>2
    <2>4. Supers' = appointed' /\ Supers' \subseteq Supers
      BY <1>0, <2>1, <2>2, <2>3
    <2> QED
      BY <2>1, <2>4, RoleWritten
  <1>17. ASSUME AdminRemove(r) PROVE RoleInv'
    <2> DEFINE b == req[r].target
    <2>1. CASE b \in There \ Supers /\ b # req[r].by
      <3> DEFINE q == [req[r] EXCEPT !.pc = "remove.delete"]
      <3>1. req' = [req EXCEPT ![r] = q] /\ UNCHANGED <<user, up, appointed>>
        BY <1>17, <2>1 DEF AdminRemove, Read, Goto, TypeInv, TypeOK
      <3>2. q.pc = "remove.delete" /\ q.target = b
        BY <1>0 DEF Request
      <3>3. up /\ up' /\ Supers' = Supers /\ SupersAreAppointed'
        BY <1>0, <1>17, <3>1 DEF RoleInv, Idle, AdminRemove, At, Supers, There, SupersAreAppointed
      <3> HIDE DEF q
      <3>4. \A s \in Requests : req'[s] = IF s = r THEN q ELSE req[s]
        BY <3>1 DEF TypeInv, TypeOK
      <3> QED
        BY <2>1, <3>2, <3>3, <3>4, OthersKnow
    <2>2. CASE ~(b \in There \ Supers /\ b # req[r].by)
      BY <1>17, <1>r, <2>2 DEF AdminRemove, At
    <2> QED
      BY <2>1, <2>2
  <1>18. ASSUME RemoveDelete(r) PROVE RoleInv'
    <2>1. /\ req[r].target \in There /\ user' = [user EXCEPT ![req[r].target] = NoUser("gone")]
          /\ appointed' = appointed /\ up' = up /\ Finish(r) /\ req[r].pc = "remove.delete"
      BY <1>18 DEF RemoveDelete, At
    <2>2. req[r].target \notin Supers
      BY <2>1 DEF RoleInv, At
    <2>3. Supers' = Supers
      BY <2>1, <2>2, DropSupers
    <2> QED
      BY <1>0, <2>1, <2>3, RoleWritten
  <1>19. ASSUME DevFind(r) PROVE RoleInv'
    BY <1>19, <1>r DEF DevFind, At
  <1>20. ASSUME DevDelete(r) PROVE RoleInv'
    <2>1. /\ req[r].target \in There /\ user' = [user EXCEPT ![req[r].target] = NoUser("gone")]
          /\ appointed' = appointed \ {req[r].target} /\ up' = up /\ Finish(r) /\ req[r].pc # "idle"
      BY <1>20 DEF DevDelete, At
    <2>2. Supers' = Supers \ {req[r].target}
      BY <2>1, DropSupers
    <2> QED
      BY <1>0, <2>1, <2>2, RoleWritten
  <1> QED
    BY <1>1, <1>2, <1>3, <1>4, <1>5, <1>6, <1>7, <1>8, <1>9, <1>10, <1>11, <1>12,
       <1>13, <1>14, <1>15, <1>16, <1>17, <1>18, <1>19, <1>20 DEF Step

LEMMA RoleStart ==
  ASSUME TypeInv, RoleInv, NEW r \in Requests, Start(r)
  PROVE  RoleInv'
  <1>0. ASSUME NEW q, Begin(r, q), q.pc \notin {"update.write", "remove.delete"}
        PROVE  RoleInv'
    BY <1>0, RoleKept DEF Begin
  <1>1. ASSUME NEW e \in Emails, RegisterStart(r, e) PROVE RoleInv'
    BY <1>0, <1>1 DEF RegisterStart, Idle
  <1>2. ASSUME NEW g \in Uids, NEW e \in Emails, GoogleStart(r, g, e) PROVE RoleInv'
    BY <1>0, <1>2 DEF GoogleStart, Idle
  <1>3. ASSUME NEW a \in Accounts, NEW where \in {"leave.find", "rename.find"},
               NEW n \in Names \cup {None}, OwnStart(r, a, where, n)
        PROVE RoleInv'
    BY <1>0, <1>3 DEF OwnStart, Idle
  <1>4. ASSUME NEW a \in Accounts, NEW where \in {"admin.create", "admin.update", "admin.remove"},
               NEW b \in Accounts \cup {None}, NEW e \in Emails \cup {None},
               AdminStart(r, a, where, b, e)
        PROVE RoleInv'
    BY <1>0, <1>4 DEF AdminStart, Idle
  <1>5. ASSUME NEW b \in Accounts, DevStart(r, b) PROVE RoleInv'
    BY <1>0, <1>5 DEF DevStart, Idle
  <1> QED
    BY <1>1, <1>2, <1>3, <1>4, <1>5 DEF Start

LEMMA RoleNext == TypeInv /\ RoleInv /\ [Next]_vars => RoleInv'
  <1> SUFFICES ASSUME TypeInv, RoleInv, [Next]_vars
               PROVE  RoleInv'
    OBVIOUS
  <1>0. Supers = appointed
    BY DEF RoleInv, SupersAreAppointed
  <1>1. ASSUME NEW r \in Requests, Fail(r) PROVE RoleInv'
    <2>1. req' = [req EXCEPT ![r] = Idle] /\ UNCHANGED <<user, up, appointed>> /\ up
      BY <1>1 DEF Fail, Finish, RoleInv
    <2>2. Idle.pc = "idle"
      BY DEF Idle
    <2> QED
      BY <2>1, <2>2, RoleKept
  \* A start makes a SUPER_ADMIN, and no request runs that could have read the row.
  <1>2. ASSUME NEW a \in Accounts, SeedUpdate(a) PROVE RoleInv'
    <2> DEFINE u == [user[a] EXCEPT !.super = TRUE]
    <2>1. /\ user' = [user EXCEPT ![a] = u] /\ user[a] \in User /\ user[a].state = "there"
          /\ appointed' = appointed \cup {a} /\ up' /\ req' = req
          /\ \A s \in Requests : req[s] = Idle
      BY <1>2 DEF SeedUpdate, Holder, There, TypeInv, TypeOK, RoleInv
    <2>2. u.state = "there" /\ u.super
      BY <2>1 DEF User
    <2> HIDE DEF u
    <2>3. Supers' = Supers \cup {a}
      BY <2>1, <2>2, SupersAfter
    <2> QED
      BY <1>0, <2>1, <2>3 DEF RoleInv, SupersAreAppointed, At, Idle
  <1>3. ASSUME NEW a \in Accounts, NEW n \in Names, SeedCreate(a, n) PROVE RoleInv'
    <2>1. /\ Create(a, AdminEmail, n, None, TRUE)
          /\ appointed' = appointed \cup {a} /\ up' /\ req' = req
          /\ \A s \in Requests : req[s] = Idle
      BY <1>3 DEF SeedCreate, RoleInv
    <2>2. Supers' = Supers \cup {a}
      BY <2>1, CreateSupers, TRUE \in BOOLEAN
    <2> QED
      BY <1>0, <2>1, <2>2 DEF RoleInv, SupersAreAppointed, At, Idle
  <1>4. ASSUME Stop PROVE RoleInv'
    BY <1>0, <1>4 DEF Stop, RoleInv, SupersAreAppointed, Supers, There, At, Idle
  <1>5. ASSUME UNCHANGED vars PROVE RoleInv'
    BY <1>5 DEF vars, RoleInv, SupersAreAppointed, Supers, There, At
  <1> QED
    BY <1>1, <1>2, <1>3, <1>4, <1>5, RoleStart, RoleStep DEF Next

-----------------------------------------------------------------------------
(* The theorems *)

\* However registrations, Google sign-ins, renames and administration overlap,
\* the rows keep their types and no two share an email, a name or a Google account.
THEOREM AccountTypes == AccountsAssumption => (Spec => []TypeOK)
  <1> SUFFICES ASSUME AccountsAssumption PROVE Spec => []TypeOK
    OBVIOUS
  <1>1. Init => TypeInv
    BY TypeInit
  <1>2. TypeInv /\ [Next]_vars => TypeInv'
    BY TypeNext
  <1>3. TypeInv => TypeOK
    BY DEF TypeInv
  <1> QED
    BY <1>1, <1>2, <1>3, PTL DEF Spec

\* A SUPER_ADMIN is made by a start of the server only, and resigns by himself or
\* is removed by the developers' tool: no administrator takes his role or his row,
\* however many of their requests overlap.
THEOREM SupersSafety == AccountsAssumption => (Spec => []SupersAreAppointed)
  <1> SUFFICES ASSUME AccountsAssumption PROVE Spec => []SupersAreAppointed
    OBVIOUS
  <1>1. Init => TypeInv /\ RoleInv
    BY TypeInit, RoleInit
  <1>2. TypeInv /\ RoleInv /\ [Next]_vars => TypeInv' /\ RoleInv'
    BY TypeNext, RoleNext
  <1>3. RoleInv => SupersAreAppointed
    BY DEF RoleInv
  <1> QED
    BY <1>1, <1>2, <1>3, PTL DEF Spec
=============================================================================
