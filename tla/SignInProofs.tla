---------------------------- MODULE SignInProofs ----------------------------
(***************************************************************************)
(* What holds of SignIn for any number of accounts, codes and requests in  *)
(* flight, and any limit of attempts.                                      *)
(***************************************************************************)
EXTENDS SignIn, FiniteSetTheorems, TLAPS

USE DEF history

-----------------------------------------------------------------------------
(* The invariant *)

Comparing(e) == InFlight({"login.find"}, e)
Counting(e) == InFlight({"login.count"}, e)

\* Every refused password has been counted, is about to be, or never will be.
\* With those that are being compared there are no more than were let through
\* below the limit.
GuessesInv ==
  \A e \in Emails :
     /\ tried[e] <= attempts[e] + uncounted[e] + Cardinality(Counting(e))
     /\ tried[e] + Cardinality(Comparing(e)) <= MaxAttempts - 1 + Cardinality(Requests) + uncounted[e]

\* Who is about to be verified has presented a code of his.
VerifyInv ==
  /\ NoBorrowedCode
  /\ \A r \in Requests : req[r].pc \in {"verify.use", "verify.update"} => req[r].user \in shown

\* What a request in each place knows.
Knows(q) ==
  /\ q.pc \in Await => q.email \in Emails
  /\ q.pc \in Await \ {"login.find", "login.count", "login.expire"} => q.user \in Accounts
  /\ q.pc \in {"verify.expired", "verify.use"} => q.code \in Codes

Knowing == \A r \in Requests : Knows(req[r])

\* The two parts of TypeOK that steps change, rows and counters.  A row that is
\* there has an email.
RowsOK ==
  /\ user \in [Accounts -> User]
  /\ code \in [Codes -> Code]
  /\ \A k \in Codes : code[k].state = "there" =>
        code[k].of # None /\ user[code[k].of].state = "there"
  /\ \A a, b \in Accounts : user[a].email = user[b].email =>
        a = b \/ user[a].email = None
  /\ \A a \in Accounts : user[a].state = "there" => user[a].email # None

CountersOK ==
  /\ attempts \in [Emails -> Nat]
  /\ timed \in [Emails -> BOOLEAN]
  /\ tried \in [Emails -> Nat]
  /\ uncounted \in [Emails -> Nat]
  /\ untimed \in [Emails -> BOOLEAN]

SignInv ==
  /\ RowsOK /\ CountersOK
  /\ shown \subseteq Accounts /\ seeded \subseteq Accounts /\ req \in [Requests -> Request]
  /\ Knowing /\ GuessesInv /\ LockIsTimed /\ VerifyInv

LEMMA InvType ==
  SignInv => TypeOK
  BY DEF SignInv, RowsOK, CountersOK, TypeOK

LEMMA IdleType == Idle \in Request /\ Idle.pc = "idle" /\ Knows(Idle)
  BY DEF Idle, Request, Knows, Await

-----------------------------------------------------------------------------
(* Requests in flight *)

LEMMA SlotAfter ==
  ASSUME SignInv, NEW r \in Requests, NEW q \in Request, req' = [req EXCEPT ![r] = q]
  PROVE  /\ req' \in [Requests -> Request]
         /\ \A s \in Requests : req'[s] = IF s = r THEN q ELSE req[s]
  BY DEF SignInv

\* Those that compare and those that count are different requests.
LEMMA DisjointSizes ==
  ASSUME SignInAssumption, NEW S \in SUBSET Requests, NEW T \in SUBSET Requests, S \cap T = {}
  PROVE  /\ IsFiniteSet(S) /\ Cardinality(S) \in Nat
         /\ IsFiniteSet(T) /\ Cardinality(T) \in Nat
         /\ Cardinality(Requests) \in Nat
         /\ Cardinality(S) + Cardinality(T) <= Cardinality(Requests)
  <1>1. IsFiniteSet(Requests)
    BY DEF SignInAssumption
  <1>2. IsFiniteSet(S) /\ IsFiniteSet(T)
    BY <1>1, FS_Subset
  <1>3. Cardinality(S \cup T) <= Cardinality(Requests)
    BY <1>1, FS_Subset
  <1>4. Cardinality(S \cup T) = Cardinality(S) + Cardinality(T) - Cardinality(S \cap T)
    BY <1>2, FS_Union
  <1>5. Cardinality(S \cap T) = 0
    BY FS_EmptySet
  <1>6. Cardinality(S) \in Nat /\ Cardinality(T) \in Nat /\ Cardinality(Requests) \in Nat
    BY <1>1, <1>2, FS_CardinalityType
  <1> QED
    BY <1>2, <1>3, <1>4, <1>5, <1>6

LEMMA Sizes ==
  ASSUME SignInAssumption, NEW e
  PROVE  /\ IsFiniteSet(Comparing(e)) /\ Cardinality(Comparing(e)) \in Nat
         /\ IsFiniteSet(Counting(e)) /\ Cardinality(Counting(e)) \in Nat
         /\ Cardinality(Requests) \in Nat
         /\ Cardinality(Comparing(e)) + Cardinality(Counting(e)) <= Cardinality(Requests)
  <1>1. /\ Comparing(e) \in SUBSET Requests /\ Counting(e) \in SUBSET Requests
        /\ Comparing(e) \cap Counting(e) = {}
    BY DEF Comparing, Counting, InFlight
  <1> QED
    BY <1>1, DisjointSizes

\* How a finite set grows and shrinks by one element.
LEMMA OneMore ==
  ASSUME NEW S, NEW T, NEW x, IsFiniteSet(S)
  PROVE  /\ T = S => Cardinality(T) = Cardinality(S)
         /\ x \in S /\ T = S \ {x} => Cardinality(T) = Cardinality(S) - 1
         /\ x \notin S /\ T = S \cup {x} => Cardinality(T) = Cardinality(S) + 1
  BY FS_AddElement, FS_RemoveElement

\* The sizes of both sets when a request goes on: it leaves one, enters one, or
\* neither.
LEMMA SizesAfter ==
  ASSUME SignInAssumption, SignInv, NEW e,
         NEW r \in Requests, NEW q \in Request, req' = [req EXCEPT ![r] = q]
  PROVE  /\ (req[r].pc = "login.find" /\ req[r].email = e) <=> (q.pc = "login.find" /\ q.email = e)
              => Cardinality(Comparing(e)') = Cardinality(Comparing(e))
         /\ (req[r].pc = "login.find" /\ req[r].email = e) /\ ~(q.pc = "login.find" /\ q.email = e)
              => Cardinality(Comparing(e)') = Cardinality(Comparing(e)) - 1
         /\ ~(req[r].pc = "login.find" /\ req[r].email = e) /\ (q.pc = "login.find" /\ q.email = e)
              => Cardinality(Comparing(e)') = Cardinality(Comparing(e)) + 1
         /\ (req[r].pc = "login.count" /\ req[r].email = e) <=> (q.pc = "login.count" /\ q.email = e)
              => Cardinality(Counting(e)') = Cardinality(Counting(e))
         /\ (req[r].pc = "login.count" /\ req[r].email = e) /\ ~(q.pc = "login.count" /\ q.email = e)
              => Cardinality(Counting(e)') = Cardinality(Counting(e)) - 1
         /\ ~(req[r].pc = "login.count" /\ req[r].email = e) /\ (q.pc = "login.count" /\ q.email = e)
              => Cardinality(Counting(e)') = Cardinality(Counting(e)) + 1
         /\ Cardinality(Comparing(e)') + Cardinality(Counting(e)') <= Cardinality(Requests)
  <1>1. \A s \in Requests : req'[s] = IF s = r THEN q ELSE req[s]
    BY SlotAfter
  <1>2. /\ r \in Comparing(e) <=> req[r].pc = "login.find" /\ req[r].email = e
        /\ r \in Comparing(e)' <=> q.pc = "login.find" /\ q.email = e
        /\ \A s : s # r => (s \in Comparing(e) <=> s \in Comparing(e)')
    BY <1>1 DEF Comparing, InFlight
  <1>3. /\ r \in Counting(e) <=> req[r].pc = "login.count" /\ req[r].email = e
        /\ r \in Counting(e)' <=> q.pc = "login.count" /\ q.email = e
        /\ \A s : s # r => (s \in Counting(e) <=> s \in Counting(e)')
    BY <1>1 DEF Counting, InFlight
  <1>4. ASSUME NEW S, NEW T, IsFiniteSet(S), \A s : s # r => (s \in S <=> s \in T)
        PROVE  /\ (r \in S <=> r \in T) => Cardinality(T) = Cardinality(S)
               /\ r \in S /\ r \notin T => Cardinality(T) = Cardinality(S) - 1
               /\ r \notin S /\ r \in T => Cardinality(T) = Cardinality(S) + 1
    <2>1. /\ (r \in S <=> r \in T) => T = S
          /\ r \in S /\ r \notin T => T = S \ {r}
          /\ r \notin S /\ r \in T => T = S \cup {r}
      BY <1>4
    <2> QED
      BY <1>4, <2>1, OneMore
  <1>5. IsFiniteSet(Comparing(e)) /\ IsFiniteSet(Counting(e))
    BY Sizes
  <1>6. /\ (r \in Comparing(e) <=> r \in Comparing(e)')
             => Cardinality(Comparing(e)') = Cardinality(Comparing(e))
        /\ r \in Comparing(e) /\ r \notin Comparing(e)'
             => Cardinality(Comparing(e)') = Cardinality(Comparing(e)) - 1
        /\ r \notin Comparing(e) /\ r \in Comparing(e)'
             => Cardinality(Comparing(e)') = Cardinality(Comparing(e)) + 1
    BY <1>2, <1>4, <1>5
  <1>7. /\ (r \in Counting(e) <=> r \in Counting(e)')
             => Cardinality(Counting(e)') = Cardinality(Counting(e))
        /\ r \in Counting(e) /\ r \notin Counting(e)'
             => Cardinality(Counting(e)') = Cardinality(Counting(e)) - 1
        /\ r \notin Counting(e) /\ r \in Counting(e)'
             => Cardinality(Counting(e)') = Cardinality(Counting(e)) + 1
    BY <1>3, <1>4, <1>5
  <1>8. Cardinality(Comparing(e)') + Cardinality(Counting(e)') <= Cardinality(Requests)
    <2>1. /\ Comparing(e)' \in SUBSET Requests /\ Counting(e)' \in SUBSET Requests
          /\ Comparing(e)' \cap Counting(e)' = {}
      BY DEF Comparing, Counting, InFlight
    <2> QED
      BY <2>1, DisjointSizes
  <1> QED
    BY <1>2, <1>3, <1>6, <1>7, <1>8

-----------------------------------------------------------------------------
(* Steps of one request *)

\* A step keeps the invariant if what it writes does and its request knows what
\* it must in its next place.
LEMMA RequestStep ==
  ASSUME SignInv, NEW r \in Requests, NEW q \in Request, req' = [req EXCEPT ![r] = q], Knows(q),
         RowsOK', CountersOK', GuessesInv', LockIsTimed',
         shown \subseteq shown', shown' \subseteq Accounts, UNCHANGED seeded,
         \A a \in Accounts : user'[a].verified => user[a].verified \/ a \in shown',
         q.pc \in {"verify.use", "verify.update"} => q.user \in shown'
  PROVE  SignInv'
  <1>1. /\ req' \in [Requests -> Request]
        /\ \A s \in Requests : req'[s] = IF s = r THEN q ELSE req[s]
    BY SlotAfter
  <1>2. Knowing'
    <2>1. \A s \in Requests : Knows(req'[s])
      BY <1>1 DEF SignInv, Knowing
    <2> QED
      BY <2>1 DEF Knowing, Knows
  <1>3. VerifyInv'
    BY <1>1 DEF SignInv, VerifyInv, NoBorrowedCode
  <1> QED
    BY <1>1, <1>2, <1>3 DEF SignInv

\* Requests that are beyond the password leave the counter alone.
LEMMA QuietStep ==
  ASSUME SignInAssumption, SignInv,
         NEW r \in Requests, NEW q \in Request, req' = [req EXCEPT ![r] = q], Knows(q),
         req[r].pc \notin {"login.count", "login.expire"},
         q.pc \notin {"login.find", "login.count", "login.expire"},
         UNCHANGED counter,
         RowsOK',
         shown \subseteq shown', shown' \subseteq Accounts, UNCHANGED seeded,
         \A a \in Accounts : user'[a].verified => user[a].verified \/ a \in shown',
         q.pc \in {"verify.use", "verify.update"} => q.user \in shown'
  PROVE  SignInv'
  <1>0. UNCHANGED <<attempts, timed, tried, uncounted, untimed>>
    BY DEF counter
  <1>1. CountersOK'
    BY <1>0 DEF SignInv, CountersOK
  <1>2. GuessesInv'
    <2> SUFFICES ASSUME NEW e \in Emails
                 PROVE  /\ tried[e] <= attempts[e] + uncounted[e] + Cardinality(Counting(e)')
                        /\ tried[e] + Cardinality(Comparing(e)')
                             <= MaxAttempts - 1 + Cardinality(Requests) + uncounted[e]
      BY <1>0 DEF GuessesInv
    <2>1. /\ Cardinality(Counting(e)') = Cardinality(Counting(e))
          /\ \/ Cardinality(Comparing(e)') = Cardinality(Comparing(e)) - 1
             \/ Cardinality(Comparing(e)') = Cardinality(Comparing(e))
      BY SizesAfter
    <2>2. /\ tried[e] <= attempts[e] + uncounted[e] + Cardinality(Counting(e))
          /\ tried[e] + Cardinality(Comparing(e)) <= MaxAttempts - 1 + Cardinality(Requests) + uncounted[e]
          /\ tried[e] \in Nat /\ attempts[e] \in Nat /\ uncounted[e] \in Nat
      BY DEF SignInv, GuessesInv, CountersOK
    <2>3. /\ Cardinality(Comparing(e)) \in Nat /\ Cardinality(Counting(e)) \in Nat
          /\ Cardinality(Requests) \in Nat /\ MaxAttempts \in Nat
      BY Sizes DEF SignInAssumption
    <2> QED
      BY <2>1, <2>2, <2>3
  <1>3. LockIsTimed'
    <2>1. \A s \in Requests : req'[s] = IF s = r THEN q ELSE req[s]
      BY SlotAfter
    <2>2. \A e \in Emails : InFlight({"login.expire"}, e) \subseteq InFlight({"login.expire"}, e)'
      BY <2>1 DEF InFlight
    <2> QED
      BY <1>0, <2>2 DEF SignInv, LockIsTimed
  <1> QED
    BY <1>1, <1>2, <1>3, RequestStep

\* Steps that write the counter write no row.
LEMMA CounterStep ==
  ASSUME SignInv, NEW r \in Requests, NEW q \in Request, req' = [req EXCEPT ![r] = q], Knows(q),
         q.pc \notin {"verify.use", "verify.update"},
         UNCHANGED <<user, code, history>>,
         CountersOK', GuessesInv', LockIsTimed'
  PROVE  SignInv'
  <1>1. RowsOK' /\ shown' \subseteq Accounts
    BY DEF SignInv, RowsOK
  <1> QED
    BY <1>1, RequestStep

\* The three ways in which a request gets to its next place.
LEMMA BeginReq ==
  ASSUME SignInv, NEW r \in Requests, NEW where \in Await, NEW e \in Emails,
         NEW a \in Accounts \cup {None}, Begin(r, where, e, a)
  PROVE  /\ req[r] = Idle
         /\ \E q \in Request : /\ req' = [req EXCEPT ![r] = q]
                               /\ q.pc = where /\ q.email = e /\ q.user = a
  <1> DEFINE q == [Idle EXCEPT !.pc = where, !.email = e, !.user = a]
  <1>1. q \in Request /\ q.pc = where /\ q.email = e /\ q.user = a
    BY DEF Idle, Request
  <1>2. req' = [req EXCEPT ![r] = q] /\ req[r] = Idle
    BY DEF Begin
  <1> QED
    BY <1>1, <1>2

LEMMA GotoReq ==
  ASSUME SignInv, NEW r \in Requests, NEW where \in Await, Goto(r, where)
  PROVE  \E q \in Request : /\ req' = [req EXCEPT ![r] = q]
                            /\ q.pc = where /\ q.email = req[r].email
                            /\ q.user = req[r].user /\ q.code = req[r].code
  <1> DEFINE q == [req[r] EXCEPT !.pc = where]
  <1>1. req[r] \in Request
    BY DEF SignInv
  <1>2. /\ q \in Request /\ q.pc = where /\ q.email = req[r].email
        /\ q.user = req[r].user /\ q.code = req[r].code
    BY <1>1 DEF Request
  <1>3. req' = [req EXCEPT ![r] = q]
    BY DEF Goto, SignInv
  <1> QED
    BY <1>2, <1>3

-----------------------------------------------------------------------------
(* The password and the counter *)

\* A counter stands where it was; numbers that the steps below rely on.
LEMMA Numbers ==
  ASSUME SignInAssumption, SignInv, NEW e \in Emails
  PROVE  /\ tried[e] <= attempts[e] + uncounted[e] + Cardinality(Counting(e))
         /\ tried[e] + Cardinality(Comparing(e)) <= MaxAttempts - 1 + Cardinality(Requests) + uncounted[e]
         /\ tried[e] \in Nat /\ attempts[e] \in Nat /\ uncounted[e] \in Nat
         /\ timed[e] \in BOOLEAN /\ untimed[e] \in BOOLEAN
         /\ Cardinality(Comparing(e)) \in Nat /\ Cardinality(Counting(e)) \in Nat
         /\ Cardinality(Requests) \in Nat /\ MaxAttempts \in Nat /\ MaxAttempts >= 1
         /\ Cardinality(Comparing(e)) + Cardinality(Counting(e)) <= Cardinality(Requests)
  BY Sizes DEF SignInv, GuessesInv, CountersOK, SignInAssumption

\* A password is let through below the limit: with those that run beside it
\* there are no more than requests.
LEMMA LoginStartStep ==
  ASSUME SignInAssumption, SignInv, NEW r \in Requests, NEW e \in Emails, LoginStart(r, e)
  PROVE  SignInv'
  <1>1. /\ attempts[e] < MaxAttempts /\ Begin(r, "login.find", e, None)
        /\ UNCHANGED <<user, code, attempts, timed, tried, uncounted, untimed, history>>
    BY DEF LoginStart, rows, counter
  <1>2. PICK q \in Request : /\ req' = [req EXCEPT ![r] = q]
                             /\ q.pc = "login.find" /\ q.email = e /\ q.user = None
    BY <1>1, BeginReq DEF Await
  <1>3. req[r] = Idle
    BY <1>1 DEF Begin
  <1>4. Knows(q) /\ q.pc \notin {"verify.use", "verify.update"}
    BY <1>2 DEF Knows
  <1>5. CountersOK'
    BY <1>1 DEF SignInv, CountersOK
  <1>6. GuessesInv'
    <2> SUFFICES ASSUME NEW d \in Emails
                 PROVE  /\ tried[d] <= attempts[d] + uncounted[d] + Cardinality(Counting(d)')
                        /\ tried[d] + Cardinality(Comparing(d)')
                             <= MaxAttempts - 1 + Cardinality(Requests) + uncounted[d]
      BY <1>1 DEF GuessesInv
    <2>1. /\ Cardinality(Counting(d)') = Cardinality(Counting(d))
          /\ d = e => Cardinality(Comparing(d)') = Cardinality(Comparing(d)) + 1
          /\ d # e => Cardinality(Comparing(d)') = Cardinality(Comparing(d))
      BY <1>2, <1>3, IdleType, SizesAfter
    <2>2. Cardinality(Comparing(d)') + Cardinality(Counting(d)') <= Cardinality(Requests)
      BY <1>2, SizesAfter
    <2> QED
      BY <1>1, <2>1, <2>2, Numbers
  <1>7. LockIsTimed'
    <2>1. \A s \in Requests : req'[s] = IF s = r THEN q ELSE req[s]
      BY <1>2, SlotAfter
    <2>2. \A d \in Emails : InFlight({"login.expire"}, d) \subseteq InFlight({"login.expire"}, d)'
      BY <1>3, <2>1, IdleType DEF InFlight
    <2> QED
      BY <1>1, <2>2 DEF SignInv, LockIsTimed
  <1> QED
    BY <1>1, <1>2, <1>4, <1>5, <1>6, <1>7, CounterStep

LEMMA LoginWrongStep ==
  ASSUME SignInAssumption, SignInv, NEW r \in Requests, LoginWrong(r)
  PROVE  SignInv'
  <1>0. req[r] \in Request /\ Knows(req[r])
    BY DEF SignInv, Knowing
  <1>1. PICK e \in Emails : e = req[r].email
    BY <1>0 DEF LoginWrong, At, Knows, Await
  <1>2. /\ req[r].pc = "login.find" /\ Goto(r, "login.count")
        /\ tried' = [tried EXCEPT ![e] = tried[e] + 1]
        /\ UNCHANGED <<user, code, attempts, timed, uncounted, untimed, history>>
    BY <1>1 DEF LoginWrong, At, rows
  <1>3. PICK q \in Request : req' = [req EXCEPT ![r] = q] /\ q.pc = "login.count" /\ q.email = e
    BY <1>1, <1>2, GotoReq DEF Await
  <1>4. Knows(q) /\ q.pc \notin {"verify.use", "verify.update"}
    BY <1>3 DEF Knows
  <1>5. CountersOK' /\ \A d \in Emails : tried'[d] = tried[d] + IF d = e THEN 1 ELSE 0
    BY <1>2 DEF SignInv, CountersOK
  <1>6. GuessesInv'
    <2> SUFFICES ASSUME NEW d \in Emails
                 PROVE  /\ tried'[d] <= attempts[d] + uncounted[d] + Cardinality(Counting(d)')
                        /\ tried'[d] + Cardinality(Comparing(d)')
                             <= MaxAttempts - 1 + Cardinality(Requests) + uncounted[d]
      BY <1>2 DEF GuessesInv
    <2>1. /\ d = e => /\ Cardinality(Counting(d)') = Cardinality(Counting(d)) + 1
                      /\ Cardinality(Comparing(d)') = Cardinality(Comparing(d)) - 1
          /\ d # e => /\ Cardinality(Counting(d)') = Cardinality(Counting(d))
                      /\ Cardinality(Comparing(d)') = Cardinality(Comparing(d))
      BY <1>1, <1>2, <1>3, SizesAfter
    <2> QED
      BY <1>5, <2>1, Numbers
  <1>7. LockIsTimed'
    <2>1. \A s \in Requests : req'[s] = IF s = r THEN q ELSE req[s]
      BY <1>3, SlotAfter
    <2>2. \A d \in Emails : InFlight({"login.expire"}, d) \subseteq InFlight({"login.expire"}, d)'
      BY <1>2, <2>1 DEF InFlight
    <2> QED
      BY <1>2, <2>2 DEF SignInv, LockIsTimed
  <1> QED
    BY <1>2, <1>3, <1>4, <1>5, <1>6, <1>7, CounterStep

\* The increment that makes the key sends the one that gives it a lifetime.
LEMMA LoginCountStep ==
  ASSUME SignInAssumption, SignInv, NEW r \in Requests, LoginCount(r)
  PROVE  SignInv'
  <1>0. req[r] \in Request /\ Knows(req[r])
    BY DEF SignInv, Knowing
  <1>1. PICK e \in Emails : e = req[r].email
    BY <1>0 DEF LoginCount, At, Knows, Await
  <1>2. /\ req[r].pc = "login.count"
        /\ attempts' = [attempts EXCEPT ![e] = attempts[e] + 1]
        /\ IF attempts[e] = 0 THEN Goto(r, "login.expire") ELSE Finish(r)
        /\ UNCHANGED <<user, code, tried, timed, uncounted, untimed, history>>
    BY <1>1 DEF LoginCount, At, rows
  <1>3. PICK q \in Request : /\ req' = [req EXCEPT ![r] = q] /\ q.pc \in {"login.expire", "idle"}
                             /\ q.pc = "login.expire" => q.email = e
                             /\ attempts[e] = 0 => q.pc = "login.expire"
    <2>1. CASE attempts[e] = 0
      BY <1>1, <1>2, <2>1, GotoReq DEF Await
    <2>2. CASE attempts[e] # 0
      BY <1>2, <2>2, IdleType DEF Finish
    <2> QED
      BY <2>1, <2>2
  <1>4. Knows(q) /\ q.pc \notin {"verify.use", "verify.update"}
    BY <1>3 DEF Knows, Await
  <1>5. CountersOK' /\ \A d \in Emails : attempts'[d] = attempts[d] + IF d = e THEN 1 ELSE 0
    BY <1>2 DEF SignInv, CountersOK
  <1>6. GuessesInv'
    <2> SUFFICES ASSUME NEW d \in Emails
                 PROVE  /\ tried[d] <= attempts'[d] + uncounted[d] + Cardinality(Counting(d)')
                        /\ tried[d] + Cardinality(Comparing(d)')
                             <= MaxAttempts - 1 + Cardinality(Requests) + uncounted[d]
      BY <1>2 DEF GuessesInv
    <2>1. /\ d = e => Cardinality(Counting(d)') = Cardinality(Counting(d)) - 1
          /\ d # e => Cardinality(Counting(d)') = Cardinality(Counting(d))
          /\ Cardinality(Comparing(d)') = Cardinality(Comparing(d))
      BY <1>1, <1>2, <1>3, SizesAfter
    <2> QED
      BY <1>5, <2>1, Numbers
  <1>7. LockIsTimed'
    <2> SUFFICES ASSUME NEW d \in Emails, attempts'[d] > 0, ~timed[d], ~untimed[d]
                 PROVE  InFlight({"login.expire"}, d)' # {}
      BY <1>2 DEF LockIsTimed
    <2>1. \A s \in Requests : req'[s] = IF s = r THEN q ELSE req[s]
      BY <1>3, SlotAfter
    <2>2. CASE d = e /\ attempts[e] = 0
      BY <1>3, <2>1, <2>2 DEF InFlight
    <2>3. CASE ~(d = e /\ attempts[e] = 0)
      <3>1. attempts[d] > 0
        BY <1>5, <2>3, Numbers
      <3>2. InFlight({"login.expire"}, d) # {}
        BY <3>1 DEF SignInv, LockIsTimed
      <3>3. InFlight({"login.expire"}, d) \subseteq InFlight({"login.expire"}, d)'
        BY <1>2, <2>1 DEF InFlight
      <3> QED
        BY <3>2, <3>3
    <2> QED
      BY <2>2, <2>3
  <1> QED
    BY <1>2, <1>3, <1>4, <1>5, <1>6, <1>7, CounterStep

\* A flag of one counter is written.
LEMMA FlagSet ==
  ASSUME NEW f \in [Emails -> BOOLEAN], NEW e, NEW v \in BOOLEAN, NEW g, g = [f EXCEPT ![e] = v]
  PROVE  /\ g \in [Emails -> BOOLEAN]
         /\ \A d \in Emails : g[d] = IF d = e THEN v ELSE f[d]
  BY Zenon

\* Increments that are sent again, lifetimes, failures: none of them adds to what
\* was tried, and a lifetime that is lost is on record.
LEMMA LoginExpireStep ==
  ASSUME SignInAssumption, SignInv, NEW r \in Requests, LoginExpire(r)
  PROVE  SignInv'
  <1>0. req[r] \in Request /\ Knows(req[r])
    BY DEF SignInv, Knowing
  <1>1. PICK e \in Emails : e = req[r].email
    BY <1>0 DEF LoginExpire, At, Knows, Await
  <1>2. /\ req[r].pc = "login.expire" /\ req' = [req EXCEPT ![r] = Idle]
        /\ timed' = [timed EXCEPT ![e] = attempts[e] > 0]
        /\ untimed' = [untimed EXCEPT ![e] = FALSE]
        /\ UNCHANGED <<user, code, tried, attempts, uncounted, history>>
    BY <1>1 DEF LoginExpire, At, rows, Finish
  <1>f. timed \in [Emails -> BOOLEAN] /\ untimed \in [Emails -> BOOLEAN]
    BY DEF SignInv, CountersOK
  <1>b. (attempts[e] > 0) \in BOOLEAN
    OBVIOUS
  <1>t. PICK v \in BOOLEAN : (v <=> attempts[e] > 0) /\ timed' = [timed EXCEPT ![e] = v]
    BY <1>2, <1>b, Zenon
  <1>u. /\ timed' \in [Emails -> BOOLEAN]
        /\ \A d \in Emails : timed'[d] = IF d = e THEN v ELSE timed[d]
    BY <1>f, <1>t, FlagSet
  <1>w. /\ untimed' \in [Emails -> BOOLEAN]
        /\ \A d \in Emails : untimed'[d] = IF d = e THEN FALSE ELSE untimed[d]
    BY <1>2, <1>f, FlagSet
  <1>3. CountersOK' /\ \A d \in Emails : /\ d = e => (timed'[d] <=> attempts[d] > 0)
                                         /\ d # e => timed'[d] = timed[d] /\ untimed'[d] = untimed[d]
    BY <1>2, <1>t, <1>u, <1>w DEF SignInv, CountersOK
  <1>4. GuessesInv'
    <2> SUFFICES ASSUME NEW d \in Emails
                 PROVE  /\ tried[d] <= attempts[d] + uncounted[d] + Cardinality(Counting(d)')
                        /\ tried[d] + Cardinality(Comparing(d)')
                             <= MaxAttempts - 1 + Cardinality(Requests) + uncounted[d]
      BY <1>2 DEF GuessesInv
    <2>1. /\ Cardinality(Counting(d)') = Cardinality(Counting(d))
          /\ Cardinality(Comparing(d)') = Cardinality(Comparing(d))
      BY <1>2, IdleType, SizesAfter
    <2> QED
      BY <2>1, Numbers
  <1>5. LockIsTimed'
    <2> SUFFICES ASSUME NEW d \in Emails, attempts[d] > 0, ~timed'[d], ~untimed'[d]
                 PROVE  InFlight({"login.expire"}, d)' # {}
      BY <1>2 DEF LockIsTimed
    <2>1. d # e
      BY <1>3
    <2>2. InFlight({"login.expire"}, d) # {}
      BY <1>3, <2>1 DEF SignInv, LockIsTimed
    <2>3. \A s \in Requests : req'[s] = IF s = r THEN Idle ELSE req[s]
      BY <1>2, SlotAfter, IdleType
    <2>4. InFlight({"login.expire"}, d) \subseteq InFlight({"login.expire"}, d)'
      BY <1>1, <2>1, <2>3 DEF InFlight
    <2> QED
      BY <2>2, <2>4
  <1> QED
    BY <1>2, <1>3, <1>4, <1>5, IdleType, CounterStep

LEMMA LoginResentStep ==
  ASSUME SignInAssumption, SignInv, NEW r \in Requests, LoginResent(r)
  PROVE  SignInv'
  <1>0. req[r] \in Request /\ Knows(req[r])
    BY DEF SignInv, Knowing
  <1>1. PICK e \in Emails : e = req[r].email
    BY <1>0 DEF LoginResent, At, Knows, Await
  <1>2. /\ req[r].pc = "login.count" /\ req' = [req EXCEPT ![r] = req[r]]
        /\ attempts' = [attempts EXCEPT ![e] = attempts[e] + 1]
        /\ untimed' = [untimed EXCEPT ![e] = untimed[e] \/ attempts[e] = 0]
        /\ UNCHANGED <<user, code, tried, timed, uncounted, history, req>>
    BY <1>1 DEF LoginResent, At, rows, SignInv
  <1>f. untimed \in [Emails -> BOOLEAN]
    BY DEF SignInv, CountersOK
  <1>t. PICK v \in BOOLEAN : (v <=> untimed[e] \/ attempts[e] = 0) /\ untimed' = [untimed EXCEPT ![e] = v]
    BY <1>2
  <1>u. /\ untimed' \in [Emails -> BOOLEAN]
        /\ \A d \in Emails : untimed'[d] = IF d = e THEN v ELSE untimed[d]
    BY <1>f, <1>t, FlagSet
  <1>w. /\ attempts' \in [Emails -> Nat]
        /\ \A d \in Emails : attempts'[d] = attempts[d] + IF d = e THEN 1 ELSE 0
    BY <1>2 DEF SignInv, CountersOK
  <1>3. CountersOK' /\ \A d \in Emails :
           /\ attempts'[d] = attempts[d] + IF d = e THEN 1 ELSE 0
           /\ ~untimed'[d] => ~untimed[d] /\ (d = e => attempts[e] # 0)
    BY <1>2, <1>t, <1>u, <1>w DEF SignInv, CountersOK
  <1>4. GuessesInv'
    <2> SUFFICES ASSUME NEW d \in Emails
                 PROVE  /\ tried[d] <= attempts'[d] + uncounted[d] + Cardinality(Counting(d))
                        /\ tried[d] + Cardinality(Comparing(d))
                             <= MaxAttempts - 1 + Cardinality(Requests) + uncounted[d]
      BY <1>2 DEF GuessesInv, Counting, Comparing, InFlight
    <2> QED
      BY <1>3, Numbers
  <1>5. LockIsTimed'
    <2> SUFFICES ASSUME NEW d \in Emails, attempts'[d] > 0, ~timed[d], ~untimed'[d]
                 PROVE  InFlight({"login.expire"}, d) # {}
      BY <1>2 DEF LockIsTimed, InFlight
    <2>1. attempts[d] > 0 /\ ~untimed[d]
      BY <1>3, Numbers
    <2> QED
      BY <2>1 DEF SignInv, LockIsTimed
  <1> QED
    BY <1>0, <1>2, <1>3, <1>4, <1>5, CounterStep

LEMMA FailStep ==
  ASSUME SignInAssumption, SignInv, NEW r \in Requests, Fail(r)
  PROVE  SignInv'
  <1>0. req[r] \in Request /\ Knows(req[r])
    BY DEF SignInv, Knowing
  <1>1. PICK d0 : d0 = req[r].email
    OBVIOUS
  <1>2. /\ req' = [req EXCEPT ![r] = Idle]
        /\ uncounted' = [uncounted EXCEPT ![d0] = uncounted[d0] + (IF At(r, "login.count") THEN 1 ELSE 0)]
        /\ untimed' = [untimed EXCEPT ![d0] = untimed[d0] \/ (At(r, "login.expire") /\ attempts[d0] > 0)]
        /\ UNCHANGED <<user, code, attempts, timed, tried, history>>
    BY <1>1 DEF Fail, rows, Finish
  <1>f. untimed \in [Emails -> BOOLEAN]
    BY DEF SignInv, CountersOK
  <1>b. (untimed[d0] \/ (At(r, "login.expire") /\ attempts[d0] > 0)) \in BOOLEAN
    OBVIOUS
  <1>t. PICK v \in BOOLEAN : /\ v <=> untimed[d0] \/ (At(r, "login.expire") /\ attempts[d0] > 0)
                             /\ untimed' = [untimed EXCEPT ![d0] = v]
    BY <1>2, <1>b, Zenon
  <1>u. /\ untimed' \in [Emails -> BOOLEAN]
        /\ \A d \in Emails : untimed'[d] = IF d = d0 THEN v ELSE untimed[d]
    BY <1>f, <1>t, FlagSet
  <1>w. /\ uncounted' \in [Emails -> Nat]
        /\ \A d \in Emails : uncounted'[d] = uncounted[d] + IF d = d0 /\ At(r, "login.count") THEN 1 ELSE 0
    <2>0. uncounted \in [Emails -> Nat]
      BY DEF SignInv, CountersOK
    <2>1. PICK n \in {0, 1} : /\ n = IF At(r, "login.count") THEN 1 ELSE 0
                              /\ uncounted' = [uncounted EXCEPT ![d0] = uncounted[d0] + n]
      BY <1>2
    <2>2. /\ uncounted' \in [Emails -> Nat]
          /\ \A d \in Emails : uncounted'[d] = uncounted[d] + IF d = d0 THEN n ELSE 0
      <3>1. CASE d0 \in Emails
        BY <2>0, <2>1, <3>1
      <3>2. CASE d0 \notin Emails
        <4>1. uncounted' = uncounted
          BY <2>0, <2>1, <3>2, Zenon
        <4> QED
          BY <2>0, <3>2, <4>1
      <3> QED
        BY <3>1, <3>2
    <2> QED
      BY <2>1, <2>2
  <1>3. CountersOK' /\ \A d \in Emails :
           /\ uncounted'[d] = uncounted[d] + IF d = d0 /\ At(r, "login.count") THEN 1 ELSE 0
           /\ ~untimed'[d] => ~untimed[d] /\ (d = d0 => ~(At(r, "login.expire") /\ attempts[d] > 0))
    BY <1>2, <1>t, <1>u, <1>w DEF SignInv, CountersOK
  <1>4. GuessesInv'
    <2> SUFFICES ASSUME NEW d \in Emails
                 PROVE  /\ tried[d] <= attempts[d] + uncounted'[d] + Cardinality(Counting(d)')
                        /\ tried[d] + Cardinality(Comparing(d)')
                             <= MaxAttempts - 1 + Cardinality(Requests) + uncounted'[d]
      BY <1>2 DEF GuessesInv
    <2>1. /\ d = d0 /\ At(r, "login.count")
                => Cardinality(Counting(d)') = Cardinality(Counting(d)) - 1
          /\ ~(d = d0 /\ At(r, "login.count"))
                => Cardinality(Counting(d)') = Cardinality(Counting(d))
          /\ Cardinality(Comparing(d)') \in {Cardinality(Comparing(d)), Cardinality(Comparing(d)) - 1}
      BY <1>1, <1>2, IdleType, SizesAfter DEF At
    <2> QED
      BY <1>3, <2>1, Numbers
  <1>5. LockIsTimed'
    <2> SUFFICES ASSUME NEW d \in Emails, attempts[d] > 0, ~timed[d], ~untimed'[d]
                 PROVE  InFlight({"login.expire"}, d)' # {}
      BY <1>2 DEF LockIsTimed
    <2>1. ~untimed[d] /\ ~(d = d0 /\ At(r, "login.expire"))
      BY <1>3
    <2>2. InFlight({"login.expire"}, d) # {}
      BY <2>1 DEF SignInv, LockIsTimed
    <2>3. \A s \in Requests : req'[s] = IF s = r THEN Idle ELSE req[s]
      BY <1>2, SlotAfter, IdleType
    <2>4. InFlight({"login.expire"}, d) \subseteq InFlight({"login.expire"}, d)'
      BY <1>1, <2>1, <2>3 DEF InFlight, At
    <2> QED
      BY <2>2, <2>4
  <1> QED
    BY <1>2, <1>3, <1>4, <1>5, IdleType, CounterStep

\* With the key its history goes, and what was due for it.
LEMMA Cleared ==
  ASSUME SignInAssumption, SignInv, NEW e \in Emails, ClearCounter(e),
         req' \in [Requests -> Request],
         \A d \in Emails : /\ Cardinality(Counting(d)') = Cardinality(Counting(d))
                           /\ Cardinality(Comparing(d)') = Cardinality(Comparing(d))
                           /\ InFlight({"login.expire"}, d) \subseteq InFlight({"login.expire"}, d)'
  PROVE  CountersOK' /\ GuessesInv' /\ LockIsTimed'
  <1>1. /\ CountersOK'
        /\ \A d \in Emails \ {e} : /\ attempts'[d] = attempts[d] /\ timed'[d] = timed[d]
                                   /\ tried'[d] = tried[d] /\ uncounted'[d] = uncounted[d]
                                   /\ untimed'[d] = untimed[d]
        /\ attempts'[e] = 0 /\ tried'[e] = 0 /\ uncounted'[e] = 0
    BY DEF SignInv, CountersOK, ClearCounter
  <1>2. GuessesInv'
    <2> SUFFICES ASSUME NEW d \in Emails
                 PROVE  /\ tried'[d] <= attempts'[d] + uncounted'[d] + Cardinality(Counting(d)')
                        /\ tried'[d] + Cardinality(Comparing(d)')
                             <= MaxAttempts - 1 + Cardinality(Requests) + uncounted'[d]
      BY DEF GuessesInv
    <2>1. CASE d = e
      BY <1>1, <2>1, Numbers
    <2>2. CASE d # e
      BY <1>1, <2>2, Numbers
    <2> QED
      BY <2>1, <2>2
  <1>3. LockIsTimed'
    BY <1>1 DEF SignInv, LockIsTimed
  <1> QED
    BY <1>1, <1>2, <1>3

LEMMA LoginResetStep ==
  ASSUME SignInAssumption, SignInv, NEW r \in Requests, LoginReset(r)
  PROVE  SignInv'
  <1>0. req[r] \in Request /\ Knows(req[r])
    BY DEF SignInv, Knowing
  <1>1. PICK e \in Emails : e = req[r].email
    BY <1>0 DEF LoginReset, At, Knows, Await
  <1>2. /\ req[r].pc = "login.reset" /\ req' = [req EXCEPT ![r] = Idle] /\ ClearCounter(e)
        /\ UNCHANGED <<user, code, history>>
    BY <1>1 DEF LoginReset, At, rows, Finish
  <1>3. /\ req' \in [Requests -> Request]
        /\ \A s \in Requests : req'[s] = IF s = r THEN Idle ELSE req[s]
    BY <1>2, SlotAfter, IdleType
  <1>4. \A d \in Emails : /\ Cardinality(Counting(d)') = Cardinality(Counting(d))
                          /\ Cardinality(Comparing(d)') = Cardinality(Comparing(d))
    BY <1>2, IdleType, SizesAfter
  <1>5. \A d \in Emails : InFlight({"login.expire"}, d) \subseteq InFlight({"login.expire"}, d)'
    BY <1>2, <1>3 DEF InFlight
  <1> QED
    BY <1>2, <1>3, <1>4, <1>5, IdleType, Cleared, CounterStep

LEMMA CounterExpiresStep ==
  ASSUME SignInAssumption, SignInv, NEW e \in Emails, CounterExpires(e)
  PROVE  SignInv'
  <1>1. ClearCounter(e) /\ UNCHANGED <<user, code, history, req>>
    BY DEF CounterExpires, rows
  <1>2. \A d : /\ Counting(d)' = Counting(d) /\ Comparing(d)' = Comparing(d)
               /\ InFlight({"login.expire"}, d)' = InFlight({"login.expire"}, d)
    BY <1>1 DEF Counting, Comparing, InFlight
  <1>3. CountersOK' /\ GuessesInv' /\ LockIsTimed'
    BY <1>1, <1>2, Cleared DEF SignInv
  <1>4. RowsOK' /\ Knowing' /\ VerifyInv'
    BY <1>1 DEF SignInv, RowsOK, Knowing, Knows, VerifyInv, NoBorrowedCode
  <1> QED
    BY <1>1, <1>3, <1>4 DEF SignInv

-----------------------------------------------------------------------------
(* Rows *)

LEMMA RowsStay ==
  ASSUME SignInv, UNCHANGED <<user, code>>
  PROVE  RowsOK'
  BY DEF SignInv, RowsOK

LEMMA RowsDeleted ==
  ASSUME SignInv, NEW gone, DeleteCodes(gone), UNCHANGED user
  PROVE  RowsOK'
  <1>1. /\ user \in [Accounts -> User] /\ code \in [Codes -> Code]
        /\ \A k \in Codes : code[k].state = "there" =>
              code[k].of # None /\ user[code[k].of].state = "there"
        /\ \A a, b \in Accounts : user[a].email = user[b].email =>
              a = b \/ user[a].email = None
        /\ \A a \in Accounts : user[a].state = "there" => user[a].email # None
    BY DEF SignInv, RowsOK
  <1>2. NoCode("gone") \in Code /\ NoCode("gone").state = "gone"
    BY DEF NoCode, Code
  <1>3. /\ code' \in [Codes -> Code]
        /\ \A k \in Codes : code'[k] = IF k \in gone THEN NoCode("gone") ELSE code[k]
    BY <1>1, <1>2 DEF DeleteCodes
  <1> QED
    BY <1>1, <1>2, <1>3 DEF RowsOK

LEMMA RowsCreated ==
  ASSUME SignInAssumption, SignInv, NEW a \in Accounts, NEW k \in Codes, CreateCode(a, k), UNCHANGED user
  PROVE  RowsOK'
  <1>1. /\ user \in [Accounts -> User] /\ code \in [Codes -> Code]
        /\ \A j \in Codes : code[j].state = "there" =>
              code[j].of # None /\ user[code[j].of].state = "there"
        /\ \A b, c \in Accounts : user[b].email = user[c].email =>
              b = c \/ user[b].email = None
        /\ \A b \in Accounts : user[b].state = "there" => user[b].email # None
    BY DEF SignInv, RowsOK
  <1> DEFINE new == [state |-> "there", of |-> a, expired |-> FALSE]
  <1>2. new \in Code /\ new.of = a /\ a # None /\ user[a].state = "there"
    BY DEF Code, CreateCode, SignInAssumption
  <1>3. /\ code' \in [Codes -> Code]
        /\ \A j \in Codes : code'[j] = IF j = k THEN new ELSE code[j]
    BY <1>1, <1>2 DEF CreateCode
  <1> QED
    BY <1>1, <1>2, <1>3 DEF RowsOK

-----------------------------------------------------------------------------
(* Requests that begin, go on and end with the counter left alone *)

LEMMA Begins ==
  ASSUME SignInAssumption, SignInv, NEW r \in Requests, NEW e \in Emails, NEW a \in Accounts,
         NEW where \in {"verify.code", "resend.clear", "login.code"}, Begin(r, where, e, a),
         UNCHANGED counter, UNCHANGED history, RowsOK',
         \A b \in Accounts : user'[b].verified => user[b].verified \/ b \in shown
  PROVE  SignInv'
  <1>1. PICK q \in Request : /\ req' = [req EXCEPT ![r] = q]
                             /\ q.pc = where /\ q.email = e /\ q.user = a
    BY BeginReq DEF Await
  <1>2. req[r].pc = "idle"
    BY IdleType DEF Begin
  <1>3. Knows(q)
    BY <1>1 DEF Knows
  <1>4. /\ req[r].pc \notin {"login.count", "login.expire"}
        /\ q.pc \notin {"login.find", "login.count", "login.expire"}
        /\ q.pc \notin {"verify.use", "verify.update"}
        /\ shown \subseteq shown' /\ shown' \subseteq Accounts /\ seeded' = seeded
        /\ \A b \in Accounts : user'[b].verified => user[b].verified \/ b \in shown'
    BY <1>1, <1>2 DEF SignInv
  <1> QED
    BY <1>1, <1>3, <1>4, QuietStep

LEMMA GoesOn ==
  ASSUME SignInAssumption, SignInv, NEW r \in Requests, NEW where \in Await, Goto(r, where),
         req[r].pc \in Await \ {"login.find", "login.count", "login.expire"},
         where \notin {"login.find", "login.count", "login.expire", "verify.expired", "verify.use"},
         UNCHANGED counter, UNCHANGED history, RowsOK',
         \A b \in Accounts : user'[b].verified => user[b].verified \/ b \in shown,
         where = "verify.update" => req[r].user \in shown
  PROVE  SignInv'
  <1>1. PICK q \in Request : /\ req' = [req EXCEPT ![r] = q]
                             /\ q.pc = where /\ q.email = req[r].email
                             /\ q.user = req[r].user /\ q.code = req[r].code
    BY GotoReq
  <1>2. Knows(req[r])
    BY DEF SignInv, Knowing
  <1>3. Knows(q)
    BY <1>1, <1>2 DEF Knows
  <1>4. /\ req[r].pc \notin {"login.count", "login.expire"}
        /\ q.pc \notin {"login.find", "login.count", "login.expire"}
        /\ q.pc \in {"verify.use", "verify.update"} => q.user \in shown'
        /\ shown \subseteq shown' /\ shown' \subseteq Accounts /\ seeded' = seeded
        /\ \A b \in Accounts : user'[b].verified => user[b].verified \/ b \in shown'
    BY <1>1 DEF SignInv
  <1> QED
    BY <1>1, <1>3, <1>4, QuietStep

LEMMA Ends ==
  ASSUME SignInAssumption, SignInv, NEW r \in Requests, Finish(r),
         req[r].pc \notin {"login.count", "login.expire"},
         UNCHANGED counter, UNCHANGED <<user, history>>, RowsOK'
  PROVE  SignInv'
  <1>1. req' = [req EXCEPT ![r] = Idle]
    BY DEF Finish
  <1>2. /\ Idle.pc \notin {"login.find", "login.count", "login.expire"}
        /\ Idle.pc \notin {"verify.use", "verify.update"}
        /\ shown \subseteq shown' /\ shown' \subseteq Accounts /\ seeded' = seeded
        /\ \A b \in Accounts : user'[b].verified => user[b].verified \/ b \in shown'
    BY IdleType DEF SignInv
  <1> QED
    BY <1>1, <1>2, IdleType, QuietStep

-----------------------------------------------------------------------------
(* Behind the password *)

LEMMA LoginRightStep ==
  ASSUME SignInAssumption, SignInv, NEW r \in Requests, NEW a \in Accounts, LoginRight(r, a)
  PROVE  SignInv'
  <1>1. PICK w \in {"login.update", "login.code"} :
           req' = [req EXCEPT ![r].pc = w, ![r].user = a]
    BY DEF LoginRight
  <1> DEFINE q == [req[r] EXCEPT !.pc = w, !.user = a]
  <1>2. req[r] \in Request /\ Knows(req[r]) /\ req[r].pc = "login.find"
    BY DEF SignInv, Knowing, LoginRight, At
  <1>3. q \in Request /\ q.pc = w /\ q.email = req[r].email /\ q.user = a
    BY <1>2 DEF Request, Await
  <1>4. req' = [req EXCEPT ![r] = q]
    BY <1>1 DEF SignInv
  <1>5. Knows(q)
    BY <1>2, <1>3 DEF Knows, Await
  <1>6. UNCHANGED counter /\ UNCHANGED <<user, code>> /\ UNCHANGED history
    BY DEF LoginRight, rows
  <1>7. /\ RowsOK' /\ shown \subseteq shown' /\ shown' \subseteq Accounts /\ seeded' = seeded
        /\ \A b \in Accounts : user'[b].verified => user[b].verified \/ b \in shown'
    BY <1>6, RowsStay DEF SignInv
  <1>8. /\ req[r].pc \notin {"login.count", "login.expire"}
        /\ q.pc \notin {"login.find", "login.count", "login.expire"}
        /\ q.pc \notin {"verify.use", "verify.update"}
    BY <1>2, <1>3
  <1> QED
    BY <1>3, <1>4, <1>5, <1>6, <1>7, <1>8, QuietStep

LEMMA LoginUpdateStep ==
  ASSUME SignInAssumption, SignInv, NEW r \in Requests, NEW a \in Accounts, LoginUpdate(r, a)
  PROVE  SignInv'
  <1> DEFINE q == [req[r] EXCEPT !.pc = "login.reset", !.user = a]
  <1>2. req[r] \in Request /\ Knows(req[r]) /\ req[r].pc = "login.update"
    BY DEF SignInv, Knowing, LoginUpdate, At
  <1>3. q \in Request /\ q.pc = "login.reset" /\ q.email = req[r].email /\ q.user = a
    BY <1>2 DEF Request, Await
  <1>4. req' = [req EXCEPT ![r] = q]
    BY DEF SignInv, LoginUpdate
  <1>5. Knows(q)
    BY <1>2, <1>3 DEF Knows, Await
  <1>6. UNCHANGED counter /\ UNCHANGED <<user, code>> /\ UNCHANGED history
    BY DEF LoginUpdate, rows
  <1>7. /\ RowsOK' /\ shown \subseteq shown' /\ shown' \subseteq Accounts /\ seeded' = seeded
        /\ \A b \in Accounts : user'[b].verified => user[b].verified \/ b \in shown'
    BY <1>6, RowsStay DEF SignInv
  <1>8. /\ req[r].pc \notin {"login.count", "login.expire"}
        /\ q.pc \notin {"login.find", "login.count", "login.expire"}
        /\ q.pc \notin {"verify.use", "verify.update"}
    BY <1>2, <1>3
  <1> QED
    BY <1>3, <1>4, <1>5, <1>6, <1>7, <1>8, QuietStep

\* The newest code of the account that was found is a code of that account.
LEMMA VerifyCodeStep ==
  ASSUME SignInAssumption, SignInv, NEW r \in Requests, NEW k \in Codes, VerifyCode(r, k)
  PROVE  SignInv'
  <1>1. PICK w \in {"verify.expired", "verify.use"} :
           /\ req' = [req EXCEPT ![r].pc = w, ![r].code = k]
           /\ seeded' = seeded
           /\ w = "verify.use" => shown' = shown \cup {code[k].of}
           /\ w = "verify.expired" => shown' = shown
    BY DEF VerifyCode
  <1> DEFINE q == [req[r] EXCEPT !.pc = w, !.code = k]
  <1>2. /\ req[r] \in Request /\ Knows(req[r]) /\ req[r].pc = "verify.code"
        /\ code[k].of = req[r].user
    BY DEF SignInv, Knowing, VerifyCode, At, CodesOf
  <1>3. q \in Request /\ q.pc = w /\ q.email = req[r].email /\ q.user = req[r].user /\ q.code = k
    BY <1>2 DEF Request, Await
  <1>4. req' = [req EXCEPT ![r] = q]
    BY <1>1 DEF SignInv
  <1>5. Knows(q) /\ req[r].user \in Accounts
    BY <1>2, <1>3 DEF Knows, Await
  <1>6. UNCHANGED counter /\ UNCHANGED <<user, code>>
    BY DEF VerifyCode, rows
  <1>7. /\ RowsOK' /\ shown \subseteq shown' /\ shown' \subseteq Accounts /\ seeded' = seeded
        /\ \A b \in Accounts : user'[b].verified => user[b].verified \/ b \in shown'
        /\ q.pc \in {"verify.use", "verify.update"} => q.user \in shown'
    BY <1>1, <1>2, <1>3, <1>5, <1>6, RowsStay DEF SignInv
  <1>8. /\ req[r].pc \notin {"login.count", "login.expire"}
        /\ q.pc \notin {"login.find", "login.count", "login.expire"}
    BY <1>2, <1>3
  <1> QED
    BY <1>3, <1>4, <1>5, <1>6, <1>7, <1>8, QuietStep

LEMMA VerifyUseStep ==
  ASSUME SignInAssumption, SignInv, NEW r \in Requests, VerifyUse(r)
  PROVE  SignInv'
  <1>1. /\ req[r].pc = "verify.use" /\ Goto(r, "verify.update")
        /\ DeleteCodes(CodesOf(req[r].user))
        /\ UNCHANGED user /\ UNCHANGED counter /\ UNCHANGED history
    BY DEF VerifyUse, At
  <1>2. RowsOK'
    BY <1>1, RowsDeleted
  <1>3. req[r].user \in shown
    BY <1>1 DEF SignInv, VerifyInv
  <1> QED
    BY <1>1, <1>2, <1>3, GoesOn DEF Await

LEMMA VerifyUpdateStep ==
  ASSUME SignInAssumption, SignInv, NEW r \in Requests, VerifyUpdate(r)
  PROVE  SignInv'
  <1>1. PICK a : a = req[r].user
    OBVIOUS
  <1>2. /\ req[r].pc = "verify.update" /\ Goto(r, "login.reset")
        /\ user' = [user EXCEPT ![a].verified = TRUE]
        /\ UNCHANGED code /\ UNCHANGED counter /\ UNCHANGED history
    BY <1>1 DEF VerifyUpdate, At
  <1>3. a \in shown /\ a \in Accounts
    BY <1>1, <1>2 DEF SignInv, VerifyInv
  <1>4. user \in [Accounts -> User]
    BY DEF SignInv, RowsOK
  <1>5. /\ user' \in [Accounts -> User]
        /\ \A b \in Accounts : /\ user'[b].state = user[b].state /\ user'[b].email = user[b].email
                               /\ b # a => user'[b] = user[b]
    BY <1>2, <1>3, <1>4 DEF User
  <1>6. RowsOK'
    <2>1. \A k \in Codes : code[k].state = "there" => code[k].of # None /\ user'[code[k].of].state = "there"
      <3> SUFFICES ASSUME NEW k \in Codes, code[k].state = "there"
                   PROVE  code[k].of # None /\ user'[code[k].of].state = "there"
        OBVIOUS
      <3>1. code[k].of \in Accounts /\ code[k].of # None /\ user[code[k].of].state = "there"
        BY DEF SignInv, RowsOK, Code
      <3> QED
        BY <1>5, <3>1
    <2> QED
      BY <1>2, <1>5, <2>1 DEF SignInv, RowsOK
  <1>7. \A b \in Accounts : user'[b].verified => user[b].verified \/ b \in shown
    BY <1>3, <1>5
  <1> QED
    BY <1>2, <1>6, <1>7, GoesOn DEF Await

LEMMA DeletingStep ==
  ASSUME SignInAssumption, SignInv, NEW r \in Requests,
         VerifyExpired(r) \/ ResendClear(r) \/ ResendUndo(r)
  PROVE  SignInv'
  <1>1. CASE VerifyExpired(r)
    <2>1. /\ req[r].pc = "verify.expired" /\ Finish(r) /\ DeleteCodes({req[r].code})
          /\ UNCHANGED user /\ UNCHANGED counter /\ UNCHANGED history
      BY <1>1 DEF VerifyExpired, At
    <2> QED
      BY <2>1, RowsDeleted, Ends
  <1>2. CASE ResendClear(r)
    <2>1. /\ req[r].pc = "resend.clear" /\ Goto(r, "resend.create")
          /\ DeleteCodes({k \in CodesOf(req[r].user) : ~code[k].expired})
          /\ UNCHANGED user /\ UNCHANGED counter /\ UNCHANGED history
      BY <1>2 DEF ResendClear, At
    <2> QED
      BY <2>1, RowsDeleted, GoesOn DEF Await
  <1>3. CASE ResendUndo(r)
    <2>1. /\ req[r].pc = "resend.undo" /\ Finish(r) /\ DeleteCodes(CodesOf(req[r].user))
          /\ UNCHANGED user /\ UNCHANGED counter /\ UNCHANGED history
      BY <1>3 DEF ResendUndo, At
    <2> QED
      BY <2>1, RowsDeleted, Ends
  <1> QED
    BY <1>1, <1>2, <1>3

LEMMA CreatingStep ==
  ASSUME SignInAssumption, SignInv, NEW r \in Requests, NEW k \in Codes,
         LoginCode(r, k) \/ ResendCreate(r, k)
  PROVE  SignInv'
  <1>1. Knows(req[r])
    BY DEF SignInv, Knowing
  <1>2. CASE LoginCode(r, k)
    <2>1. /\ req[r].pc = "login.code" /\ Finish(r) /\ CreateCode(req[r].user, k)
          /\ UNCHANGED user /\ UNCHANGED counter /\ UNCHANGED history
      BY <1>2 DEF LoginCode, At
    <2>2. req[r].user \in Accounts
      BY <1>1, <2>1 DEF Knows, Await
    <2> QED
      BY <2>1, <2>2, RowsCreated, Ends
  <1>3. CASE ResendCreate(r, k)
    <2>1. /\ req[r].pc = "resend.create" /\ Goto(r, "resend.mail") /\ CreateCode(req[r].user, k)
          /\ UNCHANGED user /\ UNCHANGED counter /\ UNCHANGED history
      BY <1>3 DEF ResendCreate, At
    <2>2. req[r].user \in Accounts
      BY <1>1, <2>1 DEF Knows, Await
    <2> QED
      BY <2>1, <2>2, RowsCreated, GoesOn DEF Await
  <1> QED
    BY <1>2, <1>3

\* A handler that gives up is in none of the places that count.
LEMMA LeavingStep ==
  ASSUME SignInAssumption, SignInv, NEW r \in Requests,
         VerifyRefused(r) \/ ResendMail(r) \/ ResendUnsent(r) \/ Give(r)
  PROVE  SignInv'
  <1>1. UNCHANGED <<user, code>> /\ UNCHANGED counter /\ UNCHANGED history
    BY DEF VerifyRefused, ResendMail, ResendUnsent, Give, rows
  <1>2. RowsOK'
    BY <1>1, RowsStay
  <1>3. CASE ResendUnsent(r)
    <2>1. req[r].pc = "resend.mail" /\ Goto(r, "resend.undo")
      BY <1>3 DEF ResendUnsent, At
    <2> QED
      BY <1>1, <1>2, <2>1, GoesOn DEF Await
  <1>4. CASE VerifyRefused(r) \/ ResendMail(r) \/ Give(r)
    <2>1. Finish(r) /\ req[r].pc \notin {"login.count", "login.expire"}
      BY <1>4 DEF VerifyRefused, ResendMail, Give, Impossible, At
    <2> QED
      BY <1>1, <1>2, <2>1, Ends
  <1> QED
    BY <1>3, <1>4

-----------------------------------------------------------------------------
(* Requests that begin, and what happens around them *)

LEMMA FindingStep ==
  ASSUME SignInAssumption, SignInv, NEW r \in Requests, NEW a \in Accounts,
         VerifyFind(r, a) \/ ResendFind(r, a)
  PROVE  SignInv'
  <1>1. PICK where \in {"verify.code", "resend.clear"} : Begin(r, where, user[a].email, a)
    BY DEF VerifyFind, ResendFind
  <1>2. user[a].email \in Emails
    BY DEF SignInv, RowsOK, User, VerifyFind, ResendFind
  <1>3. UNCHANGED <<user, code>> /\ UNCHANGED counter /\ UNCHANGED history
    BY DEF VerifyFind, ResendFind, rows
  <1>4. RowsOK'
    BY <1>3, RowsStay
  <1> QED
    BY <1>1, <1>2, <1>3, <1>4, Begins

\* The rows after one of them is written, where no email is taken twice.
LEMMA RowsWritten ==
  ASSUME SignInv, NEW a \in Accounts, NEW u \in User, user' = [user EXCEPT ![a] = u],
         code' \in [Codes -> Code],
         \A k \in Codes : code'[k].state = "there" => code'[k] = code[k],
         u.state = "there" => u.email # None,
         u.state = "there" \/ \A k \in Codes : code'[k].state = "there" => code'[k].of # a,
         u.email = None \/ \A b \in Accounts \ {a} : user[b].email # u.email
  PROVE  RowsOK'
  <1>1. user \in [Accounts -> User] /\ code \in [Codes -> Code]
    BY DEF SignInv, RowsOK
  <1>2. /\ user' \in [Accounts -> User]
        /\ \A b \in Accounts : user'[b] = IF b = a THEN u ELSE user[b]
    BY <1>1
  <1>3. \A k \in Codes : code'[k].state = "there" =>
           code'[k].of # None /\ user'[code'[k].of].state = "there"
    <2> SUFFICES ASSUME NEW k \in Codes, code'[k].state = "there"
                 PROVE  code'[k].of # None /\ user'[code'[k].of].state = "there"
      OBVIOUS
    <2>1. /\ code'[k] = code[k] /\ code[k].of \in Accounts /\ code[k].of # None
          /\ user[code[k].of].state = "there"
      BY DEF SignInv, RowsOK, Code
    <2> QED
      BY <1>2, <2>1
  <1>4. \A b, c \in Accounts : user'[b].email = user'[c].email =>
           b = c \/ user'[b].email = None
    BY <1>2 DEF SignInv, RowsOK
  <1>5. \A b \in Accounts : user'[b].state = "there" => user'[b].email # None
    BY <1>2 DEF SignInv, RowsOK
  <1> QED
    BY <1>2, <1>3, <1>4, <1>5 DEF RowsOK

LEMMA RegisterStep ==
  ASSUME SignInAssumption, SignInv, NEW r \in Requests, NEW a \in Accounts, NEW e \in Emails,
         Register(r, a, e)
  PROVE  SignInv'
  <1> DEFINE u == [state |-> "there", email |-> e, verified |-> FALSE]
  <1>1. /\ Begin(r, "login.code", e, a) /\ Holder(e) = {} /\ user' = [user EXCEPT ![a] = u]
        /\ UNCHANGED code /\ UNCHANGED counter /\ UNCHANGED history
    BY DEF Register
  <1>2. u \in User /\ u.email = e /\ e # None /\ u.state = "there"
    BY DEF User, SignInAssumption
  <1>3. user \in [Accounts -> User] /\ code \in [Codes -> Code]
    BY DEF SignInv, RowsOK
  <1>4. \A b \in Accounts : user[b].email # e
    BY <1>1 DEF Holder
  <1>5. RowsOK'
    BY <1>1, <1>2, <1>3, <1>4, RowsWritten
  <1>6. \A b \in Accounts : user'[b].verified => user[b].verified \/ b \in shown
    BY <1>1, <1>3
  <1> QED
    BY <1>1, <1>5, <1>6, Begins

\* What does not touch a request or a counter leaves the counting as it was.
LEMMA CountingStays ==
  ASSUME SignInv, UNCHANGED counter, UNCHANGED <<history, req>>, RowsOK',
         \A b \in Accounts : user'[b].verified => user[b].verified
  PROVE  SignInv'
  <1>1. UNCHANGED <<attempts, timed, tried, uncounted, untimed, history, req>>
    BY DEF counter
  <1>2. CountersOK' /\ Knowing' /\ VerifyInv'
    BY <1>1 DEF SignInv, CountersOK, Knowing, Knows, VerifyInv, NoBorrowedCode
  <1>3. GuessesInv' /\ LockIsTimed'
    BY <1>1 DEF SignInv, GuessesInv, LockIsTimed, Counting, Comparing, InFlight
  <1> QED
    BY <1>1, <1>2, <1>3 DEF SignInv

\* A start of the server writes one row and counts nothing.
LEMMA SeededStays ==
  ASSUME SignInv, UNCHANGED counter, UNCHANGED <<shown, req>>, RowsOK',
         NEW a \in Accounts, seeded' = seeded \cup {a},
         \A b \in Accounts : user'[b].verified => user[b].verified \/ b = a
  PROVE  SignInv'
  <1>1. UNCHANGED <<attempts, timed, tried, uncounted, untimed, shown, req>>
    BY DEF counter
  <1>2. CountersOK' /\ Knowing' /\ seeded' \subseteq Accounts
    BY <1>1 DEF SignInv, CountersOK, Knowing, Knows
  <1>3. VerifyInv'
    BY <1>1 DEF SignInv, VerifyInv, NoBorrowedCode
  <1>4. GuessesInv' /\ LockIsTimed'
    BY <1>1 DEF SignInv, GuessesInv, LockIsTimed, Counting, Comparing, InFlight
  <1> QED
    BY <1>1, <1>2, <1>3, <1>4 DEF SignInv

LEMMA SeedUpdateStep ==
  ASSUME SignInAssumption, SignInv, NEW a \in Accounts, SeedUpdate(a)
  PROVE  SignInv'
  <1> DEFINE u == [user[a] EXCEPT !.verified = TRUE]
  <1>1. /\ user' = [user EXCEPT ![a] = u] /\ UNCHANGED code /\ UNCHANGED counter
        /\ UNCHANGED <<shown, req>> /\ seeded' = seeded \cup {a}
    BY DEF SeedUpdate
  <1>2. user \in [Accounts -> User] /\ code \in [Codes -> Code]
    BY DEF SignInv, RowsOK
  <1>3. u \in User /\ u.state = user[a].state /\ u.email = user[a].email
    BY <1>2 DEF User
  <1>4. \A b \in Accounts : /\ user'[b].state = user[b].state /\ user'[b].email = user[b].email
                            /\ b # a => user'[b] = user[b]
    BY <1>1, <1>2, <1>3
  <1>5. user' \in [Accounts -> User]
    BY <1>1, <1>2, <1>3
  <1>6. RowsOK'
    <2>1. \A k \in Codes : code[k].state = "there" => code[k].of # None /\ user'[code[k].of].state = "there"
      <3> SUFFICES ASSUME NEW k \in Codes, code[k].state = "there"
                   PROVE  code[k].of # None /\ user'[code[k].of].state = "there"
        OBVIOUS
      <3>1. code[k].of \in Accounts /\ code[k].of # None /\ user[code[k].of].state = "there"
        BY DEF SignInv, RowsOK, Code
      <3> QED
        BY <1>4, <3>1
    <2> QED
      BY <1>1, <1>4, <1>5, <2>1 DEF SignInv, RowsOK
  <1>7. \A b \in Accounts : user'[b].verified => user[b].verified \/ b = a
    BY <1>4
  <1> QED
    BY <1>1, <1>6, <1>7, SeededStays

LEMMA SeedCreateStep ==
  ASSUME SignInAssumption, SignInv, NEW a \in Accounts, NEW e \in Emails, SeedCreate(a, e)
  PROVE  SignInv'
  <1> DEFINE u == [state |-> "there", email |-> e, verified |-> TRUE]
  <1>1. /\ Holder(e) = {} /\ user' = [user EXCEPT ![a] = u] /\ UNCHANGED code
        /\ UNCHANGED counter /\ UNCHANGED <<shown, req>> /\ seeded' = seeded \cup {a}
    BY DEF SeedCreate
  <1>2. u \in User /\ u.email = e /\ e # None /\ u.state = "there"
    BY DEF User, SignInAssumption
  <1>3. user \in [Accounts -> User] /\ code \in [Codes -> Code]
    BY DEF SignInv, RowsOK
  <1>4. \A b \in Accounts : user[b].email # e
    BY <1>1 DEF Holder
  <1>5. RowsOK'
    BY <1>1, <1>2, <1>3, <1>4, RowsWritten
  <1>6. \A b \in Accounts : user'[b].verified => user[b].verified \/ b = a
    BY <1>1, <1>3
  <1> QED
    BY <1>1, <1>5, <1>6, SeededStays

LEMMA DeleteAccountStep ==
  ASSUME SignInAssumption, SignInv, NEW a \in Accounts, DeleteAccount(a)
  PROVE  SignInv'
  <1> DEFINE u == NoUser("gone")
  <1>1. /\ user' = [user EXCEPT ![a] = u] /\ DeleteCodes(CodesOf(a))
        /\ UNCHANGED counter /\ UNCHANGED <<history, req>>
    BY DEF DeleteAccount
  <1>2. u \in User /\ u.email = None /\ u.state = "gone" /\ u.verified = FALSE
    BY DEF User, NoUser
  <1>3. user \in [Accounts -> User] /\ code \in [Codes -> Code]
    BY DEF SignInv, RowsOK
  <1>4. NoCode("gone") \in Code /\ NoCode("gone").state = "gone"
    BY DEF NoCode, Code
  <1>5. /\ code' \in [Codes -> Code]
        /\ \A k \in Codes : code'[k] = IF k \in CodesOf(a) THEN NoCode("gone") ELSE code[k]
    BY <1>1, <1>3, <1>4 DEF DeleteCodes
  <1>6. \A k \in Codes : code'[k].state = "there" => code'[k] = code[k] /\ code'[k].of # a
    BY <1>4, <1>5 DEF CodesOf
  <1>7. RowsOK'
    BY <1>1, <1>2, <1>5, <1>6, RowsWritten
  <1>8. \A b \in Accounts : user'[b].verified => user[b].verified
    BY <1>1, <1>2, <1>3
  <1> QED
    BY <1>1, <1>7, <1>8, CountingStays

LEMMA CodeExpiresStep ==
  ASSUME SignInv, NEW k \in Codes, CodeExpires(k)
  PROVE  SignInv'
  <1>1. /\ code' = [code EXCEPT ![k].expired = TRUE]
        /\ UNCHANGED user /\ UNCHANGED counter /\ UNCHANGED <<history, req>>
    BY DEF CodeExpires
  <1>2. code \in [Codes -> Code]
    BY DEF SignInv, RowsOK
  <1>3. /\ code' \in [Codes -> Code]
        /\ \A j \in Codes : code'[j].state = code[j].state /\ code'[j].of = code[j].of
    BY <1>1, <1>2 DEF Code
  <1>4. RowsOK'
    BY <1>1, <1>3 DEF SignInv, RowsOK
  <1> QED
    BY <1>1, <1>4, CountingStays

-----------------------------------------------------------------------------
(* The specification *)

LEMMA SignInInit ==
  ASSUME SignInAssumption, Init
  PROVE  SignInv
  <1>1. RowsOK
    BY DEF Init, RowsOK, User, Code, NoUser, NoCode
  <1>2. CountersOK /\ shown \subseteq Accounts /\ seeded \subseteq Accounts
    BY DEF Init, CountersOK
  <1>3. req \in [Requests -> Request] /\ \A r \in Requests : req[r] = Idle
    BY IdleType DEF Init
  <1>4. Knowing
    BY <1>3, IdleType DEF Knowing
  <1>5. GuessesInv
    <2> SUFFICES ASSUME NEW e \in Emails
                 PROVE  /\ tried[e] <= attempts[e] + uncounted[e] + Cardinality(Counting(e))
                        /\ tried[e] + Cardinality(Comparing(e))
                             <= MaxAttempts - 1 + Cardinality(Requests) + uncounted[e]
      BY DEF GuessesInv
    <2>1. tried[e] = 0 /\ attempts[e] = 0 /\ uncounted[e] = 0
      BY DEF Init
    <2>2. /\ Cardinality(Comparing(e)) \in Nat /\ Cardinality(Counting(e)) \in Nat
          /\ Cardinality(Requests) \in Nat
          /\ Cardinality(Comparing(e)) + Cardinality(Counting(e)) <= Cardinality(Requests)
          /\ MaxAttempts \in Nat /\ MaxAttempts >= 1
      BY Sizes DEF SignInAssumption
    <2> QED
      BY <2>1, <2>2
  <1>6. LockIsTimed
    BY DEF Init, LockIsTimed
  <1>7. VerifyInv
    BY <1>3, IdleType DEF Init, VerifyInv, NoBorrowedCode, NoUser
  <1> QED
    BY <1>1, <1>2, <1>3, <1>4, <1>5, <1>6, <1>7 DEF SignInv

LEMMA SignInNext ==
  ASSUME SignInAssumption, SignInv, [Next]_vars
  PROVE  SignInv'
  <1>1. ASSUME NEW r \in Requests, Step(r)
        PROVE  SignInv'
    BY <1>1, LoginWrongStep, LoginRightStep, LoginCountStep, LoginResentStep, LoginExpireStep,
       LoginUpdateStep, LoginResetStep, VerifyCodeStep, VerifyUseStep, VerifyUpdateStep,
       DeletingStep, CreatingStep, LeavingStep DEF Step
  <1>2. ASSUME NEW r \in Requests, Fail(r)
        PROVE  SignInv'
    BY <1>2, FailStep
  <1>3. ASSUME NEW r \in Requests, NEW e \in Emails, LoginStart(r, e)
        PROVE  SignInv'
    BY <1>3, LoginStartStep
  <1>4. ASSUME NEW r \in Requests, NEW a \in Accounts, VerifyFind(r, a) \/ ResendFind(r, a)
        PROVE  SignInv'
    BY <1>4, FindingStep
  <1>5. ASSUME NEW r \in Requests, NEW a \in Accounts, NEW e \in Emails, Register(r, a, e)
        PROVE  SignInv'
    BY <1>5, RegisterStep
  <1>6. ASSUME NEW a \in Accounts, DeleteAccount(a)
        PROVE  SignInv'
    BY <1>6, DeleteAccountStep
  <1>10. ASSUME NEW a \in Accounts, SeedUpdate(a)
        PROVE  SignInv'
    BY <1>10, SeedUpdateStep
  <1>11. ASSUME NEW a \in Accounts, NEW e \in Emails, SeedCreate(a, e)
        PROVE  SignInv'
    BY <1>11, SeedCreateStep
  <1>7. ASSUME NEW e \in Emails, CounterExpires(e)
        PROVE  SignInv'
    BY <1>7, CounterExpiresStep
  <1>8. ASSUME NEW k \in Codes, CodeExpires(k)
        PROVE  SignInv'
    BY <1>8, CodeExpiresStep
  <1>9. CASE UNCHANGED vars
    <2>1. UNCHANGED counter /\ UNCHANGED <<history, req>> /\ UNCHANGED <<user, code>>
      BY <1>9 DEF vars, counter
    <2> QED
      BY <2>1, RowsStay, CountingStays
  <1> QED
    BY <1>1, <1>2, <1>3, <1>4, <1>5, <1>6, <1>7, <1>8, <1>9, <1>10, <1>11 DEF Next

LEMMA SignInInvariant ==
  SignInAssumption => (Spec => []SignInv)
  <1> SUFFICES ASSUME SignInAssumption
               PROVE  Spec => []SignInv
    OBVIOUS
  <1>1. Init => SignInv
    BY SignInInit
  <1>2. SignInv /\ [Next]_vars => SignInv'
    BY SignInNext
  <1> QED
    BY <1>1, <1>2, PTL DEF Spec

\* What the invariant says of a state.
LEMMA SignInImplies ==
  SignInAssumption /\ SignInv => TypeOK /\ GuessesBounded /\ LockIsTimed /\ NoBorrowedCode
  <1> SUFFICES ASSUME SignInAssumption, SignInv
               PROVE  TypeOK /\ GuessesBounded /\ LockIsTimed /\ NoBorrowedCode
    OBVIOUS
  <1>1. TypeOK
    BY InvType
  <1>2. GuessesBounded
    BY Numbers DEF GuessesBounded
  <1>3. LockIsTimed /\ NoBorrowedCode
    BY DEF SignInv, VerifyInv
  <1> QED
    BY <1>1, <1>2, <1>3

\* The rows, the counters and the requests have their types, a code that is there
\* belongs to an account that is there, and no two accounts share an email: also
\* after accounts were deleted while a code of theirs was checked or made.
THEOREM SignInTypes == SignInAssumption => (Spec => []TypeOK)
  <1> SUFFICES ASSUME SignInAssumption
               PROVE  Spec => []TypeOK
    OBVIOUS
  <1>1. SignInv => TypeOK
    BY SignInImplies
  <1> QED
    BY <1>1, SignInInvariant, PTL

\* However logins overlap, no more passwords than one below the limit and one
\* for each request that runs are refused before the counter goes, apart from
\* those whose increment was lost.
THEOREM GuessesSafety == SignInAssumption => (Spec => []GuessesBounded)
  <1> SUFFICES ASSUME SignInAssumption
               PROVE  Spec => []GuessesBounded
    OBVIOUS
  <1>1. SignInv => GuessesBounded
    BY SignInImplies
  <1> QED
    BY <1>1, SignInInvariant, PTL

\* A counter has a lifetime, or one is on its way to it, or that one was lost or
\* not sent because the first increment was performed twice.
THEOREM LockSafety == SignInAssumption => (Spec => []LockIsTimed)
  <1> SUFFICES ASSUME SignInAssumption
               PROVE  Spec => []LockIsTimed
    OBVIOUS
  <1>1. SignInv => LockIsTimed
    BY SignInImplies
  <1> QED
    BY <1>1, SignInInvariant, PTL

\* No account is verified by the code of another, whoever holds by now the email
\* under which it was asked for: a code of its own was presented, or a start of
\* the server met or made it under one of its configured emails.
THEOREM VerifySafety == SignInAssumption => (Spec => []NoBorrowedCode)
  <1> SUFFICES ASSUME SignInAssumption
               PROVE  Spec => []NoBorrowedCode
    OBVIOUS
  <1>1. SignInv => NoBorrowedCode
    BY SignInImplies
  <1> QED
    BY <1>1, SignInInvariant, PTL
=============================================================================
