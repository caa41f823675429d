------------------------ MODULE PasswordResetProofs ------------------------
(***************************************************************************)
(* What holds of PasswordReset for any number of accounts, codes, tokens   *)
(* and handlers in flight, with expiry, failures and deletions.            *)
(***************************************************************************)
EXTENDS PasswordReset, FiniteSetTheorems, TLAPS

-----------------------------------------------------------------------------
(* Lemmas about counting *)

\* Two finite sets that lose elements stay within the bound on their sizes.
LEMMA FewerOfBoth ==
  ASSUME NEW A, IsFiniteSet(A), NEW B, IsFiniteSet(B),
         NEW C \in SUBSET A, NEW D \in SUBSET B,
         NEW n \in Nat, Cardinality(A) + Cardinality(B) <= n
  PROVE  Cardinality(C) + Cardinality(D) <= n
  <1>1. /\ IsFiniteSet(C) /\ Cardinality(C) <= Cardinality(A)
        /\ IsFiniteSet(D) /\ Cardinality(D) <= Cardinality(B)
    BY FS_Subset
  <1>2. /\ Cardinality(A) \in Nat /\ Cardinality(B) \in Nat
        /\ Cardinality(C) \in Nat /\ Cardinality(D) \in Nat
    BY <1>1, FS_CardinalityType
  <1> QED
    BY <1>1, <1>2

\* So do they when the second loses an element and the first gains one.
LEMMA OneMoves ==
  ASSUME NEW A, IsFiniteSet(A), NEW B, IsFiniteSet(B),
         NEW x, NEW C \in SUBSET (A \cup {x}), NEW y \in B,
         NEW n \in Nat, Cardinality(A) + Cardinality(B) <= n
  PROVE  Cardinality(C) + Cardinality(B \ {y}) <= n
  <1>1. /\ IsFiniteSet(A \cup {x})
        /\ Cardinality(A \cup {x}) \in {Cardinality(A), Cardinality(A) + 1}
    BY FS_AddElement
  <1>2. /\ IsFiniteSet(B \ {y})
        /\ Cardinality(B \ {y}) = Cardinality(B) - 1
    BY FS_RemoveElement
  <1>3. IsFiniteSet(C) /\ Cardinality(C) <= Cardinality(A \cup {x})
    BY <1>1, FS_Subset
  <1>4. /\ Cardinality(A) \in Nat /\ Cardinality(B) \in Nat
        /\ Cardinality(C) \in Nat /\ Cardinality(B \ {y}) \in Nat
    BY <1>2, <1>3, FS_CardinalityType
  <1> QED
    BY <1>1, <1>2, <1>3, <1>4

-----------------------------------------------------------------------------
(* Lemmas about rows and requests *)

\* Deleted rows are rows.
LEMMA DropType ==
  ASSUME NEW I, NEW f \in [I -> Row], NEW ids
  PROVE  /\ Drop(f, ids) \in [I -> Row]
         /\ \A i \in I : Drop(f, ids)[i] = IF i \in ids THEN [f[i] EXCEPT !.state = "gone"]
                                                        ELSE f[i]
  BY DEF Drop, Row

\* A free slot is of the type of requests.
LEMMA IdleType == Idle \in Request
  BY DEF Idle, Request, RequestRecord, Await

\* A handler that goes on with what it knows stays of the type of requests, if
\* it knows the code, the token and the password that its next operation needs.
LEMMA GotoType ==
  ASSUME NEW q \in Request, q.pc # "idle", NEW where \in Await,
         where \in {"otp.purge", "verify.clear", "verify.create", "verify.consume"}
             => q.otp \in Otps,
         where \in {"verify.consume",
                    "reset.find", "reset.purge", "reset.write", "reset.consume"}
             => q.token \in Tokens,
         where \in {"reset.find", "reset.write", "change.write"}
             => q.pass \in Passwords
  PROVE  [q EXCEPT !.pc = where] \in Request
  BY DEF Request, RequestRecord

\* Init satisfies the type invariant.
LEMMA InitType == Init => TypeOK
  BY IdleType DEF Init, TypeOK, Row, Unborn

-----------------------------------------------------------------------------
(* Type correctness *)

\* A step that changes one request and no row keeps the types.
LEMMA TypeFrame ==
  ASSUME TypeOK, NEW r \in Requests, NEW q \in Request,
         req' = [req EXCEPT ![r] = q], UNCHANGED <<rows, history>>
  PROVE  TypeOK'
  BY DEF TypeOK, rows, history

\* A step that changes one request and removes codes keeps the types.
LEMMA TypeDropOtps ==
  ASSUME TypeOK, NEW r \in Requests, NEW q \in Request,
         req' = [req EXCEPT ![r] = q],
         NEW ids, otp' = Drop(otp, ids),
         UNCHANGED <<accounts, password, token, done, late, wrote, cut>>,
         told' \subseteq Tokens \X Otps
  PROVE  TypeOK'
  <1>1. otp' \in [Otps -> Row]
    BY DropType DEF TypeOK
  <1> QED
    BY <1>1 DEF TypeOK

\* A step that changes one request and removes tokens keeps the types.
LEMMA TypeDropTokens ==
  ASSUME TypeOK, NEW r \in Requests, NEW q \in Request,
         req' = [req EXCEPT ![r] = q],
         NEW ids, token' = Drop(token, ids),
         UNCHANGED <<accounts, password, otp, told, late, wrote, cut>>,
         done' \in [Tokens -> Nat]
  PROVE  TypeOK'
  <1>1. token' \in [Tokens -> Row]
    BY DropType DEF TypeOK
  <1> QED
    BY <1>1 DEF TypeOK

\* What a handler in flight knows.
LEMMA Known ==
  ASSUME TypeOK, NEW r \in Requests
  PROVE  /\ req[r] \in Request
         /\ req[r].pc # "idle" => req[r].user \in Users
         /\ req[r].pc \in {"otp.purge", "verify.clear", "verify.create", "verify.consume"}
               => req[r].otp \in Otps
         /\ req[r].pc \in {"verify.consume",
                     "reset.find", "reset.purge", "reset.write", "reset.consume"}
               => req[r].token \in Tokens
         /\ req[r].pc \in {"reset.find", "reset.write", "change.write"}
               => req[r].pass \in Passwords
  BY DEF TypeOK, Request

\* Every operation keeps the rows and the requests within their types.
LEMMA TypeStep == TypeOK /\ [Next]_vars => TypeOK'
  <1> SUFFICES ASSUME TypeOK, [Next]_vars PROVE TypeOK'
    OBVIOUS
  <1> USE IdleType
  <1>1. ASSUME NEW r \in Requests, Finish(r), UNCHANGED <<rows, history>>
        PROVE  TypeOK'
    BY <1>1, TypeFrame DEF Finish
  <1>2. ASSUME NEW r \in Requests, NEW u \in Users, NEW where \in Await,
               NEW o \in Otps \cup {None}, NEW t \in Tokens \cup {None},
               NEW p \in Passwords \cup {None},
               where \notin {"otp.purge", "verify.clear", "verify.create", "verify.consume"},
               where \in {"reset.find", "reset.purge", "reset.write", "reset.consume"}
                   => t \in Tokens,
               where \in {"reset.find", "reset.write", "change.write"} => p \in Passwords,
               Begin(r, u, where, o, t, p)
        PROVE  TypeOK'
    <2> DEFINE q == [pc |-> where, user |-> u, otp |-> o, token |-> t, pass |-> p]
    <2>1. q \in Request
      BY <1>2 DEF Request, RequestRecord
    <2> QED
      BY <1>2, <2>1, TypeFrame DEF Begin
  <1>3. ASSUME NEW r \in Requests, Arrive(r) PROVE TypeOK'
    <2> PICK u \in Users :
           \/ ForgotRead(r, u)
           \/ ResendRead(r, u)
           \/ \E o \in Otps \ UnbornIn(otp) : SignInRead(r, u, o) \/ VerifyRead(r, u, o)
           \/ \E t \in Tokens, p \in Passwords : ResetRead(r, u, t, p)
           \/ \E old, new \in Passwords : ChangeRead(r, u, old, new)
      BY <1>3 DEF Arrive
    <2> QED
      BY <1>2 DEF ForgotRead, ResendRead, SignInRead, VerifyRead, ResetRead,
                  ChangeRead, Await
  <1>4. ASSUME NEW r \in Requests, NEW from \in Await, NEW to \in {"forgot.create", "resend.create"},
               NEW ids, DropOtps(r, from, ids, to)
        PROVE  TypeOK'
    <2>1. [req[r] EXCEPT !.pc = to] \in Request
      BY <1>4, Known, GotoType DEF DropOtps, At, Await
    <2> QED
      BY <1>4, <2>1, TypeDropOtps DEF DropOtps, Goto, history, TypeOK
  <1>5. ASSUME NEW r \in Requests, NEW o \in Otps, ForgotCreate(r, o) \/ ResendCreate(r, o)
        PROVE  TypeOK'
    <2>1. [req[r] EXCEPT !.pc = "resend.mail"] \in Request /\ req[r].user \in Users
      BY <1>5, Known, GotoType DEF ForgotCreate, ResendCreate, At, Await
    <2>2. req' \in [Requests -> Request]
      BY <1>5, <2>1 DEF ForgotCreate, ResendCreate, Goto, Finish, TypeOK
    <2>3. otp' \in [Otps -> Row]
      BY <1>5, <2>1 DEF ForgotCreate, ResendCreate, CreateOtp, TypeOK, Row, Fresh
    <2> QED
      BY <1>5, <2>2, <2>3 DEF ForgotCreate, ResendCreate, CreateOtp, TypeOK, history
  <1>6. ASSUME NEW r \in Requests, ResendMailFailed(r) PROVE TypeOK'
    <2>1. [req[r] EXCEPT !.pc = "resend.undo"] \in Request
      BY <1>6, Known, GotoType DEF ResendMailFailed, At, Await
    <2> QED
      BY <1>6, <2>1, TypeFrame DEF ResendMailFailed, Goto
  <1>7. ASSUME NEW r \in Requests, ResendUndo(r) \/ SignInClear(r) \/ PurgeOtp(r)
        PROVE  TypeOK'
    BY <1>7, TypeDropOtps
       DEF ResendUndo, SignInClear, PurgeOtp, Finish, history, TypeOK
  <1>8. ASSUME NEW r \in Requests, NEW o \in Otps, SignInStale(r, o) \/ VerifyStale(r, o)
        PROVE  TypeOK'
    <2>1. [req[r] EXCEPT !.pc = "otp.purge", !.otp = o] \in Request
      BY <1>8, Known DEF SignInStale, VerifyStale, Stale, At, Request, RequestRecord, Await
    <2> QED
      BY <1>8, <2>1, TypeFrame DEF SignInStale, VerifyStale, Stale
  <1>9. ASSUME NEW r \in Requests, SignInMatch(r) \/ VerifyMatch(r) PROVE TypeOK'
    <2>1. req[r].otp \in Otps
      BY <1>9 DEF SignInMatch, VerifyMatch, Match, IsLatest, RowsOf, TypeOK
    <2>2. /\ [req[r] EXCEPT !.pc = "signin.clear"] \in Request
          /\ [req[r] EXCEPT !.pc = "verify.clear"] \in Request
      BY <1>9, <2>1, Known, GotoType DEF SignInMatch, VerifyMatch, Match, At, Await
    <2> QED
      BY <1>9, <2>2, TypeFrame DEF SignInMatch, VerifyMatch, Match, Goto
  <1>10. ASSUME NEW r \in Requests, VerifyClear(r) PROVE TypeOK'
    <2>1. [req[r] EXCEPT !.pc = "verify.create"] \in Request
      BY <1>10, Known, GotoType DEF VerifyClear, At, Await
    <2> QED
      BY <1>10, <2>1, TypeDropTokens DEF VerifyClear, Goto, history, TypeOK
  <1>11. ASSUME NEW r \in Requests, NEW t \in Tokens, VerifyCreate(r, t) PROVE TypeOK'
    <2>1. /\ [req[r] EXCEPT !.pc = "verify.consume", !.token = t] \in Request
          /\ req[r].user \in Users
      BY <1>11, Known DEF VerifyCreate, At, Request, RequestRecord, Await
    <2>2. token' \in [Tokens -> Row]
      BY <1>11, <2>1 DEF VerifyCreate, TypeOK, Row, Fresh
    <2>3. req' \in [Requests -> Request]
      BY <1>11, <2>1 DEF VerifyCreate, TypeOK
    <2> QED
      BY <1>11, <2>2, <2>3 DEF VerifyCreate, TypeOK, history
  <1>12. ASSUME NEW r \in Requests, VerifyConsume(r) PROVE TypeOK'
    <2>1. <<req[r].token, req[r].otp>> \in Tokens \X Otps
      BY <1>12, Known DEF VerifyConsume, At
    <2> QED
      BY <1>12, <2>1, TypeDropOtps DEF VerifyConsume, Finish, TypeOK
  <1>13. ASSUME NEW r \in Requests, ResetStale(r) \/ ResetMatch(r) PROVE TypeOK'
    <2>1. /\ [req[r] EXCEPT !.pc = "reset.purge"] \in Request
          /\ [req[r] EXCEPT !.pc = "reset.write"] \in Request
      BY <1>13, Known, GotoType DEF ResetStale, ResetMatch, At, Await
    <2> QED
      BY <1>13, <2>1, TypeFrame DEF ResetStale, ResetMatch, Goto
  <1>14. ASSUME NEW r \in Requests, ResetPurge(r) PROVE TypeOK'
    BY <1>14, TypeDropTokens DEF ResetPurge, Finish, history, TypeOK
  <1>15. ASSUME NEW r \in Requests, ResetWrite(r) PROVE TypeOK'
    <2>1. /\ [req[r] EXCEPT !.pc = "reset.consume"] \in Request
          /\ req[r].pass \in Passwords
      BY <1>15, Known, GotoType DEF ResetWrite, At, Await
    <2>2. wrote' \in [Tokens -> Nat]
      BY <1>15, Known DEF ResetWrite, At, TypeOK
    <2> QED
      BY <1>15, <2>1, <2>2 DEF ResetWrite, Goto, TypeOK
  <1>16. ASSUME NEW r \in Requests, ResetConsume(r) PROVE TypeOK'
    <2>1. done' \in [Tokens -> Nat]
      BY <1>16, Known DEF ResetConsume, At, TypeOK
    <2> QED
      BY <1>16, <2>1, TypeDropTokens DEF ResetConsume, Finish
  <1>17. ASSUME NEW r \in Requests, ResetTooLate(r) PROVE TypeOK'
    <2>1. late' \in [Tokens -> Nat]
      BY <1>17, Known DEF ResetTooLate, At, TypeOK
    <2> QED
      BY <1>17, <2>1 DEF ResetTooLate, Finish, TypeOK, rows
  <1>25. ASSUME NEW r \in Requests, ResetCut(r) PROVE TypeOK'
    <2>1. cut' \in [Tokens -> Nat]
      BY <1>25, Known DEF ResetCut, At, TypeOK
    <2> QED
      BY <1>25, <2>1 DEF ResetCut, Finish, TypeOK, rows
  <1>18. ASSUME NEW r \in Requests, ChangeWrite(r) PROVE TypeOK'
    <2>1. req[r].pass \in Passwords
      BY <1>18, Known DEF ChangeWrite, At
    <2> QED
      BY <1>18, <2>1 DEF ChangeWrite, Finish, history, TypeOK
  <1>19. ASSUME NEW r \in Requests, Step(r) PROVE TypeOK'
    BY <1>19, <1>1, <1>4, <1>5, <1>6, <1>7, <1>8, <1>9, <1>10, <1>11, <1>12,
       <1>13, <1>14, <1>15, <1>16, <1>17, <1>18, <1>25
       DEF Step, ForgotClear, ResendClear, ResendMailed, SignInRefuse, VerifyRefuse,
           Refuse, ResetRefuse, Missing, Await
  <1>20. ASSUME NEW r \in Requests, Fail(r) PROVE TypeOK'
    BY <1>20, <1>1 DEF Fail
  <1>21. ASSUME NEW o \in Otps, ExpireOtp(o) PROVE TypeOK'
    BY <1>21 DEF ExpireOtp, TypeOK, Row, history
  <1>22. ASSUME NEW t \in Tokens, ExpireToken(t) PROVE TypeOK'
    BY <1>22 DEF ExpireToken, TypeOK, Row, history
  <1>23. ASSUME NEW u \in Users, DeleteUser(u) PROVE TypeOK'
    BY <1>23, DropType DEF DeleteUser, TypeOK, history
  <1>24. CASE UNCHANGED vars
    BY <1>24 DEF vars, TypeOK
  <1> QED
    BY <1>3, <1>19, <1>20, <1>21, <1>22, <1>23, <1>24 DEF Next

\* Accounts, codes, tokens and requests are well formed in every reachable
\* state; in particular a handler that is about to remove or to write a row
\* knows which one.
THEOREM TypeCorrect == Spec => []TypeOK
  BY InitType, TypeStep, PTL DEF Spec

-----------------------------------------------------------------------------
(* The inductive invariant behind the claims about tokens *)

\* A token that was used, with success or too late, has been removed.
SpentIsGone == \A t \in Tokens : done[t] + late[t] > 0 => token[t].state = "gone"

\* A token was returned for a code of its own account, and the code is removed.
ToldIsUsed ==
    \A m \in told : /\ otp[m[2]].state = "gone"
                    /\ token[m[1]].state # "unborn"
                    /\ token[m[1]].user = otp[m[2]].user

\* The resets that are past the look-up of t, and those that have written.
Resetting(t) == {r \in Requests : /\ req[r].pc \in {"reset.write", "reset.consume"}
                                  /\ req[r].token = t}

Consuming(t) == {r \in Requests : req[r].pc = "reset.consume" /\ req[r].token = t}

\* The resets that found t valid, but for those that failed: the first that ends
\* removes t, so no more of them ever began than fit at once.
ResetsBounded ==
    \A t \in Tokens : done[t] + late[t] + Cardinality(Resetting(t)) <= Cardinality(Requests)

\* Every write with t is of a reset that has ended in one of three ways, or is
\* about to remove t.
WritesCounted ==
    \A t \in Tokens : wrote[t] <= done[t] + late[t] + cut[t] + Cardinality(Consuming(t))

\* What a handler knows of the rows it has read or created stays true of them.
KnowsOtp(r) ==
    req[r].pc \in {"verify.clear", "verify.create", "verify.consume"} =>
        /\ otp[req[r].otp].state # "unborn"
        /\ otp[req[r].otp].user = req[r].user

KnowsToken(r) ==
    req[r].pc \in {"verify.consume", "reset.write", "reset.consume"} =>
        /\ token[req[r].token].state # "unborn"
        /\ token[req[r].token].user = req[r].user

KnowsTold(r) ==
    req[r].pc \in {"reset.find", "reset.purge", "reset.write", "reset.consume"} =>
        \E o \in Otps : <<req[r].token, o>> \in told

Knowing == \A r \in Requests : KnowsOtp(r) /\ KnowsToken(r) /\ KnowsTold(r)

TokenInv ==
    /\ TypeOK
    /\ SpentIsGone
    /\ ToldIsUsed
    /\ Knowing
    /\ OneTokenPerOtp
    /\ OneSuccessPerToken
    /\ ResetsBounded
    /\ WritesCounted

\* A row that is born keeps its owner, and a row that is gone stays gone.
Aged(f, g, I) ==
    \A i \in I : f[i].state # "unborn" =>
        /\ g[i].state # "unborn"
        /\ g[i].user = f[i].user
        /\ f[i].state = "gone" => g[i].state = "gone"

\* The row that is deleted is gone.
LEMMA DropOne ==
  ASSUME NEW I, NEW f \in [I -> Row], NEW i \in I
  PROVE  Drop(f, {i})[i].state = "gone" /\ Drop(f, {i})[i].user = f[i].user
  <1>1. Drop(f, {i})[i] = [f[i] EXCEPT !.state = "gone"] /\ f[i] \in Row
    BY DEF Drop
  <1> QED
    BY <1>1 DEF Row

\* Nothing is created by deleting.
LEMMA DropAges ==
  ASSUME NEW I, NEW f \in [I -> Row], NEW ids
  PROVE  Aged(f, Drop(f, ids), I)
  <1> SUFFICES ASSUME NEW i \in I, f[i].state # "unborn"
               PROVE  /\ Drop(f, ids)[i].state # "unborn"
                      /\ Drop(f, ids)[i].user = f[i].user
                      /\ f[i].state = "gone" => Drop(f, ids)[i].state = "gone"
    BY DEF Aged
  <1>1. CASE i \in ids
    <2>1. Drop(f, ids)[i] = [f[i] EXCEPT !.state = "gone"] /\ f[i] \in Row
      BY <1>1, DropType
    <2> QED
      BY <2>1 DEF Row
  <1>2. CASE i \notin ids
    <2>1. Drop(f, ids)[i] = f[i]
      BY <1>2 DEF Drop
    <2> QED
      BY <2>1
  <1> QED
    BY <1>1, <1>2

\* Rows only age: no operation brings a removed code or token back, or gives it
\* to another account.
LEMMA Aging ==
  ASSUME TypeOK, [Next]_vars
  PROVE  Aged(otp, otp', Otps) /\ Aged(token, token', Tokens)
  <1> DEFINE Same == UNCHANGED <<otp, token>>
  <1>1. Same => Aged(otp, otp', Otps) /\ Aged(token, token', Tokens)
    BY DEF Aged
  <1>2. ASSUME NEW ids, otp' = Drop(otp, ids), token' = token
        PROVE  Aged(otp, otp', Otps) /\ Aged(token, token', Tokens)
    BY <1>2, DropAges DEF TypeOK, Aged
  <1>3. ASSUME NEW ids, token' = Drop(token, ids), otp' = otp
        PROVE  Aged(otp, otp', Otps) /\ Aged(token, token', Tokens)
    BY <1>3, DropAges DEF TypeOK, Aged
  <1>4. ASSUME NEW r \in Requests, NEW o \in Otps, CreateOtp(r, o)
        PROVE  Aged(otp, otp', Otps) /\ Aged(token, token', Tokens)
    BY <1>4 DEF CreateOtp, UnbornIn, Aged, TypeOK
  <1>5. ASSUME NEW r \in Requests, NEW t \in Tokens, VerifyCreate(r, t)
        PROVE  Aged(otp, otp', Otps) /\ Aged(token, token', Tokens)
    BY <1>5 DEF VerifyCreate, UnbornIn, Aged, TypeOK
  <1>6. ASSUME NEW r \in Requests, Arrive(r) PROVE Same
    BY <1>6 DEF Arrive, ForgotRead, ResendRead, SignInRead, VerifyRead, ResetRead,
                ChangeRead, Begin, rows
  <1>7. ASSUME NEW r \in Requests, Step(r)
        PROVE  Aged(otp, otp', Otps) /\ Aged(token, token', Tokens)
    <2>1. CASE ForgotClear(r) \/ ResendClear(r) \/ ResendUndo(r) \/ SignInClear(r)
               \/ PurgeOtp(r) \/ VerifyConsume(r)
      BY <2>1, <1>2 DEF ForgotClear, ResendClear, DropOtps, ResendUndo, SignInClear,
                        PurgeOtp, VerifyConsume
    <2>2. CASE VerifyClear(r) \/ ResetPurge(r) \/ ResetConsume(r)
      BY <2>2, <1>3 DEF VerifyClear, ResetPurge, ResetConsume
    <2>3. CASE \E o \in Otps : ForgotCreate(r, o) \/ ResendCreate(r, o)
      BY <2>3, <1>4 DEF ForgotCreate, ResendCreate
    <2>4. CASE \E t \in Tokens : VerifyCreate(r, t)
      BY <2>4, <1>5
    <2>5. CASE \/ \E o \in Otps : SignInStale(r, o) \/ VerifyStale(r, o)
               \/ ResendMailed(r) \/ ResendMailFailed(r)
               \/ SignInRefuse(r) \/ SignInMatch(r) \/ VerifyRefuse(r) \/ VerifyMatch(r)
               \/ ResetRefuse(r) \/ ResetStale(r) \/ ResetMatch(r) \/ ResetWrite(r)
               \/ ResetTooLate(r) \/ ResetCut(r) \/ ChangeWrite(r) \/ Missing(r)
      BY <2>5, <1>1 DEF SignInStale, VerifyStale, Stale, ResendMailed, ResendMailFailed,
                        SignInRefuse, VerifyRefuse, Refuse, SignInMatch, VerifyMatch,
                        Match, ResetRefuse, ResetStale, ResetMatch, ResetWrite,
                        ResetTooLate, ResetCut, ChangeWrite, Missing, rows
    <2> QED
      BY <1>7, <2>1, <2>2, <2>3, <2>4, <2>5 DEF Step
  <1>8. ASSUME NEW r \in Requests, Fail(r) PROVE Same
    BY <1>8 DEF Fail, rows
  <1>9. ASSUME NEW o \in Otps, ExpireOtp(o)
        PROVE  Aged(otp, otp', Otps) /\ Aged(token, token', Tokens)
    BY <1>9 DEF ExpireOtp, Aged, TypeOK, Row
  <1>10. ASSUME NEW t \in Tokens, ExpireToken(t)
        PROVE  Aged(otp, otp', Otps) /\ Aged(token, token', Tokens)
    BY <1>10 DEF ExpireToken, Aged, TypeOK, Row
  <1>11. ASSUME NEW u \in Users, DeleteUser(u)
        PROVE  Aged(otp, otp', Otps) /\ Aged(token, token', Tokens)
    BY <1>11, DropAges DEF DeleteUser, TypeOK
  <1>12. CASE UNCHANGED vars
    BY <1>12, <1>1 DEF vars
  <1> QED
    BY <1>1, <1>6, <1>7, <1>8, <1>9, <1>10, <1>11, <1>12 DEF Next


\* The history changes only where a handler is answered or writes a password.
LEMMA HistoryStep ==
  ASSUME [Next]_vars
  PROVE  \/ UNCHANGED history
         \/ \E r \in Requests :
              \/ VerifyConsume(r) \/ ResetConsume(r) \/ ResetTooLate(r)
              \/ ResetWrite(r) \/ ResetCut(r)
  <1>1. ASSUME NEW r \in Requests, Arrive(r) PROVE UNCHANGED history
    BY <1>1 DEF Arrive, ForgotRead, ResendRead, SignInRead, VerifyRead, ResetRead,
                ChangeRead, Begin
  <1>2. ASSUME NEW r \in Requests, Step(r)
        PROVE  \/ UNCHANGED history
               \/ VerifyConsume(r) \/ ResetConsume(r) \/ ResetTooLate(r)
               \/ ResetWrite(r) \/ ResetCut(r)
    <2>1. CASE \/ ForgotClear(r) \/ ResendClear(r) \/ ResendUndo(r) \/ SignInClear(r)
               \/ PurgeOtp(r) \/ VerifyClear(r) \/ ResetPurge(r)
               \/ ResendMailed(r) \/ ResendMailFailed(r)
               \/ SignInRefuse(r) \/ SignInMatch(r) \/ VerifyRefuse(r) \/ VerifyMatch(r)
               \/ ResetRefuse(r) \/ ResetStale(r) \/ ResetMatch(r)
               \/ ChangeWrite(r) \/ Missing(r)
      BY <2>1 DEF ForgotClear, ResendClear, DropOtps, ResendUndo, SignInClear, PurgeOtp,
                  VerifyClear, ResetPurge, ResendMailed, ResendMailFailed, SignInRefuse,
                  VerifyRefuse, Refuse, SignInMatch, VerifyMatch, Match, ResetRefuse,
                  ResetStale, ResetMatch, ChangeWrite, Missing
    <2>2. CASE \/ \E o \in Otps : \/ SignInStale(r, o) \/ VerifyStale(r, o)
                                  \/ ForgotCreate(r, o) \/ ResendCreate(r, o)
               \/ \E t \in Tokens : VerifyCreate(r, t)
      BY <2>2 DEF SignInStale, VerifyStale, Stale, ForgotCreate, ResendCreate,
                  CreateOtp, VerifyCreate
    <2> QED
      BY <1>2, <2>1, <2>2 DEF Step
  <1>3. CASE UNCHANGED vars
    BY <1>3 DEF vars, history
  <1> QED
    BY <1>1, <1>2, <1>3 DEF Next, Fail, ExpireOtp, ExpireToken, DeleteUser

\* No token is returned twice for a code, and a token that is returned was
\* created for the owner of the code, which is removed at the same time.
LEMMA ToldStep ==
  ASSUME TokenInv, [Next]_vars
  PROVE  ToldIsUsed' /\ OneTokenPerOtp'
  <1>1. Aged(otp, otp', Otps) /\ Aged(token, token', Tokens)
    BY Aging DEF TokenInv
  <1>2. told \subseteq Tokens \X Otps
    BY DEF TokenInv, TypeOK
  <1>3. CASE told' = told
    <2>1. \A m \in told : m[1] \in Tokens /\ m[2] \in Otps
      BY <1>2
    <2>2. \A m \in told : otp[m[2]].state = "gone"
      BY DEF TokenInv, ToldIsUsed
    <2> QED
      BY <1>1, <1>3, <2>1, <2>2 DEF TokenInv, ToldIsUsed, OneTokenPerOtp, Aged
  <1>4. ASSUME NEW r \in Requests, VerifyConsume(r)
        PROVE  ToldIsUsed' /\ OneTokenPerOtp'
    <2> DEFINE t == req[r].token
               o == req[r].otp
    <2>1. /\ t \in Tokens /\ o \in Otps
          /\ otp[o].state # "unborn" /\ token[t].state # "unborn"
          /\ token[t].user = otp[o].user
      BY <1>4, Known DEF VerifyConsume, At, TokenInv, Knowing, KnowsOtp, KnowsToken
    <2>2. /\ otp[o].state \in {"fresh", "expired"}
          /\ otp' = Drop(otp, {o}) /\ told' = told \cup {<<t, o>>}
      BY <1>4 DEF VerifyConsume, Exists
    <2>3. otp \in [Otps -> Row]
      BY DEF TokenInv, TypeOK
    <2>4. otp'[o].state = "gone" /\ otp'[o].user = otp[o].user
      BY <2>1, <2>2, <2>3, DropOne
    <2>5. \A m \in told : m[1] \in Tokens /\ m[2] \in Otps /\ m[2] # o
      BY <1>2, <2>2 DEF TokenInv, ToldIsUsed
    <2>6. ToldIsUsed'
      <3>1. token'[t].state # "unborn" /\ token'[t].user = token[t].user
        BY <1>1, <2>1 DEF Aged
      <3>2. ASSUME NEW m \in told
            PROVE  /\ otp'[m[2]].state = "gone"
                   /\ token'[m[1]].state # "unborn"
                   /\ token'[m[1]].user = otp'[m[2]].user
        <4>1. m[1] \in Tokens /\ m[2] \in Otps
          BY <2>5
        <4>2. /\ otp[m[2]].state = "gone"
              /\ token[m[1]].state # "unborn"
              /\ token[m[1]].user = otp[m[2]].user
          BY DEF TokenInv, ToldIsUsed
        <4> QED
          BY <1>1, <4>1, <4>2 DEF Aged
      <3> SUFFICES ASSUME NEW m \in told'
                   PROVE  /\ otp'[m[2]].state = "gone"
                          /\ token'[m[1]].state # "unborn"
                          /\ token'[m[1]].user = otp'[m[2]].user
        BY DEF ToldIsUsed
      <3>3. m \in told \/ (m[1] = t /\ m[2] = o)
        BY <2>2
      <3> QED
        BY <2>1, <2>4, <3>1, <3>2, <3>3
    <2>7. OneTokenPerOtp'
      BY <2>2, <2>5 DEF TokenInv, OneTokenPerOtp
    <2> QED
      BY <2>6, <2>7
  <1>5. told' = told \/ \E r \in Requests : VerifyConsume(r)
    BY HistoryStep DEF history, ResetConsume, ResetTooLate, ResetWrite, ResetCut
  <1> QED
    BY <1>3, <1>4, <1>5

\* A token that was used stays removed, and is not used again with success.
LEMMA SpentStep ==
  ASSUME TokenInv, [Next]_vars
  PROVE  SpentIsGone' /\ OneSuccessPerToken'
  <1>1. Aged(token, token', Tokens)
    BY Aging DEF TokenInv
  <1>2. CASE UNCHANGED <<done, late>>
    BY <1>1, <1>2 DEF TokenInv, TypeOK, SpentIsGone, OneSuccessPerToken, Aged
  <1>3. ASSUME NEW r \in Requests, ResetConsume(r)
        PROVE  SpentIsGone' /\ OneSuccessPerToken'
    <2> DEFINE t == req[r].token
    <2>1. t \in Tokens
      BY <1>3, Known DEF ResetConsume, At, TokenInv
    <2>2. /\ token[t].state \in {"fresh", "expired"}
          /\ token' = Drop(token, {t})
          /\ done' = [done EXCEPT ![t] = @ + 1] /\ late' = late
      BY <1>3 DEF ResetConsume, Exists
    <2>3. token \in [Tokens -> Row] /\ done \in [Tokens -> Nat] /\ late \in [Tokens -> Nat]
      BY DEF TokenInv, TypeOK
    <2>4. token'[t].state = "gone"
      BY <2>1, <2>2, <2>3, DropOne
    <2>5. done[t] = 0
      <3>1. ~(done[t] + late[t] > 0)
        BY <2>1, <2>2 DEF TokenInv, SpentIsGone
      <3>2. done[t] \in Nat /\ late[t] \in Nat
        BY <2>1, <2>3
      <3> QED
        BY <3>1, <3>2
    <2>6. done'[t] = 1
      BY <2>1, <2>2, <2>3, <2>5
    <2>7. SpentIsGone'
      BY <1>1, <2>2, <2>3, <2>4 DEF TokenInv, SpentIsGone, Aged
    <2>8. OneSuccessPerToken'
      BY <2>2, <2>3, <2>5, <2>6 DEF TokenInv, OneSuccessPerToken
    <2> QED
      BY <2>7, <2>8
  <1>4. ASSUME NEW r \in Requests, ResetTooLate(r)
        PROVE  SpentIsGone' /\ OneSuccessPerToken'
    <2> DEFINE t == req[r].token
    <2>1. t \in Tokens
      BY <1>4, Known DEF ResetTooLate, At, TokenInv
    <2>2. /\ token[t].state \notin {"fresh", "expired"}
          /\ token' = token
          /\ late' = [late EXCEPT ![t] = @ + 1] /\ done' = done
      BY <1>4 DEF ResetTooLate, Exists, rows
    <2>3. token[t].state = "gone"
      BY <1>4, <2>1, <2>2
         DEF ResetTooLate, At, TokenInv, Knowing, KnowsToken, TypeOK, Row
    <2> QED
      BY <2>1, <2>2, <2>3 DEF TokenInv, TypeOK, SpentIsGone, OneSuccessPerToken
  <1>5. UNCHANGED <<done, late>> \/ \E r \in Requests : ResetConsume(r) \/ ResetTooLate(r)
    BY HistoryStep DEF history, VerifyConsume, ResetWrite, ResetCut
  <1> QED
    BY <1>2, <1>3, <1>4, <1>5


\* What a handler that is not answered yet knew stays true.
LEMMA KnowSame ==
  ASSUME TokenInv, [Next]_vars, NEW r \in Requests, req'[r] = req[r]
  PROVE  KnowsOtp(r)' /\ KnowsToken(r)' /\ KnowsTold(r)'
  <1>1. Aged(otp, otp', Otps) /\ Aged(token, token', Tokens)
    BY Aging DEF TokenInv
  <1>2. told \subseteq told'
    BY HistoryStep DEF history, VerifyConsume, ResetConsume, ResetTooLate, ResetWrite, ResetCut
  <1>3. KnowsOtp(r) /\ KnowsToken(r) /\ KnowsTold(r)
    BY DEF TokenInv, Knowing
  <1>4. KnowsOtp(r)'
    BY <1>1, <1>3, Known DEF KnowsOtp, Aged, TokenInv
  <1>5. KnowsToken(r)'
    BY <1>1, <1>3, Known DEF KnowsToken, Aged, TokenInv
  <1>6. KnowsTold(r)'
    BY <1>2, <1>3 DEF KnowsTold
  <1> QED
    BY <1>4, <1>5, <1>6

\* The places where a handler relies on rows or tokens it has seen.
Reliant == {"verify.clear", "verify.create", "verify.consume",
            "reset.find", "reset.purge", "reset.write", "reset.consume"}

\* A step of one handler keeps what all know, if what that one knows is true.
LEMMA KnowOne ==
  ASSUME TokenInv, [Next]_vars, NEW r \in Requests, NEW q \in Request,
         req' = [req EXCEPT ![r] = q],
         q.pc \in Reliant => KnowsOtp(r)' /\ KnowsToken(r)' /\ KnowsTold(r)'
  PROVE  Knowing'
  <1> SUFFICES ASSUME NEW s \in Requests
               PROVE  KnowsOtp(s)' /\ KnowsToken(s)' /\ KnowsTold(s)'
    BY DEF Knowing
  <1>1. CASE s # r
    BY <1>1, KnowSame DEF TokenInv, TypeOK
  <1>2. CASE s = r
    <2>1. req'[r] = q
      BY DEF TokenInv, TypeOK
    <2> QED
      BY <1>2, <2>1 DEF Reliant, KnowsOtp, KnowsToken, KnowsTold
  <1> QED
    BY <1>1, <1>2

\* What a handler knows, of the codes and tokens it goes on with, is true.
LEMMA KnowingStep ==
  ASSUME TokenInv, [Next]_vars
  PROVE  Knowing'
  <1>0. TypeOK /\ TypeOK'
    BY TypeStep DEF TokenInv
  <1>1. Aged(otp, otp', Otps) /\ Aged(token, token', Tokens)
    BY Aging DEF TokenInv
  <1>2. \A r \in Requests : req'[r] \in Request
    BY <1>0 DEF TypeOK
  <1>3. ASSUME NEW r \in Requests, Arrive(r) PROVE Knowing'
    <2>1. ASSUME NEW u \in Users, NEW t \in Tokens, NEW p \in Passwords,
                 ResetRead(r, u, t, p)
          PROVE  Knowing'
      <3> DEFINE q == [pc |-> "reset.find", user |-> u, otp |-> None, token |-> t, pass |-> p]
      <3>1. /\ req' = [req EXCEPT ![r] = q] /\ told' = told
            /\ \E o \in Otps : <<t, o>> \in told
        BY <2>1 DEF ResetRead, Begin, history
      <3>2. req'[r] = q
        BY <3>1, <1>0 DEF TypeOK
      <3>3. KnowsOtp(r)' /\ KnowsToken(r)' /\ KnowsTold(r)'
        BY <3>1, <3>2 DEF KnowsOtp, KnowsToken, KnowsTold
      <3>4. q \in Request
        BY <1>2, <3>2
      <3> QED
        BY <3>1, <3>3, <3>4, KnowOne
    <2>2. ASSUME NEW u \in Users, NEW where \in Await \ Reliant, NEW o, NEW t, NEW p,
                 Begin(r, u, where, o, t, p)
          PROVE  Knowing'
      <3> DEFINE q == [pc |-> where, user |-> u, otp |-> o, token |-> t, pass |-> p]
      <3>1. req' = [req EXCEPT ![r] = q]
        BY <2>2 DEF Begin
      <3>2. q \in Request
        BY <1>0, <1>2, <3>1 DEF TypeOK
      <3> QED
        BY <3>1, <3>2, KnowOne
    <2> QED
      BY <1>3, <2>1, <2>2 DEF Arrive, ForgotRead, ResendRead, SignInRead, VerifyRead,
                              ChangeRead, Await, Reliant
  <1>4. ASSUME NEW r \in Requests, NEW to \in Await \ Reliant, Goto(r, to) PROVE Knowing'
    <2> DEFINE q == [req[r] EXCEPT !.pc = to]
    <2>1. req' = [req EXCEPT ![r] = q] /\ q.pc = to
      BY <1>4, Known, <1>0 DEF Goto, Request, RequestRecord
    <2>2. q \in Request
      BY <1>0, <1>2, <2>1 DEF TypeOK
    <2> QED
      BY <2>1, <2>2, KnowOne
  <1>5. ASSUME NEW r \in Requests, Finish(r) PROVE Knowing'
    BY <1>5, IdleType, KnowOne DEF Finish, Idle, Reliant
  <1>6. ASSUME NEW r \in Requests, NEW o \in Otps, SignInStale(r, o) \/ VerifyStale(r, o)
        PROVE  Knowing'
    <2> DEFINE q == [req[r] EXCEPT !.pc = "otp.purge", !.otp = o]
    <2>1. req' = [req EXCEPT ![r] = q] /\ q.pc = "otp.purge"
      BY <1>6, Known, <1>0 DEF SignInStale, VerifyStale, Stale, Request, RequestRecord
    <2>2. q \in Request
      BY <1>0, <1>2, <2>1 DEF TypeOK
    <2> QED
      BY <2>1, <2>2, KnowOne DEF Reliant
  <1>7. ASSUME NEW r \in Requests, NEW to \in Reliant, Goto(r, to),
               [req[r] EXCEPT !.pc = to] = req'[r]
                  => KnowsOtp(r)' /\ KnowsToken(r)' /\ KnowsTold(r)'
        PROVE  Knowing'
    <2> DEFINE q == [req[r] EXCEPT !.pc = to]
    <2>1. req' = [req EXCEPT ![r] = q] /\ req'[r] = q
      BY <1>7, <1>0 DEF Goto, TypeOK
    <2> QED
      BY <1>2, <1>7, <2>1, KnowOne
  <1>8. ASSUME NEW r \in Requests, VerifyMatch(r) PROVE Knowing'
    <2>1. /\ req[r].otp \in Otps
          /\ otp[req[r].otp].user = req[r].user
          /\ otp[req[r].otp].state # "unborn" /\ otp' = otp
      BY <1>8, <1>0 DEF VerifyMatch, Match, IsLatest, RowsOf, Exists, TypeOK, rows
    <2>2. ASSUME [req[r] EXCEPT !.pc = "verify.clear"] = req'[r]
          PROVE  KnowsOtp(r)' /\ KnowsToken(r)' /\ KnowsTold(r)'
      BY <2>1, <2>2, Known, <1>0
         DEF KnowsOtp, KnowsToken, KnowsTold, Request, RequestRecord
    <2> QED
      BY <1>8, <2>2, <1>7 DEF VerifyMatch, Match, Reliant
  <1>9. ASSUME NEW r \in Requests, VerifyClear(r) PROVE Knowing'
    <2>1. /\ req[r].otp \in Otps /\ KnowsOtp(r) /\ req[r].pc = "verify.clear"
      BY <1>9, Known DEF VerifyClear, At, TokenInv, Knowing
    <2>2. ASSUME [req[r] EXCEPT !.pc = "verify.create"] = req'[r]
          PROVE  KnowsOtp(r)' /\ KnowsToken(r)' /\ KnowsTold(r)'
      BY <1>1, <2>1, <2>2, Known, <1>0
         DEF KnowsOtp, KnowsToken, KnowsTold, Request, RequestRecord, Aged
    <2> QED
      BY <1>9, <2>2, <1>7 DEF VerifyClear, Reliant
  <1>10. ASSUME NEW r \in Requests, NEW t \in Tokens, VerifyCreate(r, t) PROVE Knowing'
    <2> DEFINE q == [req[r] EXCEPT !.pc = "verify.consume", !.token = t]
    <2>1. /\ req[r].otp \in Otps /\ KnowsOtp(r) /\ req[r].pc = "verify.create"
      BY <1>10, Known DEF VerifyCreate, At, TokenInv, Knowing
    <2>2. /\ q.pc = "verify.consume" /\ q.token = t
          /\ q.user = req[r].user /\ q.otp = req[r].otp
      BY Known, <1>0 DEF Request, RequestRecord
    <2>3. req' = [req EXCEPT ![r] = q] /\ req'[r] = q
      BY <1>10, <1>0 DEF VerifyCreate, TypeOK
    <2>4. token'[t] = Fresh(req[r].user)
      BY <1>10, <1>0 DEF VerifyCreate, TypeOK
    <2>5. KnowsOtp(r)' /\ KnowsToken(r)' /\ KnowsTold(r)'
      BY <1>1, <2>1, <2>2, <2>3, <2>4 DEF KnowsOtp, KnowsToken, KnowsTold, Aged, Fresh
    <2> QED
      BY <1>2, <2>3, <2>5, KnowOne
  <1>11. ASSUME NEW r \in Requests, ResetStale(r) \/ ResetMatch(r) \/ ResetWrite(r)
         PROVE  Knowing'
    <2>1. /\ req[r].token \in Tokens /\ KnowsTold(r) /\ KnowsToken(r)
          /\ req[r].pc \in {"reset.find", "reset.write"}
      BY <1>11, Known DEF ResetStale, ResetMatch, ResetWrite, At, TokenInv, Knowing
    <2>2. told' = told /\ token' = token
      BY <1>11 DEF ResetStale, ResetMatch, ResetWrite, rows, history
    <2>3. ASSUME ResetMatch(r) \/ ResetWrite(r)
          PROVE  /\ token[req[r].token].state # "unborn"
                 /\ token[req[r].token].user = req[r].user
      BY <2>1, <2>3 DEF ResetMatch, ResetWrite, At, Fresh, KnowsToken
    <2>4. ASSUME NEW to \in {"reset.purge", "reset.write", "reset.consume"},
                 to = "reset.purge" \/ ResetMatch(r) \/ ResetWrite(r),
                 [req[r] EXCEPT !.pc = to] = req'[r]
          PROVE  KnowsOtp(r)' /\ KnowsToken(r)' /\ KnowsTold(r)'
      BY <2>1, <2>2, <2>3, <2>4, Known, <1>0
         DEF KnowsOtp, KnowsToken, KnowsTold, Request, RequestRecord
    <2> QED
      BY <1>11, <2>4, <1>7 DEF ResetStale, ResetMatch, ResetWrite, Reliant
  <1>12. ASSUME NEW r \in Requests, Step(r) PROVE Knowing'
    <2>1. CASE \/ ForgotClear(r) \/ ResendClear(r) \/ ResendMailFailed(r) \/ SignInMatch(r)
               \/ \E o \in Otps : ResendCreate(r, o)
      BY <2>1, <1>4 DEF ForgotClear, ResendClear, DropOtps, ResendMailFailed,
                        SignInMatch, Match, ResendCreate, Await, Reliant
    <2>2. CASE \/ ResendUndo(r) \/ SignInClear(r) \/ PurgeOtp(r) \/ ResendMailed(r)
               \/ SignInRefuse(r) \/ VerifyRefuse(r) \/ ResetRefuse(r) \/ VerifyConsume(r)
               \/ ResetPurge(r) \/ ResetConsume(r) \/ ResetTooLate(r) \/ ChangeWrite(r)
               \/ ResetCut(r) \/ Missing(r) \/ \E o \in Otps : ForgotCreate(r, o)
      BY <2>2, <1>5 DEF ResendUndo, SignInClear, PurgeOtp, ResendMailed, SignInRefuse,
                        VerifyRefuse, Refuse, ResetRefuse, VerifyConsume, ResetPurge,
                        ResetConsume, ResetTooLate, ResetCut, ChangeWrite, Missing, ForgotCreate
    <2> QED
      BY <1>12, <2>1, <2>2, <1>6, <1>8, <1>9, <1>10, <1>11 DEF Step
  <1>13. CASE UNCHANGED req
    BY <1>13, KnowSame DEF Knowing
  <1> QED
    BY <1>3, <1>5, <1>12, <1>13
       DEF Next, Fail, ExpireOtp, ExpireToken, DeleteUser, vars


\* The places where ValidBounded and ResetsBounded count a handler.
Counted == {"forgot.create", "resend.create", "verify.create",
            "reset.write", "reset.consume"}

\* A handler that moves leaves all others where they are.
LEMMA OthersKeep ==
  ASSUME TypeOK, NEW r \in Requests, NEW s \in Requests, s # r,
         Arrive(s) \/ Step(s) \/ Fail(s)
  PROVE  req'[r] = req[r]
  <1>1. CASE Arrive(s)
    BY <1>1 DEF Arrive, ForgotRead, ResendRead, SignInRead, VerifyRead,
                      ResetRead, ChangeRead, Begin, TypeOK
  <1>2. CASE \/ ForgotClear(s) \/ ResendClear(s) \/ ResendUndo(s) \/ SignInClear(s)
             \/ PurgeOtp(s) \/ VerifyClear(s) \/ ResetPurge(s)
             \/ ResendMailed(s) \/ ResendMailFailed(s)
             \/ SignInRefuse(s) \/ SignInMatch(s) \/ VerifyRefuse(s) \/ VerifyMatch(s)
    BY <1>2 DEF ForgotClear, ResendClear, DropOtps, ResendUndo, SignInClear,
                PurgeOtp, VerifyClear, ResetPurge, ResendMailed, ResendMailFailed,
                SignInRefuse, VerifyRefuse, Refuse, SignInMatch, VerifyMatch, Match,
                Goto, Finish, TypeOK
  <1>3. CASE \/ ResetRefuse(s) \/ ResetStale(s) \/ ResetMatch(s) \/ ResetWrite(s)
             \/ ChangeWrite(s) \/ Missing(s) \/ VerifyConsume(s) \/ ResetConsume(s)
             \/ ResetTooLate(s) \/ ResetCut(s)
    BY <1>3 DEF ResetRefuse, ResetStale, ResetMatch, ResetWrite, ChangeWrite,
                Missing, VerifyConsume, ResetConsume, ResetTooLate, ResetCut,
                Goto, Finish, TypeOK
  <1>4. CASE \/ \E o \in Otps : \/ SignInStale(s, o) \/ VerifyStale(s, o)
                                \/ ForgotCreate(s, o) \/ ResendCreate(s, o)
             \/ \E t \in Tokens : VerifyCreate(s, t)
    BY <1>4 DEF SignInStale, VerifyStale, Stale, ForgotCreate, ResendCreate,
                VerifyCreate, Goto, Finish, TypeOK
  <1>5. CASE Fail(s)
    BY <1>5 DEF Fail, Finish, TypeOK
  <1> QED
    BY <1>1, <1>2, <1>3, <1>4, <1>5 DEF Step

\* Only the removal of old rows takes a handler to the creation of a new one,
\* and only the look-up of a valid token takes it to the write.
LEMMA CountedStep ==
  ASSUME TypeOK, [Next]_vars, NEW r \in Requests, req'[r].pc \in Counted,
         req'[r] # req[r]
  PROVE  ForgotClear(r) \/ ResendClear(r) \/ VerifyClear(r) \/ ResetMatch(r) \/ ResetWrite(r)
  <1>1. ASSUME NEW s \in Requests, s # r, Arrive(s) \/ Step(s) \/ Fail(s)
        PROVE  req'[r] = req[r]
    BY <1>1, OthersKeep
  <1>2. ASSUME NEW where \in Await \ Counted, Goto(r, where)
        PROVE  FALSE
    BY <1>2, Known DEF Goto, TypeOK, Request, RequestRecord
  <1>3. ~Finish(r)
    BY DEF Finish, Idle, TypeOK, Counted
  <1>4. ASSUME Arrive(r) PROVE FALSE
    BY <1>4 DEF Arrive, ForgotRead, ResendRead, SignInRead, VerifyRead,
                ResetRead, ChangeRead, Begin, TypeOK, Counted
  <1>5. ASSUME Step(r), ~ForgotClear(r), ~ResendClear(r), ~VerifyClear(r),
               ~ResetMatch(r), ~ResetWrite(r)
        PROVE  FALSE
    <2>1. CASE \/ ResendMailFailed(r) \/ SignInMatch(r) \/ VerifyMatch(r) \/ ResetStale(r)
               \/ \E o \in Otps : ResendCreate(r, o)
      BY <2>1, <1>2 DEF ResendMailFailed, SignInMatch, VerifyMatch, Match, ResetStale,
                        ResendCreate, Await, Counted
    <2>2. CASE \/ ResendUndo(r) \/ SignInClear(r) \/ PurgeOtp(r) \/ ResendMailed(r)
               \/ SignInRefuse(r) \/ VerifyRefuse(r) \/ ResetRefuse(r) \/ VerifyConsume(r)
               \/ ResetPurge(r) \/ ResetConsume(r) \/ ResetTooLate(r) \/ ChangeWrite(r)
               \/ ResetCut(r) \/ Missing(r) \/ \E o \in Otps : ForgotCreate(r, o)
      BY <2>2, <1>3 DEF ResendUndo, SignInClear, PurgeOtp, ResendMailed, SignInRefuse,
                        VerifyRefuse, Refuse, ResetRefuse, VerifyConsume, ResetPurge,
                        ResetConsume, ResetTooLate, ResetCut, ChangeWrite, Missing, ForgotCreate
    <2>3. CASE \/ \E o \in Otps : SignInStale(r, o) \/ VerifyStale(r, o)
               \/ \E t \in Tokens : VerifyCreate(r, t)
      <3>1. req[r] \in RequestRecord
        BY Known DEF Request
      <3>2. ASSUME NEW o \in Otps, req'[r] = [req[r] EXCEPT !.pc = "otp.purge", !.otp = o]
            PROVE  FALSE
        BY <3>1, <3>2 DEF RequestRecord, Counted
      <3>3. ASSUME NEW t \in Tokens,
                   req'[r] = [req[r] EXCEPT !.pc = "verify.consume", !.token = t]
            PROVE  FALSE
        BY <3>1, <3>3 DEF RequestRecord, Counted
      <3> QED
        BY <2>3, <3>2, <3>3 DEF SignInStale, VerifyStale, Stale, VerifyCreate, TypeOK
    <2> QED
      BY <1>5, <2>1, <2>2, <2>3 DEF Step
  <1>6. CASE UNCHANGED req
    BY <1>6
  <1> QED
    BY <1>1, <1>3, <1>4, <1>5, <1>6
       DEF Next, Fail, ExpireOtp, ExpireToken, DeleteUser, vars

\* In particular, from no other operation does a handler proceed to the write.
LEMMA ResettingStep ==
  ASSUME TypeOK, [Next]_vars, NEW r \in Requests,
         req'[r].pc \in {"reset.write", "reset.consume"}
  PROVE  req'[r] = req[r] \/ ResetMatch(r) \/ ResetWrite(r)
  <1>1. ASSUME NEW to \in {"forgot.create", "resend.create", "verify.create"}, Goto(r, to)
        PROVE  FALSE
    BY <1>1, Known DEF Goto, TypeOK, Request, RequestRecord
  <1> QED
    BY <1>1, CountedStep DEF Counted, ForgotClear, ResendClear, DropOtps, VerifyClear

\* A handler that finds the token valid is counted for the first time while the
\* token was never used, and is counted once more only when it leaves.
LEMMA ResetsStep ==
  ASSUME TokenInv, [Next]_vars
  PROVE  ResetsBounded'
  <1> SUFFICES ASSUME NEW t \in Tokens
               PROVE  done'[t] + late'[t] + Cardinality(Resetting(t)') <= Cardinality(Requests)
    BY DEF ResetsBounded
  <1>0. TypeOK /\ TypeOK'
    BY TypeStep DEF TokenInv
  <1>1. /\ IsFiniteSet(Requests) /\ Cardinality(Requests) \in Nat
        /\ \A S \in SUBSET Requests : /\ IsFiniteSet(S)
                                      /\ Cardinality(S) \in Nat
                                      /\ Cardinality(S) <= Cardinality(Requests)
    BY ConstantsAssumption, FS_Subset, FS_CardinalityType
  <1>2. Resetting(t) \in SUBSET Requests /\ Resetting(t)' \in SUBSET Requests
    BY DEF Resetting
  <1>3. done[t] \in Nat /\ late[t] \in Nat
    BY <1>0 DEF TypeOK
  <1>4. done[t] + late[t] + Cardinality(Resetting(t)) <= Cardinality(Requests)
    BY DEF TokenInv, ResetsBounded
  <1>5. ASSUME Resetting(t)' \subseteq Resetting(t)
        PROVE  Cardinality(Resetting(t)') <= Cardinality(Resetting(t))
    BY <1>1, <1>2, <1>5, FS_Subset
  <1>6. ASSUME NEW r \in Requests, ResetMatch(r), req[r].token = t
        PROVE  done'[t] + late'[t] + Cardinality(Resetting(t)') <= Cardinality(Requests)
    <2>1. done' = done /\ late' = late /\ token[t] = Fresh(req[r].user)
      BY <1>6 DEF ResetMatch, history
    <2>2. ~(done[t] + late[t] > 0)
      BY <2>1 DEF TokenInv, SpentIsGone, Fresh
    <2> QED
      BY <1>1, <1>2, <1>3, <2>1, <2>2
  <1>7. ASSUME NEW r \in Requests, ResetConsume(r) \/ ResetTooLate(r), req[r].token = t
        PROVE  done'[t] + late'[t] + Cardinality(Resetting(t)') <= Cardinality(Requests)
    <2>1. done'[t] + late'[t] = done[t] + late[t] + 1
      BY <1>0, <1>3, <1>7 DEF ResetConsume, ResetTooLate, TypeOK
    <2>2. r \in Resetting(t) /\ req' = [req EXCEPT ![r] = Idle]
      BY <1>7 DEF ResetConsume, ResetTooLate, At, Resetting, Finish
    <2>3. Resetting(t)' \subseteq Resetting(t) \ {r}
      BY <2>2, <1>0 DEF Resetting, TypeOK, Idle
    <2>4. /\ IsFiniteSet(Resetting(t) \ {r})
          /\ Cardinality(Resetting(t) \ {r}) = Cardinality(Resetting(t)) - 1
      BY <1>1, <1>2, <2>2, FS_RemoveElement
    <2>5. Cardinality(Resetting(t)') <= Cardinality(Resetting(t) \ {r})
      BY <2>3, <2>4, FS_Subset
    <2> QED
      BY <1>1, <1>2, <1>3, <1>4, <2>1, <2>4, <2>5
  <1>8. ASSUME \A r \in Requests : ResetMatch(r) => req[r].token # t
        PROVE  Resetting(t)' \subseteq Resetting(t)
    <2> SUFFICES ASSUME NEW r \in Requests, r \in Resetting(t)' PROVE r \in Resetting(t)
      BY DEF Resetting
    <2>1. req'[r].pc \in {"reset.write", "reset.consume"} /\ req'[r].token = t
      BY DEF Resetting
    <2>2. CASE req'[r] = req[r]
      BY <2>1, <2>2 DEF Resetting
    <2>3. CASE ResetMatch(r)
      BY <1>0, <1>8, <2>1, <2>3, Known DEF ResetMatch, Goto, TypeOK, Request, RequestRecord
    <2>4. CASE ResetWrite(r)
      BY <1>0, <2>1, <2>4, Known
         DEF ResetWrite, At, Goto, Resetting, TypeOK, Request, RequestRecord
    <2> QED
      BY <1>0, <2>1, <2>2, <2>3, <2>4, ResettingStep
  <1>9. ASSUME \A r \in Requests : ResetConsume(r) \/ ResetTooLate(r) => req[r].token # t
        PROVE  done'[t] = done[t] /\ late'[t] = late[t]
    <2>1. CASE UNCHANGED history
      BY <2>1 DEF history
    <2>2. ASSUME NEW r \in Requests, VerifyConsume(r) \/ ResetConsume(r) \/ ResetTooLate(r)
                                    \/ ResetWrite(r) \/ ResetCut(r)
          PROVE  done'[t] = done[t] /\ late'[t] = late[t]
      BY <1>0, <1>9, <2>2 DEF VerifyConsume, ResetConsume, ResetTooLate, ResetWrite, ResetCut, TypeOK
    <2> QED
      BY <2>1, <2>2, HistoryStep
  <1> QED
    BY <1>1, <1>2, <1>3, <1>4, <1>5, <1>6, <1>7, <1>8, <1>9

\* A reset that has written leaves the removal of its token only in three ways.
LEMMA ConsumingStep ==
  ASSUME TypeOK, [Next]_vars, NEW r \in Requests, req[r].pc = "reset.consume"
  PROVE  req'[r] = req[r] \/ ResetConsume(r) \/ ResetTooLate(r) \/ ResetCut(r)
  <1>1. ASSUME NEW s \in Requests, s # r, Arrive(s) \/ Step(s) \/ Fail(s)
        PROVE  req'[r] = req[r]
    BY <1>1, OthersKeep
  <1>2. ~Arrive(r) /\ ~Fail(r)
    BY DEF Arrive, ForgotRead, ResendRead, SignInRead, VerifyRead, ResetRead,
           ChangeRead, Begin, Idle, Fail
  <1>3. ASSUME Step(r) PROVE ResetConsume(r) \/ ResetTooLate(r) \/ ResetCut(r)
    <2>1. ~(\/ ForgotClear(r) \/ ResendClear(r) \/ ResendUndo(r) \/ SignInClear(r)
            \/ PurgeOtp(r) \/ VerifyClear(r) \/ ResetPurge(r)
            \/ ResendMailed(r) \/ ResendMailFailed(r)
            \/ SignInRefuse(r) \/ SignInMatch(r) \/ VerifyRefuse(r) \/ VerifyMatch(r))
      BY DEF ForgotClear, ResendClear, DropOtps, ResendUndo, SignInClear, PurgeOtp,
             VerifyClear, ResetPurge, ResendMailed, ResendMailFailed, SignInRefuse,
             SignInMatch, VerifyRefuse, VerifyMatch, Refuse, Match, At
    <2>2. ~(\/ ResetRefuse(r) \/ ResetStale(r) \/ ResetMatch(r) \/ ResetWrite(r)
            \/ ChangeWrite(r) \/ Missing(r) \/ VerifyConsume(r))
      BY DEF ResetRefuse, ResetStale, ResetMatch, ResetWrite, ChangeWrite, Missing,
             VerifyConsume, At
    <2>3. ~(\/ \E o \in Otps : \/ SignInStale(r, o) \/ VerifyStale(r, o)
                               \/ ForgotCreate(r, o) \/ ResendCreate(r, o)
            \/ \E t \in Tokens : VerifyCreate(r, t))
      BY DEF SignInStale, VerifyStale, Stale, ForgotCreate, ResendCreate, VerifyCreate, At
    <2> QED
      BY <1>3, <2>1, <2>2, <2>3 DEF Step
  <1>4. CASE UNCHANGED req
    BY <1>4
  <1> QED
    BY <1>1, <1>2, <1>3, <1>4 DEF Next, ExpireOtp, ExpireToken, DeleteUser, vars

\* A write is counted when it is made, together with the reset that made it; that
\* reset is counted on when it ends.
LEMMA WritesStep ==
  ASSUME TokenInv, [Next]_vars
  PROVE  WritesCounted'
  <1> SUFFICES ASSUME NEW t \in Tokens
               PROVE  wrote'[t] <= done'[t] + late'[t] + cut'[t] + Cardinality(Consuming(t)')
    BY DEF WritesCounted
  <1>0. TypeOK /\ TypeOK'
    BY TypeStep DEF TokenInv
  <1>1. \A S \in SUBSET Requests : IsFiniteSet(S) /\ Cardinality(S) \in Nat
    BY ConstantsAssumption, FS_Subset, FS_CardinalityType
  <1>2. Consuming(t) \in SUBSET Requests /\ Consuming(t)' \in SUBSET Requests
    BY DEF Consuming
  <1>3. /\ done[t] \in Nat /\ late[t] \in Nat /\ wrote[t] \in Nat /\ cut[t] \in Nat
        /\ done'[t] \in Nat /\ late'[t] \in Nat /\ wrote'[t] \in Nat /\ cut'[t] \in Nat
        /\ Cardinality(Consuming(t)) \in Nat /\ Cardinality(Consuming(t)') \in Nat
    BY <1>0, <1>1, <1>2 DEF TypeOK
  <1>4. wrote[t] <= done[t] + late[t] + cut[t] + Cardinality(Consuming(t))
    BY DEF TokenInv, WritesCounted
  <1>5. ASSUME NEW r \in Requests, ResetWrite(r), req[r].token = t
        PROVE  wrote'[t] <= done'[t] + late'[t] + cut'[t] + Cardinality(Consuming(t)')
    <2>1. /\ wrote'[t] = wrote[t] + 1
          /\ done'[t] = done[t] /\ late'[t] = late[t] /\ cut'[t] = cut[t]
      BY <1>0, <1>5 DEF ResetWrite, TypeOK
    <2>2. r \notin Consuming(t)
      BY <1>5 DEF ResetWrite, At, Consuming
    <2>3. Consuming(t) \cup {r} \subseteq Consuming(t)'
      BY <1>0, <1>5, Known DEF ResetWrite, Goto, Consuming, TypeOK, Request, RequestRecord
    <2>4. Cardinality(Consuming(t) \cup {r}) = Cardinality(Consuming(t)) + 1
      BY <1>1, <1>2, <2>2, FS_AddElement
    <2>5. Cardinality(Consuming(t) \cup {r}) <= Cardinality(Consuming(t)')
      BY <1>1, <1>2, <2>3, FS_Subset
    <2> QED
      BY <1>3, <1>4, <2>1, <2>4, <2>5
  <1>6. ASSUME NEW r \in Requests, ResetConsume(r) \/ ResetTooLate(r) \/ ResetCut(r),
               req[r].token = t
        PROVE  wrote'[t] <= done'[t] + late'[t] + cut'[t] + Cardinality(Consuming(t)')
    <2>1. /\ done'[t] + late'[t] + cut'[t] = done[t] + late[t] + cut[t] + 1
          /\ wrote' = wrote
      <3>1. CASE ResetConsume(r)
        BY <1>0, <1>3, <1>6, <3>1 DEF ResetConsume, TypeOK
      <3>2. CASE ResetTooLate(r)
        BY <1>0, <1>3, <1>6, <3>2 DEF ResetTooLate, TypeOK
      <3>3. CASE ResetCut(r)
        BY <1>0, <1>3, <1>6, <3>3 DEF ResetCut, TypeOK
      <3> QED
        BY <1>6, <3>1, <3>2, <3>3
    <2>2. req' = [req EXCEPT ![r] = Idle]
      BY <1>6 DEF ResetConsume, ResetTooLate, ResetCut, Finish
    <2>3. r \in Consuming(t)
      BY <1>6 DEF ResetConsume, ResetTooLate, ResetCut, At, Consuming
    <2>4. Consuming(t) \ {r} \subseteq Consuming(t)'
      BY <1>0, <2>2 DEF Consuming, TypeOK
    <2>5. Cardinality(Consuming(t) \ {r}) = Cardinality(Consuming(t)) - 1
      BY <1>1, <1>2, <2>3, FS_RemoveElement
    <2>6. Cardinality(Consuming(t) \ {r}) <= Cardinality(Consuming(t)')
      BY <1>1, <1>2, <2>4, FS_Subset
    <2> QED
      BY <1>3, <1>4, <2>1, <2>5, <2>6
  <1>7. ASSUME \A r \in Requests : ResetWrite(r) \/ ResetConsume(r) \/ ResetTooLate(r)
                                    \/ ResetCut(r) => req[r].token # t
        PROVE  wrote'[t] <= done'[t] + late'[t] + cut'[t] + Cardinality(Consuming(t)')
    <2>1. wrote'[t] = wrote[t] /\ done'[t] = done[t] /\ late'[t] = late[t] /\ cut'[t] = cut[t]
      <3>1. CASE UNCHANGED history
        BY <3>1 DEF history
      <3>2. ASSUME NEW r \in Requests, ResetConsume(r) \/ ResetTooLate(r) \/ VerifyConsume(r)
                                        \/ ResetWrite(r) \/ ResetCut(r)
            PROVE  wrote'[t] = wrote[t] /\ done'[t] = done[t] /\ late'[t] = late[t]
                   /\ cut'[t] = cut[t]
        BY <1>0, <1>7, <3>2 DEF VerifyConsume, ResetConsume, ResetTooLate, ResetWrite,
                                 ResetCut, TypeOK
      <3> QED
        BY <3>1, <3>2, HistoryStep
    <2>2. Consuming(t) \subseteq Consuming(t)'
      BY <1>0, <1>7, ConsumingStep DEF Consuming
    <2>3. Cardinality(Consuming(t)) <= Cardinality(Consuming(t)')
      BY <1>1, <1>2, <2>2, FS_Subset
    <2> QED
      BY <1>3, <1>4, <2>1, <2>3
  <1> QED
    BY <1>5, <1>6, <1>7

\* A reset is about to write, or has written and is about to remove the token.
LEMMA UsesBound == TokenInv => TokenUsesBounded
  <1> SUFFICES ASSUME TokenInv, NEW t \in Tokens
               PROVE  wrote[t] + Cardinality(Writing(t)) <= Cardinality(Requests) + cut[t]
    BY DEF TokenUsesBounded
  <1>1. \A S \in SUBSET Requests : IsFiniteSet(S) /\ Cardinality(S) \in Nat
    BY ConstantsAssumption, FS_Subset, FS_CardinalityType
  <1>2. /\ Writing(t) \in SUBSET Requests /\ Consuming(t) \in SUBSET Requests
        /\ Writing(t) \cap Consuming(t) = {}
        /\ Resetting(t) = Writing(t) \cup Consuming(t)
    BY DEF Writing, InFlight, Consuming, Resetting
  <1>3. Cardinality(Resetting(t)) = Cardinality(Writing(t)) + Cardinality(Consuming(t))
    <2>1. IsFiniteSet(Writing(t)) /\ IsFiniteSet(Consuming(t))
      BY <1>1, <1>2
    <2>2. Cardinality(Writing(t) \cup Consuming(t))
            = Cardinality(Writing(t)) + Cardinality(Consuming(t))
                - Cardinality(Writing(t) \cap Consuming(t))
      BY <2>1, FS_Union
    <2>3. Cardinality(Writing(t) \cap Consuming(t)) = 0
      BY <1>2, FS_EmptySet
    <2>4. Cardinality(Writing(t)) \in Nat /\ Cardinality(Consuming(t)) \in Nat
      BY <2>1, FS_CardinalityType
    <2> QED
      BY <1>2, <2>2, <2>3, <2>4
  <1>4. /\ Cardinality(Writing(t)) \in Nat /\ Cardinality(Consuming(t)) \in Nat
        /\ Cardinality(Requests) \in Nat
    BY <1>1, <1>2
  <1>5. /\ wrote[t] <= done[t] + late[t] + cut[t] + Cardinality(Consuming(t))
        /\ done[t] + late[t] + Cardinality(Resetting(t)) <= Cardinality(Requests)
    BY DEF TokenInv, WritesCounted, ResetsBounded
  <1>6. wrote[t] \in Nat /\ done[t] \in Nat /\ late[t] \in Nat /\ cut[t] \in Nat
    BY DEF TokenInv, TypeOK
  <1> QED
    BY <1>3, <1>4, <1>5, <1>6

\* In the beginning nothing was returned and nothing is in flight.
LEMMA TokenInit == Init => TokenInv
  <1> SUFFICES ASSUME Init PROVE TokenInv
    OBVIOUS
  <1>1. TypeOK
    BY InitType
  <1>2. \A t \in Tokens : Resetting(t) = {} /\ Consuming(t) = {}
    BY DEF Init, Resetting, Consuming, Idle
  <1>3. Cardinality({}) = 0 /\ Cardinality(Requests) \in Nat
    BY ConstantsAssumption, FS_EmptySet, FS_CardinalityType
  <1>4. \A t \in Tokens : done[t] = 0 /\ late[t] = 0 /\ wrote[t] = 0 /\ cut[t] = 0
    BY DEF Init
  <1>5. ResetsBounded /\ WritesCounted
    <2>1. \A t \in Tokens : Cardinality(Resetting(t)) = 0 /\ Cardinality(Consuming(t)) = 0
      BY <1>2, <1>3
    <2> QED
      BY <1>3, <1>4, <2>1 DEF ResetsBounded, WritesCounted
  <1>6. told = {} /\ \A r \in Requests : req[r].pc = "idle"
    BY DEF Init, Idle
  <1> QED
    BY <1>1, <1>4, <1>5, <1>6 DEF TokenInv, SpentIsGone, ToldIsUsed, Knowing, KnowsOtp,
       KnowsToken, KnowsTold, OneTokenPerOtp, OneSuccessPerToken

\* Every step keeps the invariant.
LEMMA TokenStep == TokenInv /\ [Next]_vars => TokenInv'
  <1> SUFFICES ASSUME TokenInv, [Next]_vars PROVE TokenInv'
    OBVIOUS
  <1>1. TypeOK'
    BY TypeStep DEF TokenInv
  <1> QED
    BY <1>1, ToldStep, SpentStep, KnowingStep, ResetsStep, WritesStep DEF TokenInv

\* The invariant says whose token a reset in progress uses.
LEMMA TokenOwner == TokenInv => ResetByOwnToken
  <1> SUFFICES ASSUME TokenInv, NEW r \in Requests, req[r].pc = "reset.write"
               PROVE  /\ token[req[r].token].user = req[r].user
                      /\ \E o \in Otps : /\ <<req[r].token, o>> \in told
                                         /\ otp[o].user = req[r].user
    BY DEF ResetByOwnToken, InFlight
  <1>1. token[req[r].token].user = req[r].user
    BY DEF TokenInv, Knowing, KnowsToken
  <1>2. PICK o \in Otps : <<req[r].token, o>> \in told
    BY DEF TokenInv, Knowing, KnowsTold
  <1>3. token[req[r].token].user = otp[o].user
    BY <1>2 DEF TokenInv, ToldIsUsed
  <1> QED
    BY <1>1, <1>2, <1>3

\* A code is exchanged for at most one reset token that anybody gets to know,
\* however many verifications of it overlap.
THEOREM OneTokenSafety == Spec => []OneTokenPerOtp
  BY TokenInit, TokenStep, PTL DEF Spec, TokenInv

\* At most one reset with a token is answered with success.
THEOREM OneSuccessSafety == Spec => []OneSuccessPerToken
  BY TokenInit, TokenStep, PTL DEF Spec, TokenInv

\* A token sets a password at most once for every handler that can overlap, and
\* once more for every write after which its own removal failed.
THEOREM TokenUsesSafety == Spec => []TokenUsesBounded
  BY TokenInit, TokenStep, UsesBound, PTL DEF Spec

\* The password of an account is reset only with a token of that account that
\* was returned for a code of that account.
THEOREM OwnTokenSafety == Spec => []ResetByOwnToken
  BY TokenInit, TokenStep, TokenOwner, PTL DEF Spec


-----------------------------------------------------------------------------
(* How many codes and tokens of an account are valid *)

\* Deleting rows makes none of them valid.
LEMMA DropFresh ==
  ASSUME NEW I, NEW f \in [I -> Row], NEW ids, NEW u
  PROVE  FreshOf(Drop(f, ids), u) \subseteq FreshOf(f, u) \ ids
  <1> SUFFICES ASSUME NEW i \in I, Drop(f, ids)[i] = Fresh(u)
               PROVE  f[i] = Fresh(u) /\ i \notin ids
    BY DEF FreshOf, Drop
  <1>1. f[i] \in Row
    OBVIOUS
  <1>2. ASSUME i \in ids PROVE FALSE
    <2>1. Drop(f, ids)[i] = [f[i] EXCEPT !.state = "gone"]
      BY <1>2 DEF Drop
    <2>2. Drop(f, ids)[i].state = "gone"
      BY <1>1, <2>1 DEF Row
    <2> QED
      BY <2>2 DEF Fresh
  <1>3. f[i] = Fresh(u)
    BY <1>2 DEF Drop
  <1> QED
    BY <1>2, <1>3

\* Valid codes and tokens come only from the creation of one.
LEMMA FreshStep ==
  ASSUME TypeOK, [Next]_vars, NEW u \in Users
  PROVE  /\ \/ FreshOf(otp, u)' \subseteq FreshOf(otp, u)
            \/ \E r \in Requests, o \in Otps : ForgotCreate(r, o) \/ ResendCreate(r, o)
         /\ \/ FreshOf(token, u)' \subseteq FreshOf(token, u)
            \/ \E r \in Requests, t \in Tokens : VerifyCreate(r, t)
  <1> DEFINE Fewer == /\ FreshOf(otp, u)' \subseteq FreshOf(otp, u)
                      /\ FreshOf(token, u)' \subseteq FreshOf(token, u)
             Creates == \E r \in Requests, o \in Otps : ForgotCreate(r, o) \/ ResendCreate(r, o)
             CreatesToken == \E r \in Requests, t \in Tokens : VerifyCreate(r, t)
  <1>1. ASSUME UNCHANGED <<otp, token>> PROVE Fewer
    BY <1>1 DEF FreshOf
  <1>2. ASSUME NEW ids, otp' = Drop(otp, ids), token' = token PROVE Fewer
    BY <1>2, DropFresh DEF TypeOK, FreshOf
  <1>3. ASSUME NEW ids, token' = Drop(token, ids), otp' = otp PROVE Fewer
    BY <1>3, DropFresh DEF TypeOK, FreshOf
  <1>4. ASSUME Creates
        PROVE  FreshOf(token, u)' \subseteq FreshOf(token, u)
    BY <1>4 DEF ForgotCreate, ResendCreate, CreateOtp, FreshOf
  <1>5. ASSUME CreatesToken
        PROVE  FreshOf(otp, u)' \subseteq FreshOf(otp, u)
    BY <1>5 DEF VerifyCreate, FreshOf
  <1>6. ASSUME NEW r \in Requests, Arrive(r) PROVE Fewer
    BY <1>6, <1>1 DEF Arrive, ForgotRead, ResendRead, SignInRead, VerifyRead, ResetRead,
                      ChangeRead, Begin, rows
  <1>7. ASSUME NEW r \in Requests, Step(r) PROVE Fewer \/ Creates \/ CreatesToken
    <2>1. CASE ForgotClear(r) \/ ResendClear(r) \/ ResendUndo(r) \/ SignInClear(r)
               \/ PurgeOtp(r) \/ VerifyConsume(r)
      BY <2>1, <1>2 DEF ForgotClear, ResendClear, DropOtps, ResendUndo, SignInClear,
                        PurgeOtp, VerifyConsume
    <2>2. CASE VerifyClear(r) \/ ResetPurge(r) \/ ResetConsume(r)
      BY <2>2, <1>3 DEF VerifyClear, ResetPurge, ResetConsume
    <2>3. CASE \/ \E o \in Otps : SignInStale(r, o) \/ VerifyStale(r, o)
               \/ ResendMailed(r) \/ ResendMailFailed(r)
               \/ SignInRefuse(r) \/ SignInMatch(r) \/ VerifyRefuse(r) \/ VerifyMatch(r)
               \/ ResetRefuse(r) \/ ResetStale(r) \/ ResetMatch(r) \/ ResetWrite(r)
               \/ ResetTooLate(r) \/ ResetCut(r) \/ ChangeWrite(r) \/ Missing(r)
      BY <2>3, <1>1 DEF SignInStale, VerifyStale, Stale, ResendMailed, ResendMailFailed,
                        SignInRefuse, VerifyRefuse, Refuse, SignInMatch, VerifyMatch,
                        Match, ResetRefuse, ResetStale, ResetMatch, ResetWrite,
                        ResetTooLate, ResetCut, ChangeWrite, Missing, rows
    <2> QED
      BY <1>7, <2>1, <2>2, <2>3 DEF Step
  <1>8. ASSUME NEW r \in Requests, Fail(r) PROVE Fewer
    BY <1>8, <1>1 DEF Fail, rows
  <1>9. ASSUME NEW o \in Otps, ExpireOtp(o) PROVE Fewer
    <2>1. otp'[o].state = "expired"
      BY <1>9 DEF ExpireOtp, TypeOK, Row
    <2> QED
      BY <1>9, <2>1 DEF ExpireOtp, FreshOf, Fresh, TypeOK
  <1>10. ASSUME NEW t \in Tokens, ExpireToken(t) PROVE Fewer
    <2>1. token'[t].state = "expired"
      BY <1>10 DEF ExpireToken, TypeOK, Row
    <2> QED
      BY <1>10, <2>1 DEF ExpireToken, FreshOf, Fresh, TypeOK
  <1>11. ASSUME NEW v \in Users, DeleteUser(v) PROVE Fewer
    BY <1>11, DropFresh DEF DeleteUser, TypeOK, FreshOf
  <1>12. CASE UNCHANGED vars
    BY <1>12, <1>1 DEF vars
  <1> QED
    BY <1>4, <1>5, <1>6, <1>7, <1>8, <1>9, <1>10, <1>11, <1>12 DEF Next

\* The bound is an invariant: removing the old rows starts the count anew, and a
\* handler that creates a row is counted as the row from then on.
LEMMA ValidStep == TypeOK /\ ValidBounded /\ [Next]_vars => ValidBounded'
  <1> SUFFICES ASSUME TypeOK, ValidBounded, [Next]_vars, NEW u \in Users
               PROVE  /\ Cardinality(FreshOf(otp, u)') + Cardinality(OtpCreators(u)')
                             <= Cardinality(Requests)
                      /\ Cardinality(FreshOf(token, u)') + Cardinality(TokenCreators(u)')
                             <= Cardinality(Requests)
    BY DEF ValidBounded
  <1> DEFINE N == Cardinality(Requests)
  <1>0. TypeOK'
    BY TypeStep
  <1>1. /\ N \in Nat
        /\ \A S \in SUBSET Requests : /\ IsFiniteSet(S)
                                      /\ Cardinality(S) \in Nat
                                      /\ Cardinality(S) <= N
    BY ConstantsAssumption, FS_Subset, FS_CardinalityType
  <1>2. /\ OtpCreators(u) \in SUBSET Requests /\ OtpCreators(u)' \in SUBSET Requests
        /\ TokenCreators(u) \in SUBSET Requests /\ TokenCreators(u)' \in SUBSET Requests
    BY DEF OtpCreators, TokenCreators, InFlight
  <1>3. /\ IsFiniteSet(Otps) /\ FreshOf(otp, u) \subseteq Otps
        /\ IsFiniteSet(Tokens) /\ FreshOf(token, u) \subseteq Tokens
    BY ConstantsAssumption, FS_Interval DEF FreshOf, TypeOK, Otps
  <1>4. IsFiniteSet(FreshOf(otp, u)) /\ IsFiniteSet(FreshOf(token, u))
    BY <1>3, FS_Subset
  <1>5. /\ Cardinality(FreshOf(otp, u)) + Cardinality(OtpCreators(u)) <= N
        /\ Cardinality(FreshOf(token, u)) + Cardinality(TokenCreators(u)) <= N
    BY DEF ValidBounded
  <1>6. ASSUME NEW r \in Requests, ForgotClear(r) \/ ResendClear(r), req[r].user = u
        PROVE  Cardinality(FreshOf(otp, u)') + Cardinality(OtpCreators(u)') <= N
    <2>1. otp' = Drop(otp, FreshOf(otp, u))
      BY <1>6 DEF ForgotClear, ResendClear, DropOtps
    <2>2. FreshOf(otp, u)' = {}
      BY <2>1, DropFresh DEF TypeOK, FreshOf
    <2> QED
      BY <1>1, <1>2, <2>2, FS_EmptySet
  <1>7. ASSUME NEW r \in Requests, VerifyClear(r), req[r].user = u
        PROVE  Cardinality(FreshOf(token, u)') + Cardinality(TokenCreators(u)') <= N
    <2>1. token' = Drop(token, FreshOf(token, u))
      BY <1>7 DEF VerifyClear
    <2>2. FreshOf(token, u)' = {}
      BY <2>1, DropFresh DEF TypeOK, FreshOf
    <2> QED
      BY <1>1, <1>2, <2>2, FS_EmptySet
  <1>8. ASSUME \A r \in Requests : ForgotClear(r) \/ ResendClear(r) => req[r].user # u
        PROVE  OtpCreators(u)' \subseteq OtpCreators(u)
    <2> SUFFICES ASSUME NEW r \in Requests, req'[r].pc \in {"forgot.create", "resend.create"},
                        req'[r].user = u
                 PROVE  r \in OtpCreators(u)
      BY DEF OtpCreators, InFlight
    <2>1. ASSUME NEW to, Goto(r, to) PROVE req'[r].user = req[r].user /\ req'[r].pc = to
      BY <2>1, Known DEF Goto, TypeOK, Request, RequestRecord
    <2>2. CASE req'[r] = req[r]
      BY <2>2 DEF OtpCreators, InFlight
    <2> QED
      BY <1>8, <2>1, <2>2, CountedStep
         DEF Counted, ForgotClear, ResendClear, DropOtps, VerifyClear, ResetMatch, ResetWrite
  <1>9. ASSUME \A r \in Requests : VerifyClear(r) => req[r].user # u
        PROVE  TokenCreators(u)' \subseteq TokenCreators(u)
    <2> SUFFICES ASSUME NEW r \in Requests, req'[r].pc = "verify.create", req'[r].user = u
                 PROVE  r \in TokenCreators(u)
      BY DEF TokenCreators, InFlight
    <2>1. ASSUME NEW to, Goto(r, to) PROVE req'[r].user = req[r].user /\ req'[r].pc = to
      BY <2>1, Known DEF Goto, TypeOK, Request, RequestRecord
    <2>2. CASE req'[r] = req[r]
      BY <2>2 DEF TokenCreators, InFlight
    <2> QED
      BY <1>9, <2>1, <2>2, CountedStep
         DEF Counted, ForgotClear, ResendClear, DropOtps, VerifyClear, ResetMatch, ResetWrite
  <1>10. ASSUME NEW r \in Requests, NEW o \in Otps, ForgotCreate(r, o) \/ ResendCreate(r, o),
                OtpCreators(u)' \subseteq OtpCreators(u)
         PROVE  Cardinality(FreshOf(otp, u)') + Cardinality(OtpCreators(u)') <= N
    <2>1. otp' = [otp EXCEPT ![o] = Fresh(req[r].user)]
      BY <1>10 DEF ForgotCreate, ResendCreate, CreateOtp
    <2>2. CASE req[r].user = u
      <3>1. FreshOf(otp, u)' \in SUBSET (FreshOf(otp, u) \cup {o})
        BY <2>1 DEF FreshOf, TypeOK
      <3>2. r \in OtpCreators(u)
        BY <1>10, <2>2 DEF ForgotCreate, ResendCreate, At, OtpCreators, InFlight
      <3>3. req'[r].pc \notin {"forgot.create", "resend.create"}
        <4>1. CASE Finish(r)
          BY <4>1 DEF Finish, Idle, TypeOK
        <4>2. CASE Goto(r, "resend.mail")
          BY <4>2, Known DEF Goto, TypeOK, Request, RequestRecord
        <4> QED
          BY <1>10, <4>1, <4>2 DEF ForgotCreate, ResendCreate
      <3>4. OtpCreators(u)' \in SUBSET (OtpCreators(u) \ {r})
        BY <1>10, <3>3 DEF OtpCreators, InFlight
      <3>5. Cardinality(FreshOf(otp, u)') + Cardinality(OtpCreators(u) \ {r}) <= N
        BY <1>1, <1>2, <1>4, <1>5, <3>1, <3>2, OneMoves
      <3>6. /\ IsFiniteSet(FreshOf(otp, u) \cup {o})
            /\ IsFiniteSet(FreshOf(otp, u)')
            /\ Cardinality(FreshOf(otp, u)') \in Nat
        BY <1>4, <3>1, FS_AddElement, FS_Subset, FS_CardinalityType
      <3>7. /\ Cardinality(OtpCreators(u)') <= Cardinality(OtpCreators(u) \ {r})
            /\ Cardinality(OtpCreators(u)') \in Nat
            /\ Cardinality(OtpCreators(u) \ {r}) \in Nat
        BY <1>1, <1>2, <3>4, FS_Subset, FS_CardinalityType
      <3> QED
        BY <1>1, <3>5, <3>6, <3>7
    <2>3. CASE req[r].user # u
      <3>1. FreshOf(otp, u)' \in SUBSET FreshOf(otp, u)
        BY <2>1, <2>3 DEF FreshOf, Fresh, TypeOK
      <3> QED
        BY <1>1, <1>2, <1>4, <1>5, <1>10, <3>1, FewerOfBoth
    <2> QED
      BY <2>2, <2>3
  <1>11. ASSUME NEW r \in Requests, NEW t \in Tokens, VerifyCreate(r, t),
                TokenCreators(u)' \subseteq TokenCreators(u)
         PROVE  Cardinality(FreshOf(token, u)') + Cardinality(TokenCreators(u)') <= N
    <2>1. token' = [token EXCEPT ![t] = Fresh(req[r].user)]
      BY <1>11 DEF VerifyCreate
    <2>2. CASE req[r].user = u
      <3>1. FreshOf(token, u)' \in SUBSET (FreshOf(token, u) \cup {t})
        BY <2>1 DEF FreshOf, TypeOK
      <3>2. r \in TokenCreators(u)
        BY <1>11, <2>2 DEF VerifyCreate, At, TokenCreators, InFlight
      <3>3. req'[r].pc # "verify.create"
        <4>1. req[r] \in RequestRecord
          BY Known DEF Request
        <4>2. req'[r] = [req[r] EXCEPT !.pc = "verify.consume", !.token = t]
          BY <1>11 DEF VerifyCreate, TypeOK
        <4> QED
          BY <4>1, <4>2 DEF RequestRecord
      <3>4. TokenCreators(u)' \in SUBSET (TokenCreators(u) \ {r})
        BY <1>11, <3>3 DEF TokenCreators, InFlight
      <3>5. Cardinality(FreshOf(token, u)') + Cardinality(TokenCreators(u) \ {r}) <= N
        BY <1>1, <1>2, <1>4, <1>5, <3>1, <3>2, OneMoves
      <3>6. /\ IsFiniteSet(FreshOf(token, u) \cup {t})
            /\ IsFiniteSet(FreshOf(token, u)')
            /\ Cardinality(FreshOf(token, u)') \in Nat
        BY <1>4, <3>1, FS_AddElement, FS_Subset, FS_CardinalityType
      <3>7. /\ Cardinality(TokenCreators(u)') <= Cardinality(TokenCreators(u) \ {r})
            /\ Cardinality(TokenCreators(u)') \in Nat
            /\ Cardinality(TokenCreators(u) \ {r}) \in Nat
        BY <1>1, <1>2, <3>4, FS_Subset, FS_CardinalityType
      <3> QED
        BY <1>1, <3>5, <3>6, <3>7
    <2>3. CASE req[r].user # u
      <3>1. FreshOf(token, u)' \in SUBSET FreshOf(token, u)
        BY <2>1, <2>3 DEF FreshOf, Fresh, TypeOK
      <3> QED
        BY <1>1, <1>2, <1>4, <1>5, <1>11, <3>1, FewerOfBoth
    <2> QED
      BY <2>2, <2>3
  <1>12. Cardinality(FreshOf(otp, u)') + Cardinality(OtpCreators(u)') <= N
    <2>1. CASE OtpCreators(u)' \subseteq OtpCreators(u)
      <3>1. CASE FreshOf(otp, u)' \subseteq FreshOf(otp, u)
        BY <1>1, <1>2, <1>4, <1>5, <2>1, <3>1, FewerOfBoth
      <3> QED
        BY <1>10, <2>1, <3>1, FreshStep
    <2> QED
      BY <1>6, <1>8, <2>1
  <1>13. Cardinality(FreshOf(token, u)') + Cardinality(TokenCreators(u)') <= N
    <2>1. CASE TokenCreators(u)' \subseteq TokenCreators(u)
      <3>1. CASE FreshOf(token, u)' \subseteq FreshOf(token, u)
        BY <1>1, <1>2, <1>4, <1>5, <2>1, <3>1, FewerOfBoth
      <3> QED
        BY <1>11, <2>1, <3>1, FreshStep
    <2> QED
      BY <1>7, <1>9, <2>1
  <1> QED
    BY <1>12, <1>13

\* In the beginning there are neither codes nor tokens.
LEMMA ValidInit == Init => ValidBounded
  <1> SUFFICES ASSUME Init, NEW u \in Users
               PROVE  /\ Cardinality(FreshOf(otp, u)) + Cardinality(OtpCreators(u))
                             <= Cardinality(Requests)
                      /\ Cardinality(FreshOf(token, u)) + Cardinality(TokenCreators(u))
                             <= Cardinality(Requests)
    BY DEF ValidBounded
  <1>1. /\ FreshOf(otp, u) = {} /\ FreshOf(token, u) = {}
        /\ OtpCreators(u) = {} /\ TokenCreators(u) = {}
    BY DEF Init, FreshOf, Fresh, Unborn, OtpCreators, TokenCreators, InFlight, Idle
  <1>2. Cardinality({}) = 0 /\ Cardinality(Requests) \in Nat
    BY ConstantsAssumption, FS_EmptySet, FS_CardinalityType
  <1> QED
    BY <1>1, <1>2

\* An account has at most as many valid codes, and as many valid tokens, as there
\* are handlers that can overlap.
THEOREM ValidSafety == Spec => []ValidBounded
  BY InitType, TypeStep, ValidInit, ValidStep, PTL DEF Spec

=============================================================================
