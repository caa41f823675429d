--------------------------- MODULE PasswordReset ---------------------------
(***************************************************************************)
(* Resetting and changing passwords: AuthPasswordService, and the handlers *)
(* of AuthOtpService when they are asked for codes of type PASSWORD_RESET. *)
(* A mailed code (UserOtp) buys a reset token (PasswordResetToken), and a  *)
(* reset token buys one new password.  As everywhere in this server, a     *)
(* handler is a request r that performs one database operation per step,   *)
(* and other handlers run in between.                                      *)
(*                                                                         *)
(* A code matches only itself: bcrypt and equal random codes are left out, *)
(* and so are the sign-in tokens and the cached profile, which are kept    *)
(* elsewhere.  Time is reduced to "expired or not".                        *)
(***************************************************************************)
EXTENDS Naturals, FiniteSets

CONSTANTS
    Users,      \* the accounts that exist in the beginning
    Passwords,  \* passwords that users choose
    MaxOtps,    \* bound: the codes created in one behaviour
    Tokens,     \* bound: the reset tokens created in one behaviour
    Requests,   \* bound: handlers in flight at the same time
    MaxCuts,    \* bound: the deletes of one reset token that fail
    Deletable,  \* the accounts that may be deleted
    MayFail,    \* whether database operations may fail, or the server stop
    None        \* no user, no password, no code, no token

ASSUME ConstantsAssumption ==
    /\ MaxOtps \in Nat
    /\ IsFiniteSet(Tokens)
    /\ IsFiniteSet(Requests)
    /\ MaxCuts \in Nat
    /\ Deletable \subseteq Users
    /\ MayFail \in BOOLEAN
    /\ None \notin Users \cup Passwords \cup Tokens \cup Nat

VARIABLES
    accounts,  \* the User rows that exist
    password,  \* password[u]; None: a social sign-in that never set one
    otp,       \* otp[o]: the UserOtp rows, numbered by createdAt
    token,     \* token[t]: the PasswordResetToken rows
    told,      \* history: pairs <<token, code>>, a token returned for a code
    done,      \* history: done[t], the resets with t answered with success
    late,      \* history: late[t], those that found t gone after the write
    wrote,     \* history: wrote[t], the passwords written by resets with t
    cut,       \* history: cut[t], those writes after which deleting t failed
    req        \* req[r]: the handler that runs in slot r

rows == <<accounts, password, otp, token>>
history == <<told, done, late, wrote, cut>>
vars == <<accounts, password, otp, token, told, done, late, wrote, cut, req>>

Otps == 1..MaxOtps
Row == [state : {"unborn", "fresh", "expired", "gone"}, user : Users \cup {None}]
Unborn == [state |-> "unborn", user |-> None]
Fresh(u) == [state |-> "fresh", user |-> u]

Await == {"forgot.clear", "forgot.create",
          "resend.clear", "resend.create", "resend.mail", "resend.undo",
          "signin.find", "signin.clear", "otp.purge",
          "verify.find", "verify.clear", "verify.create", "verify.consume",
          "reset.find", "reset.purge", "reset.write", "reset.consume",
          "change.write"}

RequestRecord ==
    [pc    : Await \cup {"idle"},
     user  : Users \cup {None},
     otp   : Otps \cup {None},       \* the code submitted, or the row read
     token : Tokens \cup {None},
     pass  : Passwords \cup {None}]

Request ==
    {q \in RequestRecord :
        /\ q.pc # "idle" => q.user \in Users
        /\ q.pc \in {"otp.purge", "verify.clear", "verify.create", "verify.consume"}
               => q.otp \in Otps
        /\ q.pc \in {"verify.consume",
                     "reset.find", "reset.purge", "reset.write", "reset.consume"}
               => q.token \in Tokens
        /\ q.pc \in {"reset.find", "reset.write", "change.write"}
               => q.pass \in Passwords}

Idle == [pc |-> "idle", user |-> None, otp |-> None, token |-> None, pass |-> None]

TypeOK ==
    /\ accounts \subseteq Users
    /\ password \in [Users -> Passwords \cup {None}]
    /\ otp \in [Otps -> Row]
    /\ token \in [Tokens -> Row]
    /\ told \subseteq Tokens \X Otps
    /\ done \in [Tokens -> Nat]
    /\ late \in [Tokens -> Nat]
    /\ wrote \in [Tokens -> Nat]
    /\ cut \in [Tokens -> Nat]
    /\ req \in [Requests -> Request]

Init ==
    /\ accounts = Users
    /\ password \in [Users -> Passwords \cup {None}]
    /\ otp = [o \in Otps |-> Unborn]
    /\ token = [t \in Tokens |-> Unborn]
    /\ told = {}
    /\ done = [t \in Tokens |-> 0]
    /\ late = [t \in Tokens |-> 0]
    /\ wrote = [t \in Tokens |-> 0]
    /\ cut = [t \in Tokens |-> 0]
    /\ req = [r \in Requests |-> Idle]

-----------------------------------------------------------------------------
(* Rows and requests *)

Exists(f, i) == f[i].state \in {"fresh", "expired"}
RowsOf(f, u) == {i \in DOMAIN f : f[i].user = u /\ Exists(f, i)}
FreshOf(f, u) == {i \in DOMAIN f : f[i] = Fresh(u)}
UnbornIn(f) == {i \in DOMAIN f : f[i].state = "unborn"}

\* Deletion of the rows with these ids.
Drop(f, ids) ==
    [i \in DOMAIN f |-> IF i \in ids THEN [f[i] EXCEPT !.state = "gone"] ELSE f[i]]

\* findFirst ... orderBy createdAt desc
IsLatest(o, u) ==
    /\ o \in RowsOf(otp, u)
    /\ \A other \in RowsOf(otp, u) : other <= o

At(r, where) == req[r].pc = where
InFlight(where) == {r \in Requests : req[r].pc \in where}
Goto(r, where) == req' = [req EXCEPT ![r].pc = where]
Finish(r) == req' = [req EXCEPT ![r] = Idle]

\* A handler starts by reading the account of the e-mail address it was given.
Begin(r, u, where, o, t, p) ==
    /\ req[r] = Idle
    /\ u \in accounts
    /\ req' = [req EXCEPT ![r] = [pc |-> where, user |-> u, otp |-> o,
                                  token |-> t, pass |-> p]]
    /\ UNCHANGED <<rows, history>>

\* A handler removes codes of its user and goes on.
DropOtps(r, from, ids, to) ==
    /\ At(r, from)
    /\ otp' = Drop(otp, ids)
    /\ Goto(r, to)
    /\ UNCHANGED <<accounts, password, token, history>>

-----------------------------------------------------------------------------
(* forgotPassword, and resendOtp: the codes still valid are removed, then a *)
(* new one is created and mailed.  forgotPassword answers with an error if  *)
(* the mail fails, and keeps the code; resendOtp removes all codes.         *)

\* Bound: a code is left for the request.
OtpLeft ==
    Cardinality(InFlight({"forgot.clear", "forgot.create",
                          "resend.clear", "resend.create"}))
        < Cardinality(UnbornIn(otp))

ForgotRead(r, u) == OtpLeft /\ Begin(r, u, "forgot.clear", None, None, None)
ResendRead(r, u) == OtpLeft /\ Begin(r, u, "resend.clear", None, None, None)

ForgotClear(r) ==
    DropOtps(r, "forgot.clear", FreshOf(otp, req[r].user), "forgot.create")

ResendClear(r) ==
    DropOtps(r, "resend.clear", FreshOf(otp, req[r].user), "resend.create")

\* generateOTPAndSave
CreateOtp(r, o) ==
    /\ req[r].user \in accounts
    /\ o \in UnbornIn(otp)
    /\ \A other \in UnbornIn(otp) : o <= other
    /\ otp' = [otp EXCEPT ![o] = Fresh(req[r].user)]
    /\ UNCHANGED <<accounts, password, token, history>>

ForgotCreate(r, o) == At(r, "forgot.create") /\ CreateOtp(r, o) /\ Finish(r)
ResendCreate(r, o) == At(r, "resend.create") /\ CreateOtp(r, o) /\ Goto(r, "resend.mail")

ResendMailed(r) ==
    /\ At(r, "resend.mail")
    /\ Finish(r)
    /\ UNCHANGED <<rows, history>>

ResendMailFailed(r) ==
    /\ At(r, "resend.mail")
    /\ Goto(r, "resend.undo")
    /\ UNCHANGED <<rows, history>>

ResendUndo(r) ==
    /\ At(r, "resend.undo")
    /\ otp' = Drop(otp, RowsOf(otp, req[r].user))
    /\ Finish(r)
    /\ UNCHANGED <<accounts, password, token, history>>

-----------------------------------------------------------------------------
(* verifyOTP: the code signs the user in, and all codes are removed.  The   *)
(* removal does not mind that there is nothing left to remove.              *)

SignInRead(r, u, o) == Begin(r, u, "signin.find", o, None, None)

\* No code, or the latest one does not match.
Refuse(r, from) ==
    /\ At(r, from)
    /\ \A o \in Otps : IsLatest(o, req[r].user) => /\ otp[o].state = "fresh"
                                                   /\ o # req[r].otp
    /\ Finish(r)
    /\ UNCHANGED <<rows, history>>

\* The latest code has expired: it is removed next.
Stale(r, from, o) ==
    /\ At(r, from)
    /\ IsLatest(o, req[r].user)
    /\ otp[o].state = "expired"
    /\ req' = [req EXCEPT ![r] = [@ EXCEPT !.pc = "otp.purge", !.otp = o]]
    /\ UNCHANGED <<rows, history>>

\* The latest code is the one submitted, and still valid.
Match(r, from, to) ==
    /\ At(r, from)
    /\ IsLatest(req[r].otp, req[r].user)
    /\ otp[req[r].otp].state = "fresh"
    /\ Goto(r, to)
    /\ UNCHANGED <<rows, history>>

PurgeOtp(r) ==
    /\ At(r, "otp.purge")
    /\ otp' = Drop(otp, RowsOf(otp, req[r].user) \cap {req[r].otp})
    /\ Finish(r)
    /\ UNCHANGED <<accounts, password, token, history>>

SignInRefuse(r) == Refuse(r, "signin.find")
SignInStale(r, o) == Stale(r, "signin.find", o)
SignInMatch(r) == Match(r, "signin.find", "signin.clear")

SignInClear(r) ==
    /\ At(r, "signin.clear")
    /\ otp' = Drop(otp, RowsOf(otp, req[r].user))
    /\ Finish(r)
    /\ UNCHANGED <<accounts, password, token, history>>

-----------------------------------------------------------------------------
(* verifyPasswordOtp: the code is exchanged for a reset token.  The token   *)
(* is stored first; it is returned only if the code is still there to be    *)
(* removed.                                                                 *)

\* Bound: a token is left for the request.
TokenLeft ==
    Cardinality(InFlight({"verify.find", "verify.clear", "verify.create"}))
        < Cardinality(UnbornIn(token))

VerifyRead(r, u, o) == TokenLeft /\ Begin(r, u, "verify.find", o, None, None)
VerifyRefuse(r) == Refuse(r, "verify.find")
VerifyStale(r, o) == Stale(r, "verify.find", o)
VerifyMatch(r) == Match(r, "verify.find", "verify.clear")

\* Mutant: the tokens that have expired are removed, not those still valid.
VerifyClearExpired(r) ==
    /\ At(r, "verify.clear")
    /\ token' = Drop(token, RowsOf(token, req[r].user) \ FreshOf(token, req[r].user))
    /\ Goto(r, "verify.create")
    /\ UNCHANGED <<accounts, password, otp, history>>

VerifyClear(r) ==
    /\ At(r, "verify.clear")
    /\ token' = Drop(token, FreshOf(token, req[r].user))
    /\ Goto(r, "verify.create")
    /\ UNCHANGED <<accounts, password, otp, history>>

\* Mutant: the handler does not keep the token that it stored.
VerifyCreateUnkept(r, t) ==
    /\ At(r, "verify.create")
    /\ req[r].user \in accounts
    /\ t \in UnbornIn(token)
    /\ token' = [token EXCEPT ![t] = Fresh(req[r].user)]
    /\ Goto(r, "verify.consume")
    /\ UNCHANGED <<accounts, password, otp, history>>

VerifyCreate(r, t) ==
    /\ At(r, "verify.create")
    /\ req[r].user \in accounts
    /\ t \in UnbornIn(token)
    /\ token' = [token EXCEPT ![t] = Fresh(req[r].user)]
    /\ req' = [req EXCEPT ![r] = [@ EXCEPT !.pc = "verify.consume", !.token = t]]
    /\ UNCHANGED <<accounts, password, otp, history>>

\* Mutant: deleteMany, which does not notice that the code is gone.
VerifyConsumeAnyway(r) ==
    /\ At(r, "verify.consume")
    /\ otp' = Drop(otp, RowsOf(otp, req[r].user) \cap {req[r].otp})
    /\ told' = told \cup {<<req[r].token, req[r].otp>>}
    /\ Finish(r)
    /\ UNCHANGED <<accounts, password, token, done, late, wrote, cut>>

VerifyConsume(r) ==
    /\ At(r, "verify.consume")
    /\ Exists(otp, req[r].otp)
    /\ otp' = Drop(otp, {req[r].otp})
    /\ told' = told \cup {<<req[r].token, req[r].otp>>}
    /\ Finish(r)
    /\ UNCHANGED <<accounts, password, token, done, late, wrote, cut>>

-----------------------------------------------------------------------------
(* resetPassword: the token is looked up, the new password hashed and       *)
(* written, the token removed.  Clients submit tokens that they were told,  *)
(* with any e-mail address.                                                 *)

ResetRead(r, u, t, p) ==
    /\ \E o \in Otps : <<t, o>> \in told
    /\ Begin(r, u, "reset.find", None, t, p)

\* "Invalid reset token", "Invalid token for this user"
ResetRefuse(r) ==
    /\ At(r, "reset.find")
    /\ req[r].token \notin RowsOf(token, req[r].user)
    /\ Finish(r)
    /\ UNCHANGED <<rows, history>>

ResetStale(r) ==
    /\ At(r, "reset.find")
    /\ req[r].token \in RowsOf(token, req[r].user)
    /\ token[req[r].token].state = "expired"
    /\ Goto(r, "reset.purge")
    /\ UNCHANGED <<rows, history>>

ResetPurge(r) ==
    /\ At(r, "reset.purge")
    /\ token' = Drop(token, RowsOf(token, req[r].user) \cap {req[r].token})
    /\ Finish(r)
    /\ UNCHANGED <<accounts, password, otp, history>>

\* Mutant: the owner of the token is not compared with the account.
ResetMatchAnyOwner(r) ==
    /\ At(r, "reset.find")
    /\ token[req[r].token].state = "fresh"
    /\ Goto(r, "reset.write")
    /\ UNCHANGED <<rows, history>>

ResetMatch(r) ==
    /\ At(r, "reset.find")
    /\ token[req[r].token] = Fresh(req[r].user)
    /\ Goto(r, "reset.write")
    /\ UNCHANGED <<rows, history>>

ResetWrite(r) ==
    /\ At(r, "reset.write")
    /\ req[r].user \in accounts
    /\ password' = [password EXCEPT ![req[r].user] = req[r].pass]
    /\ wrote' = [wrote EXCEPT ![req[r].token] = @ + 1]
    /\ Goto(r, "reset.consume")
    /\ UNCHANGED <<accounts, otp, token, told, done, late, cut>>

\* Mutant: the token is left in place after the reset.
ResetConsumeNothing(r) ==
    /\ At(r, "reset.consume")
    /\ Exists(token, req[r].token)
    /\ done' = [done EXCEPT ![req[r].token] = @ + 1]
    /\ Finish(r)
    /\ UNCHANGED <<rows, told, late, wrote, cut>>

\* Mutant: deleteMany, which does not notice that the token is gone.
ResetConsumeAnyway(r) ==
    /\ At(r, "reset.consume")
    /\ token' = Drop(token, {t \in {req[r].token} : Exists(token, t)})
    /\ done' = [done EXCEPT ![req[r].token] = @ + 1]
    /\ Finish(r)
    /\ UNCHANGED <<accounts, password, otp, told, late, wrote, cut>>

\* The profile cache is invalidated and a confirmation mailed after this.
ResetConsume(r) ==
    /\ At(r, "reset.consume")
    /\ Exists(token, req[r].token)
    /\ token' = Drop(token, {req[r].token})
    /\ done' = [done EXCEPT ![req[r].token] = @ + 1]
    /\ Finish(r)
    /\ UNCHANGED <<accounts, password, otp, told, late, wrote, cut>>

\* The token is gone: the delete throws, though the password is written.
ResetTooLate(r) ==
    /\ At(r, "reset.consume")
    /\ ~Exists(token, req[r].token)
    /\ late' = [late EXCEPT ![req[r].token] = @ + 1]
    /\ Finish(r)
    /\ UNCHANGED <<rows, told, done, wrote, cut>>

\* The delete fails, or the server stops before it: the password is written,
\* the caller gets an error, and the token stays as it is.
ResetCut(r) ==
    /\ MayFail
    /\ At(r, "reset.consume")
    /\ cut[req[r].token] < MaxCuts
    /\ cut' = [cut EXCEPT ![req[r].token] = @ + 1]
    /\ Finish(r)
    /\ UNCHANGED <<rows, told, done, late, wrote>>

-----------------------------------------------------------------------------
(* changePassword: the current password is compared with the one read.      *)

ChangeRead(r, u, old, new) ==
    /\ password[u] \in {None, old}
    /\ Begin(r, u, "change.write", None, None, new)

ChangeWrite(r) ==
    /\ At(r, "change.write")
    /\ req[r].user \in accounts
    /\ password' = [password EXCEPT ![req[r].user] = req[r].pass]
    /\ Finish(r)
    /\ UNCHANGED <<accounts, otp, token, history>>

-----------------------------------------------------------------------------
(* Errors, the passing of time, and the deletion of an account *)

\* The row that the next write needs is gone: Prisma throws.
Missing(r) ==
    /\ \/ /\ req[r].pc \in {"forgot.create", "resend.create", "verify.create",
                            "reset.write", "change.write"}
          /\ req[r].user \notin accounts
       \/ At(r, "verify.consume") /\ ~Exists(otp, req[r].otp)
    /\ Finish(r)
    /\ UNCHANGED <<rows, history>>

\* Any other operation fails; it has changed nothing.
Fail(r) ==
    /\ MayFail
    /\ req[r].pc \notin {"idle", "reset.consume"}
    /\ Finish(r)
    /\ UNCHANGED <<rows, history>>

ExpireOtp(o) ==
    /\ otp[o].state = "fresh"
    /\ otp' = [otp EXCEPT ![o].state = "expired"]
    /\ UNCHANGED <<accounts, password, token, history, req>>

ExpireToken(t) ==
    /\ token[t].state = "fresh"
    /\ token' = [token EXCEPT ![t].state = "expired"]
    /\ UNCHANGED <<accounts, password, otp, history, req>>

\* deleteUser: the foreign keys cascade to codes and tokens.
DeleteUser(u) ==
    /\ u \in accounts \cap Deletable
    /\ accounts' = accounts \ {u}
    /\ password' = [password EXCEPT ![u] = None]
    /\ otp' = Drop(otp, RowsOf(otp, u))
    /\ token' = Drop(token, RowsOf(token, u))
    /\ UNCHANGED <<history, req>>

-----------------------------------------------------------------------------

\* A request arrives and its handler runs up to its first read.
Arrive(r) ==
    \E u \in Users :
        \/ ForgotRead(r, u)
        \/ ResendRead(r, u)
        \/ \E o \in Otps \ UnbornIn(otp) :
              SignInRead(r, u, o) \/ VerifyRead(r, u, o)
        \/ \E t \in Tokens, p \in Passwords : ResetRead(r, u, t, p)
        \/ \E old, new \in Passwords : ChangeRead(r, u, old, new)

\* A handler in flight performs its next operation.
Step(r) ==
    \/ ForgotClear(r)
    \/ ResendClear(r)
    \/ \E o \in Otps : \/ ForgotCreate(r, o)
                       \/ ResendCreate(r, o)
                       \/ SignInStale(r, o)
                       \/ VerifyStale(r, o)
    \/ ResendMailed(r)
    \/ ResendMailFailed(r)
    \/ ResendUndo(r)
    \/ SignInRefuse(r)
    \/ SignInMatch(r)
    \/ SignInClear(r)
    \/ PurgeOtp(r)
    \/ VerifyRefuse(r)
    \/ VerifyMatch(r)
    \/ VerifyClear(r)
    \/ \E t \in Tokens : VerifyCreate(r, t)
    \/ VerifyConsume(r)
    \/ ResetRefuse(r)
    \/ ResetStale(r)
    \/ ResetPurge(r)
    \/ ResetMatch(r)
    \/ ResetWrite(r)
    \/ ResetConsume(r)
    \/ ResetTooLate(r)
    \/ ResetCut(r)
    \/ ChangeWrite(r)
    \/ Missing(r)

Next ==
    \/ \E r \in Requests : Arrive(r) \/ Step(r) \/ Fail(r)
    \/ \E o \in Otps : ExpireOtp(o)
    \/ \E t \in Tokens : ExpireToken(t)
    \/ \E u \in Users : DeleteUser(u)

Spec == Init /\ [][Next]_vars

-----------------------------------------------------------------------------
(* Properties *)

\* However many verifications of one code overlap, at most one token is
\* returned for it: verifyPasswordOtp stores its token first and answers only
\* after it removed the code itself.
OneTokenPerOtp ==
    \A m, n \in told : m[2] = n[2] => m[1] = n[1]

\* However many resets with one token overlap, at most one is answered with
\* success: resetPassword answers only after it removed the token itself.
OneSuccessPerToken == \A t \in Tokens : done[t] <= 1

\* The resets that have found t valid and are about to write the password.
Writing(t) == {r \in InFlight({"reset.write"}) : req[r].token = t}

\* How often one token sets a password.  It is removed only after the write, so
\* it works once for every reset that looked it up before the first removal: as
\* many as there are handlers in flight.  Whenever the removal itself fails, the
\* token stays valid and sets one password more.
TokenUsesBounded ==
    \A t \in Tokens :
        wrote[t] + Cardinality(Writing(t)) <= Cardinality(Requests) + cut[t]

\* The password of an account is reset only with a token of that account, which
\* was returned for a code of that account.
ResetByOwnToken ==
    \A r \in InFlight({"reset.write"}) :
        LET t == req[r].token
            u == req[r].user
        IN  /\ token[t].user = u
            /\ \E o \in Otps : <<t, o>> \in told /\ otp[o].user = u

\* The handlers that have removed the old rows of u and are about to create one.
OtpCreators(u) == {r \in InFlight({"forgot.create", "resend.create"}) : req[r].user = u}
TokenCreators(u) == {r \in InFlight({"verify.create"}) : req[r].user = u}

\* A new code, or a new token, takes the place of the old one: an account has
\* at most as many valid ones as there are handlers in flight.  With one
\* handler at a time there is at most one.
ValidBounded ==
    \A u \in Users :
        /\ Cardinality(FreshOf(otp, u)) + Cardinality(OtpCreators(u))
               <= Cardinality(Requests)
        /\ Cardinality(FreshOf(token, u)) + Cardinality(TokenCreators(u))
               <= Cardinality(Requests)

\* resetPassword, "Update password and delete the reset token": a reset that is
\* refused because its token is gone has not set the password.
RefusedResetDidNotWrite == \A t \in Tokens : late[t] = 0
=============================================================================
