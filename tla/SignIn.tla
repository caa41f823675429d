------------------------------- MODULE SignIn -------------------------------
(***************************************************************************)
(* Signing in with a password or with a mailed code: AuthLoginService,     *)
(* AuthOtpService and the counter of failed logins of UserCacheService.    *)
(* The counter is a Redis key that is read before the password is compared *)
(* and incremented after; its lifetime is set by a second command.         *)
(*                                                                         *)
(* Left out: the tokens of the answer (RefreshTokens), the cached profile  *)
(* (Profiles), the copy of the code in Redis, which nothing reads, codes   *)
(* of other types than EMAIL_VERIFICATION (PasswordReset has one), and the *)
(* emails that Google sign-ins change (Accounts).                          *)
(***************************************************************************)
EXTENDS Naturals, FiniteSets

CONSTANTS
    Emails,
    AdminEmail,    \* SUPER_ADMIN_EMAIL
    SeedEmails,    \* that one and the assistant's
    Accounts,      \* bound: the ids that can be given to accounts
    MaxCodes,      \* bound: the codes that can be created
    Requests,      \* bound: handlers in flight at the same time
    MaxAttempts,   \* MAX_LOGIN_ATTEMPTS
    MaxUncounted,  \* bound: increments that fail, of one counter
    None

\* What is assumed of the constants; Services assumes it of each instance.
SignInAssumption ==
    /\ None \notin Emails \cup Accounts
    /\ SeedEmails \subseteq Emails /\ AdminEmail \in SeedEmails
    /\ MaxCodes \in Nat
    /\ MaxUncounted \in Nat
    /\ MaxAttempts \in Nat \ {0}
    /\ IsFiniteSet(Requests)

VARIABLES
    user,       \* user[a]: a User row
    code,       \* code[k]: a UserOtp row; k orders them by createdAt
    attempts,   \* attempts[e]: login:attempts:e, 0 where there is no such key
    timed,      \* timed[e]: the key has a lifetime
    tried,      \* history: tried[e], passwords refused since the key last went
    uncounted,  \* history: uncounted[e], those of them that no increment follows
    untimed,    \* history: untimed[e], an EXPIRE that was due for the key was lost
    shown,      \* history: the accounts of which a right code was presented
    seeded,     \* history: the accounts that a start found or made under its emails
    req         \* req[r]: the handler that runs in slot r

rows == <<user, code>>
counter == <<attempts, timed, tried, uncounted, untimed>>
history == <<shown, seeded>>
vars == <<user, code, attempts, timed, tried, uncounted, untimed, shown, seeded, req>>

Codes == 1..MaxCodes

User == [state : {"unborn", "there", "gone"}, email : Emails \cup {None}, verified : BOOLEAN]
Code == [state : {"unborn", "there", "gone"}, of : Accounts \cup {None}, expired : BOOLEAN]

Await == {"login.find", "login.count", "login.expire", "login.code", "login.update", "login.reset",
          "verify.code", "verify.expired", "verify.use", "verify.update",
          "resend.clear", "resend.create", "resend.mail", "resend.undo"}

Request == [pc    : Await \cup {"idle"},
            email : Emails \cup {None},
            user  : Accounts \cup {None},      \* the account it has read
            code  : Codes \cup {None}]         \* the code it has read

NoUser(why) == [state |-> why, email |-> None, verified |-> FALSE]
NoCode(why) == [state |-> why, of |-> None, expired |-> FALSE]
Idle == [pc |-> "idle", email |-> None, user |-> None, code |-> None]

\* A code belongs to an account that exists, and no two accounts share an email.
TypeOK ==
    /\ user \in [Accounts -> User]
    /\ code \in [Codes -> Code]
    /\ attempts \in [Emails -> Nat]
    /\ timed \in [Emails -> BOOLEAN]
    /\ tried \in [Emails -> Nat]
    /\ uncounted \in [Emails -> Nat]
    /\ untimed \in [Emails -> BOOLEAN]
    /\ shown \subseteq Accounts
    /\ seeded \subseteq Accounts
    /\ req \in [Requests -> Request]
    /\ \A k \in Codes : code[k].state = "there" =>
          code[k].of # None /\ user[code[k].of].state = "there"
    /\ \A a, b \in Accounts : user[a].email = user[b].email =>
          a = b \/ user[a].email = None

Init ==
    /\ user = [a \in Accounts |-> NoUser("unborn")]
    /\ code = [k \in Codes |-> NoCode("unborn")]
    /\ attempts = [e \in Emails |-> 0]
    /\ timed = [e \in Emails |-> FALSE]
    /\ tried = [e \in Emails |-> 0]
    /\ uncounted = [e \in Emails |-> 0]
    /\ untimed = [e \in Emails |-> FALSE]
    /\ shown = {}
    /\ seeded = {}
    /\ req = [r \in Requests |-> Idle]

-----------------------------------------------------------------------------
(* Rows, requests and the counter *)

Holder(e) == {a \in Accounts : user[a].email = e}
CodesOf(a) == {k \in Codes : code[k].state = "there" /\ code[k].of = a}

At(r, where) == req[r].pc = where
InFlight(wheres, e) == {r \in Requests : req[r].pc \in wheres /\ req[r].email = e}
Goto(r, where) == req' = [req EXCEPT ![r].pc = where]
Finish(r) == req' = [req EXCEPT ![r] = Idle]

Begin(r, where, e, a) ==
    /\ req[r] = Idle
    /\ req' = [req EXCEPT ![r] = [Idle EXCEPT !.pc = where, !.email = e, !.user = a]]

DeleteCodes(gone) ==
    code' = [k \in Codes |-> IF k \in gone THEN NoCode("gone") ELSE code[k]]

\* generateOTPAndSave: a further code, the newest of all.
CreateCode(a, k) ==
    /\ user[a].state = "there"
    /\ code[k].state = "unborn"
    /\ \A j \in 1..(k - 1) : code[j].state # "unborn"
    /\ code' = [code EXCEPT ![k] = [state |-> "there", of |-> a, expired |-> FALSE]]

\* The key is deleted or its lifetime is over.
ClearCounter(e) ==
    /\ attempts' = [attempts EXCEPT ![e] = 0]
    /\ timed' = [timed EXCEPT ![e] = FALSE]
    /\ tried' = [tried EXCEPT ![e] = 0]
    /\ uncounted' = [uncounted EXCEPT ![e] = 0]
    /\ untimed' = [untimed EXCEPT ![e] = FALSE]

-----------------------------------------------------------------------------
(* Logging in with a password *)

\* Mutant: one password more is let through.
LoginStartOneMore(r, e) ==
    /\ attempts[e] <= MaxAttempts
    /\ Begin(r, "login.find", e, None)
    /\ UNCHANGED <<rows, counter, history>>

LoginStart(r, e) ==
    /\ attempts[e] < MaxAttempts
    /\ Begin(r, "login.find", e, None)
    /\ UNCHANGED <<rows, counter, history>>

\* There is no such user, or the password is not his.
LoginWrong(r) ==
    LET e == req[r].email IN
    /\ At(r, "login.find")
    /\ tried' = [tried EXCEPT ![e] = tried[e] + 1]
    /\ Goto(r, "login.count")
    /\ UNCHANGED <<rows, attempts, timed, uncounted, untimed, history>>

LoginRight(r, a) ==
    /\ At(r, "login.find")
    /\ a \in Holder(req[r].email)
    /\ req' = [req EXCEPT ![r].pc = IF user[a].verified THEN "login.update" ELSE "login.code",
                          ![r].user = a]
    /\ UNCHANGED <<rows, counter, history>>

\* Mutant: the lifetime is set by the second increment.
LoginCountLate(r) ==
    LET e == req[r].email IN
    /\ At(r, "login.count")
    /\ attempts' = [attempts EXCEPT ![e] = attempts[e] + 1]
    /\ IF attempts[e] = 1 THEN Goto(r, "login.expire") ELSE Finish(r)
    /\ UNCHANGED <<rows, timed, tried, uncounted, untimed, history>>

\* The first increment makes the key, and is followed by its lifetime.
LoginCount(r) ==
    LET e == req[r].email IN
    /\ At(r, "login.count")
    /\ attempts' = [attempts EXCEPT ![e] = attempts[e] + 1]
    /\ IF attempts[e] = 0 THEN Goto(r, "login.expire") ELSE Finish(r)
    /\ UNCHANGED <<rows, timed, tried, uncounted, untimed, history>>

\* The connection is lost before the reply to the increment arrives: the client
\* of Redis sends the command again.
LoginResent(r) ==
    LET e == req[r].email IN
    /\ At(r, "login.count")
    /\ attempts[e] < MaxAttempts      \* bound
    /\ attempts' = [attempts EXCEPT ![e] = attempts[e] + 1]
    /\ untimed' = [untimed EXCEPT ![e] = untimed[e] \/ attempts[e] = 0]
    /\ UNCHANGED <<rows, timed, tried, uncounted, history, req>>

LoginExpire(r) ==
    LET e == req[r].email IN
    /\ At(r, "login.expire")
    /\ timed' = [timed EXCEPT ![e] = attempts[e] > 0]
    /\ untimed' = [untimed EXCEPT ![e] = FALSE]
    /\ Finish(r)
    /\ UNCHANGED <<rows, attempts, tried, uncounted, history>>

\* The email is not verified: a further code is made and mailed.
LoginCode(r, k) ==
    /\ At(r, "login.code")
    /\ CreateCode(req[r].user, k)
    /\ Finish(r)
    /\ UNCHANGED <<user, counter, history>>

\* The account is updated by its email, whoever holds it by now.
LoginUpdate(r, a) ==
    /\ At(r, "login.update")
    /\ a \in Holder(req[r].email)
    /\ req' = [req EXCEPT ![r].pc = "login.reset", ![r].user = a]
    /\ UNCHANGED <<rows, counter, history>>

LoginReset(r) ==
    /\ At(r, "login.reset")
    /\ ClearCounter(req[r].email)
    /\ Finish(r)
    /\ UNCHANGED <<rows, history>>

-----------------------------------------------------------------------------
(* Logging in with a code that was mailed *)

VerifyFind(r, a) ==
    /\ user[a].state = "there"
    /\ Begin(r, "verify.code", user[a].email, a)
    /\ UNCHANGED <<rows, counter, history>>

\* The newest code decides; none, or a wrong one presented, ends the request.
VerifyCode(r, k) ==
    LET a == req[r].user IN
    /\ At(r, "verify.code")
    /\ k \in CodesOf(a) /\ \A j \in CodesOf(a) : j <= k
    /\ req' = [req EXCEPT ![r].pc = IF code[k].expired THEN "verify.expired" ELSE "verify.use",
                          ![r].code = k]
    /\ shown' = IF code[k].expired THEN shown ELSE shown \cup {code[k].of}
    /\ UNCHANGED <<rows, counter, seeded>>

VerifyRefused(r) ==
    /\ At(r, "verify.code")
    /\ Finish(r)
    /\ UNCHANGED <<rows, counter, history>>

VerifyExpired(r) ==
    /\ At(r, "verify.expired")
    /\ DeleteCodes({req[r].code})
    /\ Finish(r)
    /\ UNCHANGED <<user, counter, history>>

\* How many codes were deleted is not looked at.
VerifyUse(r) ==
    /\ At(r, "verify.use")
    /\ DeleteCodes(CodesOf(req[r].user))
    /\ Goto(r, "verify.update")
    /\ UNCHANGED <<user, counter, history>>

\* Mutant: the account is updated by its email.
VerifyUpdateByEmail(r) ==
    /\ At(r, "verify.update")
    /\ Holder(req[r].email) # {}
    /\ user' = [a \in Accounts |-> IF user[a].email = req[r].email
                                   THEN [user[a] EXCEPT !.verified = TRUE] ELSE user[a]]
    /\ Goto(r, "login.reset")
    /\ UNCHANGED <<code, counter, history>>

\* The account is updated by its id.
VerifyUpdate(r) ==
    LET a == req[r].user IN
    /\ At(r, "verify.update")
    /\ user[a].state = "there"
    /\ user' = [user EXCEPT ![a].verified = TRUE]
    /\ Goto(r, "login.reset")
    /\ UNCHANGED <<code, counter, history>>

-----------------------------------------------------------------------------
(* A further code on request *)

ResendFind(r, a) ==
    /\ user[a].state = "there"
    /\ ~user[a].verified
    /\ Begin(r, "resend.clear", user[a].email, a)
    /\ UNCHANGED <<rows, counter, history>>

ResendClear(r) ==
    /\ At(r, "resend.clear")
    /\ DeleteCodes({k \in CodesOf(req[r].user) : ~code[k].expired})
    /\ Goto(r, "resend.create")
    /\ UNCHANGED <<user, counter, history>>

ResendCreate(r, k) ==
    /\ At(r, "resend.create")
    /\ CreateCode(req[r].user, k)
    /\ Goto(r, "resend.mail")
    /\ UNCHANGED <<user, counter, history>>

ResendMail(r) ==
    /\ At(r, "resend.mail")
    /\ Finish(r)
    /\ UNCHANGED <<rows, counter, history>>

\* The mail cannot be sent: every code of the account goes.
ResendUnsent(r) ==
    /\ At(r, "resend.mail")
    /\ Goto(r, "resend.undo")
    /\ UNCHANGED <<rows, counter, history>>

ResendUndo(r) ==
    /\ At(r, "resend.undo")
    /\ DeleteCodes(CodesOf(req[r].user))
    /\ Finish(r)
    /\ UNCHANGED <<user, counter, history>>

-----------------------------------------------------------------------------
(* What happens around them *)

\* A registration creates the row (see Accounts) and then a code.
Register(r, a, e) ==
    /\ user[a].state = "unborn"
    /\ Holder(e) = {}
    /\ Begin(r, "login.code", e, a)
    /\ user' = [user EXCEPT ![a] = [state |-> "there", email |-> e, verified |-> FALSE]]
    /\ UNCHANGED <<code, counter, history>>

\* Mutant: the codes stay.
DeleteAccountOnly(a) ==
    /\ user[a].state = "there"
    /\ user' = [user EXCEPT ![a] = NoUser("gone")]
    /\ UNCHANGED <<code, counter, history, req>>

\* The codes of an account go with it.
DeleteAccount(a) ==
    /\ user[a].state = "there"
    /\ user' = [user EXCEPT ![a] = NoUser("gone")]
    /\ DeleteCodes(CodesOf(a))
    /\ UNCHANGED <<counter, history, req>>

\* The server starts when whatever ran before has ended.  The account that holds
\* the configured email is verified without a code, whosever it is.
Starting == \A r \in Requests : req[r] = Idle

SeedUpdate(a) ==
    /\ Starting
    /\ a \in Holder(AdminEmail)
    /\ user' = [user EXCEPT ![a].verified = TRUE]
    /\ seeded' = seeded \cup {a}
    /\ UNCHANGED <<code, counter, shown, req>>

\* If nobody holds it, or the assistant's, an account is created that is verified.
SeedCreate(a, e) ==
    /\ Starting
    /\ user[a].state = "unborn"
    /\ e \in SeedEmails /\ Holder(e) = {}
    /\ user' = [user EXCEPT ![a] = [state |-> "there", email |-> e, verified |-> TRUE]]
    /\ seeded' = seeded \cup {a}
    /\ UNCHANGED <<code, counter, shown, req>>

CounterExpires(e) ==
    /\ timed[e]
    /\ ClearCounter(e)
    /\ UNCHANGED <<rows, history, req>>

CodeExpires(k) ==
    /\ code[k].state = "there" /\ ~code[k].expired
    /\ code' = [code EXCEPT ![k].expired = TRUE]
    /\ UNCHANGED <<user, counter, history, req>>

\* The operation that a handler is about to perform fails, or the process stops
\* before it.
Fail(r) ==
    LET e == req[r].email IN
    /\ req[r] # Idle
    /\ At(r, "login.count") => uncounted[e] < MaxUncounted     \* bound
    /\ uncounted' = [uncounted EXCEPT ![e] = uncounted[e] + (IF At(r, "login.count") THEN 1 ELSE 0)]
    /\ untimed' = [untimed EXCEPT ![e] = untimed[e] \/ (At(r, "login.expire") /\ attempts[e] > 0)]
    /\ Finish(r)
    /\ UNCHANGED <<rows, attempts, timed, tried, history>>

\* An operation on a row that is not there any more is an error of the handler.
Impossible(r) ==
    \/ At(r, "login.update") /\ Holder(req[r].email) = {}
    \/ req[r].pc \in {"login.code", "resend.create", "verify.update"} /\ user[req[r].user].state # "there"
    \/ At(r, "verify.expired") /\ code[req[r].code].state # "there"

Give(r) ==
    /\ Impossible(r)
    /\ Finish(r)
    /\ UNCHANGED <<rows, counter, history>>

Step(r) ==
    \/ LoginWrong(r)
    \/ \E a \in Accounts : LoginRight(r, a)
    \/ LoginCount(r)
    \/ LoginResent(r)
    \/ LoginExpire(r)
    \/ \E k \in Codes : LoginCode(r, k)
    \/ \E a \in Accounts : LoginUpdate(r, a)
    \/ LoginReset(r)
    \/ \E k \in Codes : VerifyCode(r, k)
    \/ VerifyRefused(r)
    \/ VerifyExpired(r)
    \/ VerifyUse(r)
    \/ VerifyUpdate(r)
    \/ ResendClear(r)
    \/ \E k \in Codes : ResendCreate(r, k)
    \/ ResendMail(r)
    \/ ResendUnsent(r)
    \/ ResendUndo(r)
    \/ Give(r)

Next ==
    \/ \E r \in Requests :
          \/ Step(r)
          \/ Fail(r)
          \/ \E e \in Emails : LoginStart(r, e)
          \/ \E a \in Accounts : VerifyFind(r, a)
          \/ \E a \in Accounts : ResendFind(r, a)
          \/ \E a \in Accounts, e \in Emails : Register(r, a, e)
    \/ \E a \in Accounts : DeleteAccount(a) \/ SeedUpdate(a)
    \/ \E a \in Accounts, e \in Emails : SeedCreate(a, e)
    \/ \E e \in Emails : CounterExpires(e)
    \/ \E k \in Codes : CodeExpires(k)

Spec == Init /\ [][Next]_vars

-----------------------------------------------------------------------------
(* Properties *)

\* Requests that read the counter before the others have increased it may all
\* compare a password: no more of them than run at once get past the limit of
\* MAX_LOGIN_ATTEMPTS before the key goes, apart from increments that fail.
GuessesBounded ==
    \A e \in Emails : tried[e] <= MaxAttempts - 1 + Cardinality(Requests) + uncounted[e]

\* A counter without a lifetime would lock the account for ever, since a locked
\* login is refused before its password is read.  It has none only until the
\* EXPIRE that is on its way, or when that one was lost or never due because
\* the first increment was performed twice.
LockIsTimed ==
    \A e \in Emails : attempts[e] > 0 /\ ~timed[e] =>
        untimed[e] \/ InFlight({"login.expire"}, e) # {}

\* No account is verified by the code of another one, also when it took over the
\* email of an account that was deleted while that one was being verified.  An
\* account of which no code was ever presented is verified only if a start of the
\* server met it, or made it, under the emails it is configured with.
NoBorrowedCode ==
    \A a \in Accounts : user[a].verified => a \in shown \cup seeded
=============================================================================
