------------------------------ MODULE Accounts ------------------------------
(***************************************************************************)
(* The User rows as identities: how accounts come to be, by registration,  *)
(* by Google sign-in, by an administrator and when the server starts, what *)
(* changes their email, name and role, and how they go.  A handler reads   *)
(* what must be free or permitted and writes in a later operation; the     *)
(* unique keys of the table refuse a write that was overtaken.             *)
(*                                                                         *)
(* Left out: passwords, codes and tokens (SignIn, PasswordReset,           *)
(* RefreshTokens), Stripe customers, mails, photos; the assistant's row    *)
(* (Assistant); account status, which no code looks at.  Roles other than  *)
(* SUPER_ADMIN are not told apart, and all full names give one base name.  *)
(***************************************************************************)
EXTENDS Naturals, FiniteSets

CONSTANTS
    Accounts,    \* bound: the ids that can be given to rows
    Emails,
    AdminEmail,  \* SUPER_ADMIN_EMAIL
    Uids,        \* the Google accounts
    LastName,    \* bound: the suffixes of names
    Requests,    \* bound: handlers in flight at the same time
    None

\* What is assumed of the constants; Services assumes it of each instance.
AccountsAssumption ==
    /\ AdminEmail \in Emails
    /\ LastName \in Nat
    /\ None \notin Accounts \cup Emails \cup Uids \cup 0..LastName

VARIABLES
    user,       \* user[a]: a User row
    up,         \* the server has started
    appointed,  \* history: made SUPER_ADMIN by a start; not resigned, nor
                \* removed by the developers' tool, since
    req         \* req[r]: the handler that runs in slot r

vars == <<user, up, appointed, req>>

Names == 0..LastName   \* the base name and those with a number after it

User == [state : {"unborn", "there", "gone"},
         email : Emails \cup {None},
         name  : Names \cup {None},
         uid   : Uids \cup {None},       \* firebase_uid
         super : BOOLEAN]                \* role is SUPER_ADMIN

Await == {"register.email", "register.name", "register.create", "google.find", "google.write",
          "rename.find", "rename.write", "leave.find", "leave.delete",
          "admin.create", "create.name", "create.email", "create.create",
          "admin.update", "update.write", "admin.remove", "remove.delete",
          "dev.find", "dev.delete"}

Request == [pc     : Await \cup {"idle"},
            by     : Accounts \cup {None},      \* who is signed in
            target : Accounts \cup {None},      \* the row it is about
            email  : Emails \cup {None},
            uid    : Uids \cup {None},
            name   : Names \cup {None}]

NoUser(why) == [state |-> why, email |-> None, name |-> None, uid |-> None, super |-> FALSE]
Idle == [pc |-> "idle", by |-> None, target |-> None, email |-> None, uid |-> None, name |-> None]

There == {a \in Accounts : user[a].state = "there"}
Supers == {a \in There : user[a].super}

\* No two rows share an email, a name or a Google account.
TypeOK ==
    /\ user \in [Accounts -> User]
    /\ up \in BOOLEAN
    /\ appointed \subseteq Accounts
    /\ req \in [Requests -> Request]
    /\ \A a \in Accounts : user[a].state # "there" => user[a] = NoUser(user[a].state)
    /\ \A a, b \in There : a # b =>
          /\ user[a].email # user[b].email
          /\ user[a].name # user[b].name
          /\ user[a].uid # user[b].uid \/ user[a].uid = None

Init ==
    /\ user = [a \in Accounts |-> NoUser("unborn")]
    /\ up = FALSE
    /\ appointed = {}
    /\ req = [r \in Requests |-> Idle]

-----------------------------------------------------------------------------
(* Rows and requests *)

Holder(e) == {a \in There : user[a].email = e}
Called(n) == {a \in There : user[a].name = n}
Linked(g) == {a \in There : user[a].uid = g}

At(r, where) == req[r].pc = where
Goto(r, where) == req' = [req EXCEPT ![r].pc = where]
Finish(r) == req' = [req EXCEPT ![r] = Idle]

Begin(r, request) ==
    /\ up
    /\ req[r] = Idle
    /\ req' = [req EXCEPT ![r] = request]
    /\ UNCHANGED <<user, up, appointed>>

\* A read that changes nothing but the place the handler has come to.
Read(r, next) ==
    /\ IF next = "refused" THEN Finish(r) ELSE Goto(r, next)
    /\ UNCHANGED <<user, up, appointed>>

\* A new row; the unique keys must be free.
Create(a, e, n, g, super) ==
    /\ user[a].state = "unborn"
    /\ Holder(e) = {} /\ Called(n) = {}
    /\ g # None => Linked(g) = {}
    /\ user' = [user EXCEPT ![a] = [state |-> "there", email |-> e, name |-> n,
                                    uid |-> g, super |-> super]]

\* The search for a free name: one query for each candidate, in order.
SearchName(r, next) ==
    /\ IF Called(req[r].name) = {} THEN Goto(r, next)
       ELSE /\ req[r].name < LastName     \* bound
            /\ req' = [req EXCEPT ![r].name = req[r].name + 1]
    /\ UNCHANGED <<user, up, appointed>>

-----------------------------------------------------------------------------
(* The start of the server: before it is over no request is served *)

\* The account that holds the configured email becomes SUPER_ADMIN, whosever it is.
SeedUpdate(a) ==
    /\ ~up
    /\ a \in Holder(AdminEmail)
    /\ user' = [user EXCEPT ![a].super = TRUE]
    /\ appointed' = appointed \cup {a}
    /\ up' = TRUE
    /\ UNCHANGED req

SeedCreate(a, n) ==
    /\ ~up
    /\ Called(n) = {} /\ \A m \in 0..(n - 1) : Called(m) # {}
    /\ Create(a, AdminEmail, n, None, TRUE)
    /\ appointed' = appointed \cup {a}
    /\ up' = TRUE
    /\ UNCHANGED req

\* Whatever request runs ends with the process.
Stop ==
    /\ up
    /\ up' = FALSE
    /\ req' = [r \in Requests |-> Idle]
    /\ UNCHANGED <<user, appointed>>

-----------------------------------------------------------------------------
(* Registration and Google sign-in *)

RegisterStart(r, e) == Begin(r, [Idle EXCEPT !.pc = "register.email", !.email = e, !.name = 0])

RegisterEmail(r) ==
    /\ At(r, "register.email")
    /\ Read(r, IF Holder(req[r].email) = {} THEN "register.name" ELSE "refused")

RegisterName(r) == At(r, "register.name") /\ SearchName(r, "register.create")

RegisterCreate(r, a) ==
    /\ At(r, "register.create")
    /\ Create(a, req[r].email, req[r].name, None, FALSE)
    /\ Finish(r)
    /\ UNCHANGED <<up, appointed>>

\* The token names a Google account and the email it has by now.
GoogleStart(r, g, e) == Begin(r, [Idle EXCEPT !.pc = "google.find", !.uid = g, !.email = e])

\* upsert reads the row first, since it nests the creation of a photo.
GoogleFind(r) ==
    /\ At(r, "google.find")
    /\ req' = [req EXCEPT ![r].pc = "google.write",
                          ![r].target = IF Linked(req[r].uid) = {} THEN None
                                        ELSE CHOOSE a \in Linked(req[r].uid) : TRUE]
    /\ UNCHANGED <<user, up, appointed>>

\* The name is made of the email and a random number, and not looked up.
GoogleCreate(r, a, n) ==
    /\ At(r, "google.write") /\ req[r].target = None
    /\ Create(a, req[r].email, n, req[r].uid, FALSE)
    /\ Finish(r)
    /\ UNCHANGED <<up, appointed>>

GoogleUpdate(r) ==
    LET a == req[r].target IN
    /\ At(r, "google.write") /\ a \in There
    /\ Holder(req[r].email) \subseteq {a}
    /\ user' = [user EXCEPT ![a].email = req[r].email]
    /\ Finish(r)
    /\ UNCHANGED <<up, appointed>>

-----------------------------------------------------------------------------
(* What a signed-in user does with his own account *)

\* JwtStrategy reads the row of the token's user; the handler reads it again.
OwnStart(r, a, where, n) ==
    /\ a \in There
    /\ Begin(r, [Idle EXCEPT !.pc = where, !.by = a, !.target = a, !.name = n])

\* A profile update without a new name writes the name that was read.
RenameFind(r) ==
    /\ At(r, "rename.find")
    /\ req' = IF req[r].by \in There
              THEN [req EXCEPT ![r].pc = "rename.write",
                               ![r].name = IF @ = None THEN user[req[r].by].name ELSE @]
              ELSE [req EXCEPT ![r] = Idle]
    /\ UNCHANGED <<user, up, appointed>>

RenameWrite(r) ==
    LET a == req[r].by IN
    /\ At(r, "rename.write")
    /\ a \in There /\ Called(req[r].name) \subseteq {a}
    /\ user' = [user EXCEPT ![a].name = req[r].name]
    /\ Finish(r)
    /\ UNCHANGED <<up, appointed>>

LeaveFind(r) ==
    /\ At(r, "leave.find")
    /\ Read(r, IF req[r].by \in There THEN "leave.delete" ELSE "refused")

LeaveDelete(r) ==
    LET a == req[r].by IN
    /\ At(r, "leave.delete")
    /\ a \in There
    /\ user' = [user EXCEPT ![a] = NoUser("gone")]
    /\ appointed' = appointed \ {a}
    /\ Finish(r)
    /\ UNCHANGED up

-----------------------------------------------------------------------------
(* Administration *)

\* JwtStrategy reads the role of the token's user, and SuperAdminGuard looks at it.
AdminStart(r, a, where, b, e) ==
    /\ a \in Supers
    /\ Begin(r, [Idle EXCEPT !.pc = where, !.by = a, !.target = b, !.email = e,
                             !.name = IF where = "admin.create" THEN 0 ELSE None])

\* The service reads the role once more; SUPER_ADMIN cannot be asked for.
AdminCreate(r) ==
    /\ At(r, "admin.create")
    /\ Read(r, IF req[r].by \in Supers THEN "create.name" ELSE "refused")

CreateName(r) == At(r, "create.name") /\ SearchName(r, "create.email")

CreateEmail(r) ==
    /\ At(r, "create.email")
    /\ Read(r, IF Holder(req[r].email) = {} THEN "create.create" ELSE "refused")

CreateCreate(r, a) ==
    /\ At(r, "create.create")
    /\ Create(a, req[r].email, req[r].name, None, FALSE)
    /\ Finish(r)
    /\ UNCHANGED <<up, appointed>>

\* Mutant: it is not looked at whose role is changed.
AdminUpdateAny(r) ==
    /\ At(r, "admin.update")
    /\ Read(r, IF req[r].target \in There THEN "update.write" ELSE "refused")

\* Another SUPER_ADMIN is not edited.
AdminUpdate(r) ==
    LET b == req[r].target IN
    /\ At(r, "admin.update")
    /\ Read(r, IF b \in There /\ (b \in Supers => b = req[r].by) THEN "update.write" ELSE "refused")

\* The role is another than SUPER_ADMIN; without one, only the status changes.
UpdateWrite(r, given) ==
    LET b == req[r].target IN
    /\ At(r, "update.write")
    /\ b \in There
    /\ user' = IF given THEN [user EXCEPT ![b].super = FALSE] ELSE user
    /\ appointed' = IF given /\ b = req[r].by THEN appointed \ {b} ELSE appointed
    /\ Finish(r)
    /\ UNCHANGED up

AdminRemove(r) ==
    LET b == req[r].target IN
    /\ At(r, "admin.remove")
    /\ Read(r, IF b \in There \ Supers /\ b # req[r].by THEN "remove.delete" ELSE "refused")

RemoveDelete(r) ==
    LET b == req[r].target IN
    /\ At(r, "remove.delete")
    /\ b \in There
    /\ user' = [user EXCEPT ![b] = NoUser("gone")]
    /\ Finish(r)
    /\ UNCHANGED <<up, appointed>>

-----------------------------------------------------------------------------
(* The developers' tool: it asks nobody who he is, and removes any row *)

DevStart(r, b) == Begin(r, [Idle EXCEPT !.pc = "dev.find", !.target = b])

DevFind(r) ==
    /\ At(r, "dev.find")
    /\ Read(r, IF req[r].target \in There THEN "dev.delete" ELSE "refused")

DevDelete(r) ==
    LET b == req[r].target IN
    /\ At(r, "dev.delete")
    /\ b \in There
    /\ user' = [user EXCEPT ![b] = NoUser("gone")]
    /\ appointed' = appointed \ {b}
    /\ Finish(r)
    /\ UNCHANGED up

-----------------------------------------------------------------------------

\* The operation fails, as does a write whose row is gone or whose key was taken.
Fail(r) ==
    /\ req[r] # Idle
    /\ Finish(r)
    /\ UNCHANGED <<user, up, appointed>>

Step(r) ==
    \/ RegisterEmail(r) \/ RegisterName(r) \/ \E a \in Accounts : RegisterCreate(r, a)
    \/ GoogleFind(r) \/ GoogleUpdate(r)
    \/ \E a \in Accounts, n \in Names : GoogleCreate(r, a, n)
    \/ RenameFind(r) \/ RenameWrite(r) \/ LeaveFind(r) \/ LeaveDelete(r)
    \/ AdminCreate(r) \/ CreateName(r) \/ CreateEmail(r) \/ \E a \in Accounts : CreateCreate(r, a)
    \/ AdminUpdate(r) \/ \E given \in BOOLEAN : UpdateWrite(r, given)
    \/ AdminRemove(r) \/ RemoveDelete(r)
    \/ DevFind(r) \/ DevDelete(r)

Start(r) ==
    \/ \E e \in Emails : RegisterStart(r, e)
    \/ \E g \in Uids, e \in Emails : GoogleStart(r, g, e)
    \/ \E a \in Accounts : OwnStart(r, a, "leave.find", None)
    \/ \E a \in Accounts, n \in Names \cup {None} : OwnStart(r, a, "rename.find", n)
    \/ \E a \in Accounts, e \in Emails : AdminStart(r, a, "admin.create", None, e)
    \/ \E b \in Accounts : DevStart(r, b)
    \/ \E a, b \in Accounts, where \in {"admin.update", "admin.remove"} : AdminStart(r, a, where, b, None)

Next ==
    \/ \E r \in Requests : Start(r) \/ Step(r) \/ Fail(r)
    \/ \E a \in Accounts : SeedUpdate(a) \/ \E n \in Names : SeedCreate(a, n)
    \/ Stop

Spec == Init /\ [][Next]_vars

-----------------------------------------------------------------------------
(* Properties *)

\* A SUPER_ADMIN is made by a start of the server only.  He stops being one by his
\* own request or because the developers' tool removes his row, but never by an
\* administrator, although the role of the row is read in an earlier operation
\* than the one that changes or deletes it.
SupersAreAppointed == Supers = appointed
=============================================================================
