------------------------------ MODULE Profiles ------------------------------
(***************************************************************************)
(* The cached profiles of users and everyone who fills or invalidates      *)
(* them: UserCacheService, AuthGetProfileService, AuthUpdateProfileService,*)
(* the ends of a login and of a verification, SubscriptionService and the  *)
(* other writers of a User row.  Rows and entries are abstracted to the    *)
(* version of the row, which every write of it or of its subscription      *)
(* raises; every entry is put with a lifetime (setex).                     *)
(*                                                                         *)
(* Left out: what the fields hold, and that the entry put at the end of a  *)
(* login has fewer of them than the one put by getProfile.                 *)
(***************************************************************************)
EXTENDS Naturals, FiniteSets

CONSTANTS
    Users,
    MaxVersion,  \* bound: how often the row of a user changes
    Requests     \* bound: handlers in flight at the same time

\* What is assumed of the constants; Services assumes it of each instance.
ProfilesAssumption == MaxVersion \in Nat \ {0}

VARIABLES
    row,      \* row[u]: the version of the row of u with its subscription, 0: none
    sub,      \* sub[u]: the status of the Subscription row of u
    entry,    \* entry[u]: the version that is cached under user:u, 0: none
    excused,  \* history: excused[u], the entry is out of date for a known cause
    req       \* req[r]: the handler that runs in slot r

vars == <<row, sub, entry, excused, req>>

Versions == 1..MaxVersion
Status == {"none", "ACTIVE", "CANCELLED"}

Await == {"get.read", "get.put", "update.write", "update.invalidate",
          "login.update", "login.put", "verify.write", "verify.invalidate",
          "delete.write", "delete.invalidate",
          "buy.find", "buy.update", "buy.create", "cancel.update"}

Invalidating == {"update.invalidate", "verify.invalidate", "delete.invalidate"}
Renewing == Invalidating \cup {"login.put"}   \* about to drop the entry or to put a new one

Request == [pc : Await \cup {"idle"}, user : Users \cup {"nobody"}, version : Versions \cup {0}]
Idle == [pc |-> "idle", user |-> "nobody", version |-> 0]

TypeOK ==
    /\ row \in [Users -> Versions \cup {0}]
    /\ sub \in [Users -> Status]
    /\ entry \in [Users -> Versions \cup {0}]
    /\ excused \in [Users -> BOOLEAN]
    /\ req \in [Requests -> Request]
    /\ \A u \in Users : row[u] = 0 => sub[u] = "none"
    /\ \A r \in Requests : req[r] = Idle \/ req[r].user \in Users

Init ==
    /\ row = [u \in Users |-> 1]
    /\ sub = [u \in Users |-> "none"]
    /\ entry = [u \in Users |-> 0]
    /\ excused = [u \in Users |-> FALSE]
    /\ req = [r \in Requests |-> Idle]

-----------------------------------------------------------------------------
(* Requests, the row and the entry *)

At(r, where) == req[r].pc = where
Goto(r, where) == req' = [req EXCEPT ![r].pc = where]
Finish(r) == req' = [req EXCEPT ![r] = Idle]

Begin(r, u, where) ==
    /\ req[r] = Idle
    /\ req' = [req EXCEPT ![r] = [Idle EXCEPT !.pc = where, !.user = u]]

Outdated(u) == entry[u] \notin {0, row[u]}

\* A new version of the row; a handler that would write one more stays.
Write(u) ==
    /\ row[u] # 0
    /\ row[u] < MaxVersion
    /\ row' = [row EXCEPT ![u] = row[u] + 1]

\* cacheUserProfile with the version that was read before.
Put(r) ==
    LET u == req[r].user IN
    /\ entry' = [entry EXCEPT ![u] = req[r].version]
    /\ excused' = [excused EXCEPT ![u] = req[r].version # row[u]]

Drop(u) ==
    /\ entry' = [entry EXCEPT ![u] = 0]
    /\ excused' = [excused EXCEPT ![u] = FALSE]

\* A writer of the row that leaves the entry alone.
Silently(u) == excused' = [excused EXCEPT ![u] = excused[u] \/ entry[u] # 0]

-----------------------------------------------------------------------------
(* getProfile: a hit is answered from the entry, a miss fills it *)

GetMiss(r, u) ==
    /\ entry[u] = 0
    /\ Begin(r, u, "get.read")
    /\ UNCHANGED <<row, sub, entry, excused>>

GetRead(r) ==
    LET u == req[r].user IN
    /\ At(r, "get.read")
    /\ row[u] # 0
    /\ req' = [req EXCEPT ![r].pc = "get.put", ![r].version = row[u]]
    /\ UNCHANGED <<row, sub, entry, excused>>

GetPut(r) ==
    /\ At(r, "get.put")
    /\ Put(r)
    /\ Finish(r)
    /\ UNCHANGED <<row, sub>>

-----------------------------------------------------------------------------
(* updateProfile, and so changePassword: read, write, invalidate *)

UpdateRead(r, u) ==
    /\ row[u] # 0
    /\ Begin(r, u, "update.write")
    /\ UNCHANGED <<row, sub, entry, excused>>

\* Mutant: the entry is not invalidated.
UpdateWriteOnly(r) ==
    /\ At(r, "update.write")
    /\ Write(req[r].user)
    /\ Finish(r)
    /\ UNCHANGED <<sub, entry, excused>>

UpdateWrite(r) ==
    /\ At(r, "update.write")
    /\ Write(req[r].user)
    /\ Goto(r, "update.invalidate")
    /\ UNCHANGED <<sub, entry, excused>>

UpdateInvalidate(r) ==
    /\ At(r, "update.invalidate")
    /\ Drop(req[r].user)
    /\ Finish(r)
    /\ UNCHANGED <<row, sub>>

-----------------------------------------------------------------------------
(* The ends of a login, which writes its time, and of a verification *)

LoginFind(r, u) ==
    /\ row[u] # 0
    /\ Begin(r, u, "login.update")
    /\ UNCHANGED <<row, sub, entry, excused>>

LoginUpdate(r) ==
    LET u == req[r].user IN
    /\ At(r, "login.update")
    /\ Write(u)
    /\ req' = [req EXCEPT ![r].pc = "login.put", ![r].version = row[u] + 1]
    /\ UNCHANGED <<sub, entry, excused>>

VerifyFind(r, u) ==
    /\ row[u] # 0
    /\ Begin(r, u, "verify.write")
    /\ UNCHANGED <<row, sub, entry, excused>>

VerifyWrite(r) ==
    LET u == req[r].user IN
    /\ At(r, "verify.write")
    /\ Write(u)
    /\ req' = [req EXCEPT ![r].pc = "verify.invalidate", ![r].version = row[u] + 1]
    /\ UNCHANGED <<sub, entry, excused>>

VerifyInvalidate(r) ==
    /\ At(r, "verify.invalidate")
    /\ Drop(req[r].user)
    /\ Goto(r, "login.put")
    /\ UNCHANGED <<row, sub>>

LoginPut(r) ==
    /\ At(r, "login.put")
    /\ Put(r)
    /\ Finish(r)
    /\ UNCHANGED <<row, sub>>

-----------------------------------------------------------------------------
(* Deletion by the user himself; administrators and the developers' tool do *)
(* not invalidate                                                           *)

DeleteFind(r, u) ==
    /\ row[u] # 0
    /\ Begin(r, u, "delete.write")
    /\ UNCHANGED <<row, sub, entry, excused>>

DeleteRow(u) ==
    /\ row[u] # 0
    /\ row' = [row EXCEPT ![u] = 0]
    /\ sub' = [sub EXCEPT ![u] = "none"]

DeleteWrite(r) ==
    /\ At(r, "delete.write")
    /\ DeleteRow(req[r].user)
    /\ Goto(r, "delete.invalidate")
    /\ UNCHANGED <<entry, excused>>

DeleteInvalidate(r) ==
    /\ At(r, "delete.invalidate")
    /\ Drop(req[r].user)
    /\ Finish(r)
    /\ UNCHANGED <<row, sub>>

RemoveAdmin(u) ==
    /\ DeleteRow(u)
    /\ Silently(u)
    /\ UNCHANGED <<entry, req>>

\* Role or status of an account; likewise lastActiveAt and isOnline, which any
\* request with a token and the gateways write, and what the start of the server does.
UpdateAdmin(u) ==
    /\ Write(u)
    /\ Silently(u)
    /\ UNCHANGED <<sub, entry, req>>

-----------------------------------------------------------------------------
(* Subscriptions, which are part of the cached profile; none of their       *)
(* writers invalidates it                                                   *)

Buy(r, u) ==
    /\ row[u] # 0
    /\ Begin(r, u, "buy.find")
    /\ UNCHANGED <<row, sub, entry, excused>>

BuyFind(r) ==
    /\ At(r, "buy.find")
    /\ Goto(r, IF sub[req[r].user] = "none" THEN "buy.create" ELSE "buy.update")
    /\ UNCHANGED <<row, sub, entry, excused>>

Subscribe(r, status) ==
    LET u == req[r].user IN
    /\ sub' = [sub EXCEPT ![u] = status]
    /\ Write(u)
    /\ Silently(u)
    /\ Finish(r)
    /\ UNCHANGED entry

BuyUpdate(r) ==
    /\ At(r, "buy.update")
    /\ sub[req[r].user] # "none"
    /\ Subscribe(r, "ACTIVE")

\* The user id is unique: a purchase that overlaps with another one fails here.
BuyCreate(r) ==
    /\ At(r, "buy.create")
    /\ sub[req[r].user] = "none"
    /\ Subscribe(r, "ACTIVE")

CancelFind(r, u) ==
    /\ sub[u] # "none"
    /\ Begin(r, u, "cancel.update")
    /\ UNCHANGED <<row, sub, entry, excused>>

CancelUpdate(r) ==
    /\ At(r, "cancel.update")
    /\ sub[req[r].user] # "none"
    /\ Subscribe(r, "CANCELLED")

-----------------------------------------------------------------------------

EntryExpires(u) ==
    /\ entry[u] # 0
    /\ Drop(u)
    /\ UNCHANGED <<row, sub, req>>

\* What a handler is about to do fails, or the process stops.  A failed
\* invalidation is swallowed, a failed put is not: a verification goes on.
Fail(r) ==
    LET u == req[r].user IN
    /\ req[r] # Idle
    /\ \/ Finish(r)
       \/ At(r, "verify.invalidate") /\ Goto(r, "login.put")
    /\ excused' = IF req[r].pc \in Renewing
                  THEN [excused EXCEPT ![u] = excused[u] \/ Outdated(u)] ELSE excused
    /\ UNCHANGED <<row, sub, entry>>

Next ==
    \/ \E r \in Requests :
          \/ GetRead(r) \/ GetPut(r)
          \/ UpdateWrite(r) \/ UpdateInvalidate(r)
          \/ LoginUpdate(r) \/ LoginPut(r)
          \/ VerifyWrite(r) \/ VerifyInvalidate(r)
          \/ DeleteWrite(r) \/ DeleteInvalidate(r)
          \/ BuyFind(r) \/ BuyUpdate(r) \/ BuyCreate(r) \/ CancelUpdate(r)
          \/ Fail(r)
          \/ \E u \in Users :
                \/ GetMiss(r, u) \/ UpdateRead(r, u) \/ LoginFind(r, u) \/ VerifyFind(r, u)
                \/ DeleteFind(r, u) \/ Buy(r, u) \/ CancelFind(r, u)
    \/ \E u \in Users : UpdateAdmin(u) \/ RemoveAdmin(u) \/ EntryExpires(u)

Spec == Init /\ [][Next]_vars

-----------------------------------------------------------------------------
(* Properties *)

\* An entry that does not show the row is about to be dropped or put anew, unless
\* it was put by a handler that had read the row before it changed, or was there
\* when a writer that never invalidates changed the row, or the command that
\* should have renewed it failed: then only its lifetime ends it.
StaleIsExplained ==
    \A u \in Users : Outdated(u) =>
        excused[u] \/ \E r \in Requests : req[r].pc \in Renewing /\ req[r].user = u

\* The step ends a profile update, or changes a subscription.
Changes(u) ==
    \/ sub'[u] # sub[u]
    \/ \E r \in Requests : At(r, "update.invalidate") /\ req[r].user = u /\ req'[r] = Idle

ChangeIsShown ==
    \A u \in Users : Changes(u) =>
        ~Outdated(u)' \/ \E r \in Requests : req'[r].pc \in Renewing /\ req'[r].user = u

\* CACHE_INVALIDATION_GUIDE.md: a changed subscription invalidates the entry, and
\* after an update the user "gets fresh data on next request", also when the
\* invalidation fails.  Neither is so: the entry stays until its lifetime ends.
ChangesAreShown == [][ChangeIsShown]_vars
=============================================================================
