------------------------------- MODULE Marks -------------------------------
(***************************************************************************)
(* What each user keeps of a conversation of two and of a message in it:   *)
(* reactions, read and deleted marks, the flags of his member row, and the *)
(* acceptance of the conversation by the user it was requested of.         *)
(* ConversationService with the gateway's handler that tells the members   *)
(* of a reaction; the controller's routes to the same service tell nobody. *)
(* One conversation, one message and one emoji stand for all: no operation *)
(* touches two.  One flag stands for unread, pinned, muted and blocked.    *)
(*                                                                         *)
(* Left out: the end of the muting; reportConversation, which stores       *)
(* nothing; reads that only answer.                                        *)
(***************************************************************************)
EXTENDS Integers, FiniteSets

CONSTANTS
    Users,      \* the ends of the conversation that act on it
    Initiator,  \* initiatedById, one of the ends
    MaxEvents,  \* bound: the reactions a user adds or removes
    Requests,   \* bound: handlers in flight at the same time
    None

\* What is assumed of the constants; Services assumes it of each instance.
MarksAssumption ==
    /\ None \notin Users
    /\ MaxEvents \in Nat
    /\ IsFiniteSet(Requests)

VARIABLES
    status,   \* the status of the conversation, "gone" when it was deleted
    member,   \* member[u]: the member row of u; its flag
    reacted,  \* reacted[u]: there is a MessageReaction row of u
    marks,    \* marks[u]: the MessageStatus and MessageDeletion rows of u
    told,     \* history: told[u], added minus removed of what was told, or was
              \* to be told by a handler that then failed
    untold,   \* history: untold[u], added minus removed through routes that tell nobody
    events,   \* history: events[u], how many rows were added or removed
    req       \* req[r]: the handler that runs in slot r

rows == <<status, member, reacted, marks>>
history == <<told, untold, events>>
vars == <<rows, history, req>>

Await == {"react.member", "react.find", "react.create", "react.delete", "react.tell",
          "remove.find", "remove.delete",
          "hide.member", "hide.write", "read.write",
          "flag.write", "accept.write", "delete.write"}

Request == [pc    : Await \cup {"idle"},
            user  : Users \cup {None},
            tells : BOOLEAN,    \* it tells the members what it does
            gen   : Int,        \* the reaction row it found, told apart by its creation
            done  : {-1, 0, 1}, \* what it has written: a removal, nothing, an addition
            flag  : BOOLEAN]    \* the value it is going to write

Idle == [pc |-> "idle", user |-> None, tells |-> FALSE, gen |-> 0, done |-> 0, flag |-> FALSE]

\* Nothing is kept of a conversation that is gone.
TypeOK ==
    /\ status \in {"REQUESTED", "ACTIVE", "gone"}
    /\ member \in [Users -> {"none", "flagged", "plain"}]
    /\ reacted \in [Users -> BOOLEAN]
    /\ marks \in [Users -> SUBSET {"READ", "deleted"}]
    /\ told \in [Users -> Int] /\ untold \in [Users -> Int]
    /\ events \in [Users -> 0..MaxEvents]
    /\ req \in [Requests -> Request]
    /\ status = "gone" => \A u \in Users :
          member[u] = "none" /\ ~reacted[u] /\ marks[u] = {}

Init ==
    /\ status = "REQUESTED"
    /\ member = [u \in Users |-> "none"]
    /\ reacted = [u \in Users |-> FALSE]
    /\ marks = [u \in Users |-> {}]
    /\ told = [u \in Users |-> 0] /\ untold = [u \in Users |-> 0]
    /\ events = [u \in Users |-> 0]
    /\ req = [r \in Requests |-> Idle]

-----------------------------------------------------------------------------

There == status # "gone"
At(r, where) == req[r].pc = where
Goto(r, where) == req' = [req EXCEPT ![r].pc = where]
Finish(r) == req' = [req EXCEPT ![r] = Idle]

\* A handler of u that finds the message, or the conversation, in its first read.
Begin(r, u, where) ==
    /\ req[r] = Idle
    /\ There
    /\ req' = [req EXCEPT ![r] = [Idle EXCEPT !.pc = where, !.user = u]]

\* getMember: a missing row of one of the two is created.  Two handlers that
\* both miss it are one create and one failure.
GetMember(u) ==
    /\ There
    /\ member' = [member EXCEPT ![u] = IF member[u] = "none" THEN "plain" ELSE member[u]]

-----------------------------------------------------------------------------
(* Reactions *)

\* Through the gateway, which tells the members, or the REST route, which does not.
ReactRead(r, u, tells) ==
    /\ req[r] = Idle
    /\ There
    /\ req' = [req EXCEPT ![r] = [Idle EXCEPT !.pc = "react.member", !.user = u, !.tells = tells]]
    /\ UNCHANGED <<rows, history>>

ReactMember(r) ==
    /\ At(r, "react.member")
    /\ GetMember(req[r].user)
    /\ Goto(r, "react.find")
    /\ UNCHANGED <<status, reacted, marks, history>>

\* The row found is deleted later by its id: a row created since is another.
Find(r, there, missing) ==
    LET u == req[r].user IN
    req' = [req EXCEPT ![r].pc = IF reacted[u] THEN there ELSE missing,
                       ![r].gen = events[u]]

ReactFind(r) ==
    /\ At(r, "react.find")
    /\ Find(r, "react.delete", "react.create")
    /\ UNCHANGED <<rows, history>>

\* The handler of a REST route only reads the message again for its answer.
Wrote(r, change) ==
    LET u == req[r].user IN
    /\ events[u] < MaxEvents
    /\ events' = [events EXCEPT ![u] = events[u] + 1]
    /\ reacted' = [reacted EXCEPT ![u] = change = 1]
    /\ \/ /\ req[r].tells
          /\ req' = [req EXCEPT ![r].pc = "react.tell", ![r].done = change]
          /\ UNCHANGED untold
       \/ /\ ~req[r].tells
          /\ untold' = [untold EXCEPT ![u] = untold[u] + change]
          /\ Finish(r)

\* The message, the user and the emoji are unique together.
ReactCreate(r) ==
    /\ At(r, "react.create")
    /\ There /\ ~reacted[req[r].user]
    /\ Wrote(r, 1)
    /\ UNCHANGED <<status, member, marks, told>>

\* Mutant: the row is deleted with deleteMany, which may find none.
DeletesMany(r) == events[req[r].user] >= req[r].gen

\* The row that was found must still be there.
Deletes(r) ==
    /\ reacted[req[r].user]
    /\ events[req[r].user] = req[r].gen

ReactDelete(r) ==
    /\ At(r, "react.delete")
    /\ Deletes(r)
    /\ Wrote(r, -1)
    /\ UNCHANGED <<status, member, marks, told>>

\* The message is read again and the members are told what this handler did.
ReactTell(r) ==
    LET u == req[r].user IN
    /\ At(r, "react.tell")
    /\ There
    /\ told' = [told EXCEPT ![u] = told[u] + req[r].done]
    /\ Finish(r)
    /\ UNCHANGED <<rows, untold, events>>

\* removeReaction, a REST route only: the member row is not looked at.
RemoveRead(r, u) ==
    /\ Begin(r, u, "remove.find")
    /\ UNCHANGED <<rows, history>>

RemoveFind(r) ==
    /\ At(r, "remove.find")
    /\ reacted[req[r].user]
    /\ Find(r, "remove.delete", "remove.delete")
    /\ UNCHANGED <<rows, history>>

RemoveDelete(r) ==
    /\ At(r, "remove.delete")
    /\ Deletes(r)
    /\ Wrote(r, -1)
    /\ UNCHANGED <<status, member, marks, told>>

-----------------------------------------------------------------------------
(* Marks of a message and flags of the conversation *)

HideRead(r, u) ==
    /\ Begin(r, u, "hide.member")
    /\ UNCHANGED <<rows, history>>

HideMember(r) ==
    /\ At(r, "hide.member")
    /\ GetMember(req[r].user)
    /\ Goto(r, "hide.write")
    /\ UNCHANGED <<status, reacted, marks, history>>

\* Whether the user is in the conversation is not looked at.
ReadRead(r, u) ==
    /\ Begin(r, u, "read.write")
    /\ UNCHANGED <<rows, history>>

Mark(r, how) ==
    LET u == req[r].user IN
    /\ There
    /\ marks' = [marks EXCEPT ![u] = marks[u] \cup {how}]
    /\ Finish(r)
    /\ UNCHANGED <<status, member, reacted, history>>

\* Both are upserts: a mark that is there stays.
HideWrite(r) == At(r, "hide.write") /\ Mark(r, "deleted")

ReadWrite(r) == At(r, "read.write") /\ Mark(r, "READ")

\* A flag is read with the member row and written negated; muting may name the
\* value, and deleting the conversation for oneself always does.
FlagRead(r, u) ==
    /\ req[r] = Idle
    /\ GetMember(u)
    /\ \E value \in {member[u] # "flagged", TRUE, FALSE} :
          req' = [req EXCEPT ![r] = [Idle EXCEPT !.pc = "flag.write", !.user = u, !.flag = value]]
    /\ UNCHANGED <<status, reacted, marks, history>>

FlagWrite(r) ==
    LET u == req[r].user IN
    /\ At(r, "flag.write")
    /\ member[u] # "none"
    /\ member' = [member EXCEPT ![u] = IF req[r].flag THEN "flagged" ELSE "plain"]
    /\ Finish(r)
    /\ UNCHANGED <<status, reacted, marks, history>>

-----------------------------------------------------------------------------
(* The requested conversation is accepted, or declined and deleted *)

AcceptRead(r, u) ==
    /\ status = "REQUESTED" /\ u # Initiator
    /\ Begin(r, u, "accept.write")
    /\ UNCHANGED <<rows, history>>

AcceptWrite(r) ==
    /\ At(r, "accept.write")
    /\ There
    /\ status' = "ACTIVE"
    /\ Finish(r)
    /\ UNCHANGED <<member, reacted, marks, history>>

DeclineRead(r, u) ==
    /\ status = "REQUESTED" /\ u # Initiator
    /\ Begin(r, u, "delete.write")
    /\ UNCHANGED <<rows, history>>

\* deleteConversation: either end, whatever the status.
DeleteRead(r, u) ==
    /\ Begin(r, u, "delete.write")
    /\ UNCHANGED <<rows, history>>

\* Everything kept of it goes with the conversation, accepted by now or not.
DeleteWrite(r) ==
    /\ At(r, "delete.write")
    /\ There
    /\ status' = "gone"
    /\ member' = [u \in Users |-> "none"]
    /\ reacted' = [u \in Users |-> FALSE]
    /\ marks' = [u \in Users |-> {}]
    /\ Finish(r)
    /\ UNCHANGED history

-----------------------------------------------------------------------------

\* An operation fails, on a row that is gone or there already, or for no reason:
\* what the handler has written before stays, and nobody is told.
Fail(r) ==
    LET u == req[r].user IN
    /\ req[r] # Idle
    /\ told' = [told EXCEPT ![u] = told[u] + req[r].done]
    /\ Finish(r)
    /\ UNCHANGED <<rows, untold, events>>

Next ==
    \E r \in Requests :
       \/ ReactMember(r) \/ ReactFind(r) \/ ReactCreate(r) \/ ReactDelete(r) \/ ReactTell(r)
       \/ RemoveFind(r) \/ RemoveDelete(r)
       \/ HideMember(r) \/ HideWrite(r) \/ ReadWrite(r) \/ FlagWrite(r)
       \/ AcceptWrite(r) \/ DeleteWrite(r) \/ Fail(r)
       \/ \E u \in Users :
             \/ \E tells \in BOOLEAN : ReactRead(r, u, tells)
             \/ RemoveRead(r, u) \/ HideRead(r, u) \/ ReadRead(r, u)
             \/ FlagRead(r, u) \/ AcceptRead(r, u) \/ DeclineRead(r, u) \/ DeleteRead(r, u)

Spec == Init /\ [][Next]_vars

-----------------------------------------------------------------------------
(* Properties *)

Pending(u, change) == {r \in Requests : req[r].user = u /\ req[r].done = change}

Row(u) == IF reacted[u] THEN 1 ELSE 0

\* However the reactions of a user overlap, by whichever route, and in whatever order
\* they are told: what the gateway's handlers have told, will tell, or lost with their
\* failure, differs from the row by exactly what came through the routes that tell
\* nobody.  None is told that did not happen, or twice.
EventsSumUp ==
    There => \A u \in Users :
        told[u] + Cardinality(Pending(u, 1)) - Cardinality(Pending(u, -1)) + untold[u] = Row(u)
=============================================================================
