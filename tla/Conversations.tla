--------------------------- MODULE Conversations ---------------------------
(***************************************************************************)
(* Conversations of two users and of groups, their members and messages:   *)
(* ConversationService with the gateway's handler for sending.  Handlers   *)
(* perform one database operation per step; there is no transaction, every *)
(* operation may fail, and an account may be deleted at any time.          *)
(*                                                                         *)
(* Left out: contents, except whether a message still has one; reads that  *)
(* answer from a single query; the AI's answers; and what one user keeps   *)
(* of a conversation or a message for himself (pins, reactions, read       *)
(* marks), except the member row that such a mark creates.                 *)
(***************************************************************************)
EXTENDS Naturals, FiniteSets

CONSTANTS
    Users,
    Convs,        \* bound: the conversations that can be created; a handler that
                  \* would create one more stays where it is, or fails
    MaxMessages,  \* bound: the messages that can be created, in the same way
    Requests,     \* bound: handlers in flight at the same time
    Deletable,    \* the accounts that may be deleted
    MayFail,      \* whether database operations may fail
    None

ASSUME ConstantsAssumption ==
    /\ None \notin Users \cup Convs \cup 1..MaxMessages
    /\ MaxMessages \in Nat
    /\ IsFiniteSet(Requests)
    /\ Deletable \subseteq Users
    /\ MayFail \in BOOLEAN

VARIABLES
    accounts,  \* the User rows that exist
    conv,      \* conv[c]: a Conversation row
    role,      \* role[c][u]: the ConversationMember row of u in c
    msg,       \* msg[m]: a Message row; m orders them by createdAt
    told,      \* history: told[m], what the sender of m heard
    passed,    \* history: <<m, n>>, n was created before m became the last message
    late,      \* history: late[c][u], posts of u in c since u was removed from it
    copies,    \* history: copies[m], forwards of m since m was unsent
    req        \* req[r]: the handler that runs in slot r

rows == <<accounts, conv, role, msg>>
history == <<told, passed, late, copies>>
vars == <<accounts, conv, role, msg, told, passed, late, copies, req>>

Messages == 1..MaxMessages

Conv == [kind    : {"unborn", "pair", "group", "gone"},
         ends    : SUBSET Users,           \* user1Id and user2Id of a pair
         founder : Users \cup {None},      \* initiatedById, or who made the group
         last    : Messages \cup {None}]   \* lastMessageId

Msg == [state  : {"unborn", "there", "gone"},
        conv   : Convs \cup {None},
        sender : Users \cup {None},
        hidden : BOOLEAN]                  \* isUnsent: has no content any more

NoConv(why) == [kind |-> why, ends |-> {}, founder |-> None, last |-> None]
Unborn == [state |-> "unborn", conv |-> None, sender |-> None, hidden |-> FALSE]

Await == {"initiate.find", "initiate.create", "group.create",
          "update.users", "update.write", "remove.write", "delete.write",
          "member.conv", "member.create",
          "send.find", "send.create", "send.last", "send.notify", "unsend.write"}

Request ==
    [pc    : Await \cup {"idle"},
     user  : Users \cup {None},
     conv  : Convs \cup {None},
     with  : SUBSET Users,                 \* the other users it is about
     msg   : Messages \cup {None},         \* the message it created or unsends
     kind  : {"none", "new", "reply", "forward"},
     ref   : Messages \cup {None}]         \* replyToId or forwardedFromId

Idle == [pc |-> "idle", user |-> None, conv |-> None, with |-> {},
         msg |-> None, kind |-> "none", ref |-> None]

Exists(c) == conv[c].kind \in {"pair", "group"}
There(m) == msg[m].state = "there"
Members(c) == {u \in Users : role[c][u] # "none"}

\* The rows have their types and refer to rows that exist: a conversation to a
\* message of its own, a message to its conversation and its sender, a member
\* row to its conversation and its account.
TypeOK ==
    /\ accounts \subseteq Users
    /\ conv \in [Convs -> Conv]
    /\ role \in [Convs -> [Users -> {"none", "OWNER", "MEMBER"}]]
    /\ msg \in [Messages -> Msg]
    /\ told \in [Messages -> {"none", "ok", "refused"}]
    /\ passed \subseteq Messages \X Messages
    /\ late \in [Convs -> [Users -> Nat]]
    /\ copies \in [Messages -> Nat]
    /\ req \in [Requests -> Request]
    /\ \A c \in Convs : conv[c].last # None =>
          There(conv[c].last) /\ msg[conv[c].last].conv = c
    /\ \A m \in Messages : There(m) =>
          Exists(msg[m].conv) /\ msg[m].sender \in accounts
    /\ \A c \in Convs : Members(c) # {} => Exists(c) /\ Members(c) \subseteq accounts

Init ==
    /\ accounts = Users
    /\ conv = [c \in Convs |-> NoConv("unborn")]
    /\ role = [c \in Convs |-> [u \in Users |-> "none"]]
    /\ msg = [m \in Messages |-> Unborn]
    /\ told = [m \in Messages |-> "none"]
    /\ passed = {}
    /\ late = [c \in Convs |-> [u \in Users |-> 0]]
    /\ copies = [m \in Messages |-> 0]
    /\ req = [r \in Requests |-> Idle]

-----------------------------------------------------------------------------
(* Rows and requests *)

\* Who may read and write in c, and whom the gateway tells of a message in it.
Participants(c) == IF conv[c].kind = "group" THEN Members(c) ELSE conv[c].ends

PairOf(users) == {c \in Convs : conv[c].kind = "pair" /\ conv[c].ends = users}

At(r, where) == req[r].pc = where
InFlight(wheres) == {r \in Requests : req[r].pc \in wheres}
Goto(r, where) == req' = [req EXCEPT ![r].pc = where]
Finish(r) == req' = [req EXCEPT ![r] = Idle]

\* A free slot is taken by a handler of u that has performed its first operation.
Begin(r, u, q) ==
    /\ req[r] = Idle
    /\ u \in accounts
    /\ req' = [req EXCEPT ![r] = [q EXCEPT !.user = u]]
    /\ UNCHANGED <<rows, history>>

\* Deletion of conversations and messages: what refers to a conversation goes
\* with it, and a conversation forgets a last message that is gone.
Delete(cs, ms) ==
    /\ conv' = [c \in Convs |->
                   IF c \in cs THEN NoConv("gone")
                   ELSE IF conv[c].last \in ms THEN [conv[c] EXCEPT !.last = None]
                   ELSE conv[c]]
    /\ msg' = [m \in Messages |->
                  IF m \in ms THEN [Unborn EXCEPT !.state = "gone"] ELSE msg[m]]

In(cs) == {m \in Messages : There(m) /\ msg[m].conv \in cs}

-----------------------------------------------------------------------------
(* Conversations of two: initiateConversation looks for one and creates it *)
(* if there is none.                                                       *)

InitiateRead(r, u, v) ==
    /\ v \in accounts \ {u}
    /\ Begin(r, u, [Idle EXCEPT !.pc = "initiate.find", !.with = {v}])

InitiateFound(r) ==
    /\ At(r, "initiate.find")
    /\ PairOf({req[r].user} \cup req[r].with) # {}
    /\ Finish(r)
    /\ UNCHANGED <<rows, history>>

InitiateNone(r) ==
    /\ At(r, "initiate.find")
    /\ PairOf({req[r].user} \cup req[r].with) = {}
    /\ Goto(r, "initiate.create")
    /\ UNCHANGED <<rows, history>>

\* The two ids are unique together.
InitiateCreate(r, c) ==
    LET ends == {req[r].user} \cup req[r].with IN
    /\ At(r, "initiate.create")
    /\ ends \subseteq accounts
    /\ PairOf(ends) = {}
    /\ conv[c].kind = "unborn"
    /\ conv' = [conv EXCEPT ![c] = [kind |-> "pair", ends |-> ends,
                                    founder |-> req[r].user, last |-> None]]
    /\ Finish(r)
    /\ UNCHANGED <<accounts, role, msg, history>>

-----------------------------------------------------------------------------
(* Groups *)

GroupRead(r, u, others) ==
    /\ others \ {u} # {}
    /\ others \subseteq accounts
    /\ Begin(r, u, [Idle EXCEPT !.pc = "group.create", !.with = others \ {u}])

GroupCreate(r, c) ==
    LET u == req[r].user IN
    /\ At(r, "group.create")
    /\ {u} \cup req[r].with \subseteq accounts
    /\ conv[c].kind = "unborn"
    /\ conv' = [conv EXCEPT ![c] = [kind |-> "group", ends |-> {},
                                    founder |-> u, last |-> None]]
    /\ role' = [role EXCEPT ![c] = [v \in Users |-> IF v = u THEN "OWNER"
                                                   ELSE IF v \in req[r].with THEN "MEMBER"
                                                   ELSE "none"]]
    /\ Finish(r)
    /\ UNCHANGED <<accounts, msg, history>>

\* Any member may add others; those who are members already are left out.
UpdateRead(r, u, c, others) ==
    /\ conv[c].kind = "group"
    /\ u \in Members(c)
    /\ others \ Members(c) # {}
    /\ Begin(r, u, [Idle EXCEPT !.pc = "update.users", !.conv = c,
                                !.with = others \ Members(c)])

UpdateUsers(r) ==
    /\ At(r, "update.users")
    /\ IF req[r].with \subseteq accounts THEN Goto(r, "update.write") ELSE Finish(r)
    /\ UNCHANGED <<rows, history>>

UpdateWrite(r) ==
    LET c == req[r].conv IN
    /\ At(r, "update.write")
    /\ Exists(c)
    /\ req[r].with \subseteq accounts \ Members(c)
    /\ role' = [role EXCEPT ![c] = [v \in Users |-> IF v \in req[r].with THEN "MEMBER"
                                                   ELSE role[c][v]]]
    /\ Finish(r)
    /\ UNCHANGED <<accounts, conv, msg, history>>

\* Mutant: the owner may remove himself.
RemoveReadSelf(r, u, c, v) ==
    /\ conv[c].kind = "group"
    /\ role[c][u] = "OWNER"
    /\ v \in Members(c)
    /\ Begin(r, u, [Idle EXCEPT !.pc = "remove.write", !.conv = c, !.with = {v}])

RemoveRead(r, u, c, v) ==
    /\ conv[c].kind = "group"
    /\ role[c][u] = "OWNER"
    /\ v \in Members(c) \ {u}
    /\ Begin(r, u, [Idle EXCEPT !.pc = "remove.write", !.conv = c, !.with = {v}])

RemoveWrite(r) ==
    LET c == req[r].conv IN
    /\ At(r, "remove.write")
    /\ req[r].with \subseteq Members(c)
    /\ role' = [role EXCEPT ![c] = [v \in Users |-> IF v \in req[r].with THEN "none"
                                                   ELSE role[c][v]]]
    /\ late' = [late EXCEPT ![c] = [v \in Users |-> IF v \in req[r].with THEN 0
                                                   ELSE late[c][v]]]
    /\ Finish(r)
    /\ UNCHANGED <<accounts, conv, msg, told, passed, copies>>

DeleteRead(r, u, c) ==
    /\ Exists(c)
    /\ IF conv[c].kind = "group" THEN role[c][u] = "OWNER" ELSE u \in conv[c].ends
    /\ Begin(r, u, [Idle EXCEPT !.pc = "delete.write", !.conv = c])

DeleteWrite(r) ==
    LET c == req[r].conv IN
    /\ At(r, "delete.write")
    /\ Exists(c)
    /\ Delete({c}, In({c}))
    /\ role' = [role EXCEPT ![c] = [u \in Users |-> "none"]]
    /\ Finish(r)
    /\ UNCHANGED <<accounts, history>>

\* What a user marks in a conversation is kept in his member row, which
\* conversations of two get with the first mark: getMember looks for the row,
\* then for the conversation, and creates the row.
MemberRead(r, u, c) ==
    /\ role[c][u] = "none"
    /\ Begin(r, u, [Idle EXCEPT !.pc = "member.conv", !.conv = c])

MemberConv(r) ==
    /\ At(r, "member.conv")
    /\ IF req[r].user \in conv[req[r].conv].ends THEN Goto(r, "member.create") ELSE Finish(r)
    /\ UNCHANGED <<rows, history>>

MemberCreate(r) ==
    LET c == req[r].conv
        u == req[r].user
    IN
    /\ At(r, "member.create")
    /\ Exists(c) /\ u \in accounts \ Members(c)
    /\ role' = [role EXCEPT ![c][u] = "MEMBER"]
    /\ Finish(r)
    /\ UNCHANGED <<accounts, conv, msg, history>>

-----------------------------------------------------------------------------
(* Messages.  A new one starts with the look-up of its conversation; a     *)
(* reply and a forward look up the message they refer to before that.      *)

\* Mutant: sendMessage does not look at the members.
SendReadUnchecked(r, u, c) ==
    /\ Exists(c)
    /\ Begin(r, u, [Idle EXCEPT !.pc = "send.create", !.kind = "new", !.conv = c])

SendRead(r, u, c) ==
    /\ Exists(c)
    /\ u \in Participants(c)
    /\ Begin(r, u, [Idle EXCEPT !.pc = "send.create", !.kind = "new", !.conv = c])

ReplyRead(r, u, m) ==
    /\ There(m)
    /\ Begin(r, u, [Idle EXCEPT !.pc = "send.find", !.kind = "reply",
                                !.conv = msg[m].conv, !.ref = m])

\* Mutant: what is left of an unsent message is forwarded.
ForwardReadHidden(r, u, m, c) ==
    /\ There(m)
    /\ Begin(r, u, [Idle EXCEPT !.pc = "send.find", !.kind = "forward",
                                !.conv = c, !.ref = m])

\* "Message must have either content or media": an unsent one has neither.
ForwardRead(r, u, m, c) ==
    /\ There(m)
    /\ ~msg[m].hidden
    /\ Begin(r, u, [Idle EXCEPT !.pc = "send.find", !.kind = "forward",
                                !.conv = c, !.ref = m])

SendFind(r) ==
    LET c == req[r].conv IN
    /\ At(r, "send.find")
    /\ IF Exists(c) /\ req[r].user \in Participants(c) THEN Goto(r, "send.create")
                                                      ELSE Finish(r)
    /\ UNCHANGED <<rows, history>>

\* The row refers to its conversation, its sender, and the message in ref.
Referable(r) ==
    /\ Exists(req[r].conv)
    /\ req[r].user \in accounts
    /\ req[r].ref # None => There(req[r].ref)

SendCreate(r, m) ==
    LET c == req[r].conv
        u == req[r].user
        n == req[r].ref
    IN
    /\ At(r, "send.create")
    /\ Referable(r)
    /\ msg[m].state = "unborn"
    /\ \A k \in 1..m - 1 : msg[k].state # "unborn"
    /\ msg' = [msg EXCEPT ![m] = [state |-> "there", conv |-> c, sender |-> u,
                                  hidden |-> FALSE]]
    /\ passed' = passed \cup {<<req[q].msg, m>> : q \in {p \in InFlight({"send.last"}) :
                                                           req[p].conv = c}}
    /\ late' = [late EXCEPT ![c][u] = IF u \in Participants(c) THEN late[c][u]
                                      ELSE late[c][u] + 1]
    /\ copies' = [k \in Messages |-> IF /\ k = n /\ req[r].kind = "forward"
                                        /\ msg[k].hidden
                                     THEN copies[k] + 1 ELSE copies[k]]
    /\ req' = [req EXCEPT ![r].pc = "send.last", ![r].msg = m]
    /\ UNCHANGED <<accounts, conv, role, told>>

\* Mutant: only the first message becomes the last one.
SendLastOnce(r) ==
    LET c == req[r].conv
        m == req[r].msg
    IN
    /\ At(r, "send.last")
    /\ Exists(c) /\ There(m)
    /\ conv' = [conv EXCEPT ![c].last = IF @ = None THEN m ELSE @]
    /\ told' = [told EXCEPT ![m] = "ok"]
    /\ IF req[r].kind = "new" THEN Goto(r, "send.notify") ELSE Finish(r)
    /\ UNCHANGED <<accounts, role, msg, passed, late, copies>>

\* The sender is answered; the gateway goes on for new messages.
SendLast(r) ==
    LET c == req[r].conv
        m == req[r].msg
    IN
    /\ At(r, "send.last")
    /\ Exists(c) /\ There(m)
    /\ conv' = [conv EXCEPT ![c].last = m]
    /\ told' = [told EXCEPT ![m] = "ok"]
    /\ IF req[r].kind = "new" THEN Goto(r, "send.notify") ELSE Finish(r)
    /\ UNCHANGED <<accounts, role, msg, passed, late, copies>>

\* The participants are read and told.
SendNotify(r) ==
    /\ At(r, "send.notify")
    /\ Finish(r)
    /\ UNCHANGED <<rows, history>>

UnsendRead(r, u, m) ==
    /\ There(m)
    /\ msg[m].sender = u
    /\ Begin(r, u, [Idle EXCEPT !.pc = "unsend.write", !.msg = m])

UnsendWrite(r) ==
    LET m == req[r].msg IN
    /\ At(r, "unsend.write")
    /\ There(m)
    /\ msg' = [msg EXCEPT ![m].hidden = TRUE]
    /\ Finish(r)
    /\ UNCHANGED <<accounts, conv, role, history>>

-----------------------------------------------------------------------------
(* Failures and deletion of accounts *)

\* A row that the pending operation needs is gone, or one is in its way.
Impossible(r) ==
    \/ /\ At(r, "initiate.create")
       /\ LET ends == {req[r].user} \cup req[r].with IN
             ~(ends \subseteq accounts) \/ PairOf(ends) # {}
    \/ At(r, "group.create") /\ ~({req[r].user} \cup req[r].with \subseteq accounts)
    \/ /\ At(r, "update.write")
       /\ \/ ~Exists(req[r].conv)
          \/ ~(req[r].with \subseteq accounts \ Members(req[r].conv))
    \/ /\ At(r, "member.create")
       /\ \/ ~Exists(req[r].conv)
          \/ req[r].user \notin accounts \ Members(req[r].conv)
    \/ At(r, "remove.write") /\ ~(req[r].with \subseteq Members(req[r].conv))
    \/ At(r, "delete.write") /\ ~Exists(req[r].conv)
    \/ At(r, "send.create") /\ ~Referable(r)
    \/ At(r, "send.last") /\ ~(Exists(req[r].conv) /\ There(req[r].msg))
    \/ At(r, "unsend.write") /\ ~There(req[r].msg)

\* An operation throws: the handler ends with an error, what it wrote stays.
Fail(r) ==
    /\ req[r] # Idle
    /\ MayFail \/ Impossible(r)
    /\ told' = IF At(r, "send.last") THEN [told EXCEPT ![req[r].msg] = "refused"] ELSE told
    /\ Finish(r)
    /\ UNCHANGED <<rows, passed, late, copies>>

\* Mutant: the last message is deleted and its conversation still refers to it.
DeleteUserNoSetNull(u) ==
    /\ u \in accounts \cap Deletable
    /\ accounts' = accounts \ {u}
    /\ LET cs == {c \in Convs : u \in conv[c].ends}
           ms == {m \in Messages : There(m) /\ msg[m].sender = u} \cup In(cs)
       IN  /\ conv' = [c \in Convs |-> IF c \in cs THEN NoConv("gone") ELSE conv[c]]
           /\ msg' = [m \in Messages |-> IF m \in ms THEN [Unborn EXCEPT !.state = "gone"]
                                                    ELSE msg[m]]
    /\ role' = [c \in Convs |-> [v \in Users |-> IF v = u \/ u \in conv[c].ends THEN "none"
                                                 ELSE role[c][v]]]
    /\ UNCHANGED <<history, req>>

\* The account's conversations of two, memberships and messages go with it.
DeleteUser(u) ==
    /\ u \in accounts \cap Deletable
    /\ accounts' = accounts \ {u}
    /\ LET cs == {c \in Convs : u \in conv[c].ends} IN
          Delete(cs, {m \in Messages : There(m) /\ msg[m].sender = u} \cup In(cs))
    /\ role' = [c \in Convs |-> [v \in Users |-> IF v = u \/ u \in conv[c].ends THEN "none"
                                                 ELSE role[c][v]]]
    /\ UNCHANGED <<history, req>>

-----------------------------------------------------------------------------

Arrive(r, u) ==
    \/ \E v \in Users : InitiateRead(r, u, v)
    \/ \E others \in SUBSET Users : GroupRead(r, u, others)
    \/ \E c \in Convs :
          \/ \E others \in SUBSET Users : UpdateRead(r, u, c, others)
          \/ \E v \in Users : RemoveRead(r, u, c, v)
          \/ DeleteRead(r, u, c)
          \/ MemberRead(r, u, c)
          \/ SendRead(r, u, c)
    \/ \E m \in Messages :
          \/ ReplyRead(r, u, m)
          \/ \E c \in Convs : ForwardRead(r, u, m, c)
          \/ UnsendRead(r, u, m)

Step(r) ==
    \/ InitiateFound(r) \/ InitiateNone(r) \/ \E c \in Convs : InitiateCreate(r, c)
    \/ \E c \in Convs : GroupCreate(r, c)
    \/ UpdateUsers(r) \/ UpdateWrite(r) \/ RemoveWrite(r) \/ DeleteWrite(r)
    \/ MemberConv(r) \/ MemberCreate(r)
    \/ SendFind(r) \/ \E m \in Messages : SendCreate(r, m)
    \/ SendLast(r) \/ SendNotify(r) \/ UnsendWrite(r)
    \/ Fail(r)

Next ==
    \/ \E r \in Requests : Step(r) \/ \E u \in Users : Arrive(r, u)
    \/ \E u \in Users : DeleteUser(u)

Spec == Init /\ [][Next]_vars

-----------------------------------------------------------------------------
(* Properties *)

\* createGroupConversation makes one owner, and nobody can remove him: a group
\* has the owner it was created with as long as he has an account.
GroupOwned ==
    \A c \in Convs : conv[c].kind = "group" =>
        {u \in Users : role[c][u] = "OWNER"} = {conv[c].founder} \cap accounts

\* The handlers that are about to post a message of u in c.
Posters(c, u) ==
    {r \in InFlight({"send.create"}) : req[r].conv = c /\ req[r].user = u}

\* sendMessage checks the membership one operation before it creates the
\* message: who was removed from a group posts no more than what overlapped
\* with the removal.  With one handler at a time, that is nothing.
LateBounded ==
    \A c \in Convs, u \in accounts :
        conv[c].kind = "group" /\ u \notin Members(c) =>
            late[c][u] + Cardinality(Posters(c, u)) < Cardinality(Requests)

\* The handlers that hold the content of m and are about to copy it.
Forwarders(m) ==
    {r \in InFlight({"send.find", "send.create"}) : req[r].kind = "forward" /\ req[r].ref = m}

\* Once a message is unsent its content is gone for good, except for the
\* forwards that had read it before.
UnsentBounded ==
    \A m \in Messages : There(m) /\ msg[m].hidden =>
        copies[m] + Cardinality(Forwarders(m)) < Cardinality(Requests)

\* sendMessage creates the message and then makes it the last one: the last
\* message is the newest one, or was being sent while all newer ones were
\* created; or the newer ones have not been recorded yet, or failed to be.
LastIsRecent ==
    \A c \in Convs, m \in Messages :
        (There(m) /\ msg[m].conv = c /\ conv[c].last # None /\ m > conv[c].last) =>
            \/ <<conv[c].last, m>> \in passed
            \/ told[m] # "ok"
=============================================================================
