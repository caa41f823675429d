------------------------------ MODULE RtcCall ------------------------------
(***************************************************************************)
(* The life of voice and video calls: RtcCallGateway (socket events) on    *)
(* top of RtcCallService (rows of Call and CallParticipant).  Node runs    *)
(* many handlers at once; a handler gives way to the others at every       *)
(* await, and no handler opens a transaction.  So a handler is a request r *)
(* that performs one database operation per step and carries between the   *)
(* steps what it has read.                                                 *)
(*                                                                         *)
(* Time stamps are kept as "set or not set"; SDP offers and answers, call  *)
(* type, durations and log lines are left out.                             *)
(***************************************************************************)
EXTENDS Naturals, FiniteSets

CONSTANTS
    Users,          \* authenticated users
    Conversations,  \* conversations, individual or group
    Member,         \* Member[v]: the users of conversation v
    CallIds,        \* bound: the calls created in one behaviour
    Candidates,     \* ICE candidates that clients send
    Requests,       \* bound: handlers in flight at the same time
    Individual,     \* the conversations between two users; the others are groups
    Deletable,      \* bound: the conversations that somebody may delete
    Leavers,        \* bound: the users whose accounts may be deleted
    Watched,        \* bound: the kinds of events that the history records
    MayFail,        \* whether database operations may fail, or the server stop
    None            \* no user, no call, no conversation, no candidate

ASSUME ConstantsAssumption ==
    /\ Member \in [Conversations -> SUBSET Users]
    /\ IsFiniteSet(CallIds)
    /\ IsFiniteSet(Requests)
    /\ Individual \subseteq Conversations
    /\ Deletable \subseteq Conversations
    /\ Leavers \subseteq Users
    /\ Watched \subseteq {"OUTGOING", "RINGING", "ACCEPTED", "DECLINED", "ENDED"}
    /\ MayFail \in BOOLEAN
    /\ None \notin Users \cup Conversations \cup CallIds \cup Candidates

VARIABLES
    accounts,  \* the User rows that exist
    convs,   \* the Conversation rows that exist
    call,    \* call[c]: the Call row with id c
    part,    \* the CallParticipant rows, as pairs <<call, user>>
    joined,  \* the participant rows with joinedAt set
    left,    \* the participant rows with leftAt set
    ice,     \* iceCandidates of the rows, as triples <<call, user, candidate>>
    acked,   \* history: candidates whose save succeeded, same triples
    sent,    \* history: the watched call events emitted to clients
    cut,     \* history: calls whose latest end stopped before it closed all rows
    late,    \* history: rows joined after the latest end had read the rows
    req      \* req[r]: the handler that runs in slot r

rows == <<accounts, convs, call, part, joined, left, ice>>
history == <<acked, sent, cut, late>>
vars == <<accounts, convs, call, part, joined, left, ice, acked, sent, cut, late, req>>

-----------------------------------------------------------------------------
(* Rows and requests *)

\* The statuses that findFirst of initiateCall looks for.
Live == {"INITIATED", "RINGING", "ACTIVE"}

\* The statuses on which endCall returns early.
Terminal == {"ENDED", "DECLINED", "MISSED", "FAILED"}

CallStatus == Live \cup Terminal

CallRow == [status    : CallStatus \cup {"absent", "deleted"},
            conv      : Conversations \cup {None},
            initiator : Users \cup {None},
            started   : BOOLEAN,
            ended     : BOOLEAN]

NoRow(why) == [status |-> why, conv |-> None, initiator |-> None,
               started |-> FALSE, ended |-> FALSE]

\* Where a handler is suspended: the database operation it performs next.
Await == {"initiate.find", "initiate.create", "initiate.join",
          "ring.write",
          "accept.write", "accept.join",
          "decline.write", "decline.leave",
          "end.write", "end.find", "end.loop", "end.notify",
          "ice.write"}

\* Handlers that have no call yet.
Calling == {"initiate.find", "initiate.create"}

RequestRecord ==
    [pc   : Await \cup {"idle"},
     user : Users \cup {None},
     conv : Conversations \cup {None},
     call : CallIds \cup {None},
     todo : SUBSET Users,         \* endCall: participants left to close
     cand : Candidates \cup {None},
     list : SUBSET Candidates]    \* addIceCandidate: the list it read

Request ==
    {q \in RequestRecord :
        q.pc # "idle" =>
            /\ q.user \in Users
            /\ IF q.pc \in Calling THEN q.conv \in Conversations
                                    ELSE q.call \in CallIds
            /\ q.pc = "ice.write" => q.cand \in Candidates}

Idle == [pc |-> "idle", user |-> None, conv |-> None, call |-> None,
         todo |-> {}, cand |-> None, list |-> {}]

Event == [event : Watched,
          call  : CallIds,
          by    : Users]

Stored(c) == call[c].status \in CallStatus
Rows == {c \in CallIds : Stored(c)}
Unused == {c \in CallIds : call[c].status = "absent"}
LiveCalls(v) == {c \in CallIds : call[c].conv = v /\ call[c].status \in Live}

At(r, where) == req[r].pc = where
Goto(r, where) == req' = [req EXCEPT ![r].pc = where]
Finish(r) == req' = [req EXCEPT ![r] = Idle]
Emit(e, c, u) ==
    sent' = sent \cup {[event |-> k, call |-> c, by |-> u] : k \in {e} \cap Watched}

TypeOK ==
    /\ accounts \subseteq Users
    /\ convs \subseteq Conversations
    /\ call \in [CallIds -> CallRow]
    /\ part \subseteq CallIds \X Users
    /\ joined \subseteq part
    /\ left \subseteq part
    /\ ice \subseteq CallIds \X Users \X Candidates
    /\ acked \subseteq CallIds \X Users \X Candidates
    /\ sent \subseteq Event
    /\ cut \subseteq CallIds
    /\ late \subseteq CallIds \X Users
    /\ req \in [Requests -> Request]

Init ==
    /\ accounts = Users
    /\ convs = Conversations
    /\ call = [c \in CallIds |-> NoRow("absent")]
    /\ part = {}
    /\ joined = {}
    /\ left = {}
    /\ ice = {}
    /\ acked = {}
    /\ sent = {}
    /\ cut = {}
    /\ late = {}
    /\ req = [r \in Requests |-> Idle]

-----------------------------------------------------------------------------
(* call:initiate.  The conversation is read and the membership checked; a  *)
(* live call is looked for; the call is created; its initiator joins.      *)

\* Bound: a request starts only if an unused call id is left for it.
IdLeft ==
    Cardinality({r \in Requests : req[r].pc \in Calling})
        < Cardinality(Unused)

InitiateRead(r, u, v) ==
    /\ req[r] = Idle
    /\ IdLeft
    /\ v \in convs
    /\ u \in Member[v] \cap accounts
    /\ req' = [req EXCEPT ![r] = [Idle EXCEPT !.pc = "initiate.find",
                                              !.user = u, !.conv = v]]
    /\ UNCHANGED <<rows, history>>

\* "A call is already active in this conversation"
InitiateBusy(r) ==
    /\ At(r, "initiate.find")
    /\ LiveCalls(req[r].conv) # {}
    /\ Finish(r)
    /\ UNCHANGED <<rows, history>>

\* Mutant: the search for a live call is dropped.
InitiateFreeUnchecked(r) ==
    /\ At(r, "initiate.find")
    /\ Goto(r, "initiate.create")
    /\ UNCHANGED <<rows, history>>

InitiateFree(r) ==
    /\ At(r, "initiate.find")
    /\ LiveCalls(req[r].conv) = {}
    /\ Goto(r, "initiate.create")
    /\ UNCHANGED <<rows, history>>

InitiateCreate(r, c) ==
    /\ At(r, "initiate.create")
    /\ req[r].conv \in convs
    /\ req[r].user \in accounts
    /\ c \in Unused
    /\ call' = [call EXCEPT ![c] =
                   [status |-> "INITIATED", conv |-> req[r].conv,
                    initiator |-> req[r].user, started |-> FALSE, ended |-> FALSE]]
    /\ req' = [req EXCEPT ![r] = [@ EXCEPT !.pc = "initiate.join", !.call = c]]
    /\ UNCHANGED <<accounts, convs, part, joined, left, ice, history>>

\* A participant row needs its call and its user.
HasParents(r) == Stored(req[r].call) /\ req[r].user \in accounts

\* The call is ENDED, and no endCall is still to read who is in it.
Closed(c) ==
    /\ call[c].status = "ENDED"
    /\ \A r \in Requests : req[r].call = c => ~At(r, "end.find")

Join(p) ==
    /\ joined' = joined \cup {p}
    /\ late' = late \cup {q \in {p} : Closed(q[1])}

\* The initiator's row is created, not upserted: it is an error if it exists.
InitiateJoin(r) ==
    LET p == <<req[r].call, req[r].user>> IN
    /\ At(r, "initiate.join")
    /\ HasParents(r)
    /\ p \notin part
    /\ part' = part \cup {p}
    /\ Join(p)
    /\ Emit("OUTGOING", req[r].call, req[r].user)
    /\ Finish(r)
    /\ UNCHANGED <<accounts, convs, call, left, ice, acked, cut>>

-----------------------------------------------------------------------------
(* The handlers that work on an existing call start by reading it, and do  *)
(* not check who the user is, nor that the account is still there.  Clients *)
(* learn the id from INCOMING and OUTGOING, or from the call history, which *)
(* lists a call once it exists.                                            *)

Begin(r, u, c, where) ==
    /\ req[r] = Idle
    /\ Stored(c)
    /\ req' = [req EXCEPT ![r] = [Idle EXCEPT !.pc = where,
                                              !.user = u, !.call = c]]
    /\ UNCHANGED <<rows, history>>

\* One update of the call row that is still there; the handler goes on.
Update(r, from, row, to) ==
    /\ At(r, from)
    /\ Stored(req[r].call)
    /\ call' = [call EXCEPT ![req[r].call] = row]
    /\ Goto(r, to)
    /\ UNCHANGED <<accounts, convs, part, joined, left, ice, acked, sent>>

(* call:ringing *)

\* Mutant: ringCall does not look at the status.
RingReadUnchecked(r, u, c) == Begin(r, u, c, "ring.write")

RingRead(r, u, c) ==
    /\ call[c].status = "INITIATED"
    /\ Begin(r, u, c, "ring.write")

\* A call that rings already, or is past that, is answered from the read.
RingAgain(r, u, c) ==
    /\ req[r] = Idle
    /\ Stored(c)
    /\ call[c].status # "INITIATED"
    /\ Emit("RINGING", c, u)
    /\ UNCHANGED <<rows, acked, cut, late, req>>

RingWrite(r) ==
    /\ At(r, "ring.write")
    /\ Stored(req[r].call)
    /\ call' = [call EXCEPT ![req[r].call].status = "RINGING"]
    /\ Emit("RINGING", req[r].call, req[r].user)
    /\ Finish(r)
    /\ UNCHANGED <<accounts, convs, part, joined, left, ice, acked, cut, late>>

(* call:accept *)

\* Mutant: the participant is written and the call is left as it is.
AcceptReadJoinOnly(r, u, c) == Begin(r, u, c, "accept.join")

AcceptRead(r, u, c) == Begin(r, u, c, "accept.write")

AcceptWrite(r) ==
    /\ Update(r, "accept.write",
              [call[req[r].call] EXCEPT !.status = "ACTIVE", !.started = TRUE],
              "accept.join")
    /\ UNCHANGED <<cut, late>>

\* Mutant: an update in place of the upsert, with no row to update.
AcceptJoinWithoutRow(r) ==
    /\ At(r, "accept.join")
    /\ HasParents(r)
    /\ Join(<<req[r].call, req[r].user>>)
    /\ Emit("ACCEPTED", req[r].call, req[r].user)
    /\ Finish(r)
    /\ UNCHANGED <<accounts, convs, call, part, left, ice, acked, cut>>

\* The upsert, then ACCEPTED; the replay of stored candidates only reads.
AcceptJoin(r) ==
    LET p == <<req[r].call, req[r].user>> IN
    /\ At(r, "accept.join")
    /\ HasParents(r)
    /\ part' = part \cup {p}
    /\ Join(p)
    /\ Emit("ACCEPTED", req[r].call, req[r].user)
    /\ Finish(r)
    /\ UNCHANGED <<accounts, convs, call, left, ice, acked, cut>>

(* call:decline *)

DeclineRead(r, u, c) == Begin(r, u, c, "decline.write")

\* Mutant: the end is not stamped.
DeclineWriteWithoutEnd(r) ==
    /\ Update(r, "decline.write",
              [call[req[r].call] EXCEPT !.status = "DECLINED"], "decline.leave")
    /\ UNCHANGED <<cut, late>>

DeclineWrite(r) ==
    /\ Update(r, "decline.write",
              [call[req[r].call] EXCEPT !.status = "DECLINED", !.ended = TRUE],
              "decline.leave")
    /\ UNCHANGED <<cut, late>>

DeclineLeave(r) ==
    LET p == <<req[r].call, req[r].user>> IN
    /\ At(r, "decline.leave")
    /\ HasParents(r)
    /\ part' = part \cup {p}
    /\ left' = left \cup {p}
    /\ Emit("DECLINED", req[r].call, req[r].user)
    /\ Finish(r)
    /\ UNCHANGED <<accounts, convs, call, joined, ice, acked, cut, late>>

-----------------------------------------------------------------------------
(* call:end *)

EndRead(r, u, c) ==
    /\ call[c].status \in Live
    /\ Begin(r, u, c, "end.write")

\* A call that is over is returned as it is; the gateway still announces it.
EndReadOver(r, u, c) ==
    /\ call[c].status \in Terminal
    /\ Begin(r, u, c, "end.notify")

\* A new end reads every row that is open again.
EndWrite(r) ==
    /\ Update(r, "end.write",
              [call[req[r].call] EXCEPT !.status = "ENDED", !.ended = TRUE],
              "end.find")
    /\ cut' = cut \ {req[r].call}
    /\ late' = {p \in late : p[1] # req[r].call}

\* The loop over the participants that are left to close.
Close(r, todo) ==
    req' = [req EXCEPT ![r] =
               [@ EXCEPT !.pc = IF todo = {} THEN "end.notify" ELSE "end.loop",
                         !.todo = todo]]

\* Mutant: the user who ends the call is left out of the loop.
EndFindOthers(r) ==
    /\ At(r, "end.find")
    /\ Close(r, {u \in Users \ {req[r].user} : <<req[r].call, u>> \in part \ left})
    /\ UNCHANGED <<rows, history>>

\* findMany of the participants who have not left.
EndFind(r) ==
    /\ At(r, "end.find")
    /\ Close(r, {u \in Users : <<req[r].call, u>> \in part \ left})
    /\ UNCHANGED <<rows, history>>

\* Mutant: the loop returns after the first participant.
EndLoopOnce(r, u) ==
    /\ At(r, "end.loop")
    /\ u \in req[r].todo
    /\ left' = left \cup {<<req[r].call, u>>}
    /\ Close(r, {})
    /\ UNCHANGED <<accounts, convs, call, part, joined, ice, history>>

\* One turn of the loop; findMany orders nothing, so u is any of them.
EndLoop(r, u) ==
    LET p == <<req[r].call, u>> IN
    /\ At(r, "end.loop")
    /\ u \in req[r].todo
    /\ p \in part
    /\ left' = left \cup {p}
    /\ Close(r, req[r].todo \ {u})
    /\ UNCHANGED <<accounts, convs, call, part, joined, ice, history>>

\* The gateway reads the call again; ENDED goes out only if it is still there.
EndNotify(r) ==
    /\ At(r, "end.notify")
    /\ Finish(r)
    /\ IF Stored(req[r].call)
       THEN Emit("ENDED", req[r].call, req[r].user)
       ELSE UNCHANGED sent
    /\ UNCHANGED <<rows, acked, cut, late>>

-----------------------------------------------------------------------------
(* webrtc:ice-candidate.  The stored list is read, extended in memory and  *)
(* written back.  Only the participant row is read, so a deleted call is    *)
(* noticed by the write.                                                   *)

StoredList(c, u) == {k \in Candidates : <<c, u, k>> \in ice}

IceRead(r, u, c, k) ==
    /\ req[r] = Idle
    /\ call[c].status # "absent"
    /\ req' = [req EXCEPT ![r] = [Idle EXCEPT !.pc = "ice.write", !.user = u,
                                    !.call = c, !.cand = k,
                                    !.list = StoredList(c, u)]]
    /\ UNCHANGED <<rows, history>>

\* Mutant: the stored list is replaced by the new candidate.
IceOverwrite(r) ==
    LET c == req[r].call
        u == req[r].user
    IN
    /\ At(r, "ice.write")
    /\ HasParents(r)
    /\ part' = part \cup {<<c, u>>}
    /\ ice' = {t \in ice : ~(t[1] = c /\ t[2] = u)} \cup {<<c, u, req[r].cand>>}
    /\ acked' = acked \cup {<<c, u, req[r].cand>>}
    /\ Finish(r)
    /\ UNCHANGED <<accounts, convs, call, joined, left, sent, cut, late>>

IceWrite(r) ==
    LET c == req[r].call
        u == req[r].user
        others == {t \in ice : ~(t[1] = c /\ t[2] = u)}
    IN
    /\ At(r, "ice.write")
    /\ HasParents(r)
    /\ part' = part \cup {<<c, u>>}
    /\ ice' = others \cup {<<c, u, k>> : k \in req[r].list \cup {req[r].cand}}
    /\ acked' = acked \cup {<<c, u, req[r].cand>>}
    /\ Finish(r)
    /\ UNCHANGED <<accounts, convs, call, joined, left, sent, cut, late>>

-----------------------------------------------------------------------------
(* Errors, and the deletion of conversations and accounts under the calls *)

\* A handler that ends between the end of the call and the last participant
\* leaves rows open that no later endCall looks at, as the call is over.
Abandon(r) ==
    /\ Finish(r)
    /\ cut' = IF req[r].pc \in {"end.find", "end.loop"} THEN cut \cup {req[r].call} ELSE cut
    /\ UNCHANGED <<rows, acked, sent, late>>

\* A row that the next write needs is gone (or, for initiate.join, there
\* already): Prisma throws and the gateway's catch ends the handler.
Missing(r) ==
    /\ \/ /\ At(r, "initiate.create")
          /\ req[r].conv \notin convs \/ req[r].user \notin accounts
       \/ At(r, "initiate.join") /\ <<req[r].call, req[r].user>> \in part
       \/ /\ req[r].pc \in {"initiate.join", "accept.join", "decline.leave", "ice.write"}
          /\ ~HasParents(r)
       \/ /\ req[r].pc \in {"ring.write", "accept.write", "decline.write", "end.write"}
          /\ ~Stored(req[r].call)
       \/ /\ At(r, "end.loop")
          /\ \E u \in req[r].todo : <<req[r].call, u>> \notin part
    /\ Abandon(r)

\* Any pending operation may fail, and a stopped server loses its handlers.
Fail(r) ==
    /\ MayFail
    /\ ~At(r, "idle")
    /\ Abandon(r)

\* The foreign keys: a call goes with its conversation and its initiator, a
\* participant row with its call and its user.
Cascade(lost, gone) ==
    /\ accounts' = accounts \ gone
    /\ call' = [c \in CallIds |-> IF c \in lost THEN NoRow("deleted") ELSE call[c]]
    /\ part' = {p \in part : p[1] \notin lost /\ p[2] \notin gone}
    /\ joined' = {p \in joined : p[1] \notin lost /\ p[2] \notin gone}
    /\ left' = {p \in left : p[1] \notin lost /\ p[2] \notin gone}
    /\ ice' = {t \in ice : t[1] \notin lost /\ t[2] \notin gone}
    /\ UNCHANGED <<history, req>>

DeleteConversation(v) ==
    /\ v \in convs \cap Deletable
    /\ convs' = convs \ {v}
    /\ Cascade({c \in Rows : call[c].conv = v}, {})

\* deleteUser: the individual conversations of the account go with it.  Its
\* sockets stay connected, and its handlers in flight go on.
DeleteUser(u) ==
    LET his == {v \in convs \cap Individual : u \in Member[v]} IN
    /\ u \in accounts \cap Leavers
    /\ convs' = convs \ his
    /\ Cascade({c \in Rows : call[c].conv \in his \/ call[c].initiator = u}, {u})

-----------------------------------------------------------------------------

\* A client sends an event and the handler runs up to its first read.
Arrive(r) ==
    \E u \in Users :
        \/ \E v \in Conversations : InitiateRead(r, u, v)
        \/ \E c \in CallIds :
              \/ RingRead(r, u, c)
              \/ RingAgain(r, u, c)
              \/ AcceptRead(r, u, c)
              \/ DeclineRead(r, u, c)
              \/ EndRead(r, u, c)
              \/ EndReadOver(r, u, c)
              \/ \E k \in Candidates : IceRead(r, u, c, k)

\* A handler in flight performs its next operation.
Step(r) ==
    \/ InitiateBusy(r)
    \/ InitiateFree(r)
    \/ \E c \in CallIds : InitiateCreate(r, c)
    \/ InitiateJoin(r)
    \/ RingWrite(r)
    \/ AcceptWrite(r)
    \/ AcceptJoin(r)
    \/ DeclineWrite(r)
    \/ DeclineLeave(r)
    \/ EndWrite(r)
    \/ EndFind(r)
    \/ \E u \in Users : EndLoop(r, u)
    \/ EndNotify(r)
    \/ IceWrite(r)
    \/ Missing(r)

Next ==
    \/ \E r \in Requests : Arrive(r) \/ Step(r) \/ Fail(r)
    \/ \E v \in Conversations : DeleteConversation(v)
    \/ \E u \in Users : DeleteUser(u)

Spec == Init /\ [][Next]_vars

\* The event loop runs every handler it has started; clients owe nothing.
FairSpec == Spec /\ \A r \in Requests : WF_vars(Step(r))
-----------------------------------------------------------------------------
(* Properties that hold of any number of handlers in flight *)

\* The calls of v that wait for an answer, or that a delayed ring write is
\* about to put back into that state.
Ringers(c) == {r \in Requests : At(r, "ring.write") /\ req[r].call = c}
Pending(v) == {c \in CallIds : /\ call[c].conv = v
                               /\ ~call[c].started
                               /\ \/ call[c].status \in {"INITIATED", "RINGING"}
                                  \/ Ringers(c) # {}}

\* The handlers that have found the line of v free and are about to use it.
Creators(v) == {r \in Requests : At(r, "initiate.create") /\ req[r].conv = v}

\* initiateCall looks for a live call and creates its own in two operations,
\* and ringCall writes a status it read before: so several unanswered calls
\* may pile up in one conversation, but never more than there are handlers in
\* flight.  With one handler at a time there is at most one.
PendingBounded ==
    \A v \in Conversations :
        Cardinality(Pending(v)) + Cardinality(Creators(v)) <= Cardinality(Requests)

\* acceptCall marks the call as started before it records who joined: a user
\* other than the initiator is on record as having joined only a call that has
\* a start, whatever fails in between.
JoinedAfterStart ==
    \A p \in joined : p[2] # call[p[1]].initiator => call[p[1]].started

\* What clients are told has been stored, and stays so while the call does:
\* OUTGOING comes after the initiator joined, ACCEPTED after the call started
\* and the callee joined, DECLINED after the end was stamped and the callee
\* left, ENDED after the end was stamped.  Who joined or left is forgotten with
\* the account of the user, and only with it.
ToldAfterStored ==
    \A m \in sent : Stored(m.call) =>
        /\ m.event = "ACCEPTED" => call[m.call].started
        /\ m.event \in {"DECLINED", "ENDED"} => call[m.call].ended
        /\ m.by \in accounts =>
              /\ m.event \in {"OUTGOING", "ACCEPTED"} => <<m.call, m.by>> \in joined
              /\ m.event = "DECLINED" => <<m.call, m.by>> \in left

\* An endCall that is about to close the row of p, or to find it open.
Closing(p) ==
    \E r \in Requests :
        /\ req[r].call = p[1]
        /\ At(r, "end.find") \/ (At(r, "end.loop") /\ p[2] \in req[r].todo)

\* Everybody who joined an ENDED call has left it, or is about to: endCall
\* closes the rows one by one, among other handlers and deletions.  Two things
\* leave a row open for good: a handler that stops on the way, be it because the
\* row of another participant was deleted with the account, and a join that is
\* written after the participants were read.
EndedCallIsEmpty ==
    \A p \in joined : call[p[1]].status = "ENDED" =>
        p \in left \/ Closing(p) \/ p \in late \/ p[1] \in cut

\* An endCall that has written ENDED goes on to close the row of everybody who
\* is in the call, unless it is stopped on the way or the row is deleted.
EndClosesOpenRows ==
    \A r \in Requests, c \in CallIds, u \in Users :
        (/\ At(r, "end.find") /\ req[r].call = c
         /\ <<c, u>> \in part \ left)
            ~> (<<c, u>> \in left \/ <<c, u>> \notin part \/ c \in cut)

-----------------------------------------------------------------------------
(* Properties that hold when handlers run one at a time *)

\* The life cycle that the handlers implement between them: RINGING follows
\* INITIATED only, and only a live call is ENDED; but any call, even one that
\* is over, can be accepted or declined.
StatusMachine ==
    [][\A c \in CallIds :
          LET from == call[c].status
              to   == call'[c].status
          IN  \/ from = to
              \/ from = "absent" /\ to = "INITIATED"
              \/ from = "INITIATED" /\ to = "RINGING"
              \/ from \in Live /\ to = "ENDED"
              \/ from \in CallStatus /\ to \in {"ACTIVE", "DECLINED", "deleted"}
      ]_vars

-----------------------------------------------------------------------------
(* Properties that comments and documents state *)

\* initiateCall, "Check if there is an active call in this conversation": a
\* conversation has at most one live call.
OneLiveCall == \A v \in Conversations : Cardinality(LiveCalls(v)) <= 1

\* The schema, "endedAt: when call ended": a live call has no end.
LiveCallHasNotEnded ==
    \A c \in CallIds : call[c].status \in Live => ~call[c].ended

\* The integration guide, "Server saves these candidates to the database": a
\* candidate that was saved stays saved while its call and its user do.
SavedCandidatesStay ==
    \A t \in acked : (Stored(t[1]) /\ t[2] \in accounts) => t \in ice
=============================================================================
