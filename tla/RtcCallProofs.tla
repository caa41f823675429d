--------------------------- MODULE RtcCallProofs ---------------------------
(***************************************************************************)
(* What holds of RtcCall for every set of users, conversations, calls and  *)
(* handlers in flight, with failures and deletions.                        *)
(***************************************************************************)
EXTENDS RtcCall, FiniteSetTheorems, TLAPS

-----------------------------------------------------------------------------
(* The inductive invariant.  TypeOK does not say what the handlers in      *)
(* flight know of the rows they are about to write.                        *)

\* A participant row belongs to a call that exists (the foreign key).
RowsHaveCalls == \A p \in part : Stored(p[1])

\* A handler never holds the id of a call that is still to be created.
RequestsNameCalls ==
    \A r \in Requests : req[r].call # None => call[req[r].call].status # "absent"

\* The handler that creates a call acts for its initiator.
InitiatorJoins ==
    \A r \in Requests :
        (At(r, "initiate.join") /\ Stored(req[r].call))
            => call[req[r].call].initiator = req[r].user

\* acceptCall comes to the participant row of a call only after starting it.
AcceptStarted ==
    \A r \in Requests :
        (At(r, "accept.join") /\ Stored(req[r].call)) => call[req[r].call].started

JoinInv ==
    /\ TypeOK
    /\ RowsHaveCalls
    /\ RequestsNameCalls
    /\ InitiatorJoins
    /\ AcceptStarted
    /\ JoinedAfterStart

-----------------------------------------------------------------------------
(* Lemmas about rows and requests *)

\* A missing or deleted row is of the type of rows.
LEMMA NoRowType == ASSUME NEW why \in {"absent", "deleted"}
                   PROVE  NoRow(why) \in CallRow
  BY DEF NoRow, CallRow

\* A free slot is of the type of requests.
LEMMA IdleType == Idle \in Request
  BY DEF Idle, Request, RequestRecord

\* A handler that goes on to its next operation with the same values, or
\* with a call, keeps the type of requests.
LEMMA RequestGoesOn ==
  ASSUME NEW q \in Request, q.pc # "idle", q.pc \notin Calling,
         NEW where \in Await \ {"ice.write"}, where \notin Calling
  PROVE  [q EXCEPT !.pc = where] \in Request
  BY DEF Request, RequestRecord, Calling

\* Init satisfies the invariant: there are no rows and nothing is in flight.
LEMMA InitJoinInv == Init => JoinInv
  <1> SUFFICES ASSUME Init PROVE JoinInv
    OBVIOUS
  <1>1. TypeOK
    BY NoRowType, IdleType DEF Init, TypeOK
  <1>2. RowsHaveCalls /\ JoinedAfterStart
    BY DEF Init, RowsHaveCalls, JoinedAfterStart
  <1>3. RequestsNameCalls /\ InitiatorJoins /\ AcceptStarted
    BY DEF Init, Idle, RequestsNameCalls, InitiatorJoins,
           AcceptStarted, At
  <1> QED
    BY <1>1, <1>2, <1>3 DEF JoinInv

\* Every step is one of a handler, or one of the two deletions, which take
\* some calls and perhaps a user.
LEMMA EveryStep ==
  ASSUME [Next]_vars
  PROVE  \/ \E r \in Requests : Arrive(r) \/ Step(r) \/ Fail(r)
         \/ \E lost \in SUBSET Rows, gone \in SUBSET Users :
               Cascade(lost, gone) /\ convs' \subseteq convs
         \/ UNCHANGED vars
  <1>1. ASSUME NEW v \in Conversations, DeleteConversation(v)
        PROVE  \E lost \in SUBSET Rows, gone \in SUBSET Users :
                  Cascade(lost, gone) /\ convs' \subseteq convs
    <2> DEFINE his == {c \in Rows : call[c].conv = v}
    <2>1. Cascade(his, {}) /\ his \in SUBSET Rows /\ convs' \subseteq convs
      BY <1>1 DEF DeleteConversation
    <2> HIDE DEF his
    <2> QED
      BY <2>1
  <1>2. ASSUME NEW u \in Users, DeleteUser(u)
        PROVE  \E lost \in SUBSET Rows, gone \in SUBSET Users :
                  Cascade(lost, gone) /\ convs' \subseteq convs
    <2> DEFINE talks == {v \in convs \cap Individual : u \in Member[v]}
               his == {c \in Rows : call[c].conv \in talks \/ call[c].initiator = u}
    <2>1. /\ Cascade(his, {u}) /\ his \in SUBSET Rows /\ {u} \in SUBSET Users
          /\ convs' \subseteq convs
      BY <1>2 DEF DeleteUser
    <2> HIDE DEF his
    <2> QED
      BY <2>1
  <1> QED
    BY <1>1, <1>2 DEF Next

\* No handler of this module deletes an account.
LEMMA HandlersKeepAccounts ==
  ASSUME NEW r \in Requests, Arrive(r) \/ Step(r) \/ Fail(r)
  PROVE  UNCHANGED accounts
  <1>1. CASE Arrive(r) \/ Fail(r)
    BY <1>1 DEF Arrive, InitiateRead, RingRead, RingAgain, AcceptRead, DeclineRead,
                EndRead, EndReadOver, Begin, IceRead, Fail, Abandon, rows
  <1>2. CASE Step(r)
    BY <1>2 DEF Step, InitiateBusy, InitiateFree, InitiateCreate, InitiateJoin, RingWrite,
                AcceptWrite, AcceptJoin, DeclineWrite, DeclineLeave, EndWrite, EndFind,
                EndLoop, EndNotify, IceWrite, Missing, Abandon, Update, rows
  <1> QED
    BY <1>1, <1>2

\* Calls that are deleted were there.
LEMMA RowsAreCalls == ASSUME NEW c \in Rows PROVE c \in CallIds /\ Stored(c)
  BY DEF Rows

-----------------------------------------------------------------------------
(* Type correctness *)

\* Replacing one request by another keeps the type of req.
LEMMA ReqType ==
  ASSUME TypeOK, NEW r \in Requests, NEW q \in Request,
         req' = [req EXCEPT ![r] = q]
  PROVE  req' \in [Requests -> Request]
  BY DEF TypeOK

\* So does a turn of the loop that closes participants.
LEMMA CloseType ==
  ASSUME TypeOK, NEW r \in Requests, At(r, "end.find") \/ At(r, "end.loop"),
         NEW todo \in SUBSET Users, Close(r, todo)
  PROVE  req' \in [Requests -> Request]
  <1> DEFINE where == IF todo = {} THEN "end.notify" ELSE "end.loop"
             next == [req[r] EXCEPT !.pc = where, !.todo = todo]
  <1>1. where \in {"end.notify", "end.loop"}
    OBVIOUS
  <1>2. /\ req[r] \in RequestRecord
        /\ req[r].user \in Users
        /\ req[r].call \in CallIds
    BY DEF At, TypeOK, Request, Calling
  <1>3. next \in Request
    <2> HIDE DEF where
    <2> QED
      BY <1>1, <1>2 DEF Request, RequestRecord, Await, Calling
  <1>4. req' = [req EXCEPT ![r] = next]
    BY DEF Close
  <1> QED
    BY <1>3, <1>4, ReqType

\* Every operation keeps the rows and the requests within their types.
LEMMA TypeStep == TypeOK /\ [Next]_vars => TypeOK'
  <1> SUFFICES ASSUME TypeOK, [Next]_vars PROVE TypeOK'
    OBVIOUS
  <1> USE IdleType
  <1>1. ASSUME NEW r \in Requests, NEW u \in Users, NEW v \in Conversations,
               InitiateRead(r, u, v)
        PROVE  TypeOK'
    BY <1>1 DEF InitiateRead, TypeOK, rows, history, Request, RequestRecord,
                Await, Idle, Calling
  <1>2. ASSUME NEW r \in Requests, InitiateBusy(r) PROVE TypeOK'
    BY <1>2 DEF InitiateBusy, TypeOK, rows, history, Finish
  <1>3. ASSUME NEW r \in Requests, InitiateFree(r) PROVE TypeOK'
    BY <1>3 DEF InitiateFree, TypeOK, rows, history, Goto, At, Request,
                RequestRecord, Await, Calling
  <1>4. ASSUME NEW r \in Requests, NEW c \in CallIds, InitiateCreate(r, c)
        PROVE  TypeOK'
    <2> DEFINE new == [status |-> "INITIATED", conv |-> req[r].conv,
                       initiator |-> req[r].user, started |-> FALSE, ended |-> FALSE]
               next == [req[r] EXCEPT !.pc = "initiate.join", !.call = c]
    <2>1. /\ req[r] \in RequestRecord
          /\ req[r].user \in Users
          /\ req[r].conv \in Conversations
      BY <1>4 DEF InitiateCreate, At, TypeOK, Request, Calling
    <2>2. new \in CallRow
      BY <2>1 DEF CallRow, CallStatus, Live
    <2>3. call' \in [CallIds -> CallRow]
      BY <1>4, <2>2 DEF InitiateCreate, TypeOK
    <2>4. next \in Request
      BY <2>1 DEF Request, RequestRecord, Await, Calling
    <2>5. req' \in [Requests -> Request]
      BY <1>4, <2>4, ReqType DEF InitiateCreate
    <2> QED
      BY <1>4, <2>3, <2>5 DEF InitiateCreate, TypeOK, history
  <1>5. ASSUME NEW r \in Requests, InitiateJoin(r) PROVE TypeOK'
    <2>1. req[r].call \in CallIds /\ req[r].user \in Users
      BY <1>5 DEF InitiateJoin, At, TypeOK, Request, Calling
    <2> QED
      BY <1>5, <2>1 DEF InitiateJoin, TypeOK, Finish, Emit, Event, Join
  <1>6. ASSUME NEW r \in Requests, NEW u \in Users, NEW c \in CallIds,
               NEW where \in Await, where \notin Calling, where # "ice.write",
               Begin(r, u, c, where)
        PROVE  TypeOK'
    <2>1. [Idle EXCEPT !.pc = where, !.user = u, !.call = c] \in Request
      BY <1>6 DEF Idle, Request, RequestRecord
    <2> QED
      BY <1>6, <2>1, ReqType DEF Begin, TypeOK, rows, history
  <1>7. ASSUME NEW r \in Requests, NEW u \in Users, NEW c \in CallIds,
               RingAgain(r, u, c)
        PROVE  TypeOK'
    BY <1>7 DEF RingAgain, TypeOK, rows, Emit, Event
  <1>8. ASSUME NEW r \in Requests, RingWrite(r) PROVE TypeOK'
    <2>1. req[r].call \in CallIds /\ req[r].user \in Users
      BY <1>8 DEF RingWrite, At, TypeOK, Request, Calling
    <2>2. call' \in [CallIds -> CallRow]
      BY <1>8, <2>1 DEF RingWrite, TypeOK, CallRow, CallStatus, Live
    <2> QED
      BY <1>8, <2>1, <2>2 DEF RingWrite, TypeOK, Finish, Emit, Event
  <1>9. ASSUME NEW r \in Requests, NEW from \in Await, NEW to \in Await,
               from \notin Calling, to \notin Calling, to # "ice.write",
               NEW row \in CallRow, Update(r, from, row, to),
               cut' \subseteq cut, late' \subseteq late
        PROVE  TypeOK'
    <2>1. req[r].call \in CallIds /\ req[r] \in Request /\ from # "idle"
      BY <1>9 DEF Update, At, TypeOK, Request, Await
    <2>2. call' \in [CallIds -> CallRow]
      BY <1>9, <2>1 DEF Update, TypeOK
    <2>3. [req[r] EXCEPT !.pc = to] \in Request
      BY <1>9, <2>1, RequestGoesOn DEF Update, At
    <2> QED
      BY <1>9, <2>2, <2>3, ReqType DEF Update, Goto, TypeOK, history
  <1>10. ASSUME NEW r \in Requests, AcceptWrite(r) \/ DeclineWrite(r) \/ EndWrite(r)
         PROVE  TypeOK'
    <2> DEFINE old == call[req[r].call]
    <2>1. old \in CallRow
      BY <1>10 DEF AcceptWrite, DeclineWrite, EndWrite, Update, At, TypeOK,
                   Request, Calling
    <2>2. /\ [old EXCEPT !.status = "ACTIVE", !.started = TRUE] \in CallRow
          /\ [old EXCEPT !.status = "DECLINED", !.ended = TRUE] \in CallRow
          /\ [old EXCEPT !.status = "ENDED", !.ended = TRUE] \in CallRow
      BY <2>1 DEF CallRow, CallStatus, Live, Terminal
    <2> QED
      BY <1>10, <2>2, <1>9 DEF AcceptWrite, DeclineWrite, EndWrite, Await, Calling
  <1>11. ASSUME NEW r \in Requests, AcceptJoin(r) PROVE TypeOK'
    <2>1. req[r].call \in CallIds /\ req[r].user \in Users
      BY <1>11 DEF AcceptJoin, At, TypeOK, Request, Calling
    <2> QED
      BY <1>11, <2>1 DEF AcceptJoin, TypeOK, Finish, Emit, Event, Join
  <1>12. ASSUME NEW r \in Requests, DeclineLeave(r) PROVE TypeOK'
    <2>1. req[r].call \in CallIds /\ req[r].user \in Users
      BY <1>12 DEF DeclineLeave, At, TypeOK, Request, Calling
    <2> QED
      BY <1>12, <2>1 DEF DeclineLeave, TypeOK, Finish, Emit, Event
  <1>13. ASSUME NEW r \in Requests, EndFind(r) PROVE TypeOK'
    <2>1. At(r, "end.find")
      BY <1>13 DEF EndFind
    <2> QED
      BY <1>13, <2>1, CloseType DEF EndFind, TypeOK, rows, history
  <1>14. ASSUME NEW r \in Requests, NEW u \in Users, EndLoop(r, u) PROVE TypeOK'
    <2>1. At(r, "end.loop") /\ req[r].todo \ {u} \in SUBSET Users
      BY <1>14 DEF EndLoop, TypeOK, Request, RequestRecord
    <2> QED
      BY <1>14, <2>1, CloseType DEF EndLoop, TypeOK, history
  <1>15. ASSUME NEW r \in Requests, EndNotify(r) PROVE TypeOK'
    <2>1. req[r].call \in CallIds /\ req[r].user \in Users
      BY <1>15 DEF EndNotify, At, TypeOK, Request, Calling
    <2> QED
      BY <1>15, <2>1 DEF EndNotify, TypeOK, rows, Finish, Emit, Event
  <1>16. ASSUME NEW r \in Requests, NEW u \in Users, NEW c \in CallIds,
                NEW k \in Candidates, IceRead(r, u, c, k)
         PROVE  TypeOK'
    <2> DEFINE next == [Idle EXCEPT !.pc = "ice.write", !.user = u, !.call = c,
                          !.cand = k, !.list = StoredList(c, u)]
    <2>1. next \in Request
      BY DEF Idle, Request, RequestRecord, Await, Calling, StoredList
    <2> QED
      BY <1>16, <2>1, ReqType DEF IceRead, TypeOK, rows, history
  <1>17. ASSUME NEW r \in Requests, IceWrite(r) PROVE TypeOK'
    <2>1. /\ req[r].call \in CallIds /\ req[r].user \in Users
          /\ req[r].cand \in Candidates /\ req[r].list \subseteq Candidates
      BY <1>17 DEF IceWrite, At, TypeOK, Request, RequestRecord, Calling
    <2>2. ice' \subseteq CallIds \X Users \X Candidates
      BY <1>17, <2>1 DEF IceWrite, TypeOK
    <2>3. acked' \subseteq CallIds \X Users \X Candidates
      BY <1>17, <2>1 DEF IceWrite, TypeOK
    <2> QED
      BY <1>17, <2>1, <2>2, <2>3 DEF IceWrite, TypeOK, Finish
  <1>18. ASSUME NEW r \in Requests, Missing(r) \/ Fail(r) PROVE TypeOK'
    <2>1. req[r].pc \in {"end.find", "end.loop"} => req[r].call \in CallIds
      BY DEF TypeOK, Request, Calling
    <2> QED
      BY <1>18, <2>1 DEF Missing, Fail, TypeOK, rows, Finish, Abandon
  <1>19. ASSUME NEW lost \in SUBSET Rows, NEW gone \in SUBSET Users,
                Cascade(lost, gone), convs' \subseteq convs
         PROVE  TypeOK'
    <2>1. call' \in [CallIds -> CallRow]
      BY <1>19, NoRowType DEF Cascade, TypeOK
    <2> QED
      BY <1>19, <2>1 DEF Cascade, TypeOK, history
  <1>20. CASE UNCHANGED vars
    BY <1>20 DEF vars, TypeOK
  <1>21. ASSUME NEW r \in Requests, Arrive(r) PROVE TypeOK'
    BY <1>21, <1>1, <1>6, <1>7, <1>16
       DEF Arrive, RingRead, AcceptRead, DeclineRead, EndRead, EndReadOver,
           Await, Calling
  <1>22. ASSUME NEW r \in Requests, Step(r) PROVE TypeOK'
    BY <1>22, <1>2, <1>3, <1>4, <1>5, <1>8, <1>10, <1>11, <1>12, <1>13, <1>14,
       <1>15, <1>17, <1>18 DEF Step
  <1> QED
    BY <1>18, <1>19, <1>20, <1>21, <1>22, EveryStep

\* Rows and requests are well formed in every reachable state, whichever
\* handlers interleave, fail, or find their call deleted.
THEOREM TypeCorrect == Spec => []TypeOK
  <1>1. Init => TypeOK
    BY InitJoinInv DEF JoinInv
  <1> QED
    BY <1>1, TypeStep, PTL DEF Spec

-----------------------------------------------------------------------------
(* Who has joined a call that never started *)

\* A step that leaves calls, participants and joins alone, and sends no
\* handler to the operations the invariant speaks of, keeps the invariant.
LEMMA JoinFrame ==
  ASSUME JoinInv, TypeOK', NEW r \in Requests, NEW q \in Request,
         UNCHANGED <<call, part, joined>>,
         req' = [req EXCEPT ![r] = q],
         q.pc \notin {"initiate.join", "accept.join"},
         q.call # None => call[q.call].status # "absent"
  PROVE  JoinInv'
  BY DEF JoinInv, RowsHaveCalls, RequestsNameCalls, InitiatorJoins,
         AcceptStarted, JoinedAfterStart, Stored, At, TypeOK

\* An update of a call row that keeps the initiator and forgets no start keeps
\* the invariant.
LEMMA JoinUpdate ==
  ASSUME JoinInv, TypeOK', NEW r \in Requests, NEW q \in Request,
         NEW c \in CallIds, Stored(c),
         NEW row \in CallRow,
         row.status \in CallStatus,
         row.initiator = call[c].initiator,
         call[c].started => row.started,
         call' = [call EXCEPT ![c] = row],
         req' = [req EXCEPT ![r] = q],
         q.call # None => q.call = c,
         q.pc # "initiate.join",
         q.pc = "accept.join" => row.started,
         UNCHANGED <<part, joined>>
  PROVE  JoinInv'
  <1>0. TypeOK
    BY DEF JoinInv
  <1>1. \A d \in CallIds : call'[d] = IF d = c THEN row ELSE call[d]
    BY <1>0 DEF TypeOK
  <1>2. \A s \in Requests : req'[s] = IF s = r THEN q ELSE req[s]
    BY <1>0 DEF TypeOK
  <1>3. \A d \in CallIds : Stored(d)' <=> Stored(d)
    BY <1>1 DEF Stored
  <1>4. \A p \in part : p[1] \in CallIds
    BY <1>0 DEF TypeOK
  <1>5. RowsHaveCalls' /\ JoinedAfterStart'
    BY <1>0, <1>1, <1>3, <1>4 DEF JoinInv, RowsHaveCalls, JoinedAfterStart, TypeOK
  <1>6. \A s \in Requests : req[s].call # None => req[s].call \in CallIds
    BY <1>0 DEF TypeOK, Request, RequestRecord
  <1>7. "absent" \notin CallStatus
    BY DEF CallStatus, Live, Terminal
  <1>8. RequestsNameCalls'
    BY <1>1, <1>2, <1>6, <1>7 DEF JoinInv, RequestsNameCalls
  <1>9. \A s \in Requests :
           At(s, "initiate.join") \/ At(s, "accept.join") => req[s].call \in CallIds
    BY <1>0 DEF At, TypeOK, Request, Calling
  <1>10. q.pc = "accept.join" => q.call = c
    BY ConstantsAssumption DEF Request, RequestRecord, Calling
  <1>11. InitiatorJoins' /\ AcceptStarted'
    BY <1>1, <1>2, <1>3, <1>9, <1>10
       DEF JoinInv, InitiatorJoins, AcceptStarted, At
  <1> QED
    BY <1>5, <1>8, <1>11 DEF JoinInv

\* Every operation keeps the invariant.
LEMMA JoinStep == JoinInv /\ TypeOK' /\ [Next]_vars => JoinInv'
  <1> SUFFICES ASSUME JoinInv, TypeOK', [Next]_vars PROVE JoinInv'
    OBVIOUS
  <1> USE IdleType
  <1>0. TypeOK
    BY DEF JoinInv
  <1>1. ASSUME NEW r \in Requests, Finish(r), UNCHANGED <<call, part, joined>>
        PROVE  JoinInv'
    BY <1>1, JoinFrame DEF Finish, Idle
  <1>2. ASSUME NEW r \in Requests, NEW u \in Users, NEW v \in Conversations,
               InitiateRead(r, u, v)
        PROVE  JoinInv'
    <2> DEFINE q == [Idle EXCEPT !.pc = "initiate.find", !.user = u, !.conv = v]
    <2>1. q \in Request
      BY DEF Idle, Request, RequestRecord, Await, Calling
    <2> QED
      BY <1>2, <2>1, JoinFrame DEF InitiateRead, Idle, rows
  <1>3. ASSUME NEW r \in Requests, InitiateFree(r)
        PROVE  JoinInv'
    BY <1>3, <1>0 DEF InitiateFree, Goto, JoinInv, RowsHaveCalls,
           RequestsNameCalls, InitiatorJoins, AcceptStarted,
           JoinedAfterStart, Stored, At, rows, TypeOK, Request, RequestRecord
  <1>4. ASSUME NEW r \in Requests, NEW c \in CallIds, InitiateCreate(r, c)
        PROVE  JoinInv'
    <2>1. /\ call[c].status = "absent"
          /\ call' = [call EXCEPT ![c] =
                        [status |-> "INITIATED", conv |-> req[r].conv,
                         initiator |-> req[r].user, started |-> FALSE,
                         ended |-> FALSE]]
          /\ req' = [req EXCEPT ![r] =
                       [@ EXCEPT !.pc = "initiate.join", !.call = c]]
          /\ UNCHANGED <<part, joined>>
      BY <1>4 DEF InitiateCreate, Unused
    <2>2. \A d \in CallIds : d # c => call'[d] = call[d]
      BY <2>1, <1>0 DEF TypeOK
    <2>3. /\ call'[c].status = "INITIATED"
          /\ call'[c].initiator = req[r].user
      BY <2>1, <1>0 DEF TypeOK
    <2>4. \A p \in part : p[1] # c /\ p[1] \in CallIds
      BY <2>1, <1>0 DEF JoinInv, RowsHaveCalls, Stored, CallStatus, Live,
                        Terminal, TypeOK
    <2>5. \A s \in Requests : s # r => req'[s] = req[s] /\ req[s].call # c
      BY <2>1, <1>0, ConstantsAssumption DEF JoinInv, RequestsNameCalls, TypeOK
    <2>6. /\ req'[r].pc = "initiate.join"
          /\ req'[r].call = c
          /\ req'[r].user = req[r].user
      BY <2>1, <1>0 DEF TypeOK, Request, RequestRecord
    <2>7. RowsHaveCalls' /\ JoinedAfterStart'
      BY <2>1, <2>2, <2>4, <1>0 DEF JoinInv, RowsHaveCalls, JoinedAfterStart,
                                    Stored, TypeOK
    <2>8. \A s \in Requests : req[s].call # None => req[s].call \in CallIds
      BY <1>0 DEF TypeOK, Request, RequestRecord
    <2>9. RequestsNameCalls'
      BY <2>2, <2>3, <2>5, <2>6, <2>8 DEF JoinInv, RequestsNameCalls
    <2>10. \A s \in Requests :
              At(s, "initiate.join") \/ At(s, "accept.join")
                => req[s].call \in CallIds
      BY <1>0 DEF At, TypeOK, Request, Calling
    <2>11. InitiatorJoins' /\ AcceptStarted'
      BY <2>2, <2>3, <2>5, <2>6, <2>10
         DEF JoinInv, InitiatorJoins, AcceptStarted, At, Stored
    <2> QED
      BY <2>7, <2>9, <2>11 DEF JoinInv
  <1>5. ASSUME NEW r \in Requests, InitiateJoin(r) PROVE JoinInv'
    BY <1>5, <1>0 DEF InitiateJoin, Finish, Idle, JoinInv, RowsHaveCalls,
           RequestsNameCalls, InitiatorJoins, AcceptStarted,
           JoinedAfterStart, Stored, At, TypeOK, Request, RequestRecord, Join, HasParents
  <1>6. ASSUME NEW r \in Requests, AcceptJoin(r) PROVE JoinInv'
    BY <1>6, <1>0 DEF AcceptJoin, Finish, Idle, JoinInv, RowsHaveCalls,
           RequestsNameCalls, InitiatorJoins, AcceptStarted,
           JoinedAfterStart, Stored, At, TypeOK, Request, RequestRecord, Join, HasParents
  <1>7. ASSUME NEW r \in Requests, NEW u \in Users, NEW c \in CallIds,
               NEW where \in Await, where \notin Calling,
               where \notin {"ice.write", "accept.join", "initiate.join"},
               Begin(r, u, c, where)
        PROVE  JoinInv'
    <2> DEFINE q == [Idle EXCEPT !.pc = where, !.user = u, !.call = c]
    <2>1. q \in Request
      BY <1>7 DEF Idle, Request, RequestRecord
    <2> QED
      BY <1>7, <2>1, JoinFrame DEF Begin, Idle, rows, Stored, CallStatus, Live,
           Terminal
  <1>8. ASSUME NEW r \in Requests, NEW u \in Users, NEW c \in CallIds,
               RingAgain(r, u, c)
        PROVE  JoinInv'
    BY <1>8 DEF RingAgain, JoinInv, RowsHaveCalls, RequestsNameCalls,
           InitiatorJoins, AcceptStarted, JoinedAfterStart, Stored, At, rows
  <1>9. ASSUME NEW r \in Requests, RingWrite(r) PROVE JoinInv'
    <2> DEFINE c == req[r].call
               row == [call[c] EXCEPT !.status = "RINGING"]
    <2>1. c \in CallIds /\ call[c] \in CallRow
      BY <1>9, <1>0 DEF RingWrite, At, TypeOK, Request, Calling
    <2>2. /\ row \in CallRow
          /\ row.status \in CallStatus
          /\ row.initiator = call[c].initiator
          /\ row.started = call[c].started
      BY <2>1 DEF CallRow, CallStatus, Live
    <2>3. call' = [call EXCEPT ![c] = row]
      BY <1>9 DEF RingWrite
    <2>4. /\ Stored(c)
          /\ req' = [req EXCEPT ![r] = Idle]
          /\ UNCHANGED <<part, joined>>
      BY <1>9 DEF RingWrite, Finish
    <2>5. Idle.pc = "idle" /\ Idle.call = None
      BY DEF Idle
    <2> HIDE DEF row, c
    <2> QED
      BY <2>1, <2>2, <2>3, <2>4, <2>5, JoinUpdate
  <1>10. ASSUME NEW r \in Requests, NEW from \in Await, NEW to \in Await,
                from \notin Calling, to \notin Calling,
                to \notin {"ice.write", "initiate.join"},
                NEW row \in CallRow, Update(r, from, row, to),
                row.status \in CallStatus,
                row.initiator = call[req[r].call].initiator,
                call[req[r].call].started => row.started,
                to = "accept.join" => row.started
         PROVE  JoinInv'
    <2> DEFINE q == [req[r] EXCEPT !.pc = to]
    <2>1. /\ req[r].call \in CallIds
          /\ req[r] \in Request
          /\ req[r].pc = from
          /\ from # "idle"
      BY <1>10, <1>0 DEF Update, At, TypeOK, Request, Calling, Await
    <2>2. q \in Request
      BY <1>10, <2>1, RequestGoesOn
    <2>3. q.pc = to /\ q.call = req[r].call
      BY <2>1 DEF Request, RequestRecord
    <2>4. req' = [req EXCEPT ![r] = q]
      BY <1>10, <1>0 DEF Update, Goto, TypeOK
    <2> QED
      BY <1>10, <2>1, <2>2, <2>3, <2>4, JoinUpdate DEF Update
  <1>11. ASSUME NEW r \in Requests, AcceptWrite(r) \/ DeclineWrite(r) \/ EndWrite(r)
         PROVE  JoinInv'
    <2> DEFINE old == call[req[r].call]
    <2>1. old \in CallRow
      BY <1>11, <1>0 DEF AcceptWrite, DeclineWrite, EndWrite, Update, At, TypeOK,
                   Request, Calling
    <2> DEFINE accepted == [old EXCEPT !.status = "ACTIVE", !.started = TRUE]
               declined == [old EXCEPT !.status = "DECLINED", !.ended = TRUE]
               over     == [old EXCEPT !.status = "ENDED", !.ended = TRUE]
    <2>2. \A row \in {accepted, declined, over} :
             /\ row \in CallRow
             /\ row.status \in CallStatus
             /\ row.initiator = old.initiator
             /\ old.started => row.started
      BY <2>1 DEF CallRow, CallStatus, Live, Terminal
    <2>3. accepted.started
      BY <2>1 DEF CallRow
    <2>4. CASE AcceptWrite(r)
      BY <2>4, <2>2, <2>3, <1>10 DEF AcceptWrite, Await, Calling
    <2>5. CASE DeclineWrite(r)
      BY <2>5, <2>2, <1>10 DEF DeclineWrite, Await, Calling
    <2>6. CASE EndWrite(r)
      BY <2>6, <2>2, <1>10 DEF EndWrite, Await, Calling
    <2> QED
      BY <1>11, <2>4, <2>5, <2>6
  <1>12. ASSUME NEW r \in Requests, DeclineLeave(r) \/ IceWrite(r)
         PROVE  JoinInv'
    <2>1. /\ UNCHANGED <<call, joined>>
          /\ part' = part \cup {<<req[r].call, req[r].user>>}
          /\ Stored(req[r].call)
          /\ req' = [req EXCEPT ![r] = Idle]
      BY <1>12 DEF DeclineLeave, IceWrite, HasParents, Finish
    <2>2. RowsHaveCalls' /\ JoinedAfterStart'
      BY <2>1 DEF JoinInv, RowsHaveCalls, JoinedAfterStart, Stored
    <2>3. \A s \in Requests : req'[s] = Idle \/ req'[s] = req[s]
      BY <1>0, <2>1 DEF TypeOK
    <2>4. RequestsNameCalls' /\ InitiatorJoins' /\ AcceptStarted'
      BY <2>1, <2>3 DEF JoinInv, RequestsNameCalls, InitiatorJoins, AcceptStarted,
                        Stored, At, Idle
    <2> QED
      BY <2>2, <2>4 DEF JoinInv
  <1>13. ASSUME NEW r \in Requests, At(r, "end.find") \/ At(r, "end.loop"),
                NEW todo, Close(r, todo), UNCHANGED <<call, part, joined>>
         PROVE  JoinInv'
    <2> DEFINE q == req'[r]
    <2>1. /\ q \in Request
          /\ req' = [req EXCEPT ![r] = q]
          /\ q.pc \in {"end.notify", "end.loop"}
          /\ q.call = req[r].call
      BY <1>13, <1>0 DEF Close, JoinInv, TypeOK, Request, RequestRecord
    <2> QED
      BY <1>13, <2>1, JoinFrame DEF JoinInv, RequestsNameCalls
  <1>14. ASSUME NEW r \in Requests, NEW u \in Users, NEW c \in CallIds,
                NEW k \in Candidates, IceRead(r, u, c, k)
         PROVE  JoinInv'
    <2> DEFINE q == [Idle EXCEPT !.pc = "ice.write", !.user = u, !.call = c,
                          !.cand = k, !.list = StoredList(c, u)]
    <2>1. q \in Request
      BY DEF Idle, Request, RequestRecord, Await, Calling, StoredList
    <2> QED
      BY <1>14, <2>1, JoinFrame DEF IceRead, Idle, rows
  <1>15. ASSUME NEW lost \in SUBSET Rows, NEW gone \in SUBSET Users, Cascade(lost, gone)
         PROVE  JoinInv'
    <2>1. /\ \A c \in CallIds : call'[c] = IF c \in lost THEN NoRow("deleted")
                                                          ELSE call[c]
          /\ part' = {p \in part : p[1] \notin lost /\ p[2] \notin gone}
          /\ joined' = {p \in joined : p[1] \notin lost /\ p[2] \notin gone}
          /\ req' = req
      BY <1>15 DEF Cascade
    <2>2. \A c \in lost : call'[c].status = "deleted" /\ ~Stored(c)'
      BY <2>1, RowsAreCalls DEF NoRow, Stored, CallStatus, Live, Terminal
    <2>3. \A p \in part : p[1] \in CallIds
      BY <1>0 DEF TypeOK
    <2>4. RowsHaveCalls' /\ JoinedAfterStart'
      BY <2>1, <2>3, <1>0 DEF JoinInv, RowsHaveCalls, JoinedAfterStart, Stored,
                              TypeOK
    <2>5. \A s \in Requests : req[s].call # None => req[s].call \in CallIds
      BY <1>0 DEF TypeOK, Request, RequestRecord
    <2>6. RequestsNameCalls'
      BY <2>1, <2>2, <2>5 DEF JoinInv, RequestsNameCalls
    <2>7. \A s \in Requests :
             At(s, "initiate.join") \/ At(s, "accept.join")
               => req[s].call \in CallIds
      BY <1>0 DEF At, TypeOK, Request, Calling
    <2>8. InitiatorJoins' /\ AcceptStarted'
      BY <2>1, <2>2, <2>7 DEF JoinInv, InitiatorJoins, AcceptStarted, At, Stored
    <2> QED
      BY <2>4, <2>6, <2>8 DEF JoinInv
  <1>16. CASE UNCHANGED vars
    BY <1>16 DEF vars, JoinInv, RowsHaveCalls, RequestsNameCalls,
           InitiatorJoins, AcceptStarted, JoinedAfterStart, Stored, At
  <1>17. ASSUME NEW r \in Requests, Arrive(r) PROVE JoinInv'
    BY <1>17, <1>2, <1>7, <1>8, <1>14
       DEF Arrive, RingRead, AcceptRead, DeclineRead, EndRead, EndReadOver,
           Await, Calling
  <1>18. ASSUME NEW r \in Requests, Step(r) PROVE JoinInv'
    BY <1>18, <1>1, <1>3, <1>4, <1>5, <1>6, <1>9, <1>11, <1>12, <1>13
       DEF Step, InitiateBusy, EndFind, EndLoop, EndNotify, Missing, rows, Abandon
  <1>19. ASSUME NEW r \in Requests, Fail(r) PROVE JoinInv'
    BY <1>19, <1>1 DEF Fail, rows, Abandon
  <1> QED
    BY <1>15, <1>16, <1>17, <1>18, <1>19, EveryStep

\* acceptCall starts the call before it writes the participant, so no failure
\* and no interleaving leaves a callee on record in a call without a start.
THEOREM JoinSafety == Spec => []JoinedAfterStart
  <1>1. JoinInv => JoinedAfterStart
    BY DEF JoinInv
  <1> QED
    BY <1>1, InitJoinInv, JoinStep, TypeCorrect, PTL DEF Spec

-----------------------------------------------------------------------------
(* How many unanswered calls a conversation can have *)

\* No operation but the creation writes INITIATED, and none forgets a start.
InitiatedUnstarted ==
    \A c \in CallIds : call[c].status = "INITIATED" => ~call[c].started

PendInv == TypeOK /\ InitiatedUnstarted /\ PendingBounded

Shrinks(v) == Pending(v)' \subseteq Pending(v) /\ Creators(v)' \subseteq Creators(v)

\* The sets that are counted are finite.
LEMMA PendingFinite ==
  ASSUME NEW v \in Conversations
  PROVE  /\ IsFiniteSet(Pending(v)) /\ Cardinality(Pending(v)) \in Nat
         /\ IsFiniteSet(Creators(v)) /\ Cardinality(Creators(v)) \in Nat
         /\ Cardinality(Requests) \in Nat
  <1>1. Pending(v) \subseteq CallIds /\ Creators(v) \subseteq Requests
    BY DEF Pending, Creators
  <1>2. IsFiniteSet(CallIds) /\ IsFiniteSet(Requests)
    BY ConstantsAssumption
  <1>3. IsFiniteSet(Pending(v)) /\ IsFiniteSet(Creators(v))
    BY <1>1, <1>2, FS_Subset
  <1> QED
    BY <1>2, <1>3, FS_CardinalityType

\* The bound survives when neither set gains an element.
LEMMA BoundOfShrinking ==
  ASSUME PendingBounded, \A v \in Conversations : Shrinks(v)
  PROVE  PendingBounded'
  <1> SUFFICES ASSUME NEW v \in Conversations
               PROVE  Cardinality(Pending(v)') + Cardinality(Creators(v)')
                        <= Cardinality(Requests)
    BY DEF PendingBounded
  <1>1. Cardinality(Pending(v)) + Cardinality(Creators(v)) <= Cardinality(Requests)
    BY DEF PendingBounded
  <1>2. /\ IsFiniteSet(Pending(v)') /\ Cardinality(Pending(v)') \in Nat
        /\ Cardinality(Pending(v)') <= Cardinality(Pending(v))
    BY PendingFinite, FS_Subset, FS_CardinalityType DEF Shrinks
  <1>3. /\ IsFiniteSet(Creators(v)') /\ Cardinality(Creators(v)') \in Nat
        /\ Cardinality(Creators(v)') <= Cardinality(Creators(v))
    BY PendingFinite, FS_Subset, FS_CardinalityType DEF Shrinks
  <1> QED
    BY <1>1, <1>2, <1>3, PendingFinite

\* A request that enters no counted operation leaves both sets as they are or
\* smaller, if the calls stay as they are.
LEMMA ShrinkFrame ==
  ASSUME TypeOK, NEW r \in Requests, UNCHANGED call,
         \A s \in Requests : s # r => req'[s] = req[s],
         req'[r].pc \notin {"initiate.create", "ring.write"}
  PROVE  \A v \in Conversations : Shrinks(v)
  <1> SUFFICES ASSUME NEW v \in Conversations PROVE Shrinks(v)
    OBVIOUS
  <1>1. \A s \in Requests, c \in CallIds :
           s \in Ringers(c)' => s \in Ringers(c)
    BY DEF Ringers, At
  <1>2. \A c \in CallIds : Ringers(c)' # {} => Ringers(c) # {}
    BY <1>1 DEF Ringers
  <1>3. Pending(v)' \subseteq Pending(v)
    BY <1>2 DEF Pending
  <1>4. Creators(v)' \subseteq Creators(v)
    BY DEF Creators, At
  <1> QED
    BY <1>3, <1>4 DEF Shrinks

\* A request that updates its call row, and does not make it unanswered again
\* unless it was about to ring, leaves both sets as they are or smaller.
LEMMA ShrinkUpdate ==
  ASSUME TypeOK, NEW r \in Requests, NEW c \in CallIds, NEW row \in CallRow,
         call' = [call EXCEPT ![c] = row],
         row.conv = call[c].conv,
         call[c].started => row.started,
         row.status \in {"INITIATED", "RINGING"} => r \in Ringers(c),
         \A s \in Requests : s # r => req'[s] = req[s],
         req'[r].pc \notin {"initiate.create", "ring.write"}
  PROVE  \A v \in Conversations : Shrinks(v)
  <1> SUFFICES ASSUME NEW v \in Conversations PROVE Shrinks(v)
    OBVIOUS
  <1>1. \A s \in Requests, d \in CallIds :
           s \in Ringers(d)' => s \in Ringers(d)
    BY DEF Ringers, At
  <1>2. \A d \in CallIds : Ringers(d)' # {} => Ringers(d) # {}
    BY <1>1 DEF Ringers
  <1>3. \A d \in CallIds : call'[d] = IF d = c THEN row ELSE call[d]
    BY DEF TypeOK
  <1>4. Pending(v)' \subseteq Pending(v)
    BY <1>2, <1>3 DEF Pending
  <1>5. Creators(v)' \subseteq Creators(v)
    BY DEF Creators, At
  <1> QED
    BY <1>4, <1>5 DEF Shrinks

\* Handlers at different operations are different handlers: the calls that
\* wait for a delayed ring write share the slots with any other handlers.
LEMMA RingersShareSlots ==
  ASSUME TypeOK, NEW v \in Conversations,
         \A c \in Pending(v) : Ringers(c) # {},
         NEW C \in SUBSET Requests, \A s \in C : ~At(s, "ring.write")
  PROVE  Cardinality(Pending(v)) + Cardinality(C) <= Cardinality(Requests)
  <1> DEFINE R == {s \in Requests : At(s, "ring.write") /\ req[s].call \in Pending(v)}
             f == [s \in R |-> req[s].call]
  <1>1. f \in Surjection(R, Pending(v))
    BY DEF Surjection, Ringers
  <1>2. IsFiniteSet(R) /\ IsFiniteSet(C) /\ IsFiniteSet(Requests)
    BY ConstantsAssumption, FS_Subset
  <1>3. Cardinality(Pending(v)) <= Cardinality(R)
    BY <1>1, <1>2, FS_Surjection
  <1>4. R \cap C = {} /\ R \cup C \subseteq Requests
    OBVIOUS
  <1> HIDE DEF R
  <1>5. Cardinality(R) \in Nat /\ Cardinality(C) \in Nat /\ Cardinality(Requests) \in Nat
    BY <1>2, FS_CardinalityType
  <1>6. Cardinality(R \cup C) = Cardinality(R) + Cardinality(C)
    <2>1. Cardinality(R \cap C) = 0
      BY <1>4, FS_EmptySet
    <2>2. Cardinality(R \cup C) = Cardinality(R) + Cardinality(C) - Cardinality(R \cap C)
      BY <1>2, FS_Union
    <2> QED
      BY <1>5, <2>1, <2>2
  <1>7. Cardinality(R \cup C) <= Cardinality(Requests)
    BY <1>2, <1>4, FS_Subset
  <1> QED
    BY <1>3, <1>5, <1>6, <1>7, PendingFinite

\* A handler that found no live call may create one: every pending call is then
\* held by a delayed ring write.
LEMMA BoundOfFree ==
  ASSUME PendInv, TypeOK', NEW r \in Requests, InitiateFree(r)
  PROVE  PendingBounded'
  <1> SUFFICES ASSUME NEW v \in Conversations
               PROVE  Cardinality(Pending(v)') + Cardinality(Creators(v)')
                        <= Cardinality(Requests)
    BY DEF PendingBounded
  <1>0. TypeOK
    BY DEF PendInv
  <1>1. /\ call' = call
        /\ req[r].pc = "initiate.find"
        /\ req'[r].pc = "initiate.create"
        /\ req'[r].conv = req[r].conv
        /\ \A s \in Requests : s # r => req'[s] = req[s]
    BY <1>0 DEF InitiateFree, Goto, At, rows, TypeOK, Request, RequestRecord
  <1>2. \A c \in CallIds : Ringers(c)' = Ringers(c)
    BY <1>1 DEF Ringers, At
  <1>3. Pending(v)' = Pending(v)
    BY <1>1, <1>2 DEF Pending
  <1>4. CASE req[r].conv = v
    <2>1. LiveCalls(v) = {}
      BY <1>4 DEF InitiateFree
    <2>2. \A c \in Pending(v) : Ringers(c) # {}
      BY <2>1 DEF LiveCalls, Pending, Live
    <2>3. /\ Creators(v)' \in SUBSET Requests
          /\ \A s \in Creators(v)' : ~At(s, "ring.write")
      BY <1>1 DEF Creators, At
    <2>4. Cardinality(Pending(v)) + Cardinality(Creators(v)') <= Cardinality(Requests)
      BY <1>0, <2>2, <2>3, RingersShareSlots
    <2> QED
      BY <2>4, <1>3
  <1>5. CASE req[r].conv # v
    <2>1. Creators(v)' = Creators(v)
      BY <1>5, <1>1 DEF Creators, At
    <2> QED
      BY <2>1, <1>3 DEF PendInv, PendingBounded
  <1> QED
    BY <1>4, <1>5

\* The creation turns one creator into one pending call.
LEMMA BoundOfCreate ==
  ASSUME PendInv, NEW r \in Requests, NEW c \in CallIds, InitiateCreate(r, c)
  PROVE  PendingBounded'
  <1> SUFFICES ASSUME NEW v \in Conversations
               PROVE  Cardinality(Pending(v)') + Cardinality(Creators(v)')
                        <= Cardinality(Requests)
    BY DEF PendingBounded
  <1>0. TypeOK
    BY DEF PendInv
  <1>1. /\ req[r].pc = "initiate.create"
        /\ req'[r].pc = "initiate.join"
        /\ \A s \in Requests : s # r => req'[s] = req[s]
        /\ call'[c].conv = req[r].conv
        /\ \A d \in CallIds : d # c => call'[d] = call[d]
    BY <1>0 DEF InitiateCreate, At, TypeOK, Request, RequestRecord
  <1>2. \A d \in CallIds : Ringers(d)' = Ringers(d)
    BY <1>1 DEF Ringers, At
  <1>3. Creators(v)' = Creators(v) \ {r}
    BY <1>1 DEF Creators, At
  <1>4. Cardinality(Pending(v)) + Cardinality(Creators(v)) <= Cardinality(Requests)
    BY DEF PendInv, PendingBounded
  <1>5. CASE req[r].conv = v
    <2>1. Pending(v)' \subseteq Pending(v) \cup {c}
      BY <1>1, <1>2 DEF Pending
    <2>2. /\ IsFiniteSet(Pending(v) \cup {c})
          /\ Cardinality(Pending(v) \cup {c}) \in Nat
          /\ Cardinality(Pending(v) \cup {c}) <= Cardinality(Pending(v)) + 1
      <3>1. IsFiniteSet(Pending(v)) /\ Cardinality(Pending(v)) \in Nat
        BY PendingFinite
      <3>2. /\ IsFiniteSet(Pending(v) \cup {c})
            /\ Cardinality(Pending(v) \cup {c})
                 = IF c \in Pending(v) THEN Cardinality(Pending(v))
                                       ELSE Cardinality(Pending(v)) + 1
        BY <3>1, FS_AddElement
      <3> QED
        BY <3>1, <3>2
    <2>3. /\ Cardinality(Pending(v)') \in Nat
          /\ Cardinality(Pending(v)') <= Cardinality(Pending(v) \cup {c})
      BY <2>1, <2>2, FS_Subset, FS_CardinalityType
    <2>4. r \in Creators(v)
      BY <1>1, <1>5 DEF Creators, At
    <2>5. Cardinality(Creators(v)') = Cardinality(Creators(v)) - 1
      BY <1>3, <2>4, PendingFinite, FS_RemoveElement
    <2> QED
      BY <1>4, <2>2, <2>3, <2>5, PendingFinite
  <1>6. CASE req[r].conv # v
    <2>1. Pending(v)' \subseteq Pending(v)
      BY <1>1, <1>2, <1>6 DEF Pending
    <2>2. Creators(v)' = Creators(v)
      BY <1>1, <1>6 DEF Creators, At
    <2>3. /\ Cardinality(Pending(v)') \in Nat
          /\ Cardinality(Pending(v)') <= Cardinality(Pending(v))
      BY <2>1, PendingFinite, FS_Subset, FS_CardinalityType
    <2> QED
      BY <1>4, <2>2, <2>3, PendingFinite
  <1> QED
    BY <1>5, <1>6

\* No other operation adds a pending call or a creator.
LEMMA PendingStep == PendInv /\ TypeOK' /\ [Next]_vars => PendingBounded'
  <1> SUFFICES ASSUME PendInv, TypeOK', [Next]_vars PROVE PendingBounded'
    OBVIOUS
  <1>0. TypeOK /\ InitiatedUnstarted /\ PendingBounded
    BY DEF PendInv
  <1>1. ASSUME NEW r \in Requests, NEW q, UNCHANGED call,
               req' = [req EXCEPT ![r] = q],
               q.pc \notin {"initiate.create", "ring.write"}
        PROVE  PendingBounded'
    BY <1>0, <1>1, ShrinkFrame, BoundOfShrinking DEF TypeOK
  <1>2. ASSUME NEW r \in Requests, Finish(r), UNCHANGED call
        PROVE  PendingBounded'
    BY <1>1, <1>2 DEF Finish, Idle
  <1>3. ASSUME NEW r \in Requests, NEW u, NEW v, InitiateRead(r, u, v)
        PROVE  PendingBounded'
    BY <1>1, <1>3 DEF InitiateRead, Idle, rows
  <1>4. ASSUME NEW r \in Requests, NEW u, NEW c,
               NEW where \in Await \ {"initiate.create", "ring.write"},
               Begin(r, u, c, where)
        PROVE  PendingBounded'
    BY <1>1, <1>4 DEF Begin, Idle, rows
  <1>5. ASSUME NEW r \in Requests, NEW u \in Users, NEW c \in CallIds,
               RingRead(r, u, c)
        PROVE  PendingBounded'
    <2>1. /\ call' = call
          /\ call[c].status = "INITIATED" /\ ~call[c].started
          /\ req'[r].pc = "ring.write" /\ req'[r].call = c
          /\ \A s \in Requests : s # r => req'[s] = req[s]
      BY <1>0, <1>5 DEF RingRead, Begin, Idle, rows, TypeOK, InitiatedUnstarted
    <2>2. \A d \in CallIds : Ringers(d)' \subseteq Ringers(d)
                              \/ (d = c /\ Ringers(d)' \subseteq Ringers(d) \cup {r})
      BY <2>1 DEF Ringers, At
    <2>3. \A d \in CallIds : Ringers(d)' # {} => Ringers(d) # {} \/ d = c
      BY <2>2
    <2>4. \A v \in Conversations : Shrinks(v)
      BY <2>1, <2>3 DEF Shrinks, Pending, Creators, At
    <2> QED
      BY <1>0, <2>4, BoundOfShrinking
  <1>6. ASSUME NEW r \in Requests, NEW u, NEW c, RingAgain(r, u, c)
        PROVE  PendingBounded'
    <2>1. \A v \in Conversations : Shrinks(v)
      BY <1>6 DEF RingAgain, rows, Shrinks, Pending, Creators, Ringers, At
    <2> QED
      BY <1>0, <2>1, BoundOfShrinking
  <1>7. ASSUME NEW r \in Requests,
               RingWrite(r) \/ AcceptWrite(r) \/ DeclineWrite(r) \/ EndWrite(r)
        PROVE  PendingBounded'
    <2> DEFINE c == req[r].call
    <2>1. c \in CallIds /\ call[c] \in CallRow
      BY <1>0, <1>7 DEF RingWrite, AcceptWrite, DeclineWrite, EndWrite, Update,
                        At, TypeOK, Request, Calling
    <2>2. \A s \in Requests : s # r => req'[s] = req[s]
      BY <1>0, <1>7 DEF RingWrite, AcceptWrite, DeclineWrite, EndWrite, Update,
                        Goto, Finish, TypeOK
    <2>3. req'[r].pc \in {"idle", "accept.join", "decline.leave", "end.find"}
      BY <1>0, <1>7 DEF RingWrite, AcceptWrite, DeclineWrite, EndWrite, Update,
                        Goto, Finish, Idle, TypeOK, Request, RequestRecord
    <2>4. PICK row \in CallRow :
             /\ call' = [call EXCEPT ![c] = row]
             /\ row.conv = call[c].conv
             /\ call[c].started => row.started
             /\ row.status \in {"INITIATED", "RINGING"} => RingWrite(r)
      <3> DEFINE rung == [call[c] EXCEPT !.status = "RINGING"]
                 accepted == [call[c] EXCEPT !.status = "ACTIVE", !.started = TRUE]
                 declined == [call[c] EXCEPT !.status = "DECLINED", !.ended = TRUE]
                 over     == [call[c] EXCEPT !.status = "ENDED", !.ended = TRUE]
      <3>1. /\ rung \in CallRow /\ rung.conv = call[c].conv
            /\ call[c].started => rung.started
        BY <2>1 DEF CallRow, CallStatus, Live, Terminal
      <3>2. \A row \in {accepted, declined, over} :
               /\ row \in CallRow /\ row.conv = call[c].conv
               /\ call[c].started => row.started
               /\ row.status \notin {"INITIATED", "RINGING"}
        BY <2>1 DEF CallRow, CallStatus, Live, Terminal
      <3>3. CASE RingWrite(r)
        BY <3>1, <3>3 DEF RingWrite
      <3>4. CASE AcceptWrite(r) \/ DeclineWrite(r) \/ EndWrite(r)
        BY <3>2, <3>4 DEF AcceptWrite, DeclineWrite, EndWrite, Update
      <3> QED
        BY <1>7, <3>3, <3>4
    <2>5. RingWrite(r) => r \in Ringers(c)
      BY DEF RingWrite, Ringers, At
    <2> HIDE DEF c
    <2>6. \A v \in Conversations : Shrinks(v)
      BY <1>0, <2>1, <2>2, <2>3, <2>4, <2>5, ShrinkUpdate
    <2> QED
      BY <1>0, <2>6, BoundOfShrinking
  <1>8. ASSUME NEW r \in Requests, NEW todo, Close(r, todo), UNCHANGED call
        PROVE  PendingBounded'
    <2>1. /\ req'[r].pc \in {"end.notify", "end.loop"}
          /\ \A s \in Requests : s # r => req'[s] = req[s]
      BY <1>0, <1>8 DEF Close, TypeOK, Request, RequestRecord
    <2> QED
      BY <1>0, <1>8, <2>1, ShrinkFrame, BoundOfShrinking
  <1>9. ASSUME NEW r \in Requests, NEW u, NEW c, NEW k, IceRead(r, u, c, k)
        PROVE  PendingBounded'
    BY <1>1, <1>9 DEF IceRead, Idle, rows
  <1>10. ASSUME NEW lost \in SUBSET Rows, NEW gone \in SUBSET Users, Cascade(lost, gone)
         PROVE  PendingBounded'
    <2>1. /\ req' = req
          /\ \A c \in CallIds : call'[c] = call[c] \/ call'[c].conv = None
      BY <1>10 DEF Cascade, NoRow
    <2>2. \A w \in Conversations : Shrinks(w)
      BY <2>1, ConstantsAssumption
         DEF Shrinks, Pending, Creators, Ringers, At
    <2> QED
      BY <1>0, <2>2, BoundOfShrinking
  <1>11. CASE UNCHANGED vars
    BY <1>0, <1>11 DEF vars, PendingBounded, Pending, Creators, Ringers, At
  <1>12. ASSUME NEW r \in Requests, Arrive(r) PROVE PendingBounded'
    BY <1>12, <1>3, <1>4, <1>5, <1>6, <1>9
       DEF Arrive, AcceptRead, DeclineRead, EndRead, EndReadOver, Await
  <1>13. ASSUME NEW r \in Requests, Step(r) PROVE PendingBounded'
    BY <1>13, <1>2, <1>7, <1>8, BoundOfFree, BoundOfCreate
       DEF Step, InitiateBusy, InitiateJoin, AcceptJoin, DeclineLeave, EndFind,
           EndLoop, EndNotify, IceWrite, Missing, rows, Abandon, Join, HasParents
  <1>14. ASSUME NEW r \in Requests, Fail(r) PROVE PendingBounded'
    BY <1>14, <1>2 DEF Fail, rows, Abandon
  <1> QED
    BY <1>10, <1>11, <1>12, <1>13, <1>14, EveryStep

\* A call that is INITIATED has no start: the three updates that set or follow
\* a start write another status.
LEMMA UnstartedStep == TypeOK /\ InitiatedUnstarted /\ [Next]_vars => InitiatedUnstarted'
  <1> SUFFICES ASSUME TypeOK, InitiatedUnstarted, [Next]_vars
               PROVE  InitiatedUnstarted'
    OBVIOUS
  <1>1. CASE UNCHANGED call
    BY <1>1 DEF InitiatedUnstarted
  <1>2. ASSUME NEW r \in Requests, NEW c \in CallIds, InitiateCreate(r, c)
        PROVE  InitiatedUnstarted'
    BY <1>2 DEF InitiateCreate, InitiatedUnstarted, TypeOK
  <1>3. ASSUME NEW r \in Requests,
               RingWrite(r) \/ AcceptWrite(r) \/ DeclineWrite(r) \/ EndWrite(r)
        PROVE  InitiatedUnstarted'
    <2>1. req[r].call \in CallIds /\ call[req[r].call] \in CallRow
      BY <1>3 DEF RingWrite, AcceptWrite, DeclineWrite, EndWrite, Update,
                  At, TypeOK, Request, Calling
    <2>2. call'[req[r].call].status # "INITIATED"
      <3> DEFINE old == call[req[r].call]
      <3>1. /\ [old EXCEPT !.status = "RINGING"].status = "RINGING"
            /\ [old EXCEPT !.status = "ACTIVE", !.started = TRUE].status = "ACTIVE"
            /\ [old EXCEPT !.status = "DECLINED", !.ended = TRUE].status = "DECLINED"
            /\ [old EXCEPT !.status = "ENDED", !.ended = TRUE].status = "ENDED"
        BY <2>1 DEF CallRow
      <3>2. CASE RingWrite(r)
        BY <2>1, <3>1, <3>2 DEF RingWrite, TypeOK
      <3>3. CASE AcceptWrite(r) \/ DeclineWrite(r) \/ EndWrite(r)
        BY <2>1, <3>1, <3>3 DEF AcceptWrite, DeclineWrite, EndWrite, Update, TypeOK
      <3> QED
        BY <1>3, <3>2, <3>3
    <2>3. \A c \in CallIds : c # req[r].call => call'[c] = call[c]
      BY <1>3 DEF RingWrite, AcceptWrite, DeclineWrite, EndWrite, Update, TypeOK
    <2> QED
      BY <2>2, <2>3 DEF InitiatedUnstarted
  <1>4. ASSUME NEW lost \in SUBSET Rows, NEW gone \in SUBSET Users, Cascade(lost, gone)
        PROVE  InitiatedUnstarted'
    BY <1>4 DEF Cascade, NoRow, InitiatedUnstarted
  <1>5. ASSUME NEW r \in Requests, Arrive(r) PROVE UNCHANGED call
    BY <1>5 DEF Arrive, InitiateRead, RingRead, RingAgain, AcceptRead, DeclineRead,
                EndRead, EndReadOver, Begin, IceRead, rows
  <1>6. ASSUME NEW r \in Requests, Step(r) PROVE InitiatedUnstarted'
    BY <1>1, <1>2, <1>3, <1>6
       DEF Step, InitiateBusy, InitiateFree, InitiateJoin, AcceptJoin,
           DeclineLeave, EndFind, EndLoop, EndNotify, IceWrite, Missing, Abandon, Join,
           HasParents, rows
  <1>7. ASSUME NEW r \in Requests, Fail(r) PROVE UNCHANGED call
    BY <1>7 DEF Fail, rows, Abandon
  <1>8. CASE UNCHANGED vars
    BY <1>1, <1>8 DEF vars
  <1> QED
    BY <1>1, <1>4, <1>5, <1>6, <1>7, <1>8, EveryStep

\* Nothing is pending at first, and every slot is free.
LEMMA InitPendInv == Init => PendInv
  <1> SUFFICES ASSUME Init PROVE PendInv
    OBVIOUS
  <1>1. TypeOK /\ InitiatedUnstarted
    BY InitJoinInv DEF JoinInv, Init, InitiatedUnstarted, NoRow
  <1>2. ASSUME NEW v \in Conversations
        PROVE  Cardinality(Pending(v)) + Cardinality(Creators(v)) <= Cardinality(Requests)
    <2>1. Pending(v) = {} /\ Creators(v) = {}
      BY ConstantsAssumption DEF Init, Pending, Creators, NoRow, Idle, At
    <2> QED
      BY <2>1, FS_EmptySet, PendingFinite
  <1> QED
    BY <1>1, <1>2 DEF PendInv, PendingBounded

\* The unanswered calls of a conversation, together with the handlers about to
\* create one, never outnumber the handlers that the server runs at once.
THEOREM PendingSafety == Spec => []PendingBounded
  <1>1. PendInv /\ TypeOK' /\ [Next]_vars => PendInv'
    BY PendingStep, UnstartedStep DEF PendInv
  <1>2. PendInv => PendingBounded
    BY DEF PendInv
  <1> QED
    BY <1>1, <1>2, InitPendInv, TypeCorrect, PTL DEF Spec

-----------------------------------------------------------------------------
(* What clients have been told *)

\* A call that is over has the stamp of its end.
OverIsEnded == \A c \in CallIds : call[c].status \in Terminal => call[c].ended

\* Where a handler has stamped the end of its call, or found it over.
Enders == {"decline.leave", "end.find", "end.loop", "end.notify"}

EndersKnow ==
    \A r \in Requests :
        (req[r].pc \in Enders /\ Stored(req[r].call)) => call[req[r].call].ended

\* An event is about a call that was created.
SentNamesCalls == \A m \in sent : call[m.call].status # "absent"

\* What an event says of the rows.
Told(m) ==
    /\ m.event = "ACCEPTED" => call[m.call].started
    /\ m.event \in {"DECLINED", "ENDED"} => call[m.call].ended
    /\ m.by \in accounts =>
          /\ m.event \in {"OUTGOING", "ACCEPTED"} => <<m.call, m.by>> \in joined
          /\ m.event = "DECLINED" => <<m.call, m.by>> \in left

ToldInv ==
    /\ OverIsEnded /\ EndersKnow /\ SentNamesCalls
    /\ \A m \in sent : Stored(m.call) => Told(m)

LEMMA ToldMeaning == ToldInv => ToldAfterStored
  BY DEF ToldInv, Told, ToldAfterStored

\* A row that was created stays until it is deleted, and with it its stamps and
\* who joined and left, as long as these users have an account.
Lasts(c) ==
    /\ call'[c].status # "absent"
    /\ accounts' \subseteq accounts
    /\ call'[c].status \in CallStatus =>
          /\ Stored(c)
          /\ call[c].started => call'[c].started
          /\ call[c].ended => call'[c].ended
          /\ \A u \in accounts' : <<c, u>> \in joined => <<c, u>> \in joined'
          /\ \A u \in accounts' : <<c, u>> \in left => <<c, u>> \in left'

\* The rows of calls that the steps of handlers write.
LEMMA WritesOfCalls ==
  ASSUME TypeOK, NEW r \in Requests,
         RingWrite(r) \/ AcceptWrite(r) \/ DeclineWrite(r) \/ EndWrite(r)
  PROVE  /\ req[r].call \in CallIds /\ Stored(req[r].call)
         /\ \A c \in CallIds : c # req[r].call => call'[c] = call[c]
         /\ call'[req[r].call].status \in {"RINGING", "ACTIVE", "DECLINED", "ENDED"}
         /\ call[req[r].call].started => call'[req[r].call].started
         /\ call[req[r].call].ended => call'[req[r].call].ended
         /\ call'[req[r].call].status \in Terminal => call'[req[r].call].ended
         /\ DeclineWrite(r) \/ EndWrite(r) => call'[req[r].call].ended
         /\ UNCHANGED <<joined, left>>
  <1> DEFINE c == req[r].call
             old == call[c]
  <1>1. c \in CallIds /\ old \in CallRow
    BY DEF RingWrite, AcceptWrite, DeclineWrite, EndWrite, Update, At, TypeOK, Request, Calling
  <1>2. \/ call' = [call EXCEPT ![c] = [old EXCEPT !.status = "RINGING"]]
        \/ call' = [call EXCEPT ![c] = [old EXCEPT !.status = "ACTIVE", !.started = TRUE]]
        \/ call' = [call EXCEPT ![c] = [old EXCEPT !.status = "DECLINED", !.ended = TRUE]]
        \/ call' = [call EXCEPT ![c] = [old EXCEPT !.status = "ENDED", !.ended = TRUE]]
    BY <1>1 DEF RingWrite, AcceptWrite, DeclineWrite, EndWrite, Update, TypeOK, CallRow
  <1>3. DeclineWrite(r) \/ EndWrite(r) =>
           \/ call' = [call EXCEPT ![c] = [old EXCEPT !.status = "DECLINED", !.ended = TRUE]]
           \/ call' = [call EXCEPT ![c] = [old EXCEPT !.status = "ENDED", !.ended = TRUE]]
    BY DEF DeclineWrite, EndWrite, Update
  <1>4. Stored(c) /\ UNCHANGED <<joined, left>>
    BY DEF RingWrite, AcceptWrite, DeclineWrite, EndWrite, Update
  <1>5. /\ [old EXCEPT !.status = "RINGING"].status = "RINGING"
        /\ [old EXCEPT !.status = "RINGING"].started = old.started
        /\ [old EXCEPT !.status = "RINGING"].ended = old.ended
        /\ [old EXCEPT !.status = "ACTIVE", !.started = TRUE].status = "ACTIVE"
        /\ [old EXCEPT !.status = "ACTIVE", !.started = TRUE].started
        /\ [old EXCEPT !.status = "ACTIVE", !.started = TRUE].ended = old.ended
        /\ [old EXCEPT !.status = "DECLINED", !.ended = TRUE].status = "DECLINED"
        /\ [old EXCEPT !.status = "DECLINED", !.ended = TRUE].started = old.started
        /\ [old EXCEPT !.status = "DECLINED", !.ended = TRUE].ended
        /\ [old EXCEPT !.status = "ENDED", !.ended = TRUE].status = "ENDED"
        /\ [old EXCEPT !.status = "ENDED", !.ended = TRUE].started = old.started
        /\ [old EXCEPT !.status = "ENDED", !.ended = TRUE].ended
    BY <1>1 DEF CallRow
  <1>6. call \in [CallIds -> CallRow]
    BY DEF TypeOK
  <1> HIDE DEF c, old
  <1>7. \A d \in CallIds : d # c => call'[d] = call[d]
    BY <1>2, <1>6
  <1>8. /\ call'[c].status \in {"RINGING", "ACTIVE", "DECLINED", "ENDED"}
        /\ old.started => call'[c].started
        /\ old.ended => call'[c].ended
        /\ call'[c].status \in Terminal => call'[c].ended
    BY <1>1, <1>2, <1>5, <1>6 DEF Terminal
  <1>9. DeclineWrite(r) \/ EndWrite(r) => call'[c].ended
    BY <1>1, <1>3, <1>5, <1>6
  <1> QED
    BY <1>1, <1>4, <1>7, <1>8, <1>9 DEF c, old

LEMMA RowsLast ==
  ASSUME TypeOK, [Next]_vars, NEW c \in CallIds, call[c].status # "absent"
  PROVE  Lasts(c)
  <1>0. accounts' \subseteq accounts
    <2>1. ASSUME NEW lost \in SUBSET Rows, NEW gone \in SUBSET Users, Cascade(lost, gone)
          PROVE  accounts' \subseteq accounts
      BY <2>1 DEF Cascade
    <2> QED
      BY <2>1, HandlersKeepAccounts, EveryStep DEF vars
  <1>1. ASSUME call' = call, joined \subseteq joined', left \subseteq left'
        PROVE  Lasts(c)
    BY <1>0, <1>1 DEF Lasts, Stored
  <1>2. ASSUME NEW r \in Requests, NEW d \in CallIds, InitiateCreate(r, d)
        PROVE  Lasts(c)
    BY <1>0, <1>2 DEF InitiateCreate, Unused, TypeOK, Lasts, Stored
  <1>3. ASSUME NEW r \in Requests,
               RingWrite(r) \/ AcceptWrite(r) \/ DeclineWrite(r) \/ EndWrite(r)
        PROVE  Lasts(c)
    <2>1. CASE c = req[r].call
      BY <1>0, <1>3, <2>1, WritesOfCalls DEF Lasts
    <2>2. CASE c # req[r].call
      BY <1>0, <1>3, <2>2, WritesOfCalls DEF Lasts, Stored
    <2> QED
      BY <2>1, <2>2
  <1>4. ASSUME NEW lost \in SUBSET Rows, NEW gone \in SUBSET Users, Cascade(lost, gone)
        PROVE  Lasts(c)
    BY <1>0, <1>4 DEF Cascade, NoRow, Lasts, Stored, CallStatus, Live, Terminal
  <1>5. ASSUME NEW r \in Requests, Arrive(r) PROVE UNCHANGED <<call, joined, left>>
    BY <1>5 DEF Arrive, InitiateRead, RingRead, RingAgain, AcceptRead, DeclineRead,
                EndRead, EndReadOver, Begin, IceRead, rows
  <1>6. ASSUME NEW r \in Requests, Step(r) PROVE Lasts(c)
    BY <1>1, <1>2, <1>3, <1>6
       DEF Step, InitiateBusy, InitiateFree, InitiateJoin, AcceptJoin,
           DeclineLeave, EndFind, EndLoop, EndNotify, IceWrite, Missing, Abandon, Join,
           HasParents, rows
  <1>7. ASSUME NEW r \in Requests, Fail(r) PROVE UNCHANGED <<call, joined, left>>
    BY <1>7 DEF Fail, rows, Abandon
  <1>8. CASE UNCHANGED vars
    BY <1>1, <1>8 DEF vars
  <1> QED
    BY <1>1, <1>4, <1>5, <1>6, <1>7, <1>8, EveryStep

\* What a handler announces it has stored, or found.
LEMMA NewsIsTrue ==
  ASSUME JoinInv, ToldInv, TypeOK', [Next]_vars, NEW m \in sent', m \notin sent
  PROVE  call'[m.call].status # "absent" /\ (Stored(m.call)' => Told(m)')
  <1>0. TypeOK
    BY DEF JoinInv
  <1>1. \A c : Stored(c) => call[c].status # "absent"
    BY DEF Stored, CallStatus, Live, Terminal
  <1>2. ASSUME NEW r \in Requests, InitiateJoin(r)
        PROVE  call'[m.call].status # "absent" /\ Told(m)'
    BY <1>1, <1>2 DEF InitiateJoin, Emit, Told, Join, HasParents
  <1>3. ASSUME NEW r \in Requests, NEW u \in Users, NEW c \in CallIds, RingAgain(r, u, c)
        PROVE  call'[m.call].status # "absent" /\ Told(m)'
    BY <1>1, <1>3 DEF RingAgain, Emit, Told, rows
  <1>4. ASSUME NEW r \in Requests, RingWrite(r)
        PROVE  call'[m.call].status # "absent" /\ Told(m)'
    <2>1. call'[req[r].call].status = "RINGING" \/ call'[req[r].call].status # "absent"
      BY <1>0, <1>4, WritesOfCalls
    <2>2. m.event = "RINGING" /\ m.call = req[r].call
      BY <1>4 DEF RingWrite, Emit
    <2> QED
      BY <2>1, <2>2 DEF Told
  <1>5. ASSUME NEW r \in Requests, AcceptJoin(r)
        PROVE  call'[m.call].status # "absent" /\ Told(m)'
    BY <1>1, <1>5 DEF AcceptJoin, Emit, Told, JoinInv, AcceptStarted, Join, HasParents
  <1>6. ASSUME NEW r \in Requests, DeclineLeave(r)
        PROVE  call'[m.call].status # "absent" /\ Told(m)'
    BY <1>1, <1>6 DEF DeclineLeave, Emit, Told, ToldInv, EndersKnow, Enders, At, HasParents
  <1>7. ASSUME NEW r \in Requests, EndNotify(r)
        PROVE  call'[m.call].status # "absent" /\ Told(m)'
    BY <1>1, <1>7 DEF EndNotify, Emit, Told, ToldInv, EndersKnow, Enders, At, rows
  <1>9. ASSUME NEW r \in Requests, Arrive(r)
        PROVE  \/ UNCHANGED sent
               \/ \E u \in Users, c \in CallIds : RingAgain(r, u, c)
    BY <1>9 DEF Arrive, InitiateRead, RingRead, AcceptRead, DeclineRead,
                EndRead, EndReadOver, Begin, IceRead, history
  <1>10. ASSUME NEW r \in Requests, Step(r)
         PROVE  \/ UNCHANGED sent
                \/ InitiateJoin(r) \/ RingWrite(r) \/ AcceptJoin(r) \/ DeclineLeave(r) \/ EndNotify(r)
    BY <1>10 DEF Step, InitiateBusy, InitiateFree, InitiateCreate, AcceptWrite, DeclineWrite,
                 EndWrite, Update, EndFind, EndLoop, IceWrite, Missing, history, Abandon, HasParents
  <1>11. ASSUME NEW r \in Requests, Fail(r) PROVE UNCHANGED sent
    BY <1>11 DEF Fail, history, Abandon
  <1>12. ASSUME NEW lost \in SUBSET Rows, NEW gone \in SUBSET Users, Cascade(lost, gone)
         PROVE  UNCHANGED sent
    BY <1>12 DEF Cascade, history
  <1>13. ~UNCHANGED sent
    OBVIOUS
  <1>14. ~UNCHANGED vars
    BY <1>13 DEF vars
  <1> QED
    BY <1>2, <1>3, <1>4, <1>5, <1>6, <1>7, <1>9, <1>10, <1>11, <1>12, <1>13, <1>14, EveryStep

\* A handler comes to the end of a call by stamping it, or by finding it over.
LEMMA EndersStep ==
  ASSUME JoinInv, ToldInv, TypeOK', [Next]_vars, NEW r \in Requests,
         req'[r].pc \in Enders, call'[req'[r].call].status \in CallStatus
  PROVE  call'[req'[r].call].ended
  <1>0. TypeOK
    BY DEF JoinInv
  <1>1. ASSUME req[r].pc \in Enders, req'[r].call = req[r].call
        PROVE  call'[req'[r].call].ended
    <2>1. req[r].call \in CallIds /\ call[req[r].call].status # "absent"
      <3>1. req[r].call \in CallIds
        BY <1>0, <1>1 DEF TypeOK, Request, Calling, Enders
      <3> QED
        BY <3>1, ConstantsAssumption DEF JoinInv, RequestsNameCalls
    <2>2. Lasts(req[r].call)
      BY <1>0, <2>1, RowsLast
    <2>4. Stored(req[r].call) /\ (call[req[r].call].ended => call'[req[r].call].ended)
      BY <1>1, <2>2 DEF Lasts
    <2> QED
      BY <1>1, <2>4 DEF ToldInv, EndersKnow
  <1>2. ASSUME req'[r] = Idle PROVE FALSE
    BY <1>2 DEF Idle, Enders
  <1>3. ASSUME req'[r] = req[r]
        PROVE  call'[req'[r].call].ended
    BY <1>1, <1>3
  <1>4. ASSUME DeclineWrite(r) \/ EndWrite(r)
        PROVE  call'[req'[r].call].ended
    <2>1. req'[r].call = req[r].call
      BY <1>0, <1>4 DEF DeclineWrite, EndWrite, Update, Goto, TypeOK, Request, RequestRecord
    <2> QED
      BY <1>0, <1>4, <2>1, WritesOfCalls
  <1>5. ASSUME NEW u \in Users, NEW c \in CallIds, EndReadOver(r, u, c)
        PROVE  call'[req'[r].call].ended
    BY <1>0, <1>5 DEF EndReadOver, Begin, TypeOK, Idle, ToldInv, OverIsEnded, rows
  <1>6. ASSUME NEW todo, Close(r, todo), At(r, "end.find") \/ At(r, "end.loop")
        PROVE  call'[req'[r].call].ended
    <2>1. req[r].pc \in Enders
      BY <1>6 DEF At, Enders
    <2>2. req'[r].call = req[r].call
      BY <1>0, <1>6 DEF Close, TypeOK, Request, RequestRecord
    <2> QED
      BY <1>1, <2>1, <2>2
  <1>7. ASSUME NEW s \in Requests, s # r, Arrive(s) \/ Step(s) \/ Fail(s)
        PROVE  req'[r] = req[r]
    <2>1. CASE Arrive(s)
      BY <1>0, <1>7, <2>1 DEF Arrive, InitiateRead, RingRead, RingAgain, AcceptRead, DeclineRead,
                   EndRead, EndReadOver, Begin, IceRead, TypeOK
    <2>2. CASE Step(s) \/ Fail(s)
      BY <1>0, <1>7, <2>2
         DEF Step, InitiateBusy, InitiateFree, InitiateCreate, InitiateJoin, RingWrite, AcceptWrite,
             AcceptJoin, DeclineWrite, DeclineLeave, EndWrite, Update, EndFind, EndLoop, Close,
             EndNotify, IceWrite, Missing, Fail, Goto, Finish, TypeOK, Abandon, Join, HasParents
    <2> QED
      BY <1>7, <2>1, <2>2
  <1>8. ASSUME Arrive(r)
        PROVE  call'[req'[r].call].ended
    <2>1. ASSUME NEW u \in Users, NEW c \in CallIds, NEW where \in Await, Begin(r, u, c, where)
          PROVE  req'[r].pc = where
      BY <1>0, <2>1 DEF Begin, TypeOK, Idle
    <2>2. ASSUME NEW u \in Users, NEW c \in CallIds,
                 RingRead(r, u, c) \/ AcceptRead(r, u, c) \/ DeclineRead(r, u, c) \/ EndRead(r, u, c)
          PROVE  FALSE
      BY <2>1, <2>2 DEF RingRead, AcceptRead, DeclineRead, EndRead, Enders, Await
    <2>3. ASSUME NEW u \in Users, NEW v \in Conversations, InitiateRead(r, u, v)
          PROVE  FALSE
      BY <1>0, <2>3 DEF InitiateRead, TypeOK, Idle, Enders
    <2>4. ASSUME NEW u \in Users, NEW c \in CallIds, NEW k \in Candidates, IceRead(r, u, c, k)
          PROVE  FALSE
      BY <1>0, <2>4 DEF IceRead, TypeOK, Idle, Enders
    <2>5. ASSUME NEW u \in Users, NEW c \in CallIds, RingAgain(r, u, c)
          PROVE  call'[req'[r].call].ended
      BY <1>3, <2>5 DEF RingAgain
    <2> QED
      BY <1>5, <1>8, <2>2, <2>3, <2>4, <2>5 DEF Arrive
  <1>9. ASSUME Finish(r) PROVE FALSE
    BY <1>0, <1>2, <1>9 DEF Finish, TypeOK
  <1>10. ASSUME NEW where, Goto(r, where), where \notin Enders PROVE FALSE
    BY <1>0, <1>10 DEF Goto, TypeOK, Request, RequestRecord
  <1>11. ASSUME NEW c \in CallIds, InitiateCreate(r, c) PROVE FALSE
    BY <1>0, <1>11 DEF InitiateCreate, TypeOK, Request, RequestRecord, Enders
  <1>12. ASSUME Step(r)
         PROVE  call'[req'[r].call].ended
    <2>1. CASE InitiateFree(r) \/ AcceptWrite(r)
      <3>1. \E where : Goto(r, where) /\ where \notin Enders
        BY <2>1 DEF InitiateFree, AcceptWrite, Update, Enders
      <3> QED
        BY <1>10, <3>1
    <2>2. CASE \/ InitiateBusy(r) \/ InitiateJoin(r) \/ RingWrite(r) \/ AcceptJoin(r)
               \/ DeclineLeave(r) \/ EndNotify(r) \/ IceWrite(r) \/ Missing(r)
      BY <1>9, <2>2 DEF InitiateBusy, InitiateJoin, RingWrite, AcceptJoin, DeclineLeave,
                        EndNotify, IceWrite, Missing, Abandon, Join, HasParents
    <2>3. CASE EndFind(r) \/ \E u \in Users : EndLoop(r, u)
      BY <1>6, <2>3 DEF EndFind, EndLoop
    <2> QED
      BY <1>4, <1>11, <1>12, <2>1, <2>2, <2>3 DEF Step
  <1>13. ASSUME NEW lost \in SUBSET Rows, NEW gone \in SUBSET Users, Cascade(lost, gone)
         PROVE  call'[req'[r].call].ended
    BY <1>3, <1>13 DEF Cascade
  <1>14. CASE UNCHANGED vars
    BY <1>3, <1>14 DEF vars
  <1>15. ASSUME Fail(r) PROVE FALSE
    BY <1>9, <1>15 DEF Fail, Abandon
  <1> QED
    BY <1>3, <1>7, <1>8, <1>12, <1>13, <1>14, <1>15, EveryStep

LEMMA OverStep ==
  ASSUME TypeOK, OverIsEnded, [Next]_vars
  PROVE  OverIsEnded'
  <1>1. ASSUME UNCHANGED call PROVE OverIsEnded'
    BY <1>1 DEF OverIsEnded
  <1>2. ASSUME NEW r \in Requests, NEW c \in CallIds, InitiateCreate(r, c)
        PROVE  OverIsEnded'
    BY <1>2 DEF InitiateCreate, OverIsEnded, TypeOK, Terminal
  <1>3. ASSUME NEW r \in Requests,
               RingWrite(r) \/ AcceptWrite(r) \/ DeclineWrite(r) \/ EndWrite(r)
        PROVE  OverIsEnded'
    BY <1>3, WritesOfCalls DEF OverIsEnded
  <1>4. ASSUME NEW lost \in SUBSET Rows, NEW gone \in SUBSET Users, Cascade(lost, gone)
        PROVE  OverIsEnded'
    BY <1>4 DEF Cascade, NoRow, OverIsEnded, Terminal
  <1>5. ASSUME NEW r \in Requests, Arrive(r) PROVE UNCHANGED call
    BY <1>5 DEF Arrive, InitiateRead, RingRead, RingAgain, AcceptRead, DeclineRead,
                EndRead, EndReadOver, Begin, IceRead, rows
  <1>6. ASSUME NEW r \in Requests, Step(r) PROVE OverIsEnded'
    BY <1>1, <1>2, <1>3, <1>6
       DEF Step, InitiateBusy, InitiateFree, InitiateJoin, AcceptJoin,
           DeclineLeave, EndFind, EndLoop, EndNotify, IceWrite, Missing, Abandon, Join,
           HasParents, rows
  <1>7. ASSUME NEW r \in Requests, Fail(r) PROVE UNCHANGED call
    BY <1>7 DEF Fail, rows, Abandon
  <1>8. CASE UNCHANGED vars
    BY <1>1, <1>8 DEF vars
  <1> QED
    BY <1>1, <1>4, <1>5, <1>6, <1>7, <1>8, EveryStep

LEMMA ToldStep ==
  ASSUME JoinInv, ToldInv, TypeOK', [Next]_vars
  PROVE  ToldInv'
  <1>0. TypeOK
    BY DEF JoinInv
  <1>1. OverIsEnded'
    BY <1>0, OverStep DEF ToldInv
  <1>2. EndersKnow'
    BY EndersStep DEF EndersKnow, Stored
  <1>3. ASSUME NEW m \in sent'
        PROVE  call'[m.call].status # "absent" /\ (Stored(m.call)' => Told(m)')
    <2>1. CASE m \in sent
      <3>1. m.call \in CallIds /\ call[m.call].status # "absent"
        BY <1>0, <2>1 DEF TypeOK, Event, ToldInv, SentNamesCalls
      <3>2. Lasts(m.call)
        BY <1>0, <3>1, RowsLast
      <3>3. Stored(m.call) => Told(m)
        BY <2>1 DEF ToldInv
      <3> QED
        BY <3>2, <3>3 DEF Lasts, Told, Stored
    <2>2. CASE m \notin sent
      BY <2>2, NewsIsTrue
    <2> QED
      BY <2>1, <2>2
  <1> QED
    BY <1>1, <1>2, <1>3 DEF ToldInv, SentNamesCalls

LEMMA InitToldInv == Init => ToldInv
  BY DEF Init, ToldInv, OverIsEnded, EndersKnow, Enders, SentNamesCalls, NoRow, Terminal, Idle

\* An event goes out only after the rows that it speaks of were written, and
\* nothing that happens to the call later takes back what it said, short of the
\* deletion of the call, or of the account of the user it speaks of.
THEOREM ToldSafety == Spec => []ToldAfterStored
  <1>1. JoinInv /\ ToldInv /\ TypeOK' /\ [Next]_vars => ToldInv'
    BY ToldStep
  <1>2. ToldInv => ToldAfterStored
    BY ToldMeaning
  <1> QED
    BY <1>1, <1>2, InitJoinInv, InitToldInv, JoinStep, TypeCorrect, PTL DEF Spec
-----------------------------------------------------------------------------
(* Handlers of one call that do not overlap.  Those of different calls     *)
(* interleave as they like.                                                *)

\* No two handlers work on the same call.
Apart ==
    \A r, s \in Requests :
        (r # s /\ req[r].call # None) => req[s].call # req[r].call

\* It is so when there is room for one handler only.
OneAtATime == \A r, s \in Requests : r = s

\* What a handler read, or wrote, of its call is still so.
Knows(r) ==
    (req[r].call # None /\ Stored(req[r].call)) =>
        /\ (At(r, "initiate.join") \/ At(r, "ring.write"))
               => call[req[r].call].status = "INITIATED"
        /\ At(r, "accept.join") => call[req[r].call].status = "ACTIVE"
        /\ At(r, "end.write") => call[req[r].call].status \in Live
        /\ At(r, "ice.write") /\ req[r].user \in accounts
               => req[r].list = StoredList(req[r].call, req[r].user)

SerialKnows == \A r \in Requests : Knows(r)

\* A saved candidate is one of a call that was created.
SavedHaveCalls == \A t \in acked : call[t[1]].status # "absent"

SerialInv == SerialKnows /\ SavedHaveCalls /\ SavedCandidatesStay

\* One slot keeps handlers apart.
LEMMA SerialIsApart == ASSUME OneAtATime PROVE Spec => []Apart
  <1>1. Apart
    BY DEF OneAtATime, Apart
  <1> QED
    BY <1>1, PTL

\* A handler writes the row and the candidates of its own call, unless it
\* creates one.
LEMMA OwnCall ==
  ASSUME TypeOK, NEW r \in Requests, Arrive(r) \/ Step(r) \/ Fail(r)
  PROVE  /\ \A s \in Requests : s # r => req'[s] = req[s]
         /\ \A c \in CallIds : (c # req[r].call /\ call[c].status # "absent")
                                   => call'[c] = call[c]
         /\ \A c \in CallIds, u \in Users, k \in Candidates :
               c # req[r].call => (<<c, u, k>> \in ice' <=> <<c, u, k>> \in ice)
         /\ UNCHANGED accounts
  <1>1. ASSUME Arrive(r) \/ Fail(r)
        PROVE  /\ \A s \in Requests : s # r => req'[s] = req[s]
               /\ UNCHANGED <<call, ice>>
    BY <1>1 DEF Arrive, InitiateRead, RingRead, RingAgain, AcceptRead, DeclineRead,
                EndRead, EndReadOver, Begin, IceRead, Fail, Finish, rows, TypeOK, Abandon
  <1>2. ASSUME Step(r)
        PROVE  \A s \in Requests : s # r => req'[s] = req[s]
    BY <1>2 DEF Step, InitiateBusy, InitiateFree, InitiateCreate, InitiateJoin,
                RingWrite, AcceptWrite, AcceptJoin, DeclineWrite, DeclineLeave,
                EndWrite, EndFind, EndLoop, EndNotify, IceWrite, Missing, Update,
                Close, Goto, Finish, TypeOK, Abandon, Join, HasParents
  <1>3. ASSUME RingWrite(r) \/ AcceptWrite(r) \/ DeclineWrite(r) \/ EndWrite(r)
        PROVE  /\ \A c \in CallIds : c # req[r].call => call'[c] = call[c]
               /\ UNCHANGED ice
    BY <1>3, WritesOfCalls DEF RingWrite, AcceptWrite, DeclineWrite, EndWrite, Update
  <1>4. ASSUME NEW d \in CallIds, InitiateCreate(r, d)
        PROVE  /\ \A c \in CallIds : call[c].status # "absent" => call'[c] = call[c]
               /\ UNCHANGED ice
    BY <1>4 DEF InitiateCreate, Unused, TypeOK
  <1>5. ASSUME IceWrite(r)
        PROVE  /\ UNCHANGED call
               /\ \A c \in CallIds, u \in Users, k \in Candidates :
                     c # req[r].call => (<<c, u, k>> \in ice' <=> <<c, u, k>> \in ice)
    BY <1>5 DEF IceWrite, HasParents
  <1>6. ASSUME InitiateBusy(r) \/ InitiateFree(r) \/ InitiateJoin(r) \/ AcceptJoin(r)
                  \/ DeclineLeave(r) \/ EndFind(r) \/ (\E u \in Users : EndLoop(r, u))
                  \/ EndNotify(r) \/ Missing(r)
        PROVE  UNCHANGED <<call, ice>>
    BY <1>6 DEF InitiateBusy, InitiateFree, InitiateJoin, AcceptJoin, DeclineLeave,
                EndFind, EndLoop, EndNotify, Missing, rows, Abandon, Join, HasParents
  <1>7. UNCHANGED accounts
    BY HandlersKeepAccounts
  <1> QED
    BY <1>1, <1>2, <1>3, <1>4, <1>5, <1>6, <1>7 DEF Step

\* What a handler that waits knows stays true while others leave its call alone.
LEMMA WaitingKnows ==
  ASSUME TypeOK, RequestsNameCalls, Apart, SerialKnows,
         NEW r \in Requests, Arrive(r) \/ Step(r) \/ Fail(r),
         NEW s \in Requests, s # r
  PROVE  Knows(s)'
  <1> DEFINE c == req[s].call
  <1>1. req'[s] = req[s] /\ Knows(s)
    BY OwnCall DEF SerialKnows
  <1>2. CASE c = None
    BY <1>1, <1>2 DEF Knows
  <1>3. CASE c # None
    <2>1. c \in CallIds /\ call[c].status # "absent" /\ c # req[r].call
      BY <1>3 DEF TypeOK, Request, RequestRecord, RequestsNameCalls, Apart
    <2>2. call'[c] = call[c] /\ accounts' = accounts
      BY <2>1, OwnCall
    <2>3. req[s].user \in Users \/ ~At(s, "ice.write")
      BY DEF TypeOK, Request, At
    <2>4. req[s].user \in Users => StoredList(c, req[s].user)' = StoredList(c, req[s].user)
      BY <1>1, <2>1, OwnCall DEF StoredList
    <2> QED
      BY <1>1, <1>3, <2>2, <2>3, <2>4 DEF Knows, Stored, At
  <1> QED
    BY <1>2, <1>3

\* A handler knows what it has just read or written.
LEMMA ReaderKnows ==
  ASSUME TypeOK, TypeOK', SerialKnows,
         NEW r \in Requests, Arrive(r) \/ Step(r) \/ Fail(r)
  PROVE  Knows(r)'
  <1> DEFINE Free == {"initiate.find", "initiate.create", "accept.write", "decline.write",
                      "decline.leave", "end.find", "end.loop", "end.notify", "idle"}
  <1>1. ASSUME req'[r].pc \in Free PROVE Knows(r)'
    BY <1>1 DEF Knows, At
  <1>2. ASSUME NEW u \in Users, NEW c \in CallIds, NEW where \in Await, Begin(r, u, c, where)
        PROVE  /\ req'[r].pc = where /\ req'[r].call = c /\ call' = call
    BY <1>2 DEF Begin, Idle, TypeOK, rows
  <1>3. ASSUME NEW u \in Users, NEW c \in CallIds, RingRead(r, u, c) PROVE Knows(r)'
    BY <1>2, <1>3 DEF RingRead, Knows, At, Await
  <1>4. ASSUME NEW u \in Users, NEW c \in CallIds, EndRead(r, u, c) PROVE Knows(r)'
    BY <1>2, <1>4 DEF EndRead, Knows, At, Await
  <1>5. ASSUME NEW u \in Users, NEW c \in CallIds,
               AcceptRead(r, u, c) \/ DeclineRead(r, u, c) \/ EndReadOver(r, u, c)
        PROVE  Knows(r)'
    <2>1. req'[r].pc \in Free
      BY <1>2, <1>5 DEF AcceptRead, DeclineRead, EndReadOver, Await
    <2> QED
      BY <1>1, <2>1
  <1>6. ASSUME NEW u \in Users, NEW c \in CallIds, NEW k \in Candidates, IceRead(r, u, c, k)
        PROVE  Knows(r)'
    <2>1. /\ req'[r].pc = "ice.write" /\ req'[r].call = c /\ req'[r].user = u
          /\ req'[r].list = StoredList(c, u) /\ ice' = ice
      BY <1>6 DEF IceRead, Idle, TypeOK, rows
    <2> QED
      BY <2>1 DEF Knows, At, StoredList
  <1>7. ASSUME NEW u \in Users, NEW v \in Conversations, InitiateRead(r, u, v)
        PROVE  req'[r].pc \in Free
    BY <1>7 DEF InitiateRead, Idle, TypeOK
  <1>8. ASSUME NEW u \in Users, NEW c \in CallIds, RingAgain(r, u, c)
        PROVE  req'[r].pc \in Free
    BY <1>8 DEF RingAgain, Idle
  <1>9. ASSUME Arrive(r) PROVE Knows(r)'
    BY <1>1, <1>3, <1>4, <1>5, <1>6, <1>7, <1>8, <1>9 DEF Arrive
  <1>10. ASSUME Finish(r) PROVE req'[r].pc \in Free
    BY <1>10 DEF Finish, Idle, TypeOK
  <1>11. ASSUME NEW c \in CallIds, InitiateCreate(r, c) PROVE Knows(r)'
    <2>1. /\ req'[r].pc = "initiate.join" /\ req'[r].call = c
          /\ call'[c].status = "INITIATED"
      BY <1>11 DEF InitiateCreate, TypeOK, Request, RequestRecord
    <2> QED
      BY <2>1 DEF Knows, At
  <1>12. ASSUME AcceptWrite(r) PROVE Knows(r)'
    <2>1. req[r].call \in CallIds
      BY <1>12 DEF AcceptWrite, Update, At, TypeOK, Request, Calling
    <2>2. call[req[r].call] \in CallRow
      BY <2>1 DEF TypeOK
    <2>3. /\ req'[r].pc = "accept.join" /\ req'[r].call = req[r].call
      BY <1>12 DEF AcceptWrite, Update, Goto, TypeOK, Request, RequestRecord
    <2>4. call'[req[r].call].status = "ACTIVE"
      BY <1>12, <2>1, <2>2 DEF AcceptWrite, Update, TypeOK, CallRow
    <2> QED
      BY <2>3, <2>4 DEF Knows, At
  <1>13. ASSUME InitiateFree(r) \/ DeclineWrite(r) \/ EndWrite(r)
         PROVE  req'[r].pc \in Free
    BY <1>13 DEF InitiateFree, DeclineWrite, EndWrite, Update, Goto, TypeOK, Request,
                 RequestRecord
  <1>14. ASSUME NEW todo, Close(r, todo) PROVE req'[r].pc \in Free
    BY <1>14 DEF Close, TypeOK, Request, RequestRecord
  <1>15. ASSUME Step(r) PROVE Knows(r)'
    BY <1>1, <1>10, <1>11, <1>12, <1>13, <1>14, <1>15
       DEF Step, InitiateBusy, InitiateJoin, RingWrite, AcceptJoin, DeclineLeave, EndFind,
           EndLoop, EndNotify, IceWrite, Missing, Abandon, Join, HasParents
  <1>16. ASSUME Fail(r) PROVE Knows(r)'
    BY <1>1, <1>10, <1>16 DEF Fail, Abandon
  <1> QED
    BY <1>9, <1>15, <1>16

\* The rows that a deletion takes with it, and those it leaves.
LEMMA Deletion ==
  ASSUME TypeOK, NEW lost \in SUBSET Rows, NEW gone \in SUBSET Users, Cascade(lost, gone),
         NEW c \in CallIds
  PROVE  /\ accounts' = accounts \ gone
         /\ \/ Stored(c) /\ call'[c] = NoRow("deleted")
            \/ /\ call'[c] = call[c]
               /\ \A u \in accounts', k \in Candidates : <<c, u, k>> \in ice' <=> <<c, u, k>> \in ice
               /\ \A u \in accounts' : <<c, u>> \in joined' <=> <<c, u>> \in joined
               /\ \A u \in accounts' : <<c, u>> \in left' <=> <<c, u>> \in left
  <1>1. CASE c \in lost
    BY <1>1, RowsAreCalls DEF Cascade
  <1>2. CASE c \notin lost
    BY <1>2 DEF Cascade
  <1> QED
    BY <1>1, <1>2

\* A deleted row is none that a handler can read or write.
LEMMA DeletedIsGone ==
  ASSUME NEW c, call'[c] = NoRow("deleted")
  PROVE  ~Stored(c)' /\ call'[c].status = "deleted" /\ call'[c].conv = None
  BY DEF NoRow, Stored, CallStatus, Live, Terminal

\* Deletions only take calls away from handlers.
LEMMA DeletionKnows ==
  ASSUME TypeOK, SerialKnows,
         NEW lost \in SUBSET Rows, NEW gone \in SUBSET Users, Cascade(lost, gone),
         NEW s \in Requests
  PROVE  Knows(s)'
  <1> DEFINE c == req[s].call
  <1>1. req' = req /\ Knows(s)
    BY DEF Cascade, SerialKnows
  <1>2. CASE c = None
    BY <1>1, <1>2 DEF Knows
  <1>3. CASE c # None
    <2>1. c \in CallIds
      BY <1>3 DEF TypeOK, Request, RequestRecord
    <2>2. CASE ~Stored(c)'
      BY <1>1, <2>2 DEF Knows, Stored
    <2>3. CASE Stored(c)'
      <3>1. call'[c] # NoRow("deleted")
        BY <1>1, <2>3, DeletedIsGone DEF Stored
      <3>2. /\ call'[c] = call[c]
            /\ accounts' \subseteq accounts
            /\ \A u \in accounts', k \in Candidates : <<c, u, k>> \in ice' <=> <<c, u, k>> \in ice
        BY <2>1, <3>1, Deletion
      <3>3. req[s].user \in Users \/ ~At(s, "ice.write")
        BY DEF TypeOK, Request, At
      <3>4. req[s].user \in accounts' => StoredList(c, req[s].user)' = StoredList(c, req[s].user)
        BY <1>1, <3>2 DEF StoredList
      <3> QED
        BY <1>1, <1>3, <3>2, <3>3, <3>4 DEF Knows, Stored, At
    <2> QED
      BY <2>2, <2>3
  <1> QED
    BY <1>2, <1>3

\* Every step keeps what the handlers know.
LEMMA KnowsStep ==
  ASSUME TypeOK, TypeOK', RequestsNameCalls, SerialKnows, Apart, [Next]_vars
  PROVE  SerialKnows'
  <1>1. ASSUME NEW r \in Requests, Arrive(r) \/ Step(r) \/ Fail(r), NEW s \in Requests
        PROVE  Knows(s)'
    BY <1>1, ReaderKnows, WaitingKnows
  <1>2. ASSUME NEW lost \in SUBSET Rows, NEW gone \in SUBSET Users, Cascade(lost, gone),
               NEW s \in Requests
        PROVE  Knows(s)'
    BY <1>2, DeletionKnows
  <1>3. CASE UNCHANGED vars
    BY <1>3 DEF vars, SerialKnows, Knows, Stored, At, StoredList
  <1> QED
    BY <1>1, <1>2, <1>3, EveryStep DEF SerialKnows

-----------------------------------------------------------------------------
(* The life cycle *)

\* What a step may make of the row of a call.
Moves(c) ==
    \/ call'[c] = call[c]
    \/ call[c].status = "absent" /\ call'[c].status = "INITIATED"
    \/ /\ Stored(c) /\ call'[c].conv = call[c].conv
       /\ \/ call[c].status = "INITIATED" /\ call'[c].status = "RINGING"
          \/ call[c].status \in Live /\ call'[c].status = "ENDED"
          \/ call'[c].status \in {"ACTIVE", "DECLINED"}
    \/ Stored(c) /\ call'[c] = NoRow("deleted")

\* The row of the handler's own call moves as the handler read it.
LEMMA WriteMoves ==
  ASSUME TypeOK, SerialKnows, NEW r \in Requests,
         RingWrite(r) \/ AcceptWrite(r) \/ DeclineWrite(r) \/ EndWrite(r),
         NEW c \in CallIds
  PROVE  Moves(c)
  <1>1. CASE c # req[r].call
    BY <1>1, WritesOfCalls DEF Moves
  <1>2. CASE c = req[r].call
    <2>1. call[c] \in CallRow /\ Stored(c) /\ c # None
      BY <1>2, WritesOfCalls, ConstantsAssumption DEF TypeOK
    <2>2. Knows(r)
      BY DEF SerialKnows
    <2>3. ASSUME RingWrite(r) PROVE Moves(c)
      <3>1. call[c].status = "INITIATED"
        BY <1>2, <2>1, <2>2, <2>3 DEF RingWrite, Knows
      <3>2. call'[c].status = "RINGING" /\ call'[c].conv = call[c].conv
        BY <1>2, <2>1, <2>3 DEF RingWrite, TypeOK, CallRow
      <3> QED
        BY <2>1, <3>1, <3>2 DEF Moves
    <2>4. ASSUME EndWrite(r) PROVE Moves(c)
      <3>1. call[c].status \in Live
        BY <1>2, <2>1, <2>2, <2>4 DEF EndWrite, Update, Knows
      <3>2. call'[c].status = "ENDED" /\ call'[c].conv = call[c].conv
        BY <1>2, <2>1, <2>4 DEF EndWrite, Update, TypeOK, CallRow
      <3> QED
        BY <2>1, <3>1, <3>2 DEF Moves
    <2>5. ASSUME AcceptWrite(r) PROVE Moves(c)
      <3>1. call'[c].status = "ACTIVE" /\ call'[c].conv = call[c].conv
        BY <1>2, <2>1, <2>5 DEF AcceptWrite, Update, TypeOK, CallRow
      <3> QED
        BY <2>1, <3>1 DEF Moves
    <2>6. ASSUME DeclineWrite(r) PROVE Moves(c)
      <3>1. call'[c].status = "DECLINED" /\ call'[c].conv = call[c].conv
        BY <1>2, <2>1, <2>6 DEF DeclineWrite, Update, TypeOK, CallRow
      <3> QED
        BY <2>1, <3>1 DEF Moves
    <2> QED
      BY <2>3, <2>4, <2>5, <2>6
  <1> QED
    BY <1>1, <1>2

\* So does every row in every step.
LEMMA EveryMove ==
  ASSUME TypeOK, SerialKnows, [Next]_vars, NEW c \in CallIds
  PROVE  Moves(c)
  <1>1. ASSUME NEW r \in Requests, NEW d \in CallIds, InitiateCreate(r, d)
        PROVE  Moves(c)
    BY <1>1 DEF InitiateCreate, Unused, TypeOK, Moves
  <1>2. ASSUME NEW r \in Requests, Arrive(r) \/ Fail(r) PROVE UNCHANGED call
    BY <1>2 DEF Arrive, InitiateRead, RingRead, RingAgain, AcceptRead, DeclineRead,
                EndRead, EndReadOver, Begin, IceRead, Fail, rows, Abandon
  <1>3. ASSUME NEW r \in Requests, Step(r) PROVE Moves(c)
    <2>1. CASE RingWrite(r) \/ AcceptWrite(r) \/ DeclineWrite(r) \/ EndWrite(r)
      BY <2>1, WriteMoves
    <2>2. CASE \/ InitiateBusy(r) \/ InitiateFree(r) \/ InitiateJoin(r) \/ AcceptJoin(r)
               \/ DeclineLeave(r) \/ EndFind(r) \/ (\E u \in Users : EndLoop(r, u))
               \/ EndNotify(r) \/ IceWrite(r) \/ Missing(r)
      BY <2>2 DEF Moves, InitiateBusy, InitiateFree, InitiateJoin, AcceptJoin, DeclineLeave,
                  EndFind, EndLoop, EndNotify, IceWrite, Missing, rows, Abandon, Join, HasParents
    <2> QED
      BY <1>1, <1>3, <2>1, <2>2 DEF Step
  <1>4. ASSUME NEW lost \in SUBSET Rows, NEW gone \in SUBSET Users, Cascade(lost, gone)
        PROVE  Moves(c)
    BY <1>4, Deletion DEF Moves
  <1>5. CASE UNCHANGED vars
    BY <1>5 DEF vars, Moves
  <1> QED
    BY <1>2, <1>3, <1>4, <1>5, EveryStep DEF Moves

\* These moves are those of the life cycle.
LEMMA MovesOfStatus ==
  ASSUME NEW c \in CallIds, Moves(c)
  PROVE  LET from == call[c].status
             to   == call'[c].status
         IN  \/ from = to
             \/ from = "absent" /\ to = "INITIATED"
             \/ from = "INITIATED" /\ to = "RINGING"
             \/ from \in Live /\ to = "ENDED"
             \/ from \in CallStatus /\ to \in {"ACTIVE", "DECLINED", "deleted"}
  BY DEF Moves, Stored, NoRow

-----------------------------------------------------------------------------
(* Saved candidates *)

\* A candidate that was saved is in the list that is written back.
LEMMA WriteKeeps ==
  ASSUME TypeOK, SerialKnows, SavedCandidatesStay, NEW r \in Requests, IceWrite(r),
         NEW t \in acked', Stored(t[1]), t[2] \in accounts
  PROVE  t \in ice'
  <1> DEFINE c == req[r].call
             u == req[r].user
             k == req[r].cand
  <1>1. c \in CallIds /\ c # None /\ u \in Users /\ k \in Candidates
    BY ConstantsAssumption DEF IceWrite, At, TypeOK, Request, Calling
  <1>2. req[r].list = StoredList(c, u)
    BY <1>1 DEF IceWrite, HasParents, SerialKnows, Knows, HasParents
  <1>3. /\ acked' = acked \cup {<<c, u, k>>}
        /\ ice' = {w \in ice : ~(w[1] = c /\ w[2] = u)}
                     \cup {<<c, u, j>> : j \in req[r].list \cup {k}}
    BY DEF IceWrite, HasParents
  <1> HIDE DEF c, u, k
  <1>4. CASE t = <<c, u, k>>
    BY <1>3, <1>4
  <1>5. CASE t # <<c, u, k>>
    <2>1. t \in acked /\ t \in ice
      BY <1>3, <1>5 DEF SavedCandidatesStay
    <2>2. /\ t = <<t[1], t[2], t[3]>>
          /\ t[3] \in Candidates
      BY <2>1 DEF TypeOK
    <2>3. CASE t[1] = c /\ t[2] = u
      <3>1. t = <<c, u, t[3]>> /\ t[3] \in StoredList(c, u)
        BY <2>1, <2>2, <2>3 DEF StoredList
      <3> QED
        BY <1>2, <1>3, <3>1
    <2>4. CASE ~(t[1] = c /\ t[2] = u)
      BY <1>3, <2>1, <2>4
    <2> QED
      BY <2>3, <2>4
  <1> QED
    BY <1>4, <1>5

\* Nothing but an ice-candidate and a deletion touches the candidates.
LEMMA OtherSteps ==
  ASSUME [Next]_vars
  PROVE  \/ UNCHANGED <<ice, acked, accounts>>
         \/ \E r \in Requests : IceWrite(r)
         \/ \E lost \in SUBSET Rows, gone \in SUBSET Users :
               Cascade(lost, gone) /\ convs' \subseteq convs
  <1>1. ASSUME NEW r \in Requests, Arrive(r) \/ Fail(r) PROVE UNCHANGED <<ice, acked, accounts>>
    BY <1>1 DEF Arrive, InitiateRead, RingRead, RingAgain, AcceptRead, DeclineRead,
                EndRead, EndReadOver, Begin, IceRead, Fail, rows, history, Abandon
  <1>2. ASSUME NEW r \in Requests, Step(r) PROVE UNCHANGED <<ice, acked, accounts>> \/ IceWrite(r)
    BY <1>2 DEF Step, InitiateBusy, InitiateFree, InitiateCreate, InitiateJoin, RingWrite,
                AcceptWrite, AcceptJoin, DeclineWrite, DeclineLeave, EndWrite, EndFind,
                EndLoop, EndNotify, Missing, Update, rows, history, Abandon, Join, HasParents
  <1>3. CASE UNCHANGED vars
    BY <1>3 DEF vars
  <1> QED
    BY <1>1, <1>2, <1>3, EveryStep

\* Every step keeps what was saved.
LEMMA SavedStep ==
  ASSUME TypeOK, TypeOK', SerialKnows, SavedHaveCalls, SavedCandidatesStay,
         [Next]_vars
  PROVE  SavedHaveCalls' /\ SavedCandidatesStay'
  <1>1. \A c \in CallIds : call[c].status # "absent" => Lasts(c)
    BY RowsLast
  <1>2. acked' \subseteq CallIds \X Users \X Candidates
    BY DEF TypeOK
  <1>3. CASE UNCHANGED <<ice, acked, accounts>>
    BY <1>1, <1>2, <1>3 DEF SavedHaveCalls, SavedCandidatesStay, Lasts, Stored
  <1>4. ASSUME NEW r \in Requests, IceWrite(r)
        PROVE  SavedHaveCalls' /\ SavedCandidatesStay'
    <2>1. call' = call /\ accounts' = accounts
      BY <1>4 DEF IceWrite
    <2>2. SavedCandidatesStay'
      BY <1>4, <2>1, WriteKeeps DEF SavedCandidatesStay, Stored
    <2>3. Stored(req[r].call) /\ acked' = acked \cup {<<req[r].call, req[r].user, req[r].cand>>}
      BY <1>4 DEF IceWrite, HasParents
    <2>4. SavedHaveCalls'
      BY <2>1, <2>3 DEF SavedHaveCalls, Stored, CallStatus, Live, Terminal
    <2> QED
      BY <2>2, <2>4
  <1>5. ASSUME NEW lost \in SUBSET Rows, NEW gone \in SUBSET Users, Cascade(lost, gone)
        PROVE  SavedHaveCalls' /\ SavedCandidatesStay'
    <2>1. acked' = acked /\ accounts' \subseteq accounts
      BY <1>5 DEF Cascade, history
    <2>2. SavedHaveCalls'
      BY <1>1, <1>2, <2>1 DEF SavedHaveCalls, Lasts
    <2>3. ASSUME NEW t \in acked', Stored(t[1])', t[2] \in accounts' PROVE t \in ice'
      <3>1. t = <<t[1], t[2], t[3]>> /\ t[1] \in CallIds /\ t[2] \in Users /\ t[3] \in Candidates
        BY <1>2
      <3>2. /\ call'[t[1]] = call[t[1]]
            /\ <<t[1], t[2], t[3]>> \in ice' <=> <<t[1], t[2], t[3]>> \in ice
        BY <1>5, <2>3, <3>1, Deletion, DeletedIsGone
      <3> QED
        BY <2>1, <2>3, <3>1, <3>2 DEF SavedCandidatesStay, Stored
    <2> QED
      BY <2>2, <2>3 DEF SavedCandidatesStay
  <1> QED
    BY <1>3, <1>4, <1>5, OtherSteps

-----------------------------------------------------------------------------
(* Who is left in an ended call *)

\* How a row of an ended call is accounted for.
Accounted(p) == p \in left \/ Closing(p) \/ p \in late \/ p[1] \in cut

\* It stays accounted for under the steps that neither end its call nor come
\* from the end of it.
LEMMA AccountedStays ==
  ASSUME TypeOK, EndedCallIsEmpty, NEW r \in Requests,
         \A s \in Requests : s # r => req'[s] = req[s],
         NEW p \in joined, call[p[1]].status = "ENDED",
         req[r].pc \in {"end.find", "end.loop"} => req[r].call # p[1],
         p \in left => p \in left', p \in late => p \in late', p[1] \in cut => p[1] \in cut'
  PROVE  Accounted(p)'
  <1>1. CASE Closing(p)
    <2>1. PICK s \in Requests :
             /\ req[s].call = p[1]
             /\ At(s, "end.find") \/ (At(s, "end.loop") /\ p[2] \in req[s].todo)
      BY <1>1 DEF Closing
    <2>2. req'[s] = req[s]
      BY <2>1 DEF At
    <2> QED
      BY <2>1, <2>2 DEF Accounted, Closing, At
  <1>2. CASE ~Closing(p)
    BY <1>2 DEF EndedCallIsEmpty, Accounted
  <1> QED
    BY <1>1, <1>2

\* Whoever joins an ended call is found by an end that is still to read, or is late.
LEMMA JoinerIsAccounted ==
  ASSUME TypeOK, NEW r \in Requests, InitiateJoin(r) \/ AcceptJoin(r),
         \A s \in Requests : s # r => req'[s] = req[s],
         NEW p, p = <<req[r].call, req[r].user>>, call[p[1]].status = "ENDED"
  PROVE  Accounted(p)'
  <1>1. late' = late \cup {q \in {p} : Closed(q[1])}
    BY DEF InitiateJoin, AcceptJoin, Join
  <1>2. CASE Closed(p[1])
    BY <1>1, <1>2 DEF Accounted
  <1>3. CASE ~Closed(p[1])
    <2>1. PICK s \in Requests : req[s].call = p[1] /\ At(s, "end.find")
      BY <1>3 DEF Closed
    <2>2. req'[s] = req[s]
      BY <2>1 DEF InitiateJoin, AcceptJoin, At
    <2> QED
      BY <2>1, <2>2 DEF Accounted, Closing, At
  <1> QED
    BY <1>2, <1>3

\* The handler that ends a call finds every row that is open, and closes one after
\* the other.
LEMMA EnderCloses ==
  ASSUME TypeOK, EndedCallIsEmpty, NEW r \in Requests,
         EndFind(r) \/ (\E u \in Users : EndLoop(r, u)),
         NEW p \in joined, call[p[1]].status = "ENDED", req[r].call = p[1]
  PROVE  Accounted(p)'
  <1>0. p \in part /\ p = <<p[1], p[2]>> /\ p[2] \in Users
    BY DEF TypeOK
  <1>1. left \subseteq left' /\ UNCHANGED <<late, cut>>
    BY DEF EndFind, EndLoop, rows, history
  <1>2. \A s \in Requests : s # r => req'[s] = req[s]
    BY DEF EndFind, EndLoop, Close, TypeOK
  <1>3. CASE p \in left' \/ p \in late \/ p[1] \in cut
    BY <1>1, <1>3 DEF Accounted
  <1>4. CASE p \notin left' /\ p \notin late /\ p[1] \notin cut
    <2>1. ASSUME NEW todo, Close(r, todo), p[2] \in todo PROVE Closing(p)'
      <3>1. req'[r].pc = "end.loop" /\ req'[r].todo = todo /\ req'[r].call = req[r].call
        BY <2>1 DEF Close, TypeOK, Request, RequestRecord
      <3> QED
        BY <2>1, <3>1 DEF Closing, At
    <2>2. CASE EndFind(r)
      <3>1. p[2] \in {u \in Users : <<req[r].call, u>> \in part \ left}
        BY <1>0, <1>1, <1>4
      <3> QED
        BY <2>1, <2>2, <3>1 DEF EndFind, Accounted
    <2>3. ASSUME NEW u \in Users, EndLoop(r, u) PROVE Accounted(p)'
      <3>1. PICK s \in Requests :
               /\ req[s].call = p[1]
               /\ At(s, "end.find") \/ (At(s, "end.loop") /\ p[2] \in req[s].todo)
        BY <1>1, <1>4 DEF EndedCallIsEmpty, Closing
      <3>2. CASE s # r
        BY <1>2, <3>1, <3>2 DEF Accounted, Closing, At
      <3>3. CASE s = r
        <4>1. p[2] \in req[r].todo
          BY <2>3, <3>1, <3>3 DEF EndLoop, At
        <4>2. <<req[r].call, u>> \in left'
          BY <2>3 DEF EndLoop
        <4>3. p[2] # u
          BY <1>0, <1>4, <4>2
        <4> QED
          BY <2>1, <2>3, <4>1, <4>3 DEF EndLoop, Accounted
      <3> QED
        BY <3>2, <3>3
    <2> QED
      BY <2>2, <2>3
  <1> QED
    BY <1>3, <1>4

\* No other write of a status is that of an end.
LEMMA OnlyEndEnds ==
  ASSUME TypeOK, NEW r \in Requests, RingWrite(r) \/ AcceptWrite(r) \/ DeclineWrite(r)
  PROVE  call'[req[r].call].status # "ENDED"
  <1> DEFINE c == req[r].call
             old == call[c]
  <1>1. c \in CallIds /\ old \in CallRow /\ call \in [CallIds -> CallRow]
    BY DEF RingWrite, AcceptWrite, DeclineWrite, Update, At, TypeOK, Request, Calling
  <1>2. \/ call' = [call EXCEPT ![c] = [old EXCEPT !.status = "RINGING"]]
        \/ call' = [call EXCEPT ![c] = [old EXCEPT !.status = "ACTIVE", !.started = TRUE]]
        \/ call' = [call EXCEPT ![c] = [old EXCEPT !.status = "DECLINED", !.ended = TRUE]]
    BY <1>1 DEF RingWrite, AcceptWrite, DeclineWrite, Update, CallRow
  <1>3. /\ [old EXCEPT !.status = "RINGING"].status = "RINGING"
        /\ [old EXCEPT !.status = "ACTIVE", !.started = TRUE].status = "ACTIVE"
        /\ [old EXCEPT !.status = "DECLINED", !.ended = TRUE].status = "DECLINED"
    BY <1>1 DEF CallRow
  <1> HIDE DEF c, old
  <1>4. call'[c].status # "ENDED"
    BY <1>1, <1>2, <1>3
  <1> QED
    BY <1>4 DEF c

\* Every step keeps the rows of ended calls accounted for.
LEMMA EndedStep ==
  ASSUME TypeOK, TypeOK', EndedCallIsEmpty, [Next]_vars
  PROVE  EndedCallIsEmpty'
  <1> SUFFICES ASSUME NEW p \in joined', call'[p[1]].status = "ENDED"
               PROVE  Accounted(p)'
    BY DEF EndedCallIsEmpty, Accounted
  <1>1. p[1] \in CallIds /\ p[2] \in Users /\ p = <<p[1], p[2]>>
    BY DEF TypeOK
  <1>2. ASSUME NEW r \in Requests, Arrive(r) PROVE Accounted(p)'
    <2>1. req[r] = Idle /\ UNCHANGED <<call, joined, left, late, cut>>
      BY <1>2 DEF Arrive, InitiateRead, RingRead, RingAgain, AcceptRead, DeclineRead,
                  EndRead, EndReadOver, Begin, IceRead, rows, history
    <2>2. \A s \in Requests : s # r => req'[s] = req[s]
      BY <1>2, OwnCall
    <2>3. req[r].pc \notin {"end.find", "end.loop"}
      BY <2>1 DEF Idle
    <2> QED
      BY <2>1, <2>2, <2>3, AccountedStays
  <1>3. ASSUME NEW r \in Requests, Abandon(r) PROVE Accounted(p)'
    <2>1. UNCHANGED <<call, joined, left, late>> /\ cut \subseteq cut'
      BY <1>3 DEF Abandon, rows
    <2>2. CASE req[r].pc \in {"end.find", "end.loop"} /\ req[r].call = p[1]
      BY <1>3, <2>2 DEF Abandon, Accounted
    <2>3. CASE req[r].pc \in {"end.find", "end.loop"} => req[r].call # p[1]
      <3>1. \A s \in Requests : s # r => req'[s] = req[s]
        BY <1>3 DEF Abandon, Finish, TypeOK
      <3> QED
        BY <2>1, <2>3, <3>1, AccountedStays
    <2> QED
      BY <2>2, <2>3
  <1>4. ASSUME NEW r \in Requests, Step(r) PROVE Accounted(p)'
    <2>1. \A s \in Requests : s # r => req'[s] = req[s]
      BY <1>4, OwnCall
    <2>2. ASSUME p \in joined, call[p[1]].status = "ENDED",
                 req[r].pc \notin {"end.find", "end.loop"},
                 left \subseteq left', UNCHANGED <<late, cut>>
          PROVE  Accounted(p)'
      BY <2>1, <2>2, AccountedStays
    <2>3. CASE EndFind(r) \/ (\E u \in Users : EndLoop(r, u))
      <3>1. UNCHANGED <<call, joined, late, cut>> /\ left \subseteq left'
        BY <2>3 DEF EndFind, EndLoop, rows, history
      <3>2. CASE req[r].call = p[1]
        BY <2>3, <3>1, <3>2, EnderCloses
      <3>3. CASE req[r].call # p[1]
        BY <2>1, <3>1, <3>3, AccountedStays
      <3> QED
        BY <3>2, <3>3
    <2>4. CASE EndWrite(r)
      <3>1. UNCHANGED <<joined, left>> /\ At(r, "end.write")
        BY <2>4 DEF EndWrite, Update
      <3>2. CASE p[1] = req[r].call
        <4>1. req'[r].pc = "end.find" /\ req'[r].call = p[1]
          BY <2>4, <3>2 DEF EndWrite, Update, Goto, TypeOK, Request, RequestRecord
        <4> QED
          BY <4>1 DEF Accounted, Closing, At
      <3>3. CASE p[1] # req[r].call
        <4>1. call'[p[1]] = call[p[1]]
          BY <1>1, <2>4, <3>3, WritesOfCalls
        <4>2. (p \in late => p \in late') /\ (p[1] \in cut => p[1] \in cut')
          BY <2>4, <3>3 DEF EndWrite
        <4> QED
          BY <2>1, <3>1, <3>3, <4>1, <4>2, AccountedStays
      <3> QED
        BY <3>2, <3>3
    <2>5. CASE InitiateJoin(r) \/ AcceptJoin(r)
      <3>1. /\ UNCHANGED <<call, left, cut>> /\ late \subseteq late'
            /\ joined' = joined \cup {<<req[r].call, req[r].user>>}
            /\ req[r].pc \notin {"end.find", "end.loop"}
        BY <2>5 DEF InitiateJoin, AcceptJoin, Join, At
      <3>2. CASE p \in joined
        BY <2>1, <3>1, <3>2, AccountedStays
      <3>3. CASE p \notin joined
        BY <2>1, <2>5, <3>1, <3>3, JoinerIsAccounted
      <3> QED
        BY <3>2, <3>3
    <2>6. CASE \/ EndNotify(r) \/ InitiateBusy(r) \/ InitiateFree(r) \/ DeclineLeave(r)
               \/ IceWrite(r)
      <3>1. /\ UNCHANGED <<call, joined, late, cut>> /\ left \subseteq left'
            /\ req[r].pc \notin {"end.find", "end.loop"}
        BY <2>6 DEF EndNotify, InitiateBusy, InitiateFree, DeclineLeave, IceWrite, rows,
                    history, At
      <3> QED
        BY <2>2, <3>1
    <2>7. CASE RingWrite(r) \/ AcceptWrite(r) \/ DeclineWrite(r)
      <3>1. UNCHANGED <<joined, left, late, cut>> /\ req[r].pc \notin {"end.find", "end.loop"}
        BY <2>7 DEF RingWrite, AcceptWrite, DeclineWrite, Update, At
      <3>2. CASE p[1] # req[r].call
        <4>1. call'[p[1]] = call[p[1]]
          BY <1>1, <2>7, <3>2, WritesOfCalls
        <4> QED
          BY <2>2, <3>1, <4>1
      <3>3. CASE p[1] = req[r].call
        BY <2>7, <3>3, OnlyEndEnds
      <3> QED
        BY <3>2, <3>3
    <2>8. ASSUME NEW c \in CallIds, InitiateCreate(r, c) PROVE Accounted(p)'
      <3>1. /\ UNCHANGED <<joined, left, late, cut>> /\ req[r].pc \notin {"end.find", "end.loop"}
            /\ call'[c].status = "INITIATED"
            /\ c # p[1] => call'[p[1]] = call[p[1]]
        BY <1>1, <2>8 DEF InitiateCreate, At, TypeOK, history
      <3> QED
        BY <2>2, <3>1
    <2> QED
      BY <1>3, <1>4, <2>3, <2>4, <2>5, <2>6, <2>7, <2>8 DEF Step, Missing
  <1>5. ASSUME NEW lost \in SUBSET Rows, NEW gone \in SUBSET Users, Cascade(lost, gone)
        PROVE  Accounted(p)'
    <2>1. p \in joined /\ p[1] \notin lost /\ p[2] \notin gone
      BY <1>5 DEF Cascade
    <2>2. call'[p[1]] = call[p[1]] /\ (p \in left => p \in left') /\ UNCHANGED <<late, cut, req>>
      BY <1>1, <1>5, <2>1 DEF Cascade, history
    <2> QED
      BY <2>1, <2>2 DEF EndedCallIsEmpty, Accounted, Closing, At
  <1>6. CASE UNCHANGED vars
    BY <1>6 DEF vars, EndedCallIsEmpty, Accounted, Closing, At
  <1>7. ASSUME NEW r \in Requests, Fail(r) PROVE Accounted(p)'
    BY <1>3, <1>7 DEF Fail
  <1> QED
    BY <1>2, <1>4, <1>5, <1>6, <1>7, EveryStep

\* Whatever overlaps, fails or is deleted, everybody who joined a call that is
\* ENDED has left it or is about to, but for those the latest end was stopped
\* before, and those who joined after it had read the participants.
THEOREM EndedSafety == Spec => []EndedCallIsEmpty
  <1>1. Init => EndedCallIsEmpty
    BY DEF Init, EndedCallIsEmpty
  <1>2. TypeOK /\ TypeOK' /\ EndedCallIsEmpty /\ [Next]_vars => EndedCallIsEmpty'
    BY EndedStep
  <1> QED
    BY <1>1, <1>2, TypeCorrect, PTL DEF Spec

-----------------------------------------------------------------------------
(* Together *)

\* There are no calls at first.
LEMMA SerialStart == Init => SerialInv
  BY DEF Init, SerialInv, SerialKnows, Knows, SavedHaveCalls,
         SavedCandidatesStay, NoRow, Idle

\* Every step keeps the invariant, as long as handlers of one call do not overlap.
LEMMA SerialStep == JoinInv /\ TypeOK' /\ Apart /\ SerialInv /\ [Next]_vars => SerialInv'
  BY KnowsStep, SavedStep DEF JoinInv, SerialInv

\* So it holds of every state of such a behaviour.
LEMMA SerialInvariant == Spec /\ []Apart => []SerialInv
  BY InitJoinInv, JoinStep, TypeCorrect, SerialStart, SerialStep, PTL DEF Spec

\* As long as handlers of one call do not overlap, its status moves as the handlers
\* mean it to: it rings only after INITIATED and is ENDED only while it is live,
\* whatever fails, whatever is deleted and whatever other calls do.
THEOREM StatusSafety == Spec /\ []Apart => StatusMachine
  <1>1. TypeOK /\ SerialInv /\ [Next]_vars =>
          [\A c \in CallIds :
             LET from == call[c].status
                 to   == call'[c].status
             IN  \/ from = to
                 \/ from = "absent" /\ to = "INITIATED"
                 \/ from = "INITIATED" /\ to = "RINGING"
                 \/ from \in Live /\ to = "ENDED"
                 \/ from \in CallStatus /\ to \in {"ACTIVE", "DECLINED", "deleted"}]_vars
    BY EveryMove, MovesOfStatus DEF SerialInv
  <1> QED
    BY <1>1, TypeCorrect, SerialInvariant, PTL DEF Spec, StatusMachine

\* Nor is a candidate lost that was saved, as long as the call is there and the
\* user who sent it.
THEOREM SavedSafety == Spec /\ []Apart => []SavedCandidatesStay
  <1>1. SerialInv => SavedCandidatesStay
    BY DEF SerialInv
  <1> QED
    BY <1>1, SerialInvariant, PTL
=============================================================================
