------------------------ MODULE ConversationsProofs ------------------------
(***************************************************************************)
(* What holds of Conversations for any number of users, conversations,     *)
(* messages and handlers in flight, with failures and deleted accounts.    *)
(***************************************************************************)
EXTENDS Conversations, FiniteSetTheorems, TLAPS

-----------------------------------------------------------------------------
(* The invariant *)

\* Messages are created in order; the rows there are name conversations; and
\* what is not there yet has no history.
MessagesInv ==
  /\ \A m \in Messages : There(m) => msg[m].conv \in Convs
  /\ \A k, m \in Messages : k < m /\ msg[k].state = "unborn" => msg[m].state = "unborn"
  /\ \A m \in Messages : msg[m].state = "unborn" => told[m] = "none"
  /\ \A m \in Messages : msg[m].state = "unborn" \/ (There(m) /\ ~msg[m].hidden) => copies[m] = 0
  /\ \A c \in Convs : conv[c].kind = "unborn" => \A u \in Users : late[c][u] = 0

\* What the request q knows.  A removal is not of the owner.  A message that is
\* about to become the last one was there when all newer ones were created.
Knows(q) ==
  /\ q.pc # "idle" => q.user \in Users
  /\ q.pc \in Await \ {"initiate.find", "initiate.create", "group.create", "unsend.write"}
        => q.conv \in Convs
  /\ q.pc = "remove.write" =>
        /\ conv[q.conv].kind # "unborn"
        /\ conv[q.conv].kind = "group" => conv[q.conv].founder \notin q.with
  /\ q.pc \in {"send.last", "unsend.write"} => q.msg \in Messages
  /\ q.pc = "send.last" =>
        /\ msg[q.msg].state # "unborn"
        /\ There(q.msg) => msg[q.msg].conv = q.conv
        /\ \A m \in Messages : m > q.msg /\ There(m) /\ msg[m].conv = q.conv
              => <<q.msg, m>> \in passed

RequestsInv == \A r \in Requests : Knows(req[r])

ConvInv ==
  /\ TypeOK /\ MessagesInv /\ RequestsInv
  /\ GroupOwned /\ LateBounded /\ UnsentBounded /\ LastIsRecent

-----------------------------------------------------------------------------
(* Lemmas *)

LEMMA IdleType == Idle \in Request /\ Knows(Idle)
  BY DEF Idle, Request, Knows, Await

\* A part of the handlers, and one that is without the handler r.
LEMMA Part ==
  ASSUME NEW X \in SUBSET Requests
  PROVE  /\ IsFiniteSet(X) /\ Cardinality(X) \in Nat /\ Cardinality(Requests) \in Nat
         /\ \A Y \in SUBSET X : Cardinality(Y) <= Cardinality(X) /\ Cardinality(Y) \in Nat
         /\ \A r \in X : Cardinality(X \ {r}) = Cardinality(X) - 1
  <1>1. IsFiniteSet(X) /\ IsFiniteSet(Requests)
    BY FS_Subset, ConstantsAssumption DEF ConstantsAssumption
  <1>2. \A Y \in SUBSET X : Cardinality(Y) <= Cardinality(X) /\ IsFiniteSet(Y)
    BY <1>1, FS_Subset
  <1>3. \A r \in X : Cardinality(X \ {r}) = Cardinality(X) - 1
    BY <1>1, FS_RemoveElement
  <1> QED
    BY <1>1, <1>2, <1>3, FS_CardinalityType

\* What is without the handler r is less than all.
LEMMA Without ==
  ASSUME NEW r \in Requests, NEW X \in SUBSET (Requests \ {r})
  PROVE  Cardinality(X) < Cardinality(Requests)
  <1>1. /\ Cardinality(Requests \ {r}) = Cardinality(Requests) - 1
        /\ Cardinality(Requests) \in Nat
    BY Part
  <1>2. Cardinality(X) <= Cardinality(Requests \ {r}) /\ Cardinality(X) \in Nat
    BY Part
  <1> QED
    BY <1>1, <1>2

LEMMA PostersType ==
  ASSUME NEW c, NEW u, NEW m
  PROVE  Posters(c, u) \subseteq Requests /\ Forwarders(m) \subseteq Requests
  BY DEF Posters, Forwarders, InFlight

\* A bound on a count stays when fewer handlers may still add to it.
LEMMA FewerPosters ==
  ASSUME NEW c \in Convs, NEW u \in Users, ConvInv,
         late'[c][u] = late[c][u], Posters(c, u)' \subseteq Posters(c, u),
         late[c][u] + Cardinality(Posters(c, u)) < Cardinality(Requests)
  PROVE  late'[c][u] + Cardinality(Posters(c, u)') < Cardinality(Requests)
  <1>1. /\ Cardinality(Posters(c, u)') <= Cardinality(Posters(c, u))
        /\ Cardinality(Posters(c, u)') \in Nat /\ Cardinality(Posters(c, u)) \in Nat
        /\ Cardinality(Requests) \in Nat
    BY PostersType, Part
  <1>2. late[c][u] \in Nat
    BY DEF ConvInv, TypeOK
  <1> QED
    BY <1>1, <1>2

LEMMA FewerForwarders ==
  ASSUME NEW m \in Messages, ConvInv,
         copies'[m] = copies[m], Forwarders(m)' \subseteq Forwarders(m),
         copies[m] + Cardinality(Forwarders(m)) < Cardinality(Requests)
  PROVE  copies'[m] + Cardinality(Forwarders(m)') < Cardinality(Requests)
  <1>1. /\ Cardinality(Forwarders(m)') <= Cardinality(Forwarders(m))
        /\ Cardinality(Forwarders(m)') \in Nat /\ Cardinality(Forwarders(m)) \in Nat
        /\ Cardinality(Requests) \in Nat
    BY PostersType, Part
  <1>2. copies[m] \in Nat
    BY DEF ConvInv, TypeOK
  <1> QED
    BY <1>1, <1>2

\* The handlers after one of them went on.
LEMMA SlotAfter ==
  ASSUME ConvInv, NEW r \in Requests, NEW q \in Request, req' = [req EXCEPT ![r] = q]
  PROVE  /\ req' \in [Requests -> Request]
         /\ \A s \in Requests : req'[s] = IF s = r THEN q ELSE req[s]
  BY DEF ConvInv, TypeOK

-----------------------------------------------------------------------------
(* Steps that write no row *)

\* A handler that goes on keeps the invariant if it knows what it must, if it is
\* about to post only where its user is a member, and if it holds only content
\* that is there, or that it held before.
LEMMA ReqStep ==
  ASSUME ConvInv, NEW r \in Requests, NEW q \in Request, req' = [req EXCEPT ![r] = q],
         UNCHANGED <<accounts, conv, role, msg, passed, late, copies>>,
         told' \in [Messages -> {"none", "ok", "refused"}],
         \A m \in Messages : \/ told'[m] = told[m]
                             \/ told'[m] = "refused" /\ msg[m].state # "unborn",
         Knows(q),
         q.pc = "send.create" /\ conv[q.conv].kind = "group" => q.user \in Members(q.conv),
         q.pc \in {"send.find", "send.create"} /\ q.kind = "forward" /\ q.ref \in Messages =>
            ~msg[q.ref].hidden \/ r \in Forwarders(q.ref)
  PROVE  ConvInv'
  <1>1. /\ req' \in [Requests -> Request]
        /\ \A s \in Requests : req'[s] = IF s = r THEN q ELSE req[s]
    BY SlotAfter
  <1>2. TypeOK'
    BY <1>1 DEF ConvInv, TypeOK, There, Exists, Members
  <1>3. MessagesInv'
    BY DEF ConvInv, MessagesInv, There
  <1>4. RequestsInv'
    <2>1. \A s \in Requests : Knows(req'[s])
      BY <1>1 DEF ConvInv, RequestsInv
    <2> QED
      BY <2>1 DEF RequestsInv, Knows, There
  <1>5. GroupOwned'
    BY DEF ConvInv, GroupOwned
  <1>6. LateBounded'
    <2> SUFFICES ASSUME NEW c \in Convs, NEW u \in accounts,
                        conv[c].kind = "group", u \notin Members(c)
                 PROVE  late'[c][u] + Cardinality(Posters(c, u)') < Cardinality(Requests)
      BY DEF LateBounded, Members
    <2>1. Posters(c, u)' \subseteq Posters(c, u)
      BY <1>1 DEF Posters, InFlight
    <2>2. late[c][u] + Cardinality(Posters(c, u)) < Cardinality(Requests) /\ u \in Users
      BY DEF ConvInv, LateBounded, TypeOK
    <2> QED
      BY <2>1, <2>2, FewerPosters
  <1>7. UnsentBounded'
    <2> SUFFICES ASSUME NEW m \in Messages, There(m), msg[m].hidden
                 PROVE  copies'[m] + Cardinality(Forwarders(m)') < Cardinality(Requests)
      BY DEF UnsentBounded, There
    <2>1. Forwarders(m)' \subseteq Forwarders(m)
      BY <1>1 DEF Forwarders, InFlight
    <2>2. copies[m] + Cardinality(Forwarders(m)) < Cardinality(Requests)
      BY DEF ConvInv, UnsentBounded
    <2> QED
      BY <2>1, <2>2, FewerForwarders
  <1>8. LastIsRecent'
    BY DEF ConvInv, LastIsRecent, There
  <1> QED
    BY <1>2, <1>3, <1>4, <1>5, <1>6, <1>7, <1>8 DEF ConvInv

\* The first operation of a handler.
LEMMA BeginStep ==
  ASSUME ConvInv, NEW r \in Requests, NEW u \in Users, NEW q \in Request, Begin(r, u, q),
         Knows([q EXCEPT !.user = u]),
         q.pc = "send.create" => u \in Participants(q.conv),
         q.pc \in {"send.find", "send.create"} /\ q.kind = "forward" /\ q.ref \in Messages =>
            ~msg[q.ref].hidden
  PROVE  ConvInv'
  <1> DEFINE p == [q EXCEPT !.user = u]
  <1>1. /\ req' = [req EXCEPT ![r] = p]
        /\ UNCHANGED <<accounts, conv, role, msg, told, passed, late, copies>>
    BY DEF Begin, rows, history
  <1>2. /\ p \in Request /\ p.user = u
        /\ p.pc = q.pc /\ p.conv = q.conv /\ p.kind = q.kind /\ p.ref = q.ref
    BY DEF Request
  <1>3. told' \in [Messages -> {"none", "ok", "refused"}]
    BY <1>1 DEF ConvInv, TypeOK
  <1>4. q.pc = "send.create" => (conv[q.conv].kind = "group" => u \in Members(q.conv))
    BY DEF Participants
  <1>5. Knows(p)
    OBVIOUS
  <1> HIDE DEF p
  <1> QED
    BY <1>1, <1>2, <1>3, <1>4, <1>5, ReqStep

LEMMA ArriveStep ==
  ASSUME ConvInv, NEW r \in Requests, NEW u \in Users, Arrive(r, u)
  PROVE  ConvInv'
  <1>1. ASSUME NEW v \in Users, InitiateRead(r, u, v) PROVE ConvInv'
    <2> DEFINE q == [Idle EXCEPT !.pc = "initiate.find", !.with = {v}]
    <2>1. q \in Request /\ q.pc = "initiate.find" /\ Knows([q EXCEPT !.user = u])
      BY DEF Idle, Request, Await, Knows
    <2>2. Begin(r, u, q)
      BY <1>1 DEF InitiateRead
    <2> HIDE DEF q
    <2> QED
      BY <2>1, <2>2, BeginStep
  <1>2. ASSUME NEW others \in SUBSET Users, GroupRead(r, u, others) PROVE ConvInv'
    <2> DEFINE q == [Idle EXCEPT !.pc = "group.create", !.with = others \ {u}]
    <2>1. q \in Request /\ q.pc = "group.create" /\ Knows([q EXCEPT !.user = u])
      BY DEF Idle, Request, Await, Knows
    <2>2. Begin(r, u, q)
      BY <1>2 DEF GroupRead
    <2> HIDE DEF q
    <2> QED
      BY <2>1, <2>2, BeginStep
  <1>3. ASSUME NEW c \in Convs, NEW others \in SUBSET Users, UpdateRead(r, u, c, others)
        PROVE ConvInv'
    <2> DEFINE q == [Idle EXCEPT !.pc = "update.users", !.conv = c, !.with = others \ Members(c)]
    <2>1. q \in Request /\ q.pc = "update.users" /\ Knows([q EXCEPT !.user = u])
      BY DEF Idle, Request, Await, Knows
    <2>2. Begin(r, u, q)
      BY <1>3 DEF UpdateRead
    <2> HIDE DEF q
    <2> QED
      BY <2>1, <2>2, BeginStep
  \* Whoever removes is the owner, and removes another.
  <1>4. ASSUME NEW c \in Convs, NEW v \in Users, RemoveRead(r, u, c, v) PROVE ConvInv'
    <2> DEFINE q == [Idle EXCEPT !.pc = "remove.write", !.conv = c, !.with = {v}]
    <2>1. conv[c].kind = "group" /\ role[c][u] = "OWNER" /\ v # u
      BY <1>4 DEF RemoveRead
    <2>2. conv[c].founder # v
      BY <2>1 DEF ConvInv, GroupOwned
    <2>3. q \in Request /\ q.pc = "remove.write"
      BY DEF Idle, Request, Await
    <2>4. /\ [q EXCEPT !.user = u].pc = "remove.write" /\ [q EXCEPT !.user = u].user = u
          /\ [q EXCEPT !.user = u].conv = c /\ [q EXCEPT !.user = u].with = {v}
      BY DEF Idle
    <2>5. Knows([q EXCEPT !.user = u])
      BY <2>1, <2>2, <2>4 DEF Knows
    <2>6. Begin(r, u, q)
      BY <1>4 DEF RemoveRead
    <2> HIDE DEF q
    <2> QED
      BY <2>3, <2>5, <2>6, BeginStep
  <1>5. ASSUME NEW c \in Convs, DeleteRead(r, u, c) PROVE ConvInv'
    <2> DEFINE q == [Idle EXCEPT !.pc = "delete.write", !.conv = c]
    <2>1. q \in Request /\ q.pc = "delete.write" /\ Knows([q EXCEPT !.user = u])
      BY DEF Idle, Request, Await, Knows
    <2>2. Begin(r, u, q)
      BY <1>5 DEF DeleteRead
    <2> HIDE DEF q
    <2> QED
      BY <2>1, <2>2, BeginStep
  <1>6. ASSUME NEW c \in Convs, MemberRead(r, u, c) PROVE ConvInv'
    <2> DEFINE q == [Idle EXCEPT !.pc = "member.conv", !.conv = c]
    <2>1. q \in Request /\ q.pc = "member.conv" /\ Knows([q EXCEPT !.user = u])
      BY DEF Idle, Request, Await, Knows
    <2>2. Begin(r, u, q)
      BY <1>6 DEF MemberRead
    <2> HIDE DEF q
    <2> QED
      BY <2>1, <2>2, BeginStep
  <1>7. ASSUME NEW c \in Convs, SendRead(r, u, c) PROVE ConvInv'
    <2> DEFINE q == [Idle EXCEPT !.pc = "send.create", !.kind = "new", !.conv = c]
    <2>1. /\ q \in Request /\ q.pc = "send.create" /\ q.kind = "new" /\ q.conv = c
          /\ Knows([q EXCEPT !.user = u])
      BY DEF Idle, Request, Await, Knows
    <2>2. Begin(r, u, q) /\ u \in Participants(c)
      BY <1>7 DEF SendRead
    <2> HIDE DEF q
    <2> QED
      BY <2>1, <2>2, BeginStep
  <1>8. ASSUME NEW m \in Messages, ReplyRead(r, u, m) PROVE ConvInv'
    <2> DEFINE q == [Idle EXCEPT !.pc = "send.find", !.kind = "reply",
                                 !.conv = msg[m].conv, !.ref = m]
    <2>1. msg[m].conv \in Convs
      BY <1>8 DEF ReplyRead, ConvInv, MessagesInv
    <2>2. /\ q \in Request /\ q.pc = "send.find" /\ q.kind = "reply"
          /\ Knows([q EXCEPT !.user = u])
      BY <2>1 DEF Idle, Request, Await, Knows
    <2>3. Begin(r, u, q)
      BY <1>8 DEF ReplyRead
    <2> HIDE DEF q
    <2> QED
      BY <2>2, <2>3, BeginStep
  <1>9. ASSUME NEW m \in Messages, NEW c \in Convs, ForwardRead(r, u, m, c) PROVE ConvInv'
    <2> DEFINE q == [Idle EXCEPT !.pc = "send.find", !.kind = "forward", !.conv = c, !.ref = m]
    <2>1. /\ q \in Request /\ q.pc = "send.find" /\ q.ref = m
          /\ Knows([q EXCEPT !.user = u])
      BY DEF Idle, Request, Await, Knows
    <2>2. Begin(r, u, q) /\ ~msg[m].hidden
      BY <1>9 DEF ForwardRead
    <2> HIDE DEF q
    <2> QED
      BY <2>1, <2>2, BeginStep
  <1>10. ASSUME NEW m \in Messages, UnsendRead(r, u, m) PROVE ConvInv'
    <2> DEFINE q == [Idle EXCEPT !.pc = "unsend.write", !.msg = m]
    <2>1. q \in Request /\ q.pc = "unsend.write" /\ Knows([q EXCEPT !.user = u])
      BY DEF Idle, Request, Await, Knows
    <2>2. Begin(r, u, q)
      BY <1>10 DEF UnsendRead
    <2> HIDE DEF q
    <2> QED
      BY <2>1, <2>2, BeginStep
  <1> QED
    BY <1>1, <1>2, <1>3, <1>4, <1>5, <1>6, <1>7, <1>8, <1>9, <1>10 DEF Arrive

\* A handler ends, answered or not; a failure may tell its sender so.
LEMMA FinishStep ==
  ASSUME ConvInv, NEW r \in Requests, Finish(r),
         UNCHANGED <<accounts, conv, role, msg, passed, late, copies>>,
         told' \in [Messages -> {"none", "ok", "refused"}],
         \A m \in Messages : \/ told'[m] = told[m]
                             \/ told'[m] = "refused" /\ msg[m].state # "unborn"
  PROVE  ConvInv'
  <1>1. Idle.pc = "idle"
    BY DEF Idle
  <1> QED
    BY <1>1, IdleType, ReqStep DEF Finish

\* A handler goes on to another of its places.
LEMMA GotoStep ==
  ASSUME ConvInv, NEW r \in Requests, NEW where \in Await, Goto(r, where),
         UNCHANGED <<accounts, conv, role, msg, told, passed, late, copies>>,
         Knows([req[r] EXCEPT !.pc = where]),
         where = "send.create" => At(r, "send.find") /\ req[r].user \in Participants(req[r].conv),
         where # "send.find"
  PROVE  ConvInv'
  <1> DEFINE q == [req[r] EXCEPT !.pc = where]
  <1>1. req[r] \in Request /\ told \in [Messages -> {"none", "ok", "refused"}]
    BY DEF ConvInv, TypeOK
  <1>2. /\ q \in Request /\ q.pc = where /\ q.user = req[r].user /\ q.conv = req[r].conv
        /\ q.kind = req[r].kind /\ q.ref = req[r].ref
    BY <1>1 DEF Request
  <1>3. req' = [req EXCEPT ![r] = q]
    BY DEF Goto, ConvInv, TypeOK
  <1>4. where = "send.create" =>
          /\ conv[q.conv].kind = "group" => q.user \in Members(q.conv)
          /\ q.kind = "forward" => r \in Forwarders(q.ref)
    BY <1>2 DEF Participants, At, Forwarders, InFlight
  <1> HIDE DEF q
  <1>5. Knows(q)
    BY DEF q
  <1> QED
    BY <1>1, <1>2, <1>3, <1>4, <1>5, ReqStep

LEMMA MoveStep ==
  ASSUME ConvInv, NEW r \in Requests,
         \/ InitiateFound(r) \/ InitiateNone(r) \/ UpdateUsers(r) \/ MemberConv(r)
         \/ SendFind(r) \/ SendNotify(r) \/ Fail(r)
  PROVE  ConvInv'
  <1>1. req[r] \in Request /\ told \in [Messages -> {"none", "ok", "refused"}] /\ Knows(req[r])
    BY DEF ConvInv, TypeOK, RequestsInv
  <1>2. ASSUME Finish(r), UNCHANGED <<rows, history>> PROVE ConvInv'
    BY <1>1, <1>2, FinishStep DEF rows, history
  <1>3. ASSUME NEW where \in {"initiate.create", "update.write", "member.create", "send.create"},
               Goto(r, where), UNCHANGED <<rows, history>>,
               req[r].pc \in {"initiate.find", "update.users", "member.conv", "send.find"},
               req[r].pc = "initiate.find" => where = "initiate.create",
               where = "send.create" => At(r, "send.find") /\ req[r].user \in Participants(req[r].conv)
        PROVE ConvInv'
    <2>1. where \in Await /\ where # "send.find"
      BY DEF Await
    <2>2. Knows([req[r] EXCEPT !.pc = where])
      BY <1>1, <1>3 DEF Knows, Request, Await
    <2> QED
      BY <1>3, <2>1, <2>2, GotoStep DEF rows, history
  <1>4. CASE InitiateFound(r)
    BY <1>2, <1>4 DEF InitiateFound
  <1>5. CASE InitiateNone(r)
    BY <1>3, <1>5 DEF InitiateNone, At
  <1>6. CASE UpdateUsers(r)
    BY <1>2, <1>3, <1>6 DEF UpdateUsers, At
  <1>7. CASE MemberConv(r)
    BY <1>2, <1>3, <1>7 DEF MemberConv, At
  <1>8. CASE SendFind(r)
    BY <1>2, <1>3, <1>8 DEF SendFind, At
  <1>9. CASE SendNotify(r)
    BY <1>2, <1>9 DEF SendNotify
  <1>10. CASE Fail(r)
    <2>1. /\ Finish(r)
          /\ UNCHANGED <<accounts, conv, role, msg, passed, late, copies>>
          /\ told' = IF At(r, "send.last") THEN [told EXCEPT ![req[r].msg] = "refused"] ELSE told
      BY <1>10 DEF Fail, rows
    <2>2. At(r, "send.last") => req[r].msg \in Messages /\ msg[req[r].msg].state # "unborn"
      BY <1>1 DEF Knows, At
    <2>3. /\ told' \in [Messages -> {"none", "ok", "refused"}]
          /\ \A m \in Messages : \/ told'[m] = told[m]
                                 \/ told'[m] = "refused" /\ msg[m].state # "unborn"
      BY <1>1, <2>1, <2>2
    <2> QED
      BY <2>1, <2>3, FinishStep
  <1> QED
    BY <1>4, <1>5, <1>6, <1>7, <1>8, <1>9, <1>10

-----------------------------------------------------------------------------
(* What the steps that write rows have in common: the handler ends *)

Ending == \A s \in Requests : req'[s] \in {req[s], Idle}

LEMMA FinishEnds ==
  ASSUME ConvInv, NEW r \in Requests, Finish(r)
  PROVE  req' \in [Requests -> Request] /\ Ending /\ req'[r] = Idle
  BY IdleType DEF Finish, ConvInv, TypeOK, Ending

\* Messages only go, or lose their content, and conversations only go or come.
Fading ==
  /\ \A m \in Messages :
        /\ There(m)' => There(m) /\ msg'[m].conv = msg[m].conv
        /\ msg[m].state # "unborn" => msg'[m].state # "unborn"
  /\ \A c \in Convs :
        /\ conv[c].kind # "unborn" => conv'[c].kind # "unborn"
        /\ conv[c].kind # "unborn" /\ conv'[c].kind = "group" =>
              conv[c].kind = "group" /\ conv'[c].founder = conv[c].founder

LEMMA StillKnow ==
  ASSUME ConvInv, Ending, Fading, passed' = passed
  PROVE  RequestsInv'
  <1>1. ASSUME NEW q, Knows(q), q.pc \in Await \cup {"idle"} PROVE Knows(q)'
    BY <1>1 DEF Knows, Fading, Await
  <1>2. ASSUME NEW s \in Requests PROVE Knows(req[s])'
    <2>1. PICK q \in {req[s], Idle} : req'[s] = q
      BY DEF Ending
    <2>2. Knows(q) /\ q.pc \in Await \cup {"idle"}
      BY <2>1, IdleType DEF ConvInv, RequestsInv, TypeOK, Request
    <2>3. Knows(q)'
      BY <1>1, <2>2
    <2> QED
      BY <2>1, <2>3 DEF Knows, There
  <1> QED
    BY <1>2 DEF RequestsInv

LEMMA LateKept ==
  ASSUME ConvInv, Ending, NEW c \in Convs, NEW u \in accounts,
         late'[c][u] = late[c][u], conv[c].kind = "group", u \notin Members(c)
  PROVE  late'[c][u] + Cardinality(Posters(c, u)') < Cardinality(Requests)
  <1>1. Posters(c, u)' \subseteq Posters(c, u)
    BY DEF Ending, Posters, InFlight, Idle
  <1>2. late[c][u] + Cardinality(Posters(c, u)) < Cardinality(Requests) /\ u \in Users
    BY DEF ConvInv, LateBounded, TypeOK
  <1> QED
    BY <1>1, <1>2, FewerPosters

LEMMA UnsentKept ==
  ASSUME ConvInv, Ending, Fading, copies' = copies,
         \A m \in Messages : There(m)' => msg'[m].hidden = msg[m].hidden
  PROVE  UnsentBounded'
  <1> SUFFICES ASSUME NEW m \in Messages, There(m)', msg'[m].hidden
               PROVE  copies'[m] + Cardinality(Forwarders(m)') < Cardinality(Requests)
    BY DEF UnsentBounded
  <1>1. Forwarders(m)' \subseteq Forwarders(m)
    BY DEF Ending, Forwarders, InFlight, Idle
  <1>2. copies[m] + Cardinality(Forwarders(m)) < Cardinality(Requests)
    BY DEF ConvInv, UnsentBounded, Fading
  <1> QED
    BY <1>1, <1>2, FewerForwarders

-----------------------------------------------------------------------------
(* Steps that write conversations and members *)

\* A new conversation, in place of none.
LEMMA NewConv ==
  ASSUME ConvInv, NEW r \in Requests, NEW c \in Convs, NEW new \in Conv,
         conv[c].kind = "unborn", conv' = [conv EXCEPT ![c] = new],
         new.kind \in {"pair", "group"}, new.last = None,
         role' \in [Convs -> [Users -> {"none", "OWNER", "MEMBER"}]],
         \A d \in Convs \ {c} : role'[d] = role[d],
         Members(c)' \subseteq accounts,
         new.kind = "group" => {u \in Users : role'[c][u] = "OWNER"} = {new.founder} \cap accounts,
         Finish(r), req[r].pc # "send.create",
         UNCHANGED <<accounts, msg, told, passed, late, copies>>
  PROVE  ConvInv'
  <1>1. req' \in [Requests -> Request] /\ Ending /\ req'[r] = Idle
    BY FinishEnds
  <1>2. /\ conv' \in [Convs -> Conv]
        /\ \A d \in Convs : conv'[d] = IF d = c THEN new ELSE conv[d]
    BY DEF ConvInv, TypeOK
  <1>3. Fading
    BY <1>2 DEF Fading, There
  <1>4. TypeOK'
    <2>1. \A m \in Messages : There(m) => msg[m].conv # c /\ msg[m].conv \in Convs
      BY DEF ConvInv, TypeOK, MessagesInv, Exists
    <2>2. ASSUME NEW d \in Convs, Members(d)' # {}
          PROVE  Exists(d)' /\ Members(d)' \subseteq accounts'
      BY <1>2, <2>2 DEF ConvInv, TypeOK, Exists, Members
    <2>3. ASSUME NEW d \in Convs, conv'[d].last # None
          PROVE  There(conv[d].last)' /\ msg'[conv'[d].last].conv = d
      BY <1>2, <2>3 DEF ConvInv, TypeOK, There
    <2>4. ASSUME NEW m \in Messages, There(m)'
          PROVE  Exists(msg[m].conv)' /\ msg'[m].sender \in accounts'
      BY <1>2, <2>1, <2>4 DEF ConvInv, TypeOK, There, Exists
    <2> QED
      BY <1>1, <1>2, <2>2, <2>3, <2>4 DEF ConvInv, TypeOK
  <1>5. MessagesInv'
    BY <1>2 DEF ConvInv, MessagesInv, There
  <1>6. RequestsInv'
    BY <1>1, <1>3, StillKnow
  <1>7. GroupOwned'
    BY <1>2 DEF ConvInv, GroupOwned
  <1>8. LateBounded'
    <2> SUFFICES ASSUME NEW d \in Convs, NEW u \in accounts,
                        conv'[d].kind = "group", u \notin Members(d)'
                 PROVE  late'[d][u] + Cardinality(Posters(d, u)') < Cardinality(Requests)
      BY DEF LateBounded
    <2>1. CASE d = c
      <3>1. late'[d][u] = 0
        BY <2>1 DEF ConvInv, MessagesInv, TypeOK
      <3>2. Posters(d, u)' \subseteq Requests \ {r}
        BY <1>1 DEF Posters, InFlight, Idle
      <3>3. Cardinality(Posters(d, u)') < Cardinality(Requests) /\ Cardinality(Posters(d, u)') \in Nat
        BY <3>2, Without, Part
      <3> QED
        BY <3>1, <3>3
    <2>2. CASE d # c
      BY <1>1, <1>2, <2>2, LateKept DEF Members
    <2> QED
      BY <2>1, <2>2
  <1>9. UnsentBounded'
    BY <1>1, <1>3, UnsentKept
  <1>10. LastIsRecent'
    BY <1>2 DEF ConvInv, LastIsRecent, There
  <1> QED
    BY <1>4, <1>5, <1>6, <1>7, <1>8, <1>9, <1>10 DEF ConvInv

LEMMA CreateConvStep ==
  ASSUME ConvInv, NEW r \in Requests, NEW c \in Convs, InitiateCreate(r, c) \/ GroupCreate(r, c)
  PROVE  ConvInv'
  <1>0. /\ req[r] \in Request /\ accounts \subseteq Users
        /\ role \in [Convs -> [Users -> {"none", "OWNER", "MEMBER"}]]
    BY DEF ConvInv, TypeOK
  <1>1. CASE InitiateCreate(r, c)
    <2> DEFINE new == [kind |-> "pair", ends |-> {req[r].user} \cup req[r].with,
                       founder |-> req[r].user, last |-> None]
    <2>1. /\ conv[c].kind = "unborn" /\ conv' = [conv EXCEPT ![c] = new] /\ role' = role
          /\ {req[r].user} \cup req[r].with \subseteq accounts
          /\ Finish(r) /\ req[r].pc = "initiate.create"
          /\ UNCHANGED <<accounts, msg, told, passed, late, copies>>
      BY <1>1 DEF InitiateCreate, At, history
    <2>2. new \in Conv /\ new.kind = "pair" /\ new.last = None
      BY <1>0, <2>1 DEF Conv
    <2>3. Members(c)' \subseteq accounts
      BY <2>1 DEF ConvInv, TypeOK, Members
    <2> HIDE DEF new
    <2> QED
      BY <1>0, <2>1, <2>2, <2>3, NewConv
  <1>2. CASE GroupCreate(r, c)
    <2> DEFINE u == req[r].user
    <2> DEFINE new == [kind |-> "group", ends |-> {}, founder |-> u, last |-> None]
    <2>1. /\ conv[c].kind = "unborn" /\ conv' = [conv EXCEPT ![c] = new]
          /\ role' = [role EXCEPT ![c] = [v \in Users |-> IF v = u THEN "OWNER"
                                                   ELSE IF v \in req[r].with THEN "MEMBER"
                                                   ELSE "none"]]
          /\ {u} \cup req[r].with \subseteq accounts
          /\ Finish(r) /\ req[r].pc = "group.create"
          /\ UNCHANGED <<accounts, msg, told, passed, late, copies>>
      BY <1>2 DEF GroupCreate, At, history
    <2>2. new \in Conv /\ new.kind = "group" /\ new.last = None /\ new.founder = u
      BY <1>0, <2>1 DEF Conv
    <2>3. /\ role' \in [Convs -> [Users -> {"none", "OWNER", "MEMBER"}]]
          /\ \A d \in Convs \ {c} : role'[d] = role[d]
          /\ \A v \in Users : role'[c][v] = IF v = u THEN "OWNER"
                                            ELSE IF v \in req[r].with THEN "MEMBER" ELSE "none"
      BY <1>0, <2>1
    <2>4. Members(c)' \subseteq accounts
      BY <2>1, <2>3 DEF Members
    <2>5. {v \in Users : role'[c][v] = "OWNER"} = {u} \cap accounts
      BY <1>0, <2>1, <2>3
    <2> HIDE DEF new, u
    <2> QED
      BY <2>1, <2>2, <2>3, <2>4, <2>5, NewConv
  <1> QED
    BY <1>1, <1>2

\* Member rows of c come or go; who gets one has an account, the owner keeps
\* his, and whoever loses one has no late post yet.
LEMMA RoleStep ==
  ASSUME ConvInv, NEW r \in Requests, NEW c \in Convs, Finish(r), req[r].pc # "send.create",
         role' \in [Convs -> [Users -> {"none", "OWNER", "MEMBER"}]],
         \A d \in Convs \ {c} : role'[d] = role[d],
         Members(c)' # {} => Exists(c),
         Members(c)' \subseteq accounts,
         conv[c].kind = "group" =>
            {u \in Users : role'[c][u] = "OWNER"} = {u \in Users : role[c][u] = "OWNER"},
         late' \in [Convs -> [Users -> Nat]],
         \A d \in Convs, u \in Users : late'[d][u] \in {0, late[d][u]},
         \A u \in Members(c) \ Members(c)' : late'[c][u] = 0,
         UNCHANGED <<accounts, conv, msg, told, passed, copies>>
  PROVE  ConvInv'
  <1>1. req' \in [Requests -> Request] /\ Ending /\ req'[r] = Idle
    BY FinishEnds
  <1>2. Fading
    BY DEF Fading, There
  <1>3. TypeOK'
    <2>1. ASSUME NEW d \in Convs, Members(d)' # {}
          PROVE  Exists(d)' /\ Members(d)' \subseteq accounts'
      BY <2>1 DEF ConvInv, TypeOK, Exists, Members
    <2> QED
      BY <1>1, <2>1 DEF ConvInv, TypeOK, There, Exists
  <1>4. MessagesInv'
    BY DEF ConvInv, MessagesInv, There
  <1>5. RequestsInv'
    BY <1>1, <1>2, StillKnow
  <1>6. GroupOwned'
    BY DEF ConvInv, GroupOwned
  <1>7. LateBounded'
    <2> SUFFICES ASSUME NEW d \in Convs, NEW u \in accounts,
                        conv[d].kind = "group", u \notin Members(d)'
                 PROVE  late'[d][u] + Cardinality(Posters(d, u)') < Cardinality(Requests)
      BY DEF LateBounded
    <2>1. u \in Users
      BY DEF ConvInv, TypeOK
    <2>2. CASE late'[d][u] = 0
      <3>1. Posters(d, u)' \subseteq Requests \ {r}
        BY <1>1 DEF Posters, InFlight, Idle
      <3>2. Cardinality(Posters(d, u)') < Cardinality(Requests) /\ Cardinality(Posters(d, u)') \in Nat
        BY <3>1, Without, Part
      <3> QED
        BY <2>2, <3>2
    <2>3. CASE late'[d][u] # 0
      <3>1. late'[d][u] = late[d][u] /\ u \notin Members(d)
        BY <2>1, <2>3 DEF Members
      <3> QED
        BY <1>1, <2>1, <3>1, LateKept
    <2> QED
      BY <2>2, <2>3
  <1>8. UnsentBounded'
    BY <1>1, <1>2, UnsentKept
  <1>9. LastIsRecent'
    BY DEF ConvInv, LastIsRecent, There
  <1> QED
    BY <1>3, <1>4, <1>5, <1>6, <1>7, <1>8, <1>9 DEF ConvInv

LEMMA MembersStep ==
  ASSUME ConvInv, NEW r \in Requests, UpdateWrite(r) \/ RemoveWrite(r) \/ MemberCreate(r)
  PROVE  ConvInv'
  <1>1. /\ req[r] \in Request /\ accounts \subseteq Users /\ Knows(req[r])
        /\ role \in [Convs -> [Users -> {"none", "OWNER", "MEMBER"}]]
        /\ late \in [Convs -> [Users -> Nat]]
    BY DEF ConvInv, TypeOK, RequestsInv
  <1>2. PICK c \in Convs, u \in Users : c = req[r].conv /\ u = req[r].user
    BY <1>1 DEF UpdateWrite, RemoveWrite, MemberCreate, At, Knows, Await
  <1>3. /\ Members(c) # {} => Exists(c)
        /\ Members(c) \subseteq accounts
    BY <1>2 DEF ConvInv, TypeOK
  <1>4. conv[c].kind = "group" => {v \in Users : role[c][v] = "OWNER"} = {conv[c].founder} \cap accounts
    BY <1>2 DEF ConvInv, GroupOwned
  <1>5. CASE UpdateWrite(r)
    <2>1. /\ Exists(c) /\ req[r].with \subseteq accounts \ Members(c)
          /\ role' = [role EXCEPT ![c] = [v \in Users |-> IF v \in req[r].with THEN "MEMBER"
                                                   ELSE role[c][v]]]
          /\ Finish(r) /\ req[r].pc # "send.create"
          /\ UNCHANGED <<accounts, conv, msg, told, passed, late, copies>>
      BY <1>2, <1>5 DEF UpdateWrite, At, history
    <2>2. /\ role' \in [Convs -> [Users -> {"none", "OWNER", "MEMBER"}]]
          /\ \A d \in Convs \ {c} : role'[d] = role[d]
          /\ \A v \in Users : role'[c][v] = IF v \in req[r].with THEN "MEMBER" ELSE role[c][v]
      BY <1>1, <1>2, <2>1
    <2>3. Members(c)' \subseteq accounts /\ Members(c) \ Members(c)' = {}
      BY <1>3, <2>1, <2>2 DEF Members
    <2>4. {v \in Users : role'[c][v] = "OWNER"} = {v \in Users : role[c][v] = "OWNER"}
      BY <2>1, <2>2 DEF Members
    <2> QED
      BY <1>1, <1>2, <2>1, <2>2, <2>3, <2>4, RoleStep
  <1>6. CASE RemoveWrite(r)
    <2>1. /\ req[r].pc = "remove.write" /\ req[r].with \subseteq Members(c)
          /\ role' = [role EXCEPT ![c] = [v \in Users |-> IF v \in req[r].with THEN "none"
                                                   ELSE role[c][v]]]
          /\ late' = [late EXCEPT ![c] = [v \in Users |-> IF v \in req[r].with THEN 0
                                                   ELSE late[c][v]]]
          /\ Finish(r)
          /\ UNCHANGED <<accounts, conv, msg, told, passed, copies>>
      BY <1>2, <1>6 DEF RemoveWrite, At
    <2>2. conv[c].kind = "group" => conv[c].founder \notin req[r].with
      BY <1>1, <1>2, <2>1 DEF Knows
    <2>3. /\ role' \in [Convs -> [Users -> {"none", "OWNER", "MEMBER"}]]
          /\ \A d \in Convs \ {c} : role'[d] = role[d]
          /\ \A v \in Users : role'[c][v] = IF v \in req[r].with THEN "none" ELSE role[c][v]
      BY <1>1, <1>2, <2>1
    <2>4. /\ late' \in [Convs -> [Users -> Nat]]
          /\ \A d \in Convs \ {c} : late'[d] = late[d]
          /\ \A v \in Users : late'[c][v] = IF v \in req[r].with THEN 0 ELSE late[c][v]
      BY <1>1, <1>2, <2>1
    <2>5. /\ \A d \in Convs, v \in Users : late'[d][v] \in {0, late[d][v]}
          /\ Members(c)' \subseteq Members(c)
          /\ \A v \in Members(c) \ Members(c)' : late'[c][v] = 0
      BY <1>2, <2>3, <2>4 DEF Members
    <2>6. conv[c].kind = "group" =>
            {v \in Users : role'[c][v] = "OWNER"} = {v \in Users : role[c][v] = "OWNER"}
      BY <1>4, <2>2, <2>3
    <2>7. (Members(c)' # {} => Exists(c)) /\ Members(c)' \subseteq accounts
      BY <1>3, <2>5
    <2>8. req[r].pc # "send.create" /\ \A d \in Convs \ {c} : role'[d] = role[d]
      BY <2>1, <2>3
    <2> QED
      BY <2>1, <2>3, <2>4, <2>5, <2>6, <2>7, <2>8, RoleStep
  <1>7. CASE MemberCreate(r)
    <2>1. /\ Exists(c) /\ u \in accounts \ Members(c)
          /\ role' = [role EXCEPT ![c][u] = "MEMBER"]
          /\ Finish(r) /\ req[r].pc # "send.create"
          /\ UNCHANGED <<accounts, conv, msg, told, passed, late, copies>>
      BY <1>2, <1>7 DEF MemberCreate, At, history
    <2>2. /\ role' \in [Convs -> [Users -> {"none", "OWNER", "MEMBER"}]]
          /\ \A d \in Convs \ {c} : role'[d] = role[d]
          /\ \A v \in Users : role'[c][v] = IF v = u THEN "MEMBER" ELSE role[c][v]
      BY <1>1, <1>2, <2>1
    <2>3. Members(c)' \subseteq accounts /\ Members(c) \ Members(c)' = {}
      BY <1>3, <2>1, <2>2 DEF Members
    <2>4. {v \in Users : role'[c][v] = "OWNER"} = {v \in Users : role[c][v] = "OWNER"}
      BY <2>1, <2>2 DEF Members
    <2> QED
      BY <1>1, <1>2, <2>1, <2>2, <2>3, <2>4, RoleStep
  <1> QED
    BY <1>5, <1>6, <1>7

\* What goes when the conversations cs go and the messages ms, or accounts.
LEMMA GoneStep ==
  ASSUME ConvInv, NEW cs \in SUBSET Convs, NEW ms \in SUBSET Messages,
         Delete(cs, ms), In(cs) \subseteq ms, \A m \in ms : There(m),
         accounts' \subseteq accounts,
         \A m \in Messages : There(m) /\ msg[m].sender \notin accounts' => m \in ms,
         role' \in [Convs -> [Users -> {"none", "OWNER", "MEMBER"}]],
         \A c \in Convs, u \in Users :
            role'[c][u] = IF u \notin accounts' \/ c \in cs THEN "none" ELSE role[c][u],
         req' \in [Requests -> Request], Ending,
         UNCHANGED history
  PROVE  ConvInv'
  <1>0. /\ conv \in [Convs -> Conv] /\ msg \in [Messages -> Msg]
        /\ NoConv("gone") \in Conv
    BY DEF ConvInv, TypeOK, Conv, NoConv
  <1>1. /\ conv' \in [Convs -> Conv]
        /\ \A c \in Convs : conv'[c] = IF c \in cs THEN NoConv("gone")
                                       ELSE IF conv[c].last \in ms THEN [conv[c] EXCEPT !.last = None]
                                       ELSE conv[c]
    <2>1. \A c \in Convs : [conv[c] EXCEPT !.last = None] \in Conv
      BY <1>0 DEF Conv
    <2> QED
      BY <1>0, <2>1 DEF Delete
  <1>2. \A c \in Convs :
          /\ c \in cs => conv'[c].kind = "gone" /\ conv'[c].last = None
          /\ c \notin cs => /\ conv'[c].kind = conv[c].kind /\ conv'[c].founder = conv[c].founder
                            /\ conv'[c].last = IF conv[c].last \in ms THEN None ELSE conv[c].last
    BY <1>1 DEF NoConv, ConvInv, TypeOK, Conv
  <1>3. /\ msg' \in [Messages -> Msg]
        /\ \A m \in Messages : /\ m \in ms => msg'[m].state = "gone"
                               /\ m \notin ms => msg'[m] = msg[m]
    BY DEF Delete, ConvInv, TypeOK, Msg, Unborn
  <1>4. /\ \A m \in Messages : There(m)' => m \notin ms /\ There(m) /\ msg'[m] = msg[m]
        /\ \A m \in Messages : msg'[m].state = "unborn" <=> msg[m].state = "unborn"
    BY <1>3 DEF There
  <1>5. Fading
    BY <1>2, <1>3, <1>4 DEF Fading, NoConv
  <1>6. /\ role' \in [Convs -> [Users -> {"none", "OWNER", "MEMBER"}]]
        /\ \A c \in Convs, u \in Users :
              role'[c][u] = IF u \notin accounts' \/ c \in cs THEN "none" ELSE role[c][u]
    OBVIOUS
  <1>7. TypeOK'
    <2>1. ASSUME NEW d \in Convs, Members(d)' # {}
          PROVE  Exists(d)' /\ Members(d)' \subseteq accounts'
      <3>1. d \notin cs /\ Members(d)' \subseteq Members(d) /\ Members(d)' \subseteq accounts'
        BY <1>6, <2>1 DEF Members
      <3> QED
        BY <1>2, <2>1, <3>1 DEF ConvInv, TypeOK, Exists
    <2>2. ASSUME NEW d \in Convs, conv'[d].last # None
          PROVE  There(conv[d].last)' /\ msg'[conv'[d].last].conv = d
      <3>1. d \notin cs /\ conv'[d].last = conv[d].last /\ conv[d].last \notin ms
        BY <1>2, <2>2
      <3>2. conv[d].last \in Messages /\ There(conv[d].last) /\ msg[conv[d].last].conv = d
        BY <2>2, <3>1 DEF ConvInv, TypeOK, Conv
      <3> QED
        BY <1>3, <3>1, <3>2 DEF There
    <2>3. ASSUME NEW m \in Messages, There(m)'
          PROVE  Exists(msg[m].conv)' /\ msg'[m].sender \in accounts'
      <3>1. m \notin ms /\ There(m) /\ msg'[m] = msg[m]
        BY <1>4, <2>3
      <3>2. /\ msg[m].conv \in Convs /\ Exists(msg[m].conv) /\ msg[m].conv \notin cs
            /\ msg[m].sender \in accounts'
        BY <3>1 DEF ConvInv, TypeOK, MessagesInv, In
      <3> QED
        BY <1>2, <3>1, <3>2 DEF Exists
    <2> QED
      BY <1>1, <1>3, <1>6, <2>1, <2>2, <2>3 DEF ConvInv, TypeOK, history
  <1>8. MessagesInv'
    BY <1>2, <1>4 DEF ConvInv, MessagesInv, There, history
  <1>9. RequestsInv'
    BY <1>5, StillKnow DEF history
  <1>10. GroupOwned'
    BY <1>2, <1>6 DEF ConvInv, GroupOwned
  <1>11. LateBounded'
    <2> SUFFICES ASSUME NEW d \in Convs, NEW u \in accounts',
                        conv'[d].kind = "group", u \notin Members(d)'
                 PROVE  late'[d][u] + Cardinality(Posters(d, u)') < Cardinality(Requests)
      BY DEF LateBounded
    <2>1. d \notin cs /\ conv[d].kind = "group" /\ u \in accounts /\ u \in Users
      BY <1>2 DEF ConvInv, TypeOK
    <2>2. u \notin Members(d)
      BY <1>6, <2>1 DEF Members
    <2> QED
      BY <2>1, <2>2, LateKept DEF history
  <1>12. UnsentBounded'
    BY <1>4, <1>5, UnsentKept DEF history
  <1>13. LastIsRecent'
    <2> SUFFICES ASSUME NEW c \in Convs, NEW m \in Messages, There(m)', msg'[m].conv = c,
                        conv'[c].last # None, m > conv'[c].last
                 PROVE  <<conv'[c].last, m>> \in passed' \/ told'[m] # "ok"
      BY DEF LastIsRecent
    <2>1. c \notin cs /\ conv'[c].last = conv[c].last /\ There(m) /\ msg[m].conv = c
      BY <1>2, <1>4
    <2> QED
      BY <2>1 DEF ConvInv, LastIsRecent, history
  <1> QED
    BY <1>7, <1>8, <1>9, <1>10, <1>11, <1>12, <1>13 DEF ConvInv

LEMMA DeleteStep ==
  ASSUME ConvInv, NEW r \in Requests, DeleteWrite(r)
  PROVE  ConvInv'
  <1>1. PICK c \in Convs : c = req[r].conv
    BY DEF DeleteWrite, At, ConvInv, RequestsInv, Knows, Await
  <1>2. /\ Delete({c}, In({c})) /\ role' = [role EXCEPT ![c] = [u \in Users |-> "none"]]
        /\ Finish(r) /\ accounts' = accounts /\ UNCHANGED history /\ req[r].pc = "delete.write"
    BY <1>1 DEF DeleteWrite, At
  <1>3. In({c}) \in SUBSET Messages /\ \A m \in In({c}) : There(m)
    BY DEF In
  <1>4. \A m \in Messages : There(m) => msg[m].sender \in accounts
    BY DEF ConvInv, TypeOK
  <1>5. \A d \in Convs, u \in Users : u \notin accounts => role[d][u] = "none"
    BY DEF ConvInv, TypeOK, Members
  <1>6. /\ role' \in [Convs -> [Users -> {"none", "OWNER", "MEMBER"}]]
        /\ \A d \in Convs, u \in Users :
              role'[d][u] = IF u \notin accounts' \/ d \in {c} THEN "none" ELSE role[d][u]
    <2>1. role \in [Convs -> [Users -> {"none", "OWNER", "MEMBER"}]]
      BY DEF ConvInv, TypeOK
    <2> QED
      BY <1>2, <1>5, <2>1
  <1>7. req' \in [Requests -> Request] /\ Ending
    BY <1>2, FinishEnds
  <1>8. \A m \in Messages : There(m) /\ msg[m].sender \notin accounts' => m \in In({c})
    BY <1>2, <1>4
  <1>9. {c} \in SUBSET Convs /\ accounts' \subseteq accounts /\ In({c}) \subseteq In({c})
    BY <1>2
  <1> QED
    BY <1>2, <1>3, <1>6, <1>7, <1>8, <1>9, GoneStep

LEMMA DeleteUserStep ==
  ASSUME ConvInv, NEW u \in Users, DeleteUser(u)
  PROVE  ConvInv'
  <1> DEFINE cs == {c \in Convs : u \in conv[c].ends}
  <1> DEFINE ms == {m \in Messages : There(m) /\ msg[m].sender = u} \cup In(cs)
  <1>1. /\ Delete(cs, ms) /\ accounts' = accounts \ {u}
        /\ role' = [c \in Convs |-> [v \in Users |-> IF v = u \/ u \in conv[c].ends THEN "none"
                                                     ELSE role[c][v]]]
        /\ UNCHANGED history /\ req' = req
    BY DEF DeleteUser
  <1>2. /\ cs \in SUBSET Convs /\ ms \in SUBSET Messages /\ In(cs) \subseteq ms
        /\ \A m \in ms : There(m)
        /\ \A c \in Convs : c \in cs <=> u \in conv[c].ends
        /\ \A m \in Messages : There(m) /\ msg[m].sender = u => m \in ms
    BY DEF In
  <1> HIDE DEF cs, ms
  <1>3. \A m \in Messages : There(m) /\ msg[m].sender \notin accounts' => m \in ms
    BY <1>1, <1>2 DEF ConvInv, TypeOK
  <1>4. \A d \in Convs, v \in Users : v \notin accounts => role[d][v] = "none"
    BY DEF ConvInv, TypeOK, Members
  <1>5. /\ role' \in [Convs -> [Users -> {"none", "OWNER", "MEMBER"}]]
        /\ \A c \in Convs, v \in Users :
              role'[c][v] = IF v \notin accounts' \/ c \in cs THEN "none" ELSE role[c][v]
    <2>1. role \in [Convs -> [Users -> {"none", "OWNER", "MEMBER"}]]
      BY DEF ConvInv, TypeOK
    <2> QED
      BY <1>1, <1>2, <1>4, <2>1
  <1>6. req' \in [Requests -> Request] /\ Ending /\ accounts' \subseteq accounts
    BY <1>1 DEF ConvInv, TypeOK, Ending
  <1> QED
    BY <1>1, <1>2, <1>3, <1>5, <1>6, GoneStep

-----------------------------------------------------------------------------
(* Messages *)

\* The new message is the newest: all that are there are older, and all
\* conversations that are becoming aware of an older one have seen it coming.
LEMMA SendCreateStep ==
  ASSUME ConvInv, NEW r \in Requests, NEW m \in Messages, SendCreate(r, m)
  PROVE  ConvInv'
  <1>0. /\ req[r] \in Request /\ accounts \subseteq Users /\ Knows(req[r])
        /\ late \in [Convs -> [Users -> Nat]] /\ copies \in [Messages -> Nat]
        /\ msg \in [Messages -> Msg]
    BY DEF ConvInv, TypeOK, RequestsInv
  <1>1. PICK c \in Convs, u \in Users : c = req[r].conv /\ u = req[r].user
    BY <1>0 DEF SendCreate, At, Knows, Await
  <1>2. PICK n : n = req[r].ref
    OBVIOUS
  <1>3. /\ req[r].pc = "send.create" /\ Exists(c) /\ u \in accounts
        /\ n # None => There(n)
        /\ msg[m].state = "unborn" /\ \A k \in 1..m - 1 : msg[k].state # "unborn"
        /\ msg' = [msg EXCEPT ![m] = [state |-> "there", conv |-> c, sender |-> u,
                                      hidden |-> FALSE]]
        /\ passed' = passed \cup {<<req[q].msg, m>> : q \in {p \in InFlight({"send.last"}) :
                                                                req[p].conv = c}}
        /\ late' = [late EXCEPT ![c][u] = IF u \in Participants(c) THEN late[c][u]
                                          ELSE late[c][u] + 1]
        /\ copies' = [k \in Messages |-> IF /\ k = n /\ req[r].kind = "forward"
                                            /\ msg[k].hidden
                                         THEN copies[k] + 1 ELSE copies[k]]
        /\ req' = [req EXCEPT ![r].pc = "send.last", ![r].msg = m]
        /\ UNCHANGED <<accounts, conv, role, told>>
    BY <1>1, <1>2 DEF SendCreate, Referable, At
  <1>4. /\ m \in Nat /\ \A k \in Messages : k \in Nat /\ (k < m => k \in 1..m - 1)
        /\ MaxMessages \in Nat
    BY ConstantsAssumption DEF Messages, ConstantsAssumption
  <1>5. /\ msg' \in [Messages -> Msg]
        /\ msg'[m].state = "there" /\ msg'[m].conv = c /\ msg'[m].sender = u /\ ~msg'[m].hidden
        /\ \A k \in Messages \ {m} : msg'[k] = msg[k]
    BY <1>0, <1>3 DEF Msg
  <1>6. PICK q \in Request : /\ q = [req[r] EXCEPT !.pc = "send.last", !.msg = m]
                             /\ q.pc = "send.last" /\ q.msg = m /\ q.conv = c /\ q.user = u
    <2> DEFINE p == [req[r] EXCEPT !.pc = "send.last", !.msg = m]
    <2>1. p \in Request /\ p.pc = "send.last" /\ p.msg = m /\ p.conv = c /\ p.user = u
      BY <1>0, <1>1 DEF Request, Await
    <2> QED
      BY <2>1
  <1>7. /\ req' \in [Requests -> Request]
        /\ \A s \in Requests : req'[s] = IF s = r THEN q ELSE req[s]
    <2>1. req' = [req EXCEPT ![r] = q]
      BY <1>3, <1>6 DEF ConvInv, TypeOK
    <2> QED
      BY <2>1, SlotAfter
  \* All newer ones are yet to be created, and the older ones are not.
  <1>8. \A k \in Messages : /\ k > m => msg[k].state = "unborn"
                            /\ msg[k].state = "unborn" => k >= m
    BY <1>3, <1>4 DEF ConvInv, MessagesInv
  <1>9. TypeOK'
    <2>1. passed' \subseteq Messages \X Messages
      <3>1. \A p \in Requests : At(p, "send.last") => req[p].msg \in Messages
        BY DEF ConvInv, RequestsInv, Knows, At
      <3>2. \A p \in InFlight({"send.last"}) : <<req[p].msg, m>> \in Messages \X Messages
        BY <3>1 DEF InFlight, At
      <3>3. passed \subseteq Messages \X Messages
        BY DEF ConvInv, TypeOK
      <3> QED
        BY <1>3, <3>2, <3>3
    <2>2. late' \in [Convs -> [Users -> Nat]] /\ copies' \in [Messages -> Nat]
      BY <1>0, <1>3
    <2>3. ASSUME NEW d \in Convs, conv'[d].last # None
          PROVE  There(conv[d].last)' /\ msg'[conv'[d].last].conv = d
      <3>1. conv[d].last \in Messages /\ There(conv[d].last) /\ msg[conv[d].last].conv = d
        BY <1>3, <2>3 DEF ConvInv, TypeOK, Conv
      <3> QED
        BY <1>3, <1>5, <3>1 DEF There
    <2>4. ASSUME NEW k \in Messages, There(k)'
          PROVE  Exists(msg[k].conv)' /\ msg'[k].sender \in accounts'
      BY <1>3, <1>5, <2>4 DEF ConvInv, TypeOK, There, Exists
    <2>5. \A d \in Convs : Members(d)' # {} => Exists(d)' /\ Members(d)' \subseteq accounts'
      BY <1>3 DEF ConvInv, TypeOK, Members, Exists
    <2> QED
      BY <1>3, <1>5, <1>7, <2>1, <2>2, <2>3, <2>4, <2>5 DEF ConvInv, TypeOK
  <1>10. MessagesInv'
    <2>1. \A k \in Messages : There(k)' => msg'[k].conv \in Convs
      BY <1>5 DEF ConvInv, MessagesInv, There
    <2>2. \A j, k \in Messages : j < k /\ msg'[j].state = "unborn" => msg'[k].state = "unborn"
      <3> SUFFICES ASSUME NEW j \in Messages, NEW k \in Messages, j < k, msg'[j].state = "unborn"
                   PROVE  msg'[k].state = "unborn"
        OBVIOUS
      <3>1. j # m /\ msg[j].state = "unborn"
        BY <1>5
      <3>2. j >= m
        BY <1>8, <3>1
      <3>3. k > m
        BY <1>4, <3>1, <3>2
      <3> QED
        BY <1>4, <1>5, <1>8, <3>3
    <2>3. \A k \in Messages : msg'[k].state = "unborn" => told'[k] = "none"
      BY <1>3, <1>5 DEF ConvInv, MessagesInv
    <2>4. \A k \in Messages :
             msg'[k].state = "unborn" \/ (There(k)' /\ ~msg'[k].hidden) => copies'[k] = 0
      <3> SUFFICES ASSUME NEW k \in Messages,
                          msg'[k].state = "unborn" \/ (There(k)' /\ ~msg'[k].hidden)
                   PROVE  copies'[k] = 0
        OBVIOUS
      <3>1. n \in Messages => msg[n].state = "there"
        BY <1>3, ConstantsAssumption DEF There, Messages, ConstantsAssumption
      <3>2. msg[k].state = "unborn" \/ (There(k) /\ ~msg[k].hidden)
        BY <1>3, <1>5 DEF There
      <3>3. copies[k] = 0
        BY <3>2 DEF ConvInv, MessagesInv
      <3>4. copies'[k] = copies[k]
        BY <1>3, <3>1, <3>2 DEF There
      <3> QED
        BY <3>3, <3>4
    <2>5. \A d \in Convs : conv'[d].kind = "unborn" => \A v \in Users : late'[d][v] = 0
      BY <1>0, <1>3 DEF ConvInv, MessagesInv, Exists
    <2> QED
      BY <2>1, <2>2, <2>3, <2>4, <2>5 DEF MessagesInv, There
  <1>11. RequestsInv'
    <2> SUFFICES ASSUME NEW s \in Requests PROVE Knows(req[s])'
      BY DEF RequestsInv
    <2>1. CASE s = r
      <3>1. req'[s] = q
        BY <1>7, <2>1
      <3>2. \A k \in Messages : k > m => ~There(k)'
        BY <1>4, <1>5, <1>8 DEF There
      <3> QED
        BY <1>1, <1>5, <1>6, <3>1, <3>2 DEF Knows, There
    <2>2. CASE s # r
      <3>1. req'[s] = req[s] /\ Knows(req[s])
        BY <1>7, <2>2 DEF ConvInv, RequestsInv
      <3>2. ASSUME req[s].pc = "send.last"
            PROVE  /\ msg'[req[s].msg].state # "unborn" /\ req[s].msg \in Messages
                   /\ There(req[s].msg)' => msg'[req[s].msg].conv = req[s].conv
                   /\ \A k \in Messages : k > req[s].msg /\ There(k)' /\ msg'[k].conv = req[s].conv
                        => <<req[s].msg, k>> \in passed'
        <4>1. req[s].msg # m /\ req[s].msg \in Messages /\ msg[req[s].msg].state # "unborn"
          BY <1>3, <3>1, <3>2 DEF Knows
        <4>2. req[s].conv = c => <<req[s].msg, m>> \in passed'
          BY <1>3, <3>2 DEF InFlight
        <4> QED
          BY <1>3, <1>5, <3>1, <3>2, <4>1, <4>2 DEF Knows, There
      <3> QED
        BY <1>3, <3>1, <3>2 DEF Knows, There
    <2> QED
      BY <2>1, <2>2
  <1>12. GroupOwned'
    BY <1>3 DEF ConvInv, GroupOwned
  <1>13. LateBounded'
    <2> SUFFICES ASSUME NEW d \in Convs, NEW v \in accounts,
                        conv[d].kind = "group", v \notin Members(d)
                 PROVE  late'[d][v] + Cardinality(Posters(d, v)') < Cardinality(Requests)
      BY <1>3 DEF LateBounded, Members
    <2>1. v \in Users
      BY <1>0
    <2>2. late[d][v] + Cardinality(Posters(d, v)) < Cardinality(Requests)
      BY DEF ConvInv, LateBounded
    <2>3. CASE d = c /\ v = u
      <3>1. r \in Posters(d, v) /\ Posters(d, v)' \subseteq Posters(d, v) \ {r}
        BY <1>1, <1>3, <1>6, <1>7, <2>3 DEF Posters, InFlight
      <3>2. /\ Cardinality(Posters(d, v)') <= Cardinality(Posters(d, v)) - 1
            /\ Cardinality(Posters(d, v)') \in Nat /\ Cardinality(Posters(d, v)) \in Nat
            /\ Cardinality(Requests) \in Nat
        <4>1. /\ Posters(d, v) \in SUBSET Requests
              /\ Posters(d, v) \ {r} \in SUBSET Requests
          BY DEF Posters, InFlight
        <4>2. Cardinality(Posters(d, v) \ {r}) = Cardinality(Posters(d, v)) - 1
          BY <3>1, <4>1, Part
        <4>3. Cardinality(Posters(d, v)') <= Cardinality(Posters(d, v) \ {r})
          BY <3>1, <4>1, Part
        <4> QED
          BY <3>1, <4>1, <4>2, <4>3, Part
      <3>3. late'[d][v] = late[d][v] + 1 /\ late[d][v] \in Nat
        BY <1>0, <1>3, <2>1, <2>3 DEF Participants
      <3> QED
        BY <2>2, <3>2, <3>3
    <2>4. CASE ~(d = c /\ v = u)
      <3>1. late'[d][v] = late[d][v]
        BY <1>0, <1>3, <2>1, <2>4
      <3>2. Posters(d, v)' \subseteq Posters(d, v)
        BY <1>6, <1>7 DEF Posters, InFlight
      <3> QED
        BY <2>1, <2>2, <3>1, <3>2, FewerPosters
    <2> QED
      BY <2>3, <2>4
  <1>14. UnsentBounded'
    <2> SUFFICES ASSUME NEW k \in Messages, There(k)', msg'[k].hidden
                 PROVE  copies'[k] + Cardinality(Forwarders(k)') < Cardinality(Requests)
      BY DEF UnsentBounded
    <2>1. k # m /\ There(k) /\ msg[k].hidden
      BY <1>5 DEF There
    <2>2. copies[k] + Cardinality(Forwarders(k)) < Cardinality(Requests)
      BY <2>1 DEF ConvInv, UnsentBounded
    <2>3. CASE k = n /\ req[r].kind = "forward"
      <3>1. r \in Forwarders(k) /\ Forwarders(k)' \subseteq Forwarders(k) \ {r}
        BY <1>2, <1>3, <1>6, <1>7, <2>3 DEF Forwarders, InFlight
      <3>2. /\ Cardinality(Forwarders(k)') <= Cardinality(Forwarders(k)) - 1
            /\ Cardinality(Forwarders(k)') \in Nat /\ Cardinality(Forwarders(k)) \in Nat
            /\ Cardinality(Requests) \in Nat
        <4>1. /\ Forwarders(k) \in SUBSET Requests
              /\ Forwarders(k) \ {r} \in SUBSET Requests
          BY DEF Forwarders, InFlight
        <4>2. Cardinality(Forwarders(k) \ {r}) = Cardinality(Forwarders(k)) - 1
          BY <3>1, <4>1, Part
        <4>3. Cardinality(Forwarders(k)') <= Cardinality(Forwarders(k) \ {r})
          BY <3>1, <4>1, Part
        <4> QED
          BY <3>1, <4>1, <4>2, <4>3, Part
      <3>3. copies'[k] = copies[k] + 1 /\ copies[k] \in Nat
        BY <1>0, <1>3, <2>1, <2>3
      <3> QED
        BY <2>2, <3>2, <3>3
    <2>4. CASE ~(k = n /\ req[r].kind = "forward")
      <3>1. copies'[k] = copies[k]
        BY <1>3, <2>4
      <3>2. Forwarders(k)' \subseteq Forwarders(k)
        BY <1>6, <1>7 DEF Forwarders, InFlight
      <3> QED
        BY <2>2, <3>1, <3>2, FewerForwarders
    <2> QED
      BY <2>3, <2>4
  <1>15. LastIsRecent'
    <2> SUFFICES ASSUME NEW d \in Convs, NEW k \in Messages, There(k)', msg'[k].conv = d,
                        conv'[d].last # None, k > conv'[d].last
                 PROVE  <<conv'[d].last, k>> \in passed' \/ told'[k] # "ok"
      BY DEF LastIsRecent
    <2>1. CASE k = m
      BY <1>3, <2>1 DEF ConvInv, MessagesInv
    <2>2. CASE k # m
      BY <1>3, <1>5, <2>2 DEF ConvInv, LastIsRecent, There
    <2> QED
      BY <2>1, <2>2
  <1> QED
    BY <1>9, <1>10, <1>11, <1>12, <1>13, <1>14, <1>15 DEF ConvInv

\* The message becomes the last one of its conversation, after the newer ones
\* that are there, if any: those were created while it was being sent.
LEMMA SendLastStep ==
  ASSUME ConvInv, NEW r \in Requests, SendLast(r)
  PROVE  ConvInv'
  <1>0. req[r] \in Request /\ Knows(req[r])
    BY DEF ConvInv, TypeOK, RequestsInv
  <1>1. PICK c \in Convs, m \in Messages : c = req[r].conv /\ m = req[r].msg
    BY <1>0 DEF SendLast, At, Knows, Await
  <1>2. /\ req[r].pc = "send.last" /\ Exists(c) /\ There(m)
        /\ conv' = [conv EXCEPT ![c].last = m]
        /\ told' = [told EXCEPT ![m] = "ok"]
        /\ Goto(r, "send.notify") \/ Finish(r)
        /\ UNCHANGED <<accounts, role, msg, passed, late, copies>>
    BY <1>1 DEF SendLast, At
  <1>3. /\ msg[m].conv = c
        /\ \A k \in Messages : k > m /\ There(k) /\ msg[k].conv = c => <<m, k>> \in passed
    BY <1>0, <1>1, <1>2 DEF Knows
  <1>4. /\ conv' \in [Convs -> Conv]
        /\ \A d \in Convs : /\ conv'[d].kind = conv[d].kind /\ conv'[d].founder = conv[d].founder
                            /\ conv'[d].last = IF d = c THEN m ELSE conv[d].last
    <2>0. conv \in [Convs -> Conv] /\ conv[c] \in Conv
      BY DEF ConvInv, TypeOK
    <2>1. conv \in [Convs -> Conv] /\ [conv[c] EXCEPT !.last = m] \in Conv
      BY <2>0 DEF Conv
    <2>2. conv' = [conv EXCEPT ![c] = [conv[c] EXCEPT !.last = m]]
      BY <1>2, <2>1 DEF Conv
    <2>3. \A d \in Convs : conv'[d] = IF d = c THEN [conv[c] EXCEPT !.last = m] ELSE conv[d]
      BY <2>1, <2>2
    <2> QED
      BY <2>1, <2>2, <2>3 DEF Conv
  <1>5. PICK q \in Request : /\ req' = [req EXCEPT ![r] = q]
                             /\ q.pc \in {"send.notify", "idle"}
                             /\ q.pc = "send.notify" => q.user \in Users /\ q.conv \in Convs
    <2>1. CASE Goto(r, "send.notify")
      <3>1. /\ [req[r] EXCEPT !.pc = "send.notify"] \in Request
            /\ [req[r] EXCEPT !.pc = "send.notify"].pc = "send.notify"
            /\ [req[r] EXCEPT !.pc = "send.notify"].user \in Users
            /\ [req[r] EXCEPT !.pc = "send.notify"].conv \in Convs
        BY <1>0, <1>1, <1>2 DEF Request, Await, Knows
      <3>2. req' = [req EXCEPT ![r] = [req[r] EXCEPT !.pc = "send.notify"]]
        BY <2>1 DEF Goto, ConvInv, TypeOK
      <3> QED
        BY <3>1, <3>2
    <2>2. CASE Finish(r)
      BY <2>2, IdleType DEF Finish, Idle
    <2> QED
      BY <1>2, <2>1, <2>2
  <1>6. /\ req' \in [Requests -> Request]
        /\ \A s \in Requests : req'[s] = IF s = r THEN q ELSE req[s]
    BY <1>5, SlotAfter
  <1>7. /\ told' \in [Messages -> {"none", "ok", "refused"}]
        /\ \A k \in Messages : told'[k] = IF k = m THEN "ok" ELSE told[k]
    BY <1>2 DEF ConvInv, TypeOK
  <1>8. TypeOK'
    <2>1. ASSUME NEW d \in Convs, conv'[d].last # None
          PROVE  There(conv[d].last)' /\ msg'[conv'[d].last].conv = d
      BY <1>2, <1>3, <1>4, <2>1 DEF ConvInv, TypeOK, There
    <2>2. ASSUME NEW k \in Messages, There(k)'
          PROVE  Exists(msg[k].conv)' /\ msg'[k].sender \in accounts'
      <3>1. There(k) /\ Exists(msg[k].conv) /\ msg[k].sender \in accounts /\ msg[k].conv \in Convs
        BY <1>2, <2>2 DEF ConvInv, TypeOK, MessagesInv, There
      <3> QED
        BY <1>2, <1>4, <3>1 DEF Exists
    <2>3. \A d \in Convs : Members(d)' # {} => Exists(d)' /\ Members(d)' \subseteq accounts'
      BY <1>2, <1>4 DEF ConvInv, TypeOK, Members, Exists
    <2> QED
      BY <1>2, <1>4, <1>6, <1>7, <2>1, <2>2, <2>3 DEF ConvInv, TypeOK
  <1>9. MessagesInv'
    BY <1>2, <1>4, <1>7 DEF ConvInv, MessagesInv, There
  <1>10. RequestsInv'
    <2> SUFFICES ASSUME NEW s \in Requests PROVE Knows(req[s])'
      BY DEF RequestsInv
    <2>1. CASE s = r
      BY <1>5, <1>6, <2>1 DEF Knows, Await
    <2>2. CASE s # r
      <3>1. req'[s] = req[s] /\ Knows(req[s])
        BY <1>6, <2>2 DEF ConvInv, RequestsInv
      <3>2. req[s].pc = "remove.write" => req[s].conv \in Convs
        BY <3>1 DEF Knows, Await
      <3> QED
        BY <1>2, <1>4, <3>1, <3>2 DEF Knows, There
    <2> QED
      BY <2>1, <2>2
  <1>11. GroupOwned'
    BY <1>2, <1>4 DEF ConvInv, GroupOwned
  <1>12. LateBounded'
    <2> SUFFICES ASSUME NEW d \in Convs, NEW u \in accounts,
                        conv[d].kind = "group", u \notin Members(d)
                 PROVE  late'[d][u] + Cardinality(Posters(d, u)') < Cardinality(Requests)
      BY <1>2, <1>4 DEF LateBounded, Members
    <2>1. Posters(d, u)' \subseteq Posters(d, u)
      BY <1>5, <1>6 DEF Posters, InFlight
    <2>2. late[d][u] + Cardinality(Posters(d, u)) < Cardinality(Requests) /\ u \in Users
      BY DEF ConvInv, LateBounded, TypeOK
    <2> QED
      BY <1>2, <2>1, <2>2, FewerPosters
  <1>13. UnsentBounded'
    <2> SUFFICES ASSUME NEW k \in Messages, There(k), msg[k].hidden
                 PROVE  copies'[k] + Cardinality(Forwarders(k)') < Cardinality(Requests)
      BY <1>2 DEF UnsentBounded, There
    <2>1. Forwarders(k)' \subseteq Forwarders(k)
      BY <1>5, <1>6 DEF Forwarders, InFlight
    <2>2. copies[k] + Cardinality(Forwarders(k)) < Cardinality(Requests)
      BY DEF ConvInv, UnsentBounded
    <2> QED
      BY <1>2, <2>1, <2>2, FewerForwarders
  <1>14. LastIsRecent'
    <2> SUFFICES ASSUME NEW d \in Convs, NEW k \in Messages, There(k), msg[k].conv = d,
                        conv'[d].last # None, k > conv'[d].last
                 PROVE  <<conv'[d].last, k>> \in passed \/ told'[k] # "ok"
      BY <1>2 DEF LastIsRecent, There
    <2>1. CASE d = c
      BY <1>3, <1>4, <2>1
    <2>2. CASE d # c
      <3>1. k # m
        BY <1>3, <2>2
      <3> QED
        BY <1>4, <1>7, <2>2, <3>1 DEF ConvInv, LastIsRecent
    <2> QED
      BY <2>1, <2>2
  <1> QED
    BY <1>8, <1>9, <1>10, <1>11, <1>12, <1>13, <1>14 DEF ConvInv

\* No content of the message has been copied since it is hidden; and the one
\* that hides it copies nothing.
LEMMA UnsendStep ==
  ASSUME ConvInv, NEW r \in Requests, UnsendWrite(r)
  PROVE  ConvInv'
  <1>0. req[r] \in Request /\ Knows(req[r])
    BY DEF ConvInv, TypeOK, RequestsInv
  <1>1. PICK m \in Messages : m = req[r].msg
    BY <1>0 DEF UnsendWrite, At, Knows
  <1>2. /\ req[r].pc = "unsend.write" /\ There(m)
        /\ msg' = [msg EXCEPT ![m].hidden = TRUE]
        /\ Finish(r)
        /\ UNCHANGED <<accounts, conv, role, told, passed, late, copies>>
    BY <1>1 DEF UnsendWrite, At, history
  <1>3. /\ msg' \in [Messages -> Msg]
        /\ \A k \in Messages : /\ msg'[k].state = msg[k].state /\ msg'[k].conv = msg[k].conv
                               /\ msg'[k].sender = msg[k].sender
                               /\ k # m => msg'[k].hidden = msg[k].hidden
                               /\ ~msg'[k].hidden => ~msg[k].hidden
    <2>0. msg \in [Messages -> Msg] /\ msg[m] \in Msg
      BY DEF ConvInv, TypeOK
    <2>1. msg \in [Messages -> Msg] /\ [msg[m] EXCEPT !.hidden = TRUE] \in Msg
      BY <2>0 DEF Msg
    <2>2. msg' = [msg EXCEPT ![m] = [msg[m] EXCEPT !.hidden = TRUE]]
      BY <1>2, <2>1 DEF Msg
    <2>3. \A k \in Messages : msg'[k] = IF k = m THEN [msg[m] EXCEPT !.hidden = TRUE] ELSE msg[k]
      BY <2>1, <2>2
    <2> QED
      BY <2>1, <2>2, <2>3 DEF Msg
  <1>4. req' \in [Requests -> Request] /\ Ending /\ req'[r] = Idle
    BY <1>2, FinishEnds
  <1>5. Fading
    BY <1>2, <1>3 DEF Fading, There
  <1>6. TypeOK'
    <2>1. ASSUME NEW d \in Convs, conv'[d].last # None
          PROVE  There(conv[d].last)' /\ msg'[conv'[d].last].conv = d
      <3>1. conv[d].last \in Messages
        BY <1>2, <2>1 DEF ConvInv, TypeOK, Conv
      <3> QED
        BY <1>2, <1>3, <2>1, <3>1 DEF ConvInv, TypeOK, There
    <2>2. \A k \in Messages : There(k)' => Exists(msg[k].conv)' /\ msg'[k].sender \in accounts'
      BY <1>2, <1>3 DEF ConvInv, TypeOK, There, Exists
    <2>3. \A d \in Convs : Members(d)' # {} => Exists(d)' /\ Members(d)' \subseteq accounts'
      BY <1>2 DEF ConvInv, TypeOK, Members, Exists
    <2> QED
      BY <1>2, <1>3, <1>4, <2>1, <2>2, <2>3 DEF ConvInv, TypeOK
  <1>7. MessagesInv'
    BY <1>2, <1>3 DEF ConvInv, MessagesInv, There
  <1>8. RequestsInv'
    BY <1>2, <1>4, <1>5, StillKnow
  <1>9. GroupOwned'
    BY <1>2 DEF ConvInv, GroupOwned
  <1>10. LateBounded'
    <2> SUFFICES ASSUME NEW d \in Convs, NEW u \in accounts,
                        conv[d].kind = "group", u \notin Members(d)
                 PROVE  late'[d][u] + Cardinality(Posters(d, u)') < Cardinality(Requests)
      BY <1>2 DEF LateBounded, Members
    <2> QED
      BY <1>2, <1>4, LateKept DEF ConvInv, TypeOK
  <1>11. UnsentBounded'
    <2> SUFFICES ASSUME NEW k \in Messages, There(k), msg'[k].hidden
                 PROVE  copies'[k] + Cardinality(Forwarders(k)') < Cardinality(Requests)
      BY <1>3 DEF UnsentBounded, There
    <2>1. Forwarders(k)' \subseteq Forwarders(k)
      BY <1>4 DEF Ending, Forwarders, InFlight, Idle
    <2>2. CASE msg[k].hidden
      <3>1. copies[k] + Cardinality(Forwarders(k)) < Cardinality(Requests)
        BY <2>2 DEF ConvInv, UnsentBounded
      <3> QED
        BY <1>2, <2>1, <3>1, FewerForwarders
    <2>3. CASE ~msg[k].hidden
      <3>1. copies'[k] = 0
        BY <1>2, <2>3 DEF ConvInv, MessagesInv
      <3>2. Forwarders(k)' \in SUBSET (Requests \ {r})
        BY <1>4 DEF Forwarders, InFlight, Idle
      <3>3. Cardinality(Forwarders(k)') < Cardinality(Requests) /\ Cardinality(Forwarders(k)') \in Nat
        BY <3>2, Without, Part
      <3> QED
        BY <3>1, <3>3
    <2> QED
      BY <2>2, <2>3
  <1>12. LastIsRecent'
    BY <1>2, <1>3 DEF ConvInv, LastIsRecent, There
  <1> QED
    BY <1>6, <1>7, <1>8, <1>9, <1>10, <1>11, <1>12 DEF ConvInv

-----------------------------------------------------------------------------
(* The specification *)

LEMMA ConvInit ==
  Init => ConvInv
  <1> SUFFICES ASSUME Init PROVE ConvInv
    OBVIOUS
  <1>1. \A r \in Requests : req[r] = Idle
    BY DEF Init
  <1>2. TypeOK
    BY IdleType DEF Init, TypeOK, NoConv, Unborn, Conv, Msg, There, Exists, Members
  <1>3. MessagesInv
    BY DEF Init, MessagesInv, NoConv, Unborn, There
  <1>4. RequestsInv
    BY <1>1, IdleType DEF RequestsInv
  <1>5. GroupOwned /\ LateBounded /\ LastIsRecent
    BY DEF Init, GroupOwned, LateBounded, LastIsRecent, NoConv
  <1>6. UnsentBounded
    BY DEF Init, UnsentBounded, Unborn, There
  <1> QED
    BY <1>2, <1>3, <1>4, <1>5, <1>6 DEF ConvInv

LEMMA ConvNext ==
  ConvInv /\ [Next]_vars => ConvInv'
  <1> SUFFICES ASSUME ConvInv, [Next]_vars PROVE ConvInv'
    OBVIOUS
  <1>1. ASSUME NEW r \in Requests, Step(r) PROVE ConvInv'
    <2>1. CASE \E c \in Convs : InitiateCreate(r, c) \/ GroupCreate(r, c)
      BY <2>1, CreateConvStep
    <2>2. CASE \/ InitiateFound(r) \/ InitiateNone(r) \/ UpdateUsers(r) \/ MemberConv(r)
               \/ SendFind(r) \/ SendNotify(r) \/ Fail(r)
      BY <2>2, MoveStep
    <2>3. CASE UpdateWrite(r) \/ RemoveWrite(r) \/ MemberCreate(r)
      BY <2>3, MembersStep
    <2>4. CASE DeleteWrite(r)
      BY <2>4, DeleteStep
    <2>5. CASE \E m \in Messages : SendCreate(r, m)
      BY <2>5, SendCreateStep
    <2>6. CASE SendLast(r)
      BY <2>6, SendLastStep
    <2>7. CASE UnsendWrite(r)
      BY <2>7, UnsendStep
    <2> QED
      BY <1>1, <2>1, <2>2, <2>3, <2>4, <2>5, <2>6, <2>7 DEF Step
  <1>2. ASSUME NEW r \in Requests, NEW u \in Users, Arrive(r, u) PROVE ConvInv'
    BY <1>2, ArriveStep
  <1>3. ASSUME NEW u \in Users, DeleteUser(u) PROVE ConvInv'
    BY <1>3, DeleteUserStep
  <1>4. CASE UNCHANGED vars
    BY <1>4 DEF vars, ConvInv, TypeOK, MessagesInv, RequestsInv, Knows, GroupOwned, LateBounded,
            UnsentBounded, LastIsRecent, Posters, Forwarders, InFlight, There, Exists, Members
  <1> QED
    BY <1>1, <1>2, <1>3, <1>4 DEF Next

\* Every row refers to rows that exist: a conversation to a last message of its
\* own, a message to its conversation and its sender, a member row to its
\* conversation and its account, whatever is deleted while handlers run.
THEOREM ConversationTypes ==
  Spec => []TypeOK
  <1>1. ConvInv => TypeOK
    BY DEF ConvInv
  <1> QED
    BY <1>1, ConvInit, ConvNext, PTL DEF Spec

\* A group has the owner it was created with, as long as he has an account.
THEOREM OwnerSafety ==
  Spec => []GroupOwned
  <1>1. ConvInv => GroupOwned
    BY DEF ConvInv
  <1> QED
    BY <1>1, ConvInit, ConvNext, PTL DEF Spec

\* Who was removed from a group posts no more in it than what overlapped with
\* the removal, for any number of handlers in flight.
THEOREM LateSafety ==
  Spec => []LateBounded
  <1>1. ConvInv => LateBounded
    BY DEF ConvInv
  <1> QED
    BY <1>1, ConvInit, ConvNext, PTL DEF Spec

\* The content of an unsent message is copied only by forwards that had read it
\* before.
THEOREM UnsentSafety ==
  Spec => []UnsentBounded
  <1>1. ConvInv => UnsentBounded
    BY DEF ConvInv
  <1> QED
    BY <1>1, ConvInit, ConvNext, PTL DEF Spec

\* The last message of a conversation is its newest recorded one, or was being
\* sent when the newer ones were created.
THEOREM LastSafety ==
  Spec => []LastIsRecent
  <1>1. ConvInv => LastIsRecent
    BY DEF ConvInv
  <1> QED
    BY <1>1, ConvInit, ConvNext, PTL DEF Spec
=============================================================================
