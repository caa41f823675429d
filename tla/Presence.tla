------------------------------ MODULE Presence ------------------------------
(***************************************************************************)
(* User.isOnline, written by both gateways: true at the end of a           *)
(* connection's handshake, false when a socket goes, either by request of  *)
(* the user.  Each write is a database operation of a handler that runs    *)
(* beside the others; Socket.IO runs the handler of a disconnection also   *)
(* while the one of the connection still runs.                             *)
(*                                                                         *)
(* The middleware of the gateway lets a socket in that has read the user's *)
(* row; nobody closes it when the account is deleted.                      *)
(*                                                                         *)
(* Left out: rooms, what is sent to the clients, lastActiveAt, and tokens  *)
(* that the middleware refuses before it reads.                            *)
(***************************************************************************)
CONSTANTS
    Users,
    Sockets,   \* bound: the sockets that can be opened, in either gateway
    None

\* What is assumed of the constants; Services assumes it of each instance.
PresenceAssumption == None \notin Users

VARIABLES
    online,  \* online[u]: isOnline of the row of u
    deleted, \* the users whose row is gone
    socket,  \* socket[s]: a socket and its two handlers
    ghost,   \* history: ghost[u], why u may be online without a socket
    byHand,  \* history: byHand[u], the last write was a request of u
    over     \* history: <<o, s>>, o's disconnection was written while s, of the same
             \* user, was open and had written its handshake

vars == <<online, deleted, socket, ghost, byHand, over>>

Socket == [user : Users \cup {None},
           link : {"unborn", "asking", "open", "closed"},
           up   : {"idle", "auth", "find", "write", "failed", "done"},   \* middleware, handleConnection
           down : {"idle", "write", "done"}]                     \* handleDisconnect

Unborn == [user |-> None, link |-> "unborn", up |-> "idle", down |-> "idle"]

TypeOK ==
    /\ online \in [Users -> BOOLEAN]
    /\ deleted \subseteq Users
    /\ socket \in [Sockets -> Socket]
    /\ ghost \in [Users -> SUBSET {"overtaken", "failed", "restart"}]
    /\ byHand \in [Users -> BOOLEAN]
    /\ over \subseteq Sockets \X Sockets
    /\ \A s \in Sockets : socket[s].link = "unborn" <=> socket[s] = Unborn
    /\ \A s \in Sockets : socket[s].link = "open" => socket[s].down = "idle"
    /\ \A s \in Sockets : socket[s].link = "asking" => socket[s].up = "auth"
    /\ \A u \in deleted : ~online[u]

Init ==
    /\ online = [u \in Users |-> FALSE]
    /\ deleted = {}
    /\ socket = [s \in Sockets |-> Unborn]
    /\ ghost = [u \in Users |-> {}]
    /\ byHand = [u \in Users |-> FALSE]
    /\ over = {}

-----------------------------------------------------------------------------

Open(u) == {s \in Sockets : socket[s].user = u /\ socket[s].link = "open"}

\* A write of u's row, by hand or not; if true, with what may make it wrong.
SetStatus(u, on, hand, why) ==
    /\ u \notin deleted
    /\ online' = [online EXCEPT ![u] = on]
    /\ ghost' = [ghost EXCEPT ![u] = why]
    /\ byHand' = [byHand EXCEPT ![u] = hand]
    /\ UNCHANGED deleted

\* A client presents a token of u, which is valid.
Knock(s, u) ==
    /\ socket[s] = Unborn
    /\ socket' = [socket EXCEPT ![s] = [Unborn EXCEPT !.user = u, !.link = "asking", !.up = "auth"]]
    /\ UNCHANGED <<online, deleted, ghost, byHand, over>>

\* The middleware has found the row; handleConnection joins the room of the user.
Connect(s) ==
    /\ socket[s].link = "asking" /\ socket[s].user \notin deleted
    /\ socket' = [socket EXCEPT ![s].link = "open", ![s].up = "find"]
    /\ UNCHANGED <<online, deleted, ghost, byHand, over>>

\* There is no row, it cannot be read, or the client has gone: no handler runs.
ConnectRefused(s) ==
    /\ socket[s].link = "asking"
    /\ socket' = [socket EXCEPT ![s].link = "closed", ![s].up = "failed", ![s].down = "done"]
    /\ UNCHANGED <<online, deleted, ghost, byHand, over>>

ConnectRead(s) ==
    /\ socket[s].up = "find"
    /\ socket' = [socket EXCEPT ![s].up = "write"]
    /\ UNCHANGED <<online, deleted, ghost, byHand, over>>

ConnectWrite(s) ==
    /\ socket[s].up = "write"
    /\ SetStatus(socket[s].user, TRUE, FALSE,
                 IF socket[s].down = "done" THEN {"overtaken"} ELSE {})
    /\ socket' = [socket EXCEPT ![s].up = "done"]
    /\ UNCHANGED over

\* One of its operations fails: the gateway closes the socket itself.
ConnectFails(s) ==
    /\ socket[s].up \in {"find", "write"}
    /\ socket' = [socket EXCEPT ![s].up = "failed",
                               ![s].link = "closed",
                               ![s].down = IF socket[s].link = "open" THEN "write" ELSE @]
    /\ UNCHANGED <<online, deleted, ghost, byHand, over>>

\* After the write the lists of the user are loaded, which may fail as well.
ConnectFailsLate(s) ==
    /\ socket[s].up = "done" /\ socket[s].link = "open"
    /\ socket' = [socket EXCEPT ![s].up = "failed", ![s].link = "closed", ![s].down = "write"]
    /\ UNCHANGED <<online, deleted, ghost, byHand, over>>

\* The client goes, or is lost.
Close(s) ==
    /\ socket[s].link = "open"
    /\ socket' = [socket EXCEPT ![s].link = "closed", ![s].down = "write"]
    /\ UNCHANGED <<online, deleted, ghost, byHand, over>>

\* Mutant: nothing is written while another socket was opened.
DisconnectWriteLast(s) ==
    LET u == socket[s].user IN
    /\ socket[s].down = "write"
    /\ IF \E o \in Sockets \ {s} : socket[o].user = u
       THEN UNCHANGED <<online, deleted, ghost, byHand>> ELSE SetStatus(u, FALSE, FALSE, {})
    /\ socket' = [socket EXCEPT ![s].down = "done"]
    /\ UNCHANGED over

\* Other sockets of the user are not looked at.
DisconnectWrite(s) ==
    /\ socket[s].down = "write"
    /\ SetStatus(socket[s].user, FALSE, FALSE, {})
    /\ socket' = [socket EXCEPT ![s].down = "done"]
    /\ over' = over \cup {<<s, o>> : o \in {o \in Open(socket[s].user) : socket[o].up = "done"}}

\* The error is logged, the row stays.
DisconnectFails(s) ==
    LET u == socket[s].user IN
    /\ socket[s].down = "write"
    /\ socket' = [socket EXCEPT ![s].down = "done"]
    /\ ghost' = [ghost EXCEPT ![u] = @ \cup {"failed"}]
    /\ UNCHANGED <<online, deleted, byHand, over>>

SetUserStatus(s, on) ==
    /\ socket[s].link = "open"
    /\ SetStatus(socket[s].user, on, TRUE, {})
    /\ UNCHANGED <<socket, over>>

\* No handler of a disconnection runs for the sockets that a restart closes.
Restart ==
    /\ \E s \in Sockets : socket[s].link \in {"asking", "open"}
    /\ socket' = [s \in Sockets |-> IF socket[s] = Unborn THEN Unborn
                    ELSE [socket[s] EXCEPT !.link = "closed", !.up = "done", !.down = "done"]]
    /\ ghost' = [u \in Users |-> ghost[u] \cup {"restart"}]
    /\ UNCHANGED <<online, deleted, byHand, over>>

\* The row goes; its sockets stay, and what they write then fails.
DeleteUser(u) ==
    /\ u \notin deleted
    /\ deleted' = deleted \cup {u}
    /\ online' = [online EXCEPT ![u] = FALSE]
    /\ UNCHANGED <<socket, ghost, byHand, over>>

Next ==
    \/ \E s \in Sockets :
          \/ \E u \in Users : Knock(s, u)
          \/ Connect(s) \/ ConnectRefused(s)
          \/ ConnectRead(s) \/ ConnectWrite(s) \/ ConnectFails(s) \/ ConnectFailsLate(s)
          \/ Close(s) \/ DisconnectWrite(s) \/ DisconnectFails(s)
          \/ \E on \in BOOLEAN : SetUserStatus(s, on)
    \/ Restart
    \/ \E u \in Users : DeleteUser(u)

Spec == Init /\ [][Next]_vars

-----------------------------------------------------------------------------
(* Properties *)

\* No handler of a socket of u is at work.
AtRest(u) == \A s \in Sockets :
    socket[s].user = u => socket[s].up \in {"idle", "failed", "done"} /\ socket[s].down # "write"

\* A user without sockets stays online only when the write of a connection came
\* after the one of its own disconnection, the latter failed or was lost by a
\* restart, or the user said so.  A user with sockets is offline only when he said
\* so, or when for each of them the disconnection of another one, in whichever
\* gateway, was written after its handshake: a socket that closed earlier is no
\* excuse unless its write came late.
PresenceExplained ==
    \A u \in Users \ deleted : AtRest(u) /\ online[u] # (Open(u) # {}) =>
        \/ byHand[u]
        \/ online[u] /\ ghost[u] # {}
        \/ ~online[u] /\ \A s \in Open(u) : \E o \in Sockets \ {s} :
                            socket[o].user = u /\ <<o, s>> \in over
=============================================================================
