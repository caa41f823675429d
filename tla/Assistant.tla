----------------------------- MODULE Assistant -----------------------------
(***************************************************************************)
(* The assistant as a member of conversations: its User row, which every   *)
(* start of the server makes sure of and whose id the process keeps; the   *)
(* conversation of a user with it; and the answer that a message to it     *)
(* through the gateway sets going, beside the handler of the message and   *)
(* awaited by nobody.  A reply or a forward through REST sets none going.  *)
(*                                                                         *)
(* Left out: the text of a message and of the twenty that the answer is    *)
(* made from, the chunks sent to the client, the photo, groups with the    *)
(* assistant, and messages that are unsent or hidden (Conversations,       *)
(* Marks).  A deletion of the user's account is one of his conversation.   *)
(***************************************************************************)
EXTENDS Naturals, FiniteSets

CONSTANTS
    LastBot,      \* bound: how often the assistant's row is created
    LastChat,     \* bound: how often the conversation is
    MaxMessages,  \* bound: the messages that can be created
    Requests,     \* bound: handlers in flight at the same time
    None

\* What is assumed of the constants; Services assumes it of each instance.
AssistantAssumption ==
    /\ LastBot \in Nat \ {0}
    /\ LastChat \in Nat
    /\ MaxMessages \in Nat
    /\ None \notin 1..MaxMessages

VARIABLES
    bot,      \* the assistant's row, by its number, 0 where there is none
    made,     \* how many rows it has had
    squat,    \* another account is called ai_assistant
    aiUserId, \* what the process has cached, 0 while it does not run
    chat,     \* the user's conversation with that row, by its number, 0 where there is none
    opened,   \* how many conversations they have had
    message,  \* message[m]: a Message row; m orders them by createdAt
    excused,  \* history: messages whose answer is known not to come
    req       \* req[r]: the handler that runs in slot r

row == <<bot, made, squat, aiUserId>>
vars == <<row, chat, opened, message, excused, req>>

Chats == 1..LastChat
Messages == 1..MaxMessages

Await == {"open.find", "open.create", "delete.write",
          "send.find", "send.create", "send.last", "send.members",
          "ai.history", "ai.stream", "ai.find", "ai.create", "ai.last"}

Request == [pc     : Await \cup {"idle"},
            chat   : Chats \cup {0},         \* the conversation it is about
            live   : BOOLEAN,                \* it runs in the gateway
            prompt : Messages \cup {None},   \* the message it has created, or answers
            said   : BOOLEAN]                \* the answer has some text

Idle == [pc |-> "idle", chat |-> 0, live |-> FALSE, prompt |-> None, said |-> FALSE]

MessagesBy(who) == {m \in Messages : message[m] = who}
Prompts == MessagesBy("user")
Answers == MessagesBy("bot")

\* The conversation is one with the row that is there, and holds all messages.
TypeOK ==
    /\ bot \in {0, made} /\ made \in 0..LastBot
    /\ squat \in BOOLEAN
    /\ squat => bot = 0
    /\ aiUserId \in 0..made
    /\ bot # 0 /\ aiUserId # 0 => aiUserId = bot
    /\ opened \in 0..LastChat /\ chat \in {0, opened}
    /\ chat # 0 => bot # 0
    /\ message \in [Messages -> {"unborn", "user", "bot", "gone"}]
    /\ excused \subseteq Messages
    /\ req \in [Requests -> Request]
    /\ chat = 0 => Prompts = {} /\ Answers = {}
    /\ aiUserId = 0 => \A r \in Requests : req[r] = Idle

Init ==
    /\ bot = 0 /\ made = 0 /\ squat = FALSE
    /\ aiUserId = 0
    /\ chat = 0 /\ opened = 0
    /\ message = [m \in Messages |-> "unborn"]
    /\ excused = {}
    /\ req = [r \in Requests |-> Idle]

-----------------------------------------------------------------------------

At(r, where) == req[r].pc = where
Goto(r, where) == req' = [req EXCEPT ![r].pc = where]
Finish(r) == req' = [req EXCEPT ![r] = Idle]

Prompted(rs) == {req[r].prompt : r \in rs} \ {None}

\* It ends without an answer to its message, if it has created one.
GiveUp(r) ==
    /\ excused' = excused \cup Prompted({r})
    /\ Finish(r)
    /\ UNCHANGED <<row, chat, opened, message>>

\* A message in the conversation it is about; there is none in one that is gone.
Create(r, m, who) ==
    /\ chat # 0 /\ chat = req[r].chat
    /\ message[m] = "unborn" /\ \A n \in 1..(m - 1) : message[n] # "unborn"
    /\ message' = [message EXCEPT ![m] = who]

-----------------------------------------------------------------------------
(* The row of the assistant, and the process *)

\* The row is found by its email, or created with its name, whichever way before
\* any request is served.  A name that is taken ends the start.
Boot ==
    /\ aiUserId = 0
    /\ bot = 0 => ~squat /\ made < LastBot
    /\ made' = IF bot = 0 THEN made + 1 ELSE made
    /\ bot' = made'
    /\ aiUserId' = made'
    /\ UNCHANGED <<squat, chat, opened, message, excused, req>>

Stop ==
    /\ aiUserId # 0
    /\ aiUserId' = 0
    /\ excused' = excused \cup Prompted(Requests)
    /\ req' = [r \in Requests |-> Idle]
    /\ UNCHANGED <<bot, made, squat, chat, opened, message>>

\* The conversation goes, and every message in it.
Drop ==
    /\ chat' = 0
    /\ message' = [m \in Messages |-> IF message[m] = "unborn" THEN "unborn" ELSE "gone"]

\* A SUPER_ADMIN, or the developers' tool, removes the row, which has the role
\* ADMIN (Accounts); its conversation goes with it.  The process keeps the id.
RemoveBot ==
    /\ aiUserId # 0 /\ bot # 0
    /\ bot' = 0
    /\ Drop
    /\ UNCHANGED <<made, squat, aiUserId, opened, excused, req>>

\* Another account takes the name while no row has it, or leaves it.
Squat ==
    /\ aiUserId # 0 /\ bot = 0
    /\ squat' = ~squat
    /\ UNCHANGED <<bot, made, aiUserId, chat, opened, message, excused, req>>

-----------------------------------------------------------------------------
(* The conversation with it *)

OpenStart(r) ==
    /\ aiUserId # 0
    /\ req[r] = Idle
    /\ req' = [req EXCEPT ![r] = [Idle EXCEPT !.pc = "open.find"]]
    /\ UNCHANGED <<row, chat, opened, message, excused>>

OpenFind(r) ==
    /\ At(r, "open.find")
    /\ IF chat # 0 THEN Finish(r) ELSE Goto(r, "open.create")
    /\ UNCHANGED <<row, chat, opened, message, excused>>

\* Of two, the second fails on the key of the pair; so does one without the row.
OpenCreate(r) ==
    /\ At(r, "open.create")
    /\ bot = aiUserId /\ chat = 0
    /\ opened < LastChat
    /\ opened' = opened + 1
    /\ chat' = opened'
    /\ Finish(r)
    /\ UNCHANGED <<row, message, excused>>

\* The user deletes it, the assistant's part with his own: deleteConversation.
DeleteFind(r) ==
    /\ chat # 0
    /\ aiUserId # 0
    /\ req[r] = Idle
    /\ req' = [req EXCEPT ![r] = [Idle EXCEPT !.pc = "delete.write", !.chat = chat]]
    /\ UNCHANGED <<row, chat, opened, message, excused>>

DeleteWrite(r) ==
    /\ At(r, "delete.write")
    /\ chat = req[r].chat
    /\ Drop
    /\ Finish(r)
    /\ UNCHANGED <<row, opened, excused>>

-----------------------------------------------------------------------------
(* A message to it *)

\* Through the gateway; or as a reply or a forward, by a REST route.  The message
\* that is forwarded may be one of another conversation.
SendStart(r, live) ==
    /\ aiUserId # 0
    /\ chat # 0
    /\ req[r] = Idle
    /\ req' = [req EXCEPT ![r] = [Idle EXCEPT !.pc = "send.find", !.chat = chat, !.live = live]]
    /\ UNCHANGED <<row, chat, opened, message, excused>>

SendFind(r) ==
    /\ At(r, "send.find")
    /\ IF chat = req[r].chat THEN Goto(r, "send.create") ELSE Finish(r)
    /\ UNCHANGED <<row, chat, opened, message, excused>>

SendCreate(r, m) ==
    /\ At(r, "send.create")
    /\ Create(r, m, "user")
    /\ req' = [req EXCEPT ![r].pc = "send.last", ![r].prompt = m]
    /\ UNCHANGED <<row, chat, opened, excused>>

\* The conversation's lastMessageId is written.  The REST routes leave it at that:
\* only the gateway looks whom to tell, the assistant among them.
SendLast(r) ==
    /\ At(r, "send.last") /\ chat = req[r].chat
    /\ IF req[r].live
       THEN Goto(r, "send.members") /\ UNCHANGED <<row, chat, opened, message, excused>>
       ELSE GiveUp(r)

\* The assistant is told if the id that the process keeps is a member's.  The
\* handler of the message ends here.
SendMembers(r) ==
    /\ At(r, "send.members")
    /\ chat = req[r].chat /\ bot = aiUserId
    /\ Goto(r, "ai.history")
    /\ UNCHANGED <<row, chat, opened, message, excused>>

-----------------------------------------------------------------------------
(* Its answer *)

\* The newest messages are read.
AiHistory(r) ==
    /\ At(r, "ai.history")
    /\ Goto(r, "ai.stream")
    /\ UNCHANGED <<row, chat, opened, message, excused>>

AiChunk(r) ==
    /\ At(r, "ai.stream")
    /\ req' = [req EXCEPT ![r].said = TRUE]
    /\ UNCHANGED <<row, chat, opened, message, excused>>

\* sendMessage refuses a message without content.
AiEnd(r) ==
    /\ At(r, "ai.stream")
    /\ IF req[r].said
       THEN Goto(r, "ai.find") /\ UNCHANGED <<row, chat, opened, message, excused>>
       ELSE GiveUp(r)

\* Mutant: the failure ends the answer.
AiThrows(r) ==
    /\ At(r, "ai.stream")
    /\ Finish(r)
    /\ UNCHANGED <<row, chat, opened, message, excused>>

\* The stream fails: what came of it is stored, with an apology.
AiFails(r) ==
    /\ At(r, "ai.stream")
    /\ req' = [req EXCEPT ![r].said = TRUE, ![r].pc = "ai.find"]
    /\ UNCHANGED <<row, chat, opened, message, excused>>

\* sendMessage looks for the conversation and for the assistant in it.
AiFind(r) ==
    /\ At(r, "ai.find")
    /\ chat = req[r].chat /\ bot = aiUserId
    /\ Goto(r, "ai.create")
    /\ UNCHANGED <<row, chat, opened, message, excused>>

AiCreate(r, m) ==
    /\ At(r, "ai.create")
    /\ Create(r, m, "bot")
    /\ Goto(r, "ai.last")
    /\ UNCHANGED <<row, chat, opened, excused>>

AiLast(r) ==
    /\ At(r, "ai.last")
    /\ chat = req[r].chat
    /\ Finish(r)
    /\ UNCHANGED <<row, chat, opened, message, excused>>

-----------------------------------------------------------------------------

\* A database operation fails, as do those on a conversation or a row that is
\* gone and a second creation: the error is logged or told, and that is all.
Fail(r) ==
    /\ req[r] # Idle
    /\ ~At(r, "ai.stream")
    /\ GiveUp(r)

Next ==
    \/ Boot \/ Stop \/ RemoveBot \/ Squat
    \/ \E r \in Requests :
          \/ OpenStart(r) \/ OpenFind(r) \/ OpenCreate(r) \/ DeleteFind(r) \/ DeleteWrite(r)
          \/ \E live \in BOOLEAN : SendStart(r, live)
          \/ SendFind(r) \/ SendLast(r) \/ SendMembers(r)
          \/ AiHistory(r) \/ AiChunk(r) \/ AiEnd(r) \/ AiFails(r) \/ AiFind(r) \/ AiLast(r)
          \/ \E m \in Messages : SendCreate(r, m) \/ AiCreate(r, m)
          \/ Fail(r)

Spec == Init /\ [][Next]_vars

-----------------------------------------------------------------------------
(* Properties *)

\* Nobody awaits an answer or is told by its absence.  A message to the assistant
\* has one after it unless a handler of it still runs, it came as a reply or a
\* forward through REST, a database operation failed, the server stopped or the
\* stream was empty; and there are never more answers than messages.
PromptsAnswered ==
    /\ \A p \in Prompts : p \in excused \cup Prompted(Requests) \/ \E m \in Answers : m > p
    /\ Cardinality(Answers) <= Cardinality(Prompts)
=============================================================================
