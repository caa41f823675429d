--------------------------- MODULE Notifications ---------------------------
(***************************************************************************)
(* Notifications: the listeners that ask for them, the BullMQ queue, the   *)
(* processor that works it off (BaseNotificationProcessor, one job at a    *)
(* time), and the sockets of NotificationGateway.  Listeners and processor *)
(* perform one database operation per step; operations may fail, and the   *)
(* server may stop at any time.  The queue is kept by Redis and survives.  *)
(*                                                                         *)
(* Texts and payloads are left out, and so is the push service, which only *)
(* writes to the log.  A job that is done leaves Redis; here it stays,     *)
(* with what the processor returned.                                       *)
(***************************************************************************)
EXTENDS Naturals, FiniteSets

CONSTANTS
    Events,        \* bound: the notifications asked for
    Payments,      \* those asked for by PaymentNotificationListener
    Users,
    Recipient,     \* Recipient[e]: the user that e is for
    Sockets,       \* bound: connections open at the same time
    MaxAttempts,   \* attempts: 3
    MaxStalls,     \* maxStalledCount of the worker: 1, the default
    Deletable,     \* the accounts that may be deleted
    MayFail        \* whether database and queue operations may fail

ASSUME ConstantsAssumption ==
    /\ Payments \subseteq Events
    /\ Recipient \in [Events -> Users]
    /\ MaxAttempts \in Nat \ {0}
    /\ MaxStalls \in Nat
    /\ Deletable \subseteq Users
    /\ MayFail \in BOOLEAN

VARIABLES
    accounts,  \* the User rows that exist
    muted,     \* the events whose kind their recipient has switched off
    clients,   \* clients[u]: the open sockets of u
    caller,    \* caller[e]: how far the listener has come
    job,       \* job[e]: the job in the queue
    worker,    \* the processor, and the job it works on
    noted,     \* history: noted[e], Notification rows created
    posted,    \* history: posted[e], UserNotification rows the listener created
    stored,    \* history: stored[e], those that the processor created
    emitted    \* history: emitted[e], times e was sent to a socket

queue == <<job, worker>>
history == <<noted, posted, stored, emitted>>
vars == <<accounts, muted, clients, caller, job, worker, noted, posted, stored, emitted>>

NoJob == [state |-> "none", tries |-> 0, stalls |-> 0, delivered |-> "nowhere"]
Rest == [pc |-> "idle"]

Delivery == {"nowhere", "skipped", "socket", "database"}

Job == [state     : {"none", "waiting", "active", "delayed", "completed", "failed"},
        tries     : 0..MaxAttempts,
        stalls    : 0..MaxStalls + 1,
        delivered : Delivery]

Work == [pc        : {"toggle", "emit", "note", "store", "finish"},
         event     : Events,
         delivered : Delivery]

TypeOK ==
    /\ accounts \subseteq Users
    /\ muted \subseteq Events \ Payments
    /\ clients \in [Users -> SUBSET Sockets]
    /\ caller \in [Events -> {"idle", "note", "post", "add", "done", "error"}]
    /\ job \in [Events -> Job]
    /\ worker \in {Rest} \cup Work
    /\ noted \in [Events -> Nat]
    /\ posted \in [Events -> Nat]
    /\ stored \in [Events -> Nat]
    /\ emitted \in [Events -> Nat]

Init ==
    /\ accounts = Users
    /\ muted \in SUBSET (Events \ Payments)
    /\ clients = [u \in Users |-> {}]
    /\ caller = [e \in Events |-> "idle"]
    /\ job = [e \in Events |-> NoJob]
    /\ worker = Rest
    /\ noted = [e \in Events |-> 0]
    /\ posted = [e \in Events |-> 0]
    /\ stored = [e \in Events |-> 0]
    /\ emitted = [e \in Events |-> 0]

Count(counter, e) == counter' = [counter EXCEPT ![e] = @ + 1]

-----------------------------------------------------------------------------
(* The listeners: those for payments store the notification themselves, and *)
(* all of them add a job.                                                   *)

Proceed(e, from, to) ==
    /\ caller[e] = from
    /\ caller' = [caller EXCEPT ![e] = to]
    /\ UNCHANGED <<accounts, muted, clients, worker>>

Notify(e) ==
    /\ Proceed(e, "idle", IF e \in Payments THEN "note" ELSE "add")
    /\ UNCHANGED <<job, history>>

\* persistNotificationData
PersistNote(e) ==
    /\ Proceed(e, "note", "post")
    /\ Count(noted, e)
    /\ UNCHANGED <<job, posted, stored, emitted>>

PersistPost(e) ==
    /\ Recipient[e] \in accounts
    /\ Proceed(e, "post", "add")
    /\ Count(posted, e)
    /\ UNCHANGED <<job, noted, stored, emitted>>

\* Mutant: a listener that is done adds the same job again.
AddNotificationAgain(e) ==
    /\ Proceed(e, IF caller[e] = "done" THEN "done" ELSE "add", "done")
    /\ job' = [job EXCEPT ![e].state = "waiting"]
    /\ UNCHANGED history

AddNotification(e) ==
    /\ Proceed(e, "add", "done")
    /\ job' = [job EXCEPT ![e].state = "waiting"]
    /\ UNCHANGED history

\* Logged, and thrown again by the listener for payments.
CallerFails(e) ==
    /\ \/ MayFail /\ caller[e] \in {"note", "post", "add"}
       \/ caller[e] = "post" /\ Recipient[e] \notin accounts
    /\ Proceed(e, caller[e], "error")
    /\ UNCHANGED <<job, history>>

-----------------------------------------------------------------------------
(* The queue *)

Take(e) ==
    /\ worker = Rest
    /\ job[e].state = "waiting"
    /\ job' = [job EXCEPT ![e].state = "active"]
    /\ worker' = [pc |-> "toggle", event |-> e, delivered |-> "nowhere"]
    /\ UNCHANGED <<accounts, muted, clients, caller, history>>

\* The backoff has passed.
Retry(e) ==
    /\ job[e].state = "delayed"
    /\ job' = [job EXCEPT ![e].state = "waiting"]
    /\ UNCHANGED <<accounts, muted, clients, caller, worker, history>>

\* The job of a worker that stopped goes back, unless it did so too often.
Stalled(e) ==
    /\ job[e].state = "active"
    /\ worker = Rest
    /\ job' = [job EXCEPT ![e] =
                  [@ EXCEPT !.stalls = job[e].stalls + 1,
                            !.state = IF job[e].stalls < MaxStalls THEN "waiting"
                                                                   ELSE "failed"]]
    /\ UNCHANGED <<accounts, muted, clients, caller, worker, history>>

-----------------------------------------------------------------------------
(* The processor *)

Busy(at) == worker.pc = at
Event == worker.event
Goto(at) == worker' = [worker EXCEPT !.pc = at]

\* isNotificationEnabled: a recipient without an account has no toggle, and a
\* look-up that fails counts as enabled.
ReadToggle ==
    /\ Busy("toggle")
    /\ \/ /\ Event \notin muted \/ Recipient[Event] \notin accounts \/ MayFail
          /\ Goto("emit")
       \/ /\ Event \in muted
          /\ Recipient[Event] \in accounts
          /\ worker' = [worker EXCEPT !.pc = "finish", !.delivered = "skipped"]
    /\ UNCHANGED <<accounts, muted, clients, caller, job, history>>

\* isUserOnline and emitToUser, without an await in between.
Emit ==
    /\ Busy("emit")
    /\ LET online == clients[Recipient[Event]] # {} IN
          /\ worker' = [worker EXCEPT !.pc = "note",
                           !.delivered = IF online THEN "socket" ELSE "database"]
          /\ emitted' = [emitted EXCEPT ![Event] = IF online THEN @ + 1 ELSE @]
    /\ UNCHANGED <<accounts, muted, clients, caller, job, noted, posted, stored>>

\* persistNotification
StoreNote ==
    /\ Busy("note")
    /\ Goto("store")
    /\ Count(noted, Event)
    /\ UNCHANGED <<accounts, muted, clients, caller, job, posted, stored, emitted>>

\* Mutant: the error is swallowed when the row cannot be created.
StoreUserAnyway ==
    /\ Busy("store")
    /\ Goto("finish")
    /\ stored' = [stored EXCEPT ![Event] = IF Recipient[Event] \in accounts THEN @ + 1 ELSE @]
    /\ UNCHANGED <<accounts, muted, clients, caller, job, noted, posted, emitted>>

StoreUser ==
    /\ Busy("store")
    /\ Recipient[Event] \in accounts
    /\ Goto("finish")
    /\ Count(stored, Event)
    /\ UNCHANGED <<accounts, muted, clients, caller, job, noted, posted, emitted>>

Complete ==
    /\ Busy("finish")
    /\ job' = [job EXCEPT ![Event] = [@ EXCEPT !.state = "completed",
                                               !.delivered = worker.delivered]]
    /\ worker' = Rest
    /\ UNCHANGED <<accounts, muted, clients, caller, history>>

\* Mutant: one attempt more than allowed.
ThrowOnceMore ==
    /\ MayFail /\ (Busy("note") \/ Busy("store"))
    /\ job' = [job EXCEPT ![Event] =
                  [@ EXCEPT !.tries = job[Event].tries + 1,
                            !.state = IF job[Event].tries < MaxAttempts THEN "delayed"
                                                                        ELSE "failed"]]
    /\ worker' = Rest
    /\ UNCHANGED <<accounts, muted, clients, caller, history>>

\* Mutant: an error of the push service, after the last write, is not caught.
ThrowAfterPush ==
    /\ MayFail /\ (Busy("note") \/ Busy("store") \/ Busy("finish"))
    /\ job' = [job EXCEPT ![Event] =
                  [@ EXCEPT !.tries = job[Event].tries + 1,
                            !.state = IF job[Event].tries + 1 < MaxAttempts THEN "delayed"
                                                                            ELSE "failed"]]
    /\ worker' = Rest
    /\ UNCHANGED <<accounts, muted, clients, caller, history>>

\* Mutant: the attempt is not counted.
ThrowUncounted ==
    /\ MayFail /\ (Busy("note") \/ Busy("store"))
    /\ job' = [job EXCEPT ![Event].state = "delayed"]
    /\ worker' = Rest
    /\ UNCHANGED <<accounts, muted, clients, caller, history>>

\* process throws: the attempt is counted, and another one made after a while.
Throw ==
    /\ \/ MayFail /\ (Busy("note") \/ Busy("store"))
       \/ Busy("store") /\ Recipient[Event] \notin accounts
    /\ job' = [job EXCEPT ![Event] =
                  [@ EXCEPT !.tries = job[Event].tries + 1,
                            !.state = IF job[Event].tries + 1 < MaxAttempts THEN "delayed"
                                                                            ELSE "failed"]]
    /\ worker' = Rest
    /\ UNCHANGED <<accounts, muted, clients, caller, history>>

-----------------------------------------------------------------------------
(* Sockets, accounts, and the server *)

Connect(u, s) ==
    /\ \A v \in Users : s \notin clients[v]
    /\ clients' = [clients EXCEPT ![u] = @ \cup {s}]
    /\ UNCHANGED <<accounts, muted, caller, queue, history>>

Disconnect(u, s) ==
    /\ s \in clients[u]
    /\ clients' = [clients EXCEPT ![u] = @ \ {s}]
    /\ UNCHANGED <<accounts, muted, caller, queue, history>>

DeleteUser(u) ==
    /\ u \in accounts \cap Deletable
    /\ accounts' = accounts \ {u}
    /\ UNCHANGED <<muted, clients, caller, queue, history>>

\* The server stops and starts again: listeners and processor are forgotten.
Restart ==
    /\ clients' = [u \in Users |-> {}]
    /\ caller' = [e \in Events |-> IF caller[e] \in {"note", "post", "add"} THEN "error"
                                                                           ELSE caller[e]]
    /\ worker' = Rest
    /\ UNCHANGED <<accounts, muted, job, history>>

-----------------------------------------------------------------------------

Listener(e) ==
    Notify(e) \/ PersistNote(e) \/ PersistPost(e) \/ AddNotification(e) \/ CallerFails(e)

Queue(e) == Take(e) \/ Retry(e) \/ Stalled(e)

Processor == ReadToggle \/ Emit \/ StoreNote \/ StoreUser \/ Complete \/ Throw

Next ==
    \/ \E e \in Events : Listener(e) \/ Queue(e)
    \/ Processor
    \/ \E u \in Users, s \in Sockets : Connect(u, s) \/ Disconnect(u, s)
    \/ \E u \in Users : DeleteUser(u)
    \/ Restart

Spec == Init /\ [][Next]_vars

\* The worker takes jobs and works on them, timers run out, stalled jobs are
\* looked for.  Nothing is assumed of listeners, clients and accounts.
FairSpec ==
    /\ Spec
    /\ WF_vars(Processor)
    /\ \A e \in Events : WF_vars(Queue(e))

-----------------------------------------------------------------------------
(* Properties *)

\* A retry comes only after an attempt that stored nothing: the recipient gets
\* one copy from the processor, and one more for every time the server stopped
\* between the last write and the acknowledgement of the job.
CopiesBounded == \A e \in Events : stored[e] <= 1 + job[e].stalls

\* Every attempt tells the recipient anew, and leaves a Notification row behind
\* that may belong to nobody: no more often than the job was started.
Starts(e) ==
    job[e].tries + job[e].stalls
        + IF job[e].state \in {"active", "completed"} THEN 1 ELSE 0

OwnNotes(e) == IF e \in Payments /\ caller[e] \notin {"idle", "note"} THEN 1 ELSE 0

AttemptsBounded ==
    \A e \in Events : /\ emitted[e] <= Starts(e)
                      /\ noted[e] <= Starts(e) + OwnNotes(e)

\* What the processor reports of a job is what it did: a job that was delivered
\* is stored, and was sent if it reports a socket.
ReportIsTrue ==
    \A e \in Events :
        /\ job[e].delivered \in {"socket", "database"} => stored[e] > 0
        /\ job[e].delivered = "socket" => emitted[e] > 0

\* A job that was given up is not silently stored, unless the server stopped.
LostIsNotStored ==
    \A e \in Events : job[e].state = "failed" /\ job[e].stalls = 0 => stored[e] = 0

\* The queue keeps its promise.
Outcome ==
    [e \in Events |->
        CASE stored[e] > 0 -> "stored"
          [] stored[e] = 0 /\ job[e].state = "none" -> "none"
          [] stored[e] = 0 /\ job[e].state = "completed" -> "skipped"
          [] stored[e] = 0 /\ job[e].state = "failed" -> "lost"
          [] OTHER -> "pending"]

Promise == INSTANCE NotificationOutcome WITH outcome <- Outcome

\* Every job that is added is decided, once and for good, even if the server
\* stops again and again.
KeepsPromise == Promise!OutcomeSpec
=============================================================================
