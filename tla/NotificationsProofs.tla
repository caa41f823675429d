------------------------ MODULE NotificationsProofs ------------------------
(***************************************************************************)
(* What holds of Notifications for any number of events, users, sockets,   *)
(* attempts and stalls, whatever fails and however often the server stops. *)
(***************************************************************************)
EXTENDS Notifications, TLAPS

-----------------------------------------------------------------------------
(* The inductive invariant *)

\* The processor works on e, and has come to one of these places.
On(e, places) == worker.pc \in places /\ worker.event = e

\* Since the last attempt that was counted, e has not come beyond these places.
Before(e, places) ==
    \/ job[e].state \in {"none", "waiting", "delayed", "failed"}
    \/ On(e, places)

\* A job that is tried no more than allowed has an attempt left while it is open.
TriesLeft(e) ==
    /\ job[e].state \in {"waiting", "active", "delayed"}
          => job[e].tries < MaxAttempts /\ job[e].stalls <= MaxStalls
    /\ job[e].state = "none" => job[e] = NoJob
    /\ caller[e] \in {"idle", "note", "post", "add"} => job[e] = NoJob
    /\ caller[e] = "note" => e \in Payments

StoredInv(e) ==
    stored[e] <= job[e].stalls + IF Before(e, {"toggle", "emit", "note", "store"}) THEN 0 ELSE 1

EmittedInv(e) ==
    emitted[e] <= job[e].tries + job[e].stalls
                    + IF Before(e, {"toggle", "emit"}) THEN 0 ELSE 1

NotedInv(e) ==
    noted[e] <= job[e].tries + job[e].stalls + OwnNotes(e)
                    + IF Before(e, {"toggle", "emit", "note"}) THEN 0 ELSE 1

ReportInv(e) ==
    /\ job[e].delivered # "nowhere" => job[e].state = "completed"
    /\ job[e].delivered \in {"socket", "database"} => stored[e] > 0
    /\ job[e].delivered = "socket" => emitted[e] > 0

WorkerInv ==
    worker # Rest =>
        /\ job[Event].state = "active"
        /\ worker.pc \in {"toggle", "emit"} => worker.delivered = "nowhere"
        /\ worker.pc \in {"note", "store"} => worker.delivered \in {"socket", "database"}
        /\ worker.pc = "finish" => worker.delivered # "nowhere"
        /\ worker.pc = "finish" /\ worker.delivered # "skipped" => stored[Event] > 0
        /\ worker.delivered = "socket" => emitted[Event] > 0

QueueInv ==
    /\ TypeOK
    /\ WorkerInv
    /\ \A e \in Events :
          TriesLeft(e) /\ StoredInv(e) /\ EmittedInv(e) /\ NotedInv(e) /\ ReportInv(e)

JobStates == {"none", "waiting", "active", "delayed", "completed", "failed"}

\* What is kept of one event.
EventInv(e) == TriesLeft(e) /\ StoredInv(e) /\ EmittedInv(e) /\ NotedInv(e) /\ ReportInv(e)

\* Init satisfies the invariant.
LEMMA QueueInit == Init => QueueInv
  <1> SUFFICES ASSUME Init PROVE QueueInv
    OBVIOUS
  <1> USE ConstantsAssumption
  <1>1. NoJob \in Job
    BY DEF NoJob, Job, Delivery
  <1>2. TypeOK
    BY <1>1 DEF Init, TypeOK
  <1>3. WorkerInv
    BY DEF Init, WorkerInv
  <1>4. ASSUME NEW e \in Events PROVE EventInv(e)
    BY DEF Init, NoJob, EventInv, TriesLeft, StoredInv, EmittedInv, NotedInv, ReportInv,
           Before, OwnNotes
  <1> QED
    BY <1>2, <1>3, <1>4 DEF QueueInv, EventInv

\* The fields of a job and of the work on it.
LEMMA Fields ==
  ASSUME TypeOK
  PROVE  /\ \A e \in Events :
               /\ job[e] \in Job /\ job[e].tries \in Nat /\ job[e].stalls \in Nat
               /\ stored[e] \in Nat /\ emitted[e] \in Nat /\ noted[e] \in Nat
               /\ OwnNotes(e) \in {0, 1}
         /\ worker.pc # "idle" => worker \in Work /\ Event \in Events
         /\ worker = Rest <=> worker.pc = "idle"
  BY ConstantsAssumption DEF TypeOK, Job, Work, Rest, OwnNotes, Event

\* Changing the state of a job leaves its other fields alone.
LEMMA Moved ==
  ASSUME NEW r \in Job, NEW st \in JobStates, NEW j, j = [r EXCEPT !.state = st]
  PROVE  j \in Job /\ j.state = st /\ j.tries = r.tries /\ j.stalls = r.stalls
           /\ j.delivered = r.delivered
  BY DEF Job, JobStates

\* The listeners change no job, except that they add one.
LEMMA ListenerStep ==
  ASSUME QueueInv, NEW e \in Events, Listener(e)
  PROVE  QueueInv'
  <1> USE ConstantsAssumption, Fields DEF QueueInv
  <1>0. TypeOK /\ \A d \in Events : EventInv(d)
    BY DEF EventInv
  <1>1. TypeOK'
    BY DEF Listener, Notify, PersistNote, PersistPost, AddNotification, CallerFails,
           Proceed, Count, TypeOK, Job, history
  <1>2. WorkerInv' /\ \A d \in Events : EventInv(d)'
    <2>1. CASE Notify(e) \/ CallerFails(e)
      <3>1. /\ UNCHANGED <<worker, job, noted, stored, emitted>>
            /\ \A d \in Events : \/ caller'[d] = caller[d]
                                 \/ caller[d] = "idle" /\ caller'[d] \in {"note", "add"}
                                        /\ (caller'[d] = "note" <=> d \in Payments)
                                 \/ caller[d] \in {"note", "post", "add"} /\ caller'[d] = "error"
        BY <2>1 DEF Notify, CallerFails, Proceed, history, TypeOK
      <3>2. WorkerInv'
        BY <3>1 DEF WorkerInv, Event
      <3>3. ASSUME NEW d \in Events PROVE EventInv(d)'
        <4>1. TriesLeft(d)'
          BY <1>0, <3>1 DEF EventInv, TriesLeft
        <4>2. StoredInv(d)' /\ EmittedInv(d)' /\ ReportInv(d)'
          BY <1>0, <3>1 DEF EventInv, StoredInv, EmittedInv, ReportInv, Before, On
        <4>3. OwnNotes(d)' \in Nat /\ OwnNotes(d) <= OwnNotes(d)'
          BY <3>1 DEF OwnNotes
        <4>4. NotedInv(d)'
          BY <1>0, <3>1, <4>3 DEF EventInv, NotedInv, Before, On
        <4> QED
          BY <4>1, <4>2, <4>4 DEF EventInv
      <3> QED
        BY <3>2, <3>3
    <2>2. CASE PersistNote(e) \/ PersistPost(e)
      <3>1. WorkerInv'
        BY <2>2 DEF PersistNote, PersistPost, Proceed, WorkerInv, Event
      <3>2. CASE PersistNote(e)
        <4>1. /\ noted'[e] = noted[e] + 1 /\ caller[e] = "note" /\ caller'[e] = "post"
              /\ \A d \in Events \ {e} : noted'[d] = noted[d] /\ caller'[d] = caller[d]
              /\ UNCHANGED <<job, worker, stored, emitted>>
          BY <1>0, <3>2 DEF PersistNote, Proceed, Count, TypeOK
        <4>2. OwnNotes(e)' = OwnNotes(e) + 1
          BY <1>0, <3>2, <4>1 DEF EventInv, TriesLeft, OwnNotes
        <4> QED
          BY <1>0, <3>1, <4>1, <4>2 DEF EventInv, TriesLeft,
             StoredInv, EmittedInv, NotedInv, ReportInv, Before, On, OwnNotes
      <3>3. CASE PersistPost(e)
        BY <3>1, <3>3 DEF PersistPost, Proceed, Count, TypeOK, EventInv, TriesLeft,
                    StoredInv, EmittedInv, NotedInv, ReportInv, Before, On, OwnNotes
      <3> QED
        BY <2>2, <3>2, <3>3
    <2>3. CASE AddNotification(e)
      <3>1. job[e] = NoJob
        BY <1>0, <2>3 DEF AddNotification, Proceed, EventInv, TriesLeft
      <3>2. /\ job'[e].state = "waiting" /\ job'[e].tries = 0 /\ job'[e].stalls = 0
            /\ job'[e].delivered = "nowhere"
            /\ \A d \in Events \ {e} : job'[d] = job[d]
            /\ caller'[e] = "done" /\ caller[e] = "add"
            /\ \A d \in Events \ {e} : caller'[d] = caller[d]
            /\ UNCHANGED <<worker, noted, stored, emitted>>
        BY <2>3, <3>1 DEF AddNotification, Proceed, TypeOK, NoJob, history
      <3>3. WorkerInv'
        BY <3>1, <3>2 DEF WorkerInv, NoJob, Event
      <3>4. ASSUME NEW d \in Events PROVE EventInv(d)'
        BY <1>0, <3>1, <3>2 DEF EventInv, TriesLeft, NoJob,
                    StoredInv, EmittedInv, NotedInv, ReportInv, Before, On, OwnNotes
      <3> QED
        BY <3>3, <3>4
    <2> QED
      BY <2>1, <2>2, <2>3 DEF Listener
  <1> QED
    BY <1>1, <1>2 DEF EventInv

\* Taking a job, and giving one back to the queue.
LEMMA QueueStep ==
  ASSUME QueueInv, NEW e \in Events, Queue(e)
  PROVE  QueueInv'
  <1> USE ConstantsAssumption, Fields DEF QueueInv
  <1>0. TypeOK /\ \A d \in Events : EventInv(d)
    BY DEF EventInv
  <1>1. /\ \A d \in Events \ {e} : job'[d] = job[d]
        /\ UNCHANGED <<accounts, muted, clients, caller, noted, posted, stored, emitted>>
    BY DEF Queue, Take, Retry, Stalled, TypeOK, history
  <1>2. CASE Take(e)
    <2>0. /\ job' = [job EXCEPT ![e] = [job[e] EXCEPT !.state = "active"]]
          /\ job[e].state = "waiting"
          /\ "active" \in JobStates
      BY <1>2 DEF Take, JobStates
    <2>1. job'[e] = [job[e] EXCEPT !.state = "active"]
      BY <1>0, <2>0 DEF TypeOK
    <2>2. /\ job'[e] \in Job
          /\ job'[e].state = "active" /\ job'[e].tries = job[e].tries
          /\ job'[e].stalls = job[e].stalls /\ job'[e].delivered = job[e].delivered
      BY <2>0, <2>1, Moved
    <2>3. /\ worker = Rest
          /\ worker' = [pc |-> "toggle", event |-> e, delivered |-> "nowhere"]
          /\ worker' \in Work
      BY <1>2 DEF Take, Work, Delivery
    <2>4. TypeOK'
      BY <1>0, <1>1, <2>0, <2>2, <2>3 DEF TypeOK
    <2>5. WorkerInv'
      BY <2>2, <2>3 DEF WorkerInv, Event
    <2>6. ASSUME NEW d \in Events PROVE EventInv(d)'
      BY <1>0, <1>1, <2>0, <2>2, <2>3 DEF Rest, NoJob, EventInv, TriesLeft, StoredInv,
         EmittedInv, NotedInv, ReportInv, Before, On, OwnNotes
    <2> QED
      BY <2>4, <2>5, <2>6 DEF EventInv
  <1>3. CASE Retry(e)
    <2>0. /\ job' = [job EXCEPT ![e] = [job[e] EXCEPT !.state = "waiting"]]
          /\ job[e].state = "delayed"
          /\ "waiting" \in JobStates
          /\ worker' = worker
      BY <1>3 DEF Retry, JobStates
    <2>1. job'[e] = [job[e] EXCEPT !.state = "waiting"]
      BY <1>0, <2>0 DEF TypeOK
    <2>2. /\ job'[e] \in Job
          /\ job'[e].state = "waiting" /\ job'[e].tries = job[e].tries
          /\ job'[e].stalls = job[e].stalls /\ job'[e].delivered = job[e].delivered
      BY <2>0, <2>1, Moved
    <2>3. TypeOK'
      BY <1>0, <1>1, <2>0, <2>2 DEF TypeOK
    <2>4. WorkerInv'
      BY <1>1, <2>0, <2>2 DEF WorkerInv, Event
    <2>5. ASSUME NEW d \in Events PROVE EventInv(d)'
      BY <1>0, <1>1, <2>0, <2>2 DEF NoJob, EventInv, TriesLeft, StoredInv,
         EmittedInv, NotedInv, ReportInv, Before, On, OwnNotes
    <2> QED
      BY <2>3, <2>4, <2>5 DEF EventInv
  <1>4. CASE Stalled(e)
    <2> DEFINE st == IF job[e].stalls < MaxStalls THEN "waiting" ELSE "failed"
    <2>0. /\ job[e].stalls + 1 \in 0..MaxStalls + 1 /\ st \in JobStates
          /\ job[e].state = "active" /\ worker = Rest /\ worker' = Rest
      BY <1>0, <1>4 DEF Stalled, EventInv, TriesLeft, JobStates
    <2>a. job' = [job EXCEPT ![e] = [job[e] EXCEPT !.stalls = job[e].stalls + 1, !.state = st]]
      BY <1>4 DEF Stalled
    <2> HIDE DEF st
    <2>r. job[e] \in Job
      BY <1>0 DEF TypeOK
    <2>1. job'[e] = [job[e] EXCEPT !.stalls = job[e].stalls + 1, !.state = st]
      BY <1>0, <2>a DEF TypeOK
    <2>2. /\ job'[e] \in Job
          /\ job'[e].state = st /\ job'[e].tries = job[e].tries
          /\ job'[e].stalls = job[e].stalls + 1 /\ job'[e].delivered = job[e].delivered
      BY ONLY <2>0, <2>1, <2>r DEF Job, JobStates
    <2>3. TypeOK'
      BY <1>0, <1>1, <2>0, <2>a, <2>2 DEF TypeOK
    <2>4. WorkerInv'
      BY <2>0 DEF WorkerInv
    <2>5. ASSUME NEW d \in Events PROVE EventInv(d)'
      <3>1. CASE d # e
        BY <1>0, <1>1, <2>0, <3>1 DEF EventInv, TriesLeft, StoredInv,
           EmittedInv, NotedInv, ReportInv, Before, On, OwnNotes
      <3>2. CASE d = e
        <4>1. st \in {"waiting", "failed"} /\ (st = "waiting" => job[e].stalls < MaxStalls)
          BY DEF st
        <4>2. job[e].delivered = "nowhere"
          BY <1>0, <2>0 DEF EventInv, ReportInv, TypeOK, Job, Delivery
        <4> QED
          BY <1>0, <1>1, <2>0, <2>2, <3>2, <4>1, <4>2 DEF Rest, NoJob, EventInv, TriesLeft,
             StoredInv, EmittedInv, NotedInv, ReportInv, Before, On, OwnNotes
      <3> QED
        BY <3>1, <3>2
    <2> QED
      BY <2>3, <2>4, <2>5 DEF EventInv
  <1> QED
    BY <1>2, <1>3, <1>4 DEF Queue

\* An attempt: every place is passed once, and what is counted is counted there.
LEMMA ProcessorStep ==
  ASSUME QueueInv, Processor
  PROVE  QueueInv'
  <1> USE ConstantsAssumption, Fields DEF QueueInv
  <1> DEFINE e == Event
  <1>0. /\ worker \in Work /\ e \in Events /\ worker # Rest
        /\ job[e].state = "active"
        /\ TypeOK /\ \A d \in Events : EventInv(d)
    BY DEF Processor, ReadToggle, Emit, StoreNote, StoreUser, Complete, Throw, Busy, WorkerInv,
           EventInv
  <1>1. e = worker.event
    BY DEF Event
  <1> HIDE DEF e
  <1>2. CASE ReadToggle
    <2>1. /\ worker.pc = "toggle"
          /\ worker' \in Work /\ worker'.event = e
          /\ \/ worker'.pc = "emit" /\ worker'.delivered = worker.delivered
             \/ worker'.pc = "finish" /\ worker'.delivered = "skipped"
          /\ UNCHANGED <<accounts, muted, clients, caller, job, noted, posted, stored, emitted>>
      <3>1. CASE Goto("emit")
        BY <1>0, <1>1, <1>2, <3>1 DEF ReadToggle, Busy, Goto, Work, Delivery, history
      <3>2. CASE worker' = [worker EXCEPT !.pc = "finish", !.delivered = "skipped"]
        BY <1>0, <1>1, <1>2, <3>2 DEF ReadToggle, Busy, Work, Delivery, history
      <3> QED
        BY <1>2, <3>1, <3>2 DEF ReadToggle
    <2>2. TypeOK'
      BY <1>0, <2>1 DEF TypeOK
    <2>3. WorkerInv'
      BY <1>0, <1>1, <2>1 DEF WorkerInv, Event
    <2>4. ASSUME NEW d \in Events PROVE EventInv(d)'
      BY <1>0, <1>1, <2>1 DEF EventInv, TriesLeft, StoredInv,
         EmittedInv, NotedInv, ReportInv, Before, On, OwnNotes
    <2> QED
      BY <2>2, <2>3, <2>4 DEF EventInv
  <1>3. CASE Emit
    <2>1. /\ worker.pc = "emit"
          /\ worker' \in Work /\ worker'.event = e /\ worker'.pc = "note"
          /\ worker'.delivered \in {"socket", "database"}
          /\ emitted' \in [Events -> Nat]
          /\ \/ emitted'[e] = emitted[e] + 1
             \/ emitted'[e] = emitted[e] /\ worker'.delivered = "database"
          /\ \A d \in Events \ {e} : emitted'[d] = emitted[d]
          /\ UNCHANGED <<accounts, muted, clients, caller, job, noted, posted, stored>>
      <3> DEFINE online == clients[Recipient[e]] # {}
                 how == IF online THEN "socket" ELSE "database"
                 times == IF online THEN emitted[e] + 1 ELSE emitted[e]
      <3>1. /\ worker' = [worker EXCEPT !.pc = "note", !.delivered = how]
            /\ emitted' = [emitted EXCEPT ![e] = times]
            /\ worker.pc = "emit"
            /\ UNCHANGED <<accounts, muted, clients, caller, job, noted, posted, stored>>
        BY <1>3 DEF Emit, Busy, e
      <3>2. /\ times \in Nat /\ how \in {"socket", "database"}
            /\ times = emitted[e] + 1 \/ (times = emitted[e] /\ how = "database")
        <4>1. emitted[e] \in Nat
          BY <1>0 DEF TypeOK
        <4> QED
          BY ONLY <4>1
      <3> HIDE DEF how, times
      <3> QED
        BY <1>0, <1>1, <3>1, <3>2 DEF Work, Delivery, TypeOK
    <2>2. TypeOK'
      BY <1>0, <2>1 DEF TypeOK
    <2>3. WorkerInv'
      BY <1>0, <1>1, <2>1 DEF WorkerInv, Event
    <2>4. ASSUME NEW d \in Events PROVE EventInv(d)'
      BY <1>0, <1>1, <2>1 DEF EventInv, TriesLeft, StoredInv,
         EmittedInv, NotedInv, ReportInv, Before, On, OwnNotes
    <2> QED
      BY <2>2, <2>3, <2>4 DEF EventInv
  <1>4. CASE StoreNote
    <2>1. /\ worker.pc = "note"
          /\ worker' \in Work /\ worker'.event = e /\ worker'.pc = "store"
          /\ worker'.delivered = worker.delivered
          /\ noted' \in [Events -> Nat] /\ noted'[e] = noted[e] + 1
          /\ \A d \in Events \ {e} : noted'[d] = noted[d]
          /\ UNCHANGED <<accounts, muted, clients, caller, job, posted, stored, emitted>>
      BY <1>0, <1>1, <1>4 DEF StoreNote, Busy, Goto, Count, Work, TypeOK, e
    <2>2. TypeOK'
      BY <1>0, <2>1 DEF TypeOK
    <2>3. WorkerInv'
      BY <1>0, <1>1, <2>1 DEF WorkerInv, Event
    <2>4. ASSUME NEW d \in Events PROVE EventInv(d)'
      BY <1>0, <1>1, <2>1 DEF EventInv, TriesLeft, StoredInv,
         EmittedInv, NotedInv, ReportInv, Before, On, OwnNotes
    <2> QED
      BY <2>2, <2>3, <2>4 DEF EventInv
  <1>5. CASE StoreUser
    <2>1. /\ worker.pc = "store"
          /\ worker' \in Work /\ worker'.event = e /\ worker'.pc = "finish"
          /\ worker'.delivered = worker.delivered
          /\ stored' \in [Events -> Nat] /\ stored'[e] = stored[e] + 1
          /\ \A d \in Events \ {e} : stored'[d] = stored[d]
          /\ UNCHANGED <<accounts, muted, clients, caller, job, posted, noted, emitted>>
      BY <1>0, <1>1, <1>5 DEF StoreUser, Busy, Goto, Count, Work, TypeOK, e
    <2>2. TypeOK'
      BY <1>0, <2>1 DEF TypeOK
    <2>3. WorkerInv'
      BY <1>0, <1>1, <2>1 DEF WorkerInv, Event
    <2>4. ASSUME NEW d \in Events PROVE EventInv(d)'
      BY <1>0, <1>1, <2>1 DEF EventInv, TriesLeft, StoredInv,
         EmittedInv, NotedInv, ReportInv, Before, On, OwnNotes
    <2> QED
      BY <2>2, <2>3, <2>4 DEF EventInv
  <1>6. CASE Complete
    <2>0. /\ worker.pc = "finish" /\ worker' = Rest /\ worker.delivered \in Delivery
          /\ "completed" \in JobStates
      BY <1>0, <1>6 DEF Complete, Busy, Work, JobStates
    <2>1. /\ job' = [job EXCEPT ![e] = [job[e] EXCEPT !.state = "completed",
                                                    !.delivered = worker.delivered]]
          /\ UNCHANGED <<accounts, muted, clients, caller, noted, posted, stored, emitted>>
      BY <1>6 DEF Complete, history, e
    <2>r. job[e] \in Job
      BY <1>0 DEF TypeOK
    <2>2. job'[e] = [job[e] EXCEPT !.state = "completed", !.delivered = worker.delivered]
      BY <1>0, <2>1 DEF TypeOK
    <2>3. /\ job'[e] \in Job
          /\ job'[e].state = "completed" /\ job'[e].tries = job[e].tries
          /\ job'[e].stalls = job[e].stalls /\ job'[e].delivered = worker.delivered
      BY ONLY <2>0, <2>2, <2>r DEF Job, JobStates
    <2>4. \A d \in Events \ {e} : job'[d] = job[d]
      BY <1>0, <2>1 DEF TypeOK
    <2>5. TypeOK'
      BY <1>0, <2>0, <2>1, <2>3 DEF TypeOK
    <2>6. WorkerInv'
      BY <2>0 DEF WorkerInv
    <2>7. /\ worker.delivered \in {"socket", "database"} => stored[e] > 0
          /\ worker.delivered = "socket" => emitted[e] > 0
      BY <1>0, <2>0 DEF WorkerInv, e
    <2>8. ASSUME NEW d \in Events PROVE EventInv(d)'
      BY <1>0, <1>1, <2>0, <2>1, <2>3, <2>4, <2>7 DEF Rest, NoJob, EventInv, TriesLeft, StoredInv,
         EmittedInv, NotedInv, ReportInv, Before, On, OwnNotes
    <2> QED
      BY <2>5, <2>6, <2>8 DEF EventInv
  <1>7. CASE Throw
    <2> DEFINE st == IF job[e].tries + 1 < MaxAttempts THEN "delayed" ELSE "failed"
    <2>0. /\ worker.pc \in {"note", "store"} /\ worker' = Rest
          /\ job[e].tries + 1 \in 0..MaxAttempts /\ st \in JobStates
      BY <1>0, <1>7 DEF Throw, Busy, EventInv, TriesLeft, JobStates
    <2>1. /\ job' = [job EXCEPT ![e] = [job[e] EXCEPT !.tries = job[e].tries + 1, !.state = st]]
          /\ UNCHANGED <<accounts, muted, clients, caller, noted, posted, stored, emitted>>
      BY <1>7 DEF Throw, history, e
    <2>r. job[e] \in Job
      BY <1>0 DEF TypeOK
    <2>2. job'[e] = [job[e] EXCEPT !.tries = job[e].tries + 1, !.state = st]
      BY <1>0, <2>1 DEF TypeOK
    <2>3. /\ st \in {"delayed", "failed"} /\ (st = "delayed" => job[e].tries + 1 < MaxAttempts)
          /\ job[e].delivered = "nowhere"
      BY <1>0 DEF EventInv, ReportInv
    <2> HIDE DEF st
    <2>4. /\ job'[e] \in Job
          /\ job'[e].state = st /\ job'[e].tries = job[e].tries + 1
          /\ job'[e].stalls = job[e].stalls /\ job'[e].delivered = job[e].delivered
      BY ONLY <2>0, <2>2, <2>r DEF Job, JobStates
    <2>5. \A d \in Events \ {e} : job'[d] = job[d]
      BY <1>0, <2>1 DEF TypeOK
    <2>6. TypeOK'
      BY <1>0, <2>0, <2>1, <2>4 DEF TypeOK
    <2>7. WorkerInv'
      BY <2>0 DEF WorkerInv
    <2>8. ASSUME NEW d \in Events PROVE EventInv(d)'
      BY <1>0, <1>1, <2>0, <2>1, <2>3, <2>4, <2>5 DEF Rest, NoJob, EventInv, TriesLeft, StoredInv,
         EmittedInv, NotedInv, ReportInv, Before, On, OwnNotes
    <2> QED
      BY <2>6, <2>7, <2>8 DEF EventInv
  <1> QED
    BY <1>2, <1>3, <1>4, <1>5, <1>6, <1>7 DEF Processor

\* When the server stops, a job stays active, and what its attempt did counts.
LEMMA RestartStep ==
  ASSUME QueueInv, Restart
  PROVE  QueueInv'
  <1> USE ConstantsAssumption, Fields DEF QueueInv
  <1>1. TypeOK'
    BY DEF Restart, TypeOK, history
  <1>2. WorkerInv'
    BY DEF Restart, WorkerInv
  <1>3. ASSUME NEW d \in Events PROVE EventInv(d)'
    BY DEF Restart, history, TypeOK, EventInv, TriesLeft, StoredInv, EmittedInv, NotedInv,
           ReportInv, Before, On, OwnNotes, Rest
  <1> QED
    BY <1>1, <1>2, <1>3 DEF EventInv

\* Sockets and accounts do not touch the queue.
LEMMA OutsideStep ==
  ASSUME QueueInv,
         \/ \E u \in Users, s \in Sockets : Connect(u, s) \/ Disconnect(u, s)
         \/ \E u \in Users : DeleteUser(u)
         \/ UNCHANGED vars
  PROVE  QueueInv'
  <1> USE DEF QueueInv
  <1>1. UNCHANGED <<muted, caller, job, worker, noted, posted, stored, emitted>>
    BY DEF Connect, Disconnect, DeleteUser, vars, queue, history
  <1>2. TypeOK'
    BY DEF Connect, Disconnect, DeleteUser, vars, queue, history, TypeOK
  <1> QED
    BY <1>1, <1>2 DEF WorkerInv, Event, TriesLeft, StoredInv, EmittedInv, NotedInv,
       ReportInv, Before, On, OwnNotes

LEMMA QueueInvStep == QueueInv /\ [Next]_vars => QueueInv'
  BY ListenerStep, QueueStep, ProcessorStep, RestartStep, OutsideStep DEF Next

\* The invariant holds in every behaviour.
THEOREM Invariance == Spec => []QueueInv
  <1>1. Init => QueueInv
    BY QueueInit
  <1>2. QueueInv /\ [Next]_vars => QueueInv'
    BY QueueInvStep
  <1> QED
    BY <1>1, <1>2, PTL DEF Spec

-----------------------------------------------------------------------------
(* What it implies *)

\* Every variable keeps its type: no job is started more often than allowed.
THEOREM TypeCorrect == Spec => []TypeOK
  <1>1. QueueInv => TypeOK
    BY DEF QueueInv
  <1> QED
    BY <1>1, Invariance, PTL

\* The processor stores one copy of a notification, and one more for every
\* time the server stopped before the job was acknowledged.
THEOREM CopiesSafety == Spec => []CopiesBounded
  <1>1. ASSUME QueueInv PROVE CopiesBounded
    <2>1. ASSUME NEW e \in Events PROVE stored[e] <= 1 + job[e].stalls
      BY <1>1, <2>1, Fields DEF QueueInv, StoredInv
    <2> QED
      BY <2>1 DEF CopiesBounded
  <1> QED
    BY <1>1, Invariance, PTL

\* A notification is sent, and its first row created, no more often than its job
\* was started.
THEOREM AttemptsSafety == Spec => []AttemptsBounded
  <1>1. ASSUME QueueInv PROVE AttemptsBounded
    <2> USE <1>1, Fields DEF QueueInv
    <2>1. ASSUME NEW e \in Events
          PROVE  emitted[e] <= Starts(e) /\ noted[e] <= Starts(e) + OwnNotes(e)
      <3>1. job[e].state \in {"none", "waiting", "delayed", "failed", "active", "completed"}
        BY DEF TypeOK, Job
      <3>2. CASE job[e].state \in {"none", "waiting", "delayed", "failed"}
        BY <3>2 DEF Starts, EmittedInv, NotedInv, Before
      <3>3. CASE job[e].state \in {"active", "completed"}
        BY <3>3 DEF Starts, EmittedInv, NotedInv
      <3> QED
        BY <3>1, <3>2, <3>3
    <2> QED
      BY <2>1 DEF AttemptsBounded
  <1> QED
    BY <1>1, Invariance, PTL

\* What the processor reports of a job, it did.
THEOREM ReportSafety == Spec => []ReportIsTrue
  <1>1. QueueInv => ReportIsTrue
    BY DEF QueueInv, ReportInv, ReportIsTrue
  <1> QED
    BY <1>1, Invariance, PTL

\* A job that was given up without a stop of the server has stored nothing.
THEOREM LostSafety == Spec => []LostIsNotStored
  <1>1. ASSUME QueueInv PROVE LostIsNotStored
    <2>1. ASSUME NEW e \in Events, job[e].state = "failed", job[e].stalls = 0
          PROVE  stored[e] = 0
      BY <1>1, <2>1, Fields DEF QueueInv, StoredInv, Before
    <2> QED
      BY <2>1 DEF LostIsNotStored
  <1> QED
    BY <1>1, Invariance, PTL

-----------------------------------------------------------------------------
(* The queue implements its promise *)

\* How the outcome of one event follows from its job and from what is stored.
Verdict(n, state) ==
    IF n > 0 THEN "stored"
    ELSE IF state = "none" THEN "none"
    ELSE IF state = "completed" THEN "skipped"
    ELSE IF state = "failed" THEN "lost"
    ELSE "pending"

\* Where no job was added nothing is decided.
LEMMA OutcomeStart == Init => Promise!OutcomeInit
  <1> SUFFICES ASSUME Init PROVE Outcome = [e \in Events |-> "none"]
    BY DEF Promise!OutcomeInit
  <1> QED
    BY DEF Init, Outcome, NoJob

\* A step of the system decides one event that was open, accepts one, or
\* leaves every outcome as it was.
LEMMA OutcomeStep == QueueInv /\ [Next]_vars => [Promise!OutcomeNext]_Outcome
  <1> SUFFICES ASSUME QueueInv, [Next]_vars
               PROVE  Promise!OutcomeNext \/ Outcome' = Outcome
    OBVIOUS
  <1>0. /\ \A e \in Events : job[e] \in Job /\ stored[e] \in Nat
        /\ QueueInv'
    BY Fields, QueueInvStep DEF QueueInv
  <1>1. TypeOK /\ TypeOK'
    BY <1>0 DEF QueueInv
  <1>2. \A e \in Events : Outcome[e] = Verdict(stored[e], job[e].state)
    BY <1>1 DEF Outcome, Verdict, TypeOK
  <1>3. \A e \in Events : Outcome'[e] = Verdict(stored'[e], job'[e].state)
    BY <1>1 DEF Outcome, Verdict, TypeOK
  <1>4. ASSUME UNCHANGED <<stored, job>> PROVE Outcome' = Outcome
    BY <1>4 DEF Outcome
  <1>5. ASSUME NEW e \in Events,
               \A d \in Events \ {e} : stored'[d] = stored[d] /\ job'[d] = job[d],
               \/ Outcome'[e] = Outcome[e]
               \/ Outcome[e] = "none" /\ Outcome'[e] = "pending"
               \/ Outcome[e] = "pending" /\ Outcome'[e] \in {"stored", "skipped", "lost"}
        PROVE  Promise!OutcomeNext \/ Outcome' = Outcome
    <2>1. Outcome' = [Outcome EXCEPT ![e] = Outcome'[e]]
      <3>1. \A d \in Events \ {e} : Outcome'[d] = Outcome[d]
        BY <1>2, <1>3, <1>5
      <3>2. /\ Outcome = [d \in Events |-> Outcome[d]]
            /\ Outcome' = [d \in Events |-> Outcome'[d]]
        BY DEF Outcome
      <3> HIDE DEF Outcome
      <3> QED
        BY <3>1, <3>2
    <2>2. CASE Outcome'[e] = Outcome[e]
      <3>1. Outcome = [d \in Events |-> Outcome[d]]
        BY DEF Outcome
      <3> QED
        BY <2>1, <2>2, <3>1
    <2>3. CASE Outcome[e] = "none" /\ Outcome'[e] = "pending"
      BY <2>1, <2>3 DEF Promise!OutcomeNext, Promise!Accept
    <2>4. CASE Outcome[e] = "pending" /\ Outcome'[e] \in {"stored", "skipped", "lost"}
      BY <2>1, <2>4 DEF Promise!OutcomeNext, Promise!Decide
    <2> QED
      BY <1>5, <2>2, <2>3, <2>4
  <1>6. ASSUME NEW e \in Events, Listener(e) PROVE Promise!OutcomeNext \/ Outcome' = Outcome
    <2>1. CASE AddNotification(e)
      <3>1. /\ job[e] = NoJob /\ stored[e] = 0
            /\ stored' = stored
            /\ job' = [job EXCEPT ![e].state = "waiting"]
        BY <1>0, <1>1, <1>6, <2>1
           DEF AddNotification, Proceed, history, QueueInv, TriesLeft, StoredInv, Before, NoJob
      <3>2. /\ job'[e].state = "waiting" /\ stored'[e] = 0 /\ job[e].state = "none"
            /\ \A d \in Events \ {e} : job'[d] = job[d] /\ stored'[d] = stored[d]
        BY <1>1, <1>6, <3>1 DEF TypeOK, NoJob
      <3>3. Outcome[e] = "none" /\ Outcome'[e] = "pending"
        BY <1>2, <1>3, <1>6, <3>1, <3>2 DEF Verdict
      <3> QED
        BY <1>5, <1>6, <3>2, <3>3
    <2>2. CASE ~AddNotification(e)
      BY <1>4, <1>6, <2>2 DEF Listener, Notify, PersistNote, PersistPost, CallerFails, history
    <2> QED
      BY <2>1, <2>2
  <1>7. ASSUME NEW e \in Events, Queue(e) PROVE Promise!OutcomeNext \/ Outcome' = Outcome
    <2>1. /\ stored' = stored
          /\ \A d \in Events \ {e} : job'[d] = job[d]
          /\ job[e].state \in {"waiting", "delayed", "active"}
      BY <1>1, <1>7 DEF Queue, Take, Retry, Stalled, TypeOK, history
    <2>2. job'[e].state \in {"active", "waiting", "failed"}
      <3>1. CASE Take(e)
        BY <1>1, <1>7, <3>1 DEF Take, TypeOK, Job
      <3>2. CASE Retry(e)
        BY <1>1, <1>7, <3>2 DEF Retry, TypeOK, Job
      <3>3. CASE Stalled(e)
        <4> DEFINE st == IF job[e].stalls < MaxStalls THEN "waiting" ELSE "failed"
        <4>1. job' = [job EXCEPT ![e] = [job[e] EXCEPT !.stalls = job[e].stalls + 1,
                                                      !.state = st]]
          BY <3>3 DEF Stalled
        <4>2. st \in {"waiting", "failed"}
          OBVIOUS
        <4>3. job[e] \in Job
          BY <1>0, <1>7
        <4> HIDE DEF st
        <4>4. job'[e] = [job[e] EXCEPT !.stalls = job[e].stalls + 1, !.state = st]
          BY <1>1, <1>7, <4>1 DEF TypeOK
        <4>5. job'[e].state = st
          BY ONLY <4>3, <4>4 DEF Job
        <4> QED
          BY <4>2, <4>5
      <3> QED
        BY <1>7, <3>1, <3>2, <3>3 DEF Queue
    <2>3. \/ Outcome'[e] = Outcome[e]
          \/ Outcome[e] = "pending" /\ Outcome'[e] = "lost"
      BY <1>0, <1>2, <1>3, <1>7, <2>1, <2>2 DEF Verdict
    <2> QED
      BY <1>5, <1>7, <2>1, <2>3
  <1>8. ASSUME Processor PROVE Promise!OutcomeNext \/ Outcome' = Outcome
    <2> DEFINE e == Event
    <2>0. /\ e \in Events /\ job[e].state = "active" /\ worker # Rest
      BY <1>8, Fields DEF Processor, ReadToggle, Emit, StoreNote, StoreUser, Complete, Throw,
           Busy, WorkerInv, QueueInv
    <2>1. CASE ReadToggle \/ Emit \/ StoreNote
      BY <1>4, <2>1 DEF ReadToggle, Emit, StoreNote, history
    <2>2. CASE StoreUser
      <3>1. /\ stored' = [stored EXCEPT ![e] = stored[e] + 1] /\ job' = job
        BY <2>2 DEF StoreUser, Count
      <3> HIDE DEF e
      <3>2. /\ stored'[e] = stored[e] + 1
            /\ \A d \in Events \ {e} : job'[d] = job[d] /\ stored'[d] = stored[d]
        BY <1>1, <2>0, <3>1 DEF TypeOK
      <3>3. \/ Outcome'[e] = Outcome[e]
            \/ Outcome[e] = "pending" /\ Outcome'[e] = "stored"
        BY <1>0, <1>2, <1>3, <2>0, <3>1, <3>2 DEF Verdict
      <3> QED
        BY <1>5, <2>0, <3>2, <3>3
    <2>3. CASE Complete
      <3>1. /\ job' = [job EXCEPT ![e] = [job[e] EXCEPT !.state = "completed",
                                                      !.delivered = worker.delivered]]
            /\ stored' = stored
        BY <2>3 DEF Complete, history
      <3> HIDE DEF e
      <3>2. job[e] \in Job
        BY <1>0, <2>0
      <3>3. /\ job'[e] = [job[e] EXCEPT !.state = "completed", !.delivered = worker.delivered]
            /\ \A d \in Events \ {e} : job'[d] = job[d] /\ stored'[d] = stored[d]
        BY <1>1, <2>0, <3>1 DEF TypeOK
      <3>4. job'[e].state = "completed"
        BY ONLY <3>2, <3>3 DEF Job
      <3>5. \/ Outcome'[e] = Outcome[e]
            \/ Outcome[e] = "pending" /\ Outcome'[e] = "skipped"
        BY <1>0, <1>2, <1>3, <2>0, <3>1, <3>4 DEF Verdict
      <3> QED
        BY <1>5, <2>0, <3>3, <3>5
    <2>4. CASE Throw
      <3> DEFINE st == IF job[e].tries + 1 < MaxAttempts THEN "delayed" ELSE "failed"
      <3>1. /\ job' = [job EXCEPT ![e] = [job[e] EXCEPT !.tries = job[e].tries + 1,
                                                      !.state = st]]
            /\ stored' = stored
        BY <2>4 DEF Throw, history
      <3>a. st \in {"delayed", "failed"}
        OBVIOUS
      <3> HIDE DEF e, st
      <3>2. job[e] \in Job
        BY <1>0, <2>0
      <3>3. /\ job'[e] = [job[e] EXCEPT !.tries = job[e].tries + 1, !.state = st]
            /\ \A d \in Events \ {e} : job'[d] = job[d] /\ stored'[d] = stored[d]
        BY <1>1, <2>0, <3>1 DEF TypeOK
      <3>4. job'[e].state = st
        BY ONLY <3>2, <3>3 DEF Job
      <3>5. \/ Outcome'[e] = Outcome[e]
            \/ Outcome[e] = "pending" /\ Outcome'[e] = "lost"
        BY <1>0, <1>2, <1>3, <2>0, <3>a, <3>1, <3>4 DEF Verdict
      <3> QED
        BY <1>5, <2>0, <3>3, <3>5
    <2> QED
      BY <1>8, <2>1, <2>2, <2>3, <2>4 DEF Processor
  <1>9. ASSUME \/ \E u \in Users, s \in Sockets : Connect(u, s) \/ Disconnect(u, s)
               \/ \E u \in Users : DeleteUser(u)
               \/ Restart
               \/ UNCHANGED vars
        PROVE  Outcome' = Outcome
    BY <1>4, <1>9 DEF Connect, Disconnect, DeleteUser, Restart, queue, history, vars
  <1> QED
    BY <1>6, <1>7, <1>8, <1>9 DEF Next

\* Every job that is added is decided at most once, and what is decided stays
\* so: the processor, its retries and the restarts of the server implement the
\* promise of the queue.
THEOREM PromiseSafety == Spec => Promise!OutcomeSafety
  <1>1. Init => Promise!OutcomeInit
    BY OutcomeStart
  <1>2. QueueInv /\ [Next]_vars => [Promise!OutcomeNext]_Outcome
    BY OutcomeStep
  <1> QED
    BY <1>1, <1>2, Invariance, PTL DEF Spec, Promise!OutcomeSafety
=============================================================================
