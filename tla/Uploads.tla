------------------------------ MODULE Uploads ------------------------------
(***************************************************************************)
(* Files in the object store and their rows: S3Service and UploadService.  *)
(* A request carries several files, whose jobs run side by side; the first *)
(* job that fails makes the answer an error, while the others go on.  An   *)
(* upload puts the object and then creates the row, a deletion deletes the *)
(* object and then the row, and nothing is undone.                         *)
(*                                                                         *)
(* Left out: keys, types and compression; the limit of five files.         *)
(***************************************************************************)
CONSTANTS
    Files,     \* bound: the files that can be uploaded; each gets a key of its own
    Requests   \* bound: requests whose jobs run at the same time

VARIABLES
    object,   \* the files that the store holds
    row,      \* the files that have a FileInstance row
    born,     \* the files that have been sent
    req,      \* req[r]: a request and its jobs
    stray,    \* history: objects whose row could not be created or is deleted already
    hollow    \* history: rows that a deletion could not delete after their object

vars == <<object, row, born, req, stray, hollow>>

Stage == {"none", "put", "create", "find", "object", "row", "done", "failed"}

Request == [kind   : {"idle", "upload", "delete"},
            job    : [Files -> Stage],
            answer : {"none", "ok", "error"}]

NoJobs == [f \in Files |-> "none"]
Idle == [kind |-> "idle", job |-> NoJobs, answer |-> "none"]

TypeOK ==
    /\ object \subseteq born /\ row \subseteq born /\ born \subseteq Files
    /\ req \in [Requests -> Request]
    /\ stray \subseteq Files /\ hollow \subseteq Files

Init ==
    /\ object = {} /\ row = {} /\ born = {}
    /\ req = [r \in Requests |-> Idle]
    /\ stray = {} /\ hollow = {}

-----------------------------------------------------------------------------

At(r, f, stage) == req[r].job[f] = stage
Ended(r, f) == req[r].job[f] \in {"none", "done", "failed"}
Move(r, f, stage) == req' = [req EXCEPT ![r].job = [req[r].job EXCEPT ![f] = stage]]

\* uploadFiles: a job for each file at once.
UploadStart(r, fs) ==
    /\ req[r] = Idle
    /\ fs # {} /\ fs \cap born = {}
    /\ born' = born \cup fs
    /\ req' = [req EXCEPT ![r] = [kind |-> "upload", answer |-> "none",
                                  job |-> [f \in Files |-> IF f \in fs THEN "put" ELSE "none"]]]
    /\ UNCHANGED <<object, row, stray, hollow>>

UploadPut(r, f) ==
    /\ At(r, f, "put")
    /\ object' = object \cup {f}
    /\ Move(r, f, "create")
    /\ UNCHANGED <<row, born, stray, hollow>>

UploadCreate(r, f) ==
    /\ At(r, f, "create")
    /\ row' = row \cup {f}
    /\ Move(r, f, "done")
    /\ UNCHANGED <<object, born, stray, hollow>>

\* deleteFiles looks for the rows once, for all ids; those it finds get jobs.
DeleteStart(r, fs) ==
    /\ req[r] = Idle
    /\ fs \cap row # {}
    /\ req' = [req EXCEPT ![r] = [kind |-> "delete", answer |-> "none",
                                  job |-> [f \in Files |-> IF f \in fs \cap row THEN "find" ELSE "none"]]]
    /\ UNCHANGED <<object, row, born, stray, hollow>>

\* deleteFile looks again: the row may have gone with another request.
DeleteFind(r, f) ==
    /\ At(r, f, "find")
    /\ Move(r, f, IF f \in row THEN "object" ELSE "failed")
    /\ UNCHANGED <<object, row, born, stray, hollow>>

\* Mutant: the row is deleted first.
DeleteRowFirst(r, f) ==
    /\ At(r, f, "object")
    /\ row' = row \ {f}
    /\ Move(r, f, "row")
    /\ UNCHANGED <<object, born, stray, hollow>>

\* To delete an object that is gone is no error.
DeleteObject(r, f) ==
    /\ At(r, f, "object")
    /\ object' = object \ {f}
    /\ Move(r, f, "row")
    /\ UNCHANGED <<row, born, stray, hollow>>

DeleteRow(r, f) ==
    /\ At(r, f, "row")
    /\ row' = row \ {f}
    /\ Move(r, f, IF f \in row THEN "done" ELSE "failed")
    /\ UNCHANGED <<object, born, stray, hollow>>

\* An operation of a job fails.
Fail(r, f) ==
    /\ ~Ended(r, f)
    /\ Move(r, f, "failed")
    /\ stray' = IF At(r, f, "create") THEN stray \cup {f} ELSE stray
    /\ hollow' = IF At(r, f, "row") THEN hollow \cup {f} ELSE hollow
    /\ UNCHANGED <<object, row, born>>

\* Mutant: jobs that failed are left out of the answer.
AnswerSettled(r) ==
    /\ req[r].kind # "idle" /\ req[r].answer = "none"
    /\ \A f \in Files : Ended(r, f)
    /\ req' = [req EXCEPT ![r].answer = "ok"]
    /\ UNCHANGED <<object, row, born, stray, hollow>>

\* Promise.all: an error as soon as a job has failed, else when all are done.
Answer(r) ==
    /\ req[r].kind # "idle" /\ req[r].answer = "none"
    /\ \/ /\ \E f \in Files : At(r, f, "failed")
          /\ req' = [req EXCEPT ![r].answer = "error"]
       \/ /\ \A f \in Files : req[r].job[f] \in {"none", "done"}
          /\ req' = [req EXCEPT ![r].answer = "ok"]
    /\ UNCHANGED <<object, row, born, stray, hollow>>

\* The jobs of a request that was answered with an error run to their end.
Forget(r) ==
    /\ req[r].answer # "none"
    /\ \A f \in Files : Ended(r, f)
    /\ req' = [req EXCEPT ![r] = Idle]
    /\ UNCHANGED <<object, row, born, stray, hollow>>

\* The process stops between two steps of any job.
Crash ==
    /\ \E r \in Requests : req[r] # Idle
    /\ req' = [r \in Requests |-> Idle]
    /\ stray' = stray \cup {f \in Files : \E r \in Requests : At(r, f, "create")}
    /\ hollow' = hollow \cup {f \in Files : \E r \in Requests : At(r, f, "row")}
    /\ UNCHANGED <<object, row, born>>

Next ==
    \/ \E r \in Requests :
          \/ \E fs \in SUBSET Files : UploadStart(r, fs) \/ DeleteStart(r, fs)
          \/ \E f \in Files :
                \/ UploadPut(r, f) \/ UploadCreate(r, f)
                \/ DeleteFind(r, f) \/ DeleteObject(r, f) \/ DeleteRow(r, f)
                \/ Fail(r, f)
          \/ Answer(r) \/ Forget(r)
    \/ Crash

Spec == Init /\ [][Next]_vars

-----------------------------------------------------------------------------
(* Properties *)

\* A listed file can be fetched: a row outlives its object only while a deletion
\* is between the two, or for good where it failed or stopped there.  An object
\* that no row names, which nothing in the code would ever delete, is left only
\* by an upload that failed or stopped between the two: a deletion never leaves
\* one, however two of the same file overlap.
StoresAgree ==
    /\ \A f \in row \ object : f \in hollow \/ \E r \in Requests : At(r, f, "row")
    /\ \A f \in object \ row : f \in stray \/ \E r \in Requests : At(r, f, "create")

\* A success is answered only when it holds for every file of the request: the
\* deleted are gone from both stores, the uploaded have a row, or are gone from
\* both by a later deletion.
AnswersHold ==
    \A r \in Requests, f \in Files : req[r].answer = "ok" /\ ~At(r, f, "none") =>
        IF req[r].kind = "delete" THEN f \notin row \cup object ELSE f \in object => f \in row
=============================================================================
