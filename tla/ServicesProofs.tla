--------------------------- MODULE ServicesProofs ---------------------------
(***************************************************************************)
(* What holds of the services for any number of accounts, files, sockets,  *)
(* messages and handlers that overlap.  Each section is about one module,  *)
(* by the name of its instance; the last one puts them together.  Sign-in, *)
(* refresh tokens and accounts have modules of proofs of their own.        *)
(***************************************************************************)
EXTENDS Services, FiniteSetTheorems, TLAPS

-----------------------------------------------------------------------------
(* Uploads *)

(* The invariant *)

\* The stages of a job that uploads, and of one that deletes.
Uploading == {"none", "put", "create", "done", "failed"}
Deleting == {"none", "find", "object", "row", "done", "failed"}

\* The jobs of a request are of its kind, and those of one that was answered with
\* a success are done.
JobsFit ==
  \A r \in Slots, f \in Ids :
     /\ moving[r].job[f] # "none" => f \in born
     /\ moving[r].kind = "idle" => moving[r].job[f] = "none"
     /\ moving[r].kind = "upload" => moving[r].job[f] \in Uploading
     /\ moving[r].kind = "delete" => moving[r].job[f] \in Deleting
     /\ moving[r].answer = "ok" => moving[r].job[f] \in {"none", "done"}

\* A file that is being uploaded has no row yet, so no other request has a job
\* for it.
UploadsAlone ==
  \A r \in Slots, f \in Ids : moving[r].job[f] \in {"put", "create"} =>
     f \notin file /\ \A s \in Slots \ {r} : moving[s].job[f] = "none"

\* What a job has found or done still holds of the store.
StageHolds ==
  \A r \in Slots, f \in Ids :
     /\ moving[r].job[f] = "create" => f \in object
     /\ moving[r].job[f] = "row" => f \notin object
     /\ moving[r].job[f] = "done" /\ moving[r].kind = "delete" => f \notin file /\ f \notin object
     /\ moving[r].job[f] = "done" /\ moving[r].kind = "upload" => (f \in object => f \in file)

\* What every state satisfies.
UploadsInv == U!TypeOK /\ JobsFit /\ UploadsAlone /\ StageHolds /\ U!StoresAgree

\* A slot without a request has no jobs.
LEMMA UploadIdleType == U!Idle \in U!Request /\ U!Idle.kind = "idle" /\ U!Idle.answer = "none"
                        /\ \A f \in Ids : U!Idle.job[f] = "none"
  BY DEF U!Idle, U!NoJobs, U!Request, U!Stage

-----------------------------------------------------------------------------
(* Steps of jobs *)

\* A job goes on: nothing else of any request changes.
LEMMA Moved ==
  ASSUME U!TypeOK, NEW r \in Slots, NEW f \in Ids, NEW stage \in U!Stage, U!Move(r, f, stage)
  PROVE  /\ moving' \in [Slots -> U!Request]
         /\ \A s \in Slots : moving'[s].kind = moving[s].kind /\ moving'[s].answer = moving[s].answer
         /\ \A s \in Slots, g \in Ids :
               moving'[s].job[g] = IF s = r /\ g = f THEN stage ELSE moving[s].job[g]
  <1> DEFINE job == [moving[r].job EXCEPT ![f] = stage]
             q == [moving[r] EXCEPT !.job = job]
  <1>1. moving \in [Slots -> U!Request] /\ moving[r] \in U!Request
    BY DEF U!TypeOK
  <1>2. /\ job \in [Ids -> U!Stage]
        /\ \A g \in Ids : job[g] = IF g = f THEN stage ELSE moving[r].job[g]
    BY <1>1 DEF U!Request
  <1> HIDE DEF job
  <1>3. q \in U!Request /\ q.kind = moving[r].kind /\ q.answer = moving[r].answer /\ q.job = job
    BY <1>1, <1>2 DEF U!Request
  <1>4. moving' = [moving EXCEPT ![r] = q]
    BY <1>1 DEF U!Move, job
  <1> HIDE DEF q
  <1>5. \A s \in Slots : moving'[s] = IF s = r THEN q ELSE moving[s]
    BY <1>1, <1>4
  <1> QED
    BY <1>1, <1>2, <1>3, <1>4, <1>5

\* A request begins, is answered or is forgotten.
LEMMA Replaced ==
  ASSUME U!TypeOK, NEW r \in Slots, NEW q \in U!Request, moving' = [moving EXCEPT ![r] = q]
  PROVE  /\ moving' \in [Slots -> U!Request]
         /\ \A s \in Slots : moving'[s] = IF s = r THEN q ELSE moving[s]
  BY DEF U!TypeOK

\* The object is there before its row is created.
LEMMA UploadPutStep ==
  ASSUME UploadsInv, NEW r \in Slots, NEW f \in Ids, U!UploadPut(r, f)
  PROVE  UploadsInv'
  <1>1. /\ moving[r].job[f] = "put" /\ object' = object \cup {f}
        /\ U!Move(r, f, "create") /\ UNCHANGED <<file, born, stray, hollow>>
    BY DEF U!UploadPut, U!At
  <1>2. /\ moving' \in [Slots -> U!Request]
        /\ \A s \in Slots : moving'[s].kind = moving[s].kind /\ moving'[s].answer = moving[s].answer
        /\ \A s \in Slots, g \in Ids :
              moving'[s].job[g] = IF s = r /\ g = f THEN "create" ELSE moving[s].job[g]
    BY <1>1, Moved DEF UploadsInv, U!Stage
  <1>3. U!TypeOK'
    BY <1>1, <1>2 DEF UploadsInv, U!TypeOK, JobsFit
  <1>4. JobsFit'
    BY <1>1, <1>2 DEF UploadsInv, JobsFit, Uploading, Deleting, U!TypeOK, U!Request
  <1>5. UploadsAlone'
    BY <1>1, <1>2 DEF UploadsInv, UploadsAlone
  <1>6. StageHolds'
    BY <1>1, <1>2 DEF UploadsInv, UploadsAlone, StageHolds
  <1>7. U!StoresAgree'
    BY <1>1, <1>2 DEF UploadsInv, U!StoresAgree, U!At, U!TypeOK
  <1> QED
    BY <1>3, <1>4, <1>5, <1>6, <1>7 DEF UploadsInv

\* With the row the job is done: the object has stayed, or a deletion that was sent
\* since took it.
LEMMA UploadCreateStep ==
  ASSUME UploadsInv, NEW r \in Slots, NEW f \in Ids, U!UploadCreate(r, f)
  PROVE  UploadsInv'
  <1>1. /\ moving[r].job[f] = "create" /\ file' = file \cup {f}
        /\ U!Move(r, f, "done") /\ UNCHANGED <<object, born, stray, hollow>>
    BY DEF U!UploadCreate, U!At
  <1>2. /\ moving' \in [Slots -> U!Request]
        /\ \A s \in Slots : moving'[s].kind = moving[s].kind /\ moving'[s].answer = moving[s].answer
        /\ \A s \in Slots, g \in Ids :
              moving'[s].job[g] = IF s = r /\ g = f THEN "done" ELSE moving[s].job[g]
    BY <1>1, Moved DEF UploadsInv, U!Stage
  <1>3. U!TypeOK'
    BY <1>1, <1>2 DEF UploadsInv, U!TypeOK, JobsFit
  <1>4. JobsFit'
    BY <1>1, <1>2 DEF UploadsInv, JobsFit, Uploading, Deleting, U!TypeOK, U!Request
  <1>5. UploadsAlone'
    BY <1>1, <1>2 DEF UploadsInv, UploadsAlone
  <1>6. StageHolds'
    BY <1>1, <1>2 DEF UploadsInv, UploadsAlone, StageHolds, JobsFit, Deleting
  <1>7. U!StoresAgree'
    BY <1>1, <1>2 DEF UploadsInv, U!StoresAgree, StageHolds, U!At, U!TypeOK
  <1> QED
    BY <1>3, <1>4, <1>5, <1>6, <1>7 DEF UploadsInv

\* Nothing has changed when the row is found.
LEMMA DeleteFindStep ==
  ASSUME UploadsInv, NEW r \in Slots, NEW f \in Ids, U!DeleteFind(r, f)
  PROVE  UploadsInv'
  <1>1. PICK to \in {"object", "failed"} :
           /\ moving[r].job[f] = "find" /\ U!Move(r, f, to)
           /\ UNCHANGED <<object, file, born, stray, hollow>>
    BY DEF U!DeleteFind, U!At
  <1>2. /\ moving' \in [Slots -> U!Request]
        /\ \A s \in Slots : moving'[s].kind = moving[s].kind /\ moving'[s].answer = moving[s].answer
        /\ \A s \in Slots, g \in Ids :
              moving'[s].job[g] = IF s = r /\ g = f THEN to ELSE moving[s].job[g]
    BY <1>1, Moved DEF UploadsInv, U!Stage
  <1>3. U!TypeOK'
    BY <1>1, <1>2 DEF UploadsInv, U!TypeOK, JobsFit
  <1>4. JobsFit'
    BY <1>1, <1>2 DEF UploadsInv, JobsFit, Uploading, Deleting, U!TypeOK, U!Request
  <1>5. UploadsAlone'
    BY <1>1, <1>2 DEF UploadsInv, UploadsAlone
  <1>6. StageHolds'
    BY <1>1, <1>2 DEF UploadsInv, StageHolds
  <1>7. U!StoresAgree'
    BY <1>1, <1>2 DEF UploadsInv, U!StoresAgree, U!At, U!TypeOK
  <1> QED
    BY <1>3, <1>4, <1>5, <1>6, <1>7 DEF UploadsInv

\* From here to the next step the row is without its object.
LEMMA DeleteObjectStep ==
  ASSUME UploadsInv, NEW r \in Slots, NEW f \in Ids, U!DeleteObject(r, f)
  PROVE  UploadsInv'
  <1>1. /\ moving[r].job[f] = "object" /\ object' = object \ {f}
        /\ U!Move(r, f, "row") /\ UNCHANGED <<file, born, stray, hollow>>
    BY DEF U!DeleteObject, U!At
  <1>2. /\ moving' \in [Slots -> U!Request]
        /\ \A s \in Slots : moving'[s].kind = moving[s].kind /\ moving'[s].answer = moving[s].answer
        /\ \A s \in Slots, g \in Ids :
              moving'[s].job[g] = IF s = r /\ g = f THEN "row" ELSE moving[s].job[g]
    BY <1>1, Moved DEF UploadsInv, U!Stage
  <1>3. U!TypeOK'
    BY <1>1, <1>2 DEF UploadsInv, U!TypeOK, JobsFit
  <1>4. JobsFit'
    BY <1>1, <1>2 DEF UploadsInv, JobsFit, Uploading, Deleting, U!TypeOK, U!Request
  <1>5. UploadsAlone'
    BY <1>1, <1>2 DEF UploadsInv, UploadsAlone
  <1>6. StageHolds'
    BY <1>1, <1>2 DEF UploadsInv, UploadsAlone, StageHolds
  <1>7. U!StoresAgree'
    BY <1>1, <1>2 DEF UploadsInv, U!StoresAgree, U!At, U!TypeOK
  <1> QED
    BY <1>3, <1>4, <1>5, <1>6, <1>7 DEF UploadsInv

\* The object went before, and no upload has put it back.
LEMMA DeleteRowStep ==
  ASSUME UploadsInv, NEW r \in Slots, NEW f \in Ids, U!DeleteRow(r, f)
  PROVE  UploadsInv'
  <1>1. PICK to \in {"done", "failed"} :
           /\ moving[r].job[f] = "row" /\ file' = file \ {f}
           /\ U!Move(r, f, to) /\ UNCHANGED <<object, born, stray, hollow>>
    BY DEF U!DeleteRow, U!At
  <1>2. /\ moving' \in [Slots -> U!Request]
        /\ \A s \in Slots : moving'[s].kind = moving[s].kind /\ moving'[s].answer = moving[s].answer
        /\ \A s \in Slots, g \in Ids :
              moving'[s].job[g] = IF s = r /\ g = f THEN to ELSE moving[s].job[g]
    BY <1>1, Moved DEF UploadsInv, U!Stage
  <1>3. U!TypeOK'
    BY <1>1, <1>2 DEF UploadsInv, U!TypeOK, JobsFit
  <1>4. JobsFit'
    BY <1>1, <1>2 DEF UploadsInv, JobsFit, Uploading, Deleting, U!TypeOK, U!Request
  <1>5. UploadsAlone'
    BY <1>1, <1>2 DEF UploadsInv, UploadsAlone
  <1>6. StageHolds'
    BY <1>1, <1>2 DEF UploadsInv, StageHolds
  <1>7. U!StoresAgree'
    BY <1>1, <1>2 DEF UploadsInv, U!StoresAgree, StageHolds, U!At, U!TypeOK
  <1> QED
    BY <1>3, <1>4, <1>5, <1>6, <1>7 DEF UploadsInv

\* What a job leaves behind is on record.
LEMMA FailStep ==
  ASSUME UploadsInv, NEW r \in Slots, NEW f \in Ids, U!Fail(r, f)
  PROVE  UploadsInv'
  <1>1. /\ moving[r].job[f] \notin {"none", "done", "failed"} /\ U!Move(r, f, "failed")
        /\ stray' = IF moving[r].job[f] = "create" THEN stray \cup {f} ELSE stray
        /\ hollow' = IF moving[r].job[f] = "row" THEN hollow \cup {f} ELSE hollow
        /\ UNCHANGED <<object, file, born>>
    BY DEF U!Fail, U!At, U!Ended
  <1>2. /\ moving' \in [Slots -> U!Request]
        /\ \A s \in Slots : moving'[s].kind = moving[s].kind /\ moving'[s].answer = moving[s].answer
        /\ \A s \in Slots, g \in Ids :
              moving'[s].job[g] = IF s = r /\ g = f THEN "failed" ELSE moving[s].job[g]
    BY <1>1, Moved DEF UploadsInv, U!Stage
  <1>3. U!TypeOK'
    BY <1>1, <1>2 DEF UploadsInv, U!TypeOK, JobsFit
  <1>4. JobsFit'
    BY <1>1, <1>2 DEF UploadsInv, JobsFit, Uploading, Deleting, U!TypeOK, U!Request
  <1>5. UploadsAlone'
    BY <1>1, <1>2 DEF UploadsInv, UploadsAlone
  <1>6. StageHolds'
    BY <1>1, <1>2 DEF UploadsInv, StageHolds
  <1>7. U!StoresAgree'
    BY <1>1, <1>2 DEF UploadsInv, U!StoresAgree, U!At, U!TypeOK
  <1> QED
    BY <1>3, <1>4, <1>5, <1>6, <1>7 DEF UploadsInv

-----------------------------------------------------------------------------
(* Steps of requests *)

\* Only files that were never sent before are uploaded: nobody has a job for them.
LEMMA UploadStartStep ==
  ASSUME UploadsInv, NEW r \in Slots, NEW fs \in SUBSET Ids, U!UploadStart(r, fs)
  PROVE  UploadsInv'
  <1> DEFINE q == [kind |-> "upload", answer |-> "none",
                   job |-> [f \in Ids |-> IF f \in fs THEN "put" ELSE "none"]]
  <1>1. /\ moving[r] = U!Idle /\ fs \cap born = {} /\ born' = born \cup fs
        /\ moving' = [moving EXCEPT ![r] = q] /\ UNCHANGED <<object, file, stray, hollow>>
    BY DEF U!UploadStart
  <1>2. /\ q \in U!Request /\ q.kind = "upload" /\ q.answer = "none"
        /\ \A f \in Ids : q.job[f] = IF f \in fs THEN "put" ELSE "none"
    BY DEF U!Request, U!Stage
  <1> HIDE DEF q
  <1>3. /\ moving' \in [Slots -> U!Request]
        /\ \A s \in Slots : moving'[s] = IF s = r THEN q ELSE moving[s]
    BY <1>1, <1>2, Replaced DEF UploadsInv
  <1>4. U!TypeOK'
    BY <1>1, <1>3 DEF UploadsInv, U!TypeOK
  <1>5. JobsFit'
    BY <1>1, <1>2, <1>3 DEF UploadsInv, JobsFit, Uploading
  <1>6. UploadsAlone'
    BY <1>1, <1>2, <1>3 DEF UploadsInv, UploadsAlone, JobsFit, U!TypeOK
  <1>7. StageHolds'
    BY <1>1, <1>2, <1>3 DEF UploadsInv, StageHolds
  <1>8. U!StoresAgree'
    BY <1>1, <1>2, <1>3, UploadIdleType DEF UploadsInv, U!StoresAgree, U!At, U!TypeOK
  <1> QED
    BY <1>4, <1>5, <1>6, <1>7, <1>8 DEF UploadsInv

\* Only files that have a row get a job.
LEMMA DeleteStartStep ==
  ASSUME UploadsInv, NEW r \in Slots, NEW fs \in SUBSET Ids, U!DeleteStart(r, fs)
  PROVE  UploadsInv'
  <1> DEFINE q == [kind |-> "delete", answer |-> "none",
                   job |-> [f \in Ids |-> IF f \in fs \cap file THEN "find" ELSE "none"]]
  <1>1. /\ moving[r] = U!Idle
        /\ moving' = [moving EXCEPT ![r] = q] /\ UNCHANGED <<object, file, born, stray, hollow>>
    BY DEF U!DeleteStart
  <1>2. /\ q \in U!Request /\ q.kind = "delete" /\ q.answer = "none"
        /\ \A f \in Ids : q.job[f] = IF f \in fs /\ f \in file THEN "find" ELSE "none"
    BY DEF U!Request, U!Stage
  <1> HIDE DEF q
  <1>3. /\ moving' \in [Slots -> U!Request]
        /\ \A s \in Slots : moving'[s] = IF s = r THEN q ELSE moving[s]
    BY <1>1, <1>2, Replaced DEF UploadsInv
  <1>4. U!TypeOK'
    BY <1>1, <1>3 DEF UploadsInv, U!TypeOK
  <1>5. JobsFit'
    BY <1>1, <1>2, <1>3 DEF UploadsInv, JobsFit, Deleting, U!TypeOK
  <1>6. UploadsAlone'
    BY <1>1, <1>2, <1>3 DEF UploadsInv, UploadsAlone
  <1>7. StageHolds'
    BY <1>1, <1>2, <1>3 DEF UploadsInv, StageHolds
  <1>8. U!StoresAgree'
    BY <1>1, <1>2, <1>3, UploadIdleType DEF UploadsInv, U!StoresAgree, U!At, U!TypeOK
  <1> QED
    BY <1>4, <1>5, <1>6, <1>7, <1>8 DEF UploadsInv

\* A success is answered only when every job is done.
LEMMA AnswerStep ==
  ASSUME UploadsInv, NEW r \in Slots, U!Answer(r)
  PROVE  UploadsInv'
  <1>1. PICK a \in {"ok", "error"} :
           /\ moving' = [moving EXCEPT ![r].answer = a]
           /\ a = "ok" => \A f \in Ids : moving[r].job[f] \in {"none", "done"}
           /\ UNCHANGED <<object, file, born, stray, hollow>>
    BY DEF U!Answer
  <1> DEFINE q == [moving[r] EXCEPT !.answer = a]
  <1>2. moving \in [Slots -> U!Request] /\ moving[r] \in U!Request
    BY DEF UploadsInv, U!TypeOK
  <1>3. q \in U!Request /\ q.kind = moving[r].kind /\ q.answer = a /\ q.job = moving[r].job
    BY <1>2 DEF U!Request
  <1>4. moving' = [moving EXCEPT ![r] = q]
    BY <1>1, <1>2
  <1> HIDE DEF q
  <1>5. /\ moving' \in [Slots -> U!Request]
        /\ \A s \in Slots : /\ moving'[s].kind = moving[s].kind /\ moving'[s].job = moving[s].job
                            /\ moving'[s].answer = IF s = r THEN a ELSE moving[s].answer
    BY <1>2, <1>3, <1>4
  <1>6. U!TypeOK'
    BY <1>1, <1>5 DEF UploadsInv, U!TypeOK
  <1>7. JobsFit'
    BY <1>1, <1>5 DEF UploadsInv, JobsFit
  <1>8. UploadsAlone' /\ StageHolds'
    BY <1>1, <1>5 DEF UploadsInv, UploadsAlone, StageHolds
  <1>9. U!StoresAgree'
    BY <1>1, <1>5 DEF UploadsInv, U!StoresAgree, U!At
  <1> QED
    BY <1>6, <1>7, <1>8, <1>9 DEF UploadsInv

\* A request that is forgotten leaves no job open.
LEMMA ForgetStep ==
  ASSUME UploadsInv, NEW r \in Slots, U!Forget(r)
  PROVE  UploadsInv'
  <1>1. /\ \A f \in Ids : moving[r].job[f] \in {"none", "done", "failed"}
        /\ moving' = [moving EXCEPT ![r] = U!Idle]
        /\ UNCHANGED <<object, file, born, stray, hollow>>
    BY DEF U!Forget, U!Ended
  <1>2. /\ moving' \in [Slots -> U!Request]
        /\ \A s \in Slots : moving'[s] = IF s = r THEN U!Idle ELSE moving[s]
    BY <1>1, UploadIdleType, Replaced DEF UploadsInv
  <1>3. U!TypeOK'
    BY <1>1, <1>2 DEF UploadsInv, U!TypeOK
  <1>4. JobsFit' /\ UploadsAlone' /\ StageHolds'
    BY <1>1, <1>2, UploadIdleType DEF UploadsInv, JobsFit, UploadsAlone, StageHolds
  <1>5. U!StoresAgree'
    BY <1>1, <1>2, UploadIdleType DEF UploadsInv, U!StoresAgree, U!At, U!TypeOK
  <1> QED
    BY <1>3, <1>4, <1>5 DEF UploadsInv

\* What every open job leaves behind is on record.
LEMMA CrashStep ==
  ASSUME UploadsInv, U!Crash
  PROVE  UploadsInv'
  <1>1. /\ moving' = [r \in Slots |-> U!Idle] /\ UNCHANGED <<object, file, born>>
        /\ stray' = stray \cup {f \in Ids : \E r \in Slots : U!At(r, f, "create")}
        /\ hollow' = hollow \cup {f \in Ids : \E r \in Slots : U!At(r, f, "row")}
    BY DEF U!Crash
  <1>2. moving' \in [Slots -> U!Request] /\ \A r \in Slots : moving'[r] = U!Idle
    BY <1>1, UploadIdleType
  <1>3. U!TypeOK'
    BY <1>1, <1>2 DEF UploadsInv, U!TypeOK
  <1>4. JobsFit' /\ UploadsAlone' /\ StageHolds'
    BY <1>1, <1>2, UploadIdleType DEF JobsFit, UploadsAlone, StageHolds
  <1>5. U!StoresAgree'
    BY <1>1 DEF UploadsInv, U!StoresAgree, U!TypeOK
  <1> QED
    BY <1>3, <1>4, <1>5 DEF UploadsInv

-----------------------------------------------------------------------------
(* The specification *)

\* It holds of empty stores.
LEMMA UploadsInit == U!Init => UploadsInv
  BY UploadIdleType
     DEF U!Init, UploadsInv, U!TypeOK, JobsFit, UploadsAlone, StageHolds, U!StoresAgree

\* Every step keeps it.
LEMMA UploadsNext == UploadsInv /\ [U!Next]_(U!vars) => UploadsInv'
  <1> SUFFICES ASSUME UploadsInv, [U!Next]_(U!vars) PROVE UploadsInv'
    OBVIOUS
  <1>1. CASE UNCHANGED U!vars
    BY <1>1 DEF U!vars, UploadsInv, U!TypeOK, JobsFit, UploadsAlone, StageHolds, U!StoresAgree, U!At
  <1> QED
    BY <1>1, UploadPutStep, UploadCreateStep, DeleteFindStep, DeleteObjectStep, DeleteRowStep,
       FailStep, UploadStartStep, DeleteStartStep, AnswerStep, ForgetStep, CrashStep DEF U!Next

\* A job that was answered with a success is done, and then neither store has what
\* was deleted, nor one of them alone what was uploaded.
LEMMA AnswersFollowed == UploadsInv => U!AnswersHold
  <1> SUFFICES ASSUME UploadsInv, NEW r \in Slots, NEW f \in Ids,
                      moving[r].answer = "ok", moving[r].job[f] # "none"
               PROVE  IF moving[r].kind = "delete" THEN f \notin file \cup object
                                                   ELSE f \in object => f \in file
    BY DEF U!AnswersHold, U!At
  <1>1. moving[r].job[f] = "done" /\ moving[r].kind \in {"upload", "delete"}
    BY DEF UploadsInv, JobsFit, U!TypeOK, U!Request
  <1> QED
    BY <1>1 DEF UploadsInv, StageHolds

-----------------------------------------------------------------------------
(* Files on the disk of the server *)

\* The path of an upload is made of its own time and of what its name becomes.
PathsNamed == \A f \in Ids : upload[f].state # "new" =>
    upload[f].path = <<upload[f].at, D!StoredName(upload[f].name, upload[f].packed)>>

\* What every state satisfies.
DiskInv == D!TypeOK /\ PathsNamed /\ D!UrlShowsItsFile

\* It holds before anything is uploaded.
LEMMA DiskInit == D!DiskFilesAssumption /\ D!Init => DiskInv
  <1> SUFFICES ASSUME D!DiskFilesAssumption, D!Init PROVE DiskInv
    OBVIOUS
  <1>1. 0 \in D!Times
    BY DEF D!DiskFilesAssumption, D!Times
  <1>2. \A f \in Ids : upload[f] \in D!Upload /\ upload[f].state = "new"
    <2> SUFFICES ASSUME NEW f \in Ids
                 PROVE  upload[f] \in D!Upload /\ upload[f].state = "new"
      OBVIOUS
    <2>1. PICK n \in FileNames : upload[f] = [state |-> "new", name |-> n, packed |-> FALSE,
                                             at |-> 0, path |-> <<0, PlainName[n]>>]
      BY DEF D!Init
    <2>2. <<0, PlainName[n]>> \in D!Paths
      BY <1>1 DEF D!Paths, D!DiskFilesAssumption
    <2> QED
      BY <1>1, <2>1, <2>2 DEF D!Upload
  <1> QED
    BY <1>1, <1>2 DEF D!Init, DiskInv, D!TypeOK, PathsNamed, D!UrlShowsItsFile

\* An upload gets its path, which no url names that was answered before.
LEMMA UploadPathStep ==
  ASSUME D!DiskFilesAssumption, DiskInv, NEW f \in Ids, NEW packed \in BOOLEAN,
         D!UploadPath(f, packed)
  PROVE  DiskInv'
  <1> DEFINE n == D!StoredName(upload[f].name, packed)
             q == [upload[f] EXCEPT !.state = "write", !.packed = packed, !.at = now, !.path = <<now, n>>]
  <1>1. upload[f] \in D!Upload /\ upload \in [Ids -> D!Upload] /\ now \in D!Times
    BY DEF DiskInv, D!TypeOK
  <1>a. n \in StoredNames
    BY <1>1 DEF D!Upload, D!StoredName, D!DiskFilesAssumption
  <1> HIDE DEF n
  <1>2. /\ q \in D!Upload /\ q.state = "write" /\ q.path = <<now, n>>
        /\ q.at = now /\ q.name = upload[f].name /\ q.packed = packed
    BY <1>1, <1>a DEF D!Upload, D!Paths
  <1>3. upload' = [upload EXCEPT ![f] = q]
    BY <1>1 DEF D!UploadPath, D!PathOf, D!Upload, n
  <1> HIDE DEF q
  <1>4. upload' \in [Ids -> D!Upload] /\ \A g \in Ids : upload'[g] = IF g = f THEN q ELSE upload[g]
    BY <1>1, <1>2, <1>3
  <1>5. upload[f].state = "new" /\ UNCHANGED <<now, disk, erased>>
    BY DEF D!UploadPath
  <1>6. D!TypeOK'
    BY <1>2, <1>4, <1>5 DEF DiskInv, D!TypeOK
  <1>8. PathsNamed'
    BY <1>2, <1>4, <1>5 DEF DiskInv, PathsNamed, n, D!StoredName
  <1>7. D!UrlShowsItsFile'
    <2> SUFFICES ASSUME NEW g \in Ids, upload'[g].state = "answered", upload'[g].path \notin erased
                 PROVE  \/ disk[upload'[g].path] = {g}
                        \/ \E h \in Ids \ {g} : /\ D!SameName(g, h)'
                                                /\ upload'[h].at = upload'[g].at
                                                /\ upload'[h].state # "new"
      BY <1>5 DEF D!UrlShowsItsFile
    <2>1. g # f /\ upload'[g] = upload[g]
      BY <1>2, <1>4
    <2>2. CASE disk[upload[g].path] = {g}
      BY <2>1, <2>2
    <2>3. ASSUME NEW h \in Ids \ {g}, D!SameName(g, h), upload[h].at = upload[g].at,
                 upload[h].state # "new"
          PROVE  /\ D!SameName(g, h)'
                 /\ upload'[h].at = upload'[g].at
                 /\ upload'[h].state # "new"
      <3>1. upload'[h] = upload[h]
        BY <1>4, <1>5, <2>3
      <3> QED
        BY <2>1, <2>3, <3>1 DEF D!SameName, D!StoredName
    <2> QED
      BY <2>1, <2>2, <2>3 DEF DiskInv, D!UrlShowsItsFile
  <1> QED
    BY <1>6, <1>7, <1>8 DEF DiskInv

\* A file that another one replaces has the same time, and its name becomes the same.
LEMMA WriteStep ==
  ASSUME DiskInv, NEW f \in Ids, NEW to \in {"answered", "failed"},
         upload[f].state = "write", upload' = [upload EXCEPT ![f].state = to],
         disk' = [disk EXCEPT ![upload[f].path] = {f}] \/ (to = "failed" /\ UNCHANGED disk),
         UNCHANGED <<now, erased>>
  PROVE  DiskInv'
  <1> DEFINE q == [upload[f] EXCEPT !.state = to]
             p == upload[f].path
  <1>1. upload[f] \in D!Upload /\ upload \in [Ids -> D!Upload] /\ p \in D!Paths
    BY DEF DiskInv, D!TypeOK, D!Upload
  <1>2. /\ q \in D!Upload /\ q.state = to
        /\ q.path = p /\ q.at = upload[f].at /\ q.name = upload[f].name
        /\ q.packed = upload[f].packed
    BY <1>1 DEF D!Upload
  <1> HIDE DEF q
  <1>3. upload' \in [Ids -> D!Upload] /\ \A g \in Ids : upload'[g] = IF g = f THEN q ELSE upload[g]
    BY <1>1, <1>2 DEF q
  <1>4. /\ disk' \in [D!Paths -> SUBSET Ids]
        /\ \A x \in D!Paths : disk'[x] = disk[x] \/ (x = p /\ disk'[x] = {f})
        /\ to = "answered" => disk'[p] = {f}
    BY <1>1 DEF DiskInv, D!TypeOK
  <1>5. D!TypeOK'
    BY <1>2, <1>3, <1>4 DEF DiskInv, D!TypeOK
  <1>8. \A g, h \in Ids : D!SameName(g, h)' <=> D!SameName(g, h)
    BY <1>2, <1>3 DEF D!SameName, D!StoredName
  <1>7. PathsNamed'
    BY <1>2, <1>3 DEF DiskInv, PathsNamed, D!StoredName
  <1>6. D!UrlShowsItsFile'
    <2> SUFFICES ASSUME NEW g \in Ids, upload'[g].state = "answered", upload'[g].path \notin erased
                 PROVE  \/ disk'[upload'[g].path] = {g}
                        \/ \E h \in Ids \ {g} : /\ D!SameName(g, h)'
                                                /\ upload'[h].at = upload'[g].at
                                                /\ upload'[h].state # "new"
      BY DEF D!UrlShowsItsFile
    <2>1. CASE g = f
      BY <1>2, <1>3, <1>4, <2>1
    <2>2. CASE g # f
      <3>1. upload'[g] = upload[g] /\ upload[g].path \in D!Paths /\ upload[g].state = "answered"
        BY <1>1, <1>3, <2>2 DEF D!Upload
      <3>2. ASSUME NEW h \in Ids \ {g}, D!SameName(g, h), upload[h].at = upload[g].at,
                   upload[h].state # "new"
            PROVE  /\ D!SameName(g, h)'
                   /\ upload'[h].at = upload'[g].at
                   /\ upload'[h].state # "new"
        BY <1>2, <1>3, <1>8, <3>1, <3>2
      <3>3. CASE disk[upload[g].path] = {g}
        <4>1. CASE disk'[upload[g].path] = disk[upload[g].path]
          BY <3>1, <3>3, <4>1
        <4>2. CASE upload[g].path = p
          <5>1. p = <<upload[f].at, D!StoredName(upload[f].name, upload[f].packed)>>
            BY DEF DiskInv, PathsNamed
          <5>2. p = <<upload[g].at, D!StoredName(upload[g].name, upload[g].packed)>>
            BY <3>1, <4>2 DEF DiskInv, PathsNamed
          <5>3. D!SameName(g, f) /\ upload[f].at = upload[g].at
            BY <5>1, <5>2 DEF D!SameName
          <5> QED
            BY <1>2, <1>3, <1>8, <2>2, <3>1, <5>3
        <4> QED
          BY <1>4, <3>1, <4>1, <4>2
      <3> QED
        BY <3>1, <3>2, <3>3 DEF DiskInv, D!UrlShowsItsFile
    <2> QED
      BY <2>1, <2>2
  <1> QED
    BY <1>5, <1>6, <1>7 DEF DiskInv

\* Every step keeps it: only a write to a path, which its time and name make, replaces
\* a file.
LEMMA DiskNext == D!DiskFilesAssumption /\ DiskInv /\ [D!Next]_(D!vars) => DiskInv'
  <1> SUFFICES ASSUME D!DiskFilesAssumption, DiskInv, [D!Next]_(D!vars) PROVE DiskInv'
    OBVIOUS
  <1>1. ASSUME NEW f \in Ids, D!UploadWrite(f) \/ D!UploadFails(f) PROVE DiskInv'
    <2>1. UNCHANGED <<now, erased>> /\ upload[f].state = "write"
      BY <1>1 DEF D!UploadWrite, D!UploadFails
    <2>2. CASE D!UploadWrite(f)
      BY <2>1, <2>2, WriteStep DEF D!UploadWrite
    <2>3. CASE D!UploadFails(f)
      BY <2>1, <2>3, WriteStep DEF D!UploadFails
    <2> QED
      BY <1>1, <2>2, <2>3
  <1>2. ASSUME NEW f \in Ids, D!Delete(f) PROVE DiskInv'
    BY <1>2 DEF D!Delete, DiskInv, D!TypeOK, PathsNamed, D!UrlShowsItsFile, D!Upload,
                D!SameName, D!StoredName
  <1>3. CASE D!Tick
    BY <1>3
       DEF D!Tick, DiskInv, D!TypeOK, PathsNamed, D!UrlShowsItsFile, D!Times,
           D!SameName, D!StoredName, D!DiskFilesAssumption
  <1>4. CASE UNCHANGED D!vars
    BY <1>4 DEF D!vars, DiskInv, D!TypeOK, PathsNamed, D!UrlShowsItsFile, D!SameName,
                D!StoredName
  <1> QED
    BY <1>1, <1>2, <1>3, <1>4, UploadPathStep DEF D!Next

-----------------------------------------------------------------------------
(* Cached profiles *)

\* What every state satisfies; it is inductive without more.
ProfilesInv == P!TypeOK /\ P!StaleIsExplained

\* A slot without a handler.
LEMMA ProfileIdleType == P!Idle \in P!Request /\ P!Idle.pc = "idle" /\ P!Idle.user = "nobody"
  BY DEF P!Idle, P!Request

\* It holds of an empty cache.
LEMMA ProfilesInit == P!ProfilesAssumption /\ P!Init => ProfilesInv
  BY ProfileIdleType
     DEF P!Init, ProfilesInv, P!TypeOK, P!StaleIsExplained, P!Outdated, P!Versions, P!Status,
         P!ProfilesAssumption

\* Where a handler stands after a step, by the form of the step.
LEMMA ProfileReqBegin ==
  ASSUME P!TypeOK, NEW r \in MoreSlots, NEW u \in Users, NEW where \in P!Await, P!Begin(r, u, where)
  PROVE  \E q \in P!Request : /\ q.user = u /\ q.pc = where
                              /\ caching[r].pc = "idle" /\ caching' = [caching EXCEPT ![r] = q]
  BY ProfileIdleType DEF P!Begin, P!Idle, P!Request

\* A handler goes on for the same user.
LEMMA ProfileReqGoto ==
  ASSUME P!TypeOK, NEW r \in MoreSlots, NEW where \in P!Await, P!Goto(r, where), caching[r].pc # "idle"
  PROVE  \E q \in P!Request : /\ q.user = caching[r].user /\ q.user \in Users /\ q.pc = where
                              /\ caching' = [caching EXCEPT ![r] = q]
  <1>1. caching[r] \in P!Request /\ caching[r].user \in Users
    BY ProfileIdleType DEF P!TypeOK
  <1>2. [caching[r] EXCEPT !.pc = where] \in P!Request
    BY <1>1 DEF P!Request
  <1>3. caching' = [caching EXCEPT ![r] = [caching[r] EXCEPT !.pc = where]]
    BY DEF P!Goto, P!TypeOK
  <1> QED
    BY <1>1, <1>2, <1>3 DEF P!Request

\* So does one that has read a row.
LEMMA ReqVersion ==
  ASSUME P!TypeOK, NEW r \in MoreSlots, NEW where \in P!Await, NEW v \in P!Versions, caching[r].pc # "idle",
         caching' = [caching EXCEPT ![r].pc = where, ![r].version = v]
  PROVE  \E q \in P!Request : /\ q.user = caching[r].user /\ q.user \in Users /\ q.pc = where
                              /\ caching' = [caching EXCEPT ![r] = q]
  <1> DEFINE q == [caching[r] EXCEPT !.pc = where, !.version = v]
  <1>1. caching[r] \in P!Request /\ caching[r].user \in Users
    BY ProfileIdleType DEF P!TypeOK
  <1>2. q \in P!Request /\ q.user = caching[r].user /\ q.pc = where
    BY <1>1 DEF P!Request
  <1>3. caching' = [caching EXCEPT ![r] = q]
    BY <1>1 DEF P!TypeOK, P!Request
  <1> QED
    BY <1>1, <1>2, <1>3

\* A handler that changes nothing but where it stands, and was not to renew an entry.
LEMMA ProfileQuietStep ==
  ASSUME ProfilesInv, NEW r \in MoreSlots, NEW q \in P!Request, q = P!Idle \/ q.user \in Users,
         caching[r].pc \notin P!Renewing, caching' = [caching EXCEPT ![r] = q],
         UNCHANGED <<row, sub, entry, excused>>
  PROVE  ProfilesInv'
  <1>1. /\ caching' \in [MoreSlots -> P!Request]
        /\ \A s \in MoreSlots : caching'[s] = IF s = r THEN q ELSE caching[s]
    BY DEF ProfilesInv, P!TypeOK
  <1>2. P!TypeOK'
    BY <1>1 DEF ProfilesInv, P!TypeOK
  <1>3. P!StaleIsExplained'
    BY <1>1 DEF ProfilesInv, P!StaleIsExplained, P!Outdated
  <1> QED
    BY <1>2, <1>3 DEF ProfilesInv

\* A writer that drops or replaces the entry next.
LEMMA WriterStep ==
  ASSUME ProfilesInv, NEW r \in MoreSlots, NEW q \in P!Request,
         q.user \in Users, q.user = caching[r].user, q.pc \in P!Renewing,
         caching' = [caching EXCEPT ![r] = q],
         NEW v \in P!Versions \cup {0}, row' = [row EXCEPT ![q.user] = v],
         \/ v # 0 /\ row[q.user] # 0 /\ sub' = sub
         \/ v = 0 /\ sub' = [sub EXCEPT ![q.user] = "none"],
         UNCHANGED <<entry, excused>>
  PROVE  ProfilesInv'
  <1>1. /\ caching' \in [MoreSlots -> P!Request]
        /\ \A s \in MoreSlots : caching'[s] = IF s = r THEN q ELSE caching[s]
    BY DEF ProfilesInv, P!TypeOK
  <1>2. /\ row' \in [Users -> P!Versions \cup {0}] /\ sub' \in [Users -> P!Status]
        /\ \A u \in Users : row'[u] = IF u = q.user THEN v ELSE row[u]
        /\ \A u \in Users : row'[u] = 0 => sub'[u] = "none"
    BY DEF ProfilesInv, P!TypeOK, P!Status
  <1>3. P!TypeOK'
    BY <1>1, <1>2 DEF ProfilesInv, P!TypeOK
  <1>4. P!StaleIsExplained'
    BY <1>1, <1>2 DEF ProfilesInv, P!StaleIsExplained, P!Outdated
  <1> QED
    BY <1>3, <1>4 DEF ProfilesInv

\* A handler puts or drops the entry of its user.
LEMMA EntryStep ==
  ASSUME ProfilesInv, NEW r \in MoreSlots, NEW q \in P!Request, caching[r].pc # "idle",
         q = P!Idle \/ q.user \in Users, caching' = [caching EXCEPT ![r] = q],
         NEW v \in P!Versions \cup {0}, entry' = [entry EXCEPT ![caching[r].user] = v],
         NEW x \in BOOLEAN, excused' = [excused EXCEPT ![caching[r].user] = x],
         v # 0 /\ v # row[caching[r].user] => x,
         UNCHANGED <<row, sub>>
  PROVE  ProfilesInv'
  <1>1. /\ caching' \in [MoreSlots -> P!Request]
        /\ \A s \in MoreSlots : caching'[s] = IF s = r THEN q ELSE caching[s]
    BY DEF ProfilesInv, P!TypeOK
  <1>2. caching[r].user \in Users
    BY ProfileIdleType DEF ProfilesInv, P!TypeOK
  <1>3. /\ entry' \in [Users -> P!Versions \cup {0}] /\ excused' \in [Users -> BOOLEAN]
        /\ \A u \in Users : entry'[u] = IF u = caching[r].user THEN v ELSE entry[u]
        /\ \A u \in Users : excused'[u] = IF u = caching[r].user THEN x ELSE excused[u]
    BY <1>2 DEF ProfilesInv, P!TypeOK
  <1>4. P!TypeOK'
    BY <1>1, <1>3 DEF ProfilesInv, P!TypeOK
  <1>5. P!StaleIsExplained'
    BY <1>1, <1>2, <1>3 DEF ProfilesInv, P!StaleIsExplained, P!Outdated
  <1> QED
    BY <1>4, <1>5 DEF ProfilesInv

\* A writer that never invalidates, and has nothing in flight after it.
LEMMA SilentStep ==
  ASSUME ProfilesInv, NEW u \in Users, P!Silently(u),
         \/ caching' = caching
         \/ \E r \in MoreSlots : caching[r].pc \notin P!Renewing /\ P!Finish(r),
         row' \in [Users -> P!Versions \cup {0}], sub' \in [Users -> P!Status],
         \A w \in Users : w # u => row'[w] = row[w],
         \A w \in Users : row'[w] = 0 => sub'[w] = "none",
         entry' = entry
  PROVE  ProfilesInv'
  <1>1. /\ caching' \in [MoreSlots -> P!Request]
        /\ \A s \in MoreSlots : caching'[s] = caching[s] \/ (caching'[s] = P!Idle /\ caching[s].pc \notin P!Renewing)
    BY ProfileIdleType DEF ProfilesInv, P!TypeOK, P!Finish
  <1>2. /\ excused' \in [Users -> BOOLEAN]
        /\ \A w \in Users : excused'[w] = IF w = u THEN excused[u] \/ entry[u] # 0 ELSE excused[w]
    BY DEF P!Silently, ProfilesInv, P!TypeOK
  <1>3. P!TypeOK'
    BY <1>1, <1>2 DEF ProfilesInv, P!TypeOK
  <1>4. P!StaleIsExplained'
    BY <1>1, <1>2 DEF ProfilesInv, P!StaleIsExplained, P!Outdated
  <1> QED
    BY <1>3, <1>4 DEF ProfilesInv

\* What one more version of a row is.
LEMMA Written ==
  ASSUME P!TypeOK, NEW u \in Users, P!Write(u), P!ProfilesAssumption
  PROVE  /\ row[u] # 0 /\ row[u] + 1 \in P!Versions
         /\ row' = [row EXCEPT ![u] = row[u] + 1]
         /\ row' \in [Users -> P!Versions \cup {0}]
         /\ \A w \in Users : row'[w] = IF w = u THEN row[u] + 1 ELSE row[w]
  BY DEF P!TypeOK, P!Write, P!Versions, P!ProfilesAssumption

\* A write to the Subscription row leaves the cached entry as it is: what it makes
\* outdated is excused.
LEMMA SubscribeStep ==
  ASSUME ProfilesInv, P!ProfilesAssumption, NEW r \in MoreSlots, NEW value \in P!Status,
         caching[r].pc \notin P!Renewing \cup {"idle"}, P!Subscribe(r, value)
  PROVE  ProfilesInv'
  <1>1. caching[r].user \in Users
    BY ProfileIdleType DEF ProfilesInv, P!TypeOK
  <1>2. /\ sub' = [sub EXCEPT ![caching[r].user] = value] /\ P!Write(caching[r].user)
        /\ P!Silently(caching[r].user) /\ P!Finish(r) /\ entry' = entry
    BY DEF P!Subscribe
  <1>3. sub' \in [Users -> P!Status] /\ \A w \in Users : w # caching[r].user => sub'[w] = sub[w]
    BY <1>1, <1>2 DEF ProfilesInv, P!TypeOK
  <1>4. /\ row' \in [Users -> P!Versions \cup {0}]
        /\ \A w \in Users : row'[w] = IF w = caching[r].user THEN row[caching[r].user] + 1 ELSE row[w]
        /\ row[caching[r].user] + 1 \in P!Versions
    BY <1>1, <1>2, Written DEF ProfilesInv
  <1>5. \A w \in Users : row'[w] = 0 => sub'[w] = "none"
    BY <1>3, <1>4 DEF ProfilesInv, P!TypeOK, P!Versions
  <1> QED
    BY <1>1, <1>2, <1>3, <1>4, <1>5, SilentStep

\* Steps that write neither a row nor the cache.
LEMMA QuietActions ==
  ASSUME ProfilesInv, NEW r \in MoreSlots,
         \/ P!GetRead(r) \/ P!BuyFind(r)
         \/ \E u \in Users :
               \/ P!GetMiss(r, u) \/ P!UpdateRead(r, u) \/ P!LoginFind(r, u) \/ P!VerifyFind(r, u)
               \/ P!DeleteFind(r, u) \/ P!Buy(r, u) \/ P!CancelFind(r, u)
  PROVE  ProfilesInv'
  <1>1. CASE P!GetRead(r)
    <2>1. /\ caching[r].pc = "get.read" /\ row[caching[r].user] # 0
          /\ caching' = [caching EXCEPT ![r].pc = "get.put", ![r].version = row[caching[r].user]]
          /\ UNCHANGED <<row, sub, entry, excused>>
      BY <1>1 DEF P!GetRead, P!At
    <2>2. PICK v \in P!Versions : v = row[caching[r].user]
      BY <2>1, ProfileIdleType DEF ProfilesInv, P!TypeOK
    <2>3. "get.put" \in P!Await /\ caching[r].pc # "idle" /\ caching[r].pc \notin P!Renewing
      BY <2>1 DEF P!Await, P!Renewing, P!Invalidating
    <2>4. caching' = [caching EXCEPT ![r].pc = "get.put", ![r].version = v]
      BY <2>1, <2>2, Zenon
    <2>5. PICK q \in P!Request : q.user \in Users /\ caching' = [caching EXCEPT ![r] = q]
      BY <2>3, <2>4, ReqVersion DEF ProfilesInv
    <2> QED
      BY <2>1, <2>3, <2>5, ProfileQuietStep
  <1>2. CASE P!BuyFind(r)
    <2>1. PICK where \in {"buy.create", "buy.update"} :
             caching[r].pc = "buy.find" /\ P!Goto(r, where) /\ UNCHANGED <<row, sub, entry, excused>>
      BY <1>2 DEF P!BuyFind, P!At
    <2> QED
      BY <2>1, ProfileReqGoto, ProfileQuietStep DEF ProfilesInv, P!Await, P!Renewing, P!Invalidating
  <1>3. CASE \E u \in Users :
               \/ P!GetMiss(r, u) \/ P!UpdateRead(r, u) \/ P!LoginFind(r, u) \/ P!VerifyFind(r, u)
               \/ P!DeleteFind(r, u) \/ P!Buy(r, u) \/ P!CancelFind(r, u)
    <2>1. PICK u \in Users, where \in P!Await : P!Begin(r, u, where) /\ UNCHANGED <<row, sub, entry, excused>>
      BY <1>3
         DEF P!GetMiss, P!UpdateRead, P!LoginFind, P!VerifyFind, P!DeleteFind, P!Buy,
             P!CancelFind, P!Await
    <2> QED
      BY <2>1, ProfileReqBegin, ProfileQuietStep DEF ProfilesInv, P!Renewing, P!Invalidating
  <1> QED
    BY <1>1, <1>2, <1>3

\* A write to a row that the same handler will follow by removing or replacing the
\* entry.
LEMMA WriterActions ==
  ASSUME P!ProfilesAssumption, ProfilesInv, NEW r \in MoreSlots,
         P!UpdateWrite(r) \/ P!LoginUpdate(r) \/ P!VerifyWrite(r) \/ P!DeleteWrite(r)
  PROVE  ProfilesInv'
  <1>1. CASE P!UpdateWrite(r)
    <2>1. /\ caching[r].pc = "update.write" /\ P!Write(caching[r].user) /\ P!Goto(r, "update.invalidate")
          /\ UNCHANGED <<sub, entry, excused>>
      BY <1>1 DEF P!UpdateWrite, P!At
    <2>2. PICK q \in P!Request : /\ q.user = caching[r].user /\ q.user \in Users
                                 /\ q.pc = "update.invalidate"
                                 /\ caching' = [caching EXCEPT ![r] = q]
      BY <2>1, ProfileReqGoto DEF ProfilesInv, P!Await
    <2>3. /\ row[q.user] # 0 /\ row[q.user] + 1 \in P!Versions
          /\ row' = [row EXCEPT ![q.user] = row[q.user] + 1]
      BY <2>1, <2>2, Written DEF ProfilesInv
    <2>4. row[q.user] + 1 # 0
      BY <2>3 DEF P!Versions
    <2> QED
      BY <2>1, <2>2, <2>3, <2>4, WriterStep DEF P!Renewing, P!Invalidating
  <1>2. CASE P!LoginUpdate(r) \/ P!VerifyWrite(r)
    <2>1. PICK where \in {"login.put", "verify.invalidate"} :
             /\ caching[r].pc \in {"login.update", "verify.write"} /\ P!Write(caching[r].user)
             /\ caching' = [caching EXCEPT ![r].pc = where, ![r].version = row[caching[r].user] + 1]
             /\ UNCHANGED <<sub, entry, excused>>
      BY <1>2 DEF P!LoginUpdate, P!VerifyWrite, P!At
    <2>2. /\ caching[r].user \in Users /\ row[caching[r].user] # 0 /\ row[caching[r].user] + 1 \in P!Versions
          /\ row' = [row EXCEPT ![caching[r].user] = row[caching[r].user] + 1]
      BY <2>1, Written, ProfileIdleType DEF ProfilesInv, P!TypeOK
    <2> DEFINE v == row[caching[r].user] + 1
               q == [caching[r] EXCEPT !.pc = where, !.version = v]
    <2>3. /\ v \in P!Versions /\ v # 0 /\ caching[r] \in P!Request
          /\ caching \in [MoreSlots -> P!Request]
      BY <2>2 DEF P!Versions, ProfilesInv, P!TypeOK
    <2>4. q \in P!Request /\ q.user = caching[r].user /\ q.pc = where
      BY <2>3 DEF P!Request, P!Await
    <2>5. caching' = [caching EXCEPT ![r] = q]
      BY <2>1, <2>3 DEF P!Request
    <2>6. row' = [row EXCEPT ![q.user] = v]
      BY <2>2, <2>4
    <2> HIDE DEF q, v
    <2> QED
      BY <2>1, <2>2, <2>3, <2>4, <2>5, <2>6, WriterStep DEF P!Renewing, P!Invalidating
  <1>3. CASE P!DeleteWrite(r)
    <2>1. /\ caching[r].pc = "delete.write" /\ P!Goto(r, "delete.invalidate")
          /\ row' = [row EXCEPT ![caching[r].user] = 0]
          /\ sub' = [sub EXCEPT ![caching[r].user] = "none"]
          /\ UNCHANGED <<entry, excused>>
      BY <1>3 DEF P!DeleteWrite, P!DeleteRow, P!At
    <2>2. PICK q \in P!Request : /\ q.user = caching[r].user /\ q.user \in Users
                                 /\ q.pc = "delete.invalidate"
                                 /\ caching' = [caching EXCEPT ![r] = q]
      BY <2>1, ProfileReqGoto DEF ProfilesInv, P!Await
    <2> QED
      BY <2>1, <2>2, WriterStep DEF P!Renewing, P!Invalidating
  <1> QED
    BY <1>1, <1>2, <1>3

\* What is written to the cache is what the handler has read, or nothing.
LEMMA EntryActions ==
  ASSUME ProfilesInv, NEW r \in MoreSlots,
         P!GetPut(r) \/ P!LoginPut(r) \/ P!UpdateInvalidate(r) \/ P!VerifyInvalidate(r) \/ P!DeleteInvalidate(r)
  PROVE  ProfilesInv'
  <1>1. CASE P!GetPut(r) \/ P!LoginPut(r)
    <2>1. /\ caching[r].pc \in {"get.put", "login.put"} /\ caching' = [caching EXCEPT ![r] = P!Idle]
          /\ entry' = [entry EXCEPT ![caching[r].user] = caching[r].version]
          /\ excused' = [excused EXCEPT ![caching[r].user] = caching[r].version # row[caching[r].user]]
          /\ UNCHANGED <<row, sub>>
      BY <1>1 DEF P!GetPut, P!LoginPut, P!At, P!Put, P!Finish
    <2>2. caching[r].version \in P!Versions \cup {0}
      BY DEF ProfilesInv, P!TypeOK, P!Request
    <2> DEFINE x == caching[r].version # row[caching[r].user]
    <2>3. x \in BOOLEAN /\ (caching[r].version # 0 /\ caching[r].version # row[caching[r].user] => x)
          /\ excused' = [excused EXCEPT ![caching[r].user] = x]
      BY <2>1
    <2> HIDE DEF x
    <2> QED
      BY <2>1, <2>2, <2>3, EntryStep, ProfileIdleType
  <1>2. CASE P!UpdateInvalidate(r) \/ P!DeleteInvalidate(r)
    <2>1. /\ caching[r].pc \in P!Renewing /\ caching' = [caching EXCEPT ![r] = P!Idle]
          /\ entry' = [entry EXCEPT ![caching[r].user] = 0]
          /\ excused' = [excused EXCEPT ![caching[r].user] = FALSE]
          /\ UNCHANGED <<row, sub>>
      BY <1>2 DEF P!UpdateInvalidate, P!DeleteInvalidate, P!Renewing, P!Invalidating, P!At, P!Drop, P!Finish
    <2> QED
      BY <2>1, EntryStep, ProfileIdleType DEF P!Renewing, P!Invalidating
  <1>3. CASE P!VerifyInvalidate(r)
    <2>1. /\ caching[r].pc = "verify.invalidate" /\ P!Goto(r, "login.put")
          /\ entry' = [entry EXCEPT ![caching[r].user] = 0]
          /\ excused' = [excused EXCEPT ![caching[r].user] = FALSE]
          /\ UNCHANGED <<row, sub>>
      BY <1>3 DEF P!VerifyInvalidate, P!At, P!Drop
    <2>2. PICK q \in P!Request : q.user \in Users /\ caching' = [caching EXCEPT ![r] = q]
      BY <2>1, ProfileReqGoto DEF ProfilesInv, P!Await
    <2> QED
      BY <2>1, <2>2, EntryStep
  <1> QED
    BY <1>1, <1>2, <1>3

\* The writes to the Subscription row.
LEMMA SubscriptionActions ==
  ASSUME P!ProfilesAssumption, ProfilesInv, NEW r \in MoreSlots,
         P!BuyUpdate(r) \/ P!BuyCreate(r) \/ P!CancelUpdate(r)
  PROVE  ProfilesInv'
  BY SubscribeStep DEF P!BuyUpdate, P!BuyCreate, P!CancelUpdate, P!At, P!Status, P!Renewing, P!Invalidating

\* Writes that no invalidation follows.
LEMMA AdminActions ==
  ASSUME P!ProfilesAssumption, ProfilesInv, NEW u \in Users, P!UpdateAdmin(u) \/ P!RemoveAdmin(u)
  PROVE  ProfilesInv'
  <1>1. CASE P!UpdateAdmin(u)
    <2>1. P!Write(u) /\ P!Silently(u) /\ UNCHANGED <<sub, entry, caching>>
      BY <1>1 DEF P!UpdateAdmin
    <2>2. /\ row[u] # 0 /\ row[u] + 1 \in P!Versions /\ row' \in [Users -> P!Versions \cup {0}]
          /\ \A w \in Users : row'[w] = IF w = u THEN row[u] + 1 ELSE row[w]
      BY <2>1, Written DEF ProfilesInv
    <2>3. sub' \in [Users -> P!Status] /\ \A w \in Users : row'[w] = 0 => sub'[w] = "none"
      BY <2>1, <2>2 DEF ProfilesInv, P!TypeOK, P!Versions
    <2> QED
      BY <2>1, <2>2, <2>3, SilentStep
  <1>2. CASE P!RemoveAdmin(u)
    <2>1. /\ row' = [row EXCEPT ![u] = 0] /\ sub' = [sub EXCEPT ![u] = "none"]
          /\ P!Silently(u) /\ UNCHANGED <<entry, caching>>
      BY <1>2 DEF P!RemoveAdmin, P!DeleteRow
    <2>2. /\ row' \in [Users -> P!Versions \cup {0}] /\ sub' \in [Users -> P!Status]
          /\ \A w \in Users : w # u => row'[w] = row[w]
          /\ \A w \in Users : row'[w] = 0 => sub'[w] = "none"
      BY <2>1 DEF ProfilesInv, P!TypeOK, P!Status
    <2> QED
      BY <2>1, <2>2, SilentStep
  <1> QED
    BY <1>1, <1>2

\* An entry that is gone is not outdated.
LEMMA EntryExpiresStep ==
  ASSUME ProfilesInv, NEW u \in Users, P!EntryExpires(u)
  PROVE  ProfilesInv'
  <1>1. /\ entry' = [entry EXCEPT ![u] = 0] /\ excused' = [excused EXCEPT ![u] = FALSE]
        /\ UNCHANGED <<row, sub, caching>>
    BY DEF P!EntryExpires, P!Drop
  <1>2. P!TypeOK'
    BY <1>1 DEF ProfilesInv, P!TypeOK
  <1>3. P!StaleIsExplained'
    BY <1>1 DEF ProfilesInv, P!TypeOK, P!StaleIsExplained, P!Outdated
  <1> QED
    BY <1>2, <1>3 DEF ProfilesInv

\* An invalidation, or a put, that is lost excuses the entry that stays.
LEMMA ProfilesFailStep ==
  ASSUME ProfilesInv, NEW r \in MoreSlots, P!Fail(r)
  PROVE  ProfilesInv'
  <1> DEFINE u == caching[r].user
             x == excused[u] \/ P!Outdated(u)
  <1>1. caching[r] # P!Idle /\ UNCHANGED <<row, sub, entry>> /\ u \in Users
    BY DEF P!Fail, ProfilesInv, P!TypeOK
  <1>2. PICK q \in P!Request : (q = P!Idle \/ q.user \in Users) /\ caching' = [caching EXCEPT ![r] = q]
    BY ProfileIdleType, ProfileReqGoto DEF P!Fail, P!Finish, P!At, ProfilesInv, P!Await
  <1>3. /\ caching' \in [MoreSlots -> P!Request]
        /\ \A s \in MoreSlots : caching'[s] = IF s = r THEN q ELSE caching[s]
    BY <1>2 DEF ProfilesInv, P!TypeOK
  <1>4. CASE caching[r].pc \notin P!Renewing
    BY <1>1, <1>2, <1>4, ProfileQuietStep DEF P!Fail
  <1>5. CASE caching[r].pc \in P!Renewing
    <2>1. excused' = [excused EXCEPT ![u] = x]
      BY <1>5 DEF P!Fail
    <2>2. x \in BOOLEAN /\ (P!Outdated(u) => x) /\ (excused[u] => x)
      BY <1>1 DEF ProfilesInv, P!TypeOK
    <2> HIDE DEF x
    <2>3. /\ excused' \in [Users -> BOOLEAN]
          /\ \A w \in Users : excused'[w] = IF w = u THEN x ELSE excused[w]
      BY <1>1, <2>1, <2>2 DEF ProfilesInv, P!TypeOK
    <2>4. P!TypeOK'
      BY <1>1, <1>2, <1>3, <2>3 DEF ProfilesInv, P!TypeOK
    <2>5. P!StaleIsExplained'
      BY <1>1, <1>3, <2>2, <2>3 DEF ProfilesInv, P!StaleIsExplained, P!Outdated
    <2> QED
      BY <2>4, <2>5 DEF ProfilesInv
  <1> QED
    BY <1>4, <1>5

\* Every step keeps it.
LEMMA ProfilesNext == P!ProfilesAssumption /\ ProfilesInv /\ [P!Next]_(P!vars) => ProfilesInv'
  <1> SUFFICES ASSUME P!ProfilesAssumption, ProfilesInv, [P!Next]_(P!vars) PROVE ProfilesInv'
    OBVIOUS
  <1>1. CASE UNCHANGED P!vars
    BY <1>1 DEF P!vars, ProfilesInv, P!TypeOK, P!StaleIsExplained, P!Outdated
  <1> QED
    BY <1>1, QuietActions, WriterActions, EntryActions, SubscriptionActions, AdminActions,
       EntryExpiresStep, ProfilesFailStep DEF P!Next

-----------------------------------------------------------------------------
(* Presence *)

\* A socket that was opened belongs to a user, one that is open has its handshake
\* before or behind it, and one that is closed has, or had, a disconnection.
SocketFits(q) ==
  /\ q.link # "unborn" => q.user \in MoreUsers
  /\ q.link = "asking" => q.down = "idle"
  /\ q.link = "open" => q.up \in {"find", "write", "done"}
  /\ q.link = "closed" => q.down # "idle" /\ q.up \in {"find", "write", "done", "failed"}
SocketsFit == \A s \in Ids : SocketFits(socket[s])

\* Who is online has a socket, or one whose disconnection is about to be written.
OnlineHasSocket ==
  \A u \in MoreUsers \ deleted : online[u] /\ ~byHand[u] /\ ghost[u] = {} =>
     \E s \in Ids : /\ socket[s].user = u
                    /\ socket[s].link = "open" \/ (socket[s].link = "closed" /\ socket[s].down = "write")

\* Who has a socket whose handshake is over is online, unless the disconnection of
\* another one was written since.
Overtaken(s) ==
  \E o \in Ids \ {s} : /\ socket[o].user = socket[s].user /\ socket[o].link = "closed"
                       /\ <<o, s>> \in over
SocketIsOnline ==
  \A s \in Ids : LET u == socket[s].user IN
     socket[s].link = "open" /\ socket[s].up = "done" /\ u \notin deleted =>
        online[u] \/ byHand[u] \/ Overtaken(s)

\* What every state satisfies.
PresenceInv == O!TypeOK /\ SocketsFit /\ OnlineHasSocket /\ SocketIsOnline

\* It holds without sockets.
LEMMA PresenceInit == O!Init => PresenceInv
  BY DEF O!Init, PresenceInv, O!TypeOK, SocketsFit, SocketFits, OnlineHasSocket, SocketIsOnline,
         O!Unborn, O!Socket

\* Nothing takes back that a socket was overtaken.
LEMMA OvertakenStays ==
  ASSUME NEW s \in Ids, Overtaken(s), over \subseteq over', socket'[s].user = socket[s].user,
         \A o \in Ids : socket[o].link = "closed" =>
            socket'[o].link = "closed" /\ socket'[o].user = socket[o].user
  PROVE  Overtaken(s)'
  <1>1. PICK o \in Ids \ {s} : /\ socket[o].user = socket[s].user /\ socket[o].link = "closed"
                              /\ <<o, s>> \in over
    BY DEF Overtaken
  <1>2. socket'[o].user = socket'[s].user /\ socket'[o].link = "closed" /\ <<o, s>> \in over'
    BY <1>1
  <1> QED
    BY <1>2 DEF Overtaken

\* One socket goes on.
LEMMA SocketStep ==
  ASSUME PresenceInv, NEW s \in Ids, NEW q \in O!Socket, socket' = [socket EXCEPT ![s] = q],
         q.link # "unborn", SocketFits(q),
         q.link = "asking" => q.up = "auth", q.link = "open" => q.down = "idle"
  PROVE  /\ socket' \in [Ids -> O!Socket]
         /\ \A o \in Ids : socket'[o] = IF o = s THEN q ELSE socket[o]
         /\ SocketsFit'
         /\ \A o \in Ids : /\ socket'[o].link = "unborn" <=> socket'[o] = O!Unborn
                           /\ socket'[o].link = "open" => socket'[o].down = "idle"
                           /\ socket'[o].link = "asking" => socket'[o].up = "auth"
  <1>1. socket' \in [Ids -> O!Socket] /\ \A o \in Ids : socket'[o] = IF o = s THEN q ELSE socket[o]
    BY DEF PresenceInv, O!TypeOK
  <1>2. SocketsFit'
    BY <1>1 DEF PresenceInv, SocketsFit, SocketFits
  <1>3. q # O!Unborn
    BY DEF O!Unborn
  <1> QED
    BY <1>1, <1>2, <1>3 DEF PresenceInv, O!TypeOK

\* One socket goes on and the rows stay: it does not open with its handshake over,
\* nor does a socket go without a disconnection to be written.
LEMMA PresenceQuietStep ==
  ASSUME PresenceInv, NEW s \in Ids, NEW q \in O!Socket, socket' = [socket EXCEPT ![s] = q],
         q.link # "unborn", SocketFits(q),
         q.link = "asking" => q.up = "auth", q.link = "open" => q.down = "idle",
         socket[s].user = q.user \/ socket[s].link = "unborn",
         socket[s].link = "open" => q.link = "open" \/ (q.link = "closed" /\ q.down = "write"),
         socket[s].link = "closed" => q.link = "closed" /\ (socket[s].down = "write" => q.down = "write"),
         q.link = "open" => q.up # "done",
         UNCHANGED <<online, deleted, ghost, byHand, over>>
  PROVE  PresenceInv'
  <1>1. /\ socket' \in [Ids -> O!Socket]
        /\ \A o \in Ids : socket'[o] = IF o = s THEN q ELSE socket[o]
        /\ SocketsFit'
        /\ \A o \in Ids : /\ socket'[o].link = "unborn" <=> socket'[o] = O!Unborn
                          /\ socket'[o].link = "open" => socket'[o].down = "idle"
                          /\ socket'[o].link = "asking" => socket'[o].up = "auth"
    BY SocketStep
  <1>2. O!TypeOK'
    BY <1>1 DEF PresenceInv, O!TypeOK
  <1>3. OnlineHasSocket'
    BY <1>1 DEF PresenceInv, OnlineHasSocket
  <1>4. SocketIsOnline'
    <2> SUFFICES ASSUME NEW o \in Ids, socket'[o].link = "open", socket'[o].up = "done",
                        socket'[o].user \notin deleted
                 PROVE  online[socket'[o].user] \/ byHand[socket'[o].user] \/ Overtaken(o)'
      BY DEF SocketIsOnline
    <2>1. o # s /\ socket'[o] = socket[o]
      BY <1>1
    <2>2. \A w \in Ids : socket[w].link = "closed" =>
             socket'[w].link = "closed" /\ socket'[w].user = socket[w].user
      BY <1>1
    <2>3. Overtaken(o) => Overtaken(o)'
      BY <2>1, <2>2, OvertakenStays
    <2> QED
      BY <2>1, <2>3 DEF PresenceInv, SocketIsOnline
  <1> QED
    BY <1>1, <1>2, <1>3, <1>4 DEF PresenceInv

\* Steps before isOnline is set to true.
LEMMA ConnectActions ==
  ASSUME PresenceInv, NEW s \in Ids,
         \/ \E u \in MoreUsers : O!Knock(s, u)
         \/ O!Connect(s) \/ O!ConnectRefused(s) \/ O!ConnectRead(s)
         \/ O!ConnectFails(s) \/ O!ConnectFailsLate(s) \/ O!Close(s)
  PROVE  PresenceInv'
  <1>1. socket[s] \in O!Socket /\ socket \in [Ids -> O!Socket] /\ SocketFits(socket[s])
    BY DEF PresenceInv, O!TypeOK, SocketsFit
  <1>2. CASE \E u \in MoreUsers : O!Knock(s, u)
    <2>1. PICK u \in MoreUsers : O!Knock(s, u)
      BY <1>2
    <2> DEFINE q == [O!Unborn EXCEPT !.user = u, !.link = "asking", !.up = "auth"]
    <2>2. q \in O!Socket /\ q.user = u /\ q.link = "asking" /\ q.up = "auth" /\ q.down = "idle"
      BY DEF O!Socket, O!Unborn
    <2>3. socket' = [socket EXCEPT ![s] = q] /\ UNCHANGED <<online, deleted, ghost, byHand, over>>
      BY <2>1 DEF O!Knock
    <2>4. socket[s].link = "unborn"
      <3>1. socket[s] = O!Unborn
        BY <2>1 DEF O!Knock
      <3> QED
        BY <3>1 DEF O!Unborn
    <2> HIDE DEF q
    <2> QED
      BY <2>2, <2>3, <2>4, PresenceQuietStep DEF SocketFits
  <1>3. CASE O!Connect(s)
    <2> DEFINE q == [socket[s] EXCEPT !.link = "open", !.up = "find"]
    <2>1. /\ q \in O!Socket /\ q.user = socket[s].user /\ q.link = "open" /\ q.up = "find"
          /\ q.down = socket[s].down
      BY <1>1 DEF O!Socket
    <2>2. socket[s].link = "asking" /\ UNCHANGED <<online, deleted, ghost, byHand, over>>
          /\ socket' = [socket EXCEPT ![s] = q]
      BY <1>1, <1>3 DEF O!Connect, O!Socket
    <2> HIDE DEF q
    <2> QED
      BY <1>1, <2>1, <2>2, PresenceQuietStep DEF SocketFits
  <1>4. CASE O!ConnectRefused(s)
    <2> DEFINE q == [socket[s] EXCEPT !.link = "closed", !.up = "failed", !.down = "done"]
    <2>1. /\ q \in O!Socket /\ q.user = socket[s].user /\ q.link = "closed" /\ q.up = "failed"
          /\ q.down = "done"
      BY <1>1 DEF O!Socket
    <2>2. socket[s].link = "asking" /\ UNCHANGED <<online, deleted, ghost, byHand, over>>
          /\ socket' = [socket EXCEPT ![s] = q]
      BY <1>1, <1>4 DEF O!ConnectRefused, O!Socket
    <2> HIDE DEF q
    <2> QED
      BY <1>1, <2>1, <2>2, PresenceQuietStep DEF SocketFits
  <1>5. CASE O!ConnectRead(s)
    <2> DEFINE q == [socket[s] EXCEPT !.up = "write"]
    <2>1. q \in O!Socket /\ q.user = socket[s].user /\ q.link = socket[s].link /\ q.up = "write"
          /\ q.down = socket[s].down
      BY <1>1 DEF O!Socket
    <2>2. socket[s].up = "find" /\ UNCHANGED <<online, deleted, ghost, byHand, over>>
          /\ socket' = [socket EXCEPT ![s] = q]
      BY <1>1, <1>5 DEF O!ConnectRead
    <2>3. /\ socket[s].link \in {"open", "closed"}
          /\ (socket[s].link = "open" => socket[s].down = "idle")
      BY <1>1, <2>2 DEF PresenceInv, O!TypeOK, O!Socket, O!Unborn
    <2> HIDE DEF q
    <2> QED
      BY <1>1, <2>1, <2>2, <2>3, PresenceQuietStep DEF SocketFits
  <1>6. CASE O!ConnectFails(s)
    <2> DEFINE q == [socket[s] EXCEPT !.up = "failed", !.link = "closed",
                                      !.down = IF socket[s].link = "open" THEN "write" ELSE socket[s].down]
    <2>1. q \in O!Socket /\ q.user = socket[s].user /\ q.link = "closed" /\ q.up = "failed"
          /\ q.down = IF socket[s].link = "open" THEN "write" ELSE socket[s].down
      BY <1>1 DEF O!Socket
    <2>2. socket[s].up \in {"find", "write"} /\ UNCHANGED <<online, deleted, ghost, byHand, over>>
          /\ socket' = [socket EXCEPT ![s] = q]
      BY <1>1, <1>6 DEF O!ConnectFails, O!Socket
    <2>3. /\ socket[s].link \in {"open", "closed"}
          /\ (socket[s].link = "open" => socket[s].down = "idle")
      BY <1>1, <2>2 DEF PresenceInv, O!TypeOK, O!Socket, O!Unborn
    <2> HIDE DEF q
    <2> QED
      BY <1>1, <2>1, <2>2, <2>3, PresenceQuietStep DEF SocketFits
  <1>7. CASE O!ConnectFailsLate(s) \/ O!Close(s)
    <2>1. PICK raised \in {"find", "write", "done", "failed"} :
             /\ socket[s].link = "open" /\ UNCHANGED <<online, deleted, ghost, byHand, over>>
             /\ socket' = [socket EXCEPT ![s] = [socket[s] EXCEPT !.up = raised, !.link = "closed", !.down = "write"]]
      <3>1. CASE O!ConnectFailsLate(s)
        BY <1>1, <3>1 DEF O!ConnectFailsLate, O!Socket
      <3>2. CASE O!Close(s)
        <4>1. socket[s].up \in {"find", "write", "done", "failed"} /\ socket[s].link = "open"
          BY <1>1, <3>2 DEF O!Close, SocketFits
        <4>2. [socket[s] EXCEPT !.link = "closed", !.down = "write"]
                 = [socket[s] EXCEPT !.up = socket[s].up, !.link = "closed", !.down = "write"]
          BY <1>1 DEF O!Socket
        <4> QED
          BY <1>1, <3>2, <4>1, <4>2 DEF O!Close
      <3> QED
        BY <1>7, <3>1, <3>2
    <2> DEFINE q == [socket[s] EXCEPT !.up = raised, !.link = "closed", !.down = "write"]
    <2>2. /\ q \in O!Socket /\ q.user = socket[s].user /\ q.link = "closed" /\ q.up = raised
          /\ q.down = "write"
      BY <1>1 DEF O!Socket
    <2> HIDE DEF q
    <2> QED
      BY <1>1, <2>1, <2>2, PresenceQuietStep DEF SocketFits, q
  <1> QED
    BY <1>2, <1>3, <1>4, <1>5, <1>6, <1>7

\* isOnline as setUserStatus or a handler of sockets writes it.
LEMMA StatusWritten ==
  ASSUME O!TypeOK, NEW u \in MoreUsers, NEW on \in BOOLEAN, NEW hand \in BOOLEAN,
         NEW why \in SUBSET {"overtaken", "failed", "restart"}, O!SetStatus(u, on, hand, why)
  PROVE  /\ u \notin deleted /\ deleted' = deleted
         /\ online' \in [MoreUsers -> BOOLEAN] /\ byHand' \in [MoreUsers -> BOOLEAN]
         /\ ghost' \in [MoreUsers -> SUBSET {"overtaken", "failed", "restart"}]
         /\ online'[u] = on /\ ghost'[u] = why /\ byHand'[u] = hand
         /\ \A w \in MoreUsers \ {u} : online'[w] = online[w] /\ ghost'[w] = ghost[w] /\ byHand'[w] = byHand[w]
  BY DEF O!TypeOK, O!SetStatus

\* The socket is the one that makes its user online.
LEMMA ConnectWriteStep ==
  ASSUME PresenceInv, NEW s \in Ids, O!ConnectWrite(s)
  PROVE  PresenceInv'
  <1> DEFINE u == socket[s].user
             q == [socket[s] EXCEPT !.up = "done"]
             why == IF socket[s].down = "done" THEN {"overtaken"} ELSE {}
  <1>1. /\ socket[s] \in O!Socket /\ socket \in [Ids -> O!Socket] /\ SocketFits(socket[s])
        /\ socket[s].up = "write" /\ socket' = [socket EXCEPT ![s] = q]
        /\ O!SetStatus(u, TRUE, FALSE, why) /\ over' = over
    BY DEF O!ConnectWrite, PresenceInv, O!TypeOK, SocketsFit
  <1>2. /\ q \in O!Socket /\ q.user = u /\ q.link = socket[s].link /\ q.up = "done"
        /\ q.down = socket[s].down
    BY <1>1 DEF O!Socket
  <1>3. socket[s].link \in {"open", "closed"} /\ (socket[s].link = "open" => socket[s].down = "idle")
        /\ u \in MoreUsers
    BY <1>1 DEF PresenceInv, O!TypeOK, O!Socket, O!Unborn, SocketFits
  <1>4. why \in SUBSET {"overtaken", "failed", "restart"} /\ (socket[s].down = "done" => why # {})
    OBVIOUS
  <1> HIDE DEF q, why
  <1>5. /\ u \notin deleted /\ deleted' = deleted
        /\ online' \in [MoreUsers -> BOOLEAN] /\ byHand' \in [MoreUsers -> BOOLEAN]
        /\ ghost' \in [MoreUsers -> SUBSET {"overtaken", "failed", "restart"}]
        /\ online'[u] = TRUE /\ ghost'[u] = why /\ byHand'[u] = FALSE
        /\ \A w \in MoreUsers \ {u} : online'[w] = online[w] /\ ghost'[w] = ghost[w] /\ byHand'[w] = byHand[w]
    BY <1>1, <1>3, <1>4, StatusWritten DEF PresenceInv
  <1>6. /\ socket' \in [Ids -> O!Socket]
        /\ \A o \in Ids : socket'[o] = IF o = s THEN q ELSE socket[o]
        /\ SocketsFit'
        /\ \A o \in Ids : /\ socket'[o].link = "unborn" <=> socket'[o] = O!Unborn
                          /\ socket'[o].link = "open" => socket'[o].down = "idle"
                          /\ socket'[o].link = "asking" => socket'[o].up = "auth"
    BY <1>1, <1>2, <1>3, SocketStep DEF SocketFits
  <1>7. O!TypeOK'
    BY <1>1, <1>3, <1>5, <1>6 DEF PresenceInv, O!TypeOK
  <1>8. OnlineHasSocket'
    <2>1. socket[s].link = "open" \/ (socket[s].link = "closed" /\ socket[s].down \in {"write", "done"})
      BY <1>1, <1>3 DEF SocketFits, O!Socket
    <2> QED
      BY <1>2, <1>4, <1>5, <1>6, <2>1 DEF PresenceInv, OnlineHasSocket
  <1>9. SocketIsOnline'
    <2> SUFFICES ASSUME NEW o \in Ids, socket'[o].link = "open", socket'[o].up = "done",
                        socket'[o].user \notin deleted, socket'[o].user # u
                 PROVE  online'[socket'[o].user] \/ byHand'[socket'[o].user] \/ Overtaken(o)'
      BY <1>5 DEF SocketIsOnline
    <2>1. o # s /\ socket'[o] = socket[o] /\ socket[o].user \in MoreUsers
      BY <1>2, <1>6 DEF PresenceInv, SocketsFit, SocketFits
    <2>2. \A w \in Ids : socket'[w].link = socket[w].link /\ socket'[w].user = socket[w].user
      BY <1>2, <1>6
    <2>3. Overtaken(o) => Overtaken(o)'
      BY <1>1, <2>2, OvertakenStays
    <2>4. /\ online'[socket[o].user] = online[socket[o].user]
          /\ byHand'[socket[o].user] = byHand[socket[o].user]
      BY <1>5, <2>1
    <2> QED
      BY <2>1, <2>3, <2>4 DEF PresenceInv, SocketIsOnline
  <1> QED
    BY <1>6, <1>7, <1>8, <1>9 DEF PresenceInv

\* What is on record of other sockets of the user explains that he is offline, or of a
\* failure that he is online.
LEMMA DisconnectStep ==
  ASSUME PresenceInv, NEW s \in Ids, O!DisconnectWrite(s) \/ O!DisconnectFails(s)
  PROVE  PresenceInv'
  <1> DEFINE u == socket[s].user
             q == [socket[s] EXCEPT !.down = "done"]
  <1>1. /\ socket[s] \in O!Socket /\ socket \in [Ids -> O!Socket] /\ SocketFits(socket[s])
        /\ socket[s].down = "write" /\ socket' = [socket EXCEPT ![s] = q]
    BY DEF O!DisconnectWrite, O!DisconnectFails, PresenceInv, O!TypeOK, SocketsFit
  <1>2. /\ q \in O!Socket /\ q.user = u /\ q.link = socket[s].link /\ q.up = socket[s].up
        /\ q.down = "done"
    BY <1>1 DEF O!Socket
  <1>3. socket[s].link = "closed" /\ u \in MoreUsers
    BY <1>1 DEF PresenceInv, O!TypeOK, O!Socket, O!Unborn, SocketFits
  <1> HIDE DEF q
  <1>4. /\ socket' \in [Ids -> O!Socket]
        /\ \A o \in Ids : socket'[o] = IF o = s THEN q ELSE socket[o]
        /\ SocketsFit'
        /\ \A o \in Ids : /\ socket'[o].link = "unborn" <=> socket'[o] = O!Unborn
                          /\ socket'[o].link = "open" => socket'[o].down = "idle"
                          /\ socket'[o].link = "asking" => socket'[o].up = "auth"
    BY <1>1, <1>2, <1>3, SocketStep DEF SocketFits
  <1>5. CASE O!DisconnectWrite(s)
    <2>1. /\ deleted' = deleted
          /\ online' \in [MoreUsers -> BOOLEAN] /\ byHand' \in [MoreUsers -> BOOLEAN]
          /\ ghost' \in [MoreUsers -> SUBSET {"overtaken", "failed", "restart"}]
          /\ online'[u] = FALSE /\ ghost'[u] = {} /\ byHand'[u] = FALSE
          /\ \A w \in MoreUsers \ {u} : online'[w] = online[w] /\ ghost'[w] = ghost[w] /\ byHand'[w] = byHand[w]
      BY <1>3, <1>5, StatusWritten DEF O!DisconnectWrite, PresenceInv
    <2> DEFINE beside == {o \in Ids : socket[o].user = u /\ socket[o].link = "open" /\ socket[o].up = "done"}
    <2>5. over' = over \cup {<<s, o>> : o \in beside}
      BY <1>5 DEF O!DisconnectWrite, O!Open
    <2>6. /\ over' \subseteq Ids \X Ids /\ over \subseteq over'
          /\ \A o \in beside : <<s, o>> \in over'
      BY <2>5 DEF PresenceInv, O!TypeOK
    <2>2. O!TypeOK'
      BY <1>3, <1>4, <2>1, <2>6 DEF PresenceInv, O!TypeOK
    <2>3. OnlineHasSocket'
      BY <1>2, <1>3, <1>4, <2>1 DEF PresenceInv, OnlineHasSocket
    <2>4. SocketIsOnline'
      <3> SUFFICES ASSUME NEW o \in Ids, socket'[o].link = "open", socket'[o].up = "done",
                          socket'[o].user \notin deleted
                   PROVE  online'[socket'[o].user] \/ byHand'[socket'[o].user] \/ Overtaken(o)'
        BY <2>1 DEF SocketIsOnline
      <3>1. o # s /\ socket'[o] = socket[o]
        BY <1>2, <1>3, <1>4
      <3>2. CASE socket[o].user = u
        <4>1. <<s, o>> \in over'
          BY <2>6, <3>1, <3>2
        <4>2. socket'[s].user = u /\ socket'[s].link = "closed"
          BY <1>2, <1>3, <1>4
        <4> QED
          BY <3>1, <3>2, <4>1, <4>2 DEF Overtaken
      <3>3. CASE socket[o].user # u
        <4>1. /\ online'[socket[o].user] = online[socket[o].user]
              /\ byHand'[socket[o].user] = byHand[socket[o].user]
          BY <2>1, <3>1, <3>3 DEF PresenceInv, SocketsFit, SocketFits
        <4>2. Overtaken(o) => Overtaken(o)'
          <5>1. \A w \in Ids : socket'[w].link = socket[w].link /\ socket'[w].user = socket[w].user
            BY <1>2, <1>4
          <5> QED
            BY <2>6, <5>1, OvertakenStays
        <4> QED
          BY <3>1, <4>1, <4>2 DEF PresenceInv, SocketIsOnline
      <3> QED
        BY <3>2, <3>3
    <2> QED
      BY <1>4, <2>2, <2>3, <2>4 DEF PresenceInv
  <1>6. CASE O!DisconnectFails(s)
    <2>1. /\ UNCHANGED <<online, deleted, byHand, over>>
          /\ ghost' = [ghost EXCEPT ![u] = ghost[u] \cup {"failed"}]
      BY <1>3, <1>6 DEF O!DisconnectFails, PresenceInv, O!TypeOK
    <2>2. /\ ghost' \in [MoreUsers -> SUBSET {"overtaken", "failed", "restart"}]
          /\ \A w \in MoreUsers : ghost'[w] = IF w = u THEN ghost[u] \cup {"failed"} ELSE ghost[w]
      BY <1>3, <2>1 DEF PresenceInv, O!TypeOK
    <2>3. O!TypeOK'
      BY <1>3, <1>4, <2>1, <2>2 DEF PresenceInv, O!TypeOK
    <2>4. OnlineHasSocket'
      BY <1>2, <1>3, <1>4, <2>1, <2>2 DEF PresenceInv, OnlineHasSocket
    <2>5. SocketIsOnline'
      <3> SUFFICES ASSUME NEW o \in Ids, socket'[o].link = "open", socket'[o].up = "done",
                          socket'[o].user \notin deleted
                   PROVE  online[socket'[o].user] \/ byHand[socket'[o].user] \/ Overtaken(o)'
        BY <2>1 DEF SocketIsOnline
      <3>1. /\ \A w \in Ids : socket'[w].link = socket[w].link /\ socket'[w].user = socket[w].user
            /\ socket[o].up = "done"
        BY <1>2, <1>4
      <3>2. Overtaken(o) => Overtaken(o)'
        BY <2>1, <3>1, OvertakenStays
      <3> QED
        BY <3>1, <3>2 DEF PresenceInv, SocketIsOnline
    <2> QED
      BY <1>4, <2>3, <2>4, <2>5 DEF PresenceInv
  <1> QED
    BY <1>5, <1>6

\* A user who sets his status himself is on record.
LEMMA SetUserStatusStep ==
  ASSUME PresenceInv, NEW s \in Ids, NEW on \in BOOLEAN, O!SetUserStatus(s, on)
  PROVE  PresenceInv'
  <1> DEFINE u == socket[s].user
  <1>1. u \in MoreUsers /\ UNCHANGED <<socket, over>> /\ O!SetStatus(u, on, TRUE, {})
    BY DEF O!SetUserStatus, PresenceInv, SocketsFit, SocketFits
  <1>2. /\ u \notin deleted /\ deleted' = deleted
        /\ online' \in [MoreUsers -> BOOLEAN] /\ byHand' \in [MoreUsers -> BOOLEAN]
        /\ ghost' \in [MoreUsers -> SUBSET {"overtaken", "failed", "restart"}]
        /\ online'[u] = on /\ ghost'[u] = {} /\ byHand'[u] = TRUE
        /\ \A w \in MoreUsers \ {u} : online'[w] = online[w] /\ ghost'[w] = ghost[w] /\ byHand'[w] = byHand[w]
    BY <1>1, StatusWritten DEF PresenceInv
  <1>3. O!TypeOK'
    BY <1>1, <1>2 DEF PresenceInv, O!TypeOK
  <1>4. SocketsFit' /\ OnlineHasSocket'
    BY <1>1, <1>2 DEF PresenceInv, SocketsFit, SocketFits, OnlineHasSocket
  <1>5. \A o \in Ids : Overtaken(o) => Overtaken(o)'
    BY <1>1, OvertakenStays
  <1>6. SocketIsOnline'
    BY <1>1, <1>2, <1>5 DEF PresenceInv, SocketIsOnline, SocketsFit, SocketFits
  <1> QED
    BY <1>3, <1>4, <1>6 DEF PresenceInv

\* All sockets close and their users stay online.
LEMMA RestartStep ==
  ASSUME PresenceInv, O!Restart
  PROVE  PresenceInv'
  <1>1. /\ socket' = [s \in Ids |-> IF socket[s] = O!Unborn THEN O!Unborn
                        ELSE [socket[s] EXCEPT !.link = "closed", !.up = "done", !.down = "done"]]
        /\ ghost' = [u \in MoreUsers |-> ghost[u] \cup {"restart"}]
        /\ UNCHANGED <<online, deleted, byHand, over>>
    BY DEF O!Restart
  <1>2. \A s \in Ids :
          \/ socket'[s] = O!Unborn /\ socket[s] = O!Unborn
          \/ /\ socket'[s] \in O!Socket /\ socket'[s].user = socket[s].user /\ socket'[s].user \in MoreUsers
             /\ socket'[s].link = "closed" /\ socket'[s].up = "done" /\ socket'[s].down = "done"
    BY <1>1 DEF PresenceInv, O!TypeOK, SocketsFit, SocketFits, O!Socket
  <1>3. /\ O!Unborn \in O!Socket /\ O!Unborn.link = "unborn" /\ O!Unborn.up = "idle"
        /\ O!Unborn.down = "idle"
    BY DEF O!Unborn, O!Socket
  <1>4. socket' \in [Ids -> O!Socket]
    BY <1>1, <1>2, <1>3
  <1>5. /\ ghost' \in [MoreUsers -> SUBSET {"overtaken", "failed", "restart"}]
        /\ \A u \in MoreUsers : ghost'[u] # {}
    BY <1>1 DEF PresenceInv, O!TypeOK
  <1>6. O!TypeOK'
    BY <1>1, <1>2, <1>3, <1>4, <1>5 DEF PresenceInv, O!TypeOK
  <1>7. SocketsFit'
    BY <1>2, <1>3 DEF SocketsFit, SocketFits
  <1>8. OnlineHasSocket' /\ SocketIsOnline'
    BY <1>2, <1>3, <1>5 DEF OnlineHasSocket, SocketIsOnline
  <1> QED
    BY <1>6, <1>7, <1>8 DEF PresenceInv

\* No more is said of a user whose row is gone.
LEMMA DeleteUserStep ==
  ASSUME PresenceInv, NEW u \in MoreUsers, O!DeleteUser(u)
  PROVE  PresenceInv'
  <1>1. /\ deleted' = deleted \cup {u} /\ online' = [online EXCEPT ![u] = FALSE]
        /\ UNCHANGED <<socket, ghost, byHand, over>>
    BY DEF O!DeleteUser
  <1>2. /\ online' \in [MoreUsers -> BOOLEAN]
        /\ \A w \in MoreUsers : online'[w] = IF w = u THEN FALSE ELSE online[w]
    BY <1>1 DEF PresenceInv, O!TypeOK
  <1>3. O!TypeOK'
    BY <1>1, <1>2 DEF PresenceInv, O!TypeOK
  <1>4. SocketsFit' /\ OnlineHasSocket'
    BY <1>1, <1>2 DEF PresenceInv, SocketsFit, SocketFits, OnlineHasSocket
  <1>6. \A s \in Ids : Overtaken(s) => Overtaken(s)'
    BY <1>1, OvertakenStays
  <1>5. SocketIsOnline'
    BY <1>1, <1>2, <1>6 DEF PresenceInv, SocketIsOnline, SocketsFit, SocketFits
  <1> QED
    BY <1>3, <1>4, <1>5 DEF PresenceInv

\* Every step keeps it.
LEMMA PresenceNext == PresenceInv /\ [O!Next]_(O!vars) => PresenceInv'
  <1> SUFFICES ASSUME PresenceInv, [O!Next]_(O!vars) PROVE PresenceInv'
    OBVIOUS
  <1>1. CASE UNCHANGED O!vars
    <2>1. \A s \in Ids : Overtaken(s) => Overtaken(s)'
      BY <1>1, OvertakenStays DEF O!vars
    <2> QED
      BY <1>1, <2>1
         DEF O!vars, PresenceInv, O!TypeOK, SocketsFit, SocketFits, OnlineHasSocket, SocketIsOnline
  <1> QED
    BY <1>1, ConnectActions, ConnectWriteStep, DisconnectStep, SetUserStatusStep, RestartStep,
       DeleteUserStep DEF O!Next

\* What the invariant says of a user whose sockets are at rest.
LEMMA PresenceFollows == PresenceInv => O!PresenceExplained
  <1> SUFFICES ASSUME PresenceInv, NEW u \in MoreUsers \ deleted, O!AtRest(u),
                      online[u] # (O!Open(u) # {}), ~byHand[u], ~(online[u] /\ ghost[u] # {})
               PROVE  ~online[u] /\ \A s \in O!Open(u) : \E o \in Ids \ {s} :
                            socket[o].user = u /\ <<o, s>> \in over
    BY DEF O!PresenceExplained
  <1>1. CASE online[u]
    <2>1. PICK s \in Ids : /\ socket[s].user = u
                           /\ socket[s].link = "open" \/ (socket[s].link = "closed" /\ socket[s].down = "write")
      BY <1>1 DEF PresenceInv, OnlineHasSocket
    <2>2. \A w \in Ids : socket[w].user = u => socket[w].down # "write"
      BY DEF O!AtRest
    <2>3. s \in O!Open(u)
      BY <2>1, <2>2 DEF O!Open
    <2> QED
      BY <1>1, <2>3
  <1>2. CASE ~online[u]
    <2>1. ASSUME NEW s \in O!Open(u) PROVE Overtaken(s) /\ socket[s].user = u
      <3>1. s \in Ids /\ socket[s].user = u /\ socket[s].link = "open"
        BY <2>1 DEF O!Open
      <3>2. socket[s].up = "done"
        BY <3>1 DEF O!AtRest, PresenceInv, SocketsFit, SocketFits
      <3> QED
        BY <1>2, <3>1, <3>2 DEF PresenceInv, SocketIsOnline
    <2> QED
      BY <1>2, <2>1 DEF Overtaken
  <1> QED
    BY <1>1, <1>2

-----------------------------------------------------------------------------
(* Marks on messages *)

\* The module counts as this one does.
LEMMA MarksCount ==
  /\ \A s : M!Cardinality(s) = Cardinality(s)
  /\ \A s : M!IsFiniteSet(s) <=> IsFiniteSet(s)
  BY DEF M!Cardinality, Cardinality, M!IsFiniteSet, IsFiniteSet

\* A handler has written something only when it is about to tell of it.
DoneIsToBeTold == \A r \in Slots :
  /\ marking[r].done # 0 => marking[r].pc = "react.tell"
  /\ marking[r].pc # "idle" => marking[r].user \in Users

\* What every state satisfies.
MarksInv == M!TypeOK /\ DoneIsToBeTold /\ M!EventsSumUp

\* A slot without a handler.
LEMMA MarkIdleType == M!Idle \in M!Request /\ M!Idle.pc = "idle" /\ M!Idle.user = None /\ M!Idle.done = 0
  BY DEF M!Idle, M!Request

\* Handlers that have something to tell are counted.
LEMMA PendingFinite ==
  ASSUME M!MarksAssumption, NEW u, NEW c
  PROVE  IsFiniteSet(M!Pending(u, c)) /\ Cardinality(M!Pending(u, c)) \in Nat
  <1>1. M!Pending(u, c) \subseteq Slots
    BY DEF M!Pending
  <1>2. IsFiniteSet(M!Pending(u, c))
    BY MarksCount, <1>1, FS_Subset DEF M!MarksAssumption
  <1> QED
    BY <1>2, FS_CardinalityType

\* Nothing is marked or told at first.
LEMMA MarksInit == M!MarksAssumption /\ M!Init => MarksInv
  <1> SUFFICES ASSUME M!MarksAssumption, M!Init PROVE MarksInv
    OBVIOUS
  <1>1. \A r \in Slots : marking[r] = M!Idle
    BY DEF M!Init
  <1>2. M!TypeOK /\ DoneIsToBeTold
    BY MarksCount, <1>1, MarkIdleType DEF M!Init, M!TypeOK, DoneIsToBeTold, M!MarksAssumption
  <1>3. \A u \in Users : M!Pending(u, 1) = {} /\ M!Pending(u, -1) = {}
    BY <1>1, MarkIdleType DEF M!Pending
  <1>4. M!EventsSumUp
    BY MarksCount, <1>3, FS_EmptySet DEF M!Init, M!EventsSumUp, M!Row
  <1> QED
    BY <1>2, <1>4 DEF MarksInv

\* One handler goes on: what it may add to the reactions that are to be told.
LEMMA PendingAfter ==
  ASSUME M!MarksAssumption, M!TypeOK, NEW r \in Slots, NEW q \in M!Request, marking' = [marking EXCEPT ![r] = q],
         NEW u \in Users, NEW c \in {-1, 1}
  PROVE  Cardinality(M!Pending(u, c)') =
           Cardinality(M!Pending(u, c))
             - (IF marking[r].user = u /\ marking[r].done = c THEN 1 ELSE 0)
             + (IF q.user = u /\ q.done = c THEN 1 ELSE 0)
  <1> DEFINE old == M!Pending(u, c)
             new == M!Pending(u, c)'
             others == old \ {r}
  <1>1. \A s \in Slots : marking'[s] = IF s = r THEN q ELSE marking[s]
    BY DEF M!TypeOK
  <1>2. old = IF marking[r].user = u /\ marking[r].done = c THEN others \cup {r} ELSE others
    BY DEF M!Pending
  <1>3. new = IF q.user = u /\ q.done = c THEN others \cup {r} ELSE others
    BY <1>1 DEF M!Pending
  <1>4. IsFiniteSet(others) /\ r \notin others /\ Cardinality(others) \in Nat
    BY PendingFinite, FS_Subset, FS_CardinalityType
  <1>5. Cardinality(others \cup {r}) = Cardinality(others) + 1
    BY <1>4, FS_AddElement
  <1> HIDE DEF old, new, others
  <1>6. Cardinality(new) = Cardinality(old)
             - (IF marking[r].user = u /\ marking[r].done = c THEN 1 ELSE 0)
             + (IF q.user = u /\ q.done = c THEN 1 ELSE 0)
    BY <1>2, <1>3, <1>4, <1>5
  <1> QED
    BY <1>6 DEF old, new

\* A handler that writes, or tells, nothing of reactions.
LEMMA RowStep ==
  ASSUME M!MarksAssumption, MarksInv, NEW r \in Slots, NEW q \in M!Request, marking' = [marking EXCEPT ![r] = q],
         marking[r].done = 0, q.done = 0, q.pc # "idle" => q.user \in Users,
         UNCHANGED <<reacted, told, untold, events>>,
         \/ UNCHANGED <<status, member, marks>>
         \/ M!There /\ status' \in {status, "ACTIVE"},
         member' \in [Users -> {"none", "flagged", "plain"}],
         marks' \in [Users -> SUBSET {"READ", "deleted"}]
  PROVE  MarksInv'
  <1>1. /\ marking' \in [Slots -> M!Request]
        /\ \A s \in Slots : marking'[s] = IF s = r THEN q ELSE marking[s]
    BY DEF MarksInv, M!TypeOK
  <1>2. M!TypeOK'
    BY <1>1 DEF MarksInv, M!TypeOK, M!There
  <1>3. DoneIsToBeTold'
    BY <1>1 DEF MarksInv, DoneIsToBeTold
  <1>4. \A u \in Users, c \in {-1, 1} : Cardinality(M!Pending(u, c)') = Cardinality(M!Pending(u, c))
    <2> SUFFICES ASSUME NEW u \in Users, NEW c \in {-1, 1}
                 PROVE  Cardinality(M!Pending(u, c)') = Cardinality(M!Pending(u, c))
      OBVIOUS
    <2>1. Cardinality(M!Pending(u, c)) \in Nat /\ marking[r].done # c /\ q.done # c
      BY PendingFinite
    <2>2. Cardinality(M!Pending(u, c)') =
             Cardinality(M!Pending(u, c))
               - (IF marking[r].user = u /\ marking[r].done = c THEN 1 ELSE 0)
               + (IF q.user = u /\ q.done = c THEN 1 ELSE 0)
      BY PendingAfter DEF MarksInv, M!Pending
    <2> QED
      BY <2>1, <2>2
  <1>5. M!There' => M!There
    BY DEF M!There
  <1>6. M!EventsSumUp'
    BY MarksCount, <1>4, <1>5 DEF MarksInv, M!EventsSumUp, M!Row
  <1> QED
    BY <1>2, <1>3, <1>6 DEF MarksInv

\* The type of a handler, and what Goto, Begin and Finish make of it.
LEMMA MarkReqGoto ==
  ASSUME M!TypeOK, NEW r \in Slots, NEW where \in M!Await, M!Goto(r, where)
  PROVE  \E q \in M!Request : /\ q.user = marking[r].user /\ q.done = marking[r].done /\ q.pc = where
                              /\ marking' = [marking EXCEPT ![r] = q]
  <1> DEFINE q == [marking[r] EXCEPT !.pc = where]
  <1>1. marking[r] \in M!Request /\ marking' = [marking EXCEPT ![r] = q]
    BY DEF M!TypeOK, M!Goto
  <1>2. q \in M!Request /\ q.user = marking[r].user /\ q.done = marking[r].done /\ q.pc = where
    BY <1>1 DEF M!Request
  <1> QED
    BY <1>1, <1>2

\* A handler begins with nothing to tell.
LEMMA MarkReqBegin ==
  ASSUME NEW r \in Slots, NEW u \in Users, NEW where \in M!Await, M!Begin(r, u, where)
  PROVE  \E q \in M!Request : /\ q.user = u /\ q.done = 0 /\ q.pc = where
                              /\ marking[r] = M!Idle /\ marking' = [marking EXCEPT ![r] = q]
  <1> DEFINE q == [M!Idle EXCEPT !.pc = where, !.user = u]
  <1>1. marking[r] = M!Idle /\ marking' = [marking EXCEPT ![r] = q]
    BY DEF M!Begin
  <1>2. q \in M!Request /\ q.user = u /\ q.done = 0 /\ q.pc = where
    BY MarkIdleType DEF M!Request, M!Idle
  <1> HIDE DEF q
  <1> QED
    BY <1>1, <1>2

\* A handler begins with the flag of a member row.
LEMMA MemberType ==
  ASSUME M!TypeOK, NEW u \in Users, M!GetMember(u)
  PROVE  M!There /\ member' \in [Users -> {"none", "flagged", "plain"}]
  BY DEF M!TypeOK, M!GetMember

\* Steps in which a handler begins.
LEMMA BeginActions ==
  ASSUME M!MarksAssumption, MarksInv, NEW r \in Slots, NEW u \in Users,
         \/ \E tells \in BOOLEAN : M!ReactRead(r, u, tells)
         \/ M!RemoveRead(r, u) \/ M!HideRead(r, u) \/ M!ReadRead(r, u)
         \/ M!AcceptRead(r, u) \/ M!DeclineRead(r, u) \/ M!DeleteRead(r, u)
  PROVE  MarksInv'
  <1>0. CASE \E tells \in BOOLEAN : M!ReactRead(r, u, tells)
    <2>1. PICK tells \in BOOLEAN : M!ReactRead(r, u, tells)
      BY <1>0
    <2> DEFINE q == [M!Idle EXCEPT !.pc = "react.member", !.user = u, !.tells = tells]
    <2>2. /\ marking[r] = M!Idle /\ marking' = [marking EXCEPT ![r] = q]
          /\ UNCHANGED <<reacted, told, untold, events, status, member, marks>>
      BY <2>1 DEF M!ReactRead, M!rows, M!history
    <2>3. q \in M!Request /\ q.user = u /\ q.done = 0
      BY MarkIdleType DEF M!Request, M!Idle, M!Await
    <2> HIDE DEF q
    <2> QED
      BY <2>2, <2>3, MarkIdleType, RowStep DEF MarksInv, M!TypeOK
  <1> SUFFICES ASSUME \/ M!RemoveRead(r, u) \/ M!HideRead(r, u) \/ M!ReadRead(r, u)
                      \/ M!AcceptRead(r, u) \/ M!DeclineRead(r, u) \/ M!DeleteRead(r, u)
               PROVE  MarksInv'
    BY <1>0
  <1>1. PICK where \in M!Await : M!Begin(r, u, where) /\ UNCHANGED <<M!rows, M!history>>
    BY DEF M!RemoveRead, M!HideRead, M!ReadRead, M!AcceptRead, M!DeclineRead, M!DeleteRead, M!Await
  <1>2. PICK q \in M!Request : q.user = u /\ q.done = 0 /\ marking[r] = M!Idle /\ marking' = [marking EXCEPT ![r] = q]
    BY <1>1, MarkReqBegin
  <1>3. UNCHANGED <<reacted, told, untold, events, status, member, marks>>
    BY <1>1 DEF M!rows, M!history
  <1> QED
    BY <1>2, <1>3, MarkIdleType, RowStep DEF MarksInv, M!TypeOK

\* A handler begins once it has read the flag.
LEMMA FlagReadStep ==
  ASSUME M!MarksAssumption, MarksInv, NEW r \in Slots, NEW u \in Users, M!FlagRead(r, u)
  PROVE  MarksInv'
  <1>1. PICK value \in BOOLEAN :
           /\ marking[r] = M!Idle /\ M!GetMember(u)
           /\ UNCHANGED <<status, reacted, marks, M!history>>
           /\ marking' = [marking EXCEPT ![r] = [M!Idle EXCEPT !.pc = "flag.write", !.user = u, !.flag = value]]
    BY DEF M!FlagRead
  <1> DEFINE q == [M!Idle EXCEPT !.pc = "flag.write", !.user = u, !.flag = value]
  <1>2. q \in M!Request /\ q.user = u /\ q.done = 0
    BY MarkIdleType DEF M!Idle, M!Request, M!Await
  <1>3. UNCHANGED <<reacted, told, untold, events, status, marks>> /\ marking' = [marking EXCEPT ![r] = q]
    BY <1>1 DEF M!history
  <1> HIDE DEF q
  <1>4. marking[r].done = 0
    BY <1>1, MarkIdleType
  <1>5. M!There /\ member' \in [Users -> {"none", "flagged", "plain"}]
    BY <1>1, MemberType DEF MarksInv
  <1> QED
    BY <1>2, <1>3, <1>4, <1>5, RowStep DEF MarksInv, M!TypeOK

\* The reading steps of a handler that is under way.
LEMMA MarkGoActions ==
  ASSUME M!MarksAssumption, MarksInv, NEW r \in Slots,
         M!ReactMember(r) \/ M!HideMember(r) \/ M!ReactFind(r) \/ M!RemoveFind(r)
  PROVE  MarksInv'
  <1>1. marking[r] \in M!Request /\ marking[r].user \in Users /\ marking[r].done = 0
    BY DEF M!ReactMember, M!HideMember, M!ReactFind, M!RemoveFind, M!At, MarksInv, M!TypeOK,
           DoneIsToBeTold
  <1>2. CASE M!ReactMember(r) \/ M!HideMember(r)
    <2>1. PICK where \in M!Await :
             /\ M!GetMember(marking[r].user) /\ M!Goto(r, where)
             /\ UNCHANGED <<status, reacted, marks, M!history>>
      BY <1>2 DEF M!ReactMember, M!HideMember, M!Await
    <2>2. UNCHANGED <<reacted, told, untold, events, status, marks>>
      BY <2>1 DEF M!history
    <2>3. M!There /\ member' \in [Users -> {"none", "flagged", "plain"}]
      BY <1>1, <2>1, MemberType DEF MarksInv
    <2>4. PICK q \in M!Request : q.user = marking[r].user /\ q.done = marking[r].done /\ marking' = [marking EXCEPT ![r] = q]
      BY <2>1, MarkReqGoto DEF MarksInv
    <2> QED
      BY <1>1, <2>2, <2>3, <2>4, RowStep DEF MarksInv, M!TypeOK
  <1>3. CASE M!ReactFind(r) \/ M!RemoveFind(r)
    <2>1. PICK where \in M!Await :
             /\ marking' = [marking EXCEPT ![r].pc = where, ![r].gen = events[marking[r].user]]
             /\ UNCHANGED <<M!rows, M!history>>
      BY <1>3 DEF M!ReactFind, M!RemoveFind, M!Find, M!Await
    <2> DEFINE q == [marking[r] EXCEPT !.pc = where, !.gen = events[marking[r].user]]
    <2>2. events[marking[r].user] \in Int
      BY <1>1 DEF MarksInv, M!TypeOK
    <2>3. q \in M!Request /\ q.user = marking[r].user /\ q.done = 0
      BY <1>1, <2>2 DEF M!Request
    <2>4. marking' = [marking EXCEPT ![r] = q]
      BY <1>1, <2>1 DEF MarksInv, M!TypeOK, M!Request
    <2>5. UNCHANGED <<reacted, told, untold, events, status, member, marks>>
      BY <2>1 DEF M!rows, M!history
    <2> HIDE DEF q
    <2> QED
      BY <1>1, <2>3, <2>4, <2>5, RowStep DEF MarksInv, M!TypeOK
  <1> QED
    BY <1>2, <1>3

\* The last steps of handlers that write a mark, a flag or the acceptance.
LEMMA EndActions ==
  ASSUME M!MarksAssumption, MarksInv, NEW r \in Slots,
         M!HideWrite(r) \/ M!ReadWrite(r) \/ M!FlagWrite(r) \/ M!AcceptWrite(r)
  PROVE  MarksInv'
  <1>1. /\ marking[r] \in M!Request /\ marking[r].user \in Users /\ marking[r].done = 0
        /\ marking' = [marking EXCEPT ![r] = M!Idle]
    BY DEF M!HideWrite, M!ReadWrite, M!FlagWrite, M!AcceptWrite, M!Mark, M!Finish, M!At, MarksInv,
           M!TypeOK, DoneIsToBeTold
  <1>2. CASE M!HideWrite(r) \/ M!ReadWrite(r)
    <2>1. PICK how \in {"deleted", "READ"} : M!Mark(r, how)
      BY <1>2 DEF M!HideWrite, M!ReadWrite
    <2>2. /\ M!There /\ UNCHANGED <<reacted, told, untold, events, status, member>>
          /\ marks' = [marks EXCEPT ![marking[r].user] = marks[marking[r].user] \cup {how}]
      BY <2>1 DEF M!Mark, M!history
    <2>3. marks' \in [Users -> SUBSET {"READ", "deleted"}]
      BY <1>1, <2>2 DEF MarksInv, M!TypeOK
    <2> QED
      BY <1>1, <2>2, <2>3, MarkIdleType, RowStep DEF MarksInv, M!TypeOK
  <1>3. CASE M!FlagWrite(r)
    <2>1. /\ UNCHANGED <<reacted, told, untold, events, status, marks>> /\ member[marking[r].user] # "none"
          /\ member' = [member EXCEPT ![marking[r].user] = IF marking[r].flag THEN "flagged" ELSE "plain"]
      BY <1>3 DEF M!FlagWrite, M!history
    <2>2. M!There /\ member' \in [Users -> {"none", "flagged", "plain"}]
      BY <1>1, <2>1 DEF MarksInv, M!TypeOK, M!There
    <2> QED
      BY <1>1, <2>1, <2>2, MarkIdleType, RowStep DEF MarksInv, M!TypeOK
  <1>4. CASE M!AcceptWrite(r)
    <2>1. UNCHANGED <<reacted, told, untold, events, member, marks>> /\ M!There /\ status' = "ACTIVE"
      BY <1>4 DEF M!AcceptWrite, M!history
    <2> QED
      BY <1>1, <2>1, MarkIdleType, RowStep DEF MarksInv, M!TypeOK
  <1> QED
    BY <1>2, <1>3, <1>4

\* A reaction row is created or deleted, by a handler that has written nothing yet.
LEMMA WroteStep ==
  ASSUME M!MarksAssumption, MarksInv, NEW r \in Slots, NEW c \in {-1, 1},
         marking[r].pc # "idle", marking[r].done = 0,
         M!There, reacted[marking[r].user] <=> c = -1,
         M!Wrote(r, c), UNCHANGED <<status, member, marks, told>>
  PROVE  MarksInv'
  <1> DEFINE u == marking[r].user
             tells == marking[r].tells
             q == IF tells THEN [marking[r] EXCEPT !.pc = "react.tell", !.done = c] ELSE M!Idle
  <1>1. /\ marking[r] \in M!Request /\ u \in Users /\ marking \in [Slots -> M!Request]
        /\ tells \in BOOLEAN
    BY DEF MarksInv, M!TypeOK, DoneIsToBeTold, M!Request
  <1>2. /\ q \in M!Request
        /\ tells => q.user = u /\ q.done = c /\ q.pc = "react.tell"
        /\ ~tells => q.done = 0 /\ q.pc = "idle"
    BY <1>1, MarkIdleType DEF M!Request, M!Await
  <1>3. marking' = [marking EXCEPT ![r] = q]
    BY <1>1 DEF M!Wrote, M!Request, M!Finish
  <1>4. /\ events[u] < MaxEvents /\ events' = [events EXCEPT ![u] = events[u] + 1]
        /\ reacted' = [reacted EXCEPT ![u] = (c = 1)]
    BY DEF M!Wrote
  <1>12. /\ untold' \in [Users -> Int]
         /\ \A w \in Users : untold'[w] = untold[w] + (IF w = u /\ ~tells THEN c ELSE 0)
    <2>1. untold \in [Users -> Int] /\ \A w \in Users : untold[w] + 0 = untold[w]
      BY DEF MarksInv, M!TypeOK
    <2>2. CASE tells
      BY <2>1, <2>2 DEF M!Wrote
    <2>3. CASE ~tells
      <3>1. untold' = [untold EXCEPT ![u] = untold[u] + c] /\ untold[u] + c \in Int
        BY <1>1, <2>1, <2>3 DEF M!Wrote
      <3> QED
        BY <2>1, <2>3, <3>1
    <2> QED
      BY <2>2, <2>3
  <1> HIDE DEF q
  <1>5. /\ marking' \in [Slots -> M!Request]
        /\ \A s \in Slots : marking'[s] = IF s = r THEN q ELSE marking[s]
    BY <1>1, <1>2, <1>3
  <1>6. events[u] \in 0..MaxEvents /\ events[u] + 1 \in 0..MaxEvents
    BY MarksCount, <1>1, <1>4 DEF MarksInv, M!TypeOK, M!MarksAssumption
  <1>7. events' \in [Users -> 0..MaxEvents]
    BY <1>1, <1>4, <1>6 DEF MarksInv, M!TypeOK
  <1>8. /\ reacted' \in [Users -> BOOLEAN] /\ (reacted'[u] <=> c = 1)
        /\ \A w \in Users \ {u} : reacted'[w] = reacted[w]
    BY <1>1, <1>4 DEF MarksInv, M!TypeOK
  <1>9. M!TypeOK'
    BY <1>5, <1>7, <1>8, <1>12 DEF MarksInv, M!TypeOK, M!There
  <1>10. DoneIsToBeTold'
    BY <1>1, <1>2, <1>5 DEF MarksInv, DoneIsToBeTold
  <1>11. M!EventsSumUp'
    <2> SUFFICES ASSUME NEW w \in Users
                 PROVE  told[w] + Cardinality(M!Pending(w, 1)') - Cardinality(M!Pending(w, -1)')
                          + untold'[w] = IF reacted'[w] THEN 1 ELSE 0
      BY MarksCount DEF M!EventsSumUp, M!Row
    <2>1. \A x \in {-1, 1} :
             /\ Cardinality(M!Pending(w, x)) \in Nat
             /\ Cardinality(M!Pending(w, x)')
                  = Cardinality(M!Pending(w, x)) + (IF u = w /\ c = x /\ tells THEN 1 ELSE 0)
      <3> SUFFICES ASSUME NEW x \in {-1, 1}
                   PROVE  /\ Cardinality(M!Pending(w, x)) \in Nat
                          /\ Cardinality(M!Pending(w, x)')
                               = Cardinality(M!Pending(w, x))
                                   + (IF u = w /\ c = x /\ tells THEN 1 ELSE 0)
        OBVIOUS
      <3>1. Cardinality(M!Pending(w, x)) \in Nat
        BY PendingFinite
      <3>2. Cardinality(M!Pending(w, x)') =
               Cardinality(M!Pending(w, x))
                 - (IF marking[r].user = w /\ marking[r].done = x THEN 1 ELSE 0)
                 + (IF q.user = w /\ q.done = x THEN 1 ELSE 0)
        BY <1>2, <1>3, PendingAfter DEF MarksInv, M!Pending
      <3> QED
        BY <1>2, <3>1, <3>2
    <2>2. /\ told[w] \in Int /\ untold[w] \in Int
          /\ told[w] + Cardinality(M!Pending(w, 1)) - Cardinality(M!Pending(w, -1)) + untold[w]
               = IF reacted[w] THEN 1 ELSE 0
      BY MarksCount DEF MarksInv, M!TypeOK, M!EventsSumUp, M!Row
    <2>3. untold'[w] = untold[w] + (IF w = u /\ ~tells THEN c ELSE 0)
      BY <1>12
    <2>4. CASE w = u
      <3>1. (reacted[u] <=> c = -1) /\ (reacted'[u] <=> c = 1)
        BY <1>8
      <3>2. CASE c = 1
        BY <2>1, <2>2, <2>3, <2>4, <3>1, <3>2
      <3>3. CASE c = -1
        BY <2>1, <2>2, <2>3, <2>4, <3>1, <3>3
      <3> QED
        BY <3>2, <3>3
    <2>5. CASE w # u
      BY <1>8, <2>1, <2>2, <2>3, <2>5
    <2> QED
      BY <2>4, <2>5
  <1> QED
    BY <1>9, <1>10, <1>11 DEF MarksInv

\* A reaction is added or removed by its writer.
LEMMA WroteActions ==
  ASSUME M!MarksAssumption, MarksInv, NEW r \in Slots,
         M!ReactCreate(r) \/ M!ReactDelete(r) \/ M!RemoveDelete(r)
  PROVE  MarksInv'
  <1>1. /\ marking[r].pc \in {"react.create", "react.delete", "remove.delete"}
        /\ UNCHANGED <<status, member, marks, told>>
    BY DEF M!ReactCreate, M!ReactDelete, M!RemoveDelete, M!At
  <1>2. marking[r].done = 0 /\ marking[r].user \in Users
    BY <1>1 DEF MarksInv, DoneIsToBeTold, M!TypeOK
  <1>3. CASE M!ReactCreate(r)
    <2>1. M!There /\ ~reacted[marking[r].user] /\ M!Wrote(r, 1)
      BY <1>3 DEF M!ReactCreate
    <2>2. PICK c \in {-1, 1} : c = 1 /\ M!Wrote(r, c)
      BY <2>1
    <2> QED
      BY <1>1, <1>2, <2>1, <2>2, WroteStep
  <1>4. CASE M!ReactDelete(r) \/ M!RemoveDelete(r)
    <2>1. M!Wrote(r, -1) /\ reacted[marking[r].user]
      BY <1>4 DEF M!ReactDelete, M!RemoveDelete, M!Deletes
    <2>2. M!There
      BY <1>2, <2>1 DEF MarksInv, M!TypeOK, M!There
    <2>3. PICK c \in {-1, 1} : c = -1 /\ M!Wrote(r, c)
      BY <2>1
    <2> QED
      BY <1>1, <1>2, <2>1, <2>2, <2>3, WroteStep
  <1> QED
    BY <1>3, <1>4

\* What a handler has done is told, or lost with it: it is no longer to be told.
LEMMA ToldStep ==
  ASSUME M!MarksAssumption, MarksInv, NEW r \in Slots, M!ReactTell(r) \/ M!Fail(r)
  PROVE  MarksInv'
  <1> DEFINE u == marking[r].user
  <1>1. /\ marking' = [marking EXCEPT ![r] = M!Idle]
        /\ told' = [told EXCEPT ![u] = told[u] + marking[r].done]
        /\ UNCHANGED <<status, member, reacted, marks, untold, events>>
    BY DEF M!ReactTell, M!Fail, M!Finish, M!rows
  <1>2. marking[r] \in M!Request /\ (u \in Users \/ (marking[r].done = 0 /\ u \notin Users))
    BY DEF MarksInv, M!TypeOK, DoneIsToBeTold
  <1>3. /\ marking' \in [Slots -> M!Request]
        /\ \A s \in Slots : marking'[s] = IF s = r THEN M!Idle ELSE marking[s]
    BY <1>1, MarkIdleType DEF MarksInv, M!TypeOK
  <1>4. /\ told' \in [Users -> Int]
        /\ \A w \in Users : told'[w] = told[w] + (IF w = u THEN marking[r].done ELSE 0)
    <2>1. marking[r].done \in Int /\ told \in [Users -> Int]
      BY <1>2 DEF MarksInv, M!TypeOK, M!Request
    <2>2. \A w \in Users : told[w] + marking[r].done \in Int /\ told[w] + 0 = told[w]
      BY <2>1
    <2>3. \A w \in Users : told'[w] = IF w = u THEN told[w] + marking[r].done ELSE told[w]
      BY <1>1, <2>1
    <2>4. told' \in [Users -> Int]
      BY <1>1, <2>1, <2>2
    <2> QED
      BY <2>2, <2>3, <2>4
  <1>5. M!TypeOK'
    BY <1>1, <1>3, <1>4 DEF MarksInv, M!TypeOK
  <1>6. DoneIsToBeTold'
    BY <1>3, MarkIdleType DEF MarksInv, DoneIsToBeTold
  <1>7. M!EventsSumUp'
    <2> SUFFICES ASSUME NEW w \in Users, M!There
                 PROVE  told'[w] + Cardinality(M!Pending(w, 1)') - Cardinality(M!Pending(w, -1)')
                          + untold[w] = IF reacted[w] THEN 1 ELSE 0
      BY MarksCount, <1>1 DEF M!EventsSumUp, M!There, M!Row
    <2>1. \A x \in {-1, 1} :
             /\ Cardinality(M!Pending(w, x)) \in Nat
             /\ Cardinality(M!Pending(w, x)')
                  = Cardinality(M!Pending(w, x)) - (IF u = w /\ marking[r].done = x THEN 1 ELSE 0)
      <3> SUFFICES ASSUME NEW x \in {-1, 1}
                   PROVE  /\ Cardinality(M!Pending(w, x)) \in Nat
                          /\ Cardinality(M!Pending(w, x)')
                               = Cardinality(M!Pending(w, x)) - (IF u = w /\ marking[r].done = x THEN 1 ELSE 0)
        OBVIOUS
      <3>1. Cardinality(M!Pending(w, x)) \in Nat
        BY PendingFinite
      <3>2. Cardinality(M!Pending(w, x)') =
               Cardinality(M!Pending(w, x))
                 - (IF marking[r].user = w /\ marking[r].done = x THEN 1 ELSE 0)
                 + (IF M!Idle.user = w /\ M!Idle.done = x THEN 1 ELSE 0)
        BY <1>1, MarkIdleType, PendingAfter DEF MarksInv, M!Pending
      <3> QED
        BY MarkIdleType, <3>1, <3>2
    <2>2. /\ told[w] \in Int /\ untold[w] \in Int
          /\ told[w] + Cardinality(M!Pending(w, 1)) - Cardinality(M!Pending(w, -1)) + untold[w]
               = IF reacted[w] THEN 1 ELSE 0
      BY MarksCount DEF MarksInv, M!TypeOK, M!EventsSumUp, M!Row
    <2>3. marking[r].done \in {-1, 0, 1}
      BY <1>2 DEF M!Request
    <2>4. CASE w = u
      <3>1. told'[w] = told[w] + marking[r].done
        BY <1>4, <2>4
      <3> QED
        BY <2>1, <2>2, <2>3, <2>4, <3>1
    <2>5. CASE w # u
      BY <1>4, <2>1, <2>2, <2>5
    <2> QED
      BY <2>4, <2>5
  <1> QED
    BY <1>5, <1>6, <1>7 DEF MarksInv

\* With the conversation go the rows that are summed up.
LEMMA DeleteWriteStep ==
  ASSUME MarksInv, NEW r \in Slots, M!DeleteWrite(r)
  PROVE  MarksInv'
  <1>1. /\ status' = "gone" /\ member' = [u \in Users |-> "none"]
        /\ reacted' = [u \in Users |-> FALSE] /\ marks' = [u \in Users |-> {}]
        /\ marking' = [marking EXCEPT ![r] = M!Idle] /\ UNCHANGED <<told, untold, events>>
    BY DEF M!DeleteWrite, M!Finish, M!history
  <1>2. /\ marking' \in [Slots -> M!Request]
        /\ \A s \in Slots : marking'[s] = IF s = r THEN M!Idle ELSE marking[s]
    BY <1>1, MarkIdleType DEF MarksInv, M!TypeOK
  <1>3. M!TypeOK' /\ DoneIsToBeTold' /\ M!EventsSumUp'
    BY MarksCount, <1>1, <1>2, MarkIdleType
       DEF MarksInv, M!TypeOK, DoneIsToBeTold, M!EventsSumUp, M!There
  <1> QED
    BY <1>3 DEF MarksInv

\* Every step keeps it.
LEMMA MarksNext == M!MarksAssumption /\ MarksInv /\ [M!Next]_(M!vars) => MarksInv'
  <1> SUFFICES ASSUME M!MarksAssumption, MarksInv, [M!Next]_(M!vars) PROVE MarksInv'
    OBVIOUS
  <1>1. CASE UNCHANGED M!vars
    BY MarksCount, <1>1
       DEF M!vars, MarksInv, M!TypeOK, DoneIsToBeTold, M!EventsSumUp, M!Pending, M!There, M!Row,
           M!rows, M!history
  <1> QED
    BY <1>1, BeginActions, FlagReadStep, MarkGoActions, EndActions, WroteActions, ToldStep,
       DeleteWriteStep DEF M!Next

-----------------------------------------------------------------------------
(* Pages of messages and files *)

\* The module counts as this one does.
LEMMA PagesCount ==
  /\ \A s : G!Cardinality(s) = Cardinality(s)
  /\ \A s : G!IsFiniteSet(s) <=> IsFiniteSet(s)
  BY DEF G!Cardinality, Cardinality, G!IsFiniteSet, IsFiniteSet

(* Places in a set of numbered messages *)

\* Parts of a set of numbered messages are counted.
LEMMA PartCounted ==
  ASSUME NEW c \in Nat, NEW all \in SUBSET (1..c), NEW some \in SUBSET all
  PROVE  /\ IsFiniteSet(all) /\ IsFiniteSet(some)
         /\ Cardinality(all) \in Nat /\ Cardinality(some) \in Nat
         /\ Cardinality(some) <= Cardinality(all)
  <1>1. IsFiniteSet(1..c)
    BY FS_Interval
  <1> QED
    BY <1>1, FS_Subset, FS_CardinalityType

\* The place of m in V, newest first.
PlaceIn(all, m) == Cardinality({n \in all : n >= m})

\* A place is a number.
LEMMA PlaceType ==
  ASSUME NEW c \in Nat, NEW all \in SUBSET (1..c), NEW m
  PROVE  PlaceIn(all, m) \in Nat /\ PlaceIn(all, m) <= Cardinality(all)
  <1>1. {n \in all : n >= m} \in SUBSET all
    OBVIOUS
  <1> QED
    BY <1>1, PartCounted DEF PlaceIn

\* No two messages have one place.
LEMMA PlaceFalls ==
  ASSUME NEW c \in Nat, NEW all \in SUBSET (1..c), NEW m \in all, NEW n \in all, m < n
  PROVE  PlaceIn(all, n) < PlaceIn(all, m)
  <1> DEFINE near == {k \in all : k >= n}
             far == {k \in all : k >= m}
  <1>1. near \cup {m} \subseteq far /\ m \notin near /\ near \in SUBSET all /\ far \in SUBSET all
    <2>1. m \in Nat /\ n \in Nat /\ \A k \in all : k \in Nat
      OBVIOUS
    <2>2. near \in SUBSET all /\ far \in SUBSET all
      OBVIOUS
    <2>3. m \notin near /\ m \in far
      BY <2>1
    <2>4. ASSUME NEW k \in near PROVE k \in far
      BY <2>1
    <2> QED
      BY <2>2, <2>3, <2>4
  <1>2. /\ IsFiniteSet(near) /\ IsFiniteSet(far) /\ Cardinality(near) \in Nat
        /\ Cardinality(far) \in Nat
    BY <1>1, PartCounted
  <1> HIDE DEF near, far
  <1>3. /\ Cardinality(near \cup {m}) = Cardinality(near) + 1
        /\ Cardinality(near \cup {m}) <= Cardinality(far)
    BY <1>1, <1>2, FS_AddElement, FS_Subset
  <1>4. Cardinality(near) < Cardinality(far)
    BY <1>2, <1>3
  <1> QED
    BY <1>4 DEF PlaceIn, near, far

\* A message that is added pushes others back, one that is removed lets them
\* forward, by one place.
LEMMA PlaceMoves ==
  ASSUME NEW c \in Nat, NEW all \in SUBSET (1..c), NEW m, NEW x
  PROVE  /\ PlaceIn(all \ {x}, m) <= PlaceIn(all, m)
         /\ PlaceIn(all, m) <= PlaceIn(all \ {x}, m) + 1
  <1> DEFINE near == {n \in all : n >= m}
             far == {n \in all \ {x} : n >= m}
  <1>1. far = near \ {x} /\ near \in SUBSET all /\ far \in SUBSET all
    OBVIOUS
  <1>2. IsFiniteSet(near) /\ Cardinality(near) \in Nat /\ Cardinality(far) \in Nat
    BY <1>1, PartCounted
  <1> HIDE DEF near, far
  <1>3. Cardinality(far) = IF x \in near THEN Cardinality(near) - 1 ELSE Cardinality(near)
    BY <1>1, <1>2, FS_RemoveElement
  <1>4. Cardinality(far) <= Cardinality(near) /\ Cardinality(near) <= Cardinality(far) + 1
    BY <1>2, <1>3
  <1> QED
    BY <1>4 DEF PlaceIn, near, far

\* No more messages are beyond a place than there are places beyond it.
LEMMA BeyondPlace ==
  ASSUME NEW c \in Nat, NEW all \in SUBSET (1..c), NEW k \in Nat, k <= Cardinality(all)
  PROVE  Cardinality({m \in all : PlaceIn(all, m) > k}) <= Cardinality(all) - k
  <1> DEFINE some == {m \in all : PlaceIn(all, m) > k}
             places == (k + 1)..Cardinality(all)
             f == [m \in some |-> PlaceIn(all, m)]
  <1>1. IsFiniteSet(some) /\ Cardinality(some) \in Nat /\ Cardinality(all) \in Nat
    BY PartCounted
  <1>2. IsFiniteSet(places) /\ Cardinality(places) = Cardinality(all) - k
    BY <1>1, FS_Interval
  <1>3. f \in [some -> places]
    BY <1>1, PlaceType
  <1>4. \A m, n \in some : f[m] = f[n] => m = n
    <2> SUFFICES ASSUME NEW m \in some, NEW n \in some, m # n PROVE f[m] # f[n]
      OBVIOUS
    <2>1. m \in all /\ n \in all /\ m \in Nat /\ n \in Nat
      OBVIOUS
    <2>2. PlaceIn(all, m) \in Nat /\ PlaceIn(all, n) \in Nat
      BY PlaceType
    <2>3. PlaceIn(all, n) < PlaceIn(all, m) \/ PlaceIn(all, m) < PlaceIn(all, n)
      <3>1. m < n \/ n < m
        BY <2>1
      <3> QED
        BY <2>1, <3>1, PlaceFalls
    <2> QED
      BY <2>2, <2>3
  <1> HIDE DEF some, places, f
  <1>5. ~(Cardinality(places) < Cardinality(some))
    BY <1>1, <1>2, <1>3, <1>4, FS_PigeonHole
  <1>6. Cardinality(some) <= Cardinality(all) - k
    BY <1>1, <1>2, <1>5
  <1> QED
    BY <1>6 DEF some

-----------------------------------------------------------------------------
(* The invariant *)

\* A client is on a page or has queried nothing, and what it has was there.
ScanFits ==
  /\ scan.start \subseteq 1..created /\ scan.rows \subseteq 1..created
  /\ "rows" \notin scan.queried => scan.rows = {}
  /\ scan.state # "page" => scan.queried = {}
  /\ scan.page >= 1

\* The place up to which the rows were queried.
Behind == IF "rows" \in scan.queried THEN scan.page * scan.limit ELSE (scan.page - 1) * scan.limit

\* What the client has not got of what was there, and of that, what it has passed.
Lacking == (scan.start \cap visible) \ (scan.got \cup scan.rows)
Missed == {m \in Lacking : G!Place(m) <= Behind}

\* It has passed at most one for each removal, and misses as many again as there
\* are behind its last page.
MissedBounded ==
  /\ scan.state = "page" => Cardinality(Missed) <= scan.removed + scan.torn
  /\ scan.queried = {"total"} /\ scan.total <= scan.page * scan.limit =>
        Cardinality(Missed) + Cardinality(visible) - scan.page * scan.limit <= scan.removed + scan.torn
  /\ scan.queried = {"rows", "total"} /\ scan.total <= scan.page * scan.limit =>
        Cardinality(Lacking) <= scan.removed + scan.torn

\* What every state satisfies.
PagesInv == G!TypeOK /\ ScanFits /\ MissedBounded /\ G!SkippedBounded

\* A client that reads nothing.
LEMMA PageIdleType ==
  /\ G!Idle \in G!Scan /\ G!Idle.state = "idle" /\ G!Idle.rows = {} /\ G!Idle.queried = {}
  /\ G!Idle.got = {}
  /\ G!Idle.start = {} /\ G!Idle.page = 1 /\ G!Idle.limit = 1 /\ G!Idle.removed = 0
  /\ G!Idle.torn = 0
  BY DEF G!Idle, G!Scan

\* Nothing is missed at first.
LEMMA PagesInit == G!PagesAssumption /\ G!Init => PagesInv
  <1> SUFFICES ASSUME G!PagesAssumption, G!Init PROVE PagesInv
    OBVIOUS
  <1>1. /\ created \in 0..MaxMessages /\ visible = 1..created /\ scan = G!Idle
        /\ list \in {"messages", "files"}
    BY DEF G!Init
  <1>2. G!TypeOK
    BY <1>1, PageIdleType DEF G!TypeOK
  <1>3. ScanFits
    BY <1>1, PageIdleType DEF ScanFits
  <1>4. MissedBounded /\ G!SkippedBounded
    BY PagesCount, <1>1, PageIdleType DEF MissedBounded, G!SkippedBounded
  <1> QED
    BY <1>2, <1>3, <1>4 DEF PagesInv

\* What is known of the numbers in a state.
LEMMA Numbers ==
  ASSUME G!PagesAssumption, G!TypeOK, ScanFits
  PROVE  /\ created \in Nat /\ visible \in SUBSET (1..created)
         /\ scan.page \in Nat /\ scan.limit \in Nat /\ scan.total \in Nat
         /\ scan.removed \in Nat /\ scan.torn \in Nat
         /\ scan.page * scan.limit \in Nat /\ (scan.page - 1) * scan.limit \in Nat
         /\ (scan.page - 1) * scan.limit <= scan.page * scan.limit
         /\ Behind \in Nat
         /\ Lacking \in SUBSET visible /\ Missed \in SUBSET visible /\ G!Skipped \in SUBSET visible
         /\ Cardinality(visible) \in Nat /\ Cardinality(Lacking) \in Nat
         /\ Cardinality(Missed) \in Nat /\ Cardinality(G!Skipped) \in Nat
         /\ IsFiniteSet(Lacking) /\ IsFiniteSet(Missed) /\ IsFiniteSet(G!Skipped)
  <1>1. created \in Nat /\ visible \in SUBSET (1..created)
    BY DEF G!TypeOK, G!PagesAssumption
  <1>2. /\ scan.page \in Nat /\ scan.limit \in Nat /\ scan.total \in Nat
        /\ scan.removed \in Nat /\ scan.torn \in Nat /\ scan.page >= 1
    BY DEF G!TypeOK, ScanFits, G!Scan
  <1>3. /\ scan.page * scan.limit \in Nat /\ (scan.page - 1) * scan.limit \in Nat
        /\ (scan.page - 1) * scan.limit <= scan.page * scan.limit
    BY <1>2
  <1>4. Behind \in Nat
    BY <1>3 DEF Behind
  <1>5. Lacking \in SUBSET visible /\ Missed \in SUBSET visible /\ G!Skipped \in SUBSET visible
    BY DEF Lacking, Missed, G!Skipped
  <1> QED
    BY <1>1, <1>2, <1>3, <1>4, <1>5, PartCounted

-----------------------------------------------------------------------------
(* Queries and pages *)

\* On the first page nothing is behind the client.
LEMMA BeginStep ==
  ASSUME G!PagesAssumption, PagesInv, NEW asked \in Asked, G!Begin(asked)
  PROVE  PagesInv'
  <1> DEFINE limit == IF list = "files" THEN G!FilesLimit(asked) ELSE G!SafeLimit(asked)
             q == [G!Idle EXCEPT !.state = "page", !.start = visible, !.limit = limit]
  <1>1. limit \in Nat \ {0}
    BY DEF G!FilesLimit, G!SafeLimit, G!PagesAssumption
  <1> HIDE DEF limit
  <1>2. visible \in SUBSET G!Messages /\ visible \subseteq 1..created
    BY DEF PagesInv, G!TypeOK, G!Messages, G!PagesAssumption
  <1>3. /\ q \in G!Scan /\ q.state = "page" /\ q.start = visible /\ q.limit = limit /\ q.page = 1
        /\ q.rows = {} /\ q.queried = {} /\ q.got = {} /\ q.removed = 0 /\ q.torn = 0
    BY <1>1, <1>2, PageIdleType DEF G!Idle, G!Scan
  <1>4. scan' = q /\ UNCHANGED <<list, created, visible>>
    BY DEF G!Begin, limit
  <1> HIDE DEF q
  <1>5. G!TypeOK' /\ ScanFits'
    <2>1. scan.start' = visible /\ scan'.got = {} /\ scan'.rows = {} /\ scan'.page = 1
          /\ scan'.state = "page" /\ scan'.queried = {} /\ scan' \in G!Scan
          /\ scan'.limit \in Nat \ {0}
      BY <1>1, <1>3, <1>4
    <2>2. G!TypeOK'
      BY <1>2, <1>4, <2>1 DEF PagesInv, G!TypeOK
    <2>3. ScanFits'
      BY <1>2, <1>4, <2>1 DEF ScanFits
    <2> QED
      BY <2>2, <2>3
  <1>6. Missed' = {}
    <2>1. Behind' = 0
      BY <1>1, <1>3, <1>4 DEF Behind
    <2>2. ASSUME NEW m \in visible PROVE ~(G!Place(m)' <= 0)
      <3>1. m \in {n \in visible : n >= m} /\ {n \in visible : n >= m} \in SUBSET visible
        BY <1>2
      <3>2. G!Place(m) \in Nat /\ G!Place(m) # 0
        BY PagesCount, <3>1, Numbers, PartCounted, FS_EmptySet DEF PagesInv, G!Place
      <3> QED
        BY PagesCount, <1>4, <3>2 DEF G!Place
    <2> QED
      BY <1>4, <2>1, <2>2 DEF Missed, Lacking
  <1>7. MissedBounded' /\ G!SkippedBounded'
    BY PagesCount, <1>3, <1>4, <1>6, FS_EmptySet DEF MissedBounded, G!SkippedBounded
  <1> QED
    BY <1>5, <1>7 DEF PagesInv

\* Nothing that is missing was queried, and nothing else is passed.
LEMMA QueryRowsStep ==
  ASSUME G!PagesAssumption, PagesInv, G!QueryRows
  PROVE  PagesInv'
  <1> DEFINE rs == G!Rows(scan.page, scan.limit)
             q == [scan EXCEPT !.rows = rs, !.queried = scan.queried \cup {"rows"}]
  <1>1. /\ scan \in G!Scan /\ scan.state = "page" /\ "rows" \notin scan.queried /\ scan.rows = {}
        /\ scan' = q /\ UNCHANGED <<list, created, visible>>
    BY DEF G!QueryRows, PagesInv, G!TypeOK, ScanFits
  <1>2. rs \subseteq visible /\ visible \in SUBSET G!Messages /\ visible \subseteq 1..created
    BY DEF G!Rows, PagesInv, G!TypeOK, G!Messages, G!PagesAssumption
  <1>3. /\ q \in G!Scan /\ q.state = "page" /\ q.start = scan.start /\ q.limit = scan.limit
        /\ q.page = scan.page /\ q.rows = rs /\ q.queried = scan.queried \cup {"rows"}
        /\ q.total = scan.total /\ q.got = scan.got
        /\ q.removed = scan.removed /\ q.torn = scan.torn
    BY <1>1, <1>2 DEF G!Scan
  <1> HIDE DEF q
  <1>4. G!TypeOK' /\ ScanFits'
    BY <1>1, <1>2, <1>3 DEF PagesInv, G!TypeOK, ScanFits
  <1>5. \A m \in visible : G!Place(m)' = G!Place(m) /\ G!Place(m) \in Nat
    BY PagesCount, <1>1, Numbers, PlaceType DEF G!Place, PlaceIn, PagesInv
  <1>6. Behind = (scan.page - 1) * scan.limit /\ Behind' = scan.page * scan.limit
    BY <1>1, <1>3 DEF Behind
  <1>7. Lacking' = Lacking \ rs
    BY <1>1, <1>3 DEF Lacking
  <1>8. Missed' \subseteq Missed
    <2> SUFFICES ASSUME NEW m \in Missed' PROVE m \in Missed
      OBVIOUS
    <2>1. m \in Lacking /\ m \notin rs /\ m \in visible /\ G!Place(m) <= scan.page * scan.limit
      BY <1>1, <1>5, <1>6, <1>7 DEF Missed, Lacking
    <2>2. ~((scan.page - 1) * scan.limit < G!Place(m))
      BY <2>1 DEF G!Rows
    <2>3. G!Place(m) <= (scan.page - 1) * scan.limit
      BY <1>5, <2>1, <2>2, Numbers DEF PagesInv
    <2> QED
      BY <1>6, <2>1, <2>3 DEF Missed
  <1>9. Cardinality(Missed') <= Cardinality(Missed) /\ Cardinality(Missed') \in Nat
    BY <1>8, Numbers, FS_Subset, FS_CardinalityType DEF PagesInv
  <1>10. MissedBounded'
    <2>1. Cardinality(Missed') <= scan.removed + scan.torn
      BY <1>1, <1>9, Numbers DEF PagesInv, MissedBounded
    <2>2. ASSUME "total" \in scan.queried, scan.total <= scan.page * scan.limit
          PROVE  Cardinality(Lacking') <= scan.removed + scan.torn
      <3> DEFINE k == scan.page * scan.limit
                 beyond == {m \in visible : PlaceIn(visible, m) > k}
      <3>1. scan.queried = {"total"}
        BY <1>1, <2>2 DEF G!Scan
      <3>2. Cardinality(Missed) + Cardinality(visible) - k <= scan.removed + scan.torn
        BY <2>2, <3>1 DEF PagesInv, MissedBounded
      <3>3. Lacking' \subseteq Missed' \cup beyond
        <4> SUFFICES ASSUME NEW m \in Lacking', m \notin beyond PROVE m \in Missed'
          OBVIOUS
        <4>1. m \in visible /\ G!Place(m) \in Nat /\ G!Place(m)' = G!Place(m)
          BY <1>1, <1>5 DEF Lacking
        <4>2. G!Place(m) <= k
          BY PagesCount, <4>1, Numbers DEF G!Place, PlaceIn, PagesInv
        <4> QED
          BY <1>6, <4>1, <4>2 DEF Missed
      <3>4. /\ IsFiniteSet(beyond) /\ Cardinality(beyond) \in Nat
            /\ IsFiniteSet(Missed') /\ Cardinality(Missed') \in Nat
        BY <1>8, Numbers, PartCounted, FS_Subset, FS_CardinalityType DEF PagesInv
      <3>5. Cardinality(Lacking') \in Nat
            /\ Cardinality(Lacking') <= Cardinality(Missed') + Cardinality(beyond)
        <4>1. /\ IsFiniteSet(Missed' \cup beyond)
              /\ Cardinality(Missed' \cup beyond)
                   = Cardinality(Missed') + Cardinality(beyond) - Cardinality(Missed' \cap beyond)
          BY <3>4, FS_Union
        <4>2. Cardinality(Missed' \cap beyond) \in Nat
          BY <3>4, FS_Intersection, FS_CardinalityType
        <4>3. IsFiniteSet(Lacking') /\ Cardinality(Lacking') <= Cardinality(Missed' \cup beyond)
          BY <3>3, <4>1, FS_Subset
        <4>4. Cardinality(Lacking') \in Nat
          BY <4>3, FS_CardinalityType
        <4> HIDE DEF beyond
        <4> QED
          BY <3>4, <4>1, <4>2, <4>3, <4>4
      <3>6. k \in Nat /\ Cardinality(visible) \in Nat /\ Cardinality(Missed) \in Nat
            /\ scan.removed \in Nat /\ scan.torn \in Nat
        BY Numbers DEF PagesInv
      <3>7. CASE k <= Cardinality(visible)
        <4>1. Cardinality(beyond) <= Cardinality(visible) - k
          BY <3>7, Numbers, BeyondPlace DEF PagesInv
        <4> HIDE DEF beyond, k
        <4> QED
          BY <1>9, <3>2, <3>4, <3>5, <3>6, <4>1
      <3>8. CASE ~(k <= Cardinality(visible))
        <4>1. beyond = {}
          <5> SUFFICES ASSUME NEW m \in visible PROVE ~(PlaceIn(visible, m) > k)
            OBVIOUS
          <5>1. PlaceIn(visible, m) \in Nat /\ PlaceIn(visible, m) <= Cardinality(visible)
            BY Numbers, PlaceType DEF PagesInv
          <5> HIDE DEF k
          <5> QED
            BY <3>6, <3>8, <5>1
        <4>2. Cardinality(beyond) = 0
          BY <4>1, FS_EmptySet
        <4> HIDE DEF beyond, k
        <4> QED
          BY <2>1, <3>4, <3>5, <3>6, <4>2
      <3> QED
        BY <3>7, <3>8
    <2> QED
      BY <1>1, <1>3, <2>1, <2>2 DEF MissedBounded
  <1>11. G!SkippedBounded'
    BY PagesCount, <1>1, <1>3 DEF G!SkippedBounded
  <1> QED
    BY <1>4, <1>10, <1>11 DEF PagesInv

\* If the total ends the reading, all places beyond the page are taken by messages
\* that are counted.
LEMMA QueryTotalStep ==
  ASSUME G!PagesAssumption, PagesInv, G!QueryTotal
  PROVE  PagesInv'
  <1> DEFINE n == Cardinality(visible)
             q == [scan EXCEPT !.total = n, !.queried = scan.queried \cup {"total"}]
  <1>1. /\ scan \in G!Scan /\ scan.state = "page" /\ "total" \notin scan.queried
        /\ scan' = q /\ UNCHANGED <<list, created, visible>>
    BY PagesCount DEF G!QueryTotal, PagesInv, G!TypeOK
  <1>2. n \in Nat /\ scan.page * scan.limit \in Nat /\ scan.removed \in Nat /\ scan.torn \in Nat
        /\ Cardinality(Missed) \in Nat
    BY Numbers DEF PagesInv
  <1>3. /\ q \in G!Scan /\ q.state = "page" /\ q.start = scan.start /\ q.limit = scan.limit
        /\ q.page = scan.page /\ q.rows = scan.rows /\ q.queried = scan.queried \cup {"total"}
        /\ q.total = n /\ q.got = scan.got
        /\ q.removed = scan.removed /\ q.torn = scan.torn
    BY <1>1, <1>2 DEF G!Scan
  <1> HIDE DEF q, n
  <1>4. G!TypeOK' /\ ScanFits'
    BY <1>1, <1>3 DEF PagesInv, G!TypeOK, ScanFits
  <1>5. Behind' = Behind /\ Lacking' = Lacking
    BY <1>1, <1>3 DEF Behind, Lacking
  <1>6. Missed' = Missed
    BY PagesCount, <1>1, <1>5 DEF Missed, G!Place
  <1>7. Cardinality(Missed) <= scan.removed + scan.torn
    BY <1>1 DEF PagesInv, MissedBounded
  <1>8. ASSUME scan.queried = {"rows"}, n <= scan.page * scan.limit
        PROVE  Lacking = Missed
    <2>1. Behind = scan.page * scan.limit
      BY <1>8 DEF Behind
    <2>2. \A m \in visible : G!Place(m) \in Nat /\ G!Place(m) <= n
      BY PagesCount, Numbers, PlaceType DEF G!Place, PlaceIn, PagesInv, n
    <2>3. \A m \in visible : G!Place(m) <= Behind
      BY <1>2, <1>8, <2>1, <2>2
    <2> QED
      BY <2>3 DEF Missed, Lacking
  <1>9. MissedBounded'
    <2>1. CASE scan.queried = {}
      <3>1. n <= scan.page * scan.limit =>
               Cardinality(Missed) + n - scan.page * scan.limit <= scan.removed + scan.torn
        BY <1>2, <1>7
      <3>2. q.queried = {"total"}
        BY <1>3, <2>1
      <3> QED
        BY <1>1, <1>3, <1>6, <1>7, <3>1, <3>2 DEF MissedBounded, n
    <2>2. CASE scan.queried = {"rows"}
      <3>1. q.queried = {"rows", "total"}
        BY <1>3, <2>2
      <3> QED
        BY <1>1, <1>3, <1>5, <1>6, <1>7, <1>8, <2>2, <3>1 DEF MissedBounded
    <2> QED
      BY <1>1, <2>1, <2>2 DEF G!Scan
  <1>10. G!SkippedBounded'
    BY PagesCount, <1>1, <1>3 DEF G!SkippedBounded
  <1> QED
    BY <1>4, <1>9, <1>10 DEF PagesInv

\* Rows become what the client has, a page is behind it.
LEMMA TurnStep ==
  ASSUME G!PagesAssumption, PagesInv, G!Turn
  PROVE  PagesInv'
  <1> DEFINE page == IF G!MorePages THEN scan.page + 1 ELSE scan.page
             state == IF G!MorePages THEN "page" ELSE "done"
             q == [scan EXCEPT !.got = scan.got \cup scan.rows, !.rows = {}, !.total = 0,
                               !.queried = {}, !.page = page, !.state = state]
  <1>1. /\ scan \in G!Scan /\ scan.queried = {"rows", "total"}
        /\ scan' = q /\ UNCHANGED <<list, created, visible>>
    BY DEF G!Turn, PagesInv, G!TypeOK
  <1>2. page \in Nat /\ page >= 1 /\ state \in {"page", "done"}
    BY Numbers DEF PagesInv, ScanFits
  <1>3. (G!MorePages => page = scan.page + 1) /\ (G!MorePages <=> state = "page")
    OBVIOUS
  <1> HIDE DEF page, state
  <1>4. /\ q \in G!Scan /\ q.state = state /\ q.start = scan.start /\ q.limit = scan.limit
        /\ q.page = page /\ q.rows = {} /\ q.queried = {}
        /\ q.got = scan.got \cup scan.rows
        /\ q.removed = scan.removed /\ q.torn = scan.torn
    BY <1>1, <1>2 DEF G!Scan
  <1> HIDE DEF q
  <1>5. G!TypeOK' /\ ScanFits'
    BY <1>1, <1>2, <1>4 DEF PagesInv, G!TypeOK, ScanFits
  <1>6. Lacking' = Lacking
    BY <1>1, <1>4 DEF Lacking
  <1>7. CASE G!MorePages
    <2>1. Behind = scan.page * scan.limit /\ Behind' = (page - 1) * scan.limit
      BY <1>1, <1>4 DEF Behind
    <2>2. page - 1 = scan.page
      BY <1>3, <1>7, Numbers DEF PagesInv
    <2>3. Missed' = Missed
      BY PagesCount, <1>1, <1>6, <2>1, <2>2 DEF Missed, G!Place
    <2>4. scan.state = "page"
      BY <1>1 DEF PagesInv, ScanFits
    <2>5. Cardinality(Missed) <= scan.removed + scan.torn
      BY <2>4 DEF PagesInv, MissedBounded
    <2>6. MissedBounded' /\ G!SkippedBounded'
      BY PagesCount, <1>1, <1>3, <1>4, <1>7, <2>3, <2>5 DEF MissedBounded, G!SkippedBounded
    <2> QED
      BY <1>5, <2>6 DEF PagesInv
  <1>8. CASE ~G!MorePages
    <2>1. scan.total <= scan.page * scan.limit
      BY <1>8, Numbers DEF G!MorePages, PagesInv
    <2>2. Cardinality(Lacking) <= scan.removed + scan.torn
      BY <1>1, <2>1 DEF PagesInv, MissedBounded
    <2>3. G!Skipped' = Lacking
      BY <1>1, <1>4 DEF G!Skipped, Lacking
    <2>4. MissedBounded' /\ G!SkippedBounded'
      BY PagesCount, <1>1, <1>3, <1>4, <1>8, <2>2, <2>3 DEF MissedBounded, G!SkippedBounded
    <2> QED
      BY <1>5, <2>4 DEF PagesInv
  <1> QED
    BY <1>7, <1>8

\* A client that gives up has missed nothing.
LEMMA GiveUpStep ==
  ASSUME PagesInv, G!GiveUp
  PROVE  PagesInv'
  <1>1. scan' = G!Idle /\ UNCHANGED <<list, created, visible>>
    BY DEF G!GiveUp
  <1> QED
    BY PagesCount, <1>1, PageIdleType
       DEF PagesInv, G!TypeOK, ScanFits, MissedBounded, G!SkippedBounded

-----------------------------------------------------------------------------
(* Messages come and go *)

\* A message that is added pushes those that the client lacks back.
LEMMA AddStep ==
  ASSUME G!PagesAssumption, PagesInv, G!Add
  PROVE  PagesInv'
  <1> DEFINE x == created + 1
             torn == IF scan.queried = {"total"} THEN scan.torn + 1 ELSE scan.torn
             q == [scan EXCEPT !.torn = torn]
  <1>1. /\ created < MaxMessages /\ created' = x /\ visible' = visible \cup {x} /\ list' = list
        /\ scan' = q /\ scan \in G!Scan
    BY DEF G!Add, PagesInv, G!TypeOK
  <1>2. /\ created \in Nat /\ x \in Nat /\ visible \in SUBSET (1..created) /\ x \notin 1..created
        /\ 1..created \subseteq 1..x /\ x \in 1..x /\ x \in 0..MaxMessages
    BY <1>1, Numbers DEF PagesInv, G!PagesAssumption
  <1>3. torn \in Nat /\ scan.torn <= torn /\ (scan.queried = {"total"} => torn = scan.torn + 1)
    BY Numbers DEF PagesInv
  <1> HIDE DEF x, torn
  <1>4. /\ q \in G!Scan /\ q.state = scan.state /\ q.start = scan.start /\ q.limit = scan.limit
        /\ q.page = scan.page /\ q.rows = scan.rows /\ q.queried = scan.queried
        /\ q.total = scan.total /\ q.got = scan.got
        /\ q.removed = scan.removed /\ q.torn = torn
    BY <1>1, <1>3 DEF G!Scan
  <1> HIDE DEF q
  <1>5. G!TypeOK' /\ ScanFits'
    BY <1>1, <1>2, <1>4 DEF PagesInv, G!TypeOK, ScanFits
  <1>6. /\ scan.start \subseteq 1..created /\ Lacking' = Lacking /\ G!Skipped' = G!Skipped
        /\ Behind' = Behind
    BY <1>1, <1>2, <1>4 DEF PagesInv, ScanFits, Lacking, G!Skipped, Behind
  <1>7. Missed' \subseteq Missed
    <2> SUFFICES ASSUME NEW m \in Missed' PROVE m \in Missed
      OBVIOUS
    <2>1. m \in Lacking /\ G!Place(m)' <= Behind
      BY <1>6 DEF Missed
    <2>2. visible' \in SUBSET (1..x) /\ visible = visible' \ {x}
      BY <1>1, <1>2
    <2>3. G!Place(m) <= G!Place(m)' /\ G!Place(m) \in Nat /\ G!Place(m)' \in Nat
      <3>1. /\ PlaceIn(visible' \ {x}, m) <= PlaceIn(visible', m)
            /\ PlaceIn(visible, m) \in Nat /\ PlaceIn(visible', m) \in Nat
        BY <1>2, <2>2, PlaceMoves, PlaceType
      <3> QED
        BY PagesCount, <2>2, <3>1 DEF G!Place, PlaceIn
    <2>4. G!Place(m) <= Behind
      BY <2>1, <2>3, Numbers DEF PagesInv
    <2> QED
      BY <2>1, <2>4 DEF Missed
  <1>8. Cardinality(Missed') <= Cardinality(Missed) /\ Cardinality(Missed') \in Nat
    BY <1>7, Numbers, FS_Subset, FS_CardinalityType DEF PagesInv
  <1>9. Cardinality(visible') = Cardinality(visible) + 1
    BY <1>1, <1>2, PartCounted, FS_AddElement
  <1>10. MissedBounded'
    <2>1. /\ scan.removed \in Nat /\ scan.torn \in Nat /\ Cardinality(Missed) \in Nat
          /\ Cardinality(visible) \in Nat /\ Cardinality(Lacking) \in Nat
          /\ scan.page * scan.limit \in Nat
      BY Numbers DEF PagesInv
    <2>2. scan.state = "page" => Cardinality(Missed') <= scan.removed + torn
      BY <1>3, <1>8, <2>1 DEF PagesInv, MissedBounded
    <2>3. scan.queried = {"total"} /\ scan.total <= scan.page * scan.limit =>
             Cardinality(Missed') + Cardinality(visible') - scan.page * scan.limit <= scan.removed + torn
      BY <1>3, <1>8, <1>9, <2>1 DEF PagesInv, MissedBounded
    <2>4. scan.queried = {"rows", "total"} /\ scan.total <= scan.page * scan.limit =>
             Cardinality(Lacking) <= scan.removed + torn
      BY <1>3, <2>1 DEF PagesInv, MissedBounded
    <2> QED
      BY <1>1, <1>4, <1>6, <2>2, <2>3, <2>4 DEF MissedBounded
  <1>11. G!SkippedBounded'
    BY PagesCount, <1>1, <1>3, <1>4, <1>6, Numbers DEF PagesInv, G!SkippedBounded
  <1> QED
    BY <1>5, <1>10, <1>11 DEF PagesInv

\* One that is removed lets one message at most forward to where the client was.
LEMMA RemoveStep ==
  ASSUME G!PagesAssumption, PagesInv, NEW x \in G!Messages, G!Remove(x)
  PROVE  PagesInv'
  <1> DEFINE removed == IF scan.state = "page" THEN scan.removed + 1 ELSE scan.removed
             q == [scan EXCEPT !.removed = removed]
  <1>1. /\ x \in visible /\ visible' = visible \ {x} /\ UNCHANGED <<list, created>>
        /\ scan' = q /\ scan \in G!Scan
    BY DEF G!Remove, PagesInv, G!TypeOK
  <1>2. created \in Nat /\ visible \in SUBSET (1..created) /\ visible' \in SUBSET (1..created)
    BY <1>1, Numbers DEF PagesInv
  <1>3. /\ removed \in Nat /\ scan.removed <= removed
        /\ (scan.state = "page" => removed = scan.removed + 1)
    BY Numbers DEF PagesInv
  <1> HIDE DEF removed
  <1>4. /\ q \in G!Scan /\ q.state = scan.state /\ q.start = scan.start /\ q.limit = scan.limit
        /\ q.page = scan.page /\ q.rows = scan.rows /\ q.queried = scan.queried
        /\ q.total = scan.total /\ q.got = scan.got
        /\ q.removed = removed /\ q.torn = scan.torn
    BY <1>1, <1>3 DEF G!Scan
  <1> HIDE DEF q
  <1>5. G!TypeOK' /\ ScanFits'
    BY <1>1, <1>2, <1>4 DEF PagesInv, G!TypeOK, ScanFits
  <1>6. Lacking' \subseteq Lacking /\ G!Skipped' \subseteq G!Skipped /\ Behind' = Behind
    BY <1>1, <1>4 DEF Lacking, G!Skipped, Behind
  <1>7. Cardinality(Missed') <= Cardinality(Missed) + 1 /\ Cardinality(Missed') \in Nat
    <2>1. \A m \in Missed' : m \in Missed \/ (m \in visible /\ PlaceIn(visible, m) = Behind + 1)
      <3> SUFFICES ASSUME NEW m \in Missed'
                   PROVE  m \in Missed \/ (m \in visible /\ PlaceIn(visible, m) = Behind + 1)
        OBVIOUS
      <3>1. m \in Lacking /\ m \in visible /\ PlaceIn(visible \ {x}, m) <= Behind
        BY PagesCount, <1>1, <1>6 DEF Missed, Lacking, G!Place, PlaceIn
      <3>2. /\ PlaceIn(visible, m) <= PlaceIn(visible \ {x}, m) + 1
            /\ PlaceIn(visible, m) \in Nat /\ PlaceIn(visible \ {x}, m) \in Nat
        BY <1>1, <1>2, PlaceMoves, PlaceType
      <3>3. PlaceIn(visible, m) <= Behind \/ PlaceIn(visible, m) = Behind + 1
        BY <3>1, <3>2, Numbers DEF PagesInv
      <3> QED
        BY PagesCount, <3>1, <3>3 DEF Missed, G!Place, PlaceIn
    <2>2. \A m, n \in visible : PlaceIn(visible, m) = PlaceIn(visible, n) => m = n
      <3> SUFFICES ASSUME NEW m \in visible, NEW n \in visible, m # n
                   PROVE  PlaceIn(visible, m) # PlaceIn(visible, n)
        OBVIOUS
      <3>1. m \in Nat /\ n \in Nat
        BY <1>2
      <3>3. PlaceIn(visible, m) \in Nat /\ PlaceIn(visible, n) \in Nat
        BY <1>2, PlaceType
      <3>2. m < n \/ n < m
        BY <3>1
      <3>4. PlaceIn(visible, n) < PlaceIn(visible, m) \/ PlaceIn(visible, m) < PlaceIn(visible, n)
        BY <1>2, <3>2, PlaceFalls
      <3> QED
        BY <3>3, <3>4
    <2>3. IsFiniteSet(Missed) /\ Cardinality(Missed) \in Nat
      BY Numbers DEF PagesInv
    <2>4. CASE Missed' \subseteq Missed
      BY <2>3, <2>4, FS_Subset, FS_CardinalityType
    <2>5. CASE ~(Missed' \subseteq Missed)
      <3>1. PICK y \in Missed' : y \notin Missed
        BY <2>5
      <3>2. Missed' \subseteq Missed \cup {y}
        BY <2>1, <2>2, <3>1
      <3>3. IsFiniteSet(Missed \cup {y}) /\ Cardinality(Missed \cup {y}) = Cardinality(Missed) + 1
        BY <2>3, <3>1, FS_AddElement
      <3> QED
        BY <2>3, <3>2, <3>3, FS_Subset, FS_CardinalityType
    <2> QED
      BY <2>4, <2>5
  <1>8. Cardinality(visible') = Cardinality(visible) - 1
    BY <1>1, <1>2, PartCounted, FS_RemoveElement
  <1>9. /\ Cardinality(Lacking') <= Cardinality(Lacking) /\ Cardinality(Lacking') \in Nat
        /\ Cardinality(G!Skipped') <= Cardinality(G!Skipped) /\ Cardinality(G!Skipped') \in Nat
    BY <1>6, Numbers, FS_Subset, FS_CardinalityType DEF PagesInv
  <1>10. /\ scan.removed \in Nat /\ scan.torn \in Nat /\ Cardinality(Missed) \in Nat
         /\ Cardinality(visible) \in Nat /\ Cardinality(Lacking) \in Nat
         /\ Cardinality(G!Skipped) \in Nat
         /\ scan.page * scan.limit \in Nat
    BY Numbers DEF PagesInv
  <1>11. MissedBounded'
    <2>1. scan.queried # {} => scan.state = "page"
      BY DEF PagesInv, ScanFits
    <2>2. scan.state = "page" => Cardinality(Missed') <= removed + scan.torn
      BY <1>3, <1>7, <1>10 DEF PagesInv, MissedBounded
    <2>3. scan.queried = {"total"} /\ scan.total <= scan.page * scan.limit =>
             Cardinality(Missed') + Cardinality(visible') - scan.page * scan.limit <= removed + scan.torn
      BY <1>3, <1>7, <1>8, <1>10 DEF PagesInv, MissedBounded
    <2>4. scan.queried = {"rows", "total"} /\ scan.total <= scan.page * scan.limit =>
             Cardinality(Lacking') <= removed + scan.torn
      BY <1>3, <1>9, <1>10 DEF PagesInv, MissedBounded
    <2> QED
      BY <1>1, <1>4, <2>2, <2>3, <2>4 DEF MissedBounded
  <1>12. G!SkippedBounded'
    <2>1. scan.state = "done" => Cardinality(G!Skipped') <= removed + scan.torn
      BY PagesCount, <1>3, <1>9, <1>10 DEF PagesInv, G!SkippedBounded
    <2> QED
      BY PagesCount, <1>1, <1>4, <2>1 DEF G!SkippedBounded
  <1> QED
    BY <1>5, <1>11, <1>12 DEF PagesInv

\* Every step keeps it.
LEMMA PagesNext == G!PagesAssumption /\ PagesInv /\ [G!Next]_(G!vars) => PagesInv'
  <1> SUFFICES ASSUME G!PagesAssumption, PagesInv, [G!Next]_(G!vars) PROVE PagesInv'
    OBVIOUS
  <1>1. CASE UNCHANGED G!vars
    BY PagesCount, <1>1
       DEF G!vars, PagesInv, G!TypeOK, ScanFits, MissedBounded, G!SkippedBounded, G!Skipped,
           Missed, Lacking, Behind, G!Place
  <1> QED
    BY <1>1, BeginStep, QueryRowsStep, QueryTotalStep, TurnStep, GiveUpStep, AddStep, RemoveStep
       DEF G!Next

-----------------------------------------------------------------------------
(* The assistant *)

\* The module counts as this one does.
LEMMA AssistantCount ==
  /\ \A s : B!Cardinality(s) = Cardinality(s)
  /\ \A s : B!IsFiniteSet(s) <=> IsFiniteSet(s)
  BY DEF B!Cardinality, Cardinality, B!IsFiniteSet, IsFiniteSet

\* The places at which a handler has no message yet.
Early == {"idle", "open.find", "open.create", "delete.write", "send.find", "send.create"}

\* A handler has created its message once it is past the creation, in the
\* conversation that it is about, and while that is there the message is.
HandlersFit == \A r \in Slots :
  /\ answering[r].pc \in Early <=> answering[r].prompt = None
  /\ answering[r].prompt # None =>
              /\ answering[r].chat \in 1..opened
              /\ message[answering[r].prompt] # "unborn"
              /\ chat = answering[r].chat => message[answering[r].prompt] = "user"
              /\ \A s \in Slots \ {r} : answering[s].prompt # answering[r].prompt

\* An answer that was created comes after its message.
AnswersFollow == \A r \in Slots : answering[r].pc = "ai.last" =>
  \/ message[answering[r].prompt] # "user"
  \/ \E m \in B!Answers : m > answering[r].prompt

\* Messages are created in their order.
Contiguous == \A m, n \in B!Messages : m < n /\ message[m] = "unborn" => message[n] = "unborn"

\* The messages whose answer some handler has not created yet.
Owing == {p \in B!Prompts : \E r \in Slots : answering[r].prompt = p /\ answering[r].pc # "ai.last"}

\* There are no more answers than messages that are owed none.
AnswersArePaid == Cardinality(B!Answers) <= Cardinality(B!Prompts \ Owing)

\* A message has an answer after it, or it is known why not.
PromptsKnown == \A p \in B!Prompts : p \in unanswered \cup B!Prompted(Slots) \/ \E m \in B!Answers : m > p

\* What every state satisfies.
AssistantInv ==
  B!TypeOK /\ HandlersFit /\ AnswersFollow /\ Contiguous /\ AnswersArePaid /\ PromptsKnown

\* A slot without a handler.
LEMMA AssistantIdleType == B!Idle \in B!Request /\ B!Idle.pc = "idle" /\ B!Idle.prompt = None
  BY DEF B!Idle, B!Request

\* Messages are counted.
LEMMA MessagesFinite ==
  ASSUME B!AssistantAssumption, NEW some \in SUBSET B!Messages
  PROVE  IsFiniteSet(some) /\ Cardinality(some) \in Nat
  <1>1. IsFiniteSet(B!Messages)
    BY FS_Interval DEF B!AssistantAssumption, B!Messages
  <1> QED
    BY <1>1, FS_Subset, FS_CardinalityType

\* Without messages it holds.
LEMMA AssistantInit == B!AssistantAssumption /\ B!Init => AssistantInv
  <1> SUFFICES ASSUME B!AssistantAssumption, B!Init PROVE AssistantInv
    OBVIOUS
  <1>1. answering = [r \in Slots |-> B!Idle] /\ \A r \in Slots : answering[r] = B!Idle
    BY DEF B!Init
  <1>2. /\ message \in [B!Messages -> {"unborn", "user", "bot", "gone"}]
        /\ \A m \in B!Messages : message[m] = "unborn"
    BY DEF B!Init
  <1>3. B!Prompts = {} /\ B!Answers = {}
    BY <1>2 DEF B!Prompts, B!Answers, B!MessagesBy
  <1>4. B!TypeOK
    <2>1. answering \in [Slots -> B!Request]
      BY <1>1, AssistantIdleType
    <2>2. 0 \in 0..LastBot /\ 0 \in 0..0 /\ 0 \in 0..LastChat
      BY DEF B!AssistantAssumption
    <2> QED
      BY <1>1, <1>2, <1>3, <2>1, <2>2 DEF B!Init, B!TypeOK
  <1>5. HandlersFit /\ AnswersFollow /\ Contiguous /\ PromptsKnown
    BY <1>1, <1>2, <1>3, AssistantIdleType
       DEF HandlersFit, AnswersFollow, Contiguous, PromptsKnown, Early
  <1>6. AnswersArePaid
    BY <1>3, FS_EmptySet DEF AnswersArePaid
  <1> QED
    BY <1>4, <1>5, <1>6 DEF AssistantInv

-----------------------------------------------------------------------------

\* A handler goes on, and messages stay.
LEMMA AssistantQuietStep ==
  ASSUME AssistantInv, NEW r \in Slots, NEW q \in B!Request, answering' = [answering EXCEPT ![r] = q],
         aiUserId # 0, q.prompt = answering[r].prompt,
         q.pc \in Early <=> q.prompt = None,
         q.prompt # None => q.chat = answering[r].chat,
         q.pc # "ai.last", answering[r].pc # "ai.last",
         UNCHANGED <<bot, made, squat, aiUserId, chat, opened, message, unanswered>>
  PROVE  AssistantInv'
  <1>1. /\ answering' \in [Slots -> B!Request]
        /\ \A s \in Slots : answering'[s] = IF s = r THEN q ELSE answering[s]
    BY DEF AssistantInv, B!TypeOK
  <1>2. B!Prompts' = B!Prompts /\ B!Answers' = B!Answers /\ Owing' = Owing
    BY <1>1 DEF B!Prompts, B!Answers, B!MessagesBy, Owing
  <1>3. B!Prompted(Slots)' = B!Prompted(Slots)
    BY <1>1 DEF B!Prompted
  <1>4. B!TypeOK'
    BY <1>1, <1>2 DEF AssistantInv, B!TypeOK
  <1>5. HandlersFit'
    BY <1>1 DEF AssistantInv, HandlersFit
  <1>6. AnswersFollow'
    BY <1>1, <1>2 DEF AssistantInv, AnswersFollow
  <1>7. Contiguous' /\ AnswersArePaid' /\ PromptsKnown'
    BY <1>2, <1>3 DEF AssistantInv, Contiguous, AnswersArePaid, PromptsKnown
  <1> QED
    BY <1>4, <1>5, <1>6, <1>7 DEF AssistantInv

\* A handler ends: its message is answered, or on record.
LEMMA EndStep ==
  ASSUME B!AssistantAssumption, AssistantInv, NEW r \in Slots, answering[r] # B!Idle,
         answering' = [answering EXCEPT ![r] = B!Idle],
         \/ unanswered' = unanswered \cup B!Prompted({r})
         \/ unanswered' = unanswered /\ (answering[r].pc = "ai.last" \/ answering[r].prompt = None),
         UNCHANGED <<bot, made, squat, aiUserId, chat, opened, message>>
  PROVE  AssistantInv'
  <1>1. /\ answering' \in [Slots -> B!Request] /\ B!Idle \in B!Request
        /\ \A s \in Slots : answering'[s] = IF s = r THEN B!Idle ELSE answering[s]
    BY AssistantIdleType DEF AssistantInv, B!TypeOK
  <1>2. B!Prompts' = B!Prompts /\ B!Answers' = B!Answers /\ Owing' \subseteq Owing
    BY <1>1, AssistantIdleType
       DEF B!Prompts, B!Answers, B!MessagesBy, Owing, B!AssistantAssumption, B!Messages
  <1>3. unanswered' \subseteq B!Messages /\ unanswered \subseteq unanswered'
    BY <1>1 DEF AssistantInv, B!TypeOK, B!Prompted, B!Request
  <1>4. B!TypeOK'
    BY <1>1, <1>2, <1>3 DEF AssistantInv, B!TypeOK
  <1>5. HandlersFit'
    BY <1>1, AssistantIdleType DEF AssistantInv, HandlersFit, Early
  <1>6. AnswersFollow'
    BY <1>1, <1>2, AssistantIdleType DEF AssistantInv, AnswersFollow
  <1>7. AnswersArePaid'
    <2>1. /\ B!Prompts \ Owing \subseteq B!Prompts' \ Owing'
          /\ B!Prompts' \ Owing' \subseteq B!Messages
      BY <1>2 DEF B!Prompts, B!MessagesBy
    <2>2. Cardinality(B!Prompts \ Owing) <= Cardinality(B!Prompts' \ Owing')
      BY <2>1, MessagesFinite, FS_Subset
    <2>3. /\ Cardinality(B!Answers) \in Nat /\ Cardinality(B!Prompts \ Owing) \in Nat
          /\ Cardinality(B!Prompts' \ Owing') \in Nat
      BY <2>1, MessagesFinite DEF B!Answers, B!MessagesBy
    <2>4. Cardinality(B!Answers) <= Cardinality(B!Prompts' \ Owing')
      BY <2>2, <2>3 DEF AssistantInv, AnswersArePaid
    <2> QED
      BY <1>2, <2>4 DEF AnswersArePaid
  <1>8. PromptsKnown'
    <2> SUFFICES ASSUME NEW p \in B!Prompts
                 PROVE  p \in unanswered' \/ p \in B!Prompted(Slots)' \/ \E m \in B!Answers : m > p
      BY <1>2 DEF PromptsKnown
    <2>1. CASE answering[r].prompt = p
      <3>1. p # None
        BY DEF B!Prompts, B!MessagesBy, B!AssistantAssumption, B!Messages
      <3>2. CASE unanswered' = unanswered \cup B!Prompted({r})
        BY <2>1, <3>1, <3>2 DEF B!Prompted
      <3>3. CASE answering[r].pc = "ai.last"
        BY <2>1, <3>3 DEF AssistantInv, AnswersFollow, B!Prompts, B!MessagesBy
      <3> QED
        BY <2>1, <3>1, <3>2, <3>3
    <2>2. CASE answering[r].prompt # p
      BY <1>1, <1>3, <2>2 DEF AssistantInv, PromptsKnown, B!Prompted
    <2> QED
      BY <2>1, <2>2
  <1>9. Contiguous'
    BY DEF AssistantInv, Contiguous
  <1> QED
    BY <1>4, <1>5, <1>6, <1>7, <1>8, <1>9 DEF AssistantInv

-----------------------------------------------------------------------------
(* The row of the assistant, and the process *)

\* A row that is created is a new one, without a conversation.
LEMMA BootStep ==
  ASSUME B!AssistantAssumption, AssistantInv, B!Boot
  PROVE  AssistantInv'
  <1>1. /\ aiUserId = 0 /\ (bot = 0 => ~squat /\ made < LastBot)
        /\ made' = (IF bot = 0 THEN made + 1 ELSE made) /\ bot' = made' /\ aiUserId' = made'
        /\ UNCHANGED <<squat, chat, opened, message, unanswered, answering>>
    BY DEF B!Boot
  <1>2. \A r \in Slots : answering[r] = B!Idle
    BY <1>1 DEF AssistantInv, B!TypeOK
  <1>3. made' \in 1..LastBot /\ (bot # 0 => made' = bot)
    BY <1>1 DEF AssistantInv, B!TypeOK, B!AssistantAssumption
  <1>4. /\ B!Prompts' = B!Prompts /\ B!Answers' = B!Answers /\ Owing' = Owing
        /\ B!Prompted(Slots)' = B!Prompted(Slots)
    BY <1>1 DEF B!Prompts, B!Answers, B!MessagesBy, Owing, B!Prompted
  <1>5. B!TypeOK'
    BY <1>1, <1>2, <1>3, <1>4 DEF AssistantInv, B!TypeOK
  <1>6. HandlersFit' /\ AnswersFollow'
    BY <1>1, <1>2, AssistantIdleType DEF HandlersFit, AnswersFollow, Early
  <1>7. Contiguous' /\ AnswersArePaid' /\ PromptsKnown'
    BY <1>1, <1>4 DEF AssistantInv, Contiguous, AnswersArePaid, PromptsKnown
  <1> QED
    BY <1>5, <1>6, <1>7 DEF AssistantInv

\* What a stop leaves unanswered is on record.
LEMMA StopStep ==
  ASSUME B!AssistantAssumption, AssistantInv, B!Stop
  PROVE  AssistantInv'
  <1>1. /\ aiUserId' = 0 /\ unanswered' = unanswered \cup B!Prompted(Slots)
        /\ answering' = [r \in Slots |-> B!Idle] /\ UNCHANGED <<bot, made, squat, chat, opened, message>>
    BY DEF B!Stop
  <1>2. answering' \in [Slots -> B!Request] /\ \A r \in Slots : answering'[r] = B!Idle
    BY <1>1, AssistantIdleType
  <1>3. B!Prompts' = B!Prompts /\ B!Answers' = B!Answers
    BY <1>1 DEF B!Prompts, B!Answers, B!MessagesBy
  <1>4. Owing' = {}
    BY <1>2, <1>3, AssistantIdleType
       DEF Owing, B!Prompts, B!MessagesBy, B!Messages, B!AssistantAssumption
  <1>5. unanswered' \subseteq B!Messages
    BY <1>1 DEF AssistantInv, B!TypeOK, B!Prompted, B!Request
  <1>6. B!TypeOK'
    BY <1>1, <1>2, <1>3, <1>5 DEF AssistantInv, B!TypeOK
  <1>7. HandlersFit' /\ AnswersFollow'
    BY <1>2, AssistantIdleType DEF HandlersFit, AnswersFollow, Early
  <1>8. AnswersArePaid'
    <2>1. /\ B!Prompts \ Owing \subseteq B!Prompts /\ B!Prompts \subseteq B!Messages
          /\ B!Answers \subseteq B!Messages
      BY DEF B!Prompts, B!Answers, B!MessagesBy
    <2>2. Cardinality(B!Prompts \ Owing) <= Cardinality(B!Prompts)
      BY <2>1, MessagesFinite, FS_Subset
    <2>3. /\ Cardinality(B!Answers) \in Nat /\ Cardinality(B!Prompts \ Owing) \in Nat
          /\ Cardinality(B!Prompts) \in Nat
      BY <2>1, MessagesFinite
    <2>4. B!Prompts' \ Owing' = B!Prompts
      BY <1>3, <1>4
    <2> QED
      BY <1>3, <2>2, <2>3, <2>4 DEF AssistantInv, AnswersArePaid
  <1>9. Contiguous' /\ PromptsKnown'
    BY <1>1, <1>3 DEF AssistantInv, Contiguous, PromptsKnown
  <1> QED
    BY <1>6, <1>7, <1>8, <1>9 DEF AssistantInv

\* With the conversation goes every message, whether a handler deletes it or it
\* goes with the row.
LEMMA DropStep ==
  ASSUME B!AssistantAssumption, AssistantInv, aiUserId # 0, B!Drop, bot' \in {bot, 0},
         UNCHANGED <<made, squat, aiUserId, opened, unanswered>>,
         squat => bot' = 0,
         \/ UNCHANGED answering
         \/ \E r \in Slots : /\ answering[r].prompt = None /\ answering[r].pc # "idle"
                            /\ answering' = [answering EXCEPT ![r] = B!Idle]
  PROVE  AssistantInv'
  <1>1. /\ chat' = 0
        /\ message' \in [B!Messages -> {"unborn", "user", "bot", "gone"}]
        /\ \A m \in B!Messages : message'[m] = IF message[m] = "unborn" THEN "unborn" ELSE "gone"
    BY DEF B!Drop
  <1>2. /\ answering' \in [Slots -> B!Request]
        /\ \A s \in Slots : \/ answering'[s] = answering[s]
                          \/ answering'[s] = B!Idle
    BY AssistantIdleType DEF AssistantInv, B!TypeOK
  <1>3. B!Prompts' = {} /\ B!Answers' = {} /\ Owing' = {}
    BY <1>1 DEF B!Prompts, B!Answers, B!MessagesBy, Owing
  <1>4. B!TypeOK'
    BY <1>1, <1>2, <1>3 DEF AssistantInv, B!TypeOK
  <1>5. \A s \in Slots : answering'[s].prompt # None =>
           /\ answering'[s] = answering[s] /\ answering[s].prompt \in B!Messages
           /\ answering[s].chat \in 1..opened
    BY <1>2, AssistantIdleType DEF AssistantInv, HandlersFit, B!TypeOK, B!Request
  <1>6. HandlersFit'
    <2> SUFFICES ASSUME NEW s \in Slots
                 PROVE  /\ answering'[s].pc \in Early <=> answering'[s].prompt = None
                        /\ answering'[s].prompt # None =>
                              /\ answering'[s].chat \in 1..opened
                              /\ message'[answering'[s].prompt] # "unborn"
                              /\ chat' = answering'[s].chat => message'[answering'[s].prompt] = "user"
                              /\ \A t \in Slots \ {s} : answering'[t].prompt # answering'[s].prompt
      BY DEF HandlersFit
    <2>1. answering'[s].pc \in Early <=> answering'[s].prompt = None
      BY <1>2, AssistantIdleType DEF AssistantInv, HandlersFit, Early
    <2>2. ASSUME answering'[s].prompt # None
          PROVE  /\ answering'[s].chat \in 1..opened
                 /\ message'[answering'[s].prompt] # "unborn"
                 /\ chat' = answering'[s].chat => message'[answering'[s].prompt] = "user"
      <3>1. answering'[s].chat \in 1..opened /\ opened \in Nat /\ chat' = 0
        BY <1>1, <1>5, <2>2 DEF AssistantInv, B!TypeOK
      <3>2. chat' # answering'[s].chat
        BY <3>1
      <3>3. message[answering[s].prompt] # "unborn"
        BY <1>5, <2>2 DEF AssistantInv, HandlersFit
      <3> QED
        BY <1>1, <1>5, <2>2, <3>1, <3>2, <3>3
    <2>3. ASSUME answering'[s].prompt # None, NEW t \in Slots \ {s}
          PROVE  answering'[t].prompt # answering'[s].prompt
      <3>1. answering'[s] = answering[s]
        BY <1>5, <2>3
      <3>2. CASE answering'[t].prompt = None
        BY <2>3, <3>2
      <3>3. CASE answering'[t].prompt # None
        BY <1>5, <2>3, <3>1, <3>3 DEF AssistantInv, HandlersFit
      <3> QED
        BY <3>2, <3>3
    <2> QED
      BY <2>1, <2>2, <2>3
  <1>7. AnswersFollow'
    <2> SUFFICES ASSUME NEW s \in Slots, answering'[s].pc = "ai.last"
                 PROVE  message'[answering'[s].prompt] # "user"
      BY DEF AnswersFollow
    <2>1. answering'[s].prompt # None
      BY <1>6 DEF HandlersFit, Early
    <2> QED
      BY <1>1, <1>5, <2>1
  <1>8. Contiguous'
    BY <1>1 DEF AssistantInv, Contiguous
  <1>9. AnswersArePaid' /\ PromptsKnown'
    BY <1>3, FS_EmptySet DEF AnswersArePaid, PromptsKnown
  <1> QED
    BY <1>4, <1>6, <1>7, <1>8, <1>9 DEF AssistantInv

\* The row goes, or the user deletes the conversation.
LEMMA DropActions ==
  ASSUME B!AssistantAssumption, AssistantInv,
         B!RemoveBot \/ \E r \in Slots : B!DeleteWrite(r)
  PROVE  AssistantInv'
  <1>1. CASE B!RemoveBot
    BY <1>1, DropStep DEF B!RemoveBot
  <1>2. ASSUME NEW r \in Slots, B!DeleteWrite(r) PROVE AssistantInv'
    <2>1. /\ answering[r].pc = "delete.write" /\ B!Drop
          /\ answering' = [answering EXCEPT ![r] = B!Idle]
          /\ UNCHANGED <<bot, made, squat, aiUserId, opened, unanswered>>
      BY <1>2 DEF B!DeleteWrite, B!At, B!Finish, B!row
    <2>2. answering[r].prompt = None /\ aiUserId # 0 /\ (squat => bot = 0)
      BY <2>1, AssistantIdleType DEF AssistantInv, HandlersFit, B!TypeOK, Early
    <2> QED
      BY <2>1, <2>2, DropStep
  <1> QED
    BY <1>1, <1>2

\* A name taken from outside touches no message.
LEMMA SquatStep ==
  ASSUME AssistantInv, B!Squat
  PROVE  AssistantInv'
  <1>1. /\ bot = 0 /\ squat' = ~squat
        /\ UNCHANGED <<bot, made, aiUserId, chat, opened, message, unanswered, answering>>
    BY DEF B!Squat
  <1>2. /\ B!Prompts' = B!Prompts /\ B!Answers' = B!Answers /\ Owing' = Owing
        /\ B!Prompted(Slots)' = B!Prompted(Slots)
    BY <1>1 DEF B!Prompts, B!Answers, B!MessagesBy, Owing, B!Prompted
  <1>3. B!TypeOK'
    BY <1>1, <1>2 DEF AssistantInv, B!TypeOK
  <1>4. HandlersFit' /\ AnswersFollow' /\ Contiguous' /\ AnswersArePaid' /\ PromptsKnown'
    BY <1>1, <1>2
       DEF AssistantInv, HandlersFit, AnswersFollow, Contiguous, AnswersArePaid, PromptsKnown
  <1> QED
    BY <1>3, <1>4 DEF AssistantInv

-----------------------------------------------------------------------------
(* The conversation with it *)

\* The conversation is new, and empty.
LEMMA OpenCreateStep ==
  ASSUME B!AssistantAssumption, AssistantInv, NEW r \in Slots, B!OpenCreate(r)
  PROVE  AssistantInv'
  <1>1. /\ answering[r].pc = "open.create" /\ bot = aiUserId /\ chat = 0 /\ opened < LastChat
        /\ opened' = opened + 1 /\ chat' = opened'
        /\ answering' = [answering EXCEPT ![r] = B!Idle]
        /\ UNCHANGED <<bot, made, squat, aiUserId, message, unanswered>>
    BY DEF B!OpenCreate, B!At, B!Finish, B!row
  <1>2. /\ answering' \in [Slots -> B!Request]
        /\ \A s \in Slots : answering'[s] = IF s = r THEN B!Idle ELSE answering[s]
    BY <1>1, AssistantIdleType DEF AssistantInv, B!TypeOK
  <1>3. answering[r].prompt = None /\ bot # 0
    BY <1>1, AssistantIdleType DEF AssistantInv, HandlersFit, B!TypeOK, Early
  <1>4. opened' \in 1..LastChat /\ opened \in Nat /\ 1..opened \subseteq 1..opened' /\ opened' \notin 1..opened
    BY <1>1 DEF AssistantInv, B!TypeOK, B!AssistantAssumption
  <1>5. B!Prompts = {} /\ B!Answers = {} /\ B!Prompts' = {} /\ B!Answers' = {}
    BY <1>1 DEF AssistantInv, B!TypeOK, B!Prompts, B!Answers, B!MessagesBy
  <1>6. B!TypeOK'
    BY <1>1, <1>2, <1>3, <1>4, <1>5 DEF AssistantInv, B!TypeOK
  <1>7. HandlersFit'
    <2>1. \A s \in Slots : answering'[s].prompt # None =>
             answering'[s].prompt = answering[s].prompt /\ answering'[s].chat = answering[s].chat
      BY <1>2, AssistantIdleType
    <2>2. \A s \in Slots : answering'[s].prompt # None => chat' # answering'[s].chat
      BY <1>1, <1>4, <2>1 DEF AssistantInv, HandlersFit
    <2>3. \A s \in Slots : answering'[s].pc \in Early <=> answering'[s].prompt = None
      BY <1>2, AssistantIdleType DEF AssistantInv, HandlersFit, Early
    <2>4. \A s, t \in Slots : s # t /\ answering'[s].prompt # None =>
             answering'[t].prompt # answering'[s].prompt
      BY <1>2, <2>1, AssistantIdleType DEF AssistantInv, HandlersFit
    <2> QED
      BY <1>1, <1>4, <2>1, <2>2, <2>3, <2>4 DEF AssistantInv, HandlersFit
  <1>8. AnswersFollow'
    BY <1>1, <1>2, <1>5, AssistantIdleType DEF AssistantInv, AnswersFollow
  <1>9. Owing' = {}
    BY <1>5 DEF Owing
  <1>10. Contiguous' /\ AnswersArePaid' /\ PromptsKnown'
    BY <1>1, <1>5, <1>9, FS_EmptySet DEF AssistantInv, Contiguous, AnswersArePaid, PromptsKnown
  <1> QED
    BY <1>6, <1>7, <1>8, <1>10 DEF AssistantInv

\* A handler begins, with no message.
LEMMA StartStep ==
  ASSUME B!AssistantAssumption, AssistantInv, NEW r \in Slots, NEW q \in B!Request,
         q.pc \in Early, q.prompt = None, aiUserId # 0, answering[r] = B!Idle,
         answering' = [answering EXCEPT ![r] = q],
         UNCHANGED <<B!row, chat, opened, message, unanswered>>
  PROVE  AssistantInv'
  <1>1. /\ q.pc # "ai.last" /\ answering[r].pc # "ai.last" /\ answering[r].prompt = None
        /\ UNCHANGED <<bot, made, squat, aiUserId, chat, opened, message, unanswered>>
    BY AssistantIdleType DEF Early, B!row
  <1> QED
    BY <1>1, AssistantQuietStep

\* Steps in which a handler begins.
LEMMA StartActions ==
  ASSUME B!AssistantAssumption, AssistantInv, NEW r \in Slots,
         B!OpenStart(r) \/ B!DeleteFind(r) \/ \E live \in BOOLEAN : B!SendStart(r, live)
  PROVE  AssistantInv'
  <1>0. chat \in B!Chats \cup {0}
    BY DEF AssistantInv, B!TypeOK, B!Chats, B!AssistantAssumption
  <1>1. CASE B!OpenStart(r)
    <2> DEFINE q == [B!Idle EXCEPT !.pc = "open.find"]
    <2>1. q \in B!Request /\ q.pc \in Early /\ q.prompt = None
      BY AssistantIdleType DEF B!Request, B!Await, B!Idle, Early
    <2> QED
      BY <1>1, <2>1, StartStep DEF B!OpenStart
  <1>2. CASE B!DeleteFind(r)
    <2> DEFINE q == [B!Idle EXCEPT !.pc = "delete.write", !.chat = chat]
    <2>1. q \in B!Request /\ q.pc \in Early /\ q.prompt = None
      BY <1>0, AssistantIdleType DEF B!Request, B!Await, B!Idle, Early
    <2> QED
      BY <1>2, <2>1, StartStep DEF B!DeleteFind
  <1>3. ASSUME NEW live \in BOOLEAN, B!SendStart(r, live) PROVE AssistantInv'
    <2> DEFINE q == [B!Idle EXCEPT !.pc = "send.find", !.chat = chat, !.live = live]
    <2>1. q \in B!Request /\ q.pc \in Early /\ q.prompt = None
      BY <1>0, AssistantIdleType DEF B!Request, B!Await, B!Idle, Early
    <2> QED
      BY <1>3, <2>1, StartStep DEF B!SendStart
  <1> QED
    BY <1>1, <1>2, <1>3

\* A handler that only reads, or writes a row that is not of this model.
LEMMA GoStep ==
  ASSUME AssistantInv, NEW r \in Slots, NEW where \in B!Await,
         answering[r].pc \notin {"idle", "ai.last"}, where # "ai.last",
         where \in Early <=> answering[r].pc \in Early, B!Goto(r, where),
         UNCHANGED <<B!row, chat, opened, message, unanswered>>
  PROVE  AssistantInv'
  <1> DEFINE q == [answering[r] EXCEPT !.pc = where]
  <1>1. answering[r] \in B!Request /\ answering' = [answering EXCEPT ![r] = q]
    BY DEF AssistantInv, B!TypeOK, B!Goto
  <1>2. /\ q \in B!Request /\ q.pc = where /\ q.chat = answering[r].chat
        /\ q.prompt = answering[r].prompt
    BY <1>1 DEF B!Request
  <1> HIDE DEF q
  <1>3. /\ aiUserId # 0
        /\ (answering[r].pc \in Early <=> answering[r].prompt = None)
    BY AssistantIdleType DEF AssistantInv, B!TypeOK, HandlersFit
  <1> QED
    BY <1>1, <1>2, <1>3, AssistantQuietStep DEF B!row

\* Steps in which a handler only goes on.
LEMMA AssistantGoActions ==
  ASSUME B!AssistantAssumption, AssistantInv, NEW r \in Slots,
         B!SendLast(r) \/ B!SendMembers(r) \/ B!AiHistory(r) \/ B!AiFind(r)
  PROVE  AssistantInv'
  <1>1. CASE B!SendLast(r)
    <2>1. answering[r].pc = "send.last" /\ answering[r] # B!Idle
      BY <1>1, AssistantIdleType DEF B!SendLast, B!At
    <2>2. CASE B!Goto(r, "send.members") /\ UNCHANGED <<B!row, chat, opened, message, unanswered>>
      BY <2>1, <2>2, GoStep DEF B!Await, Early
    <2>3. CASE B!GiveUp(r)
      BY <2>1, <2>3, EndStep DEF B!GiveUp, B!Finish, B!row
    <2> QED
      BY <1>1, <2>2, <2>3 DEF B!SendLast
  <1>2. CASE B!SendMembers(r)
    BY <1>2, GoStep DEF B!SendMembers, B!At, B!Await, Early
  <1>3. CASE B!AiHistory(r)
    BY <1>3, GoStep DEF B!AiHistory, B!At, B!Await, Early
  <1>4. CASE B!AiFind(r)
    BY <1>4, GoStep DEF B!AiFind, B!At, B!Await, Early
  <1> QED
    BY <1>1, <1>2, <1>3, <1>4

\* Steps in which a handler looks for the conversation.
LEMMA FindActions ==
  ASSUME B!AssistantAssumption, AssistantInv, NEW r \in Slots, B!OpenFind(r) \/ B!SendFind(r)
  PROVE  AssistantInv'
  <1>1. PICK where \in {"open.create", "send.create"} :
           /\ answering[r].pc \in {"open.find", "send.find"} /\ (B!Finish(r) \/ B!Goto(r, where))
           /\ UNCHANGED <<B!row, chat, opened, message, unanswered>>
    BY DEF B!OpenFind, B!SendFind, B!At
  <1>2. answering[r].prompt = None /\ answering[r] # B!Idle
    BY <1>1, AssistantIdleType DEF AssistantInv, HandlersFit, Early
  <1>3. CASE B!Finish(r)
    BY <1>1, <1>2, <1>3, EndStep DEF B!Finish, B!row
  <1>4. CASE B!Goto(r, where)
    BY <1>1, <1>4, GoStep DEF B!Await, Early
  <1> QED
    BY <1>1, <1>3, <1>4

\* The stream goes on, ends or fails.
LEMMA StreamActions ==
  ASSUME B!AssistantAssumption, AssistantInv, NEW r \in Slots, B!AiChunk(r) \/ B!AiEnd(r) \/ B!AiFails(r)
  PROVE  AssistantInv'
  <1>1. /\ answering[r].pc = "ai.stream" /\ answering[r] \in B!Request /\ answering \in [Slots -> B!Request] /\ answering[r] # B!Idle
        /\ aiUserId # 0 /\ answering[r].prompt # None
    BY AssistantIdleType
       DEF B!AiChunk, B!AiEnd, B!AiFails, B!At, AssistantInv, B!TypeOK, HandlersFit, Early
  <1>2. CASE B!AiChunk(r)
    <2> DEFINE q == [answering[r] EXCEPT !.said = TRUE]
    <2>1. /\ q \in B!Request /\ q.pc = "ai.stream" /\ q.chat = answering[r].chat
          /\ q.prompt = answering[r].prompt
      BY <1>1 DEF B!Request
    <2>2. /\ answering' = [answering EXCEPT ![r] = q]
          /\ UNCHANGED <<bot, made, squat, aiUserId, chat, opened, message, unanswered>>
      BY <1>1, <1>2 DEF B!AiChunk, B!row
    <2> HIDE DEF q
    <2> QED
      BY <1>1, <2>1, <2>2, AssistantQuietStep DEF Early
  <1>3. CASE B!AiFails(r)
    <2> DEFINE q == [answering[r] EXCEPT !.said = TRUE, !.pc = "ai.find"]
    <2>1. /\ q \in B!Request /\ q.pc = "ai.find" /\ q.chat = answering[r].chat
          /\ q.prompt = answering[r].prompt
      BY <1>1 DEF B!Request, B!Await
    <2>2. /\ answering' = [answering EXCEPT ![r] = q]
          /\ UNCHANGED <<bot, made, squat, aiUserId, chat, opened, message, unanswered>>
      BY <1>1, <1>3 DEF B!AiFails, B!row, B!Request
    <2> HIDE DEF q
    <2> QED
      BY <1>1, <2>1, <2>2, AssistantQuietStep DEF Early
  <1>4. CASE B!AiEnd(r)
    <2>1. CASE B!Goto(r, "ai.find") /\ UNCHANGED <<B!row, chat, opened, message, unanswered>>
      BY <1>1, <2>1, GoStep DEF B!Await, Early
    <2>2. CASE B!GiveUp(r)
      BY <1>1, <2>2, EndStep DEF B!GiveUp, B!Finish, B!row
    <2> QED
      BY <1>4, <2>1, <2>2 DEF B!AiEnd
  <1> QED
    BY <1>2, <1>3, <1>4

\* Steps after which nothing more is sent for a prompt.
LEMMA AiLastStep ==
  ASSUME B!AssistantAssumption, AssistantInv, NEW r \in Slots, B!AiLast(r) \/ B!Fail(r)
  PROVE  AssistantInv'
  <1>1. CASE B!AiLast(r)
    BY <1>1, AssistantIdleType, EndStep DEF B!AiLast, B!At, B!Finish, B!row
  <1>2. CASE B!Fail(r)
    BY <1>2, EndStep DEF B!Fail, B!GiveUp, B!Finish, B!row
  <1> QED
    BY <1>1, <1>2

-----------------------------------------------------------------------------
(* Messages *)

\* A message is created behind all that were, by a handler about the conversation
\* that is there.
LEMMA Created ==
  ASSUME B!AssistantAssumption, AssistantInv, NEW r \in Slots, NEW m \in B!Messages,
         NEW who \in {"user", "bot"}, B!Create(r, m, who)
  PROVE  /\ chat # 0 /\ bot # 0 /\ chat = answering[r].chat /\ chat \in 1..opened
         /\ message[m] = "unborn" /\ m # None
         /\ message' \in [B!Messages -> {"unborn", "user", "bot", "gone"}]
         /\ \A n \in B!Messages : message'[n] = IF n = m THEN who ELSE message[n]
         /\ Contiguous'
         /\ \A n \in B!Messages : message[n] # "unborn" => m > n
  <1>1. chat # 0 /\ chat = answering[r].chat /\ message[m] = "unborn" /\ message' = [message EXCEPT ![m] = who]
        /\ \A n \in 1..(m - 1) : message[n] # "unborn"
    BY DEF B!Create
  <1>2. chat # 0 /\ bot # 0 /\ chat \in 1..opened
    BY <1>1 DEF AssistantInv, B!TypeOK, B!AssistantAssumption
  <1>3. /\ message' \in [B!Messages -> {"unborn", "user", "bot", "gone"}]
        /\ \A n \in B!Messages : message'[n] = IF n = m THEN who ELSE message[n]
    BY <1>1 DEF AssistantInv, B!TypeOK
  <1>4. m # None /\ \A n \in B!Messages : n \in Nat /\ (n < m => n \in 1..(m - 1))
    BY DEF B!Messages, B!AssistantAssumption
  <1>5. Contiguous'
    BY <1>1, <1>3, <1>4 DEF AssistantInv, Contiguous
  <1>6. \A n \in B!Messages : message[n] # "unborn" => m > n
    BY <1>1, <1>4 DEF AssistantInv, Contiguous
  <1> QED
    BY <1>1, <1>2, <1>3, <1>4, <1>5, <1>6

\* A new prompt is one that its handler will answer.
LEMMA SendCreateStep ==
  ASSUME B!AssistantAssumption, AssistantInv, NEW r \in Slots, NEW m \in B!Messages, B!SendCreate(r, m)
  PROVE  AssistantInv'
  <1> DEFINE q == [answering[r] EXCEPT !.pc = "send.last", !.prompt = m]
  <1>1. /\ answering[r].pc = "send.create" /\ B!Create(r, m, "user")
        /\ answering' = [answering EXCEPT ![r].pc = "send.last", ![r].prompt = m]
        /\ UNCHANGED <<bot, made, squat, aiUserId, chat, opened, unanswered>>
        /\ answering[r] \in B!Request /\ answering \in [Slots -> B!Request]
    BY DEF B!SendCreate, B!At, B!row, AssistantInv, B!TypeOK
  <1>2. q \in B!Request /\ q.pc = "send.last" /\ q.chat = answering[r].chat /\ q.prompt = m
    BY <1>1 DEF B!Request, B!Await
  <1>3. answering' = [answering EXCEPT ![r] = q]
    BY <1>1 DEF B!Request
  <1> HIDE DEF q
  <1>4. /\ answering' \in [Slots -> B!Request]
        /\ \A s \in Slots : answering'[s] = IF s = r THEN q ELSE answering[s]
    BY <1>1, <1>2, <1>3
  <1>5. /\ chat # 0 /\ bot # 0 /\ chat = answering[r].chat /\ chat \in 1..opened
        /\ message[m] = "unborn" /\ m # None
        /\ message' \in [B!Messages -> {"unborn", "user", "bot", "gone"}]
        /\ \A n \in B!Messages : message'[n] = IF n = m THEN "user" ELSE message[n]
        /\ Contiguous'
    BY <1>1, Created
  <1>6. B!Prompts' = B!Prompts \cup {m} /\ B!Answers' = B!Answers
    BY <1>5 DEF B!Prompts, B!Answers, B!MessagesBy
  <1>7. answering[r].prompt = None /\ \A s \in Slots : answering[s].prompt # m
    BY <1>1, <1>5 DEF AssistantInv, HandlersFit, Early
  <1>8. Owing' = Owing \cup {m} /\ m \notin B!Prompts
    <2>1. m \notin B!Prompts
      BY <1>5 DEF B!Prompts, B!MessagesBy
    <2>2. m \in Owing'
      BY <1>2, <1>4, <1>6 DEF Owing
    <2>3. ASSUME NEW p \in B!Prompts PROVE p \in Owing' <=> p \in Owing
      <3>1. p # None /\ p # m
        BY <2>1 DEF B!Prompts, B!MessagesBy, B!Messages, B!AssistantAssumption
      <3> QED
        BY <1>2, <1>4, <1>6, <1>7, <3>1 DEF Owing
    <2>4. Owing \subseteq B!Prompts /\ Owing' \subseteq B!Prompts'
      BY DEF Owing
    <2> QED
      BY <1>6, <2>1, <2>2, <2>3, <2>4
  <1>9. B!TypeOK'
    BY <1>1, <1>4, <1>5, <1>6, AssistantIdleType DEF AssistantInv, B!TypeOK
  <1>10. HandlersFit'
    <2> SUFFICES ASSUME NEW s \in Slots
                 PROVE  /\ answering'[s].pc \in Early <=> answering'[s].prompt = None
                        /\ answering'[s].prompt # None =>
                                    /\ answering'[s].chat \in 1..opened
                                    /\ message'[answering'[s].prompt] # "unborn"
                                    /\ chat = answering'[s].chat => message'[answering'[s].prompt] = "user"
                                    /\ \A t \in Slots \ {s} : answering'[t].prompt # answering'[s].prompt
      BY <1>1 DEF HandlersFit
    <2>1. CASE s = r
      BY <1>2, <1>4, <1>5, <1>7, <2>1 DEF Early
    <2>2. CASE s # r
      <3>1. answering'[s] = answering[s]
        BY <1>4, <2>2
      <3>2. answering[s].prompt # None => answering[s].prompt \in B!Messages
        BY DEF AssistantInv, B!TypeOK, B!Request
      <3> QED
        BY <1>2, <1>4, <1>5, <1>7, <2>2, <3>1, <3>2 DEF AssistantInv, HandlersFit
    <2> QED
      BY <2>1, <2>2
  <1>11. AnswersFollow'
    <2> SUFFICES ASSUME NEW s \in Slots, answering'[s].pc = "ai.last"
                 PROVE  message'[answering'[s].prompt] # "user" \/ \E n \in B!Answers : n > answering'[s].prompt
      BY <1>6 DEF AnswersFollow
    <2>1. s # r /\ answering'[s] = answering[s]
      BY <1>2, <1>4
    <2>2. answering[s].prompt \in B!Messages
      BY <2>1 DEF AssistantInv, B!TypeOK, B!Request, HandlersFit, Early
    <2> QED
      BY <1>5, <1>7, <2>1, <2>2 DEF AssistantInv, AnswersFollow
  <1>12. AnswersArePaid'
    <2>1. B!Prompts' \ Owing' = B!Prompts \ Owing
      BY <1>6, <1>8
    <2> QED
      BY <1>6, <2>1 DEF AssistantInv, AnswersArePaid
  <1>13. PromptsKnown'
    <2> SUFFICES ASSUME NEW p \in B!Prompts'
                 PROVE  p \in unanswered \/ p \in B!Prompted(Slots)' \/ \E n \in B!Answers : n > p
      BY <1>1, <1>6 DEF PromptsKnown
    <2>1. CASE p = m
      BY <1>2, <1>4, <1>5, <2>1 DEF B!Prompted
    <2>2. CASE p \in B!Prompts
      BY <1>2, <1>4, <1>7, <2>2 DEF AssistantInv, PromptsKnown, B!Prompted
    <2> QED
      BY <1>6, <2>1, <2>2
  <1> QED
    BY <1>5, <1>9, <1>10, <1>11, <1>12, <1>13 DEF AssistantInv

\* The message of the handler is there, and it is answered after it.
LEMMA AiCreateStep ==
  ASSUME B!AssistantAssumption, AssistantInv, NEW r \in Slots, NEW m \in B!Messages, B!AiCreate(r, m)
  PROVE  AssistantInv'
  <1> DEFINE q == [answering[r] EXCEPT !.pc = "ai.last"]
             p == answering[r].prompt
  <1>1. /\ answering[r].pc = "ai.create" /\ B!Create(r, m, "bot") /\ answering' = [answering EXCEPT ![r] = q]
        /\ UNCHANGED <<bot, made, squat, aiUserId, chat, opened, unanswered>>
        /\ answering[r] \in B!Request /\ answering \in [Slots -> B!Request]
    BY DEF B!AiCreate, B!At, B!Goto, B!row, AssistantInv, B!TypeOK
  <1>2. q \in B!Request /\ q.pc = "ai.last" /\ q.chat = answering[r].chat /\ q.prompt = p
    BY <1>1 DEF B!Request, B!Await
  <1> HIDE DEF q
  <1>4. /\ answering' \in [Slots -> B!Request]
        /\ \A s \in Slots : answering'[s] = IF s = r THEN q ELSE answering[s]
    BY <1>1, <1>2
  <1>5. /\ chat # 0 /\ bot # 0 /\ chat = answering[r].chat /\ chat \in 1..opened
        /\ message[m] = "unborn" /\ m # None
        /\ message' \in [B!Messages -> {"unborn", "user", "bot", "gone"}]
        /\ \A n \in B!Messages : message'[n] = IF n = m THEN "bot" ELSE message[n]
        /\ Contiguous'
        /\ \A n \in B!Messages : message[n] # "unborn" => m > n
    BY <1>1, Created
  <1>6. B!Prompts' = B!Prompts /\ B!Answers' = B!Answers \cup {m} /\ m \notin B!Answers
    BY <1>5 DEF B!Prompts, B!Answers, B!MessagesBy
  <1>7. p # None /\ p \in B!Messages /\ message[p] = "user" /\ p \in B!Prompts /\ m > p
    BY <1>1, <1>5 DEF AssistantInv, HandlersFit, Early, B!Request, B!Prompts, B!MessagesBy
  <1>8. \A s \in Slots \ {r} : answering[s].prompt # p
    BY <1>7 DEF AssistantInv, HandlersFit
  <1>9. p \in Owing /\ Owing' = Owing \ {p}
    BY <1>1, <1>2, <1>4, <1>6, <1>7, <1>8 DEF Owing
  <1>10. B!TypeOK'
    BY <1>1, <1>4, <1>5, <1>6, AssistantIdleType DEF AssistantInv, B!TypeOK
  <1>11. HandlersFit'
    <2> SUFFICES ASSUME NEW s \in Slots
                 PROVE  /\ answering'[s].pc \in Early <=> answering'[s].prompt = None
                        /\ answering'[s].prompt # None =>
                                    /\ answering'[s].chat \in 1..opened
                                    /\ message'[answering'[s].prompt] # "unborn"
                                    /\ chat = answering'[s].chat => message'[answering'[s].prompt] = "user"
                                    /\ \A t \in Slots \ {s} : answering'[t].prompt # answering'[s].prompt
      BY <1>1 DEF HandlersFit
    <2>1. /\ answering'[s].prompt = answering[s].prompt /\ answering'[s].chat = answering[s].chat
          /\ answering'[s].pc = IF s = r THEN "ai.last" ELSE answering[s].pc
          /\ \A t \in Slots \ {s} : answering'[t].prompt = answering[t].prompt
      BY <1>2, <1>4
    <2>2. answering[s].prompt # None => answering[s].prompt \in B!Messages
      BY DEF AssistantInv, B!TypeOK, B!Request
    <2>3. answering'[s].pc \in Early <=> answering[s].pc \in Early
      BY <1>1, <2>1 DEF Early
    <2> QED
      BY <1>5, <2>1, <2>2, <2>3 DEF AssistantInv, HandlersFit
  <1>12. AnswersFollow'
    <2> SUFFICES ASSUME NEW s \in Slots, answering'[s].pc = "ai.last"
                 PROVE  message'[answering'[s].prompt] # "user" \/ \E n \in B!Answers \cup {m} : n > answering'[s].prompt
      BY <1>6 DEF AnswersFollow
    <2>1. CASE s = r
      BY <1>2, <1>4, <1>7, <2>1
    <2>2. CASE s # r
      <3>1. answering'[s] = answering[s]
        BY <1>4, <2>2
      <3>2. answering[s].prompt \in B!Messages
        BY <3>1 DEF AssistantInv, B!TypeOK, B!Request, HandlersFit, Early
      <3> QED
        BY <1>5, <3>1, <3>2 DEF AssistantInv, AnswersFollow
    <2> QED
      BY <2>1, <2>2
  <1>13. AnswersArePaid'
    <2> DEFINE paid == B!Prompts \ Owing
    <2>1. /\ B!Prompts' \ Owing' = paid \cup {p} /\ p \notin paid
          /\ paid \subseteq B!Messages /\ B!Answers \subseteq B!Messages
      BY <1>6, <1>7, <1>9 DEF B!Prompts, B!Answers, B!MessagesBy
    <2>2. /\ IsFiniteSet(paid) /\ IsFiniteSet(B!Answers)
          /\ Cardinality(paid) \in Nat /\ Cardinality(B!Answers) \in Nat
      BY <2>1, MessagesFinite
    <2>3. /\ Cardinality(paid \cup {p}) = Cardinality(paid) + 1
          /\ Cardinality(B!Answers \cup {m}) = Cardinality(B!Answers) + 1
      BY <1>6, <2>1, <2>2, FS_AddElement
    <2>4. Cardinality(B!Answers) <= Cardinality(paid)
      BY DEF AssistantInv, AnswersArePaid
    <2> HIDE DEF paid
    <2>5. Cardinality(B!Answers \cup {m}) <= Cardinality(paid \cup {p})
      BY <2>2, <2>3, <2>4
    <2> QED
      BY <1>6, <2>1, <2>5 DEF AnswersArePaid
  <1>14. PromptsKnown'
    <2>1. B!Prompted(Slots)' = B!Prompted(Slots)
      BY <1>2, <1>4 DEF B!Prompted
    <2> QED
      BY <1>1, <1>6, <2>1 DEF AssistantInv, PromptsKnown
  <1> QED
    BY <1>5, <1>10, <1>11, <1>12, <1>13, <1>14 DEF AssistantInv

-----------------------------------------------------------------------------

\* Every step keeps it.
LEMMA AssistantNext == B!AssistantAssumption /\ AssistantInv /\ [B!Next]_(B!vars) => AssistantInv'
  <1> SUFFICES ASSUME B!AssistantAssumption, AssistantInv, [B!Next]_(B!vars) PROVE AssistantInv'
    OBVIOUS
  <1>1. CASE UNCHANGED B!vars
    BY <1>1
       DEF B!vars, B!row, AssistantInv, B!TypeOK, HandlersFit, AnswersFollow, Contiguous,
           AnswersArePaid, PromptsKnown, Owing, B!Prompts, B!Answers, B!MessagesBy, B!Prompted
  <1> QED
    BY <1>1, BootStep, StopStep, DropActions, SquatStep, OpenCreateStep, StartActions,
       AssistantGoActions, FindActions, StreamActions, AiLastStep, SendCreateStep, AiCreateStep
       DEF B!Next

\* What the invariant says of the numbers of prompts and answers.
LEMMA PromptsFollows == B!AssistantAssumption /\ AssistantInv => B!PromptsAnswered
  <1> SUFFICES ASSUME B!AssistantAssumption, AssistantInv PROVE B!PromptsAnswered
    OBVIOUS
  <1>1. /\ B!Prompts \ Owing \subseteq B!Prompts /\ B!Prompts \subseteq B!Messages
        /\ B!Answers \subseteq B!Messages
    BY DEF B!Prompts, B!Answers, B!MessagesBy
  <1>2. Cardinality(B!Prompts \ Owing) <= Cardinality(B!Prompts)
    BY <1>1, MessagesFinite, FS_Subset
  <1>3. /\ Cardinality(B!Answers) \in Nat /\ Cardinality(B!Prompts \ Owing) \in Nat
        /\ Cardinality(B!Prompts) \in Nat
    BY <1>1, MessagesFinite
  <1> QED
    BY AssistantCount, <1>2, <1>3 DEF AssistantInv, AnswersArePaid, PromptsKnown, B!PromptsAnswered

-----------------------------------------------------------------------------
(* Sign-in, refresh tokens and accounts *)

SP == INSTANCE SignInProofs WITH Accounts <- MoreUsers,
        SeedEmails <- {AdminEmail, BotEmail}, Requests <- Slots, req <- signing
RP == INSTANCE RefreshTokensProofs WITH Accounts <- Users, Requests <- Slots, req <- refreshing
AP == INSTANCE AccountsProofs WITH Accounts <- Ids, Emails <- MoreEmails, Requests <- Slots,
        user <- account, req <- administering

\* The proofs are about the instance: their definitions are those of the module.
LEMMA SignInAlike ==
  /\ S!SignInAssumption <=> SP!SignInAssumption
  /\ S!Init <=> SP!Init
  /\ S!Next <=> SP!Next
  /\ S!vars = SP!vars
  /\ S!TypeOK <=> SP!TypeOK
  /\ S!GuessesBounded <=> SP!GuessesBounded
  /\ S!LockIsTimed <=> SP!LockIsTimed
  /\ S!NoBorrowedCode <=> SP!NoBorrowedCode
  BY DEF S!SignInAssumption, SP!SignInAssumption, S!rows, SP!rows, S!counter, SP!counter, S!history,
         SP!history, S!vars, SP!vars, S!Codes, SP!Codes, S!User, SP!User, S!Code, SP!Code, S!Await, SP!Await,
         S!Request, SP!Request, S!NoUser, SP!NoUser, S!NoCode, SP!NoCode, S!Idle, SP!Idle,
         S!TypeOK, SP!TypeOK, S!Init, SP!Init, S!Holder, SP!Holder, S!CodesOf, SP!CodesOf, S!At,
         SP!At, S!InFlight, SP!InFlight, S!Goto, SP!Goto, S!Finish, SP!Finish, S!Begin, SP!Begin,
         S!DeleteCodes, SP!DeleteCodes, S!CreateCode, SP!CreateCode, S!ClearCounter,
         SP!ClearCounter, S!LoginStart, SP!LoginStart, S!LoginWrong, SP!LoginWrong, S!LoginRight,
         SP!LoginRight, S!LoginCount, SP!LoginCount, S!LoginResent, SP!LoginResent, S!LoginExpire,
         SP!LoginExpire, S!LoginCode, SP!LoginCode, S!LoginUpdate, SP!LoginUpdate, S!LoginReset,
         SP!LoginReset, S!VerifyFind, SP!VerifyFind, S!VerifyCode, SP!VerifyCode, S!VerifyRefused,
         SP!VerifyRefused, S!VerifyExpired, SP!VerifyExpired, S!VerifyUse, SP!VerifyUse,
         S!VerifyUpdate, SP!VerifyUpdate, S!ResendFind, SP!ResendFind, S!ResendClear,
         SP!ResendClear, S!ResendCreate, SP!ResendCreate, S!ResendMail, SP!ResendMail,
         S!ResendUnsent, SP!ResendUnsent, S!ResendUndo, SP!ResendUndo, S!Register, SP!Register,
         S!DeleteAccount, SP!DeleteAccount, S!Starting, SP!Starting, S!SeedUpdate,
         SP!SeedUpdate, S!SeedCreate, SP!SeedCreate, S!CounterExpires, SP!CounterExpires, S!CodeExpires,
         SP!CodeExpires, S!Fail, SP!Fail, S!Impossible, SP!Impossible, S!Give, SP!Give, S!Step,
         SP!Step, S!Next, SP!Next, S!GuessesBounded, SP!GuessesBounded, S!LockIsTimed,
         SP!LockIsTimed, S!NoBorrowedCode, SP!NoBorrowedCode, S!Cardinality, SP!Cardinality,
         S!IsFiniteSet, SP!IsFiniteSet

\* So are those of the refresh tokens.
LEMMA TokensAlike ==
  /\ R!RefreshTokensAssumption <=> RP!RefreshTokensAssumption
  /\ R!Init <=> RP!Init
  /\ R!Next <=> RP!Next
  /\ R!vars = RP!vars
  /\ R!TypeOK <=> RP!TypeOK
  /\ R!PairsBounded <=> RP!PairsBounded
  /\ R!LogoutBounded <=> RP!LogoutBounded
  BY DEF R!RefreshTokensAssumption, RP!RefreshTokensAssumption, R!vars, RP!vars, R!Tok, RP!Tok,
         R!Request, RP!Request, R!Idle, RP!Idle, R!Unborn, RP!Unborn, R!TypeOK, RP!TypeOK, R!Init,
         RP!Init, R!At, RP!At, R!Goto, RP!Goto, R!Finish, RP!Finish, R!Revoke, RP!Revoke,
         R!SignedIn, RP!SignedIn, R!RefreshFind, RP!RefreshFind, R!RefreshUser, RP!RefreshUser,
         R!RefreshDead, RP!RefreshDead, R!RefreshRevoke, RP!RefreshRevoke, R!RefreshCreate,
         RP!RefreshCreate, R!Logout, RP!Logout, R!DeleteAccount, RP!DeleteAccount, R!Expire,
         RP!Expire, R!Fail, RP!Fail, R!Next, RP!Next, R!From, RP!From, R!PairsBounded,
         RP!PairsBounded, R!LogoutBounded, RP!LogoutBounded, R!Cardinality, RP!Cardinality,
         R!IsFiniteSet, RP!IsFiniteSet

\* And those of the accounts.
LEMMA AccountsAlike ==
  /\ A!AccountsAssumption <=> AP!AccountsAssumption
  /\ A!Init <=> AP!Init
  /\ A!Next <=> AP!Next
  /\ A!vars = AP!vars
  /\ A!TypeOK <=> AP!TypeOK
  /\ A!SupersAreAppointed <=> AP!SupersAreAppointed
  BY DEF A!AccountsAssumption, AP!AccountsAssumption, A!vars, AP!vars, A!Names, AP!Names, A!User,
         AP!User, A!Await, AP!Await, A!Request, AP!Request, A!NoUser, AP!NoUser, A!Idle, AP!Idle,
         A!There, AP!There, A!Supers, AP!Supers, A!TypeOK, AP!TypeOK, A!Init, AP!Init, A!Holder,
         AP!Holder, A!Called, AP!Called, A!Linked, AP!Linked, A!At, AP!At, A!Goto, AP!Goto,
         A!Finish, AP!Finish, A!Begin, AP!Begin, A!Read, AP!Read, A!Create, AP!Create,
         A!SearchName, AP!SearchName, A!SeedUpdate, AP!SeedUpdate, A!SeedCreate, AP!SeedCreate,
         A!Stop, AP!Stop, A!RegisterStart, AP!RegisterStart, A!RegisterEmail, AP!RegisterEmail,
         A!RegisterName, AP!RegisterName, A!RegisterCreate, AP!RegisterCreate, A!GoogleStart,
         AP!GoogleStart, A!GoogleFind, AP!GoogleFind, A!GoogleCreate, AP!GoogleCreate,
         A!GoogleUpdate, AP!GoogleUpdate, A!OwnStart, AP!OwnStart, A!RenameFind, AP!RenameFind,
         A!RenameWrite, AP!RenameWrite, A!LeaveFind, AP!LeaveFind, A!LeaveDelete, AP!LeaveDelete,
         A!AdminStart, AP!AdminStart, A!AdminCreate, AP!AdminCreate, A!CreateName, AP!CreateName,
         A!CreateEmail, AP!CreateEmail, A!CreateCreate, AP!CreateCreate, A!AdminUpdate,
         AP!AdminUpdate, A!UpdateWrite, AP!UpdateWrite, A!AdminRemove, AP!AdminRemove,
         A!RemoveDelete, AP!RemoveDelete, A!DevStart, AP!DevStart, A!DevFind, AP!DevFind, A!DevDelete,
         AP!DevDelete, A!Fail, AP!Fail, A!Step, AP!Step, A!Start, AP!Start,
         A!Next, AP!Next, A!SupersAreAppointed, AP!SupersAreAppointed

-----------------------------------------------------------------------------
(* The services *)

\* What every state satisfies, whichever service runs.
ServicesInv ==
  /\ service = "sign-in" => SP!SignInv
  /\ service = "tokens" => RP!TokInv
  /\ service = "profiles" => ProfilesInv
  /\ service = "presence" => PresenceInv
  /\ service = "uploads" => UploadsInv
  /\ service = "disk" => DiskInv
  /\ service = "marks" => MarksInv
  /\ service = "pages" => PagesInv
  /\ service = "accounts" => AP!TypeInv /\ AP!RoleInv
  /\ service = "assistant" => AssistantInv

\* The service that runs begins as its module says.
LEMMA Begins ==
  ASSUME Init
  PROVE  /\ service = "sign-in" => S!Init
         /\ service = "tokens" => R!Init
         /\ service = "profiles" => P!Init
         /\ service = "presence" => O!Init
         /\ service = "uploads" => U!Init
         /\ service = "disk" => D!Init
         /\ service = "marks" => M!Init
         /\ service = "pages" => G!Init
         /\ service = "accounts" => A!Init
         /\ service = "assistant" => B!Init
  BY DEF Init

\* It goes on as its module says, and no other one begins.
LEMMA GoesOn ==
  ASSUME [Next]_vars
  PROVE  /\ service' = service
         /\ service = "sign-in" => [S!Next]_(S!vars)
         /\ service = "tokens" => [R!Next]_(R!vars)
         /\ service = "profiles" => [P!Next]_(P!vars)
         /\ service = "presence" => [O!Next]_(O!vars)
         /\ service = "uploads" => [U!Next]_(U!vars)
         /\ service = "disk" => [D!Next]_(D!vars)
         /\ service = "marks" => [M!Next]_(M!vars)
         /\ service = "pages" => [G!Next]_(G!vars)
         /\ service = "accounts" => [A!Next]_(A!vars)
         /\ service = "assistant" => [B!Next]_(B!vars)
  <1>1. CASE UNCHANGED vars
    <2>1. UNCHANGED S!vars /\ UNCHANGED R!vars
      BY <1>1 DEF vars, signIn, tokens, S!vars, R!vars
    <2>2. UNCHANGED P!vars /\ UNCHANGED O!vars
      BY <1>1 DEF vars, profiles, presence, P!vars, O!vars
    <2>3. UNCHANGED U!vars /\ UNCHANGED D!vars
      BY <1>1 DEF vars, uploads, diskFiles, U!vars, D!vars
    <2>4. UNCHANGED M!vars /\ UNCHANGED G!vars
      BY <1>1 DEF vars, reactions, pages, M!vars, M!rows, M!history, G!vars
    <2>5. UNCHANGED A!vars /\ UNCHANGED B!vars
      BY <1>1 DEF vars, identities, assistant, A!vars, B!vars, B!row
    <2>6. service' = service
      BY <1>1 DEF vars
    <2> QED
      BY <2>1, <2>2, <2>3, <2>4, <2>5, <2>6
  <1>2. CASE Next
    BY <1>2 DEF Next
  <1> QED
    BY <1>1, <1>2

\* It holds at first.
LEMMA ServicesInit == Init => ServicesInv
  <1> SUFFICES ASSUME Init PROVE ServicesInv
    OBVIOUS
  <1>1. service = "sign-in" => SP!SignInv
    BY Begins, InstancesAssumption, SignInAlike, SP!SignInInit
  <1>2. service = "tokens" => RP!TokInv
    BY Begins, InstancesAssumption, TokensAlike, RP!TokInit
  <1>3. service = "profiles" => ProfilesInv
    BY Begins, InstancesAssumption, ProfilesInit
  <1>4. service = "presence" => PresenceInv
    BY Begins, PresenceInit
  <1>5. service = "uploads" => UploadsInv
    BY Begins, UploadsInit
  <1>6. service = "disk" => DiskInv
    BY Begins, InstancesAssumption, DiskInit
  <1>7. service = "marks" => MarksInv
    BY Begins, InstancesAssumption, MarksInit
  <1>8. service = "pages" => PagesInv
    BY Begins, InstancesAssumption, PagesInit
  <1>9. service = "accounts" => AP!TypeInv /\ AP!RoleInv
    BY Begins, InstancesAssumption, AccountsAlike, AP!TypeInit, AP!RoleInit
  <1>10. service = "assistant" => AssistantInv
    BY Begins, InstancesAssumption, AssistantInit
  <1> QED
    BY <1>1, <1>2, <1>3, <1>4, <1>5, <1>6, <1>7, <1>8, <1>9, <1>10 DEF ServicesInv

\* Every step of the service that runs keeps it.
LEMMA ServicesNext == ServicesInv /\ [Next]_vars => ServicesInv'
  <1> SUFFICES ASSUME ServicesInv, [Next]_vars PROVE ServicesInv'
    OBVIOUS
  <1>0. service' = service
    BY GoesOn
  <1>1. service = "sign-in" => SP!SignInv'
    <2>1. service = "sign-in" => [SP!Next]_(SP!vars)
      BY GoesOn, SignInAlike DEF S!vars, SP!vars
    <2> QED
      BY <2>1, InstancesAssumption, SignInAlike, SP!SignInNext DEF ServicesInv
  <1>2. service = "tokens" => RP!TokInv'
    <2>1. service = "tokens" => [RP!Next]_(RP!vars)
      BY GoesOn, TokensAlike DEF R!vars, RP!vars
    <2> QED
      BY <2>1, InstancesAssumption, TokensAlike, RP!TokNext DEF ServicesInv
  <1>3. service = "profiles" => ProfilesInv'
    BY GoesOn, InstancesAssumption, ProfilesNext DEF ServicesInv
  <1>4. service = "presence" => PresenceInv'
    BY GoesOn, PresenceNext DEF ServicesInv
  <1>5. service = "uploads" => UploadsInv'
    BY GoesOn, UploadsNext DEF ServicesInv
  <1>6. service = "disk" => DiskInv'
    BY GoesOn, InstancesAssumption, DiskNext DEF ServicesInv
  <1>7. service = "marks" => MarksInv'
    BY GoesOn, InstancesAssumption, MarksNext DEF ServicesInv
  <1>8. service = "pages" => PagesInv'
    BY GoesOn, InstancesAssumption, PagesNext DEF ServicesInv
  <1>9. service = "accounts" => AP!TypeInv' /\ AP!RoleInv'
    <2>1. service = "accounts" => [AP!Next]_(AP!vars)
      BY GoesOn, AccountsAlike DEF A!vars, AP!vars
    <2> QED
      BY <2>1, InstancesAssumption, AccountsAlike, AP!TypeNext, AP!RoleNext DEF ServicesInv
  <1>10. service = "assistant" => AssistantInv'
    BY GoesOn, InstancesAssumption, AssistantNext DEF ServicesInv
  <1> QED
    BY <1>0, <1>1, <1>2, <1>3, <1>4, <1>5, <1>6, <1>7, <1>8, <1>9, <1>10 DEF ServicesInv

\* Every reachable state satisfies the invariant.
LEMMA ServicesInvariant == Spec => []ServicesInv
  BY ServicesInit, ServicesNext, PTL DEF Spec

\* Whichever service runs, its rows, keys and handlers have their types and refer
\* to what exists, however its handlers overlap, fail or are stopped.
THEOREM ServicesTypes == Spec => []TypeOK
  <1>1. ServicesInv => TypeOK
    <2> SUFFICES ASSUME ServicesInv PROVE TypeOK
      OBVIOUS
    <2>1. service = "sign-in" => S!TypeOK
      BY InstancesAssumption, SignInAlike, SP!SignInImplies DEF ServicesInv
    <2>2. service = "tokens" => R!TypeOK
      BY TokensAlike DEF ServicesInv, RP!TokInv
    <2>3. service = "accounts" => A!TypeOK
      BY AccountsAlike DEF ServicesInv, AP!TypeInv
    <2> QED
      BY <2>1, <2>2, <2>3 DEF ServicesInv, TypeOK, ProfilesInv, PresenceInv, UploadsInv, DiskInv,
                              MarksInv, PagesInv, AssistantInv
  <1> QED
    BY <1>1, ServicesInvariant, PTL

\* However logins overlap, fewer passwords are refused before the counter goes than
\* the limit and the requests that run together, apart from lost increments.
THEOREM GuessesSafety == Spec => []GuessesBounded
  <1>1. ServicesInv => GuessesBounded
    BY InstancesAssumption, SignInAlike, SP!SignInImplies DEF ServicesInv, GuessesBounded
  <1> QED
    BY <1>1, ServicesInvariant, PTL

\* A counter of failed logins has a lifetime unless its EXPIRE is due or was lost.
THEOREM LockSafety == Spec => []LockIsTimed
  <1>1. ServicesInv => LockIsTimed
    BY InstancesAssumption, SignInAlike, SP!SignInImplies DEF ServicesInv, LockIsTimed
  <1> QED
    BY <1>1, ServicesInvariant, PTL

\* No account is verified by a code that another was mailed, also when emails change
\* hands; what needs no code is the seeds of the start.
THEOREM VerifySafety == Spec => []NoBorrowedCode
  <1>1. ServicesInv => NoBorrowedCode
    BY InstancesAssumption, SignInAlike, SP!SignInImplies DEF ServicesInv, NoBorrowedCode
  <1> QED
    BY <1>1, ServicesInvariant, PTL

\* No more refresh tokens come from one than requests run at once.
THEOREM PairsSafety == Spec => []PairsBounded
  <1>1. ServicesInv => PairsBounded
    BY InstancesAssumption, TokensAlike, RP!PairsFollows DEF ServicesInv, PairsBounded
  <1> QED
    BY <1>1, ServicesInvariant, PTL

\* A logout leaves fewer tokens, of those refreshed from the one it names, in use than
\* requests run at once.
THEOREM LogoutSafety == Spec => []LogoutBounded
  <1>1. ServicesInv => LogoutBounded
    BY InstancesAssumption, TokensAlike, RP!LogoutFollows DEF ServicesInv, LogoutBounded
  <1> QED
    BY <1>1, ServicesInvariant, PTL

\* A cached profile differs from the rows, the time of the last login included, only
\* while a handler is on the way to drop or renew it, or for a cause on record.
THEOREM StaleSafety == Spec => []StaleIsExplained
  <1>1. ServicesInv => StaleIsExplained
    BY DEF ServicesInv, StaleIsExplained, ProfilesInv
  <1> QED
    BY <1>1, ServicesInvariant, PTL

\* isOnline differs from having a socket for known causes only, whatever sockets
\* of one user open and close side by side: offline with a socket only where the
\* disconnection of another was written after the handshake of each.
THEOREM PresenceSafety == Spec => []PresenceExplained
  <1>1. ServicesInv => PresenceExplained
    BY PresenceFollows DEF ServicesInv, PresenceExplained
  <1> QED
    BY <1>1, ServicesInvariant, PTL

\* Whatever jobs overlap, fail or stop, a row without its object is between the
\* two operations of a deletion, or was left by one, and an object without a row
\* is between those of an upload, or was left by one.
THEOREM StoresSafety == Spec => []StoresAgree
  <1>1. ServicesInv => StoresAgree
    BY DEF ServicesInv, StoresAgree, UploadsInv
  <1> QED
    BY <1>1, ServicesInvariant, PTL

\* A success is true of each file of the request, also when another request
\* deletes the same files meanwhile.
THEOREM AnswersSafety == Spec => []AnswersHold
  <1>1. ServicesInv => AnswersHold
    BY AnswersFollowed DEF ServicesInv, AnswersHold
  <1> QED
    BY <1>1, ServicesInvariant, PTL

\* A url shows its file until that is deleted, unless another whose name becomes the
\* same on the disk was uploaded, or begun to be, in the same millisecond.
THEOREM UrlSafety == Spec => []UrlShowsItsFile
  <1>1. ServicesInv => UrlShowsItsFile
    BY DEF ServicesInv, UrlShowsItsFile, DiskInv
  <1> QED
    BY <1>1, ServicesInvariant, PTL

\* However reactions overlap, what the gateway told of them and is still to tell, and
\* what came through the routes that tell nobody, sum up to the rows that are there.
THEOREM EventsSafety == Spec => []EventsSumUp
  <1>1. ServicesInv => EventsSumUp
    BY DEF ServicesInv, EventsSumUp, MarksInv
  <1> QED
    BY <1>1, ServicesInvariant, PTL

\* A reader of pages of any size misses no more of what stayed there than was
\* removed meanwhile or added between the two queries of a page.
THEOREM SkippedSafety == Spec => []SkippedBounded
  <1>1. ServicesInv => SkippedBounded
    BY DEF ServicesInv, SkippedBounded, PagesInv
  <1> QED
    BY <1>1, ServicesInvariant, PTL

\* A SUPER_ADMIN is made by a start of the server only, and stops being one by himself
\* or by the developers' tool.
THEOREM SupersSafety == Spec => []SupersAreAppointed
  <1>1. ServicesInv => SupersAreAppointed
    BY AccountsAlike DEF ServicesInv, SupersAreAppointed, AP!RoleInv
  <1> QED
    BY <1>1, ServicesInvariant, PTL

\* A message to the assistant has an answer after it, or a handler, or a known
\* cause why not, and there are never more answers than messages.
THEOREM PromptsSafety == Spec => []PromptsAnswered
  <1>1. ServicesInv => PromptsAnswered
    BY InstancesAssumption, PromptsFollows DEF ServicesInv, PromptsAnswered
  <1> QED
    BY <1>1, ServicesInvariant, PTL
=============================================================================
