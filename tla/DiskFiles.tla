----------------------------- MODULE DiskFiles -----------------------------
(***************************************************************************)
(* Files on the server's own disk: VpsFileUploadService.  A file is stored *)
(* under the time in milliseconds and a name made of the one the client    *)
(* gave it, without a look at what is there; there are no rows, and the    *)
(* url that is answered is the only reference.  The files of one request   *)
(* are written side by side, and each has an outcome of its own            *)
(* (allSettled).                                                           *)
(*                                                                         *)
(* An image is compressed and its extension becomes webp, unless that      *)
(* fails; blanks in a name become underscores.  So names that differ for   *)
(* the client may be one name on the disk.                                 *)
(***************************************************************************)
EXTENDS Naturals

CONSTANTS
    Files,    \* bound: the files that are uploaded
    Names,    \* the names that clients give their files
    Stored,   \* the names on the disk
    Plain,    \* Plain[n]: the name of a file n that is stored as it came
    Webp,     \* Webp[n]: its name after compression; Plain[n] if it is no image
    LastTime  \* bound: the milliseconds that pass

\* What is assumed of the constants; Services assumes it of each instance.
DiskFilesAssumption ==
    /\ LastTime \in Nat
    /\ Plain \in [Names -> Stored]
    /\ Webp \in [Names -> Stored]

VARIABLES
    now,     \* Date.now()
    disk,    \* disk[p]: the set of the one file at path p, or the empty set
    upload,  \* upload[f]: the upload of f
    erased   \* history: the paths at which a file has been deleted

vars == <<now, disk, upload, erased>>

Times == 0..LastTime
Paths == Times \X Stored
Upload == [state : {"new", "write", "answered", "failed"},
           name : Names, packed : BOOLEAN, at : Times, path : Paths]

TypeOK ==
    /\ now \in Times
    /\ disk \in [Paths -> SUBSET Files]
    /\ upload \in [Files -> Upload]
    /\ erased \subseteq Paths

Init ==
    /\ now = 0
    /\ disk = [p \in Paths |-> {}]
    /\ upload \in [Files -> {[state |-> "new", name |-> n, packed |-> FALSE, at |-> 0,
                              path |-> <<0, Plain[n]>>] : n \in Names}]
    /\ erased = {}

-----------------------------------------------------------------------------

\* compressImageIfRequired, then the blanks.
StoredName(name, packed) == IF packed THEN Webp[name] ELSE Plain[name]

\* Mutant: the time is not part of the path.
PathOfName(time, name, packed) == <<0, StoredName(name, packed)>>

PathOf(time, name, packed) == <<time, StoredName(name, packed)>>

\* The path is made when the compression is over, or has failed.
UploadPath(f, packed) ==
    /\ upload[f].state = "new"
    /\ upload' = [upload EXCEPT ![f].state = "write", ![f].packed = packed, ![f].at = now,
                                ![f].path = PathOf(now, upload[f].name, packed)]
    /\ UNCHANGED <<now, disk, erased>>

\* writeFile replaces what is there.
UploadWrite(f) ==
    /\ upload[f].state = "write"
    /\ disk' = [disk EXCEPT ![upload[f].path] = {f}]
    /\ upload' = [upload EXCEPT ![f].state = "answered"]
    /\ UNCHANGED <<now, erased>>

\* Before the file is opened, or after: then what was there is lost, and a part
\* of this one stays.
UploadFails(f) ==
    /\ upload[f].state = "write"
    /\ upload' = [upload EXCEPT ![f].state = "failed"]
    /\ UNCHANGED disk \/ disk' = [disk EXCEPT ![upload[f].path] = {f}]
    /\ UNCHANGED <<now, erased>>

\* Anyone who has the url; a file that is gone is no error.
Delete(f) ==
    /\ upload[f].state = "answered"
    /\ disk' = [disk EXCEPT ![upload[f].path] = {}]
    /\ erased' = erased \cup {upload[f].path}
    /\ UNCHANGED <<now, upload>>

Tick ==
    /\ now < LastTime
    /\ now' = now + 1
    /\ UNCHANGED <<disk, upload, erased>>

Next ==
    \/ \E f \in Files : UploadWrite(f) \/ UploadFails(f) \/ Delete(f)
    \/ \E f \in Files, packed \in BOOLEAN : UploadPath(f, packed)
    \/ Tick

Spec == Init /\ [][Next]_vars

-----------------------------------------------------------------------------
(* Properties *)

\* The names of f and g, which may differ, are one name on the disk.
SameName(f, g) ==
    StoredName(upload[f].name, upload[f].packed) = StoredName(upload[g].name, upload[g].packed)

\* A url that was answered shows the file that it was answered for until that
\* one is deleted, unless another file whose name becomes the same on the disk got
\* its path in the same millisecond, in the same request or in someone else's.
UrlShowsItsFile ==
    \A f \in Files : upload[f].state = "answered" =>
        \/ disk[upload[f].path] = {f}
        \/ upload[f].path \in erased
        \/ \E g \in Files \ {f} : /\ SameName(f, g)
                                  /\ upload[g].at = upload[f].at
                                  /\ upload[g].state # "new"
=============================================================================
