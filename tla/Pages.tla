------------------------------- MODULE Pages -------------------------------
(***************************************************************************)
(* A client that reads a list page by page while rows are added and        *)
(* removed: the messages of a conversation with loadConversationMessages,  *)
(* or the uploaded files with getFiles.  A page is two queries, of its     *)
(* rows, newest first, and of their number, which do not see one state:    *)
(* side by side for messages, in this order for files.  The client goes on *)
(* while there are more pages.  A row is called a message for short.       *)
(*                                                                         *)
(* Left out: everything a row holds; the check of membership, which ends   *)
(* the reading when it fails; rows of one millisecond, whose order the     *)
(* queries leave open.                                                     *)
(***************************************************************************)
EXTENDS Integers, FiniteSets

CONSTANTS
    MaxMessages,  \* bound: the messages that can be created
    MaxLimit,     \* the largest page of messages, 100 in the code
    FileLimit,    \* the files of a page if none are asked for, 10 in the code
    Asked         \* the limits that clients ask for

\* What is assumed of the constants; Services assumes it of each instance.
PagesAssumption ==
    /\ MaxMessages \in Nat
    /\ MaxLimit \in Nat \ {0}
    /\ FileLimit \in Nat \ {0}
    /\ Asked \subseteq Int

VARIABLES
    list,     \* what is listed
    created,  \* how many messages have been created; they are numbered in order
    shown,    \* the messages that are there and not hidden from the user
    scan      \* the client and what it has got

vars == <<list, created, shown, scan>>

Messages == 1..MaxMessages

Scan == [state   : {"idle", "page", "done"},
         limit   : Nat \ {0},
         page    : Nat,
         rows    : SUBSET Messages,        \* of this page, once queried
         total   : Nat,                    \* with this page, once queried
         queried : SUBSET {"rows", "total"},
         got     : SUBSET Messages,
         start   : SUBSET Messages,        \* history: shown when it began
         removed : Nat,                    \* history: messages gone since
         torn    : Nat]                    \* history: added between total and rows

Idle == [state |-> "idle", limit |-> 1, page |-> 1, rows |-> {}, total |-> 0, queried |-> {},
         got |-> {}, start |-> {}, removed |-> 0, torn |-> 0]

TypeOK ==
    /\ list \in {"messages", "files"}
    /\ created \in 0..MaxMessages
    /\ shown \subseteq 1..created
    /\ scan \in Scan
    /\ scan.got \subseteq 1..created

Init ==
    /\ list \in {"messages", "files"}
    /\ created \in 0..MaxMessages
    /\ shown = 1..created
    /\ scan = Idle

-----------------------------------------------------------------------------

\* Of files any number may be asked for.
FilesLimit(asked) == IF asked > 0 THEN asked ELSE FileLimit

SafeLimit(asked) ==
    IF asked < 1 THEN 1 ELSE IF asked > MaxLimit THEN MaxLimit ELSE asked

\* The place of m among the newest first.
Place(m) == Cardinality({n \in shown : n >= m})

\* Mutant: one row too many is skipped.
RowsSkippingOne(page, limit) ==
    {m \in shown : page * limit - limit + page - 1 < Place(m) /\ Place(m) <= page * limit + page - 1}

Rows(page, limit) ==
    {m \in shown : (page - 1) * limit < Place(m) /\ Place(m) <= page * limit}

MorePages == scan.page * scan.limit < scan.total

Begin(asked) ==
    /\ scan.state = "idle"
    /\ scan' = [Idle EXCEPT !.state = "page", !.start = shown,
                             !.limit = IF list = "files" THEN FilesLimit(asked) ELSE SafeLimit(asked)]
    /\ UNCHANGED <<list, created, shown>>

QueryRows ==
    /\ scan.state = "page" /\ "rows" \notin scan.queried
    /\ scan' = [scan EXCEPT !.rows = Rows(scan.page, scan.limit),
                            !.queried = scan.queried \cup {"rows"}]
    /\ UNCHANGED <<list, created, shown>>

QueryTotal ==
    /\ scan.state = "page" /\ "total" \notin scan.queried
    /\ list = "files" => "rows" \in scan.queried
    /\ scan' = [scan EXCEPT !.total = Cardinality(shown),
                            !.queried = scan.queried \cup {"total"}]
    /\ UNCHANGED <<list, created, shown>>

Turn ==
    /\ scan.queried = {"rows", "total"}
    /\ scan' = [scan EXCEPT !.got = scan.got \cup scan.rows,
                            !.rows = {}, !.total = 0, !.queried = {},
                            !.page = IF MorePages THEN scan.page + 1 ELSE scan.page,
                            !.state = IF MorePages THEN "page" ELSE "done"]
    /\ UNCHANGED <<list, created, shown>>

\* The client gives up, or a page is refused or fails.
GiveUp ==
    /\ scan.state # "idle"
    /\ scan' = Idle
    /\ UNCHANGED <<list, created, shown>>

\* Somebody sends a message, or uploads a file.
Add ==
    /\ created < MaxMessages
    /\ created' = created + 1
    /\ shown' = shown \cup {created + 1}
    /\ UNCHANGED list
    /\ scan' = [scan EXCEPT !.torn = IF scan.queried = {"total"} THEN scan.torn + 1 ELSE scan.torn]

\* The user deletes a message for himself, the account of its sender goes, or a
\* file is deleted.
Remove(m) ==
    /\ m \in shown
    /\ shown' = shown \ {m}
    /\ scan' = [scan EXCEPT !.removed = IF scan.state = "page" THEN scan.removed + 1 ELSE scan.removed]
    /\ UNCHANGED <<list, created>>

Next ==
    \/ \E asked \in Asked : Begin(asked)
    \/ QueryRows \/ QueryTotal \/ Turn \/ GiveUp \/ Add
    \/ \E m \in Messages : Remove(m)

Spec == Init /\ [][Next]_vars

-----------------------------------------------------------------------------
(* Properties *)

Skipped == (scan.start \cap shown) \ scan.got

\* Of the messages that were there when the client began, and still are, it
\* misses at most one for each message that was removed meanwhile, and one for
\* each that was added after the messages were counted and before the rows of
\* the same page were read.
SkippedBounded ==
    scan.state = "done" => Cardinality(Skipped) <= scan.removed + scan.torn
=============================================================================
