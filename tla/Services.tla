------------------------------ MODULE Services ------------------------------
(***************************************************************************)
(* The services that keep state of their own and share none that their     *)
(* properties are about.  Which of them runs is chosen in the initial      *)
(* states: a behaviour is one of one service, the others stand still.      *)
(***************************************************************************)
EXTENDS Integers, FiniteSets

CONSTANTS
    Service,                   \* the services to run
    None,
    Emails, MoreEmails,        \* those that sign in, those of Accounts
    Users, MoreUsers,          \* of tokens, profiles and marks; of sign-in and presence
    Initiator,                 \* the other end of the conversation that Users mark
    AdminEmail, BotEmail, Uids,
    Tokens, Old,
    Ids,                       \* accounts, sockets and files
    FileNames, StoredNames, PlainName, WebpName,   \* of files on the disk
    Asked,                     \* the limits that clients ask for
    Slots, MoreSlots,          \* bound: handlers in flight at the same time
    MaxAttempts, MaxLimit, FileLimit,
    MaxCodes, MaxUncounted, MaxVersion, MaxEvents, MaxMessages, LastTime, LastName, LastBot,
    LastChat

VARIABLES
    service,                                            \* the one that runs
    user, code, attempts, timed, tried, uncounted, untimed, shown, seeded, signing,
    accounts, tok, left, refreshing,
    row, sub, entry, excused, caching,
    online, deleted, socket, ghost, byHand, over,
    object, file, born, moving, stray, hollow,
    now, disk, upload, erased,
    status, member, reacted, marks, told, untold, events, marking,
    list, created, visible, scan,
    account, up, appointed, administering,
    bot, made, squat, aiUserId, chat, opened, message, unanswered, answering

signIn == <<user, code, attempts, timed, tried, uncounted, untimed, shown, seeded, signing>>
tokens == <<accounts, tok, left, refreshing>>
profiles == <<row, sub, entry, excused, caching>>
presence == <<online, deleted, socket, ghost, byHand, over>>
uploads == <<object, file, born, moving, stray, hollow>>
diskFiles == <<now, disk, upload, erased>>
reactions == <<status, member, reacted, marks, told, untold, events, marking>>
pages == <<list, created, visible, scan>>
identities == <<account, up, appointed, administering>>
assistant == <<bot, made, squat, aiUserId, chat, opened, message, unanswered, answering>>
vars == <<service, signIn, tokens, profiles, presence, uploads, diskFiles, reactions, pages,
          identities, assistant>>

S == INSTANCE SignIn WITH Accounts <- MoreUsers, SeedEmails <- {AdminEmail, BotEmail},
        Requests <- Slots, req <- signing
R == INSTANCE RefreshTokens WITH Accounts <- Users, Requests <- Slots, req <- refreshing
P == INSTANCE Profiles WITH Requests <- MoreSlots, req <- caching
O == INSTANCE Presence WITH Users <- MoreUsers, Sockets <- Ids
U == INSTANCE Uploads WITH Files <- Ids, Requests <- Slots, req <- moving, row <- file
D == INSTANCE DiskFiles WITH Files <- Ids, Names <- FileNames, Stored <- StoredNames,
        Plain <- PlainName, Webp <- WebpName
M == INSTANCE Marks WITH Requests <- Slots, req <- marking
G == INSTANCE Pages WITH shown <- visible
A == INSTANCE Accounts WITH Accounts <- Ids, Emails <- MoreEmails, Requests <- Slots,
        user <- account, req <- administering
B == INSTANCE Assistant WITH Requests <- Slots, excused <- unanswered, req <- answering

ASSUME InstancesAssumption ==
    /\ S!SignInAssumption
    /\ R!RefreshTokensAssumption
    /\ P!ProfilesAssumption
    /\ O!PresenceAssumption
    /\ D!DiskFilesAssumption
    /\ M!MarksAssumption
    /\ G!PagesAssumption
    /\ A!AccountsAssumption
    /\ B!AssistantAssumption

Init ==
    /\ service \in Service
    /\ IF service = "sign-in" THEN S!Init
       ELSE /\ user = "off" /\ code = "off" /\ attempts = "off" /\ timed = "off" /\ tried = "off"
            /\ uncounted = "off" /\ untimed = "off" /\ shown = "off" /\ seeded = "off"
            /\ signing = "off"
    /\ IF service = "tokens" THEN R!Init
       ELSE accounts = "off" /\ tok = "off" /\ left = "off" /\ refreshing = "off"
    /\ IF service = "profiles" THEN P!Init
       ELSE row = "off" /\ sub = "off" /\ entry = "off" /\ excused = "off" /\ caching = "off"
    /\ IF service = "presence" THEN O!Init
       ELSE /\ online = "off" /\ deleted = "off" /\ socket = "off" /\ ghost = "off"
            /\ byHand = "off" /\ over = "off"
    /\ IF service = "uploads" THEN U!Init
       ELSE /\ object = "off" /\ file = "off" /\ born = "off"
            /\ moving = "off" /\ stray = "off" /\ hollow = "off"
    /\ IF service = "disk" THEN D!Init
       ELSE now = "off" /\ disk = "off" /\ upload = "off" /\ erased = "off"
    /\ IF service = "marks" THEN M!Init
       ELSE /\ status = "off" /\ member = "off" /\ reacted = "off" /\ marks = "off"
            /\ told = "off" /\ untold = "off" /\ events = "off" /\ marking = "off"
    /\ IF service = "pages" THEN G!Init
       ELSE list = "off" /\ created = "off" /\ visible = "off" /\ scan = "off"
    /\ IF service = "accounts" THEN A!Init
       ELSE account = "off" /\ up = "off" /\ appointed = "off" /\ administering = "off"
    /\ IF service = "assistant" THEN B!Init
       ELSE /\ bot = "off" /\ made = "off" /\ squat = "off" /\ aiUserId = "off" /\ chat = "off"
            /\ opened = "off"
            /\ message = "off" /\ unanswered = "off" /\ answering = "off"

Next ==
    /\ UNCHANGED service
    /\ \/ /\ service = "sign-in" /\ S!Next
          /\ UNCHANGED <<tokens, profiles, presence, uploads, diskFiles, reactions, pages,
                        identities, assistant>>
       \/ /\ service = "tokens" /\ R!Next
          /\ UNCHANGED <<signIn, profiles, presence, uploads, diskFiles, reactions, pages,
                        identities, assistant>>
       \/ /\ service = "profiles" /\ P!Next
          /\ UNCHANGED <<signIn, tokens, presence, uploads, diskFiles, reactions, pages,
                        identities, assistant>>
       \/ /\ service = "presence" /\ O!Next
          /\ UNCHANGED <<signIn, tokens, profiles, uploads, diskFiles, reactions, pages,
                        identities, assistant>>
       \/ /\ service = "uploads" /\ U!Next
          /\ UNCHANGED <<signIn, tokens, profiles, presence, diskFiles, reactions, pages,
                        identities, assistant>>
       \/ /\ service = "disk" /\ D!Next
          /\ UNCHANGED <<signIn, tokens, profiles, presence, uploads, reactions, pages,
                        identities, assistant>>
       \/ /\ service = "marks" /\ M!Next
          /\ UNCHANGED <<signIn, tokens, profiles, presence, uploads, diskFiles, pages,
                        identities, assistant>>
       \/ /\ service = "pages" /\ G!Next
          /\ UNCHANGED <<signIn, tokens, profiles, presence, uploads, diskFiles, reactions,
                        identities, assistant>>
       \/ /\ service = "accounts" /\ A!Next
          /\ UNCHANGED <<signIn, tokens, profiles, presence, uploads, diskFiles, reactions,
                        pages, assistant>>
       \/ /\ service = "assistant" /\ B!Next
          /\ UNCHANGED <<signIn, tokens, profiles, presence, uploads, diskFiles, reactions,
                        pages, identities>>

Spec == Init /\ [][Next]_vars

-----------------------------------------------------------------------------
(* The properties of each module, of the instance that runs *)

\* The variables of every module have their types, and their rows refer to rows
\* that exist.
TypeOK ==
    /\ service = "sign-in" => S!TypeOK
    /\ service = "tokens" => R!TypeOK
    /\ service = "profiles" => P!TypeOK
    /\ service = "presence" => O!TypeOK
    /\ service = "uploads" => U!TypeOK
    /\ service = "disk" => D!TypeOK
    /\ service = "marks" => M!TypeOK
    /\ service = "pages" => G!TypeOK
    /\ service = "accounts" => A!TypeOK
    /\ service = "assistant" => B!TypeOK

\* As stated in SignIn: refused passwords are bounded by the limit and the overlap.
GuessesBounded == service = "sign-in" => S!GuessesBounded

\* As stated in SignIn: a counter has a lifetime unless its EXPIRE is due or was lost.
LockIsTimed == service = "sign-in" => S!LockIsTimed

\* As stated in SignIn: no account is verified by the code of another.
NoBorrowedCode == service = "sign-in" => S!NoBorrowedCode

\* As stated in RefreshTokens: tokens refreshed from one are bounded by the overlap, and
\* there are none of a token that a sign-in gave.
PairsBounded == service = "tokens" => R!PairsBounded

\* As stated in RefreshTokens: so are those refreshed from a token after its logout.
LogoutBounded == service = "tokens" => R!LogoutBounded

\* As stated in Profiles: an outdated entry has one of the known causes.
StaleIsExplained == service = "profiles" => P!StaleIsExplained

\* As stated in Presence: isOnline differs from having a socket for known causes only.
PresenceExplained == service = "presence" => O!PresenceExplained

\* As stated in Uploads: rows and objects agree but where an operation stopped halfway.
StoresAgree == service = "uploads" => U!StoresAgree

\* As stated in Uploads: a success that was answered holds for every file.
AnswersHold == service = "uploads" => U!AnswersHold

\* As stated in DiskFiles: a url shows its file unless two names become one on the disk
\* in the same millisecond.
UrlShowsItsFile == service = "disk" => D!UrlShowsItsFile

\* As stated in Marks: what the gateway tells of reactions sums up to the rows, but for
\* what came through REST.
EventsSumUp == service = "marks" => M!EventsSumUp

\* As stated in Profiles, and refuted: entries do not outlive a documented change.
ChangesAreShown == [][service = "profiles" => P!ChangeIsShown]_vars

\* As stated in Pages: a reader misses no more than was removed or came between.
SkippedBounded == service = "pages" => G!SkippedBounded

\* As stated in Accounts: a SUPER_ADMIN is removed by himself or the developers' tool.
SupersAreAppointed == service = "accounts" => A!SupersAreAppointed

\* As stated in Assistant: a message to it is answered, but for the causes listed there.
PromptsAnswered == service = "assistant" => B!PromptsAnswered
=============================================================================
