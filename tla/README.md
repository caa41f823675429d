# Verification of the NestJS backend

TLA+ models of the parts of this backend whose correctness depends on how its
handlers interleave, fail and are retried, the TLC configurations that check
them on small instances, and TLAPS proofs for every value of the constants.
Paths below are relative to the repository; modules are in this directory.

The server is one Node.js process: a NestJS application with REST controllers,
three Socket.IO gateways and a BullMQ worker, over PostgreSQL (Prisma) and
Redis. JavaScript runs one piece of code at a time, so what can interleave is
exactly what lies between two `await`s. Nearly every handler performs several
database operations, none of them in a transaction. This is where its bugs can
be, and it is what the models are about: **one action is one database operation
together with the code that runs up to the next `await`**, its error paths
included. `PROJECT.json` maps every definition to the lines it stands for.

## Inventory

| Component | State | Operations | What is hard | What makes it correct | Model |
|---|---|---|---|---|---|
| Calls (`src/main/rtc-call`) | `Call`, `CallParticipant` rows, ICE candidates kept as JSON in the participant row | initiate, ringing, accept, decline, end, ice-candidate; pure relays for offer, answer and toggles | clients on both sides act at once; each handler reads, decides, writes and tells others in separate operations; a conversation or an account may be deleted meanwhile, with the call or with one of its participants | one live call per conversation, a sensible life cycle, rows agree with what clients were told, candidates are not lost; the first and the last are wished for only (see *What the runs found*) | `RtcCall` |
| Password recovery (`auth-password`, `auth-otp`) | `UserOtp`, `PasswordResetToken`, `User.password` | forgot, resend, verify code, reset, change | retries and doubled requests; expiry between check and use; mails that fail | a code yields one token; one reset with a token is answered with success, and the passwords it sets are bounded by the overlap and the removals that fail; it is of its own account; few codes and tokens are valid at a time | `PasswordReset` |
| Notifications (`src/main/notifications`) | BullMQ jobs, `Notification`, `UserNotification`, the sockets of each user in memory | listeners persist and enqueue, the processor looks up the toggle, emits, stores; connect, disconnect | attempts, backoff, stalled jobs, restarts, accounts deleted under a job | a job is decided once; copies and repeated emits are bounded; reports are true | `Notifications`, `NotificationOutcome` |
| Conversations and messages (`src/main/conversation`) | `Conversation`, `ConversationMember`, `Message`, statuses, reactions, deletions | open, create group, send, read, react, unsend, forward, delete, remove member, toggles; the gateway relays | find-then-create, read-negate-write toggles, membership checked before a later write, `lastMessageId` written after the message | one conversation per pair; who was removed posts no more than what overlapped; the last message is recent; what is told of reactions sums up | `Conversations`; the marks of one user `Marks`; reading page by page `Pages` |
| Sign-in and lockout (`auth-login`, `user-cache`) | counter of failures in Redis | login, verify e-mail, unlock | INCR and EXPIRE are two commands; check long before increment | wrong passwords are bounded by the limit and the overlap; a counter has a lifetime, unless the EXPIRE was lost between the two commands; no account is verified by the code of another, though starts of the server verify without one | `SignIn` |
| Refresh tokens (`auth-logout`, `auth-utils`) | `RefreshToken` | issue, refresh, revoke | find and delete are separate; login stores no row | new pairs per token bounded by the overlap, also after a logout that names this token | `RefreshTokens` |
| Profile cache (`user-cache`, `auth-get-profile`, `auth-update-profile`) | profiles in Redis with a lifetime | read through, invalidate | refill after invalidation, swallowed errors | an outdated entry has a known cause; its lifetime ends it | `Profiles` |
| Presence (the call and the conversation gateway) | `User.isOnline` | connect, disconnect | two gateways and several sockets write one flag, in any order | a flag that disagrees with the sockets has a known cause | `Presence` |
| Subscriptions | `Subscription` | purchase, cancel; webhooks do nothing | find-then-create | one row per user; the cached profile follows only when its lifetime ends | `Profiles` |
| Registration, Google sign-in, administration, the SUPER_ADMIN of each start, the developers' tool | `User` rows as identities: email, name, Google uid, role | register, sign in with Google, create, update and remove accounts, start and stop of the server | what must be free or permitted is read in an earlier operation than the write | unique keys hold; no administrator deposes a SUPER_ADMIN: he himself does, and the developers' tool, which asks nobody who he is | `Accounts` |
| Uploads to the object store, to the disk | objects and `FileInstance` rows; files on the disk | upload and delete several files side by side, list | the second of two writes fails, while other files of the request go on; a path is chosen without a look, from a name that was changed | rows and objects agree but where an operation stopped halfway, answers are true; a url shows its file unless the same stored name was written in the same millisecond | `Uploads`, `DiskFiles`, `Pages` |
| AI assistant (`src/lib/ai`, `conversation`) | its `User` row, the id that the process keeps, its conversations | start, open, delete, send, reply, forward, answer beside the handler | nobody awaits the answer, and some routes never ask for one; its row may be removed and its name taken | a message without an answer has a known cause, and there are never more answers than messages | `Assistant` |
| Mail, SMS, push | external services | one call each | – | – | no: output only |
| Guards, throttling, rate limit, response cache | signed tokens, attempts | one decision per request | – | – | the role that is read per request in `Accounts`, the middleware of sockets in `Presence`; the rest no: decided per request, or used by nothing |
| Other seeds and tools, wiring | single rows | – | – | – | no: one writer (the seeds of accounts are in `Accounts`, `SignIn` and `Assistant`, the deletion by the developers' tool in `Accounts` and with every other deletion) |

How they interact: the calls hang below conversations (`deleteConversation`
cascades to calls and participants) and the accounts below everything: the row of
a user is deleted by himself, by a SUPER_ADMIN or by the developers' tool
(`DELETE /dev-tool/users/:id`), and each way cascades to codes, tokens,
notifications, memberships, the conversations of pairs, the calls he initiated
and his participant rows. Deletions are actions, at any moment, of `RtcCall`
(conversations and accounts), `PasswordReset`, `Notifications`, `Conversations`
(both), `Marks` and `Assistant` (the conversation; that of an account takes it
along), `SignIn`, `RefreshTokens`, `Profiles`, `Presence` and `Accounts`. The
files of `Uploads` and `DiskFiles` belong to nobody. Sign-in shares
`UserOtp` and its handlers with password recovery. Every gateway authenticates a
socket with the same middleware and then trusts `client.data.userId`, so users
are parameters of the actions, and one whose account is gone goes on sending. The
services of `Services` share rows of `User` with each other. The column
`isVerified` of `SignIn` is written by the seeds too, and those writes are in
`SignIn`; otherwise no service writes a column that the property of another one
is about, and they are checked each alone.

Everything in the code that is hard to test is in `PROJECT.json`, "hazards",
each at its line, with the properties that would notice it going wrong. Two have
no property, because the code promises nothing there: an unanswered call stays
RINGING (`rtc-call.service.ts:154`), and a password change that overlaps a reset
writes last (`auth-password.service.ts:57`).

## Modules

### `RtcCall`, `MCRtcCall`, `RtcCallProofs`

`call` holds the `Call` rows (conversation, initiator, status, and whether
`startedAt` and `endedAt` are set: times are only tested for presence), `part`,
`joined` and `left` the participant rows, `ice` the stored candidates. `req[r]`
is a handler in flight: its place (`"accept.write"` stands before the operation
that `acceptCall` performs at line 177 of the service) and the variables it
keeps. `sent` and `acked` record what clients were told. A slot of `Requests` is
free again when its handler answers or throws, so `Requests` bounds only how
many overlap. `Fail` lets any pending operation throw, which ends the handler
and leaves what it wrote; there is no transaction to undo it. `DeleteConversation`
removes a conversation with its calls. `DeleteUser` removes an account: the calls
of its pairs and those it initiated go, and of every other call its participant
row with its candidates. A handler that then needs a missing row throws, as Prisma
does (`Missing`): the call, the user, or one participant whom `endCall` had read.
Sockets outlive the account, so events of somebody deleted still arrive.

An `endCall` that stops between its first write and its last participant leaves
rows open, and no later one looks at them: `cut` has those calls. A join that is
written after the participants were read stays open too: `late`. `EndedCallIsEmpty`
says of any number of overlapping handlers that nothing else keeps a participant
in a call that is ENDED, and `EndClosesOpenRows` that what the end found is closed
at last.

### `PasswordReset`, `MCPasswordReset`, `PasswordResetProofs`

The four handlers of `auth-password.service.ts` and the part of `resendOtp` and `verifyOTP` that
works on codes of type `PASSWORD_RESET`. A row is `unborn`, `fresh`, `expired`
or `gone`; expiry may happen at any moment. Codes are rows: that somebody knows
the code of a row is what matching means, its digits are not modelled. Passwords
are values; `wrote[t]` counts the passwords that resets with token `t` have
written, at the write itself. Of these resets `done[t]` were answered with success,
`late[t]` then found the token gone, and `cut[t]` were stopped before they removed
it (`ResetCut`): such a token is still valid and may be used again, which
`TokenUsesBounded` counts one by one.

### `Notifications`, `NotificationOutcome`, `MCNotifications`, `NotificationsProofs`

`caller[e]` is how far the listener for event `e` has come (payment listeners
store the notification themselves before they enqueue it), `job[e]` the job in
BullMQ, `worker` the one processor with its place in `process`, `clients` the
map of the gateway. `noted`, `posted`, `stored` and `emitted` count what was
done and are read by the properties only. `Take`, `Retry` and `Stalled` are
BullMQ, modelled from the options that the code gives it: 3 attempts, backoff,
and the worker's defaults (one job at a time, one stall). `Restart` empties what
the process keeps in memory and nothing else. Two details matter: a toggle
look-up that fails counts as enabled, and nothing after the last write can throw,
because errors of the push service are caught. The listeners are exported by
their module; nothing in the repository calls them yet, so when they run is left
open. The toggles are read and never written by the code, so `muted` is fixed
for a behaviour.

`NotificationOutcome` is the abstract queue: each event is accepted, and then
decided once and for good as stored, skipped or lost. `Outcome` in
`Notifications` is the refinement mapping and `KeepsPromise` the statement that
the detailed specification implements the abstract one, its liveness included.

### `Conversations`, `MCConversations`, `ConversationsProofs`

`conv` holds the `Conversation` rows (who a pair connects, who made a group, the
last message), `role` the `ConversationMember` rows, `msg` the `Message` rows
with what is left of their content: `hidden` says that there is none. Message
numbers follow `createdAt`. A handler may be anywhere between the look-up that
admits it and its last write; `send.find` is the second look-up of a reply or a
forward, which first read the message they refer to. Foreign keys and unique
keys are in `Impossible`: an operation whose row is gone, or whose row exists
already, throws. `DeleteWrite` and `DeleteUser` cascade as the schema says, and
`lastMessageId` is set to null. `passed`, `late`, `copies` and `told` are read
by the properties only. A group whose founder deletes his account stays without
an owner: `GroupOwned` says that this is the only way, and the code has no
operation that gives it another one, although a message of
`removeMemberFromGroup` speaks of a transfer.

### `Marks` and `Pages`

`Marks` is what each user keeps of a conversation of two and of a message in it:
the row of a reaction, read and deleted marks, the flags of his member row, and
whether a requested conversation was accepted. One conversation, one message,
one emoji and one flag stand for all, because no operation touches two of them;
that a deleted conversation is created again is kept (`status`, the `gen` of a
handler). `react` looks for the row and creates or deletes it in a later
operation, the unique key refuses a second one, and the handler of the gateway
tells the members afterwards: `told` sums up what they were told, or were to be
told when the handler failed. The REST routes to add and to remove a reaction end
with the write and tell nobody, so a handler knows whether it `tells`, and `untold`
sums up the rest. `EventsSumUp` says that the two together are the row.

`Pages` is one client that reads a list page by page, messages
(`loadConversationMessages`) or files (`getFiles`), while rows are added and
removed. A page is two queries that see different states, and the limit that was
asked for is clamped differently by the two. Rows of one millisecond, whose order
the queries leave open, are left out.

### `SignIn`, `SignInProofs`

`attempts[e]` is the Redis key `login:attempts:e`, `timed[e]` whether it has a
lifetime. A login reads the counter, looks up the account, compares the password
and, if it is refused, increments the counter and sets the lifetime when the
result is 1: two commands, each with the failures of its own, and the client may
send an INCR again that was already performed. `tried` and `uncounted` count
refused passwords since the key last went, and those no increment follows.
`login` checks the counter before it compares, so requests that overlap may all
compare; `GuessesBounded` says by how much the limit of five can be exceeded.
`LockIsTimed` excuses what the two commands cannot help: an EXPIRE that is lost, or
not due because the INCR was performed twice (`untimed`), leaves a lock that no
time ends.
The other half of the module is the code that is mailed when an unverified
account logs in and the verification that consumes it, with
accounts deleted and their email taken again between its operations. A start of
the server also verifies, without any code, the account that holds
`SUPER_ADMIN_EMAIL`, and creates verified accounts for it and for the assistant
(`SeedUpdate`, `SeedCreate`). `shown` has the accounts of which a right code was
presented, `seeded` those that a start met or made; `NoBorrowedCode` says that
nobody else is verified.

### `RefreshTokens`, `RefreshTokensProofs`

`tok[t]` is what became of a refresh token: with a row (`there`), given without
one (`unsaved`) or `gone`. Every sign-in passes a session id to
`generateTokenPairAndSave`, and with one the row is not saved: such a token can
never be refreshed. Rows come from before there were session ids (`Old`) and
from refreshing. `refresh` finds the row, reads the user, deletes with
`deleteMany`, which does not say whether it deleted anything, and creates the
next row, so refreshes that overlap all succeed; `from` and `late` record it. A
logout revokes the one token it names. `LogoutBounded` is about that token only:
others of the account go on, also those that were refreshed from it before.

### `Profiles`

Rows of `User` with their `Subscription` and the entries cached under `user:id`
are abstracted to the version of the row, so that an entry is out of date when
its version is another one. Every reader and writer that fills or invalidates is there: getProfile,
updateProfile, the ends of login and verification, deletion, purchase and
cancellation of subscriptions, and administration, which never invalidates. A login
writes its time, which the cached profile shows, so it makes a new version and puts
it. `excused` names the causes for which an entry may be out of date: it was put by
a handler that read before a change, the row was changed by a writer that never
invalidates, or the command that should have renewed it failed.
`StaleIsExplained` says that there are no others. `CACHE_INVALIDATION_GUIDE.md`
denies the last two of them: `ChangesAreShown` is what it says, and does not hold.
What is put at the end of a login has fewer
fields than what `getProfile` puts; that is left out. The module is about a
server with `ENABLE_CACHE=true`.

### `Presence`

`isOnline` is written by the connections and disconnections of two gateways and
by a request of the user. `socket[s]` is a socket with its two handlers:
Socket.IO runs the handler of a disconnection also while the one of the
connection still runs. Nothing counts the sockets of a user, so one that goes
turns him offline: `over` has the pairs of a socket whose disconnection was written
and another one, open and past its handshake, that it was written over. A user is
offline with open sockets only by his own request or when each of them was written
over; he is online without one only by his own request, by a write that was
overtaken or failed, or by a restart. That is `PresenceExplained`.

### `Accounts`, `AccountsProofs`

The `User` rows as identities. Registration reads whether the email and then a
name is free and creates the row later; Google sign-in finds a row and
creates or updates it; administration reads the role and the row that it will
change; each write meets the unique keys of the table. A start of the server
makes the row with the configured email a SUPER_ADMIN, or creates one
(`SeedUpdate`, `SeedCreate`), and `Stop` ends every request. The developers' tool
finds and deletes any row (`DevStart`, `DevFind`, `DevDelete`), without a guard.
`SupersAreAppointed` says that a SUPER_ADMIN is removed by himself or by that tool
and never by an administrator. It holds although `updateAdminUser` and `removeAdminUser` look
at the role in an earlier operation than they write, because a row becomes
SUPER_ADMIN only at a start, which no request survives. Two consequences that
are no violation of it: a Google sign-in may change the email of a SUPER_ADMIN,
so that the next start makes a second one, and `updateProfile` writes back the
name that it read before.

### `Uploads` and `DiskFiles`

`req[r].job` are the files of one request, whose jobs run side by side: put and
create, or find, delete the object and delete the row. The first that fails makes
the answer an error while the others go on; `Crash` stops them all. `stray` and
`hollow` name what was left halfway. `DiskFiles` is the store on the
server's disk, where a path is the millisecond and a name made of the client's:
blanks become underscores, and an image that was compressed (`packed`) ends in
`.webp`, so `a b.png` and `a_b.jpg` may be one path (`Plain`, `Webp`,
`StoredName`). A second file simply replaces the first.

### `Assistant`

Each start makes sure of the assistant's row and keeps its id in memory
(`aiUserId`). A message to it sets its answer going beside the handler, and
nobody awaits it. A reply or a forward through REST creates a message like any
other and asks for no answer. `excused` names the messages whose answer is known
not to come: these, and those of a handler or an answer that failed, was stopped,
or got an empty stream. The user may delete the conversation, with what it holds,
and open another one (`chat` numbers them).
If the row is removed while the server runs, later messages go to an id without
a row; if its name is taken by then, the next start fails.

### `Services`, `MCServices`, `ServicesProofs`

The ten modules above share no state, so one specification holds them all:
`service` is chosen in the initial state, the module of that name runs, and the
variables of the others are `"off"`. Each module is an instance with a letter of
its own (`S` sign-in, `R` refresh tokens, `P` profiles, `O` presence, `U`
uploads, `D` disk, `M` marks, `G` pages, `A` accounts, `B` assistant). What a
module assumes of its constants is an operator there, and `InstancesAssumption`
assumes it of each instance. The properties are those of the modules, each under
the condition that its module runs. `Services` leaves every constant open, and
its theorems are about all of them; `MCServices` adds the symmetry of the small
instance that TLC checks.

## Runs

Every run has `CHECK_DEADLOCK FALSE`, because each bounds the rows that can be
created: when they are used up and every handler has answered, nothing is left
to do. That is an end of the instance, and the liveness properties exclude that
a handler or a job is stuck before it.

| Run | Instance | Shows |
|---|---|---|
| `rtc_rows` | 1 call, 2 users, 1 candidate, 2 handlers in flight, failures, deletion of the conversation and of either account | `TypeOK`; nobody is on record as having joined a call without a start (`JoinedAfterStart`); what clients were told agrees with the rows (`ToldAfterStored`); an ended call keeps nobody, but for ends that were stopped and joins that came late (`EndedCallIsEmpty`) |
| `rtc_pending` | 3 calls of a pair, 1 user, 2 handlers, failures, deletion of the account | unanswered calls of a conversation never outnumber the handlers that overlap (`PendingBounded`) |
| `rtc_serial` | 1 call, 2 users, 2 candidates, one handler at a time, failures, deletion of the conversation and of either account | the life cycle (`StatusMachine`), candidates are kept while call and user are (`SavedCandidatesStay`), ending closes every row in the end, unless it is stopped or the row goes (`EndClosesOpenRows`) |
| `rtc_two_live` | 2 calls, 2 handlers | **violated**: two live calls in one conversation |
| `rtc_revived` | 1 call, 1 handler | **violated**: a call that is over is accepted and live again, its end still stamped |
| `rtc_ice_lost` | 2 candidates, 2 handlers | **violated**: one of two saved candidates is lost |
| `password_resets` | 2 accounts, 2 codes, 3 tokens, 2 handlers, expiry, failures (1 of the removal of each token), deletion | one token per code, one success per token, passwords set by a token bounded by the overlap and those failures, the right account, bounded valid codes and tokens |
| `reset_refused` | 1 account, 1 token, 2 handlers, no failures | **violated**: a reset that is refused has nevertheless set the password |
| `notifications` | 1 payment and 1 other event for one user, 1 socket, 2 attempts, 1 stall, failures, deletion, restarts | copies, emits and rows are bounded, reports are true, what is lost is not stored, and `KeepsPromise` |
| `conversations` | 1 conversation and 2 messages of 2 users, 2 handlers, failures, deletion of accounts | rows refer to rows that exist (`TypeOK`); a group keeps its owner (`GroupOwned`); who was removed posts no more than what overlapped with the removal (`LateBounded`), and an unsent message is copied no more than by forwards that overlapped (`UnsentBounded`); the last message is recent (`LastIsRecent`) |
| `services` | each of the ten services of `Services` alone, see below | wrong passwords are bounded (`GuessesBounded`); a counter has a lifetime but for a lost EXPIRE (`LockIsTimed`); no code verifies another account (`NoBorrowedCode`); refreshes are bounded, also after a logout of that token (`PairsBounded`, `LogoutBounded`); outdated profiles and wrong online flags have known causes (`StaleIsExplained`, `PresenceExplained`); files, rows and answers agree but for what stopped halfway (`StoresAgree`, `AnswersHold`); a url shows its file unless a file of the same stored name came in the same millisecond (`UrlShowsItsFile`); what is told of reactions, and what REST leaves untold, sums up to the rows (`EventsSumUp`); a reader of pages misses a bounded number (`SkippedBounded`); no administrator removes a SUPER_ADMIN (`SupersAreAppointed`); a message to the assistant without an answer has a known cause (`PromptsAnswered`) |
| `profiles_outdated` | the profiles of `services` alone | **violated**: a profile is updated, the command that should drop its cached entry fails, and the old one stays |

Why these bounds are enough to be interesting: all hazards of calls and
passwords involve two handlers that overlap, and the counters that could exceed
their bound (three calls, three tokens, two handlers) have room to do so. Three
writes with one token are possible, one for each handler and one after a removal
that failed, and so would be a fourth. Two
users are an initiator and another, either of whom may be deleted. Three runs
look at a `VIEW`: in `rtc_rows` the candidates that were acknowledged, in
`rtc_pending` who joined, the candidates and the history, and in `password_resets` the
passwords, of which there is one, decide no guard and no property but `TypeOK`, so
states that differ in nothing else are one. Two
attempts contain one that is repeated and one that is the last, and one event is
for a payment and one is not; the code has three attempts, and `MaxAttempts` is a
constant that the proofs leave open. One user suffices for notifications: they
share only the worker, which the two events compete for. One conversation
suffices for messages because nothing but a forward relates two of them, and a
forward into the conversation it came from meets the same checks; two messages
and two handlers are what it takes to get them into the wrong order, to post
after a removal or to copy what is being unsent.

The instances of `services`, altogether 1.8 million states: sign-in, 1 email, which
the seeds use as well, 2 accounts that hold it one after the other, 2 codes, a limit of 2 (a first and a
last attempt), 1 lost increment; tokens, 1 account and 4 tokens, one of them
old; profiles, 1 user, 3 versions and 3 handlers (a reader, a writer and one
that fills between); presence, 2 users and 3 sockets (a user with two, and one
who must not be disturbed); uploads, 3 files; the disk, 3 files, 2 names that
compression makes one, and 2 milliseconds; marks, 1 acting user and 4 changes of his
reaction, because all that handlers of two users share is the status; pages, 4 messages, pages of at most 2, limits of
0 and 7 asked for, both of which are clamped; accounts, 3 ids, 2 emails, 1 Google account
and a name that can be taken; the assistant, 2 rows, 2 conversations and 4 messages. Two handlers
overlap where nothing else is said. The sets that
`SYMMETRY` permutes are never named by the specification, and only runs without
temporal properties use it.

Each property has a mutant: a plausible error in the code, for example a
dropped guard or a missed count, that makes TLC find the property violated.
They stand next to the definition they replace and are used nowhere else.

## Fairness

`FairSpec` of `RtcCall` assumes weak fairness of every handler that has started:
the event loop runs the continuation of a settled promise, and the database
answers or throws. It assumes nothing of clients, who owe no next event.
`FairSpec` of `Notifications` assumes it of the processor and of the queue for
each event: the worker takes jobs whenever it is idle, backoff timers run out
and BullMQ looks for stalled jobs at intervals. It assumes nothing of restarts,
which may happen for ever; that a job is decided nevertheless is because the
stalls of a job are counted and bounded.

## Proofs

All constants are arbitrary; what is assumed of them is in the
`ASSUME` of each module, and in `InstancesAssumption` of `Services`: for
notifications, recipients are users and there is at least one attempt; what is
counted is finite; a limit and a number of versions are at least one; `None` is
nobody.

* **Calls.** `TypeCorrect`. `JoinSafety` needs `JoinInv`: `JoinedAfterStart`
  speaks of rows, but a step of `acceptCall` depends on what the handler did
  before, so the invariant adds that a handler at the participant row of a call
  has started it (`AcceptStarted`), that a handler that creates a call acts for
  its initiator, and that rows and handlers name calls that exist.
  `PendingSafety` counts: `PendInv` bounds the sum of unanswered calls and of
  handlers that have found the line free. A creation moves one from the second
  set to the first, and a handler that is about to write RINGING is part of the
  call it will revive, so each call of the sum can be charged to one slot.
  `ToldSafety` needs `ToldInv`: for each event what the row must say once it was
  told, as long as the user it is about has his account; that handlers between the
  write and the event know the call they wrote,
  and that rows which were created last until they are deleted (`RowsLast`).
  `EndedSafety` is about any handlers that overlap, fail and are stopped, and any
  deletion: `EndedCallIsEmpty` is inductive with the types, since `Closing` says
  which handler is about to close each open row, and what no handler will close is
  `cut` or `late`.
  `StatusSafety` and `SavedSafety` are properties of `rtc_serial`. They may fail when
  two handlers of one call overlap (`rtc_ice_lost` shows how), so the theorems assume
  `[]Apart`: no two handlers in flight are about the same call. That is a weaker
  assumption than that of the run, one handler at a time, from which it follows
  (`SerialIsApart`): handlers of other calls, failures and deletions may come between
  any two operations. `Knows` is the invariant: what a handler read of its call is
  still so when it writes, unless the call is gone.
* **Passwords.** `TypeCorrect`; `OneTokenSafety`, `OneSuccessSafety`,
  `TokenUsesSafety` and `OwnTokenSafety` from `TokenInv`. A token or a code
  whose use was answered is gone (`SpentIsGone`), what was told is in use
  (`ToldIsUsed`), and a handler knows the row it matched (`Knowing`): these make
  "removed by itself" equivalent to "nobody else succeeded". What a token has written
  is no more than what `done`, `late`, `cut` and the handlers behind the write account
  for. Rows only age
  (lemma `Aging`), which is why a removal cannot be undone. `ValidSafety` is
  inductive with `TypeOK`, by the same counting argument as for calls.
* **Notifications.** `QueueInv` says how far each counter may be ahead of what
  the job records: within an attempt every place of the processor is passed
  once, and what it counted is charged to the attempt when it throws, to the
  stall when the server stops, or to its success. `TriesLeft` says that an open
  job has an attempt left, without which the type of `tries` is not inductive.
  From it follow `TypeCorrect`, `CopiesSafety`, `AttemptsSafety`, `ReportSafety`
  and `LostSafety`. `PromiseSafety` shows that every step of the detailed
  specification is a step of `NotificationOutcome`, or leaves all outcomes as
  they are.

* **Conversations.** `ConvInv` joins `TypeOK` with what handlers know of the
  rows they read (`Knows`, in `RequestsInv`) and what of a message agrees with its
  conversation (`MessagesInv`). `ConversationTypes`, `OwnerSafety`, `LateSafety`,
  `UnsentSafety` and `LastSafety` rest on it. The two bounds charge every late
  post and every copy to a handler that had passed its check; the last message
  is shown to be the newest that was recorded, or to have been in the hands of a
  handler when the newer ones were created.
* **Accounts.** `AccountTypes`, and `SupersSafety` from `RoleInv`: what a
  request has read of a role cannot go out of date while it runs, because only a
  start appoints and a start ends all requests. The tool that removes any row takes
  the appointment with it.
* **Refresh tokens.** `TokInv` adds to the types who holds which token, that a
  spent token has no row, and the count: tokens refreshed from one, together
  with the requests that still use it, never exceed the slots.
  `TokenTypes`, `PairsSafety` and `LogoutSafety` follow.
* **Sign-in.** `SignInTypes`; `GuessesSafety` from two bounds that need each
  other: refused passwords against what was counted or is about to be, and
  refused passwords with those about to be compared against the limit.
  `LockSafety` follows who will set the lifetime, `VerifySafety` that a handler behind
  a right code has the account that it was of, and that starts run alone.
* **Services.** `ServicesInv` says of the service that runs what the invariant of
  its module says, and has a theorem for each of the fifteen properties of the run
  `services`. Sign-in, tokens and accounts have it from their own modules of
  proofs, which are instantiated there; that the definitions of those instances
  are the ones of `Services` is said by `SignInAlike`, `TokensAlike` and
  `AccountsAlike`. The others have a section each:
  * *Uploads:* a job fits the kind of its request (`JobsFit`), an uploaded file
    has one job until it has a row (`UploadsAlone`), and each stage knows of the two
    stores what it did (`StageHolds`).
  * *Disk:* the path of an upload is that of its own time and name
    (`PathsNamed`), so whoever replaces a file had the time and the stored name.
  * *Profiles:* `StaleIsExplained` is inductive with the types. What remains to be
    shown for each of the writers is that it invalidates later, or is excused.
  * *Presence:* the property has two halves, and neither is inductive in terms of
    open sockets alone. Who is online has a socket that is open or whose
    disconnection is about to be written (`OnlineHasSocket`); whoever has an open one
    behind its handshake is online unless it was written over (`SocketIsOnline`); `SocketsFit` says
    in which order a socket is asked for, opened and closed.
  * *Marks:* what was written by a handler that tells is told next (`DoneIsToBeTold`).
    A creation or a deletion of a row changes by one either what is `untold` or what
    the handlers in flight have to tell, and one that tells moves it to `told`.
  * *Pages:* `MissedBounded` follows a reader from page to page. What he has
    passed without getting it is bounded by the removals and by what came between
    two queries; on his last page so is what is left, because the places of what
    is missed are different ones below the total that he was given: a pigeonhole
    argument on places (`PlaceIn`).
  * *Assistant:* of the messages, those that nobody owes an answer are at least as
    many as the answers (`AnswersArePaid`), and messages are created in order
    (`Contiguous`), so that an answer created later comes behind. `HandlersFit`
    says that a handler behind its message keeps it to itself, and that the message is
    there as long as the conversation it was sent to.

Model-checked only: liveness, which is beyond the prover (`EndClosesOpenRows`, and
the fairness part of `KeepsPromise`), and the five violations, of which TLC gives
the counterexample. Every invariant and every action property of the passing runs
is stated by a theorem.

## What the runs found

Five disagreements between the code and what its comments or guides say of it,
each with a run that ends in TLC's counterexample and an entry under "findings":
two live calls of one conversation (`rtc-call.service.ts:92`); a call that is
over comes back to life (`:177`); saved ICE candidates overwrite each other
(`:313`); of two resets with one token both set the password, and the one that
is refused may be the one that lasts (`auth-password.service.ts:198`); and a cached
profile that outlives its update (`user-cache.service.ts:227`), where
`CACHE_INVALIDATION_GUIDE.md:142` promises fresh data also when Redis fails.

Other places where documents and code part, which are in the models as the code has
them and have no run of their own:

* The same guide (lines 83-96) lists four methods of the subscription service that
  invalidate. Of these only `cancelSubscription` exists; neither it nor a purchase
  (`subscription.service.ts`) knows the cache. `StaleIsExplained` counts both among
  the writers that never invalidate.
* `FRONTEND_CONVERSATION.md:211` says of `conversation:message_reacted` that it is
  "triggered by the server in response to REST API calls (like POST
  `/message/:id/react`)". The routes (`conversation.controller.ts:187-207`) emit
  nothing; only the gateway's own event does. `EventsSumUp` keeps them apart as
  `untold`.
* A payment is stored by its listener (`payment.listener.ts:27`) and once more by the
  processor. `CopiesBounded` is about the copies of the processor; the other one comes
  on top.

## Not modelled

Texts, payloads, the media stream, hashing, mail contents, HTTP and the
validation of requests. Times are reduced to "set", "fresh" and "expired". A
database operation is atomic and its failure leaves no trace (but an INCR that
is sent again); a reply lost after
a write took effect is the crash or the failure at the next operation. There is
one server process, as the in-memory map of the notification gateway requires.
In `Notifications`, the batch operations that nothing calls and the
single-statement reads, marks and deletions of stored notifications are left
out. In `PasswordReset` and `SignIn`, each has the codes of its own type only: no
handler of one type reads or writes rows of the other.

Left out because no code calls them, or nothing reads what they do: the
rate-limit service, the response-cache interceptor, the change of an administrator's
password, `uploadFileByPath`, the cached session, the copy of a code in Redis,
subscription webhooks. The throttler guard keeps its counts in the framework.
`isDeleted` and `hasBlocked` of member rows are written and no operation looks at
them, so they restrict no action. Mail, SMS and push are
output.

## Plan

1. Compose `SignIn` with `PasswordReset` on one table of accounts, and `Marks`
   with `Conversations` on one table of members, if an operation comes to touch
   columns of both.
2. Liveness of the assistant's answers and of the end of a lock, once the
   fairness of the stream and of Redis is stated.
3. Bounds for what `rtc_ice_lost` shows: of the candidates that overlap, how many
   may be lost, as it was done for refreshes and logins.
