# A verification of YS-chat

YS-chat is a chat service: a Go API over MySQL (`src/ys-web-api`), a Vue web
client (`src/ys-web`) and a Flutter mobile client (`src/ys-mobile`). Requests
change rows in transactions or with conditional updates, a hub pushes events
over web sockets, several API instances may run at once and share the database
and, optionally, a Redis event bus. What is hard in this program is what
happens between two statements, two requests, two awaits or two connections; the
modules here are about that.

Contents: [the system](#the-system), [the modules](#the-modules),
[the runs](#the-runs), [fairness](#fairness), [the proofs](#the-proofs),
[where the code does less than it says](#where-the-code-does-less-than-it-says),
[what is not modelled](#what-is-not-modelled), [the plan](#the-plan).

## The system

Paths without a directory are in `src/ys-web-api/internal/api/services`, those
of the web client in `src/ys-web/src` (`views/Homepage/Homepage.vue`,
`store/chatRuntime.js`).

| Component | State | Operations | Hard behaviours | What makes it correct |
|---|---|---|---|---|
| Call service (`call_service.go`) | one row of `chat_calls` per call | invite, accept, reject, busy, cancel, end, offer, answer, ice; lazy expiry; a reaper per instance | no transaction spans a request, every update is conditional on a status; several devices accept; late answers race with timeouts | one device takes the call, an ended call stays as it is, outcome and record agree, every call ends |
| Conversation store (`chat_production_service.go`, `chat_service.go`) | messages, members with cursors and cached unread counts, receipts, deletions for oneself | send, poll, vote, edit, recall, delete for me, mark read, mark delivered, add and remove members | transactions at REPEATABLE READ that lock in different orders; retries; a system message written without a lock | unread counts equal a recount, receipts agree with cursors, one message per client id, no lost edit, no deadlock |
| Direct conversations (`chat_service.go`) | conversations of two | open a conversation, whom a call reaches | nothing in the schema makes a direct conversation unique | one conversation per pair unless both created it at once, calls reach the other |
| Reminders (`reminder_service.go`) | rows of `chat_reminders`, a batch in each scheduler | create, cancel, fireDue each second | instances share the rows; claim, announcement and reschedule are separate; missed ticks | once per time, canceled is final, repeating reminders go on |
| Realtime hub and presence (`realtime_service.go`) | registered connections, their number, a send channel each | serve, register, deliver, unregister, announce presence, shut down | three goroutines end a connection; presence is published after the lock is released; a full channel; shutdown against a late connection | the number is exact, no send on a closed channel, broken connections are dropped, presence converges, shutdown ends |
| Typing (`PublishTyping`) | a timer per user and conversation | start, stop, expiry | two critical sections and a timer callback | a start is followed by a stop, a replaced timer says nothing, the map does not grow |
| Event bus (`event_bus.go`) | handlers; a Redis subscriber that reconnects | publish, subscribe, close | closed during a broadcast; events lost while it reconnects | a closed bus drops events and does no harm |
| Polls (`chat_service.go`) | the poll, options, votes | create, vote with or without a custom option, close | what a request has checked is out of date when it commits; transactions of one user on two devices | one vote where one is allowed, the result stands unless a vote was under way, members learn the last change |
| Pins and reactions (both chat services) | ordered pins, the pin that the conversation caches, reactions | pin, unpin, react, recall, hide, backfill at start-up | the time of a pin is taken before the lock; lists are sent after the commit | the cache is the newest pin, announcements are changes, a recalled message is left alone |
| Attachments (`chat_production_service.go`, controller) | files, pending uploads, attachments, avatars | upload, claim, forward, recall, remove | a file is removed outside any transaction, after counting who refers to it | live messages have their files, an upload has one owner, nothing is left behind unrecorded |
| Device tokens and push (`push_service.go`, `chat_service.go`) | tokens per user and installation | register, unregister, select, deliver, prune | another account logs in, late requests, rejected tokens | one account per installation, its last registration stands, no push to its own origin |
| Message synchronisation (web client, `CatchUpMessages`) | the client's cursor, catch-ups under way, the hub's queue | live events, catch-up in pages on reconnection and when the page becomes visible | live events overtake the catch-up, connections break, queues overflow, requests fail | no message is passed by the cursor for good, every message arrives |
| Web outbox (web client) | pending messages in each page and in local storage | send, retry, persist, receive, delete | closed between sending and storing; two pages over one storage; late requests | stored once, not lost, not revived, not "sending" for good |
| Web call screen (web client) | call state, current call, timer, peer connection | call, accept, reject, hang up, time out, return to the foreground, nine kinds of events | awaits that resume on another call; two devices; lost events; a broken socket | talks only to who answered, ended calls are off, nobody is left ringing or talking to nobody |
| Mobile client | the same again in Dart | | | |
| Controllers, authentication, configuration, database set-up, address services | tickets and credentials | parse, authorise, answer | none beyond the above | |

They interact as follows. A controller calls a service; the service commits and
then, in the same goroutine, broadcasts through the hub (`BroadcastToUsers`),
the bus and `deliver` into a bounded queue per connection; a call event goes
first through `ProcessEvent`, and only the request that changed the row relays it.
Schedulers (the call reaper, reminders) run in every instance. The client
repairs what the socket lost: messages by catch-up requests, sending by its
outbox, calls by timers only.

## The modules

| Module | What it is |
|---|---|
| `CallService` | the call rows, the requests that handle call events and the reaper, statement by statement |
| `CallLifecycle` | what a call promises to its two users; `CallService` implements it (`ImplementsLifecycle`), and so do the rows of `CallScreen` (`LifecycleIsKept`) |
| `ConversationStore` | one group conversation: transactions with their row locks |
| `Directs` | direct conversations and whom calls in them reach |
| `Reminder` | reminder rows, users and schedulers |
| `RealtimeHub`, `Typing` | the connections of a user on an instance; the typing indicator of a user |
| `Polls`, `Marks`, `Attachments`, `Devices` | a poll; pins and reactions; files; tokens and pushes |
| `MessageSync` | writers, hub, socket and one client with its cursor and catch-ups |
| `Outbox` | the pages of a user, their storage and the server's unique key |
| `CallScreen` | the pages of two users, the events between them and the rows of their calls |
| `BackgroundWork`, `Realtime`, `Services`, `WebClient` | sums of components that are checked together, see below |
| `CallServiceProofs`, `ReminderProofs`, `ConversationStoreProofs`, `WebClientProofs`, `RealtimeProofs`, `ServicesProofs`, `MarkProofs`, `NumberTheorems` (sets of numbers) | theorems |
| `MC...` | the constants of the runs |

Sums. Components that share no variable are put into one module which chooses
at the start which of them a behaviour exercises (`part`); the others stand still.
The states of a sum are the sum of the components' states, not their product, and a
property of a sum is the conjunction of the named properties of its components.
`BackgroundWork` is `Reminder` and `CallService` under their schedulers alone,
`Realtime` is `RealtimeHub` and `Typing`, `Services` is `Polls`, `Marks`,
`Attachments`, `Devices` and `Directs`, `WebClient` is `MessageSync`, `Outbox` and
`CallScreen`.

**CallService.** `call[i]` is a row. `req[w]` is a request: `ProcessEvent` first
reads the row (`Load`), perhaps expires it (`Expire`, and `Reread` when another
request was faster), then performs the update its event stands for (`Accept`,
`Decline`, `Cancel`, `End`, `Offer`, `Answer`, `Ice`, or `Refuse` when the
sender may not) and relays (`Relay`). The copy it read stays in `req[w].row`:
`End` decides by it, and the talk time is computed from it. Each
update tests the stored status, as its `WHERE` does. `ReapRinging`,
`ReapConnecting` and `ReapActive` are the reaper's three bulk updates; since
every instance runs a reaper whose tick may be handled late, each takes any time up
to now. A time stamp is any time since the request's last statement (`Stamps`).
`connected`, `replies` and `relayed` are histories for the properties.

**ConversationStore.** `tx[w]` is a transaction. `LockConversation` and the
`StartLocked` requests take the lock of the conversation row, `LockRow` that of
a member's row; the inserting statements draw ids when they run, and
everything else a transaction writes becomes visible in its `Commit...` action.
`Rollback` stands for failing statements, refusals and crashes. A vote inserts
its system message without any lock, as `VotePoll` does. `changes` and the
`base` of a member are histories.

**Reminder.** `scheduler[i]` is the batch that instance `i` works off and the
copy of the row it has claimed: `Load`, then for each row `Claim`, `Announce`,
and `Reschedule` when it repeats; `Working` is the head of the loop.
Rows due at the same time are taken in any order, as the `ORDER BY` leaves it open.
A handled tick may be any since the last one: a ticker drops
ticks. Calendar periods are replaced by a fixed period; the loop of
`nextReminderTime` with its limit is `NextTime`.

**RealtimeHub.** `conn[c]` is a connection with its reader (`Serve`, `Register`,
`ReaderEnds`), its writer (`Write`, `WriteTimesOut`), the goroutine that `deliver`
starts when its channel is full (`Kick`), its channel and its socket. `Leave` is
`unregister`: who finds the connection registered removes it, closes its channel,
decreases `active` and announces. An announcement of presence is under way between
the release of the lock and the event bus (`announcing`, `Announce`); `Announced` marks
those that overlap. `Shutdown` is `LookForClients`, `CloseClient` for each and
the wait for `active` to reach 0, or its deadline (`ShutdownTimesOut`).

**Typing.** A request is `Clear` (first critical section), `Arm` (`AfterFunc`),
`Store` (second critical section) and `Tell`; a timer fires, takes the lock
(`Check`) and tells. `crossed` remembers a stop that overlapped with the start told
last, `replaced` the timers that a request has stopped or replaced.

**Polls.** `VotePoll` checks the poll before its transaction (`BeginVote`), finds its custom
option (`FindOption`), deletes the user's votes (`DeleteVotes`; the index
makes another transaction of the user wait there, or be rolled back), inserts
(`CommitVote`), loads the poll (`Load`, which may fail: `LoadFails`) and tells the members (`Tell`); `ClosePoll` likewise.
`shown` is what a member was told last: the last change, an older state, or an older one after the last.

**Marks.** `Arrive` takes the time of a pin; what a request then does under the lock of the
conversation is one action (`Pin`, `Unpin`, `React`, `Recall`, `Hide`); `Load` and
`Send` tell the members their lists. `Restart` is the backfill at start-up, which pins
again what the conversation has cached.

**Attachments.** `Save` writes the file, `Register` its row. A message takes an
upload or the attachment of a message that it forwards under `FOR UPDATE`
(`TakeSource`, `Claim`) until it commits. After a recall has committed,
`CountAttachments`, `CountAvatars`, `Remove` and `Unclaim` follow without a
transaction; the server may stop in between. `SetAvatar` asks nobody for the file; `late` notes that it
chose one that was gone or about to go.

**Devices.** Installations log in and out, their tokens are replaced, their requests are
handled late (`AskRegister`, `Logout`). `LockTable` is the DELETE by `device_id`, which scans
and locks the table. A push selects tokens (`Select`), delivers one after the other and
prunes what was rejected (`Prune`). `strayed` notes a push that came back to its origin or
reached an installation of no member.

**Directs.** `Search` is the query before the transaction, `Create` the
transaction; `DirectCallRecipients` is the query that says whom a call reaches.

**MessageSync.** `writer[w]` is a request between insertion, commit, broadcast
and answer; `link` and `queue` the client's connection in the hub; `run[r]` a
catch-up with its position and page. `Open` takes the snapshot that
`syncAfterRealtimeOpen` takes; `Ask` and `Merge` are one page; `Fail` is the
`catch` of `catchUpConversation`. `Faults` says what a run lets happen. A client
that sends an edit or recall event again is `Edit`.

**Outbox.** `pending[p]` is `pendingMessages` of page `p`, `storage` what the pages share;
`Persist` writes all of a page's entries, as `persistPendingMessages` does. `sending`
is `pendingDeliveryIds` with what became of the request (`Store` is the insertion
under the unique key of sender and client id, `Handle` the answer, `TimeOut` axios giving up, after which the
request may still arrive: `HandleLate`). `BeginRetry` and `RetryNext` are
`retryPendingMessages` after a reconnect, `RetryByUser` the button. `PersistOthers`
stands for the entries of other messages, whose changes write this one too.

**CallScreen.** `screen[p]` is what a page keeps of its call. A handler runs up to its next
await; what it does afterwards is a member of `tasks`, and actions named after what was awaited
go on (`GotMedia`, `Invited`, `Accepted`, `Prepared`, `Offered`, `TookOffer`, `Answered`), on whatever
the page shows by then. `ensurePeerConnection` waits for the ICE servers between looking for a connection
and storing one, so two handlers may each make one: the replaced one is `leaked`. `Serve` is `ProcessEvent` in one step, since
`CallService` shows that its conditional update decides; `Broadcast` follows in a step of
its own. `Expire`, `Drop`, `Break` and the failing branches are the faults. `strayed` and `over` are
histories.

## The runs

| Run | Asks | Bounds | States |
|---|---|---|---|
| `CallRace` | races of requests, lazy expiry and reaper | one call, three devices, two requests at a time, limits of one tick, two ticks after the first invite | 1.9 million |
| `CallRetry` | is the winner's retry idempotent (no) | as `CallRace`, no time passes | violated |
| `StoreChanging` | unread counts, retries, lost changes, deadlock | two users, two transactions, two ids, one version to edit | 0.7 million |
| `StoreMembership` | joining, leaving, receipts, cursors, deadlock; what votes leave intact | two users, two transactions; three ids, with votes four; what is delivered is followed without removals | 0.7 million |
| `StoreVoteRace` | are unread counts exact with votes (no) | four ids | violated |
| `BackgroundWork` | two schedulers, cancellations, one fault; does every call end | two reminders, periods 0 and 1, clock to 2; one call, one request at a time, clock to 4 | 0.17 million |
| `Realtime` | connections, presence, overflow, shutdown; typing | two connections, channels of one event; two requests, three starts | 0.16 million |
| `Services` | polls, pins, files, tokens, direct conversations | two users and a stranger, two requests at a time; four options, three changes of the poll; two messages, three requests, two times of a pin; two files, three messages that carry them; one installation with two tokens; three direct conversations | 0.8 million |
| `WebClient` | receiving, sending and calling, each with liveness | one writer, two catch-ups, three messages, pages of one, two broken connections; one text, two pages, two troubles; two devices, one call with a fault or two calls at once | 0.2 million |
| `ClientDisturbed` | receiving with all faults at once; calling with two devices of a user, or one call after the other | two writers, one catch-up, three messages, queue of one, two faults; three devices with no or one fault, two calls | 1.6 million |
| `SyncFailed` | does a failed catch-up keep its gap (no) | one writer, one catch-up, three messages, two faults | violated |
| `CallRejected` | does a page that returns close a rejected call (no) | two devices, one call, one fault | violated |

The properties of the sums are conjunctions of named ones, each with its comment where it
is defined:

| Property | Its parts |
|---|---|
| `RealtimeHolds` | the hub's `TypeOK` (never a send on a closed channel), `CountIsExact`, `StopsEmpty`, `PresenceIsTold`; typing's `ReplacedIsSilent` |
| `RealtimeGoesOn` | `BrokenIsDropped`, `ShutdownEnds`; `IndicatorEnds`, `EntryIsRemoved` |
| `PollsHold` | `OneVoteEach`, `ResultIsFinal`, `ClosedOnce`, `TextsAreDistinct`, `LastChangeIsTold` |
| `MarksHold`, `RecalledIsLeftAlone` | `CachedIsNewest`, `AnnouncementsAreChanges`, `ShownIsPinned`; the action property of the same name |
| `FilesHold` | `LiveHasFile`, `AvatarHasFile`, `ClaimedByOne`, `LeftoverIsRecorded` |
| `TokensHold` | `OneAccountPerInstallation`, `RegisteredIsReachable`, `OriginIsLeftOut`, `PushesReachMembers` |
| `DirectsHold` | `OneDirectConversation`, `AnswerIsOfTheTwo` |
| `ExactlyOnce`, `NothingReturns` | the outbox's `StoredOnce`, `NothingIsLost`; its `RemovedIsGone` and the client's `CursorNeverGoesBack` |
| `MessagesGoOn` | `EveryMessageArrives`, `SendingEnds` |
| `CallsGoOn` | `ScreensEnd` and the refinement `LifecycleIsKept` |
| `CatchUpHolds` | `CursorIsReceived`, `CatchUpIsComplete` |
| `ScreensHold` | `ConnectsIfTaken`, `CallerWasAnswered`, `EndedIsOff` |

Why these bounds are enough to be interesting. Races of the call service are
between a loaded row and at most one other statement at a time, so two requests
and a reaper produce every pair; three devices are the caller and two
competitors; two ticks are enough to pass each limit of one tick. A
conversation's hazards need a message on its way, one before it and a
member who reads, joins or leaves: two or three ids, two transactions.
A vote needs a poll (two ids), its own message and one that
overtakes: four. In `MessageSync` a gap of two pages and a live
message behind it is three messages; a queue of one overflows. In the hub two
connections are a user who stays online while one of them leaves, and a channel
of one event overflows with the second. Three starts of typing are one that is
replaced, one that replaces and one that begins while the first one's
callback waits. Three changes of a poll are a vote, a vote that overlaps
with it and the closing. Three carriers of a file are the message that claims it, one
that forwards it and one that forwards that. Two tokens of an
installation are one that is dead or rejected and the one that replaces it. Three direct
conversations are those of each two of three users. In the outbox one
text is enough, since `PersistOthers` stands for what other texts do to it; two
troubles are a timeout and a page that closes. `CallScreen` begins a call only when
no handler or request is under way (`Settled`), events may be; its scenarios say who has a page open,
who calls, what users do and how much fails. Every run
is set up so that its mutants (`PROJECT.json`), which are plausible slips in the
code, are found under the same bounds.

`CHECK_DEADLOCK FALSE` is said where the system may stop: the clock is
bounded, all ids, requests or calls are used, or the last member has left.

Symmetry is used over interchangeable workers, requests, devices and
catch-ups, and never in a run with a liveness property.

## Fairness

- `CallService`: time passes, the reaper's ticker fires (`StartReaper`), a request
  that has begun goes on. Nobody has to send an event, so `EveryCallEnds` is
  what the timeouts alone achieve.
- `Reminder`: time passes and each scheduler keeps running. No fairness for users.
  The two liveness properties except a reminder that a fault has hit, or, for
  `EveryTimeIsAnnounced`, that two schedulers held at once; see below.
- `RealtimeHub`: readers, writers, the goroutines of full channels, announcements and
  `Shutdown` go on; the deadlines of reads and writes pass. The deadline of
  `Shutdown` is not fair: `ShutdownEnds` is about what happens without it.
- `Typing`: requests are handled to their end and timers fire.
- `MessageSync`: requests that were begun finish, the client reads its
  socket, reconnects (`scheduleRealtimeReconnect` never gives up) and gets answers to
  its catch-up requests. Broken connections are bounded by `MaxFaults`, they are
  not fair.
- `Outbox`: a loaded page reconnects and goes on; a request ends by its timeout of 15 seconds
  at the latest (`store/chat.js`). Nobody has to load a page or press a button.
- `CallScreen`: handlers that were answered go on, so do those that make an offer or an answer; the
  server serves and relays; events are read; timers fire; a page notices that its peer is
  gone (the ICE state becomes "failed"). Nobody has to press a button, to allow the microphone or to get a new socket.
- `ConversationStore` and `Services` have only safety properties.

## The proofs

`CallServiceProofs` proves for all values of the constants, under
`CallAssumption` (what the constants are: members and sessions are of users, `None` is nobody,
the timeouts are positive) and nothing else:

| Theorem | States |
|---|---|
| `TypeCorrect` | `TypeOK` always holds |
| `OutcomesFit` | `OutcomeFitsAnswer`: a row never contradicts itself |
| `EndedStaysEnded` | `EndedIsFinal`: no step changes an ended call |
| `OneDevice` | `OneDeviceTakesTheCall`: only the stored device is told it has the call |
| `CompletedCallsConnected` | `CompletedWasConnected` |
| `LifecycleImplemented` | `ImplementsLifecycle`: the refinement of `CallLifecycle` |
| `TalkTimeRight` | `TalkTimeIsNotOverstated` |
| `RelayedOnce` | `EachStepIsRelayedOnce`: clients hear of a step of a call at most once |

The argument. `TypeOK` alone says nothing about the copy a request
holds, and the updates are conditional on the stored row while what they
write comes from the copy. The inductive invariant `Basis` therefore adds to the
type that a request that runs knows its call, that one that is going to write
carries a row and an event it may act on (`RequestsOK`), and that no answer and no
request is in the future (`TimesOK`). All actions but the ones that
write a row leave `call` alone; for the others the lemmas `NextRows` and
`NextRow` say once which kinds of change a step can make to a row, and each invariant
is then shown for the kinds instead of the actions. `OneDevice` needs `DeviceInv`:
a request whose accept has won belongs to the stored device until it answers.
`CompletedCallsConnected` needs `ConnectedInv`: a copy with status "active" is
of a call in `connected`. The refinement maps a bulk update of the reaper to
one `End` of several calls. `TalkInv` says that a copy either does not know when its call was
answered or knows it rightly, which is why a talk time computed from a stale copy can be too short only.
`RelayInv` ties what was relayed, or is about to be, to the row: of a step that some request
has claimed the row says that it was made (`ClaimedIsMade`), so the condition of the next update
fails; each step, and an ending of any kind, is claimed by one request (`PendingIsUnique`, `OneEnding`).

`ReminderProofs` proves for any reminders, schedulers, periods, limits and
bounds, under `ReminderAssumption` (they are numbers, and an id is not zero):

| Theorem | States |
|---|---|
| `TypeCorrectness` | `TypeOK` always holds |
| `AnnouncedOnce` | `SingleFiresOnce`: one announcement of a reminder that does not repeat |
| `CanceledForGood` | `CanceledIsFinal`: no step changes a canceled row |
| `EachTimeOnce` | `FiresOnce`: no time is announced twice, unless two schedulers had the reminder in their batches at once |

The argument. The UPDATE that reschedules has no condition, so both safety
properties depend on what else may have happened to the row since the claim. The
inductive invariant `IInv` says: a row that a scheduler holds, from its claim to
its reschedule, is "fired" (`HoldersOK`), and no two schedulers hold the same one
(`HoldersDiffer`). Both follow from the condition of the claim, because a
"scheduled" row is held by nobody (`ScheduledIsFree`). Copies know how
often their rows repeat (`PeriodsAgree`), so a reminder that does not repeat is
never scheduled again, and once announced it stays fired with nobody about to
announce it (`AnnouncedIsDone`). `BatchesExist` keeps old copies apart from rows that are
created later. Steps that only let go of a row share the lemma `LetGo`.
`EachTimeOnce` needs `Turns`: a reminder that was never in two batches at once is in one batch
or held by one scheduler and never both (`OneScheduler`), its copy has the time of its row (`CopiesAgree`),
and the times that were announced lie before the time that its row waits for (`TimesGoOn`).

`ConversationStoreProofs` proves for any users, client ids, number of concurrent
transactions, mix of operations and number of message ids, under `StoreAssumption`
(who created the group is a user, `None` is nobody, the users are finitely many):

| Theorem | States |
|---|---|
| `TypeCorrect` | `TypeOK`; unread counts never fall below zero |
| `NeverDeadlocked` | `NoDeadlock`: no set of transactions waits for itself |
| `NoLostChange` | `EachChangeHasItsVersion` |
| `StoredOncePerClientId` | `OneMessagePerClientId` |
| `CursorsAdvance` | `CursorsNeverGoBack` |
| `NothingUnreadIsMissed` | `UnreadIsNeverTooLow`, and with it `UnreadIsExact` for histories without votes |
| `UnreadIsRight` | `UnreadIsExact`, if no scenario has votes, as in `StoreChanging` |
| `ReceiptsAreRight` | `ReceiptsMatchCursors` |

The argument. What a transaction may rely on between two of its statements is what its
locks keep others from changing, and the invariant `Basis` says which locks these are: a
transaction is where its operation can be (`TransactionsOK`); who has locked rows of
members has locked the conversation too, unless it only moves a cursor, and then the
row is that of its member (`LocksOK`); a message that was inserted and not committed belongs
to one transaction (`OwnsOK`); ids that were not drawn are free, and what is hidden,
changed or under a cursor is stored (`RowsOK`). `Others` and `OthersStay` then say what a
step leaves alone for the other transactions, `MessagesNext`, `MembersNext` and `ReceiptsNext` what it
may do to one row, and the rest of the proof speaks of these instead of the 17 actions.

Whoever only moves a cursor waits for nothing once it has its row, and of the others
only the one that has the conversation has rows, so a circle would consist of it alone. A `MarkRead` that is about to write has a cursor not beyond what
it writes (`CursorsOK`), and the count it has made stays right because whoever changes what its
member sees needs the row it has locked (`RecountOK`). The count of a member is
compared with the set it counts (`CountOK`): `UnseenNext` says by which element the set
changes, and `InOrder`, that without votes ids become visible in their order, is what makes a new
message count for everybody whose cursor it could be below. `ReceiptsOK` adds that receipts are of
stored messages and that read <= delivered.

`WebClientProofs` proves for any writers, catch-ups, pages, texts, calls, devices of two users, sizes of queues and
pages and numbers of faults, under `WebClientAssumption`, with `NumberTheorems` for the largest and the least of
a set of numbers:

| Theorem | States |
|---|---|
| `CatchUpIsRight` | `CatchUpHolds`: `CursorIsReceived` and `CatchUpIsComplete` |
| `SentExactlyOnce` | `ExactlyOnce`: `StoredOnce` and `NothingIsLost` |
| `NothingComesAgain` | `NothingReturns`: `CursorNeverGoesBack` and `RemovedIsGone` |
| `NothingIsPassed` | `NothingFallsBehind`, if `Orderly` |
| `ScreensAreRight` | `ScreensHold`: `ConnectsIfTaken`, `CallerWasAnswered` and `EndedIsOff` |
| `PagesKeepLifecycle` | `LifecycleIsKept`: the rows of `CallScreen` implement `CallLifecycle` |
| `TypesAreRight` | `TypeOK` of the three parts |

The argument. For a catch-up (`RunOK`): what it had to bring is received up to its position, and a page that
has arrived is the beginning of the rest, so that nothing lies between position and page, whatever
messages are written meanwhile; a page after which there is more brings it forward. For the outbox (`PageOK`): an entry with a request under way says
so, a closed page has no requests, and what a request is said to have stored is in the table; so an
entry is removed only when its message is stored or its user deleted it.

`NothingFallsBehind` is false for most values of the constants, as the runs and "Limits" show. `NothingIsPassed`
therefore has a hypothesis, `Orderly`, which is true of the run `WebClient`: one request at a time writes, of
`Faults` only connections break and messages may be written without the lock of the conversation ("drop" and "note"), and the
queue is as long as there are messages. Each part is needed: TLC finds the property violated with two writers, a shorter queue, or any of
"own", "late" and "lose", and `SyncFailed` shows what a failed request does; "edit" is left out because it needs a longer queue. The invariant is `FallInv`. Messages are stored and sent in the
order of their ids (`WriterInOrder`, `QueueInOrder`), and a catch-up starts behind the cursor and leaves nothing out (`RunInOrder`).
What the cursor has passed and the client has not, a catch-up under way brings (`PassedIsBrought`):
when a live event moves the cursor, everything between is being fetched. That holds because of `RestIsSent`: while the client is
connected, whatever no catch-up brings is in the queue or about to be broadcast, in order, so that the
event at the head of the queue is the least of them.

`CallScreen` has many actions, and its invariant `ScreenInv` speaks of pages, handlers, requests, rows, events on their way and
sockets. All steps of a page are therefore instances of `PageStep`, which says what a page may do to itself, which handlers and
requests it may start and which events it may read; all steps of the server are instances of `ServerStep`. What the
proof rests on: a call is invited to once (`InvitedOnce`), and whoever shows a call was invited to it or owns
it (`InvitedOK`, `Owned`), so an ended call is not shown again by an invitation that comes late. If another device has
taken the call, a page that could still connect has the accept before it and no offer ahead of that accept (`TakenIsHeard`): this is
`ConnectsIfTaken`, and it is why the order of the events of one socket matters. An ending is on its
way to each page that shows an ended call, as long as nothing failed (`EndIsHeard`): this gives `EndedIsOff`. The pages are of two users
(`CallScreenConstants`), as calls are of direct conversations; a user may have any number of pages.
For `PagesKeepLifecycle` a step changes at most one row, in one of five ways (`RowMoves`), which are the actions of `CallLifecycle`; an
expiry is an `End` of one call.

`RealtimeProofs` proves `RealtimeIsRight` (`RealtimeHolds`) for any connections, requests, lengths of channels and
numbers of timers, under `RealtimeAssumption`. For the hub `HubInv` says that registered connections have open channels, that their number
is the counter, and that an announcement of presence which overlaps with no other is the only one
under way and tells the truth (`AloneIsTrue`); that is what makes the last one right. For typing `TypingInv` says that timers are armed in turn, that
the timer in the map is not replaced and still runs or has fired, and that a timer a
request has armed and not yet stored is known to nobody else (`ToStore`).

`ServicesProofs` and `MarkProofs` prove about the services around messages, for any users, requests, messages,
files, installations and bounds, under `ServiceAssumption`:

| Theorem | States |
|---|---|
| `DirectsAreRight` | `DirectsHold` |
| `TokensAreRight` | `TokensHold` |
| `FilesAreRight` | `FilesHold` |
| `PollsAreRight` | `PollsHold` |
| `MarksAreRight` | `MarksHold` |
| `RecalledLeftAlone` | `RecalledIsLeftAlone`: no step pins a recalled message or changes its reactions |

The arguments. *Direct conversations* (`DirectInv`): a second one comes only from a request that was looking while another one
created it. *Tokens* (`DeviceInv`): what a request carries was an own token of the installation
that made it (`RequestsAreMade`), the newest row of an installation is that of its last registration (`RowsAreLast`), and a
push under way is on its way to a member's installation unless that registered meanwhile (`SendingIsRight`). *Files* (`FileInv`): what
the locks of a sending request guarantee until it commits (`SendOK`, `NoTwoSend`), and what a recall has found out about its file and
may still rely on between its steps, none of which is in a transaction (`RecallOK`). *Polls* (`PollInv`): what a
request that is about to insert has found is still so, or the index makes it wait (`VotesRight`, `OneInsert`); a text is
proposed once unless two requests overlap (`TextsRight`); the last change was told, or something after it, or some request will tell it (`ToldRight`).
*Pins* (`MarkInv`): rows have different messages (`PinnedOnce`), the cached pin is the newest row, what the announcements say
is what is pinned, and a member was sent the newest list, will be, or was sent an older one after it (`ListsAreTold`). A restart adds no row
because the cached pin is one of the rows (`NewestIsThere`).

The constants are assumed to be what the code has: ids of rows are positive numbers, the
values for "none" are nobody's name, limits are numbers. All of these inductive invariants were checked by TLC on the
runs of their modules before they were proved.

Only model-checked, and why:

- all liveness (`EveryTimeIsAnnounced`, `RepeatsGoOn`, `EveryCallEnds`, `MessagesGoOn`, `CallsGoOn`, `RealtimeGoesOn`):
  proofs under fairness are outside what the prover does; `CallsGoOn` holds `LifecycleIsKept` too, which is proved (`PagesKeepLifecycle`).
- the violated runs are counterexamples and need no proof.

## Where the code does less than it says

- `CallRetry`: the winner of an accept that repeats its event after the caller's offer
  was processed is told that the call was taken (`call_service.go:107`),
  although `call_service_test.go:74` says that a retry of the winner must be idempotent.
- `StoreVoteRace`: the system message of a vote is written without the
  lock of the conversation; reading up to it leaves a message that commits later with
  a lower id counted as unread for good. `StoreMembership` shows that the count is then
  too high, never too low.
- `SyncFailed`: live messages move the cursor during a catch-up; when the
  catch-up fails, the next one starts behind the gap, although the comment in
  `Homepage.vue:5007` says it resumes from the safe boundary.
- `CallRejected`: `reconcileCurrentCall` looks for the status "rejected"
  (`Homepage.vue:4198`), the server stores "reject" (`call_service.go:119`). A caller's page that missed the
  event does not close the call when it returns to the foreground, which the comment in
  `Homepage.vue:4209` calls a fallback.

Limits of what the runs promise, which the code has and no run asserts away:

Reminders

- With two schedulers a repeating reminder can be announced twice for one time, or
  miss one: the claim tests the status and not the time that was loaded. `FiresOnce` and
  `EveryTimeIsAnnounced` except reminders that two schedulers held at once.
- A cancellation that arrives between claim and reschedule is answered with
  success and has no effect. `CanceledIsFinal` is about rows that are canceled.
- An instance that dies after a claim, or a reschedule that fails, loses the reminder.

Receiving and sending

- `NothingFallsBehind` needs broadcasts in the order of the ids and a queue that
  does not overflow. An overflow drops one event and unregisters the
  client later; events that were queued in between move the cursor past it.
  Two requests that commit in the order of their ids and broadcast in the other one, on one instance or on two, or a
  registration that comes after the catch-up, have the same effect; the run `WebClient` therefore has one writer, and `NothingFallsBehind`
  and `EveryMessageArrives` are shown for one request at a time. `ClientDisturbed` shows what remains.
- A page writes all of its entries to the storage and reads it only when it loads, so
  another page can overwrite an entry, and a message that was deleted in one page can be sent by another one that still
  has it. A refused message that the user sends again while the page is
  loaded again stays "sending". A retry is refused after the user has left the conversation, though the message is stored.

The hub, typing, polls, pins

- While two announcements of presence are under way the older one may come last and stay.
- A connection that has passed the check for shutdown and registers late is closed by nobody; `Shutdown` then waits for its deadline.
- Presence, `OnlineSet` and typing timers are kept per process (`realtime_service.go:187`), though several
  instances may share a bus (`event_bus.go:18-20`); the models are of one instance.
- A stop of typing that overlaps with a start of another device can be told before it while its timer is cleared.
- A vote that is under way when the poll is closed is counted; two requests that close a poll at once both announce it;
  the same custom text proposed twice at once becomes two options.
- An older state of a poll can be told after a newer one, and a request that cannot load the poll after its commit
  (`chat_service.go:1381-1384`, `1443-1446`, `1477-1479`) tells nobody. `LastChangeIsTold` excepts both.
- An older list of pins can be sent after a newer one. A crash between commit and broadcast is not modelled for polls, pins and calls: the
  broadcast is lost, and clients see the change when they load it again.

Files, tokens, direct conversations

- `UpdateConversationSettings` (`chat_service.go:677-700`) stores any address: an avatar chosen after a recall has removed its file, or
  between the count and the removal, has no file. When a message is recalled whose
  file something else has, the record of its claim goes with the recall (`chat_production_service.go:968-970`).
- A push that was selected before another account logged in reaches the new account.
  A row from before `device_id` was added and a request that does not name its token: the call event comes back to its origin.
- Two requests can create two direct conversations of the same users.

Calls on the screen

- A callee who hangs up while connecting sends `call.cancel`, which the server refuses to a callee; the caller waits for its timer.
- A page that missed `call.accept`, since its socket was broken, answers the offer without having accepted (`ConnectsIfTaken` excepts reopened sockets).
- Handlers do not look whether their call is still shown after an await (`strayed`): a late answer can hit the next call, and the offer of the former
  call can be answered in the name of the next one. One call after the other is part of `ClientDisturbed` and not of
  the liveness run.
- A replaced peer connection is not noticed when it ends (`ScreensEnd` excepts it, `leaked`).
- When the peers lose each other both screens close and nobody tells the server: the row stays "active" until the maximum duration.
- A second device that is busy rejects the call for all devices of its user.
- A cancel relayed before its invite leaves the callee ringing until the timer. Two users who call each other at once both get "busy".

## What is not modelled

The mobile client, a second implementation of the client's protocols. Contacts and whom presence concerns. Mentions, nicknames, personal settings, search, lists and histories,
renaming, ownership and dissolution of groups; authentication and tickets; validation, wording and the formats of answers;
file contents. The hub's table of duplicate client events (`rememberInboundEvent`) and its subscriptions, which are stored and
filter nothing; the Redis bus, whose losses are the fault "lose" of `MessageSync`. ICE candidates, muting, the camera, ringing and
closing a page during a call. A page reload, for
which the web client keeps its cursors in local storage. Configuration, database set-up, TURN and ICE services: no protocol state.

Names of sources that are only used from outside (MySQL's locks and commits, the
clock, crashes, Firebase, the browser's peer connection) are marked external in the map.

## The plan

Done: `CallService` with `CallLifecycle`, `ConversationStore`, `Reminder`, `MessageSync`, `RealtimeHub`, `Typing`, `Polls`, `Marks`, `Attachments`, `Devices`,
`Directs`, `Outbox`, `CallScreen` and the sums; the proofs listed above.

To prove next, in this order:

1. `NothingIsPassed` with edits and recalls, whose events repeat ids in the queue: `QueueInOrder` has to
   speak of the messages that the client misses only.
2. The properties of the mobile client, once it is modelled; every safety property of the passing runs has a theorem now.

To model next: the mobile client as another instance of `Outbox`, `MessageSync` and `CallScreen`, where its code differs
(`ys-mobile/lib/src/services/call_state_machine.dart`, `app_state.dart`); group ownership and dissolution.

Runs stay few: one passing run per question, and a violated one only for a line
of the repository that the code contradicts.
