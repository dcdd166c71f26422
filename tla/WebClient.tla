------------------------------ MODULE WebClient ------------------------------
(***************************************************************************)
(* The parts of the web client that go on across reconnects: the messages  *)
(* that it receives, the messages that it sends, and the call screen.  The *)
(* first two meet in processReceivedMessages, where the outbox drops what  *)
(* has arrived and the cursor advances; they share no variable, and the    *)
(* call screen shares none with them, so a behaviour exercises one of the  *)
(* parts, chosen at the start.                                             *)
(***************************************************************************)
CONSTANT Parts \* what a run exercises

CONSTANTS Workers, Runs, None, Faults, QueueSize, PageSize, MaxId, MaxFaults \* receiving

CONSTANTS Texts, Pages, MaxTroubles \* sending

CONSTANTS Devices, UserOf, Calls, Scenarios \* the call screen, by device

VARIABLES stored, nextId, lock, writer, link, queue, cursor, received, run, faults

VARIABLES page, pending, storage, sending, retrying, wire, rows, troubles, fate

VARIABLES scenario, row, screen, tasks, requests, relays, socket, inbox, leaked, failures,
          strayed

VARIABLE part \* the part that this behaviour exercises

Sync   == INSTANCE MessageSync
Outbox == INSTANCE Outbox WITH faults <- troubles, MaxFaults <- MaxTroubles
Screen == INSTANCE CallScreen WITH Pages <- Devices, link <- socket, faults <- failures

ASSUME WebClientAssumption ==
    /\ Parts \subseteq {"sync", "outbox", "screen"}
    /\ Sync!SyncConstants
    /\ Outbox!OutboxConstants
    /\ Screen!CallScreenConstants

syncVars   == <<stored, nextId, lock, writer, link, queue, cursor, received, run, faults>>
outboxVars == <<page, pending, storage, sending, retrying, wire, rows, troubles, fate>>
screenVars == <<scenario, row, screen, tasks, requests, relays, socket, inbox, leaked, failures,
                strayed>>
vars       == <<syncVars, outboxVars, screenVars, part>>

\* The call screen can begin in several ways; the other parts take one of them.
Init ==
    /\ part \in Parts
    /\ Sync!Init
    /\ Outbox!Init
    /\ Screen!Init /\ (part = "screen" \/ scenario = CHOOSE s \in Scenarios : TRUE)

SyncNext   == part = "sync" /\ Sync!Next /\ UNCHANGED <<outboxVars, screenVars, part>>
OutboxNext == part = "outbox" /\ Outbox!Next /\ UNCHANGED <<syncVars, screenVars, part>>
ScreenNext == part = "screen" /\ Screen!Next /\ UNCHANGED <<syncVars, outboxVars, part>>

Next == SyncNext \/ OutboxNext \/ ScreenNext

Spec == Init /\ [][Next]_vars

\* A part that is not exercised has nothing to do: somebody has to write a message,
\* load a page or begin a call first.
FairSpec == Spec /\ Sync!Fairness /\ Outbox!Fairness /\ Screen!Fairness

-----------------------------------------------------------------------------
(* The properties of the parts.                                              *)

\* The states keep their shape.
TypeOK == Sync!TypeOK /\ Outbox!TypeOK /\ Screen!TypeOK

\* What the client misses is ahead of its cursor or being fetched.
NothingFallsBehind == Sync!NothingFallsBehind

\* A message is stored once, however often pages send it, and closing them loses
\* none.
ExactlyOnce == Outbox!StoredOnce /\ Outbox!NothingIsLost

\* Nothing comes back: the cursor only advances, and a message that is stored or
\* deleted is not pending again in a page.
NothingReturns == Sync!CursorNeverGoesBack /\ Outbox!RemovedIsGone

\* Every message arrives, and none is shown as being sent for good.
MessagesGoOn == Sync!EveryMessageArrives /\ Outbox!SendingEnds

\* No page is left ringing, calling, connecting or talking to nobody; the calls
\* behind the pages go the way that the call service promises.
CallsGoOn == Screen!ScreensEnd /\ Screen!LifecycleIsKept

\* The cursor names a message that the client has, and a catch-up that ends well
\* brought all it had to.
CatchUpHolds == []Sync!CursorIsReceived /\ Sync!CatchUpIsComplete

\* A page talks only to a peer that answered, and in a call that its device took;
\* a call that ended is not shown as a conversation.
ScreensHold ==
    /\ Screen!ConnectsIfTaken
    /\ Screen!CallerWasAnswered
    /\ Screen!EndedIsOff
=============================================================================
