-------------------------------- MODULE Outbox --------------------------------
(***************************************************************************)
(* The outbox of the web client: queueMessageSend, deliverPendingMessage   *)
(* and retryPendingMessages, in one or several pages of a user.            *)
(*                                                                         *)
(* A page keeps the messages that it has not seen stored yet, and writes   *)
(* all of them to the browser's local storage after each change.  The      *)
(* pages share the storage and read it only when they are loaded.  A       *)
(* message is sent again with the same client id until an answer, an event *)
(* of the socket or the history says that it is stored.                    *)
(***************************************************************************)
EXTENDS Integers

CONSTANTS
    Texts,    \* messages that the user writes: a client id each
    Pages,    \* pages of the user that share a local storage
    MaxFaults \* bound: pages closed, sockets lost, requests that failed

\* What the constants must satisfy.
OutboxConstants == MaxFaults \in Nat

VARIABLES
    page,     \* page[p]: closed, on its way to a socket and a catch-up, or ready
    pending,  \* pending[p][m]: the entry of m in pendingMessages of p
    storage,  \* the entries in local storage
    sending,  \* sending[p][m]: pendingDeliveryIds, with what became of the request
    retrying, \* retrying[p]: what retryPendingMessages still has to deliver
    wire,     \* requests on their way that nobody waits for any more
    rows,     \* rows[m]: how many rows of chat_messages have this client id
    faults,   \* counts what MaxFaults bounds
    fate      \* history: what the user and the pages did to m

vars == <<page, pending, storage, sending, retrying, wire, rows, faults, fate>>

NoEntry == [state |-> "none", retryable |-> FALSE]
Nothing == [m \in Texts |-> NoEntry]

Init ==
    /\ page = [p \in Pages |-> "closed"]
    /\ pending = [p \in Pages |-> Nothing]
    /\ storage = Nothing
    /\ sending = [p \in Pages |-> [m \in Texts |-> "no"]]
    /\ retrying = [p \in Pages |-> {}]
    /\ wire = {}
    /\ rows = [m \in Texts |-> 0]
    /\ faults = 0
    /\ fate = [m \in Texts |-> "unwritten"]

Fault == faults < MaxFaults /\ faults' = faults + 1

-----------------------------------------------------------------------------
(* Pages.                                                                    *)

\* onMounted
LoadPage(p) ==
    /\ page[p] = "closed"
    /\ page' = [page EXCEPT ![p] = "opening"]
    /\ pending' = [pending EXCEPT ![p] = storage]
    /\ UNCHANGED <<storage, sending, retrying, wire, rows, faults, fate>>

\* Closed, loaded again or crashed: its requests may still reach the server.
ClosePage(p) ==
    /\ page[p] # "closed" /\ Fault
    /\ page' = [page EXCEPT ![p] = "closed"]
    /\ pending' = [pending EXCEPT ![p] = Nothing]
    /\ wire' = wire \cup {m \in Texts : sending[p][m] = "sent"}
    /\ sending' = [sending EXCEPT ![p] = [m \in Texts |-> "no"]]
    /\ retrying' = [retrying EXCEPT ![p] = {}]
    /\ UNCHANGED <<storage, rows, fate>>

LoseSocket(p) ==
    /\ page[p] = "ready" /\ Fault
    /\ page' = [page EXCEPT ![p] = "opening"]
    /\ UNCHANGED <<pending, storage, sending, retrying, wire, rows, fate>>

-----------------------------------------------------------------------------
(* The entries of a page.                                                    *)

\* What has become of m when page p writes these entries.
FateAfter(p, entries, m) ==
    CASE fate[m] = "unwritten" /\ entries[m] # NoEntry -> "kept"
      [] fate[m] = "kept" /\ storage[m] # NoEntry /\ {pending[p][m], entries[m]} = {NoEntry} -> "overwritten"
      [] OTHER -> fate[m]

\* Mutant: a message is written to the storage when its request has ended.
PersistLater(p, entries) ==
    /\ pending' = [pending EXCEPT ![p] = entries]
    /\ storage' = [m \in Texts |-> IF entries[m].state = "sending" THEN storage[m] ELSE entries[m]]
    /\ fate' = [m \in Texts |-> FateAfter(p, entries, m)]

\* pendingMessages becomes entries and is written to the storage as a whole.
Persist(p, entries) ==
    /\ pending' = [pending EXCEPT ![p] = entries]
    /\ storage' = entries
    /\ fate' = [m \in Texts |-> FateAfter(p, entries, m)]

\* Mutant: the entry does not say that it is being sent.
DeliverSilently(p, m, entry) ==
    /\ Persist(p, [pending[p] EXCEPT ![m] = entry])
    /\ sending' = [sending EXCEPT ![p][m] = "sent"]

\* deliverPendingMessage up to the request.
Deliver(p, m, entry) ==
    /\ Persist(p, [pending[p] EXCEPT ![m] = [entry EXCEPT !.state = "sending"]])
    /\ sending' = [sending EXCEPT ![p][m] = "sent"]

\* queueMessageSend
Write(p, m) ==
    /\ page[p] # "closed" /\ fate[m] = "unwritten"
    /\ Deliver(p, m, [state |-> "sending", retryable |-> TRUE])
    /\ UNCHANGED <<page, retrying, wire, rows, faults>>

\* retryPendingMessage: the user asks to send a failed message again.
RetryByUser(p, m) ==
    /\ page[p] # "closed" /\ pending[p][m].state = "failed" /\ sending[p][m] = "no"
    /\ Deliver(p, m, pending[p][m])
    /\ UNCHANGED <<page, retrying, wire, rows, faults>>

Entries(p) == {m \in Texts : pending[p][m] # NoEntry}

\* Mutant: only what failed is sent again.
BeginRetryOfFailed(p) ==
    /\ page[p] = "opening"
    /\ page' = [page EXCEPT ![p] = "ready"]
    /\ retrying' = [retrying EXCEPT ![p] = @ \cup {m \in Entries(p) : pending[p][m].state = "failed"}]
    /\ UNCHANGED <<pending, storage, sending, wire, rows, faults, fate>>

\* syncAfterRealtimeOpen: the socket is open and the catch-up over;
\* retryPendingMessages takes the entries that there are.
BeginRetry(p) ==
    /\ page[p] = "opening"
    /\ page' = [page EXCEPT ![p] = "ready"]
    /\ retrying' = [retrying EXCEPT ![p] = @ \cup Entries(p)]
    /\ UNCHANGED <<pending, storage, sending, wire, rows, faults, fate>>

\* The next one, unless it is gone, was refused for good or is being delivered.  Each
\* connection starts a loop of its own, which waits for an answer between two messages.
RetryNext(p, m) ==
    /\ m \in retrying[p]
    /\ retrying' = [retrying EXCEPT ![p] = @ \ {m}]
    /\ IF pending[p][m].retryable /\ sending[p][m] = "no"
       THEN Deliver(p, m, pending[p][m])
       ELSE UNCHANGED <<pending, storage, sending, fate>>
    /\ UNCHANGED <<page, wire, rows, faults>>

\* deleteExistingMessageForMe of a message that was not sent.
Delete(p, m) ==
    /\ page[p] # "closed" /\ m \in Entries(p)
    /\ pending' = [pending EXCEPT ![p][m] = NoEntry]
    /\ storage' = pending'[p]
    /\ fate' = [n \in Texts |-> IF n = m THEN "deleted" ELSE FateAfter(p, pending'[p], n)]
    /\ UNCHANGED <<page, sending, retrying, wire, rows, faults>>

\* The page writes, gets or deletes another message: all its entries are written.
PersistOthers(p) ==
    /\ page[p] # "closed" /\ storage # pending[p]
    /\ Persist(p, pending[p])
    /\ UNCHANGED <<page, sending, retrying, wire, rows, faults>>

\* processReceivedMessages: an event, a catch-up or the history shows the
\* message to the page.
Receive(p, m) ==
    /\ page[p] # "closed" /\ m \in Entries(p) /\ rows[m] > 0
    /\ Persist(p, [pending[p] EXCEPT ![m] = NoEntry])
    /\ UNCHANGED <<page, sending, retrying, wire, rows, faults>>

-----------------------------------------------------------------------------
(* Requests.                                                                 *)

\* SendMessageIdempotent finds the row of the client id, or inserts it.
Store(m) == [rows EXCEPT ![m] = IF @ = 0 THEN 1 ELSE @]

\* The server handles the request ...
Handle(p, m) ==
    /\ sending[p][m] = "sent"
    /\ rows' = Store(m)
    /\ sending' = [sending EXCEPT ![p][m] = "stored"]
    /\ UNCHANGED <<page, pending, storage, retrying, wire, faults, fate>>

\* ... or fails before or after the commit; or refuses one who is not a member (any
\* more), also what it has stored before ...
HandleFails(p, m) ==
    /\ sending[p][m] = "sent" /\ Fault
    /\ \/ rows' \in {rows, Store(m)} /\ sending' = [sending EXCEPT ![p][m] = "error"]
       \/ UNCHANGED rows /\ sending' = [sending EXCEPT ![p][m] = "refused"]
    /\ UNCHANGED <<page, pending, storage, retrying, wire, fate>>

\* ... or the client's timeout passes first.
TimeOut(p, m) ==
    /\ sending[p][m] = "sent" /\ Fault
    /\ sending' = [sending EXCEPT ![p][m] = "error"]
    /\ wire' = wire \cup {m}
    /\ UNCHANGED <<page, pending, storage, retrying, rows, fate>>

\* A request that nobody waits for is handled, or lost.
HandleLate(m) ==
    /\ m \in wire
    /\ wire' = wire \ {m}
    /\ rows' \in {rows, Store(m)}
    /\ UNCHANGED <<page, pending, storage, sending, retrying, faults, fate>>

\* deliverPendingMessage after a good answer.
Succeed(p, m) ==
    /\ sending[p][m] = "stored"
    /\ sending' = [sending EXCEPT ![p][m] = "no"]
    /\ Persist(p, [pending[p] EXCEPT ![m] = NoEntry])
    /\ UNCHANGED <<page, retrying, wire, rows, faults>>

\* Mutant: setPendingMessageState does not ask whether there is an entry.
FailAnyway(p, m) ==
    /\ sending[p][m] \in {"error", "refused"}
    /\ sending' = [sending EXCEPT ![p][m] = "no"]
    /\ Persist(p, [pending[p] EXCEPT ![m] = [state |-> "failed", retryable |-> sending[p][m] = "error"]])
    /\ UNCHANGED <<page, retrying, wire, rows, faults>>

\* Its catch: a message that was received meanwhile has no entry any more.
Fail(p, m) ==
    /\ sending[p][m] \in {"error", "refused"}
    /\ sending' = [sending EXCEPT ![p][m] = "no"]
    /\ IF m \in Entries(p)
       THEN Persist(p, [pending[p] EXCEPT ![m] = [state |-> "failed", retryable |-> sending[p][m] = "error"]])
       ELSE UNCHANGED <<pending, storage, fate>>
    /\ UNCHANGED <<page, retrying, wire, rows, faults>>

-----------------------------------------------------------------------------
\* What a page does by itself, and what becomes of its requests.
Run(p) == BeginRetry(p) \/ \E m \in Texts : RetryNext(p, m)
Request(p, m) == Handle(p, m) \/ HandleFails(p, m) \/ TimeOut(p, m) \/ Succeed(p, m) \/ Fail(p, m)

Next ==
    \/ \E p \in Pages :
         \/ LoadPage(p) \/ ClosePage(p) \/ LoseSocket(p) \/ PersistOthers(p) \/ Run(p)
         \/ \E m \in Texts : Write(p, m) \/ RetryByUser(p, m) \/ Delete(p, m) \/ Receive(p, m)
                             \/ Request(p, m)
    \/ \E m \in Texts : HandleLate(m)

Spec == Init /\ [][Next]_vars

\* A loaded page reconnects and goes on, and its requests end, by their timeout at
\* the latest.
Fairness ==
    \A p \in Pages :
        /\ WF_vars(Run(p))
        /\ \A m \in Texts : WF_vars(Request(p, m))

FairSpec == Spec /\ Fairness

-----------------------------------------------------------------------------
(* Properties.                                                               *)

EntryStates == [state : {"sending", "failed"}, retryable : BOOLEAN] \cup {NoEntry}

\* The entries keep their shape, and one that is being delivered says so: it is not
\* offered for another attempt.
TypeOK ==
    /\ page \in [Pages -> {"closed", "opening", "ready"}]
    /\ pending \in [Pages -> [Texts -> EntryStates]]
    /\ storage \in [Texts -> EntryStates]
    /\ sending \in [Pages -> [Texts -> {"no", "sent", "stored", "error", "refused"}]]
    /\ rows \in [Texts -> Nat]
    /\ \A p \in Pages : \A m \in Entries(p) :
         sending[p][m] # "no" => pending[p][m].state = "sending"

\* However often a message is sent again, by several pages and after timeouts
\* whose requests arrive late, it is stored once.
StoredOnce == \A m \in Texts : rows[m] <= 1

\* Closing the page at any time loses no message: one that is not stored and that
\* the user did not delete is in the storage, unless another page, which did not
\* know of it, has written the storage since.
NothingIsLost ==
    \A m \in Texts : fate[m] = "kept" => rows[m] > 0 \/ storage[m] # NoEntry

\* An entry that a page has removed does not come back to it: neither a message
\* that the page knows to be stored nor one that the user deleted is pending again
\* when an older request for it fails.
RemovedIsGone ==
    [][\A p \in Pages, m \in Texts :
         (page[p] # "closed" /\ pending[p][m] = NoEntry /\ fate[m] # "unwritten")
             => pending'[p][m] = NoEntry]_vars

IsSending(p, m) == page[p] # "closed" /\ pending[p][m].state = "sending"

\* No message is shown as being sent for good, also after the page was loaded again
\* in the middle; unless it had been refused, and sent again by the user, then.
SendingEnds ==
    \A p \in Pages, m \in Texts :
        (IsSending(p, m) /\ (pending[p][m].retryable \/ sending[p][m] # "no")) ~> ~IsSending(p, m)
=============================================================================
