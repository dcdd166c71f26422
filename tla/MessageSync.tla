----------------------------- MODULE MessageSync -----------------------------
(***************************************************************************)
(* How the messages of one conversation reach a web client that shows it.  *)
(*                                                                         *)
(* On the server a message gets its id, is committed, and only then is     *)
(* broadcast by the request that wrote it (RealtimeHub.deliver): three     *)
(* steps, which requests take independently of each other.  The client     *)
(* keeps one cursor, the highest id it has processed from anywhere.  When  *)
(* its socket opens again it snapshots the cursor and fetches what comes   *)
(* after it, page by page (catchUpConversation), while live events go on   *)
(* arriving.                                                               *)
(***************************************************************************)
EXTENDS Integers, Sequences, FiniteSets

CONSTANTS
    Workers,   \* requests the API instances handle at the same time
    Runs,      \* catch-ups the client may have under way at the same time
    None,      \* no worker
    Faults,    \* what a run lets happen besides the orderly course of things
    QueueSize, \* capacity of a client's send queue in the hub
    PageSize,  \* messages in a page of the catch-up
    MaxId,     \* bound: ids handed out
    MaxFaults  \* bound: so many connections, requests and broadcasts fail or edits happen

\* What the constants must satisfy.
SyncConstants ==
    /\ None \notin Workers
    /\ Faults \subseteq {"drop",  \* the connection breaks
                         "fail",  \* a catch-up request fails
                         "lose",  \* the broadcast of a committed message is lost
                         "own",   \* the client itself sends messages
                         "note",  \* messages are written without the conversation's lock
                         "edit",  \* messages are edited or recalled
                         "late"}  \* the hub registers a client after it saw its socket open
    /\ {QueueSize, PageSize, MaxId} \subseteq Nat \ {0}
    /\ MaxFaults \in Nat

VARIABLES
    stored,   \* ids of the committed messages
    nextId,   \* AUTO_INCREMENT of chat_messages
    lock,     \* the worker that has locked the conversation
    writer,   \* writer[w] is the message worker w is writing
    link,     \* the client's socket: "down", "open", "up" or, after an overflow, "doomed"
    queue,    \* ids sent to the client and not processed by it
    cursor,   \* the client's cursor of the conversation
    received, \* ids the client has processed
    run,      \* run[r] is a catch-up of the client
    faults    \* how many failures and edits happened

server == <<stored, nextId, lock, writer>>
client == <<cursor, received>>
vars   == <<stored, nextId, lock, writer, link, queue, cursor, received, run, faults>>

Ids == 1 .. MaxId

NoWrite == [pc |-> "idle", id |-> 0, own |-> FALSE]
NoRun   == [pc |-> "idle", after |-> 0, page |-> {}, more |-> FALSE, due |-> {}]

Larger(a, b) == IF a > b THEN a ELSE b
Newest(S)    == CHOOSE b \in S \cup {0} : \A m \in S : m <= b
Above(S, a)  == {m \in S : m > a}

Init ==
    /\ stored = {} /\ nextId = 1 /\ lock = None
    /\ writer = [w \in Workers |-> NoWrite]
    /\ link = "up" /\ queue = <<>>
    /\ cursor = 0 /\ received = {}
    /\ run = [r \in Runs |-> NoRun]
    /\ faults = 0

Fault(kind) ==
    /\ kind \in Faults /\ faults < MaxFaults
    /\ faults' = faults + 1

-----------------------------------------------------------------------------
(* Requests that write a message.                                            *)

\* The row is inserted; all writers but those of votes lock the conversation.
Insert(w, locked, own) ==
    /\ writer[w].pc = "idle" /\ nextId \in Ids
    /\ locked => lock = None
    /\ locked \/ "note" \in Faults
    /\ own => "own" \in Faults
    /\ lock' = IF locked THEN w ELSE lock
    /\ writer' = [writer EXCEPT ![w] = [pc |-> "commit", id |-> nextId, own |-> own]]
    /\ nextId' = nextId + 1
    /\ UNCHANGED <<stored, link, queue, client, run, faults>>

\* An edit or a recall has committed: its event carries the message again.
Edit(w, m) ==
    /\ Fault("edit")
    /\ writer[w].pc = "idle" /\ m \in stored
    /\ writer' = [writer EXCEPT ![w] = [NoWrite EXCEPT !.pc = "broadcast", !.id = m]]
    /\ UNCHANGED <<stored, nextId, lock, link, queue, client, run>>

Commit(w) ==
    /\ writer[w].pc = "commit"
    /\ stored' = stored \cup {writer[w].id}
    /\ lock' = IF lock = w THEN None ELSE lock
    /\ writer' = [writer EXCEPT ![w].pc = "broadcast"]
    /\ UNCHANGED <<nextId, link, queue, client, run, faults>>

\* The request is over; its sender gets the message in the response.
Answered(w) ==
    writer' = [writer EXCEPT ![w] = IF @.own THEN [@ EXCEPT !.pc = "reply"] ELSE NoWrite]

\* deliver: a client that is not registered misses the event; one whose queue
\* is full misses it too and will be unregistered by a goroutine of its own.
Broadcast(w) ==
    /\ writer[w].pc = "broadcast"
    /\ \/ /\ link \in {"up", "doomed"} /\ Len(queue) < QueueSize
          /\ queue' = Append(queue, writer[w].id)
          /\ UNCHANGED link
       \/ /\ link \in {"up", "doomed"} /\ Len(queue) >= QueueSize
          /\ link' = "doomed"
          /\ UNCHANGED queue
       \/ /\ link \in {"down", "open"}
          /\ UNCHANGED <<link, queue>>
    /\ Answered(w)
    /\ UNCHANGED <<stored, nextId, lock, client, run, faults>>

\* The bus refuses the event, or the instance dies after the commit.
Lose(w) ==
    /\ writer[w].pc = "broadcast"
    /\ Fault("lose")
    /\ writer' = [writer EXCEPT ![w] = NoWrite]
    /\ UNCHANGED <<stored, nextId, lock, link, queue, client, run>>

\* The client processes messages, whatever brought them.
Process(ids) ==
    /\ received' = received \cup ids
    /\ cursor' = Larger(cursor, Newest(ids))

\* deliverPendingMessage: the response of the client's own request.
Reply(w) ==
    /\ writer[w].pc = "reply"
    /\ Process({writer[w].id})
    /\ writer' = [writer EXCEPT ![w] = NoWrite]
    /\ UNCHANGED <<stored, nextId, lock, link, queue, run, faults>>

-----------------------------------------------------------------------------
(* The socket.                                                               *)

Receive ==
    /\ link \in {"up", "doomed"} /\ queue # <<>>
    /\ Process({Head(queue)})
    /\ queue' = Tail(queue)
    /\ UNCHANGED <<server, link, run, faults>>

Closed == link' = "down" /\ queue' = <<>>

Drop ==
    /\ link # "down"
    /\ Fault("drop")
    /\ Closed
    /\ UNCHANGED <<server, client, run>>

Unregister ==
    /\ link = "doomed"
    /\ Closed
    /\ UNCHANGED <<server, client, run, faults>>

Register ==
    /\ link = "open"
    /\ link' = "up"
    /\ UNCHANGED <<server, queue, client, run, faults>>

-----------------------------------------------------------------------------
(* Catch-up.                                                                 *)

\* snapshotCatchUpCursors: the position is taken before anything else arrives.
\* due is what the catch-up has to bring.
Started(r) ==
    /\ run[r].pc \in {"idle", "failed"}
    /\ run' = [run EXCEPT ![r] = [NoRun EXCEPT !.pc = "ask", !.after = cursor,
                                               !.due = Above(stored, cursor)]]

\* onopen of a reconnection
Open(r) ==
    /\ link = "down"
    /\ \E to \in {"up", "open"} : (to = "open" => "late" \in Faults) /\ link' = to
    /\ Started(r)
    /\ UNCHANGED <<server, queue, client, faults>>

\* The page becomes visible, or the fallback timer of a client without socket fires.
Refresh(r) ==
    /\ Started(r)
    /\ UNCHANGED <<server, link, queue, client, faults>>

\* Mutant: a page is asked for from where the cursor is by now.
AskFromCursor(r) ==
    LET rest == Above(stored, cursor)
        page == {m \in rest : Cardinality({n \in rest : n < m}) < PageSize}
    IN /\ run[r].pc = "ask"
       /\ run' = [run EXCEPT ![r].pc = "merge", ![r].page = page, ![r].more = (page # rest)]
       /\ UNCHANGED <<server, link, queue, client, faults>>

\* CatchUpMessages: the rows after the position in the order of their ids,
\* and whether there was one row more.
Ask(r) ==
    LET rest == Above(stored, run[r].after)
        page == {m \in rest : Cardinality({n \in rest : n < m}) < PageSize}
    IN /\ run[r].pc = "ask"
       /\ run' = [run EXCEPT ![r].pc = "merge", ![r].page = page, ![r].more = (page # rest)]
       /\ UNCHANGED <<server, link, queue, client, faults>>

\* Mutant: only the first page is fetched.
MergeOnePage(r) ==
    /\ run[r].pc = "merge"
    /\ Process(run[r].page)
    /\ run' = [run EXCEPT ![r] = NoRun]
    /\ UNCHANGED <<server, link, queue, faults>>

\* The client processes a page and asks for the next one if there is more and
\* this one brought it forward; its cursor never falls behind live events.
Merge(r) ==
    LET after == Larger(run[r].after, Newest(run[r].page))
    IN /\ run[r].pc = "merge"
       /\ Process(run[r].page)
       /\ run' = [run EXCEPT ![r] = IF run[r].more /\ after > run[r].after
                                    THEN [@ EXCEPT !.pc = "ask", !.after = after, !.page = {}]
                                    ELSE NoRun]
       /\ UNCHANGED <<server, link, queue, faults>>

\* The request fails: the catch-up ends and leaves the cursor as it is.
Fail(r) ==
    /\ run[r].pc = "ask"
    /\ Fault("fail")
    /\ run' = [run EXCEPT ![r].pc = "failed"]
    /\ UNCHANGED <<server, link, queue, client>>

-----------------------------------------------------------------------------
Write(w) == Commit(w) \/ Broadcast(w) \/ Reply(w)

CatchUp(r) == Ask(r) \/ Merge(r)

Next ==
    \/ \E w \in Workers : \/ \E locked, own \in BOOLEAN : Insert(w, locked, own)
                          \/ \E m \in Ids : Edit(w, m)
                          \/ Write(w) \/ Lose(w)
    \/ Receive \/ Drop \/ Unregister \/ Register
    \/ \E r \in Runs : Open(r) \/ Refresh(r) \/ CatchUp(r) \/ Fail(r)

Spec == Init /\ [][Next]_vars

\* Requests finish, the client reads its socket, reconnects and reads answers.
Fairness ==
    /\ \A w \in Workers : WF_vars(Write(w))
    /\ WF_vars(Receive) /\ WF_vars(Unregister) /\ WF_vars(Register)
    /\ WF_vars(\E r \in Runs : Open(r))
    /\ \A r \in Runs : WF_vars(CatchUp(r))

FairSpec == Spec /\ Fairness

-----------------------------------------------------------------------------
(* Properties.                                                               *)

\* The state keeps its shape; the hub holds no more than QueueSize events for
\* a client, however slow it is.
TypeOK ==
    /\ stored \subseteq Ids /\ nextId \in 1 .. MaxId + 1
    /\ lock \in Workers \cup {None}
    /\ writer \in [Workers -> [pc : {"idle", "commit", "broadcast", "reply"},
                               id : 0 .. MaxId, own : BOOLEAN]]
    /\ link \in {"down", "open", "up", "doomed"}
    /\ queue \in Seq(Ids) /\ Len(queue) <= QueueSize
    /\ cursor \in 0 .. MaxId /\ received \subseteq stored
    /\ run \in [Runs -> [pc : {"idle", "ask", "merge", "failed"}, after : 0 .. MaxId,
                         page : SUBSET Ids, more : BOOLEAN, due : SUBSET Ids]]
    /\ faults \in 0 .. MaxFaults

\* A message that can still reach the client.
OnItsWay(m) ==
    \/ \E i \in 1 .. Len(queue) : queue[i] = m
    \/ \E w \in Workers : writer[w].pc \in {"broadcast", "reply"} /\ writer[w].id = m
    \/ \E r \in Runs : run[r].pc = "ask" /\ run[r].after < m
    \/ \E r \in Runs : /\ run[r].pc = "merge"
                       /\ m \in run[r].page \/ (run[r].more /\ run[r].after < m)
    \/ m > cursor

\* The cursor never passes a message that will not come: the snapshot is taken
\* when the socket opens, so live events that overtake the catch-up do no harm.
\* After a catch-up that failed, too, "the next reconnect resumes from the safe
\* boundary" (Homepage.vue:5007-5008).
NothingFallsBehind == \A m \in stored \ received : OnItsWay(m)

\* The cursor names a message the client has, also when catch-ups fail.
CursorIsReceived == cursor \in received \cup {0}

\* A catch-up that ends well has brought every message that was stored above
\* its snapshot when it began, whatever was written between its pages.
CatchUpIsComplete ==
    [][\A r \in Runs : (run[r].pc = "merge" /\ run'[r].pc = "idle") => run[r].due \subseteq received']_vars

\* Neither a slow catch-up nor events in the wrong order move the cursor back.
CursorNeverGoesBack == [][cursor' >= cursor]_vars

\* Every committed message arrives in the end although connections break.
EveryMessageArrives == []<>(stored \subseteq received)
=============================================================================
