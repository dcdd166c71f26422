----------------------------- MODULE RealtimeHub -----------------------------
(***************************************************************************)
(* The websocket connections of one user on one API instance, from Serve   *)
(* to the end of the hub.                                                  *)
(*                                                                         *)
(* A connection has a reader (readPump, in the goroutine of Serve) and a   *)
(* writer (writePump) that share its socket and its send channel.  Events  *)
(* are delivered under the lock of the hub; a full channel starts a        *)
(* goroutine that unregisters the connection, which the reader does too    *)
(* when it ends.  Presence is announced after the lock is released, so two *)
(* announcements may overtake each other.  Shutdown closes the sockets of  *)
(* the connections it sees and waits for their readers.                    *)
(***************************************************************************)
EXTENDS Integers, FiniteSets

CONSTANTS
    Conns,    \* websocket connections of the user, each one used once
    SendQueue \* capacity of a send channel

\* What the constants must satisfy.
HubConstants == IsFiniteSet(Conns) /\ SendQueue \in Nat \ {0}

VARIABLES
    conn,       \* conn[c] is the connection c
    clients,    \* RealtimeHub.clients of the user: the registered connections
    active,     \* RealtimeHub.activeConnections
    announcing, \* presence announcements between the lock and the event bus
    stop,       \* how far Shutdown is, and the connections it still has to close
    told,       \* history: what the last announcement said, and whether it was alone
    missed,     \* history: connections that an event was dropped for
    late        \* history: connections registered after Shutdown looked

vars == <<conn, clients, active, announcing, stop, told, missed, late>>

\* reader and writer are the two goroutines, kicked the one that a full channel
\* starts, queue the events in the channel, open that it was not closed, socket
\* what the peer and close() have made of the socket.
NewConn == [reader |-> "none", writer |-> "none", kicked |-> FALSE,
            queue |-> 0, open |-> TRUE, socket |-> "up"]

IsOnline == clients # {}

Init ==
    /\ conn = [c \in Conns |-> NewConn]
    /\ clients = {}
    /\ active = 0
    /\ announcing = {}
    /\ stop = [pc |-> "no", left |-> {}]
    /\ told = [online |-> FALSE, alone |-> TRUE]
    /\ missed = {}
    /\ late = {}

-----------------------------------------------------------------------------
(* Presence.                                                                 *)

\* Serve starts the two goroutines once the arrival was announced.
Started(c) == [conn EXCEPT ![c].reader = "read", ![c].writer = "run"]

\* An announcement sets out; whatever is under way then is not alone any more.
Announced(c, online) ==
    {[a EXCEPT !.alone = FALSE] : a \in announcing}
      \cup {[conn |-> c, online |-> online, alone |-> announcing = {}]}

\* broadcastPresence: the audience is asked for and the event published; a
\* closed bus drops it.
Announce(a) ==
    /\ announcing' = announcing \ {a}
    /\ told' = IF stop.pc \in {"done", "timeout"} THEN [told EXCEPT !.alone = FALSE]
               ELSE [online |-> a.online, alone |-> a.alone]
    /\ conn' = IF a.online THEN Started(a.conn) ELSE conn
    /\ UNCHANGED <<clients, active, stop, missed, late>>

\* The query for the audience fails: nobody is told.
AnnounceFails(a) ==
    /\ announcing' = announcing \ {a}
    /\ told' = [told EXCEPT !.alone = FALSE]
    /\ conn' = IF a.online THEN Started(a.conn) ELSE conn
    /\ UNCHANGED <<clients, active, stop, missed, late>>

-----------------------------------------------------------------------------
(* Connections.                                                              *)

\* Serve turns a connection away when the hub is shutting down.
Serve(c) ==
    /\ conn[c].reader = "none"
    /\ conn' = [conn EXCEPT ![c].reader = IF stop.pc = "no" THEN "serve" ELSE "gone",
                            ![c].socket = IF stop.pc = "no" THEN "up" ELSE "closed"]
    /\ UNCHANGED <<clients, active, announcing, stop, told, missed, late>>

\* register: who is the first announces the user.
Register(c) ==
    /\ conn[c].reader = "serve"
    /\ clients' = clients \cup {c}
    /\ active' = active + 1
    /\ late' = IF stop.pc \in {"no", "flag"} THEN late ELSE late \cup {c}
    /\ IF clients = {}
       THEN /\ conn' = [conn EXCEPT ![c].reader = "announce"]
            /\ announcing' = Announced(c, TRUE)
       ELSE /\ conn' = Started(c)
            /\ UNCHANGED announcing
    /\ UNCHANGED <<stop, told, missed>>

\* Mutant: a connection that is not registered any more is counted again.
LeaveTwice(c, next) ==
    /\ active' = active - 1
    /\ clients' = clients \ {c}
    /\ announcing' = IF clients = {c} THEN Announced(c, FALSE) ELSE announcing
    /\ conn' = [conn EXCEPT ![c] = [next EXCEPT !.open = FALSE, !.socket = "closed"]]

\* unregister, of which the second call finds the connection gone.
Leave(c, next) ==
    IF c \in clients
    THEN /\ clients' = clients \ {c}
         /\ active' = active - 1
         /\ announcing' = IF clients = {c} THEN Announced(c, FALSE) ELSE announcing
         /\ conn' = [conn EXCEPT ![c] = [next EXCEPT !.open = FALSE, !.socket = "closed"]]
    ELSE /\ conn' = [conn EXCEPT ![c] = next]
         /\ UNCHANGED <<clients, active, announcing>>

\* readPump ends at an error: the socket was closed, or the peer answered no
\* ping before the read deadline.
ReaderEnds(c) ==
    /\ conn[c].reader = "read" /\ conn[c].socket # "up"
    /\ Leave(c, [conn[c] EXCEPT !.reader = "gone"])
    /\ UNCHANGED <<stop, told, missed, late>>

\* The goroutine that a full channel started.
Kick(c) ==
    /\ conn[c].kicked
    /\ Leave(c, [conn[c] EXCEPT !.kicked = FALSE])
    /\ UNCHANGED <<stop, told, missed, late>>

\* writePump sends the next event, which ends it when the socket is closed ...
Write(c) ==
    /\ conn[c].writer = "run"
    /\ \/ conn[c].queue > 0
       \/ ~conn[c].open \/ conn[c].socket = "closed" \* the close message, a ping
    /\ conn' = [conn EXCEPT ![c] =
         IF conn[c].socket = "up" /\ conn[c].queue > 0 THEN [conn[c] EXCEPT !.queue = @ - 1]
         ELSE [conn[c] EXCEPT !.writer = "gone", !.socket = "closed"]]
    /\ conn[c].socket # "stalled"
    /\ UNCHANGED <<clients, active, announcing, stop, told, missed, late>>

\* ... or blocks until the write deadline when the peer reads no more.
WriteTimesOut(c) ==
    /\ conn[c].writer = "run" /\ conn[c].socket = "stalled"
    /\ conn' = [conn EXCEPT ![c].writer = "gone", ![c].socket = "closed"]
    /\ UNCHANGED <<clients, active, announcing, stop, told, missed, late>>

\* The peer closes the connection, or vanishes without a word.
PeerLeaves(c) ==
    /\ conn[c].reader # "none" /\ conn[c].socket = "up"
    /\ \E s \in {"closed", "stalled"} : conn' = [conn EXCEPT ![c].socket = s]
    /\ UNCHANGED <<clients, active, announcing, stop, told, missed, late>>

\* Mutant: a full channel only drops the event.
DeliverOrDrop ==
    /\ stop.pc \notin {"done", "timeout"} /\ clients # {}
    /\ conn' = [c \in Conns |-> IF c \in clients /\ conn[c].queue < SendQueue
                                THEN [conn[c] EXCEPT !.queue = @ + 1] ELSE conn[c]]
    /\ missed' = missed \cup {c \in clients : conn[c].queue = SendQueue}
    /\ UNCHANGED <<clients, active, announcing, stop, told, late>>

\* BroadcastToUsers over the in-memory bus: deliver, in the goroutine of who
\* publishes.
Deliver ==
    /\ stop.pc \notin {"done", "timeout"} /\ clients # {}
    /\ conn' = [c \in Conns |-> IF c \notin clients THEN conn[c]
                                ELSE IF conn[c].queue < SendQueue THEN [conn[c] EXCEPT !.queue = @ + 1]
                                ELSE [conn[c] EXCEPT !.kicked = TRUE]]
    /\ missed' = missed \cup {c \in clients : conn[c].queue = SendQueue}
    /\ UNCHANGED <<clients, active, announcing, stop, told, late>>

-----------------------------------------------------------------------------
(* Shutdown.                                                                 *)

\* The flag, which a second call finds set.
BeginShutdown ==
    /\ stop.pc = "no"
    /\ stop' = [stop EXCEPT !.pc = "flag"]
    /\ UNCHANGED <<conn, clients, active, announcing, told, missed, late>>

LookForClients ==
    /\ stop.pc = "flag"
    /\ stop' = [pc |-> "close", left |-> clients]
    /\ UNCHANGED <<conn, clients, active, announcing, told, missed, late>>

CloseClient(c) ==
    /\ stop.pc = "close" /\ c \in stop.left
    /\ stop' = [stop EXCEPT !.left = @ \ {c}]
    /\ conn' = [conn EXCEPT ![c].socket = "closed"]
    /\ UNCHANGED <<clients, active, announcing, told, missed, late>>

\* No connection is left: the bus is closed.
FinishShutdown ==
    /\ stop.pc = "close" /\ stop.left = {} /\ active = 0
    /\ stop' = [stop EXCEPT !.pc = "done"]
    /\ UNCHANGED <<conn, clients, active, announcing, told, missed, late>>

\* The deadline of the context passes first: the bus is closed all the same.
ShutdownTimesOut ==
    /\ stop.pc = "close" /\ stop.left = {} /\ active > 0
    /\ stop' = [stop EXCEPT !.pc = "timeout"]
    /\ UNCHANGED <<conn, clients, active, announcing, told, missed, late>>

-----------------------------------------------------------------------------
\* What the goroutines of the server do without anybody asking.
Reader(c) == Register(c) \/ ReaderEnds(c)
Writer(c) == Write(c) \/ WriteTimesOut(c)

Shutdown == LookForClients \/ (\E c \in Conns : CloseClient(c)) \/ FinishShutdown

Next ==
    \/ \E c \in Conns : Serve(c) \/ Reader(c) \/ Writer(c) \/ Kick(c) \/ PeerLeaves(c)
    \/ \E a \in announcing : Announce(a) \/ AnnounceFails(a)
    \/ Deliver
    \/ BeginShutdown \/ Shutdown \/ ShutdownTimesOut

Spec == Init /\ [][Next]_vars

\* Every goroutine that can go on goes on.  Deadlines of reads and writes pass;
\* nothing makes the deadline of Shutdown pass, which may be as late as it likes.
Fairness ==
    /\ \A c \in Conns : WF_vars(Reader(c)) /\ WF_vars(Writer(c)) /\ WF_vars(Kick(c))
    /\ WF_vars(\E a \in announcing : Announce(a))
    /\ WF_vars(Shutdown)

FairSpec == Spec /\ Fairness

-----------------------------------------------------------------------------
(* Properties.                                                               *)

ConnStates == [reader : {"none", "serve", "announce", "read", "gone"},
               writer : {"none", "run", "gone"}, kicked : BOOLEAN,
               queue : 0 .. SendQueue, open : BOOLEAN, socket : {"up", "stalled", "closed"}]

\* The states keep their shape, and a registered connection has an open channel:
\* deliver never sends on a closed one.
TypeOK ==
    /\ conn \in [Conns -> ConnStates]
    /\ clients \subseteq Conns /\ active \in Int
    /\ announcing \subseteq [conn : Conns, online : BOOLEAN, alone : BOOLEAN]
    /\ stop \in [pc : {"no", "flag", "close", "done", "timeout"}, left : SUBSET Conns]
    /\ told \in [online : BOOLEAN, alone : BOOLEAN]
    /\ missed \subseteq Conns /\ late \subseteq Conns
    /\ \A c \in clients : conn[c].open

\* However often a connection is unregistered, by its reader and by full
\* channels, the counter that Shutdown waits for is the number of connections.
CountIsExact == active = Cardinality(clients)

\* Announcements can overtake each other, but not for good: once none is under
\* way, one that nobody overtook says how things are.
PresenceIsTold == (announcing = {} /\ told.alone) => told.online = IsOnline

\* A connection whose peer is gone, or that missed an event, does not stay: the
\* client reconnects and catches up.
BrokenIsDropped ==
    \A c \in Conns : (c \in clients /\ (c \in missed \/ conn[c].socket # "up")) ~> c \notin clients

\* Shutdown that ended in time left nobody behind but connections that had
\* passed Serve's check before it began.
StopsEmpty == stop.pc = "done" => clients \subseteq late

\* Shutdown need not wait for its deadline, except for such a connection.
ShutdownEnds == stop.pc # "no" ~> (stop.pc \in {"done", "timeout"} \/ late # {})
=============================================================================
