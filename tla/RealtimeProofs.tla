----------------------------- MODULE RealtimeProofs -----------------------------
(***************************************************************************)
(* Proofs about the realtime hub and the typing indicator, for any         *)
(* connections, requests, queue sizes and numbers of timers.               *)
(***************************************************************************)
EXTENDS Realtime, Integers, FiniteSets, FiniteSetTheorems, TLAPS

-----------------------------------------------------------------------------
(* The hub: the invariant.                                                   *)

\* A connection that Serve still has to register is not registered, and its channel
\* is open.
NewcomersAreFresh ==
    \A c \in Conns : conn[c].reader \in {"none", "serve"} => c \notin clients /\ conn[c].open

\* An announcement that is alone is the only one under way, and tells the truth.
AloneIsTrue ==
    \A a \in announcing :
      a.alone => announcing = {a} /\ (a.online <=> clients # {})

\* The parts of the type invariant.
Announcements == [conn : Conns, online : BOOLEAN, alone : BOOLEAN]
Stops == [pc : {"no", "flag", "close", "done", "timeout"}, left : SUBSET Conns]
Tellings == [online : BOOLEAN, alone : BOOLEAN]

HubInv ==
    /\ conn \in [Conns -> Hub!ConnStates] /\ clients \subseteq Conns /\ active \in Int
    /\ announcing \subseteq Announcements /\ stop \in Stops /\ told \in Tellings
    /\ missed \subseteq Conns /\ late \subseteq Conns
    /\ \A c \in clients : conn[c].open
    /\ NewcomersAreFresh
    /\ active = Cardinality(clients)
    /\ stop.pc = "done" => clients \subseteq late
    /\ AloneIsTrue
    /\ announcing = {} /\ told.alone => (told.online <=> clients # {})

LEMMA HubNumbers == IsFiniteSet(Conns) /\ SendQueue \in Nat /\ SendQueue > 0
  BY RealtimeAssumption DEF Hub!HubConstants, IsFiniteSet, Hub!IsFiniteSet

\* The library's cardinality is the one of the module.
LEMMA SameCardinality == \A S \in SUBSET Conns : Hub!Cardinality(S) = Cardinality(S)
  BY DEF Hub!Cardinality, Cardinality

LEMMA HubInvSays ==
    ASSUME HubInv
    PROVE  Hub!TypeOK /\ Hub!CountIsExact /\ Hub!StopsEmpty /\ Hub!PresenceIsTold
  <1>1. Hub!TypeOK
    BY DEF HubInv, Hub!TypeOK, Announcements, Stops, Tellings
  <1>2. Hub!CountIsExact
    BY SameCardinality DEF HubInv, Hub!CountIsExact
  <1>3. Hub!StopsEmpty
    BY DEF HubInv, Hub!StopsEmpty
  <1>4. told.online \in BOOLEAN
    BY DEF HubInv, Tellings
  <1>5. Hub!PresenceIsTold
    BY <1>4 DEF HubInv, Hub!PresenceIsTold, Hub!IsOnline
  <1> QED
    BY <1>1, <1>2, <1>3, <1>5

LEMMA HubInit == Hub!Init => HubInv
  <1> SUFFICES ASSUME Hub!Init PROVE HubInv
    OBVIOUS
  <1>1. Hub!NewConn \in Hub!ConnStates /\ Hub!NewConn.open
    BY HubNumbers DEF Hub!NewConn, Hub!ConnStates
  <1>2. conn \in [Conns -> Hub!ConnStates] /\ NewcomersAreFresh
    BY <1>1 DEF Hub!Init, NewcomersAreFresh
  <1>3. active = Cardinality(clients) /\ active \in Int
    BY FS_EmptySet DEF Hub!Init
  <1>4. stop \in Stops /\ told \in Tellings /\ announcing \subseteq Announcements
    BY DEF Hub!Init, Stops, Tellings
  <1> QED
    BY <1>2, <1>3, <1>4 DEF Hub!Init, HubInv, AloneIsTrue

-----------------------------------------------------------------------------
(* The hub: kinds of steps.                                                  *)

\* The presence part of the invariant.
PresenceOK ==
    /\ announcing \subseteq Announcements /\ told \in Tellings
    /\ AloneIsTrue
    /\ announcing = {} /\ told.alone => (told.online <=> clients # {})

LEMMA Announcing ==
    ASSUME HubInv, NEW c \in Conns, NEW b \in BOOLEAN, announcing' = Hub!Announced(c, b),
           UNCHANGED told, b <=> clients' # {}
    PROVE  PresenceOK'
  <1> DEFINE n == [conn |-> c, online |-> b, alone |-> announcing = {}]
             old == {[a EXCEPT !.alone = FALSE] : a \in announcing}
  <1>1. announcing' = old \cup {n}
    BY DEF Hub!Announced
  <1>2. announcing \subseteq Announcements /\ told \in Tellings
    BY DEF HubInv
  <1>3. \A a \in old : a \in Announcements /\ a.alone = FALSE
    BY <1>2 DEF Announcements
  <1>4. n \in Announcements /\ n.online = b /\ (n.alone <=> announcing = {})
    BY DEF Announcements
  <1>5. announcing = {} => old = {}
    OBVIOUS
  <1> HIDE DEF n, old
  <1>6. announcing' \subseteq Announcements /\ announcing' # {}
    BY <1>1, <1>3, <1>4
  <1>7. AloneIsTrue'
    <2> SUFFICES ASSUME NEW a \in announcing', a.alone
                 PROVE  announcing' = {a} /\ (a.online <=> clients' # {})
      BY DEF AloneIsTrue
    <2>1. a = n /\ announcing = {}
      BY <1>1, <1>3, <1>4
    <2> QED
      BY <1>1, <1>4, <1>5, <2>1
  <1> QED
    BY <1>2, <1>6, <1>7 DEF PresenceOK

\* The presence stays as it is while nobody comes first or leaves last.
LEMMA PresenceStays ==
    ASSUME HubInv, UNCHANGED <<announcing, told>>, clients' # {} <=> clients # {}
    PROVE  PresenceOK'
  BY DEF HubInv, PresenceOK, AloneIsTrue

\* An announcement arrives, or gets lost.
LEMMA Announcement ==
    ASSUME HubInv, NEW a \in announcing, announcing' = announcing \ {a}, UNCHANGED clients,
           \/ told' = [told EXCEPT !.alone = FALSE]
           \/ told' = [online |-> a.online, alone |-> a.alone]
    PROVE  PresenceOK'
  <1>1. /\ announcing \subseteq Announcements /\ told \in Tellings /\ AloneIsTrue
        /\ a \in Announcements
    BY DEF HubInv
  <1>2. /\ told' \in Tellings
        /\ told'.alone => told'.online = a.online /\ a.alone
    <2>1. a.online \in BOOLEAN /\ a.alone \in BOOLEAN
      BY <1>1 DEF Announcements
    <2>2. CASE told' = [told EXCEPT !.alone = FALSE]
      <3>1. told' \in Tellings /\ told'.alone = FALSE
        BY <1>1, <2>2 DEF Tellings
      <3> QED
        BY <3>1
    <2>3. CASE told' = [online |-> a.online, alone |-> a.alone]
      <3>1. told' \in Tellings /\ told'.alone = a.alone /\ told'.online = a.online
        BY <2>1, <2>3 DEF Tellings
      <3> QED
        BY <3>1
    <2> QED
      BY <2>2, <2>3
  <1>3. AloneIsTrue'
    BY <1>1 DEF AloneIsTrue
  <1>4. announcing' = {} /\ told'.alone => (told'.online <=> clients # {})
    BY <1>1, <1>2 DEF AloneIsTrue
  <1> QED
    BY <1>1, <1>2, <1>3, <1>4 DEF PresenceOK

\* The connections change, but none of them is closed or becomes a newcomer.
Steady(new) ==
    \A c \in Conns : /\ new[c].open = conn[c].open
                     /\ new[c].reader \in {"none", "serve"} => conn[c].reader \in {"none", "serve"}

LEMMA HubSteady ==
    ASSUME HubInv, conn' \in [Conns -> Hub!ConnStates], Steady(conn'), PresenceOK',
           UNCHANGED <<clients, active>>, stop' \in Stops,
           stop'.pc = "done" => stop.pc = "done" \/ active = 0,
           missed' \subseteq Conns, UNCHANGED late
    PROVE  HubInv'
  <1>1. \A c \in clients' : conn'[c].open
    BY DEF HubInv, Steady
  <1>2. NewcomersAreFresh'
    BY DEF HubInv, Steady, NewcomersAreFresh
  <1>3. active = 0 => clients = {}
    <2>1. IsFiniteSet(clients)
      BY HubNumbers, FS_Subset DEF HubInv
    <2> QED
      BY <2>1, FS_EmptySet DEF HubInv
  <1>4. stop'.pc = "done" => clients' \subseteq late'
    BY <1>3 DEF HubInv
  <1> QED
    BY <1>1, <1>2, <1>4 DEF HubInv, PresenceOK

LEMMA TheConn ==
    ASSUME HubInv, NEW c \in Conns
    PROVE  conn[c] \in Hub!ConnStates
  BY DEF HubInv

\* One connection changes.
LEMMA OneConn ==
    ASSUME HubInv, NEW c \in Conns, NEW x \in Hub!ConnStates, conn' = [conn EXCEPT ![c] = x]
    PROVE  /\ conn' \in [Conns -> Hub!ConnStates] /\ conn'[c] = x
           /\ \A d \in Conns : d # c => conn'[d] = conn[d]
           /\ (/\ x.open = conn[c].open
               /\ x.reader \in {"none", "serve"} => conn[c].reader \in {"none", "serve"})
                => Steady(conn')
  BY DEF HubInv, Steady

\* The announcer starts the goroutines of its connection.
LEMMA Starting ==
    ASSUME HubInv, NEW c \in Conns, conn' = Hub!Started(c)
    PROVE  conn' \in [Conns -> Hub!ConnStates] /\ Steady(conn') /\ conn'[c].reader = "read"
  <1> DEFINE x == [conn[c] EXCEPT !.reader = "read", !.writer = "run"]
  <1>1. conn' = [conn EXCEPT ![c] = x]
    BY DEF Hub!Started
  <1>2. x \in Hub!ConnStates /\ x.open = conn[c].open /\ x.reader = "read"
    BY TheConn DEF Hub!ConnStates
  <1> HIDE DEF x
  <1> QED
    BY <1>1, <1>2, OneConn

\* unregister, whoever calls it.
LEMMA Leaving ==
    ASSUME HubInv, NEW c \in Conns, NEW next \in Hub!ConnStates,
           next.open = conn[c].open, next.reader \notin {"none", "serve"} \/ next.reader = conn[c].reader,
           Hub!Leave(c, next), UNCHANGED <<stop, told, missed, late>>
    PROVE  HubInv'
  <1>1. CASE c \in clients
    <2> DEFINE x == [next EXCEPT !.open = FALSE, !.socket = "closed"]
    <2>1. /\ clients' = clients \ {c} /\ active' = active - 1
          /\ announcing' = IF clients = {c} THEN Hub!Announced(c, FALSE) ELSE announcing
          /\ conn' = [conn EXCEPT ![c] = x]
      BY <1>1 DEF Hub!Leave
    <2>2. x \in Hub!ConnStates /\ x.reader = next.reader
      BY DEF Hub!ConnStates
    <2> HIDE DEF x
    <2>3. /\ conn' \in [Conns -> Hub!ConnStates] /\ conn'[c] = x
          /\ \A d \in Conns : d # c => conn'[d] = conn[d]
      BY <2>1, <2>2, OneConn
    <2>4. clients' \subseteq Conns /\ \A d \in clients' : conn'[d].open
      BY <2>1, <2>3 DEF HubInv
    <2>5. NewcomersAreFresh'
      <3>1. conn[c].reader \notin {"none", "serve"}
        BY <1>1 DEF HubInv, NewcomersAreFresh
      <3> QED
        BY <2>1, <2>2, <2>3, <3>1 DEF HubInv, NewcomersAreFresh
    <2>6. active' = Cardinality(clients') /\ active' \in Int
      <3>1. IsFiniteSet(clients) /\ active = Cardinality(clients)
        BY HubNumbers, FS_Subset DEF HubInv
      <3>2. Cardinality(clients \ {c}) = Cardinality(clients) - 1 /\ Cardinality(clients) \in Nat
        BY <1>1, <3>1, FS_RemoveElement, FS_CardinalityType
      <3> QED
        BY <2>1, <3>1, <3>2
    <2>7. PresenceOK'
      <3>1. CASE clients = {c}
        <4>1. clients' = {} /\ announcing' = Hub!Announced(c, FALSE)
          BY <2>1, <3>1
        <4> QED
          BY <4>1, Announcing
      <3>2. CASE clients # {c}
        <4>1. clients' # {} /\ clients # {} /\ UNCHANGED announcing
          BY <1>1, <2>1, <3>2
        <4> QED
          BY <4>1, PresenceStays
      <3> QED
        BY <3>1, <3>2
    <2>8. stop'.pc = "done" => clients' \subseteq late'
      BY <2>1 DEF HubInv
    <2> QED
      BY <2>3, <2>4, <2>5, <2>6, <2>7, <2>8 DEF HubInv, PresenceOK
  <1>2. CASE c \notin clients
    <2>1. conn' = [conn EXCEPT ![c] = next] /\ UNCHANGED <<clients, active, announcing>>
      BY <1>2 DEF Hub!Leave
    <2>2. conn' \in [Conns -> Hub!ConnStates] /\ Steady(conn')
      BY <2>1, OneConn
    <2>3. PresenceOK'
      BY <2>1, PresenceStays
    <2> QED
      BY <2>1, <2>2, <2>3, HubSteady DEF HubInv
  <1> QED
    BY <1>1, <1>2

-----------------------------------------------------------------------------
(* The hub: the steps.                                                       *)

\* A step of one connection that nobody else sees.
LEMMA OneConnSteady ==
    ASSUME HubInv, NEW c \in Conns, NEW x \in Hub!ConnStates, conn' = [conn EXCEPT ![c] = x],
           x.open = conn[c].open,
           x.reader \in {"none", "serve"} => conn[c].reader \in {"none", "serve"},
           UNCHANGED <<clients, active, announcing, told, missed, late>>,
           stop' \in Stops, stop'.pc = "done" => stop.pc = "done"
    PROVE  HubInv'
  <1>1. conn' \in [Conns -> Hub!ConnStates] /\ Steady(conn')
    BY OneConn
  <1>2. PresenceOK'
    BY PresenceStays
  <1> QED
    BY <1>1, <1>2, HubSteady DEF HubInv

LEMMA ServeHub ==
    ASSUME HubInv, NEW c \in Conns, Hub!Serve(c)
    PROVE  HubInv'
  <1> DEFINE x == [conn[c] EXCEPT !.reader = IF stop.pc = "no" THEN "serve" ELSE "gone",
                                  !.socket = IF stop.pc = "no" THEN "up" ELSE "closed"]
  <1>1. /\ conn[c].reader = "none" /\ conn' = [conn EXCEPT ![c] = x]
        /\ UNCHANGED <<clients, active, announcing, stop, told, missed, late>>
    BY DEF Hub!Serve
  <1>2. x \in Hub!ConnStates /\ x.open = conn[c].open
    BY TheConn DEF Hub!ConnStates
  <1> HIDE DEF x
  <1>3. stop' \in Stops
    BY <1>1 DEF HubInv
  <1> QED
    BY <1>1, <1>2, <1>3, OneConnSteady

LEMMA RegisterHub ==
    ASSUME HubInv, NEW c \in Conns, Hub!Register(c)
    PROVE  HubInv'
  <1>1. /\ conn[c].reader = "serve" /\ clients' = clients \cup {c} /\ active' = active + 1
        /\ late' = IF stop.pc \in {"no", "flag"} THEN late ELSE late \cup {c}
        /\ UNCHANGED <<stop, told, missed>>
    BY DEF Hub!Register
  <1>2. c \notin clients /\ conn[c].open
    BY <1>1 DEF HubInv, NewcomersAreFresh
  <1>3. PICK x \in Hub!ConnStates : /\ conn' = [conn EXCEPT ![c] = x]
                                    /\ x.open = conn[c].open
                                    /\ x.reader \notin {"none", "serve"}
    <2>1. CASE clients = {}
      <3> DEFINE x == [conn[c] EXCEPT !.reader = "announce"]
      <3>1. conn' = [conn EXCEPT ![c] = x]
        BY <2>1 DEF Hub!Register
      <3>2. x \in Hub!ConnStates /\ x.open = conn[c].open /\ x.reader = "announce"
        BY TheConn DEF Hub!ConnStates
      <3> HIDE DEF x
      <3> QED
        BY <3>1, <3>2
    <2>2. CASE clients # {}
      <3> DEFINE x == [conn[c] EXCEPT !.reader = "read", !.writer = "run"]
      <3>1. conn' = [conn EXCEPT ![c] = x]
        BY <2>2 DEF Hub!Register, Hub!Started
      <3>2. x \in Hub!ConnStates /\ x.open = conn[c].open /\ x.reader = "read"
        BY TheConn DEF Hub!ConnStates
      <3> HIDE DEF x
      <3> QED
        BY <3>1, <3>2
    <2> QED
      BY <2>1, <2>2
  <1>4. /\ conn' \in [Conns -> Hub!ConnStates] /\ conn'[c] = x
        /\ \A d \in Conns : d # c => conn'[d] = conn[d]
    BY <1>3, OneConn
  <1>5. clients' \subseteq Conns /\ (\A d \in clients' : conn'[d].open) /\ NewcomersAreFresh'
    BY <1>1, <1>2, <1>3, <1>4 DEF HubInv, NewcomersAreFresh
  <1>6. active' = Cardinality(clients') /\ active' \in Int
    <2>1. IsFiniteSet(clients) /\ active = Cardinality(clients)
      BY HubNumbers, FS_Subset DEF HubInv
    <2>2. Cardinality(clients \cup {c}) = Cardinality(clients) + 1 /\ Cardinality(clients) \in Nat
      BY <1>2, <2>1, FS_AddElement, FS_CardinalityType
    <2> QED
      BY <1>1, <2>1, <2>2
  <1>7. PresenceOK'
    <2>1. CASE clients = {}
      <3>1. announcing' = Hub!Announced(c, TRUE) /\ clients' # {}
        BY <1>1, <2>1 DEF Hub!Register
      <3> QED
        BY <1>1, <3>1, Announcing
    <2>2. CASE clients # {}
      <3>1. UNCHANGED announcing /\ clients' # {}
        BY <1>1, <2>2 DEF Hub!Register
      <3> QED
        BY <1>1, <2>2, <3>1, PresenceStays
    <2> QED
      BY <2>1, <2>2
  <1>8. late' \subseteq Conns /\ (stop'.pc = "done" => clients' \subseteq late')
    BY <1>1 DEF HubInv
  <1> QED
    BY <1>1, <1>4, <1>5, <1>6, <1>7, <1>8 DEF HubInv, PresenceOK

LEMMA AnnounceHub ==
    ASSUME HubInv, NEW a \in announcing, Hub!Announce(a) \/ Hub!AnnounceFails(a)
    PROVE  HubInv'
  <1>1. /\ announcing' = announcing \ {a}
        /\ \/ told' = [told EXCEPT !.alone = FALSE]
           \/ told' = [online |-> a.online, alone |-> a.alone]
        /\ UNCHANGED <<clients, active, stop, missed, late>>
        /\ conn' = IF a.online THEN Hub!Started(a.conn) ELSE conn
    BY DEF Hub!Announce, Hub!AnnounceFails
  <1>2. PresenceOK'
    BY <1>1, Announcement
  <1>3. conn' \in [Conns -> Hub!ConnStates] /\ Steady(conn')
    <2>1. CASE a.online
      <3>1. a.conn \in Conns
        BY DEF HubInv, Announcements
      <3> QED
        BY <1>1, <2>1, <3>1, Starting
    <2>2. CASE ~a.online
      BY <1>1, <2>2 DEF HubInv, Steady
    <2> QED
      BY <2>1, <2>2
  <1> QED
    BY <1>1, <1>2, <1>3, HubSteady DEF HubInv

LEMMA LeaveHub ==
    ASSUME HubInv, NEW c \in Conns, Hub!ReaderEnds(c) \/ Hub!Kick(c)
    PROVE  HubInv'
  <1>1. CASE Hub!ReaderEnds(c)
    <2> DEFINE next == [conn[c] EXCEPT !.reader = "gone"]
    <2>1. Hub!Leave(c, next) /\ UNCHANGED <<stop, told, missed, late>>
      BY <1>1 DEF Hub!ReaderEnds
    <2>2. next \in Hub!ConnStates /\ next.open = conn[c].open /\ next.reader = "gone"
      BY TheConn DEF Hub!ConnStates
    <2> HIDE DEF next
    <2> QED
      BY <2>1, <2>2, Leaving
  <1>2. CASE Hub!Kick(c)
    <2> DEFINE next == [conn[c] EXCEPT !.kicked = FALSE]
    <2>1. Hub!Leave(c, next) /\ UNCHANGED <<stop, told, missed, late>>
      BY <1>2 DEF Hub!Kick
    <2>2. next \in Hub!ConnStates /\ next.open = conn[c].open /\ next.reader = conn[c].reader
      BY TheConn DEF Hub!ConnStates
    <2> HIDE DEF next
    <2> QED
      BY <2>1, <2>2, Leaving
  <1> QED
    BY <1>1, <1>2

LEMMA SocketHub ==
    ASSUME HubInv, NEW c \in Conns, Hub!Writer(c) \/ Hub!PeerLeaves(c) \/ Hub!CloseClient(c)
    PROVE  HubInv'
  <1>1. PICK x \in Hub!ConnStates :
          conn' = [conn EXCEPT ![c] = x] /\ x.open = conn[c].open /\ x.reader = conn[c].reader
    <2>1. CASE Hub!Write(c)
      <3> DEFINE x == IF conn[c].socket = "up" /\ conn[c].queue > 0
                      THEN [conn[c] EXCEPT !.queue = conn[c].queue - 1]
                      ELSE [conn[c] EXCEPT !.writer = "gone", !.socket = "closed"]
      <3>1. conn' = [conn EXCEPT ![c] = x]
        BY <2>1 DEF Hub!Write
      <3>2. x \in Hub!ConnStates /\ x.open = conn[c].open /\ x.reader = conn[c].reader
        <4>1. CASE conn[c].socket = "up" /\ conn[c].queue > 0
          <5>1. conn[c].queue - 1 \in 0 .. SendQueue
            BY <4>1, HubNumbers, TheConn DEF Hub!ConnStates
          <5> QED
            BY <4>1, <5>1, TheConn DEF Hub!ConnStates
        <4>2. CASE ~(conn[c].socket = "up" /\ conn[c].queue > 0)
          BY <4>2, TheConn DEF Hub!ConnStates
        <4> QED
          BY <4>1, <4>2
      <3> HIDE DEF x
      <3> QED
        BY <3>1, <3>2
    <2>2. CASE Hub!WriteTimesOut(c)
      <3> DEFINE x == [conn[c] EXCEPT !.writer = "gone", !.socket = "closed"]
      <3>1. conn' = [conn EXCEPT ![c] = x]
        BY <2>2 DEF Hub!WriteTimesOut
      <3>2. x \in Hub!ConnStates /\ x.open = conn[c].open /\ x.reader = conn[c].reader
        BY TheConn DEF Hub!ConnStates
      <3> HIDE DEF x
      <3> QED
        BY <3>1, <3>2
    <2>3. ASSUME NEW s \in {"closed", "stalled"}, conn' = [conn EXCEPT ![c].socket = s]
          PROVE  \E x \in Hub!ConnStates : /\ conn' = [conn EXCEPT ![c] = x]
                                           /\ x.open = conn[c].open /\ x.reader = conn[c].reader
      <3> DEFINE x == [conn[c] EXCEPT !.socket = s]
      <3>1. conn' = [conn EXCEPT ![c] = x]
        BY <2>3
      <3>2. x \in Hub!ConnStates /\ x.open = conn[c].open /\ x.reader = conn[c].reader
        BY TheConn DEF Hub!ConnStates
      <3> HIDE DEF x
      <3> QED
        BY <3>1, <3>2
    <2> QED
      BY <2>1, <2>2, <2>3 DEF Hub!Writer, Hub!PeerLeaves, Hub!CloseClient
  <1>2. UNCHANGED <<clients, active, announcing, told, missed, late>>
    BY DEF Hub!Writer, Hub!Write, Hub!WriteTimesOut, Hub!PeerLeaves, Hub!CloseClient
  <1>3. stop' \in Stops /\ (stop'.pc = "done" => stop.pc = "done")
    BY DEF Hub!Writer, Hub!Write, Hub!WriteTimesOut, Hub!PeerLeaves, Hub!CloseClient,
           HubInv, Stops
  <1> QED
    BY <1>1, <1>2, <1>3, OneConnSteady

LEMMA DeliverHub ==
    ASSUME HubInv, Hub!Deliver
    PROVE  HubInv'
  <1>1. /\ conn' = [c \in Conns |-> IF c \notin clients THEN conn[c]
                      ELSE IF conn[c].queue < SendQueue
                           THEN [conn[c] EXCEPT !.queue = conn[c].queue + 1]
                           ELSE [conn[c] EXCEPT !.kicked = TRUE]]
        /\ missed' = missed \cup {c \in clients : conn[c].queue = SendQueue}
        /\ UNCHANGED <<clients, active, announcing, stop, told, late>>
    BY DEF Hub!Deliver
  <1>2. ASSUME NEW c \in Conns
        PROVE  /\ conn'[c] \in Hub!ConnStates
               /\ conn'[c].open = conn[c].open /\ conn'[c].reader = conn[c].reader
    <2>1. CASE c \in clients /\ conn[c].queue < SendQueue
      <3>1. conn[c].queue + 1 \in 0 .. SendQueue
        BY <2>1, HubNumbers, TheConn DEF Hub!ConnStates
      <3>2. conn'[c] = [conn[c] EXCEPT !.queue = conn[c].queue + 1]
        BY <1>1, <2>1
      <3> QED
        BY <3>1, <3>2, TheConn DEF Hub!ConnStates
    <2>2. CASE c \in clients /\ ~(conn[c].queue < SendQueue)
      <3>1. conn'[c] = [conn[c] EXCEPT !.kicked = TRUE]
        BY <1>1, <2>2
      <3> QED
        BY <3>1, TheConn DEF Hub!ConnStates
    <2>3. CASE c \notin clients
      BY <1>1, <2>3, TheConn
    <2> QED
      BY <2>1, <2>2, <2>3
  <1>3. conn' \in [Conns -> Hub!ConnStates] /\ Steady(conn')
    <2>1. Steady(conn')
      BY <1>2 DEF Steady
    <2>2. conn' = [c \in Conns |-> conn'[c]]
      BY <1>1
    <2> QED
      BY <1>2, <2>1, <2>2
  <1>4. PresenceOK'
    BY <1>1, PresenceStays
  <1> QED
    BY <1>1, <1>3, <1>4, HubSteady DEF HubInv

LEMMA ShutdownHub ==
    ASSUME HubInv,
           \/ Hub!BeginShutdown \/ Hub!LookForClients
           \/ Hub!FinishShutdown \/ Hub!ShutdownTimesOut
    PROVE  HubInv'
  <1>1. UNCHANGED <<conn, clients, active, announcing, told, missed, late>>
    BY DEF Hub!BeginShutdown, Hub!LookForClients, Hub!FinishShutdown, Hub!ShutdownTimesOut
  <1>2. stop' \in Stops /\ (stop'.pc = "done" => stop.pc = "done" \/ active = 0)
    BY DEF Hub!BeginShutdown, Hub!LookForClients, Hub!FinishShutdown, Hub!ShutdownTimesOut,
           HubInv, Stops
  <1>3. conn' \in [Conns -> Hub!ConnStates] /\ Steady(conn') /\ missed' \subseteq Conns
    BY <1>1 DEF HubInv, Steady
  <1>4. PresenceOK'
    BY <1>1, PresenceStays
  <1> QED
    BY <1>1, <1>2, <1>3, <1>4, HubSteady

LEMMA HubStep ==
    ASSUME HubInv, Hub!Next
    PROVE  HubInv'
  BY ServeHub, RegisterHub, AnnounceHub, LeaveHub, SocketHub, DeliverHub, ShutdownHub
  DEF Hub!Next, Hub!Reader, Hub!Writer, Hub!Shutdown

-----------------------------------------------------------------------------
(* The typing indicator: the invariant.                                      *)

RequestRecords == [pc : {"free", "clear", "arm", "store", "tell"}, typing : BOOLEAN,
                   timer : Typing!Timers \cup {0}, before : SUBSET Typing!Timers,
                   crossed : BOOLEAN]
TimerStates == {"none", "running", "fired", "tell", "over"}

TypingTypes ==
    /\ request \in [Requests -> RequestRecords]
    /\ timer \in [Typing!Timers -> TimerStates]
    /\ typing \in Typing!Timers \cup {0}
    /\ replaced \subseteq Typing!Timers

\* Timers are armed one after the other.
ArmedInTurn == \E n \in 0 .. MaxTimers : Typing!Armed = 1 .. n

\* The timer in the map has not been taken out before, and its callback has not got
\* to the map.
InTheMap ==
    typing # 0 => typing \notin replaced /\ timer[typing] \in {"running", "fired"}

\* A timer that a request has still to store is new: it runs, it never was in the map,
\* no other request has it, and it cannot fire before the request is over.
ToStore ==
    \A q \in Requests : request[q].pc = "store" =>
      /\ request[q].timer \in Typing!Timers \ (replaced \cup {typing})
      /\ timer[request[q].timer] = "running"
      /\ request[q].timer \notin request[q].before
      /\ \A p \in Requests \ {q} : request[p].pc = "store" => request[p].timer # request[q].timer

\* What was in the map, or before a request, was armed.
OnlyArmed ==
    /\ replaced \subseteq Typing!Armed
    /\ \A q \in Requests : request[q].before \subseteq Typing!Armed

TypingInv ==
    TypingTypes /\ ArmedInTurn /\ InTheMap /\ ToStore /\ OnlyArmed /\ Typing!ReplacedIsSilent

LEMMA TypingNumbers == MaxTimers \in Nat /\ Typing!Timers = 1 .. MaxTimers /\ 0 \notin Typing!Timers
                       /\ Typing!Timers \subseteq Nat
  BY RealtimeAssumption DEF Typing!TypingConstants, Typing!Timers

LEMMA ArmedIs == \A k : k \in Typing!Armed <=> k \in Typing!Timers /\ timer[k] # "none"
  BY DEF Typing!Armed

LEMMA FreeOK == Typing!Free \in RequestRecords /\ Typing!Free.pc = "free"
                /\ Typing!Free.before = {}
  BY DEF Typing!Free, RequestRecords

LEMMA TypingInit == Typing!Init => TypingInv
  <1> SUFFICES ASSUME Typing!Init PROVE TypingInv
    OBVIOUS
  <1>1. TypingTypes
    BY FreeOK DEF Typing!Init, TypingTypes, TimerStates
  <1>2. ArmedInTurn
    <2>1. Typing!Armed = 1 .. 0
      BY DEF Typing!Armed, Typing!Init
    <2> QED
      BY <2>1, TypingNumbers DEF ArmedInTurn
  <1>3. InTheMap /\ ToStore /\ OnlyArmed /\ Typing!ReplacedIsSilent
    BY FreeOK DEF Typing!Init, InTheMap, ToStore, OnlyArmed, Typing!ReplacedIsSilent
  <1> QED
    BY <1>1, <1>2, <1>3 DEF TypingInv

\* One request changes.
LEMMA OneRequest ==
    ASSUME TypingInv, NEW q \in Requests, NEW x \in RequestRecords,
           request' = [request EXCEPT ![q] = x]
    PROVE  /\ request' \in [Requests -> RequestRecords] /\ request'[q] = x
           /\ \A p \in Requests : p # q => request'[p] = request[p]
  BY DEF TypingInv, TypingTypes

\* One timer changes; it was armed and stays so.
LEMMA OneTimer ==
    ASSUME TypingInv, NEW k \in Typing!Timers, timer[k] # "none",
           NEW s \in TimerStates \ {"none"}, timer' = [timer EXCEPT ![k] = s]
    PROVE  /\ timer' \in [Typing!Timers -> TimerStates] /\ timer'[k] = s
           /\ \A j \in Typing!Timers : j # k => timer'[j] = timer[j]
           /\ Typing!Armed' = Typing!Armed
  <1>1. /\ timer' \in [Typing!Timers -> TimerStates] /\ timer'[k] = s
        /\ \A j \in Typing!Timers : j # k => timer'[j] = timer[j]
    BY DEF TypingInv, TypingTypes
  <1>2. Typing!Armed' = Typing!Armed
    BY <1>1 DEF Typing!Armed
  <1> QED
    BY <1>1, <1>2

-----------------------------------------------------------------------------
(* The typing indicator: the steps.                                          *)

LEMMA BeginTyping ==
    ASSUME TypingInv, NEW q \in Requests, NEW isTyping \in BOOLEAN, Typing!Begin(q, isTyping)
    PROVE  TypingInv'
  <1> DEFINE before == Typing!Armed \ {request[o].timer : o \in Typing!Others(q)}
             x == [Typing!Free EXCEPT !.pc = "clear", !.typing = isTyping, !.before = before,
                                      !.crossed = \E o \in Typing!Others(q) : ~request[o].typing]
  <1>1. /\ request' = [p \in Requests |->
             IF p = q THEN x
             ELSE IF p \in Typing!Others(q) /\ ~isTyping
                  THEN [request[p] EXCEPT !.crossed = TRUE]
             ELSE request[p]]
        /\ UNCHANGED <<timer, typing, replaced>>
    BY DEF Typing!Begin
  <1>2. before \subseteq Typing!Armed /\ Typing!Armed \subseteq Typing!Timers
    BY DEF Typing!Armed
  <1> HIDE DEF before
  <1>3. x \in RequestRecords /\ x.pc = "clear" /\ x.before = before
    BY <1>2 DEF Typing!Free, RequestRecords
  <1> HIDE DEF x
  <1>4. request \in [Requests -> RequestRecords]
    BY DEF TypingInv, TypingTypes
  <1>5. ASSUME NEW p \in Requests, p # q
        PROVE  /\ request'[p] \in RequestRecords /\ request'[p].pc = request[p].pc
               /\ request'[p].timer = request[p].timer /\ request'[p].before = request[p].before
    <2>1. request'[p] \in {[request[p] EXCEPT !.crossed = TRUE], request[p]}
      BY <1>1, <1>5
    <2> QED
      BY <1>4, <2>1 DEF RequestRecords
  <1>6. request'[q] = x
    BY <1>1
  <1>7. request' \in [Requests -> RequestRecords]
    <2>1. request' = [p \in Requests |-> request'[p]]
      BY <1>1
    <2> QED
      BY <1>3, <1>5, <1>6, <2>1
  <1>8. ToStore'
    BY <1>1, <1>3, <1>5, <1>6 DEF TypingInv, ToStore
  <1>9. OnlyArmed'
    <2>1. Typing!Armed' = Typing!Armed
      BY <1>1 DEF Typing!Armed
    <2> QED
      BY <1>1, <1>2, <1>3, <1>5, <1>6, <2>1 DEF TypingInv, OnlyArmed
  <1> QED
    BY <1>1, <1>7, <1>8, <1>9 DEF TypingInv, TypingTypes, ArmedInTurn, InTheMap,
       Typing!ReplacedIsSilent, Typing!Armed

\* The timer that was in the map is stopped, unless it has fired; it is in the map no
\* more.
LEMMA ClearTyping ==
    ASSUME TypingInv, NEW q \in Requests, Typing!Clear(q)
    PROVE  TypingInv'
  <1> DEFINE x == [request[q] EXCEPT !.pc = IF request[q].typing THEN "arm" ELSE "tell"]
  <1>1. /\ timer' = [k \in Typing!Timers |->
             IF k = typing /\ timer[k] = "running" THEN "over" ELSE timer[k]]
        /\ typing' = 0 /\ replaced' = replaced \cup ({typing} \ {0})
        /\ request' = [request EXCEPT ![q] = x]
    BY DEF Typing!Clear
  <1>2. /\ x \in RequestRecords /\ x.pc \in {"arm", "tell"} /\ x.before = request[q].before
    BY DEF TypingInv, TypingTypes, RequestRecords
  <1> HIDE DEF x
  <1>3. /\ request' \in [Requests -> RequestRecords] /\ request'[q] = x
        /\ \A p \in Requests : p # q => request'[p] = request[p]
    BY <1>1, <1>2, OneRequest
  <1>4. /\ timer' \in [Typing!Timers -> TimerStates]
        /\ \A k \in Typing!Timers : /\ timer'[k] \in {timer[k], "over"}
                                    /\ k # typing => timer'[k] = timer[k]
                                    /\ timer'[k] = "none" <=> timer[k] = "none"
    BY <1>1 DEF TypingInv, TypingTypes, TimerStates
  <1>5. Typing!Armed' = Typing!Armed
    BY <1>4 DEF Typing!Armed
  <1>6. TypingTypes'
    BY <1>1, <1>3, <1>4 DEF TypingInv, TypingTypes
  <1>7. ToStore'
    BY <1>1, <1>2, <1>3, <1>4, TypingNumbers DEF TypingInv, ToStore
  <1>8. OnlyArmed'
    BY <1>1, <1>2, <1>3, <1>5, TypingNumbers DEF TypingInv, TypingTypes, OnlyArmed, InTheMap,
       Typing!Armed
  <1>9. Typing!ReplacedIsSilent'
    BY <1>1, <1>4, TypingNumbers DEF TypingInv, TypingTypes, InTheMap, Typing!ReplacedIsSilent
  <1> QED
    BY <1>1, <1>5, <1>6, <1>7, <1>8, <1>9 DEF TypingInv, ArmedInTurn, InTheMap

\* A new timer, which nothing has to do with yet.
LEMMA ArmTyping ==
    ASSUME TypingInv, NEW q \in Requests, Typing!Arm(q)
    PROVE  TypingInv'
  <1>1. PICK k \in Typing!Timers :
          /\ k = Typing!Cardinality(Typing!Armed) + 1
          /\ timer' = [timer EXCEPT ![k] = "running"]
          /\ request' = [request EXCEPT ![q].pc = "store", ![q].timer = k]
    BY DEF Typing!Arm
  <1>2. PICK n \in 0 .. MaxTimers : Typing!Armed = 1 .. n
    BY DEF TypingInv, ArmedInTurn
  <1>3. k = n + 1
    <2>1. Cardinality(1 .. n) = n
      <3>1. 1 \in Int /\ n \in Int /\ n >= 0
        OBVIOUS
      <3>2. Cardinality(1 .. n) = IF 1 > n THEN 0 ELSE n - 1 + 1
        BY <3>1, FS_Interval
      <3> QED
        BY <3>2
    <2>2. Typing!Cardinality(1 .. n) = Cardinality(1 .. n)
      BY DEF Typing!Cardinality, Cardinality
    <2> QED
      BY <1>1, <1>2, <2>1, <2>2
  <1>4. timer[k] = "none" /\ k \notin Typing!Armed
    BY <1>2, <1>3, ArmedIs
  <1> DEFINE x == [request[q] EXCEPT !.pc = "store", !.timer = k]
  <1>5. request' = [request EXCEPT ![q] = x]
    BY <1>1
  <1>6. x \in RequestRecords /\ x.pc = "store" /\ x.timer = k /\ x.before = request[q].before
    BY DEF TypingInv, TypingTypes, RequestRecords
  <1> HIDE DEF x
  <1>7. /\ request' \in [Requests -> RequestRecords] /\ request'[q] = x
        /\ \A p \in Requests : p # q => request'[p] = request[p]
    BY <1>5, <1>6, OneRequest
  <1>8. /\ timer' \in [Typing!Timers -> TimerStates] /\ timer'[k] = "running"
        /\ \A j \in Typing!Timers : j # k => timer'[j] = timer[j]
    BY <1>1 DEF TypingInv, TypingTypes, TimerStates
  <1>9. Typing!Armed' = Typing!Armed \cup {k} /\ Typing!Armed' = 1 .. n + 1
    <2>1. Typing!Armed' = Typing!Armed \cup {k}
      BY <1>8 DEF Typing!Armed
    <2> QED
      BY <1>2, <1>3, <2>1
  <1>10. n + 1 \in 0 .. MaxTimers
    BY <1>3, TypingNumbers
  <1>11. UNCHANGED <<typing, replaced>>
    BY DEF Typing!Arm
  <1>12. k \notin replaced /\ k # typing /\ k \notin request[q].before
         /\ \A p \in Requests : request[p].pc = "store" => request[p].timer # k
    BY <1>4, TypingNumbers DEF TypingInv, InTheMap, OnlyArmed, ToStore
  <1>13. TypingTypes' /\ ArmedInTurn'
    BY <1>7, <1>8, <1>9, <1>11, <1>10 DEF TypingInv, TypingTypes, ArmedInTurn
  <1>14. InTheMap' /\ Typing!ReplacedIsSilent'
    BY <1>8, <1>11, <1>12 DEF TypingInv, TypingTypes, InTheMap, Typing!ReplacedIsSilent
  <1>15. ToStore'
    BY <1>6, <1>7, <1>8, <1>11, <1>12 DEF TypingInv, ToStore
  <1>16. OnlyArmed'
    BY <1>6, <1>7, <1>9, <1>11 DEF TypingInv, OnlyArmed
  <1> QED
    BY <1>13, <1>14, <1>15, <1>16 DEF TypingInv

\* What another start has stored is taken out of the map.
LEMMA StoreTyping ==
    ASSUME TypingInv, NEW q \in Requests, Typing!Store(q)
    PROVE  TypingInv'
  <1> DEFINE x == [request[q] EXCEPT !.pc = "tell"]
  <1>1. /\ request[q].pc = "store" /\ typing' = request[q].timer
        /\ replaced' = replaced \cup ({typing} \ {0})
        /\ request' = [request EXCEPT ![q] = x] /\ UNCHANGED timer
    BY DEF Typing!Store
  <1>2. x \in RequestRecords /\ x.pc = "tell" /\ x.before = request[q].before
    BY DEF TypingInv, TypingTypes, RequestRecords
  <1> HIDE DEF x
  <1>3. /\ request' \in [Requests -> RequestRecords] /\ request'[q] = x
        /\ \A p \in Requests : p # q => request'[p] = request[p]
    BY <1>1, <1>2, OneRequest
  <1>4. /\ typing' \in Typing!Timers \ (replaced \cup {typing}) /\ timer[typing'] = "running"
        /\ \A p \in Requests \ {q} : request[p].pc = "store" => request[p].timer # typing'
    BY <1>1 DEF TypingInv, ToStore
  <1>5. TypingTypes'
    BY <1>1, <1>3, <1>4 DEF TypingInv, TypingTypes
  <1>6. InTheMap'
    BY <1>1, <1>4 DEF InTheMap
  <1>7. ToStore'
    BY <1>1, <1>2, <1>3, <1>4 DEF TypingInv, ToStore
  <1>8. OnlyArmed' /\ ArmedInTurn'
    BY <1>1, <1>2, <1>3 DEF TypingInv, TypingTypes, OnlyArmed, ArmedInTurn, InTheMap, Typing!Armed
  <1>9. Typing!ReplacedIsSilent'
    BY <1>1 DEF TypingInv, InTheMap, Typing!ReplacedIsSilent
  <1> QED
    BY <1>5, <1>6, <1>7, <1>8, <1>9 DEF TypingInv

LEMMA TellTyping ==
    ASSUME TypingInv, NEW q \in Requests, Typing!Tell(q)
    PROVE  TypingInv'
  <1>1. request' = [request EXCEPT ![q] = Typing!Free] /\ UNCHANGED <<timer, typing, replaced>>
    BY DEF Typing!Tell
  <1>2. /\ request' \in [Requests -> RequestRecords] /\ request'[q] = Typing!Free
        /\ \A p \in Requests : p # q => request'[p] = request[p]
    BY <1>1, FreeOK, OneRequest
  <1>3. ToStore'
    BY <1>1, <1>2, FreeOK DEF TypingInv, ToStore
  <1>4. OnlyArmed'
    BY <1>1, <1>2, FreeOK DEF TypingInv, OnlyArmed, Typing!Armed
  <1> QED
    BY <1>1, <1>2, <1>3, <1>4 DEF TypingInv, TypingTypes, ArmedInTurn, InTheMap,
       Typing!ReplacedIsSilent, Typing!Armed

\* A timer fires, gets to the map, or says that it has expired: it is not one that a
\* request has still to store.
LEMMA ExpireTyping ==
    ASSUME TypingInv, NEW k \in Typing!Timers, Typing!Expire(k)
    PROVE  TypingInv'
  <1>1. PICK s \in TimerStates \ {"none"} :
          /\ timer' = [timer EXCEPT ![k] = s] /\ timer[k] # "none"
          /\ s = "tell" => timer[k] = "fired" /\ typing = k /\ typing' = 0
          /\ typing' \in {typing, 0}
          /\ typing' # 0 /\ typing = k => s = "fired"
          /\ UNCHANGED <<request, replaced>>
    <2>1. CASE Typing!Fire(k)
      BY <2>1 DEF Typing!Fire, TimerStates
    <2>2. CASE Typing!Check(k)
      <3>1. CASE typing = k
        BY <2>2, <3>1 DEF Typing!Check, TimerStates
      <3>2. CASE typing # k
        BY <2>2, <3>2 DEF Typing!Check, TimerStates
      <3> QED
        BY <3>1, <3>2
    <2>3. CASE Typing!TellExpired(k)
      <3>1. typing # k
        BY <2>3, TypingNumbers DEF Typing!TellExpired, TypingInv, InTheMap
      <3> QED
        BY <2>3, <3>1 DEF Typing!TellExpired, TimerStates
    <2> QED
      BY <2>1, <2>2, <2>3 DEF Typing!Expire
  <1>2. \A q \in Requests : request[q].pc = "store" => request[q].timer # k
    <2> SUFFICES ASSUME NEW q \in Requests, request[q].pc = "store", request[q].timer = k
                 PROVE  FALSE
      OBVIOUS
    <2>1. timer[k] = "running" /\ k \notin request[q].before
      BY DEF TypingInv, ToStore
    <2> QED
      BY <2>1 DEF Typing!Expire, Typing!Fire, Typing!Check, Typing!TellExpired
  <1>3. /\ timer' \in [Typing!Timers -> TimerStates] /\ timer'[k] = s
        /\ \A j \in Typing!Timers : j # k => timer'[j] = timer[j]
        /\ Typing!Armed' = Typing!Armed
    BY <1>1, OneTimer
  <1>4. TypingTypes' /\ ArmedInTurn' /\ OnlyArmed'
    BY <1>1, <1>3 DEF TypingInv, TypingTypes, ArmedInTurn, OnlyArmed
  <1>5. InTheMap'
    BY <1>1, <1>3 DEF TypingInv, TypingTypes, InTheMap
  <1>6. ToStore'
    BY <1>1, <1>2, <1>3, TypingNumbers DEF TypingInv, TypingTypes, ToStore
  <1>7. Typing!ReplacedIsSilent'
    BY <1>1, <1>3, TypingNumbers DEF TypingInv, TypingTypes, InTheMap, Typing!ReplacedIsSilent
  <1> QED
    BY <1>4, <1>5, <1>6, <1>7 DEF TypingInv

LEMMA TypingStep ==
    ASSUME TypingInv, Typing!Next
    PROVE  TypingInv'
  BY BeginTyping, ClearTyping, ArmTyping, StoreTyping, TellTyping, ExpireTyping
  DEF Typing!Next, Typing!Handle

-----------------------------------------------------------------------------
(* Both.                                                                     *)

LEMMA RealtimeSteps ==
    ASSUME HubInv, TypingInv, [Next]_vars
    PROVE  HubInv' /\ TypingInv'
  <1>1. UNCHANGED hubVars => HubInv'
    BY DEF hubVars, HubInv, NewcomersAreFresh, AloneIsTrue
  <1>2. UNCHANGED typingVars => TypingInv'
    BY DEF typingVars, TypingInv, TypingTypes, ArmedInTurn, InTheMap, ToStore, OnlyArmed,
           Typing!ReplacedIsSilent, Typing!Armed
  <1>3. CASE HubNext
    BY <1>2, <1>3, HubStep DEF HubNext
  <1>4. CASE TypingNext
    BY <1>1, <1>4, TypingStep DEF TypingNext
  <1>5. CASE UNCHANGED vars
    BY <1>1, <1>2, <1>5 DEF vars
  <1> QED
    BY <1>3, <1>4, <1>5 DEF Next

\* However connections come, go, are dropped for a full channel and are closed by
\* Shutdown, the hub's counter is the number of its connections, no event is sent on a
\* closed channel, a Shutdown that ends in time leaves none that it knew of, and
\* presence that nothing overtook is told as it is; and a typing timer that was stopped
\* or replaced stays silent (unregister, broadcastPresence, Shutdown, PublishTyping).
THEOREM RealtimeIsRight == Spec => []RealtimeHolds
  <1>1. Init => HubInv /\ TypingInv
    BY HubInit, TypingInit DEF Init
  <1>2. HubInv /\ TypingInv /\ [Next]_vars => HubInv' /\ TypingInv'
    BY RealtimeSteps
  <1>3. HubInv /\ TypingInv => RealtimeHolds
    BY HubInvSays DEF TypingInv, RealtimeHolds
  <1> QED
    BY <1>1, <1>2, <1>3, PTL DEF Spec
===============================================================================
