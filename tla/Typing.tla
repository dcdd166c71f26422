-------------------------------- MODULE Typing --------------------------------
(***************************************************************************)
(* The typing indicator of one user in one conversation.                   *)
(*                                                                         *)
(* PublishTyping takes the typing lock twice, to stop the timer of the     *)
(* previous start and to store its own, and tells the others after that;   *)
(* the timer's callback takes it once more before it tells them that the   *)
(* user stopped.  Two devices of the user run it at the same time.         *)
(***************************************************************************)
EXTENDS Integers, FiniteSets

CONSTANTS
    Requests, \* goroutines that handle the user's requests
    MaxTimers \* bound: so many typing.start requests

\* What the constants must satisfy.
TypingConstants == MaxTimers \in Nat \ {0}

VARIABLES
    request, \* request[q] is what goroutine q is doing
    timer,   \* timer[k] is the k-th timer
    typing,  \* RealtimeHub.typing: the timer in the map, 0 when there is none
    shown,   \* what the others were told last: whether the user types
    crossed, \* history: the start that they were told overlapped with a stop
    replaced \* history: timers that another request took out of the map

vars == <<request, timer, typing, shown, crossed, replaced>>

Timers == 1 .. MaxTimers

\* before: the timers of the requests that had been handled when this one came
\* in; crossed: a stop was being handled during this start.
Free == [pc |-> "free", typing |-> FALSE, timer |-> 0, before |-> {}, crossed |-> FALSE]

Init ==
    /\ request = [q \in Requests |-> Free]
    /\ timer = [k \in Timers |-> "none"]
    /\ typing = 0
    /\ shown = FALSE
    /\ crossed = FALSE
    /\ replaced = {}

Armed == {k \in Timers : timer[k] # "none"}

\* Starts that have not armed their timers yet.
Starting == {q \in Requests : request[q].typing /\ request[q].timer = 0}

Others(q) == {p \in Requests \ {q} : request[p].pc # "free"}

\* SetTyping: a request of a member comes in.
Begin(q, isTyping) ==
    /\ request[q].pc = "free"
    /\ isTyping => Cardinality(Armed) + Cardinality(Starting) < MaxTimers
    /\ request' = [p \in Requests |->
         IF p = q THEN [Free EXCEPT !.pc = "clear", !.typing = isTyping,
                                    !.before = Armed \ {request[o].timer : o \in Others(q)},
                                    !.crossed = \E o \in Others(q) : ~request[o].typing]
         ELSE IF p \in Others(q) /\ ~isTyping THEN [request[p] EXCEPT !.crossed = TRUE]
         ELSE request[p]]
    /\ UNCHANGED <<timer, typing, shown, crossed, replaced>>

\* The first critical section; a timer that has fired is not stopped any more.
Clear(q) ==
    /\ request[q].pc = "clear"
    /\ timer' = [k \in Timers |-> IF k = typing /\ timer[k] = "running" THEN "over" ELSE timer[k]]
    /\ typing' = 0
    /\ replaced' = replaced \cup ({typing} \ {0})
    /\ request' = [request EXCEPT ![q].pc = IF request[q].typing THEN "arm" ELSE "tell"]
    /\ UNCHANGED <<shown, crossed>>

\* time.AfterFunc
Arm(q) ==
    /\ request[q].pc = "arm"
    /\ \E k \in Timers :
         /\ k = Cardinality(Armed) + 1
         /\ timer' = [timer EXCEPT ![k] = "running"]
         /\ request' = [request EXCEPT ![q].pc = "store", ![q].timer = k]
    /\ UNCHANGED <<typing, shown, crossed, replaced>>

\* The second critical section overwrites what another start has stored.
Store(q) ==
    /\ request[q].pc = "store"
    /\ typing' = request[q].timer
    /\ replaced' = replaced \cup ({typing} \ {0})
    /\ request' = [request EXCEPT ![q].pc = "tell"]
    /\ UNCHANGED <<timer, shown, crossed>>

\* typing.start or typing.stop is broadcast.
Tell(q) ==
    /\ request[q].pc = "tell"
    /\ shown' = request[q].typing
    /\ crossed' = (request[q].typing /\ request[q].crossed)
    /\ request' = [request EXCEPT ![q] = Free]
    /\ UNCHANGED <<timer, typing, replaced>>

-----------------------------------------------------------------------------
\* Eight seconds have passed, which is much more than a request takes: those that
\* are being handled came in after the one that armed the timer.
Fire(k) ==
    /\ timer[k] = "running"
    /\ \A q \in Requests : request[q].pc # "free" => k \in request[q].before
    /\ timer' = [timer EXCEPT ![k] = "fired"]
    /\ UNCHANGED <<request, typing, shown, crossed, replaced>>

\* The callback leaves when another timer, or none, is in the map.
Check(k) ==
    /\ timer[k] = "fired"
    /\ timer' = [timer EXCEPT ![k] = IF typing = k THEN "tell" ELSE "over"]
    /\ typing' = IF typing = k THEN 0 ELSE typing
    /\ UNCHANGED <<request, shown, crossed, replaced>>

\* typing.stop with "expired" is broadcast.
TellExpired(k) ==
    /\ timer[k] = "tell"
    /\ timer' = [timer EXCEPT ![k] = "over"]
    /\ shown' = FALSE
    /\ crossed' = FALSE
    /\ UNCHANGED <<request, typing, replaced>>

-----------------------------------------------------------------------------
Handle(q) == Clear(q) \/ Arm(q) \/ Store(q) \/ Tell(q)

Expire(k) == Fire(k) \/ Check(k) \/ TellExpired(k)

Next ==
    \/ \E q \in Requests : Handle(q) \/ \E isTyping \in BOOLEAN : Begin(q, isTyping)
    \/ \E k \in Timers : Expire(k)

Spec == Init /\ [][Next]_vars

\* Requests are handled to their end and timers fire.
Fairness ==
    /\ \A q \in Requests : WF_vars(Handle(q))
    /\ \A k \in Timers : WF_vars(Expire(k))

FairSpec == Spec /\ Fairness

-----------------------------------------------------------------------------
(* Properties.                                                               *)

\* No request that dies on the way leaves the indicator on: it ends with a stop
\* or with the timer, unless a stop overlapped with the start that was told.
\* (Then the stop may clear the timer and be told before the start.)
IndicatorEnds == shown /\ ~crossed ~> ~shown

\* A timer that a later request has stopped or replaced says nothing any more, also
\* when it had fired already and could not be stopped.
ReplacedIsSilent == \A k \in replaced : timer[k] # "tell"

\* The map of timers does not grow: every entry is removed.
EntryIsRemoved == \A k \in Timers : typing = k ~> typing # k
=============================================================================
