------------------------------- MODULE Realtime -------------------------------
(***************************************************************************)
(* The two parts of the hub that share no state but the event bus: the     *)
(* connections with presence, delivery and shutdown, and the typing        *)
(* indicators.  A behaviour exercises one of them, chosen at the start.    *)
(***************************************************************************)
CONSTANTS Conns, SendQueue \* hub

CONSTANTS Requests, MaxTimers \* typing

VARIABLES conn, clients, active, announcing, stop, told, missed, late

VARIABLES request, timer, typing, shown, crossed, replaced

VARIABLE part \* the part that this behaviour exercises

Hub    == INSTANCE RealtimeHub
Typing == INSTANCE Typing

ASSUME RealtimeAssumption ==
    /\ Hub!HubConstants
    /\ Typing!TypingConstants

hubVars    == <<conn, clients, active, announcing, stop, told, missed, late>>
typingVars == <<request, timer, typing, shown, crossed, replaced>>
vars       == <<hubVars, typingVars, part>>

Init ==
    /\ part \in {"hub", "typing"}
    /\ Hub!Init
    /\ Typing!Init

HubNext    == part = "hub" /\ Hub!Next /\ UNCHANGED <<typingVars, part>>
TypingNext == part = "typing" /\ Typing!Next /\ UNCHANGED <<hubVars, part>>

Next == HubNext \/ TypingNext

\* What a request, a peer or a signal begins is not fair, so a part that is
\* not exercised has nothing to do.
Spec == Init /\ [][Next]_vars /\ Hub!Fairness /\ Typing!Fairness

-----------------------------------------------------------------------------
(* The properties of the parts.                                              *)

\* The hub's states keep their shape, so that deliver never sends on a closed
\* channel; the counter that Shutdown waits for is the number of registered
\* connections, and a Shutdown that ended in time left none that it could know of;
\* an announcement of presence that nothing overtook says how things are; a typing
\* timer that was stopped or replaced stays silent.
RealtimeHolds ==
    /\ Hub!TypeOK
    /\ Hub!CountIsExact
    /\ Hub!StopsEmpty
    /\ Hub!PresenceIsTold
    /\ Typing!ReplacedIsSilent

\* A connection that missed an event, or whose peer is gone, is dropped; Shutdown
\* ends without its deadline, unless a connection slipped in.  A typing indicator is
\* taken away, unless a stop overlapped with its start, and so is every entry of the
\* map of timers.
RealtimeGoesOn ==
    /\ Hub!BrokenIsDropped
    /\ Hub!ShutdownEnds
    /\ Typing!IndicatorEnds
    /\ Typing!EntryIsRemoved
=============================================================================
