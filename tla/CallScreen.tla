------------------------------ MODULE CallScreen ------------------------------
(***************************************************************************)
(* The call screen of the web client: what the pages of two users show,    *)
(* against the rows of the call service and the events that it relays.     *)
(*                                                                         *)
(* A page handles one thing at a time, up to the next await.  What a       *)
(* handler does after an await is a task here: by then the page may show   *)
(* no call, or another one, and most of the code does not look.  The       *)
(* server is CallService with each request as one step: its conditional    *)
(* update decides, and the relay follows it.                               *)
(***************************************************************************)
EXTENDS Sequences, Naturals

CONSTANTS
    Pages,    \* pages with the chat open, one per device
    UserOf,   \* UserOf[p] is the user of page p; there are two users
    Calls,    \* call ids
    None,     \* no call, no page, no user
    Scenarios \* bound: who has a page open, who calls, what users do, how much fails

Users == {UserOf[p] : p \in Pages}

\* What users do besides calling.
Acts == {"accept", "reject", "hang up", "return"}

\* What the constants must satisfy.
CallScreenConstants ==
    /\ None \notin Pages \cup Calls \cup Users
    /\ \A p, q, r \in Pages : UserOf[p] # UserOf[q] => UserOf[r] \in {UserOf[p], UserOf[q]}
    /\ Scenarios \subseteq [open : SUBSET Pages, callers : SUBSET Pages, calls : SUBSET Calls,
                            acts : SUBSET Acts, faults : Nat]

VARIABLES
    scenario, \* one of Scenarios
    row,      \* row[i]: status, caller and device of chat_calls
    screen,   \* screen[p]: callState, currentCall, callTimeoutTimer, peerConnection
    tasks,    \* handlers that await something
    requests, \* events on their way to the server
    relays,   \* events that are committed and not broadcast yet
    link,     \* link[p]: the socket of p is "open", "broken" or "reopened"
    inbox,    \* inbox[p]: events on their way to p
    leaked,   \* <<p, i>>: in p the connection of call i works, and is not peerConnection
    faults,   \* counts broken sockets, failed requests and media, calls that expired
    strayed   \* history: pages where a handler went on when its call was not shown

server == <<row, relays>>
client == <<screen, tasks, requests, leaked, strayed>>
vars   == <<scenario, server, client, link, inbox, faults>>

Terminal == {"missed", "reject", "busy", "canceled", "failed", "completed"}

NoRow == [status |-> "none", caller |-> None, device |-> None]
\* over is history: the page asked about its call, which had ended, and kept it.
Blank == [state |-> "idle", call |-> None, timer |-> FALSE, pc |-> "none", over |-> FALSE]

Event(op, p, i) == [op |-> op, page |-> p, call |-> i]

\* A handler of page p for call i that awaits the step, and the answer to it.
Task(p, i, step) == [page |-> p, call |-> i, step |-> step, reply |-> "none"]

Init ==
    /\ scenario \in Scenarios
    /\ row = [i \in Calls |-> NoRow]
    /\ screen = [p \in Pages |-> Blank]
    /\ tasks = {} /\ requests = {} /\ relays = {}
    /\ link = [p \in Pages |-> IF p \in scenario.open THEN "open" ELSE "broken"]
    /\ inbox = [p \in Pages |-> <<>>]
    /\ leaked = {}
    /\ faults = 0
    /\ strayed = {}

-----------------------------------------------------------------------------
(* What handlers have in common.                                             *)

Connected(p) == link[p] # "broken"

\* Something goes wrong.
Fault == faults < scenario.faults /\ faults' = faults + 1

\* cleanupCall
Clean(p) == screen' = [screen EXCEPT ![p] = Blank]

\* canTransitionCallState
CanBecome(p, state) ==
    \/ screen[p].state = state
    \/ <<screen[p].state, state>> \in
         {<<"idle", "incoming">>, <<"idle", "outgoing">>, <<"incoming", "connecting">>,
          <<"outgoing", "connecting">>, <<"connecting", "active">>}

\* sendCallControlEvent with the call that the page shows by now, if any.
Current(op, p) == {Event(op, p, i) : i \in {screen[p].call} \ {None}}

\* sendCallEvent: lost when the socket is not open.
OverSocket(op, p) == IF Connected(p) THEN Current(op, p) ELSE {}

Post(events) == requests' = requests \cup events

\* The handler ends, or goes on with the next step.
Leave(t)      == tasks' = tasks \ {t}
GoOn(t, step) == tasks' = (tasks \ {t}) \cup {Task(t.page, t.call, step)}

\* A handler goes on; the page may show another call, or where it harms as well none.
Stray(t, harmless) ==
    strayed' = IF screen[t.page].call \in {t.call} \cup harmless THEN strayed
               ELSE strayed \cup {t.page}

\* Microphone or connection cannot be had: the other side is told.
Abandon(t) ==
    /\ Fault
    /\ Post(Current("end", t.page))
    /\ Clean(t.page)
    /\ Leave(t)

\* activateCall, called as soon as the remote description is set (ontrack): it stops
\* the timer before it looks whether the call can become active.
Activated(p) ==
    IF screen[p].state = "active" THEN screen[p]
    ELSE [screen[p] EXCEPT !.timer = FALSE, !.state = IF CanBecome(p, "active") THEN "active" ELSE @]

\* ensurePeerConnection
Connection(pc) == IF pc = "none" THEN "local" ELSE pc

-----------------------------------------------------------------------------
(* The user.                                                                 *)

\* A new id.
Fresh(i) ==
    /\ row[i].status = "none"
    /\ \A x \in tasks \cup requests : x.call # i
    /\ \A p \in Pages : screen[p].call # i

\* Bound: a call begins when no handler or request is under way; events may be.
Settled == tasks = {} /\ requests = {} /\ relays = {}

\* startCall, up to the question for the microphone.
Start(p, i) ==
    /\ Settled
    /\ p \in scenario.callers /\ i \in scenario.calls /\ Fresh(i)
    /\ screen[p].state = "idle" /\ Connected(p)
    /\ screen' = [screen EXCEPT ![p].call = i]
    /\ tasks' = tasks \cup {Task(p, i, "media")}
    /\ UNCHANGED <<scenario, server, requests, link, inbox, leaked, faults, strayed>>

\* acceptIncomingCall; the button is pressed once.  How long it waits for a socket
\* that is not open is left out.
Accept(p) ==
    LET t == Task(p, screen[p].call, "accept") IN
    /\ "accept" \in scenario.acts
    /\ screen[p].state = "incoming" /\ t.call # None
    /\ \A u \in tasks : [u EXCEPT !.reply = "none"] # t
    /\ \/ /\ Connected(p)
          /\ Post(Current("accept", p))
          /\ tasks' = tasks \cup {t}
          /\ UNCHANGED screen
       \/ /\ ~Connected(p)
          /\ Clean(p)
          /\ UNCHANGED <<requests, tasks>>
    /\ UNCHANGED <<scenario, server, link, inbox, leaked, faults, strayed>>

\* rejectIncomingCall
Reject(p) ==
    /\ "reject" \in scenario.acts
    /\ screen[p].state = "incoming"
    /\ Post(Current("reject", p))
    /\ Clean(p)
    /\ UNCHANGED <<scenario, server, tasks, link, inbox, leaked, faults, strayed>>

\* endOrCancelCall; an incoming call has a button of its own.
HangUp(p) ==
    /\ "hang up" \in scenario.acts
    /\ screen[p].state \in {"outgoing", "connecting", "active"} /\ screen[p].call # None
    /\ Post(Current(IF screen[p].state = "active" THEN "end" ELSE "cancel", p))
    /\ Clean(p)
    /\ UNCHANGED <<scenario, server, tasks, link, inbox, leaked, faults, strayed>>

\* terminalStatuses
KnownTerminal == {"rejected", "busy", "canceled", "completed", "missed", "failed"}

\* reconcileCurrentCall, when the page becomes visible.  The answer is final where
\* it has an effect, so reading and acting are one step.
Reconcile(p) ==
    LET s == screen[p]
        c == row[s.call]
    IN
    /\ "return" \in scenario.acts
    /\ s.call # None /\ c.status # "none"
    /\ IF \/ c.status \in KnownTerminal
          \/ s.state = "incoming" /\ c.status # "ringing" /\ c.device # p
       THEN Clean(p)
       ELSE screen' = [screen EXCEPT ![p].over = c.status \in Terminal]
    /\ UNCHANGED <<scenario, server, tasks, requests, link, inbox, leaked, faults, strayed>>

-----------------------------------------------------------------------------
(* Handlers go on after an await.                                            *)

\* startCall: the microphone is there, or is not ...
GotMedia(t) ==
    LET p == t.page IN
    /\ t.step = "media"
    /\ \/ /\ CanBecome(p, "outgoing")
          /\ screen' = [screen EXCEPT ![p].state = "outgoing"]
          /\ Post({Event("invite", p, t.call)})
          /\ GoOn(t, "invite")
          /\ UNCHANGED faults
       \/ /\ Fault \/ (~CanBecome(p, "outgoing") /\ UNCHANGED faults)
          /\ Clean(p)
          /\ Leave(t)
          /\ UNCHANGED requests
    /\ Stray(t, {})
    /\ UNCHANGED <<scenario, server, link, inbox, leaked>>

\* Mutant: the caller does not start its timer.
InvitedNoTimer(t) ==
    /\ t.step = "invite"
    /\ \/ t.reply = "ok" /\ UNCHANGED screen
       \/ t.reply = "no" /\ Clean(t.page)
    /\ Leave(t)
    /\ Stray(t, {None})
    /\ UNCHANGED <<scenario, server, requests, link, inbox, leaked, faults>>

\* ... and the invitation is answered.
Invited(t) ==
    /\ t.step = "invite"
    /\ \/ t.reply = "ok" /\ screen' = [screen EXCEPT ![t.page].timer = TRUE]
       \/ t.reply = "no" /\ Clean(t.page)
    /\ Leave(t)
    /\ Stray(t, {None})
    /\ UNCHANGED <<scenario, server, requests, link, inbox, leaked, faults>>

\* acceptIncomingCall goes on with the answer ...
Accepted(t) ==
    LET p == t.page IN
    /\ t.step = "accept"
    /\ \/ /\ t.reply = "ok" /\ CanBecome(p, "connecting")
          /\ screen' = [screen EXCEPT ![p].state = "connecting"]
          /\ GoOn(t, "prepare")
       \/ /\ t.reply = "ok" /\ ~CanBecome(p, "connecting")
          /\ Leave(t)
          /\ UNCHANGED screen
       \/ /\ t.reply = "no"
          /\ Clean(p)
          /\ Leave(t)
    /\ Stray(t, {None})
    /\ UNCHANGED <<scenario, server, requests, link, inbox, leaked, faults>>

\* ... and with microphone and ICE servers.  When it had looked for a connection
\* before the handler of the offer made one, it now replaces that one.
Prepared(t) ==
    LET p       == t.page
        replace == t.reply = "blind" /\ screen[p].pc = "remote"
    IN
    /\ t.step = "prepare"
    /\ \/ /\ screen' = [screen EXCEPT ![p].pc = Connection(@), ![p].timer = TRUE]
          /\ leaked' = IF replace THEN leaked \cup {<<p, screen[p].call>>} ELSE leaked
          /\ Leave(t)
          /\ UNCHANGED <<requests, faults>>
       \/ Abandon(t) /\ UNCHANGED leaked
    /\ Stray(t, {})
    /\ UNCHANGED <<scenario, server, link, inbox>>

\* The caller makes its offer ...
Offered(t) ==
    LET p == t.page IN
    /\ t.step = "offering"
    /\ \/ /\ screen' = [screen EXCEPT ![p].pc = Connection(@), ![p].timer = TRUE]
          /\ Post(OverSocket("offer", p))
          /\ Leave(t)
          /\ UNCHANGED faults
       \/ Abandon(t)
    /\ Stray(t, {})
    /\ UNCHANGED <<scenario, server, link, inbox, leaked>>

\* ... and the callee takes it.  The handler of the accept may have looked for a
\* connection before.
TookOffer(t) ==
    LET p          == t.page
        looking    == {u \in tasks : u.page = p /\ u.step = "prepare" /\ screen[p].pc = "none"}
        blinded(s) == {[u EXCEPT !.reply = "blind"] : u \in s}
    IN
    /\ t.step = "offered"
    /\ \/ /\ screen' = [screen EXCEPT ![p] = [Activated(p) EXCEPT !.pc = "remote"]]
          /\ \E s \in {{}, looking} :
               tasks' = ((tasks \ {t}) \ s) \cup blinded(s) \cup {Task(p, t.call, "answering")}
          /\ UNCHANGED <<requests, faults>>
       \/ Abandon(t)
    /\ Stray(t, {})
    /\ UNCHANGED <<scenario, server, link, inbox, leaked>>

\* ... and answers it.
Answered(t) ==
    /\ t.step = "answering"
    /\ \/ /\ Post(OverSocket("answer", t.page))
          /\ Leave(t)
          /\ UNCHANGED <<screen, faults>>
       \/ Abandon(t)
    /\ Stray(t, {None})
    /\ UNCHANGED <<scenario, server, link, inbox, leaked>>

\* The timer of startCallTimeout.
Fire(p) ==
    LET s == screen[p] IN
    /\ s.timer
    /\ Post(IF s.state \in {"outgoing", "connecting"} THEN Current("cancel", p) ELSE {})
    /\ IF s.state \in {"incoming", "outgoing", "connecting"}
       THEN Clean(p) ELSE screen' = [screen EXCEPT ![p].timer = FALSE]
    /\ UNCHANGED <<scenario, server, tasks, link, inbox, leaked, faults, strayed>>

\* No page of the other user has a connection for this call any more.
Alone(p) ==
    \A q \in Pages : UserOf[q] # UserOf[p] =>
        /\ screen[q].pc = "none" \/ screen[q].call # screen[p].call
        /\ <<q, screen[p].call>> \notin leaked

\* The page notices that, or that the peers lost each other; the change of a
\* connection that is not peerConnection changes nothing.
PeerFails(p) ==
    /\ screen[p].pc = "remote" /\ <<p, screen[p].call>> \notin leaked
    /\ Fault \/ (Alone(p) /\ UNCHANGED faults)
    /\ Clean(p)
    /\ UNCHANGED <<scenario, server, tasks, requests, link, inbox, leaked, strayed>>

-----------------------------------------------------------------------------
(* handleCallRealtimeEvent, by kinds of event; ICE candidates are left out.  *)

Arrives(p, ops) ==
    /\ inbox[p] # <<>> /\ Head(inbox[p]).op \in ops
    /\ inbox' = [inbox EXCEPT ![p] = Tail(@)]
    /\ UNCHANGED <<scenario, server, link, leaked, strayed>>

\* callMatchesEvent
Ours(p) == screen[p].call = Head(inbox[p]).call

\* A page that is not idle answers for its user.
SeeInvite(p) ==
    LET i == Head(inbox[p]).call IN
    /\ Arrives(p, {"invite"})
    /\ IF screen[p].state = "idle"
       THEN /\ screen' = [screen EXCEPT ![p].call = i, ![p].state = "incoming", ![p].timer = TRUE]
            /\ UNCHANGED requests
       ELSE /\ Post({Event("busy", p, i)})
            /\ UNCHANGED screen
    /\ UNCHANGED <<tasks, faults>>

\* Mutant: a page does not heed that another one took the call.
NotTakenElsewhere(p) == FALSE

\* Another device of the user took the call.
TakenElsewhere(p) ==
    Ours(p) /\ UserOf[Head(inbox[p]).page] = UserOf[p] /\ screen[p].state = "incoming"

SeeAccept(p) ==
    LET i == Head(inbox[p]).call IN
    /\ Arrives(p, {"accept"})
    /\ \/ /\ TakenElsewhere(p)
          /\ Clean(p)
          /\ UNCHANGED tasks
       \/ /\ Ours(p) /\ screen[p].state = "outgoing"
          /\ screen' = [screen EXCEPT ![p].state = "connecting"]
          /\ tasks' = tasks \cup {Task(p, i, "offering")}
       \/ /\ ~TakenElsewhere(p) /\ ~(Ours(p) /\ screen[p].state = "outgoing")
          /\ UNCHANGED <<screen, tasks>>
    /\ UNCHANGED <<requests, faults>>

SeeEnd(p) ==
    /\ Arrives(p, {"reject", "busy", "cancel", "end"})
    /\ IF Ours(p) THEN Clean(p) ELSE UNCHANGED screen
    /\ UNCHANGED <<tasks, requests, faults>>

\* Whoever shows the call answers its offer, whether it accepted or not.
SeeOffer(p) ==
    LET i == Head(inbox[p]).call IN
    /\ Arrives(p, {"offer"})
    /\ IF Ours(p)
       THEN /\ screen' = [screen EXCEPT ![p].state = IF @ = "incoming" THEN "connecting" ELSE @]
            /\ tasks' = tasks \cup {Task(p, i, "offered")}
       ELSE UNCHANGED <<screen, tasks>>
    /\ UNCHANGED <<requests, faults>>

\* A description that cannot be set ends the call on this side only.
SeeAnswer(p) ==
    LET mine == Ours(p) /\ screen[p].pc # "none" IN
    /\ Arrives(p, {"answer"})
    /\ \/ mine /\ screen' = [screen EXCEPT ![p] = [Activated(p) EXCEPT !.pc = "remote"]] /\ UNCHANGED faults
       \/ mine /\ Fault /\ Clean(p)
       \/ ~mine /\ UNCHANGED <<screen, faults>>
    /\ UNCHANGED <<tasks, requests>>

-----------------------------------------------------------------------------
(* The server.                                                               *)

\* The handler that awaits the answer to r, if there is one, gets it.
Reply(r, verdict) ==
    tasks' = {IF [t EXCEPT !.reply = "none"] = Task(r.page, r.call, r.op) /\ t.reply = "none"
              THEN [t EXCEPT !.reply = verdict] ELSE t : t \in tasks}

IsCaller(r) == row[r.call].caller = UserOf[r.page]
IsCallee(r) == row[r.call].status # "none" /\ ~IsCaller(r)

\* What ProcessEvent makes of the row.
After(r) ==
    LET c == row[r.call] IN
    CASE r.op = "invite" /\ c.status = "none" ->
           [NoRow EXCEPT !.status = "ringing", !.caller = UserOf[r.page]]
      [] r.op = "accept" /\ IsCallee(r) /\ c.status = "ringing" ->
           [c EXCEPT !.status = "accepted", !.device = r.page]
      [] r.op \in {"reject", "busy"} /\ IsCallee(r) /\ c.status = "ringing" ->
           [c EXCEPT !.status = r.op]
      [] r.op = "cancel" /\ IsCaller(r) /\ c.status \in {"ringing", "accepted", "connecting"} ->
           [c EXCEPT !.status = "canceled"]
      [] r.op = "end" /\ c.status \in {"accepted", "connecting", "active"} ->
           [c EXCEPT !.status = IF @ = "active" THEN "completed" ELSE "failed"]
      [] r.op = "offer" /\ IsCaller(r) /\ c.status = "accepted" ->
           [c EXCEPT !.status = "connecting"]
      [] r.op = "answer" /\ IsCallee(r) /\ c.status = "connecting" ->
           [c EXCEPT !.status = "active"]
      [] OTHER -> c

\* relayCallEvent: the row changes and the event will be relayed, or the request is
\* refused.
Serve(r) ==
    /\ requests' = requests \ {r}
    /\ row' = [row EXCEPT ![r.call] = After(r)]
    /\ IF row' = row
       THEN Reply(r, "no") /\ UNCHANGED relays
       ELSE relays' = relays \cup {r} /\ UNCHANGED tasks
    /\ UNCHANGED <<scenario, screen, link, inbox, leaked, faults, strayed>>

\* transition: who hears of it; a device ignores its own events.
Audience(e) ==
    {p \in Pages \ {e.page} :
       e.op \in {"invite", "offer", "answer"} => UserOf[p] # UserOf[e.page]}

\* The event is queued for the open sockets and the request is answered.
Broadcast(e) ==
    /\ relays' = relays \ {e}
    /\ inbox' = [p \in Pages |-> IF p \in Audience(e) /\ Connected(p)
                                 THEN Append(inbox[p], e) ELSE inbox[p]]
    /\ Reply(e, "ok")
    /\ UNCHANGED <<scenario, row, screen, requests, link, leaked, faults, strayed>>

\* The lazy expiry and the reaper; the longest duration is not reached.
Expire(i) ==
    /\ Fault
    /\ row[i].status \in {"ringing", "accepted", "connecting"}
    /\ row' = [row EXCEPT ![i].status = IF @ = "ringing" THEN "missed" ELSE "failed"]
    /\ UNCHANGED <<scenario, client, relays, link, inbox>>

-----------------------------------------------------------------------------
(* Faults.                                                                   *)

\* The request is lost, or its answer is.
Drop(r) ==
    /\ Fault
    /\ \E lost \in {{}, {r}} : requests' = requests \ lost
    /\ Reply(r, "no")
    /\ UNCHANGED <<scenario, server, screen, link, inbox, leaked, strayed>>

\* A socket breaks; nobody sends the events of the call again.
Break(p) ==
    /\ Fault /\ Connected(p)
    /\ link' = [link EXCEPT ![p] = "broken"]
    /\ inbox' = [inbox EXCEPT ![p] = <<>>]
    /\ UNCHANGED <<scenario, server, client>>

Reconnect(p) ==
    /\ p \in scenario.open /\ ~Connected(p)
    /\ link' = [link EXCEPT ![p] = "reopened"]
    /\ UNCHANGED <<scenario, server, client, inbox, faults>>

-----------------------------------------------------------------------------
UserActs(p) ==
    \/ \E i \in Calls : Start(p, i)
    \/ Accept(p) \/ Reject(p) \/ HangUp(p) \/ Reconcile(p)

Receive(p) == SeeInvite(p) \/ SeeAccept(p) \/ SeeEnd(p) \/ SeeOffer(p) \/ SeeAnswer(p)

Next ==
    \/ \E p \in Pages :
         \/ UserActs(p) \/ Receive(p)
         \/ Fire(p) \/ PeerFails(p)
         \/ Break(p) \/ Reconnect(p)
    \/ \E t \in tasks :
         \/ GotMedia(t) \/ Invited(t) \/ Accepted(t) \/ Prepared(t)
         \/ Offered(t) \/ TookOffer(t) \/ Answered(t)
    \/ \E r \in requests : Serve(r)
    \/ \E r \in requests \cup relays : Drop(r)
    \/ \E e \in relays : Broadcast(e)
    \/ \E i \in Calls : Expire(i)

Spec == Init /\ [][Next]_vars

\* A handler that was answered goes on, and so do the offer and the answer; the
\* server handles and relays what it got; events are read; timers fire; a page
\* notices that its peer is gone.  Nobody has to press a button, and the microphone
\* may be asked for in vain.
Fairness ==
    /\ WF_vars(\E t \in tasks : Invited(t) \/ Accepted(t) \/ Offered(t) \/ Answered(t))
    /\ WF_vars(\E r \in requests : Serve(r))
    /\ WF_vars(\E e \in relays : Broadcast(e))
    /\ \A p \in Pages : WF_vars(Receive(p)) /\ WF_vars(Fire(p)) /\ WF_vars(PeerFails(p))

-----------------------------------------------------------------------------
(* Properties.                                                               *)

TypeOK ==
    /\ scenario \in Scenarios
    /\ row \in [Calls -> [status : {"none", "ringing", "accepted", "connecting", "active"} \cup Terminal,
                          caller : Users \cup {None}, device : Pages \cup {None}]]
    /\ screen \in [Pages -> [state : {"idle", "incoming", "outgoing", "connecting", "active"},
                             call : Calls \cup {None}, timer : BOOLEAN,
                             pc : {"none", "local", "remote"}, over : BOOLEAN]]
    /\ leaked \subseteq Pages \X (Calls \cup {None}) /\ strayed \subseteq Pages
    /\ faults \in 0 .. scenario.faults

Shows(p, states) == screen[p].state \in states /\ screen[p].call # None

IsCallersPage(p) == row[screen[p].call].caller = UserOf[p]

\* A page of the callee connects only if its device took the call: not two of them,
\* and none that did not accept.  Excepted are a page that missed events and one
\* where a handler went on that was not of its call.
ConnectsIfTaken ==
    \A p \in Pages \ strayed :
        (Shows(p, {"connecting", "active"}) /\ ~IsCallersPage(p) /\ link[p] = "open")
            => row[screen[p].call].device = p

\* A caller talks only when the callee has answered.
CallerWasAnswered ==
    \A p \in Pages \ strayed :
        (Shows(p, {"active"}) /\ IsCallersPage(p))
            => row[screen[p].call].status \in {"active"} \cup Terminal

\* When every event and request is handled and nothing failed, a call that ended is
\* shown nowhere, except that one may still ring whose cancel overtook its invite.
EndedIsOff ==
    (Settled /\ faults = 0) =>
        \A p \in Pages \ strayed :
            (inbox[p] = <<>> /\ Shows(p, {"outgoing", "connecting", "active"}))
                => row[screen[p].call].status \notin Terminal

\* A page of each user shows the call as a conversation.
Talking(p, i) ==
    /\ screen[p].state = "active" /\ screen[p].call = i
    /\ \E q \in Pages : UserOf[q] # UserOf[p] /\ screen[q].call = i /\ screen[q].state = "active"

\* The page shows a call that it has with nobody; a call whose connection leaked is
\* excepted, since nobody notices when that connection ends.
Lonely(p) ==
    LET i == screen[p].call IN
    screen[p].state # "idle" /\ ~Talking(p, i) /\ \A q \in Pages : <<q, i>> \notin leaked

\* No page is left ringing, calling, connecting or talking to nobody.
ScreensEnd == []<>(\A p \in Pages : ~Lonely(p))

\* A page that comes back to the foreground closes a call that has ended, unless the
\* event that says so is still on its way.  The comment in reconcileCurrentCall has
\* it so: "The local timeout and the next foreground sync remain fallbacks."
ReturnClosesEnded ==
    \A p \in Pages : screen[p].over => (relays # {} \/ inbox[p] # <<>>)

Phase(status) ==
    CASE status \in {"accepted", "connecting"} -> "taken"
      [] status = "active" -> "connected"
      [] status \in Terminal -> "over"
      [] OTHER -> status

\* The server's steps are those of CallLifecycle, as the steps of CallService are.
Lifecycle == INSTANCE CallLifecycle WITH
    Holders  <- Pages,
    Nobody   <- None,
    Outcomes <- Terminal,
    phase    <- [i \in Calls |-> Phase(row[i].status)],
    holder   <- [i \in Calls |-> row[i].device],
    outcome  <- [i \in Calls |-> IF row[i].status \in Terminal THEN row[i].status ELSE None]

LifecycleIsKept == Lifecycle!Spec
===============================================================================
