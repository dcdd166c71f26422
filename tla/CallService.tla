----------------------------- MODULE CallService -----------------------------
(***************************************************************************)
(* The server side of a voice or video call: one row of chat_calls per     *)
(* call, changed by conditional UPDATE statements of concurrent requests   *)
(* (ProcessEvent) and of the reaper (expireStaleCallsWithConfig).          *)
(*                                                                         *)
(* No transaction spans a request.  One action below is one SQL statement  *)
(* together with the Go code around it, so everything between the first    *)
(* SELECT and the UPDATE of a request may be interleaved with the          *)
(* statements of other requests, of other API instances and of the reaper. *)
(* A request that is answered with an error before it reaches a statement  *)
(* changes nothing and has no action.                                      *)
(***************************************************************************)
EXTENDS Integers

CONSTANTS
    CallIds,         \* client-chosen call ids
    Conversations,   \* direct conversations
    Members,         \* [Conversations -> SUBSET Users], two users each
    Sessions,        \* <<user, device>> pairs that send call events
    Events,          \* the kinds of call event the sessions send, invites apart
    Workers,         \* requests the API instances handle at the same time
    None,            \* no conversation, no user, no device
    RingTimeout,     \* a ringing call is missed after more than this
    ConnectTimeout,  \* an answered call that is not active fails after this
    MaximumDuration, \* an active call is completed after this
    MaxTime,         \* bound: the clock stops here
    LastStart,       \* bound: calls are started no later than this
    LastAccept       \* bound: calls are accepted no later than this

Users   == UNION {Members[v] : v \in Conversations}
Devices == {s[2] : s \in Sessions}

\* The events a request can carry besides call.invite.
Ops     == {"call.accept", "call.reject", "call.busy", "call.cancel",
            "call.end", "call.offer", "call.answer", "call.ice"}
Steps   == (Ops \ {"call.ice"}) \cup {"call.invite"}
EndOps  == {"call.reject", "call.busy", "call.cancel", "call.end"}

ASSUME CallAssumption ==
    /\ Members \in [Conversations -> SUBSET Users]
    /\ Sessions \subseteq Users \X Devices
    /\ None \notin Conversations \cup Users \cup Devices
    /\ {RingTimeout, ConnectTimeout, MaximumDuration} \subseteq Nat \ {0}
    /\ {MaxTime, LastStart, LastAccept} \subseteq Nat
    /\ Events \subseteq Ops

VARIABLES
    call,      \* call[i] is the row of call i, NoCall before it is created
    req,       \* req[w] is the request worker w handles, Idle when it has none
    clock,     \* the time every instance reads
    connected, \* history: the calls that were active at some time
    replies,   \* history: <<call, device, outcome>> of the answers to call.accept
    relayed    \* history: relayed[i][e] counts the events e of call i sent out

vars == <<call, req, clock, connected, replies, relayed>>

NoTime   == -1
Live     == {"ringing", "accepted", "connecting", "active"}
Terminal == {"missed", "reject", "busy", "canceled", "failed", "completed"}

NoCall == [status |-> "none", conv |-> None, caller |-> None, callee |-> None,
           device |-> None, startedAt |-> NoTime, answeredAt |-> NoTime,
           endedAt |-> NoTime, duration |-> 0]

Idle == [pc |-> "idle", op |-> None, user |-> None, device |-> None,
         id |-> None, row |-> NoCall, since |-> 0]

-----------------------------------------------------------------------------
(* Expiry.  Both expireCallIfStale and the reaper compare the row with a     *)
(* time and turn a live status into the terminal one that goes with it.      *)

Limit(status) ==
    CASE status = "ringing" -> RingTimeout
      [] status \in {"accepted", "connecting"} -> ConnectTimeout
      [] OTHER -> MaximumDuration

\* Mutant: the reaper and the lazy check overlook calls that are connecting.
StaleUnlessConnecting(row, now) ==
    \/ row.status = "ringing" /\ row.startedAt < now - RingTimeout
    \/ row.status \in {"accepted", "active"}
       /\ row.answeredAt # NoTime /\ row.answeredAt < now - Limit(row.status)

Stale(row, now) ==
    \/ row.status = "ringing" /\ row.startedAt < now - RingTimeout
    \/ row.status \in {"accepted", "connecting", "active"}
       /\ row.answeredAt # NoTime /\ row.answeredAt < now - Limit(row.status)

\* Mutant: the maximum duration is charged to calls that never connected.
ExpiredAtMaximum(row, now) ==
    [row EXCEPT !.status = IF row.status = "ringing" THEN "missed"
                           ELSE IF row.status = "active" THEN "completed"
                           ELSE "failed",
                !.endedAt = now,
                !.duration = MaximumDuration]

Expired(row, now) ==
    [row EXCEPT !.status = CASE row.status = "ringing" -> "missed"
                             [] row.status = "active"  -> "completed"
                             [] OTHER -> "failed",
                !.endedAt = now,
                !.duration = IF row.status = "active" THEN MaximumDuration ELSE @]

-----------------------------------------------------------------------------
(* Requests.                                                                 *)

\* The times time.Now() can have returned since the request's last statement.
Stamps(r) == r.since .. clock

\* The request goes on with row as its copy of the call, ...
Continuing(r, pc, row, now) == [r EXCEPT !.pc = pc, !.row = row, !.since = now]

Continue(w, pc, row) == req' = [req EXCEPT ![w] = Continuing(@, pc, row, clock)]

\* ... or needs its copy no longer, ...
Awaiting(r, pc) == [r EXCEPT !.pc = pc, !.row = NoCall, !.since = 0]

Await(w, pc) == req' = [req EXCEPT ![w] = Awaiting(@, pc)]

\* ... or has only its event left to relay.
Relaying(op, id) == [Idle EXCEPT !.pc = "relay", !.op = op, !.id = id]

ToRelay(w) == req' = [req EXCEPT ![w] = Relaying(@.op, @.id)]

Finished(w) == req' = [req EXCEPT ![w] = Idle]

Init ==
    /\ call = [i \in CallIds |-> NoCall]
    /\ req = [w \in Workers |-> Idle]
    /\ clock = 0
    /\ connected = {}
    /\ replies = {}
    /\ relayed = [i \in CallIds |-> [e \in Steps |-> 0]]

Tick ==
    /\ clock < MaxTime
    /\ clock' = clock + 1
    /\ UNCHANGED <<call, req, connected, replies, relayed>>

Ringing(conv, caller, callee, now) ==
    [status |-> "ringing", conv |-> conv, caller |-> caller, callee |-> callee,
     device |-> None, startedAt |-> now, answeredAt |-> NoTime,
     endedAt |-> NoTime, duration |-> 0]

\* An invite inserts the row unless the id is taken (ON CONFLICT DO NOTHING);
\* a taken id is answered from the existing row and relayed to nobody.
Invite(w, s, i, v) ==
    LET user == s[1]
        peers == Members[v] \ {user}
    IN /\ req[w].pc = "idle"
       /\ user \in Members[v]
       /\ clock <= LastStart
       /\ call[i].status = "none"
       /\ \E callee \in peers :
            /\ peers = {callee}
            /\ call' = [call EXCEPT ![i] = Ringing(v, user, callee, clock)]
       /\ req' = [req EXCEPT ![w] = Relaying("call.invite", i)]
       /\ UNCHANGED <<clock, connected, replies, relayed>>

\* Any other event first loads the row; only a participant gets further, and
\* only an accept uses the device it comes from.
Load(w, s, i, op) ==
    /\ req[w].pc = "idle"
    /\ call[i].status # "none"
    /\ s[1] \in {call[i].caller, call[i].callee}
    /\ req' = [req EXCEPT ![w] =
                [pc |-> IF Stale(call[i], clock) THEN "expire" ELSE "apply",
                 op |-> op, user |-> s[1], id |-> i, row |-> call[i],
                 device |-> IF op = "call.accept" THEN s[2] ELSE None,
                 since |-> clock]]
    /\ UNCHANGED <<call, clock, connected, replies, relayed>>

\* Mutant: the lazy expiry writes without checking the status it read.
ExpireUnconditionally(w) ==
    LET r == req[w]
        row == Expired(r.row, r.since)
    IN /\ r.pc = "expire"
       /\ call' = [call EXCEPT ![r.id].status = row.status, ![r.id].endedAt = row.endedAt,
                               ![r.id].duration = row.duration]
       /\ Continue(w, "apply", row)
       /\ UNCHANGED <<clock, connected, replies, relayed>>

\* expireCallIfStale: UPDATE ... WHERE status = <the status that was read>;
\* the loser of a race reads the row again.
Expire(w) ==
    LET r == req[w]
        row == Expired(call[r.id], r.since)
    IN /\ r.pc = "expire"
       /\ \/ /\ call[r.id].status = r.row.status
             /\ call' = [call EXCEPT ![r.id] = row]
             /\ Continue(w, "apply", row)
          \/ /\ call[r.id].status # r.row.status
             /\ Continue(w, "reread", r.row)
             /\ UNCHANGED call
       /\ UNCHANGED <<clock, connected, replies, relayed>>

Reread(w) ==
    /\ req[w].pc = "reread"
    /\ Continue(w, "apply", call[req[w].id])
    /\ UNCHANGED <<call, clock, connected, replies, relayed>>

IsCaller(r) == r.user = r.row.caller
IsCallee(r) == r.user = r.row.callee

\* The request is refused: the wrong participant sent the event.
Refuse(w) ==
    LET r == req[w] IN
    /\ r.pc = "apply"
    /\ \/ r.op \in {"call.accept", "call.reject", "call.busy", "call.answer"} /\ ~IsCallee(r)
       \/ r.op \in {"call.cancel", "call.offer"} /\ ~IsCaller(r)
    /\ Finished(w)
    /\ UNCHANGED <<call, clock, connected, replies, relayed>>

\* What an accept writes.
Taken(row, device, now) ==
    [row EXCEPT !.status = "accepted", !.device = device, !.answeredAt = now]

\* Mutant: accepting tests the status that was loaded, not the stored one.
AcceptLoaded(w) ==
    LET r == req[w] IN
    /\ r.pc = "apply" /\ r.op = "call.accept" /\ IsCallee(r)
    /\ clock <= LastAccept
    /\ \/ /\ r.row.status = "ringing"
          /\ \E now \in Stamps(r) : call' = [call EXCEPT ![r.id] = Taken(@, r.device, now)]
          /\ Await(w, "accepted")
       \/ /\ r.row.status # "ringing"
          /\ Await(w, "lost")
          /\ UNCHANGED call
    /\ UNCHANGED <<clock, connected, replies, relayed>>

\* Mutant: accepting forgets to store which device won.
AcceptWithoutDevice(w) ==
    LET r == req[w] IN
    /\ r.pc = "apply" /\ r.op = "call.accept" /\ IsCallee(r)
    /\ clock <= LastAccept
    /\ \/ /\ call[r.id].status = "ringing"
          /\ \E now \in Stamps(r) : call' = [call EXCEPT ![r.id] = Taken(@, None, now)]
          /\ Await(w, "accepted")
       \/ /\ call[r.id].status # "ringing"
          /\ Await(w, "lost")
          /\ UNCHANGED call
    /\ UNCHANGED <<clock, connected, replies, relayed>>

\* call.accept: UPDATE ... WHERE status = 'ringing'.
Accept(w) ==
    LET r == req[w] IN
    /\ r.pc = "apply" /\ r.op = "call.accept" /\ IsCallee(r)
    /\ clock <= LastAccept
    /\ \/ /\ call[r.id].status = "ringing"
          /\ \E now \in Stamps(r) : call' = [call EXCEPT ![r.id] = Taken(@, r.device, now)]
          /\ Await(w, "accepted")
       \/ /\ call[r.id].status # "ringing"
          /\ Await(w, "lost")
          /\ UNCHANGED call
    /\ UNCHANGED <<clock, connected, replies, relayed>>

\* The winner reloads the row, answers its device and goes on to relay.
AcceptWon(w) ==
    LET r == req[w] IN
    /\ r.pc = "accepted"
    /\ replies' = replies \cup {<<r.id, r.device, "ok">>}
    /\ ToRelay(w)
    /\ UNCHANGED <<call, clock, connected, relayed>>

\* A device that found the call taken reloads the row; the retry of the
\* winner is answered like the first time as long as the call is "accepted".
AcceptLost(w) ==
    LET r == req[w]
        again == call[r.id].status = "accepted" /\ call[r.id].device = r.device
    IN /\ r.pc = "lost"
       /\ replies' = replies \cup {<<r.id, r.device, IF again THEN "ok" ELSE "conflict">>}
       /\ Finished(w)
       /\ UNCHANGED <<call, clock, connected, relayed>>

\* What an ending writes.  The talk time is computed from the row the request
\* loaded, and now is no earlier than that row.
TalkTime(loaded, now) ==
    IF loaded.answeredAt = NoTime THEN 0 ELSE now - loaded.answeredAt

Ended(row, status, now, duration) ==
    [row EXCEPT !.status = status, !.endedAt = now, !.duration = duration]

\* Mutant: the update of an ending request is not conditional.
FinishAlways(w, allowed, status) ==
    LET r == req[w] IN
    /\ \E now \in Stamps(r) :
         call' = [call EXCEPT ![r.id] = Ended(@, status, now, TalkTime(r.row, now))]
    /\ ToRelay(w)
    /\ UNCHANGED <<clock, connected, replies, relayed>>

\* finish: UPDATE ... WHERE status IN allowed; too late a request changes nothing.
Finish(w, allowed, status) ==
    LET r == req[w] IN
    /\ \/ /\ call[r.id].status \in allowed
          /\ \E now \in Stamps(r) :
               call' = [call EXCEPT ![r.id] = Ended(@, status, now, TalkTime(r.row, now))]
          /\ ToRelay(w)
       \/ /\ call[r.id].status \notin allowed
          /\ Finished(w)
          /\ UNCHANGED call
    /\ UNCHANGED <<clock, connected, replies, relayed>>

Decline(w) ==
    LET r == req[w] IN
    /\ r.pc = "apply" /\ r.op \in {"call.reject", "call.busy"} /\ IsCallee(r)
    /\ Finish(w, {"ringing"}, IF r.op = "call.reject" THEN "reject" ELSE "busy")

Cancel(w) ==
    /\ req[w].pc = "apply" /\ req[w].op = "call.cancel" /\ IsCaller(req[w])
    /\ Finish(w, {"ringing", "accepted", "connecting"}, "canceled")

\* Mutant: every hang-up of an answered call counts as completed.
EndAsCompleted(w) ==
    /\ req[w].pc = "apply" /\ req[w].op = "call.end"
    /\ Finish(w, {"accepted", "connecting", "active"}, "completed")

\* call.end: the outcome is decided by the status the request loaded.
End(w) ==
    /\ req[w].pc = "apply" /\ req[w].op = "call.end"
    /\ Finish(w, {"accepted", "connecting", "active"},
              IF req[w].row.status = "active" THEN "completed" ELSE "failed")

Advanced(row, to) == [row EXCEPT !.status = to]

\* Mutant: an advance takes any live call to its new status.
AdvanceFromAny(w, from, to) ==
    LET r == req[w] IN
    /\ \/ /\ call[r.id].status \in Live
          /\ call' = [call EXCEPT ![r.id] = Advanced(@, to)]
          /\ connected' = IF to = "active" THEN connected \cup {r.id} ELSE connected
          /\ ToRelay(w)
       \/ /\ call[r.id].status \notin Live
          /\ Finished(w)
          /\ UNCHANGED <<call, connected>>
    /\ UNCHANGED <<clock, replies, relayed>>

\* advance: UPDATE ... WHERE status = from.
Advance(w, from, to) ==
    LET r == req[w] IN
    /\ \/ /\ call[r.id].status = from
          /\ call' = [call EXCEPT ![r.id] = Advanced(@, to)]
          /\ connected' = IF to = "active" THEN connected \cup {r.id} ELSE connected
          /\ ToRelay(w)
       \/ /\ call[r.id].status # from
          /\ Finished(w)
          /\ UNCHANGED <<call, connected>>
    /\ UNCHANGED <<clock, replies, relayed>>

\* Mutant: an offer writes a status no other request knows.
OfferNewStatus(w) ==
    /\ req[w].pc = "apply" /\ req[w].op = "call.offer" /\ IsCaller(req[w])
    /\ Advance(w, "accepted", "offered")

Offer(w) ==
    /\ req[w].pc = "apply" /\ req[w].op = "call.offer" /\ IsCaller(req[w])
    /\ Advance(w, "accepted", "connecting")

Answer(w) ==
    /\ req[w].pc = "apply" /\ req[w].op = "call.answer" /\ IsCallee(req[w])
    /\ Advance(w, "connecting", "active")

\* call.ice: a candidate is relayed on the strength of the loaded status.
Ice(w) ==
    LET r == req[w] IN
    /\ r.pc = "apply" /\ r.op = "call.ice"
    /\ \/ r.row.status \in {"accepted", "connecting", "active"} /\ ToRelay(w)
       \/ r.row.status \notin {"accepted", "connecting", "active"} /\ Finished(w)
    /\ UNCHANGED <<call, clock, connected, replies, relayed>>

\* relayCallEvent: the committed transition is sent to the other devices.
\* ICE candidates are not kept in the history, there is no end of them.
Relay(w) ==
    LET r == req[w] IN
    /\ r.pc = "relay"
    /\ relayed' = IF r.op = "call.ice" THEN relayed
                  ELSE [relayed EXCEPT ![r.id][r.op] = @ + 1]
    /\ Finished(w)
    /\ UNCHANGED <<call, clock, connected, replies>>

-----------------------------------------------------------------------------
(* The reaper.  Each API instance runs one, so its three bulk statements are *)
(* interleaved freely; now is the tick the statement was issued for.  It     *)
(* tells nobody: clients run timers of their own.                            *)

Reap(statuses, now) ==
    LET due == {i \in CallIds : call[i].status \in statuses /\ Stale(call[i], now)}
    IN /\ due # {}
       /\ call' = [i \in CallIds |-> IF i \in due THEN Expired(call[i], now) ELSE call[i]]
       /\ UNCHANGED <<req, clock, connected, replies, relayed>>

ReapRinging    == \E now \in 0 .. clock : Reap({"ringing"}, now)
ReapConnecting == \E now \in 0 .. clock : Reap({"accepted", "connecting"}, now)
ReapActive     == \E now \in 0 .. clock : Reap({"active"}, now)

-----------------------------------------------------------------------------
Handle(w) ==
    \/ Expire(w) \/ Reread(w) \/ Refuse(w)
    \/ Accept(w) \/ AcceptWon(w) \/ AcceptLost(w)
    \/ Decline(w) \/ Cancel(w) \/ End(w)
    \/ Offer(w) \/ Answer(w) \/ Ice(w)
    \/ Relay(w)

Next ==
    \/ Tick
    \/ \E w \in Workers, s \in Sessions, i \in CallIds :
         \/ \E v \in Conversations : Invite(w, s, i, v)
         \/ \E op \in Events : Load(w, s, i, op)
    \/ \E w \in Workers : Handle(w)
    \/ ReapRinging \/ ReapConnecting \/ ReapActive

Spec == Init /\ [][Next]_vars

\* Time passes, the reaper keeps ticking and a request that runs goes on;
\* nobody is obliged to send another event.
Fairness ==
    /\ WF_vars(Tick)
    /\ WF_vars(ReapRinging) /\ WF_vars(ReapConnecting) /\ WF_vars(ReapActive)
    /\ \A w \in Workers : WF_vars(Handle(w))

FairSpec == Spec /\ Fairness

-----------------------------------------------------------------------------
(* Properties.                                                               *)

Times == {NoTime} \cup Nat

Row == [status : Live \cup Terminal \cup {"none"},
        conv : Conversations \cup {None},
        caller : Users \cup {None}, callee : Users \cup {None},
        device : Devices \cup {None},
        startedAt : Times, answeredAt : Times, endedAt : Times,
        duration : Nat]

Request == [pc : {"idle", "expire", "reread", "apply", "accepted", "lost", "relay"},
            op : Ops \cup {"call.invite", None},
            user : Users \cup {None}, device : Devices \cup {None},
            id : CallIds \cup {None}, row : Row, since : Nat]

\* The variables keep the shape the chat_calls columns and ProcessEvent give them.
TypeOK ==
    /\ call \in [CallIds -> Row]
    /\ req \in [Workers -> Request]
    /\ clock \in Nat
    /\ connected \subseteq CallIds
    /\ replies \subseteq CallIds \X Devices \X {"ok", "conflict"}
    /\ relayed \in [CallIds -> [Steps -> Nat]]

\* A row never contradicts itself, whichever requests and reapers raced for it:
\* an accepting device and a time of answer come together and only for an
\* outcome that needs them, and exactly the ended calls have a time of end.
OutcomeFitsAnswer ==
    \A i \in CallIds :
      LET row == call[i] IN
      /\ (row.answeredAt = NoTime) <=> (row.device = None)
      /\ row.status \in {"accepted", "connecting", "active", "completed", "failed"}
            => row.answeredAt # NoTime
      /\ row.status \in {"none", "ringing", "missed", "reject", "busy"}
            => row.answeredAt = NoTime
      /\ (row.endedAt # NoTime) <=> (row.status \in Terminal)

\* However many devices of the callee accept at once, and however often they
\* retry, the only device ever told that it has the call is the stored one.
OneDeviceTakesTheCall ==
    \A i \in CallIds, d \in Devices :
      <<i, d, "ok">> \in replies => call[i].device = d

\* The recorded talk time is never longer than the time from the answer to
\* the end, and a call nobody answered has none; it may be shorter, since
\* finish() computes it from the row it loaded.
TalkTimeIsNotOverstated ==
    \A i \in CallIds :
      call[i].duration > 0 =>
        /\ call[i].answeredAt # NoTime
        /\ call[i].duration <= call[i].endedAt - call[i].answeredAt

\* History never shows a completed call that was not connected: no late or
\* stale hang-up turns an unconnected call into a conversation.
CompletedWasConnected ==
    \A i \in CallIds : call[i].status = "completed" => i \in connected

\* Clients hear of each step of a call once: of several concurrent endings
\* and accepts only the request whose UPDATE won is relayed.
EachStepIsRelayedOnce ==
    \A i \in CallIds :
      /\ \A e \in Steps : relayed[i][e] <= 1
      /\ \A e, f \in EndOps : relayed[i][e] + relayed[i][f] = 2 => e = f

\* Nothing changes the row of an ended call again, not even its duration.
EndedIsFinal ==
    [][\A i \in CallIds : call[i].status \in Terminal => call'[i] = call[i]]_vars

\* The device that has the call may repeat its accept as long as the call is
\* going on: it is not told that the call is taken (call_service_test.go:74
\* "winning device retry must be idempotent").
WinnerRetryIsIdempotent ==
    [][\A i \in CallIds, d \in Devices :
         (<<i, d, "conflict">> \in replies' \ replies /\ call[i].status \in Live)
           => call[i].device # d]_vars

\* Every call ends: if nobody ends it, a timeout does.
EveryCallEnds ==
    \A i \in CallIds : (call[i].status \in Live) ~> (call[i].status \in Terminal)

-----------------------------------------------------------------------------
(* What the two users are promised.                                          *)

Phase(status) ==
    CASE status \in {"accepted", "connecting"} -> "taken"
      [] status = "active" -> "connected"
      [] status \in Terminal -> "over"
      [] OTHER -> status

Lifecycle == INSTANCE CallLifecycle WITH
    Calls   <- CallIds,
    Holders <- Devices,
    Nobody  <- None,
    Outcomes <- Terminal \X Nat,
    phase   <- [i \in CallIds |-> Phase(call[i].status)],
    holder  <- [i \in CallIds |-> call[i].device],
    outcome <- [i \in CallIds |-> IF call[i].status \in Terminal
                                  THEN <<call[i].status, call[i].duration>>
                                  ELSE None]

\* The rows implement the life of a call as its users see it.
ImplementsLifecycle == Lifecycle!Spec
=============================================================================
