--------------------------- MODULE CallServiceProofs ---------------------------
(***************************************************************************)
(* Proofs about CallService for any number of calls, users, devices and    *)
(* concurrent requests and for any timeouts.                               *)
(***************************************************************************)
EXTENDS CallService, TLAPS

\* A request that runs knows its call; one that still needs its copy of the
\* row has a copy no newer than its time, and only an overdue call is expired.
RequestOK(r) ==
    /\ r.pc # "idle" => r.id \in CallIds
    /\ r.pc \in {"expire", "reread", "apply"} =>
         /\ r.op \in Ops
         /\ r.op = "call.accept" => r.device \in Devices
         /\ r.row.answeredAt <= r.since
    /\ r.pc = "expire" => r.row.status \in Live /\ Stale(r.row, r.since)
    /\ r.pc \in {"accepted", "lost"} => r.op = "call.accept" /\ r.device \in Devices
    /\ r.pc = "relay" => r.op \in Ops \cup {"call.invite"}

RequestsOK == \A w \in Workers : RequestOK(req[w])

\* No call was answered, and no request was started, in the future.
TimesOK ==
    /\ \A i \in CallIds : call[i].answeredAt <= clock
    /\ \A w \in Workers : req[w].since <= clock

Basis == TypeOK /\ RequestsOK /\ TimesOK

-----------------------------------------------------------------------------
LEMMA NoCallType == NoCall \in Row /\ NoCall.answeredAt = -1
  BY DEF NoCall, Row, Times, NoTime

LEMMA IdleType == Idle \in Request /\ RequestOK(Idle) /\ Idle.since = 0
  BY NoCallType DEF Idle, Request, RequestOK

\* Expiry writes a terminal status and leaves the answer alone.
LEMMA ExpiredRow ==
    ASSUME NEW row \in Row, NEW now \in Nat
    PROVE  LET e == Expired(row, now) IN
           /\ e \in Row
           /\ e.status \in {"missed", "completed", "failed"}
           /\ e.answeredAt = row.answeredAt /\ e.device = row.device
           /\ e.endedAt = now
           /\ e.status = "missed" <=> row.status = "ringing"
           /\ e.status = "completed" <=> row.status = "active"
           /\ e.duration = IF row.status = "active" THEN MaximumDuration ELSE row.duration
  <1>1. MaximumDuration \in Nat
    BY CallAssumption
  <1>2. CASE row.status = "ringing"
    BY <1>1, <1>2 DEF Expired, Row, Times, Terminal
  <1>3. CASE row.status = "active"
    BY <1>1, <1>3 DEF Expired, Row, Times, Terminal
  <1>4. CASE row.status \notin {"ringing", "active"}
    BY <1>1, <1>4 DEF Expired, Row, Times, Terminal
  <1> QED
    BY <1>2, <1>3, <1>4

LEMMA InitBasis == Init => Basis
  <1> SUFFICES ASSUME Init PROVE Basis
    OBVIOUS
  <1> USE DEF Init
  <1>1. TypeOK
    BY NoCallType, IdleType DEF TypeOK, Steps
  <1>2. RequestsOK
    BY IdleType DEF RequestsOK
  <1>3. TimesOK
    BY IdleType DEF TimesOK, NoCall, NoTime
  <1> QED
    BY <1>1, <1>2, <1>3 DEF Basis

-----------------------------------------------------------------------------
(* What happens to the requests when one of them moves on.                   *)

\* One request changes to one that is in order, at the same time.
LEMMA OneRequest ==
    ASSUME Basis, NEW w \in Workers, NEW r \in Request, RequestOK(r),
           r.since <= clock, req' = [req EXCEPT ![w] = r]
    PROVE  /\ req' \in [Workers -> Request]
           /\ RequestsOK'
           /\ \A x \in Workers : req'[x].since <= clock
  BY DEF Basis, TypeOK, RequestsOK, TimesOK

LEMMA FinishedStep ==
    ASSUME Basis, NEW w \in Workers, Finished(w)
    PROVE  /\ req' \in [Workers -> Request]
           /\ RequestsOK'
           /\ \A x \in Workers : req'[x].since <= clock
  <1>1. Idle.since <= clock
    BY IdleType DEF Basis, TypeOK
  <1> QED
    BY <1>1, IdleType, OneRequest DEF Finished

LEMMA ToRelayStep ==
    ASSUME Basis, NEW w \in Workers, NEW op \in Ops \cup {"call.invite"},
           NEW i \in CallIds, req' = [req EXCEPT ![w] = Relaying(op, i)]
    PROVE  /\ req' \in [Workers -> Request]
           /\ RequestsOK'
           /\ \A x \in Workers : req'[x].since <= clock
  <1>1. Relaying(op, i) \in Request
    BY IdleType DEF Relaying, Request
  <1>2. RequestOK(Relaying(op, i)) /\ Relaying(op, i).since = 0
    BY IdleType DEF Relaying, Request, RequestOK
  <1>3. Relaying(op, i).since <= clock
    BY <1>2 DEF Basis, TypeOK
  <1> QED
    BY <1>1, <1>2, <1>3, OneRequest

LEMMA AwaitStep ==
    ASSUME Basis, NEW w \in Workers, NEW pc \in {"accepted", "lost"},
           req[w].pc = "apply", req[w].op = "call.accept", Await(w, pc)
    PROVE  /\ req' \in [Workers -> Request]
           /\ RequestsOK'
           /\ \A x \in Workers : req'[x].since <= clock
  <1>1. req[w] \in Request /\ RequestOK(req[w]) /\ clock \in Nat
    BY DEF Basis, RequestsOK, TypeOK
  <1>2. ASSUME NEW r \in Request, RequestOK(r), r.pc = "apply", r.op = "call.accept"
        PROVE  Awaiting(r, pc) \in Request /\ RequestOK(Awaiting(r, pc))
               /\ Awaiting(r, pc).since = 0
    <2>1. Awaiting(r, pc) \in Request
      BY NoCallType DEF Awaiting, Request
    <2>2. /\ Awaiting(r, pc).pc = pc /\ Awaiting(r, pc).op = r.op
          /\ Awaiting(r, pc).device = r.device /\ Awaiting(r, pc).id = r.id
          /\ Awaiting(r, pc).since = 0
      BY DEF Awaiting, Request
    <2> QED
      BY <1>2, <2>1, <2>2 DEF RequestOK
  <1>3. Awaiting(req[w], pc) \in Request /\ RequestOK(Awaiting(req[w], pc))
        /\ Awaiting(req[w], pc).since <= clock
    BY <1>1, <1>2
  <1>4. req' = [req EXCEPT ![w] = Awaiting(req[w], pc)]
    BY DEF Await
  <1> QED
    BY <1>3, <1>4, OneRequest

LEMMA ContinueStep ==
    ASSUME Basis, NEW w \in Workers, NEW pc \in {"reread", "apply"}, NEW row \in Row,
           req[w].pc \in {"expire", "reread"}, row.answeredAt <= clock,
           Continue(w, pc, row)
    PROVE  /\ req' \in [Workers -> Request]
           /\ RequestsOK'
           /\ \A x \in Workers : req'[x].since <= clock
  <1>1. req[w] \in Request /\ RequestOK(req[w]) /\ clock \in Nat
    BY DEF Basis, RequestsOK, TypeOK
  <1>2. ASSUME NEW r \in Request, RequestOK(r), r.pc \in {"expire", "reread"}
        PROVE  LET c == Continuing(r, pc, row, clock) IN
               c \in Request /\ RequestOK(c) /\ c.since = clock
    <2> DEFINE c == Continuing(r, pc, row, clock)
    <2>1. c \in Request
      BY <1>1 DEF Continuing, Request
    <2>2. /\ c.pc = pc /\ c.op = r.op /\ c.device = r.device /\ c.id = r.id
          /\ c.row = row /\ c.since = clock
      BY DEF Continuing, Request
    <2> QED
      BY <1>2, <2>1, <2>2 DEF RequestOK
  <1>3. LET c == Continuing(req[w], pc, row, clock) IN
        c \in Request /\ RequestOK(c) /\ c.since <= clock
    BY <1>1, <1>2
  <1>4. req' = [req EXCEPT ![w] = Continuing(req[w], pc, row, clock)]
    BY DEF Continue
  <1> QED
    BY <1>3, <1>4, OneRequest
-----------------------------------------------------------------------------
(* What the statements write into a row.                                     *)

LEMMA TakenRow ==
    ASSUME NEW row \in Row, NEW d \in Devices, NEW now \in Nat
    PROVE  LET t == Taken(row, d, now) IN
           /\ t \in Row
           /\ t.status = "accepted" /\ t.device = d
           /\ t.answeredAt = now /\ t.endedAt = row.endedAt
           /\ t.duration = row.duration
  BY DEF Taken, Row, Times, Live

LEMMA EndedRow ==
    ASSUME NEW row \in Row, NEW status \in Terminal, NEW now \in Nat, NEW duration \in Nat
    PROVE  LET e == Ended(row, status, now, duration) IN
           /\ e \in Row
           /\ e.status = status /\ e.device = row.device
           /\ e.answeredAt = row.answeredAt /\ e.endedAt = now
           /\ e.duration = duration
  BY DEF Ended, Row, Times

LEMMA AdvancedRow ==
    ASSUME NEW row \in Row, NEW to \in Live
    PROVE  LET a == Advanced(row, to) IN
           /\ a \in Row
           /\ a.status = to /\ a.device = row.device
           /\ a.answeredAt = row.answeredAt /\ a.endedAt = row.endedAt
           /\ a.duration = row.duration
  BY DEF Advanced, Row

LEMMA TalkTimeType ==
    ASSUME NEW row \in Row, NEW since \in Nat, row.answeredAt <= since,
           NEW now \in Nat, since <= now
    PROVE  TalkTime(row, now) \in Nat
  BY DEF TalkTime, Row, Times, NoTime

LEMMA OneRow ==
    ASSUME Basis, NEW i \in CallIds, NEW row \in Row, row.answeredAt <= clock,
           call' = [call EXCEPT ![i] = row]
    PROVE  /\ call' \in [CallIds -> Row]
           /\ \A j \in CallIds : call'[j].answeredAt <= clock
  BY DEF Basis, TypeOK, TimesOK

\* What a request that runs has in hand.
LEMMA Running ==
    ASSUME Basis, NEW w \in Workers, req[w].pc # "idle"
    PROVE  /\ req[w] \in Request /\ req[w].id \in CallIds
           /\ call[req[w].id] \in Row /\ req[w].row \in Row
           /\ req[w].since \in Nat /\ req[w].since <= clock /\ clock \in Nat
           /\ call[req[w].id].answeredAt <= clock
           /\ RequestOK(req[w])
           /\ \A now \in Stamps(req[w]) : now \in Nat /\ req[w].since <= now /\ now <= clock
  <1>1. req[w] \in Request /\ RequestOK(req[w]) /\ clock \in Nat /\ req[w].since <= clock
    BY DEF Basis, TypeOK, RequestsOK, TimesOK
  <1>2. req[w].id \in CallIds
    BY <1>1 DEF RequestOK
  <1>3. req[w].row \in Row /\ req[w].since \in Nat
    BY <1>1 DEF Request
  <1>4. call[req[w].id] \in Row /\ call[req[w].id].answeredAt <= clock
    BY <1>2 DEF Basis, TypeOK, TimesOK
  <1> QED
    BY <1>1, <1>2, <1>3, <1>4 DEF Stamps

-----------------------------------------------------------------------------
(* The basis is inductive.                                                   *)

LEMMA FinishBasis ==
    ASSUME Basis, NEW w \in Workers, NEW status \in Terminal, NEW allowed,
           req[w].pc = "apply", req[w].op \in Ops, Finish(w, allowed, status)
    PROVE  Basis'
  <1> DEFINE r == req[w]
  <1>0. /\ r.id \in CallIds /\ r.row \in Row /\ r.since \in Nat
        /\ call[r.id] \in Row /\ call[r.id].answeredAt <= clock
        /\ r.row.answeredAt <= r.since
        /\ \A now \in Stamps(r) : now \in Nat /\ r.since <= now
    BY Running DEF RequestOK
  <1>1. CASE call[r.id].status \in allowed
    <2>1. PICK now \in Stamps(r) :
            call' = [call EXCEPT ![r.id] =
                       Ended(call[r.id], status, now, TalkTime(r.row, now))]
      BY <1>1 DEF Finish
    <2>2. now \in Nat /\ TalkTime(r.row, now) \in Nat
      BY <1>0, TalkTimeType
    <2>3. call[r.id] \in Row
      BY <1>0
    <2>4. PICK t \in Nat, d \in Nat : call' = [call EXCEPT ![r.id] = Ended(call[r.id], status, t, d)]
      BY <2>1, <2>2
    <2>5. Ended(call[r.id], status, t, d) \in Row
      BY <2>3, EndedRow
    <2>6. Ended(call[r.id], status, t, d).answeredAt = call[r.id].answeredAt
      BY <2>3, EndedRow
    <2>7. PICK row \in Row :
            /\ row.answeredAt = call[r.id].answeredAt
            /\ call' = [call EXCEPT ![r.id] = row]
      BY <2>4, <2>5, <2>6
    <2>8. /\ call' \in [CallIds -> Row]
          /\ \A j \in CallIds : call'[j].answeredAt <= clock
      BY <1>0, <2>7, OneRow
    <2>9. req' = [req EXCEPT ![w] = Relaying(r.op, r.id)]
      BY <1>1 DEF Finish, ToRelay
    <2>10. /\ req' \in [Workers -> Request]
          /\ RequestsOK'
          /\ \A x \in Workers : req'[x].since <= clock
      BY <1>0, <2>9, ToRelayStep
    <2> QED
      BY <2>10, <2>8 DEF Finish, Basis, TypeOK, TimesOK
  <1>2. CASE call[r.id].status \notin allowed
    <2>1. Finished(w) /\ UNCHANGED <<call, clock, connected, replies, relayed>>
      BY <1>2 DEF Finish
    <2>2. /\ req' \in [Workers -> Request]
          /\ RequestsOK'
          /\ \A x \in Workers : req'[x].since <= clock
      BY <2>1, FinishedStep
    <2> QED
      BY <2>1, <2>2 DEF Basis, TypeOK, TimesOK
  <1> QED
    BY <1>1, <1>2

LEMMA AdvanceBasis ==
    ASSUME Basis, NEW w \in Workers, NEW from, NEW to \in Live,
           req[w].pc = "apply", req[w].op \in Ops, Advance(w, from, to)
    PROVE  Basis'
  <1> DEFINE r == req[w]
  <1>0. /\ r.id \in CallIds /\ call[r.id] \in Row /\ call[r.id].answeredAt <= clock
    BY Running
  <1>1. CASE call[r.id].status = from
    <2>1. call' = [call EXCEPT ![r.id] = Advanced(call[r.id], to)]
      BY <1>1 DEF Advance
    <2>2. PICK row \in Row :
            /\ row.answeredAt = call[r.id].answeredAt
            /\ call' = [call EXCEPT ![r.id] = row]
      BY <1>0, <2>1, AdvancedRow
    <2>3. /\ call' \in [CallIds -> Row]
          /\ \A j \in CallIds : call'[j].answeredAt <= clock
      BY <1>0, <2>2, OneRow
    <2>4. req' = [req EXCEPT ![w] = Relaying(r.op, r.id)]
      BY <1>1 DEF Advance, ToRelay
    <2>5. /\ req' \in [Workers -> Request]
          /\ RequestsOK'
          /\ \A x \in Workers : req'[x].since <= clock
      BY <1>0, <2>4, ToRelayStep
    <2>6. connected' \subseteq CallIds /\ UNCHANGED <<clock, replies, relayed>>
      BY <1>0, <1>1 DEF Advance, Basis, TypeOK
    <2> QED
      BY <2>3, <2>5, <2>6 DEF Basis, TypeOK, TimesOK
  <1>2. CASE call[r.id].status # from
    <2>1. Finished(w) /\ UNCHANGED <<call, clock, connected, replies, relayed>>
      BY <1>2 DEF Advance
    <2>2. /\ req' \in [Workers -> Request]
          /\ RequestsOK'
          /\ \A x \in Workers : req'[x].since <= clock
      BY <2>1, FinishedStep
    <2> QED
      BY <2>1, <2>2 DEF Basis, TypeOK, TimesOK
  <1> QED
    BY <1>1, <1>2

LEMMA TickBasis ==
    ASSUME Basis, Tick
    PROVE  Basis'
  <1>1. clock \in Nat /\ clock' = clock + 1 /\ UNCHANGED <<call, req, connected, replies, relayed>>
    BY DEF Tick, Basis, TypeOK
  <1>2. \A i \in CallIds : call[i].answeredAt \in Int /\ call[i].answeredAt <= clock
    <2>1. \A row \in Row : row.answeredAt \in Int
      BY DEF Row, Times, NoTime
    <2> QED
      BY <2>1 DEF Basis, TypeOK, TimesOK
  <1>3. \A w \in Workers : req[w].since \in Int /\ req[w].since <= clock
    BY DEF Basis, TypeOK, TimesOK, Request
  <1>4. TimesOK'
    BY <1>1, <1>2, <1>3 DEF TimesOK
  <1>5. TypeOK' /\ RequestsOK'
    BY <1>1 DEF Basis, TypeOK, RequestsOK
  <1> QED
    BY <1>4, <1>5 DEF Basis

LEMMA InviteBasis ==
    ASSUME Basis, NEW w \in Workers, NEW s \in Sessions, NEW i \in CallIds,
           NEW v \in Conversations, Invite(w, s, i, v)
    PROVE  Basis'
  <1>1. s[1] \in Users /\ Members[v] \subseteq Users /\ clock \in Nat
    BY CallAssumption DEF Basis, TypeOK
  <1>2. PICK callee \in Users : call' = [call EXCEPT ![i] = Ringing(v, s[1], callee, clock)]
    BY <1>1 DEF Invite
  <1>3. /\ req' = [req EXCEPT ![w] = Relaying("call.invite", i)]
        /\ UNCHANGED <<clock, connected, replies, relayed>>
    BY DEF Invite
  <1>4. /\ Ringing(v, s[1], callee, clock) \in Row
        /\ Ringing(v, s[1], callee, clock).answeredAt <= clock
    BY <1>1 DEF Ringing, Row, Times, NoTime, Live
  <1>5. /\ call' \in [CallIds -> Row]
        /\ \A j \in CallIds : call'[j].answeredAt <= clock
    BY <1>1, <1>2, <1>4, OneRow
  <1>6. /\ req' \in [Workers -> Request]
        /\ RequestsOK'
        /\ \A x \in Workers : req'[x].since <= clock
    BY <1>3, ToRelayStep
  <1> QED
    BY <1>3, <1>5, <1>6 DEF Basis, TypeOK, TimesOK

LEMMA LoadBasis ==
    ASSUME Basis, NEW w \in Workers, NEW s \in Sessions, NEW i \in CallIds,
           NEW op \in Events, Load(w, s, i, op)
    PROVE  Basis'
  <1> DEFINE r == [pc |-> IF Stale(call[i], clock) THEN "expire" ELSE "apply",
                   op |-> op, user |-> s[1], id |-> i, row |-> call[i],
                   device |-> IF op = "call.accept" THEN s[2] ELSE None,
                   since |-> clock]
  <1>1. req' = [req EXCEPT ![w] = r] /\ UNCHANGED <<call, clock, connected, replies, relayed>>
    BY DEF Load
  <1>2. /\ s[1] \in Users /\ s[2] \in Devices /\ op \in Ops
        /\ call[i] \in Row /\ clock \in Nat /\ call[i].answeredAt <= clock
    BY CallAssumption DEF Basis, TypeOK, TimesOK, Devices
  <1>3. r \in Request
    BY <1>2 DEF Request
  <1>4. Stale(call[i], clock) => call[i].status \in Live
    BY DEF Stale, Live
  <1>5. RequestOK(r) /\ r.since <= clock
    BY <1>2, <1>4 DEF RequestOK
  <1> HIDE DEF r
  <1>6. /\ req' \in [Workers -> Request]
        /\ RequestsOK'
        /\ \A x \in Workers : req'[x].since <= clock
    BY <1>1, <1>3, <1>5, OneRequest
  <1> QED
    BY <1>1, <1>6 DEF Basis, TypeOK, TimesOK

LEMMA ExpireBasis ==
    ASSUME Basis, NEW w \in Workers, Expire(w)
    PROVE  Basis'
  <1> DEFINE r == req[w]
             row == Expired(call[r.id], r.since)
  <1>1. r.pc = "expire" /\ UNCHANGED <<clock, connected, replies, relayed>>
    BY DEF Expire
  <1>2. /\ r.id \in CallIds /\ r.row \in Row /\ r.since \in Nat /\ r.since <= clock
        /\ call[r.id] \in Row /\ call[r.id].answeredAt <= clock /\ clock \in Nat
        /\ r.row.answeredAt <= r.since
    BY <1>1, Running DEF RequestOK
  <1>3. r.row.answeredAt <= clock
    BY <1>2 DEF Row, Times, NoTime
  <1>4. row \in Row /\ row.answeredAt = call[r.id].answeredAt
    BY <1>2, ExpiredRow
  <1>5. CASE call[r.id].status = r.row.status
    <2>1. call' = [call EXCEPT ![r.id] = row] /\ Continue(w, "apply", row)
      BY <1>5 DEF Expire
    <2> HIDE DEF row
    <2>2. /\ call' \in [CallIds -> Row]
          /\ \A j \in CallIds : call'[j].answeredAt <= clock
      BY <1>2, <1>4, <2>1, OneRow
    <2>3. /\ req' \in [Workers -> Request]
          /\ RequestsOK'
          /\ \A x \in Workers : req'[x].since <= clock
      BY <1>1, <1>2, <1>4, <2>1, ContinueStep
    <2> QED
      BY <1>1, <2>2, <2>3 DEF Basis, TypeOK, TimesOK
  <1>6. CASE call[r.id].status # r.row.status
    <2>1. UNCHANGED call /\ Continue(w, "reread", r.row)
      BY <1>6 DEF Expire
    <2>2. /\ req' \in [Workers -> Request]
          /\ RequestsOK'
          /\ \A x \in Workers : req'[x].since <= clock
      BY <1>1, <1>2, <1>3, <2>1, ContinueStep
    <2> QED
      BY <1>1, <2>1, <2>2 DEF Basis, TypeOK, TimesOK
  <1> QED
    BY <1>5, <1>6

LEMMA RereadBasis ==
    ASSUME Basis, NEW w \in Workers, Reread(w)
    PROVE  Basis'
  <1>1. /\ req[w].pc = "reread" /\ Continue(w, "apply", call[req[w].id])
        /\ UNCHANGED <<call, clock, connected, replies, relayed>>
    BY DEF Reread
  <1>2. call[req[w].id] \in Row /\ call[req[w].id].answeredAt <= clock
    BY <1>1, Running
  <1>3. /\ req' \in [Workers -> Request]
        /\ RequestsOK'
        /\ \A x \in Workers : req'[x].since <= clock
    BY <1>1, <1>2, ContinueStep
  <1> QED
    BY <1>1, <1>3 DEF Basis, TypeOK, TimesOK

LEMMA AcceptBasis ==
    ASSUME Basis, NEW w \in Workers, Accept(w)
    PROVE  Basis'
  <1> DEFINE r == req[w]
  <1>1. /\ r.pc = "apply" /\ r.op = "call.accept"
        /\ UNCHANGED <<clock, connected, replies, relayed>>
    BY DEF Accept
  <1>2. /\ r.id \in CallIds /\ call[r.id] \in Row /\ r.device \in Devices
        /\ \A now \in Stamps(r) : now \in Nat /\ now <= clock
    BY <1>1, Running DEF RequestOK
  <1>3. CASE call[r.id].status = "ringing"
    <2>1. PICK now \in Stamps(r) : call' = [call EXCEPT ![r.id] = Taken(call[r.id], r.device, now)]
      BY <1>3 DEF Accept
    <2>2. now \in Nat /\ now <= clock
      BY <1>2
    <2>3. Taken(call[r.id], r.device, now) \in Row
      BY <1>2, <2>2, TakenRow
    <2>4. Taken(call[r.id], r.device, now).answeredAt = now
      BY <1>2, <2>2, TakenRow
    <2>5. /\ call' \in [CallIds -> Row]
          /\ \A j \in CallIds : call'[j].answeredAt <= clock
      BY <1>2, <2>1, <2>2, <2>3, <2>4, OneRow
    <2>6. Await(w, "accepted")
      BY <1>3 DEF Accept
    <2>7. /\ req' \in [Workers -> Request]
          /\ RequestsOK'
          /\ \A x \in Workers : req'[x].since <= clock
      BY <1>1, <2>6, AwaitStep
    <2> QED
      BY <1>1, <2>5, <2>7 DEF Basis, TypeOK, TimesOK
  <1>4. CASE call[r.id].status # "ringing"
    <2>1. Await(w, "lost") /\ UNCHANGED call
      BY <1>4 DEF Accept
    <2>2. /\ req' \in [Workers -> Request]
          /\ RequestsOK'
          /\ \A x \in Workers : req'[x].since <= clock
      BY <1>1, <2>1, AwaitStep
    <2> QED
      BY <1>1, <2>1, <2>2 DEF Basis, TypeOK, TimesOK
  <1> QED
    BY <1>3, <1>4

\* The steps that write no row: replies, refusals, candidates and relaying.
LEMMA QuietBasis ==
    ASSUME Basis, NEW w \in Workers,
           Refuse(w) \/ AcceptWon(w) \/ AcceptLost(w) \/ Ice(w) \/ Relay(w)
    PROVE  Basis'
  <1>1. req[w].pc # "idle"
    BY DEF Refuse, AcceptWon, AcceptLost, Ice, Relay
  <1>2. req[w].id \in CallIds /\ RequestOK(req[w])
    BY <1>1, Running
  <1>3. UNCHANGED <<call, clock, connected>>
    BY DEF Refuse, AcceptWon, AcceptLost, Ice, Relay
  <1>4. Finished(w) \/ ToRelay(w)
    BY DEF Refuse, AcceptWon, AcceptLost, Ice, Relay
  <1>5. ToRelay(w) => req[w].op \in Ops \cup {"call.invite"}
    <2>1. CASE Refuse(w) \/ AcceptWon(w) \/ AcceptLost(w) \/ Ice(w)
      BY <1>2, <2>1 DEF Refuse, AcceptWon, AcceptLost, Ice, RequestOK, Ops
    <2>2. CASE Relay(w)
      BY <1>2, <2>2 DEF Relay, RequestOK
    <2> QED
      BY <2>1, <2>2
  <1>6. /\ req' \in [Workers -> Request]
        /\ RequestsOK'
        /\ \A x \in Workers : req'[x].since <= clock
    BY <1>2, <1>4, <1>5, FinishedStep, ToRelayStep DEF ToRelay
  <1>7. replies' \subseteq CallIds \X Devices \X {"ok", "conflict"}
    BY <1>2 DEF Refuse, AcceptWon, AcceptLost, Ice, Relay, Basis, TypeOK, RequestOK
  <1>8. relayed' \in [CallIds -> [Steps -> Nat]]
    <2>1. CASE Relay(w) /\ req[w].op # "call.ice"
      <3>1. req[w].op \in Steps
        BY <1>2, <2>1 DEF Relay, RequestOK, Steps
      <3>2. relayed' = [relayed EXCEPT ![req[w].id][req[w].op] = @ + 1]
        BY <2>1 DEF Relay
      <3> QED
        BY <1>2, <3>1, <3>2 DEF Basis, TypeOK
    <2>2. CASE ~(Relay(w) /\ req[w].op # "call.ice")
      BY <2>2 DEF Refuse, AcceptWon, AcceptLost, Ice, Relay, Basis, TypeOK
    <2> QED
      BY <2>1, <2>2
  <1> QED
    BY <1>3, <1>6, <1>7, <1>8 DEF Basis, TypeOK, TimesOK

LEMMA ReapBasis ==
    ASSUME Basis, NEW statuses, NEW now \in 0 .. clock, Reap(statuses, now)
    PROVE  Basis'
  <1> DEFINE due == {i \in CallIds : call[i].status \in statuses /\ Stale(call[i], now)}
  <1>1. /\ call' = [i \in CallIds |-> IF i \in due THEN Expired(call[i], now) ELSE call[i]]
        /\ UNCHANGED <<req, clock, connected, replies, relayed>>
    BY DEF Reap
  <1>2. now \in Nat
    BY DEF Basis, TypeOK
  <1>3. \A i \in CallIds : call[i] \in Row /\ call[i].answeredAt <= clock
    BY DEF Basis, TypeOK, TimesOK
  <1>4. ASSUME NEW i \in CallIds
        PROVE  Expired(call[i], now) \in Row /\ Expired(call[i], now).answeredAt <= clock
    <2>1. call[i] \in Row
      BY <1>3
    <2>2. Expired(call[i], now) \in Row /\ Expired(call[i], now).answeredAt = call[i].answeredAt
      BY <1>2, <2>1, ExpiredRow
    <2> QED
      BY <1>3, <2>2
  <1> HIDE DEF due
  <1>5. call' \in [CallIds -> Row] /\ \A i \in CallIds : call'[i].answeredAt <= clock
    BY <1>1, <1>3, <1>4
  <1> QED
    BY <1>1, <1>5 DEF Basis, TypeOK, RequestsOK, TimesOK

LEMMA NextBasis == Basis /\ [Next]_vars => Basis'
  <1> SUFFICES ASSUME Basis, [Next]_vars PROVE Basis'
    OBVIOUS
  <1>1. CASE Tick
    BY <1>1, TickBasis
  <1>2. ASSUME NEW w \in Workers, NEW s \in Sessions, NEW i \in CallIds,
               NEW v \in Conversations, Invite(w, s, i, v)
        PROVE  Basis'
    BY <1>2, InviteBasis
  <1>3. ASSUME NEW w \in Workers, NEW s \in Sessions, NEW i \in CallIds,
               NEW op \in Events, Load(w, s, i, op)
        PROVE  Basis'
    BY <1>3, LoadBasis
  <1>4. ASSUME NEW w \in Workers, Handle(w)
        PROVE  Basis'
    <2>1. CASE Expire(w)
      BY <2>1, ExpireBasis
    <2>2. CASE Reread(w)
      BY <2>2, RereadBasis
    <2>3. CASE Accept(w)
      BY <2>3, AcceptBasis
    <2>4. CASE Decline(w)
      BY <2>4, FinishBasis DEF Decline, Ops, Terminal
    <2>5. CASE Cancel(w)
      BY <2>5, FinishBasis DEF Cancel, Ops, Terminal
    <2>6. CASE End(w)
      BY <2>6, FinishBasis DEF End, Ops, Terminal
    <2>7. CASE Offer(w)
      BY <2>7, AdvanceBasis DEF Offer, Ops, Live
    <2>8. CASE Answer(w)
      BY <2>8, AdvanceBasis DEF Answer, Ops, Live
    <2>9. CASE Refuse(w) \/ AcceptWon(w) \/ AcceptLost(w) \/ Ice(w) \/ Relay(w)
      BY <2>9, QuietBasis
    <2> QED
      BY <1>4, <2>1, <2>2, <2>3, <2>4, <2>5, <2>6, <2>7, <2>8, <2>9 DEF Handle
  <1>5. CASE ReapRinging \/ ReapConnecting \/ ReapActive
    BY <1>5, ReapBasis DEF ReapRinging, ReapConnecting, ReapActive
  <1>6. CASE UNCHANGED vars
    BY <1>6 DEF vars, Basis, TypeOK, RequestsOK, TimesOK
  <1> QED
    BY <1>1, <1>2, <1>3, <1>4, <1>5, <1>6 DEF Next

\* The shape of the rows, requests and histories (ProcessEvent and the reaper
\* write nothing outside it), for all constants.
THEOREM TypeCorrect == Spec => []TypeOK
  <1>1. Spec => []Basis
    BY InitBasis, NextBasis, PTL DEF Spec
  <1>2. Basis => TypeOK
    BY DEF Basis
  <1> QED
    BY <1>1, <1>2, PTL

LEMMA BasisHolds == Spec => []Basis
  BY InitBasis, NextBasis, PTL DEF Spec

-----------------------------------------------------------------------------
(* What one step can do to a row, whoever takes it.                          *)

Starts(i) ==
    /\ call[i].status = "none"
    /\ \E v \in Conversations, a \in Users, b \in Users :
         call'[i] = Ringing(v, a, b, clock)

Takes(i) ==
    /\ call[i].status = "ringing"
    /\ \E d \in Devices, now \in Nat : call'[i] = Taken(call[i], d, now)

Advances(i, from, to) ==
    /\ call[i].status = from
    /\ call'[i] = Advanced(call[i], to)
    /\ to = "active" => i \in connected'

\* The talk time that a call ends with: an expiry charges the whole of the
\* maximum to a call that is overdue, as the row says or as the request that
\* writes loaded it; any other ending goes by the copy of the row it loaded.
Charged(i) ==
    \/ call'[i].duration = call[i].duration
    \/ /\ call[i].status = "active" /\ call'[i].duration = MaximumDuration
       /\ \/ Stale(call[i], call'[i].endedAt)
          \/ \E w \in Workers :
               /\ req[w].pc = "expire" /\ req[w].id = i
               /\ req[w].row.status = "active" /\ req[w].since = call'[i].endedAt
    \/ \E w \in Workers : /\ req[w].pc = "apply" /\ req[w].id = i
                          /\ call'[i].duration = TalkTime(req[w].row, call'[i].endedAt)

\* A call ends from a live status, keeps its answer and gets a fitting outcome.
Ends(i) ==
    /\ call[i].status \in Live
    /\ call'[i].status \in Terminal
    /\ call'[i].device = call[i].device
    /\ call'[i].answeredAt = call[i].answeredAt
    /\ call'[i].endedAt \in Nat
    /\ call'[i].status \in {"missed", "reject", "busy"} => call[i].status = "ringing"
    /\ call'[i].status \in {"completed", "failed"}
         => call[i].status \in {"accepted", "connecting", "active"}
    /\ call'[i].status = "completed"
         => \/ call[i].status = "active"
            \/ \E w \in Workers : /\ req[w].pc = "apply" /\ req[w].id = i
                                  /\ req[w].row.status = "active"
    /\ Charged(i)

Moves(i) ==
    \/ Starts(i)
    \/ Takes(i)
    \/ Advances(i, "accepted", "connecting")
    \/ Advances(i, "connecting", "active")

RowStep(i) == call'[i] = call[i] \/ Moves(i) \/ Ends(i)

\* A step ends some calls or moves one call on.
RowSteps ==
    \/ \A i \in CallIds : call'[i] = call[i] \/ Ends(i)
    \/ \E i \in CallIds : Moves(i) /\ \A j \in CallIds \ {i} : call'[j] = call[j]

LEMMA FinishRow ==
    ASSUME Basis, NEW w \in Workers, NEW status \in Terminal,
           NEW allowed \in SUBSET Live, req[w].pc = "apply", Finish(w, allowed, status),
           status \in {"missed", "reject", "busy"} => allowed = {"ringing"},
           status \in {"completed", "failed"} => "ringing" \notin allowed,
           status = "completed" => req[w].row.status = "active"
    PROVE  RowSteps
  <1> DEFINE r == req[w]
  <1>1. /\ r.id \in CallIds /\ r.row \in Row /\ r.since \in Nat
        /\ call[r.id] \in Row
        /\ r.row.answeredAt <= r.since
        /\ \A now \in Stamps(r) : now \in Nat /\ r.since <= now
    BY Running DEF RequestOK
  <1>2. CASE call[r.id].status \in allowed
    <2>1. PICK now \in Stamps(r) :
            call' = [call EXCEPT ![r.id] =
                       Ended(call[r.id], status, now, TalkTime(r.row, now))]
      BY <1>2 DEF Finish
    <2>2. now \in Nat /\ TalkTime(r.row, now) \in Nat
      BY <1>1, TalkTimeType
    <2>3. PICK t \in Nat, d \in Nat :
            /\ call' = [call EXCEPT ![r.id] = Ended(call[r.id], status, t, d)]
            /\ d = TalkTime(r.row, t)
      BY <2>1, <2>2
    <2>4. call'[r.id] = Ended(call[r.id], status, t, d)
      BY <1>1, <2>3 DEF Basis, TypeOK
    <2>5. /\ Ended(call[r.id], status, t, d).status = status
          /\ Ended(call[r.id], status, t, d).device = call[r.id].device
          /\ Ended(call[r.id], status, t, d).answeredAt = call[r.id].answeredAt
          /\ Ended(call[r.id], status, t, d).endedAt = t
          /\ Ended(call[r.id], status, t, d).duration = d
      <3>1. call[r.id] \in Row
        BY <1>1
      <3>2. Ended(call[r.id], status, t, d).status = status
        BY <3>1, EndedRow
      <3>3. Ended(call[r.id], status, t, d).device = call[r.id].device
        BY <3>1, EndedRow
      <3>4. Ended(call[r.id], status, t, d).answeredAt = call[r.id].answeredAt
        BY <3>1, EndedRow
      <3>5. Ended(call[r.id], status, t, d).endedAt = t
        BY <3>1, EndedRow
      <3>6. Ended(call[r.id], status, t, d).duration = d
        BY <3>1, EndedRow
      <3> QED
        BY <3>2, <3>3, <3>4, <3>5, <3>6
    <2>6. call[r.id].status \in Live
      BY <1>2
    <2>7. status \in {"completed", "failed"}
            => call[r.id].status \in {"accepted", "connecting", "active"}
      BY <1>2, <2>6 DEF Live
    <2>8. status \in {"missed", "reject", "busy"} => call[r.id].status = "ringing"
      BY <1>2
    <2>9. Charged(r.id)
      BY <2>3, <2>4, <2>5 DEF Charged
    <2>10. Ends(r.id)
      BY <2>4, <2>5, <2>6, <2>7, <2>8, <2>9 DEF Ends
    <2>11. \A i \in CallIds \ {r.id} : call'[i] = call[i]
      BY <2>3 DEF Basis, TypeOK
    <2> QED
      BY <2>10, <2>11 DEF RowSteps
  <1>3. CASE call[r.id].status \notin allowed
    BY <1>3 DEF Finish, RowSteps
  <1> QED
    BY <1>2, <1>3

LEMMA AdvanceRow ==
    ASSUME Basis, NEW w \in Workers, NEW from, NEW to, req[w].pc = "apply",
           Advance(w, from, to),
           \/ from = "accepted" /\ to = "connecting"
           \/ from = "connecting" /\ to = "active"
    PROVE  RowSteps
  <1> DEFINE r == req[w]
  <1>1. r.id \in CallIds
    BY Running
  <1>2. CASE call[r.id].status = from
    <2>1. call' = [call EXCEPT ![r.id] = Advanced(call[r.id], to)]
      BY <1>2 DEF Advance
    <2>2. to = "active" => r.id \in connected'
      BY <1>2 DEF Advance
    <2>3. call'[r.id] = Advanced(call[r.id], to) /\ \A i \in CallIds \ {r.id} : call'[i] = call[i]
      BY <1>1, <2>1 DEF Basis, TypeOK
    <2> QED
      BY <1>2, <2>2, <2>3 DEF Advances, Moves, RowSteps
  <1>3. CASE call[r.id].status # from
    BY <1>3 DEF Advance, RowSteps
  <1> QED
    BY <1>2, <1>3

\* Expiry, by a request or by the reaper, is an ending that fits.
LEMMA ExpiredEnds ==
    ASSUME NEW i \in CallIds, NEW now \in Nat, call[i] \in Row,
           call[i].status \in Live, call'[i] = Expired(call[i], now),
           \/ Stale(call[i], now)
           \/ \E w \in Workers : /\ req[w].pc = "expire" /\ req[w].id = i
                                 /\ req[w].row.status = call[i].status /\ req[w].since = now
    PROVE  Ends(i)
  <1>1. LET e == Expired(call[i], now) IN
        /\ e.status \in {"missed", "completed", "failed"}
        /\ e.answeredAt = call[i].answeredAt /\ e.device = call[i].device
        /\ e.endedAt = now
        /\ e.status = "missed" <=> call[i].status = "ringing"
        /\ e.status = "completed" <=> call[i].status = "active"
        /\ e.duration = IF call[i].status = "active" THEN MaximumDuration ELSE call[i].duration
    BY ExpiredRow
  <1>2. Charged(i)
    BY <1>1 DEF Charged
  <1> QED
    BY <1>1, <1>2 DEF Ends, Live, Terminal

LEMMA NextRows ==
    ASSUME Basis, [Next]_vars
    PROVE  RowSteps
  <1> USE DEF RowSteps
  <1>1. CASE Tick
    BY <1>1 DEF Tick
  <1>2. ASSUME NEW w \in Workers, NEW s \in Sessions, NEW i \in CallIds,
               NEW v \in Conversations, Invite(w, s, i, v)
        PROVE  RowSteps
    <2>1. s[1] \in Users /\ Members[v] \subseteq Users
      BY CallAssumption
    <2>2. PICK callee \in Users : call' = [call EXCEPT ![i] = Ringing(v, s[1], callee, clock)]
      BY <1>2, <2>1 DEF Invite
    <2>3. call[i].status = "none"
      BY <1>2 DEF Invite
    <2>4. call'[i] = Ringing(v, s[1], callee, clock)
      BY <2>2 DEF Basis, TypeOK
    <2>5. Starts(i)
      BY <2>1, <2>3, <2>4 DEF Starts
    <2>6. \A j \in CallIds \ {i} : call'[j] = call[j]
      BY <2>2 DEF Basis, TypeOK
    <2> QED
      BY <2>5, <2>6 DEF Moves
  <1>3. ASSUME NEW w \in Workers, NEW s \in Sessions, NEW i \in CallIds,
               NEW op \in Events, Load(w, s, i, op)
        PROVE  RowSteps
    BY <1>3 DEF Load
  <1>4. ASSUME NEW w \in Workers, Handle(w)
        PROVE  RowSteps
    <2> DEFINE r == req[w]
    <2>1. CASE Expire(w)
      <3>1. CASE call[r.id].status = r.row.status
        <4>1. r.pc = "expire" /\ call' = [call EXCEPT ![r.id] = Expired(call[r.id], r.since)]
          BY <2>1, <3>1 DEF Expire
        <4>2. r.id \in CallIds /\ call[r.id] \in Row /\ r.since \in Nat /\ r.row.status \in Live
          BY <4>1, Running DEF RequestOK
        <4>3. call'[r.id] = Expired(call[r.id], r.since)
              /\ \A j \in CallIds \ {r.id} : call'[j] = call[j]
          BY <4>1, <4>2 DEF Basis, TypeOK
        <4>4. Ends(r.id)
          BY <3>1, <4>1, <4>2, <4>3, ExpiredEnds
        <4> QED
          BY <4>3, <4>4
      <3>2. CASE call[r.id].status # r.row.status
        BY <2>1, <3>2 DEF Expire
      <3> QED
        BY <3>1, <3>2
    <2>2. CASE Accept(w)
      <3>1. CASE call[r.id].status = "ringing"
        <4>1. PICK now \in Stamps(r) : call' = [call EXCEPT ![r.id] = Taken(call[r.id], r.device, now)]
          BY <2>2, <3>1 DEF Accept
        <4>2. r.pc = "apply" /\ r.op = "call.accept"
          BY <2>2 DEF Accept
        <4>3. r.id \in CallIds /\ now \in Nat /\ r.device \in Devices
          BY <4>2, Running DEF RequestOK
        <4>4. call'[r.id] = Taken(call[r.id], r.device, now)
              /\ \A j \in CallIds \ {r.id} : call'[j] = call[j]
          BY <4>1, <4>3 DEF Basis, TypeOK
        <4>5. Takes(r.id)
          BY <3>1, <4>3, <4>4 DEF Takes
        <4> QED
          BY <4>3, <4>4, <4>5 DEF Moves
      <3>2. CASE call[r.id].status # "ringing"
        BY <2>2, <3>2 DEF Accept
      <3> QED
        BY <3>1, <3>2
    <2>3. CASE Decline(w)
      BY <2>3, FinishRow DEF Decline, Live, Terminal
    <2>4. CASE Cancel(w)
      BY <2>4, FinishRow DEF Cancel, Live, Terminal
    <2>5. CASE End(w)
      BY <2>5, FinishRow DEF End, Live, Terminal
    <2>6. CASE Offer(w)
      BY <2>6, AdvanceRow DEF Offer
    <2>7. CASE Answer(w)
      BY <2>7, AdvanceRow DEF Answer
    <2>8. CASE Reread(w) \/ Refuse(w) \/ AcceptWon(w) \/ AcceptLost(w) \/ Ice(w) \/ Relay(w)
      BY <2>8 DEF Reread, Refuse, AcceptWon, AcceptLost, Ice, Relay
    <2> QED
      BY <1>4, <2>1, <2>2, <2>3, <2>4, <2>5, <2>6, <2>7, <2>8 DEF Handle
  <1>5. ASSUME NEW statuses, NEW now \in 0 .. clock, Reap(statuses, now)
        PROVE  RowSteps
    <2>1. now \in Nat /\ \A j \in CallIds : call[j] \in Row
      BY DEF Basis, TypeOK
    <2>2. ASSUME NEW j \in CallIds
          PROVE  \/ call'[j] = call[j]
                 \/ Stale(call[j], now) /\ call'[j] = Expired(call[j], now)
      BY <1>5 DEF Reap
    <2>3. \A j \in CallIds : Stale(call[j], now) => call[j].status \in Live
      BY DEF Stale, Live
    <2> QED
      BY <2>1, <2>2, <2>3, ExpiredEnds
  <1>6. CASE ReapRinging \/ ReapConnecting \/ ReapActive
    BY <1>5, <1>6 DEF ReapRinging, ReapConnecting, ReapActive
  <1>7. CASE UNCHANGED vars
    BY <1>7 DEF vars
  <1> QED
    BY <1>1, <1>2, <1>3, <1>4, <1>6, <1>7 DEF Next


LEMMA NextRow ==
    ASSUME Basis, [Next]_vars
    PROVE  \A i \in CallIds : RowStep(i)
  BY NextRows DEF RowSteps, RowStep

-----------------------------------------------------------------------------
(* A row never contradicts itself.                                           *)

LEMMA InitOutcome == Init => OutcomeFitsAnswer
  <1>1. /\ NoCall.status = "none" /\ NoCall.device = None
        /\ NoCall.answeredAt = NoTime /\ NoCall.endedAt = NoTime
    BY DEF NoCall
  <1> QED
    BY <1>1 DEF Init, OutcomeFitsAnswer, Terminal

\* What OutcomeFitsAnswer says of one row.
Consistent(row) ==
    /\ (row.answeredAt = NoTime) <=> (row.device = None)
    /\ row.status \in {"accepted", "connecting", "active", "completed", "failed"}
          => row.answeredAt # NoTime
    /\ row.status \in {"none", "ringing", "missed", "reject", "busy"}
          => row.answeredAt = NoTime
    /\ (row.endedAt # NoTime) <=> (row.status \in Terminal)

LEMMA RowStepConsistent ==
    ASSUME Basis, NEW i \in CallIds, RowStep(i), Consistent(call[i])
    PROVE  Consistent(call'[i])
  <1>1. call[i] \in Row /\ clock \in Nat
    BY DEF Basis, TypeOK
  <1>2. \A d \in Devices : d # None
    BY CallAssumption
  <1>3. \A now \in Nat : now # NoTime
    BY DEF NoTime
  <1>4. CASE call'[i] = call[i]
    BY <1>4
  <1>5. CASE Starts(i)
    BY <1>5 DEF Starts, Ringing, Consistent, Terminal
  <1>6. CASE Takes(i)
    <2>1. PICK d \in Devices, now \in Nat : call'[i] = Taken(call[i], d, now)
      BY <1>6 DEF Takes
    <2>2. /\ call'[i].status = "accepted" /\ call'[i].device = d
          /\ call'[i].answeredAt = now /\ call'[i].endedAt = call[i].endedAt
      BY <1>1, <2>1, TakenRow
    <2>3. call[i].status = "ringing"
      BY <1>6 DEF Takes
    <2> QED
      BY <1>2, <1>3, <2>2, <2>3 DEF Consistent, Terminal
  <1>7. ASSUME NEW from \in {"accepted", "connecting"}, NEW to \in {"connecting", "active"},
               Advances(i, from, to)
        PROVE  Consistent(call'[i])
    <2>1. call'[i] = Advanced(call[i], to) /\ to \in Live /\ call[i].status = from
      BY <1>7 DEF Advances, Live
    <2>2. /\ call'[i].status = to /\ call'[i].device = call[i].device
          /\ call'[i].answeredAt = call[i].answeredAt /\ call'[i].endedAt = call[i].endedAt
      BY <1>1, <2>1, AdvancedRow
    <2> QED
      BY <2>1, <2>2 DEF Consistent, Terminal
  <1>8. CASE Ends(i)
    BY <1>3, <1>8 DEF Ends, Consistent, Terminal, Live
  <1> QED
    BY <1>4, <1>5, <1>6, <1>7, <1>8 DEF RowStep, Moves

\* Whatever requests and reapers race for a row, its outcome, its device and
\* its times fit together (call_service.go: every UPDATE is conditional).
THEOREM OutcomesFit == Spec => []OutcomeFitsAnswer
  <1>1. OutcomeFitsAnswer <=> \A i \in CallIds : Consistent(call[i])
    BY DEF OutcomeFitsAnswer, Consistent
  <1>2. OutcomeFitsAnswer' <=> \A i \in CallIds : Consistent(call'[i])
    BY DEF OutcomeFitsAnswer, Consistent
  <1>3. OutcomeFitsAnswer /\ Basis /\ [Next]_vars => OutcomeFitsAnswer'
    BY <1>1, <1>2, NextRow, RowStepConsistent
  <1> QED
    BY <1>3, InitOutcome, BasisHolds, PTL DEF Spec

-----------------------------------------------------------------------------
(* An ended call is left alone.                                              *)

\* The action of EndedIsFinal.
LEMMA TerminalRowStays ==
    ASSUME Basis, [Next]_vars, NEW i \in CallIds, call[i].status \in Terminal
    PROVE  call'[i] = call[i]
  <1>1. RowStep(i)
    BY NextRow
  <1>2. call[i].status \notin Live \cup {"none"}
    BY DEF Terminal, Live
  <1> QED
    BY <1>1, <1>2 DEF RowStep, Moves, Starts, Takes, Advances, Ends, Live

\* No request, retry or reaper changes the row of an ended call, not even its
\* time of end or its duration (the WHERE clauses of every UPDATE).
THEOREM EndedStaysEnded == Spec => EndedIsFinal
  <1>1. Basis /\ [Next]_vars
          => [\A i \in CallIds : call[i].status \in Terminal => call'[i] = call[i]]_vars
    BY TerminalRowStays
  <1> QED
    BY <1>1, BasisHolds, PTL DEF Spec, EndedIsFinal

-----------------------------------------------------------------------------
(* One device takes the call.                                                *)

\* A request that won the accept still has to answer the device that won.
WinnersOK ==
    \A w \in Workers : req[w].pc = "accepted" => call[req[w].id].device = req[w].device

DeviceInv == OneDeviceTakesTheCall /\ WinnersOK

LEMMA DeviceStays ==
    ASSUME Basis, OutcomeFitsAnswer, [Next]_vars,
           NEW i \in CallIds, call[i].device \in Devices
    PROVE  call'[i].device = call[i].device
  <1>1. call[i] \in Row /\ call[i].device # None
    BY CallAssumption DEF Basis, TypeOK
  <1>2. call[i].status \notin {"none", "ringing"}
    BY <1>1 DEF OutcomeFitsAnswer
  <1>3. RowStep(i)
    BY NextRow
  <1>4. ASSUME NEW from, NEW to \in Live, Advances(i, from, to)
        PROVE  call'[i].device = call[i].device
    BY <1>1, <1>4, AdvancedRow DEF Advances
  <1> QED
    BY <1>2, <1>3, <1>4 DEF RowStep, Moves, Starts, Takes, Ends, Live

\* Only the request whose UPDATE found the call ringing becomes a winner.
LEMMA NewWinner ==
    ASSUME Basis, [Next]_vars, NEW w \in Workers, req'[w].pc = "accepted"
    PROVE  \/ req'[w] = req[w]
           \/ /\ req'[w].id \in CallIds /\ req'[w].device \in Devices
              /\ call'[req'[w].id].device = req'[w].device
  <1> USE DEF Basis, TypeOK
  <1>1. Idle.pc = "idle" /\ \A op, i : Relaying(op, i).pc = "relay"
    BY DEF Idle, Relaying
  <1>2. CASE UNCHANGED req
    BY <1>2
  <1>3. ASSUME NEW x \in Workers, NEW r, req' = [req EXCEPT ![x] = r], r.pc # "accepted"
        PROVE  req'[w] = req[w]
    BY <1>3
  <1>4. ASSUME NEW x \in Workers, NEW pc \in {"reread", "apply"}, NEW row,
               Continue(x, pc, row)
        PROVE  req'[w] = req[w]
    <2>1. req[x] \in Request
      OBVIOUS
    <2>2. \A r \in Request : Continuing(r, pc, row, clock).pc = pc
      BY DEF Continuing, Request
    <2> QED
      BY <1>4, <2>1, <2>2 DEF Continue
  <1>5. ASSUME NEW x \in Workers, Accept(x)
        PROVE  \/ req'[w] = req[w]
               \/ /\ req'[w].id \in CallIds /\ req'[w].device \in Devices
                  /\ call'[req'[w].id].device = req'[w].device
    <2> DEFINE r == req[x]
    <2>1. r.pc = "apply" /\ r.op = "call.accept"
      BY <1>5 DEF Accept
    <2>2. r \in Request /\ r.id \in CallIds /\ call[r.id] \in Row /\ r.device \in Devices
      BY <2>1, Running DEF RequestOK
    <2>3. ASSUME NEW q \in Request, NEW pc
          PROVE  /\ Awaiting(q, pc).pc = pc /\ Awaiting(q, pc).id = q.id
                 /\ Awaiting(q, pc).device = q.device
      BY DEF Awaiting, Request
    <2>4. CASE call[r.id].status = "ringing"
      <3>1. PICK now \in Stamps(r) : call' = [call EXCEPT ![r.id] = Taken(call[r.id], r.device, now)]
        BY <1>5, <2>4 DEF Accept
      <3>2. now \in Nat
        BY <2>1, Running
      <3>3. call'[r.id].device = r.device
        BY <2>2, <3>1, <3>2, TakenRow
      <3>4. req' = [req EXCEPT ![x] = Awaiting(r, "accepted")]
        BY <1>5, <2>4 DEF Accept, Await
      <3>5. Awaiting(r, "accepted").id = r.id /\ Awaiting(r, "accepted").device = r.device
        BY <2>2, <2>3
      <3> QED
        BY <2>2, <3>3, <3>4, <3>5
    <2>5. CASE call[r.id].status # "ringing"
      <3>1. req' = [req EXCEPT ![x] = Awaiting(r, "lost")]
        BY <1>5, <2>5 DEF Accept, Await
      <3>2. Awaiting(r, "lost").pc = "lost"
        BY <2>2, <2>3
      <3> QED
        BY <1>3, <3>1, <3>2
    <2> QED
      BY <2>4, <2>5
  <1>6. ASSUME NEW x \in Workers, Finished(x) \/ ToRelay(x)
        PROVE  req'[w] = req[w]
    BY <1>1, <1>3, <1>6 DEF Finished, ToRelay
  <1>7. ASSUME NEW x \in Workers, NEW s \in Sessions, NEW i \in CallIds,
               \/ \E v \in Conversations : Invite(x, s, i, v)
               \/ \E op \in Events : Load(x, s, i, op)
        PROVE  req'[w] = req[w]
    BY <1>1, <1>7 DEF Invite, Load
  <1>8. ASSUME NEW x \in Workers, Handle(x)
        PROVE  \/ Accept(x) \/ Finished(x) \/ ToRelay(x)
               \/ \E pc \in {"reread", "apply"} : \E row : Continue(x, pc, row)
    <2>1. CASE Decline(x) \/ Cancel(x) \/ End(x)
      BY <2>1 DEF Decline, Cancel, End, Finish
    <2>2. CASE Offer(x) \/ Answer(x)
      BY <2>2 DEF Offer, Answer, Advance
    <2>3. CASE Expire(x) \/ Reread(x)
      BY <2>3 DEF Expire, Reread
    <2>4. CASE Refuse(x) \/ AcceptWon(x) \/ AcceptLost(x) \/ Ice(x) \/ Relay(x)
      BY <2>4 DEF Refuse, AcceptWon, AcceptLost, Ice, Relay
    <2> QED
      BY <1>8, <2>1, <2>2, <2>3, <2>4 DEF Handle
  <1>9. CASE Tick \/ ReapRinging \/ ReapConnecting \/ ReapActive \/ UNCHANGED vars
    BY <1>2, <1>9 DEF Tick, ReapRinging, ReapConnecting, ReapActive, Reap, vars
  <1> QED
    BY <1>4, <1>5, <1>6, <1>7, <1>8, <1>9 DEF Next

\* Only the stored device is told that it has the call.
LEMMA NewReply ==
    ASSUME Basis, WinnersOK, [Next]_vars, NEW i \in CallIds, NEW d \in Devices,
           <<i, d, "ok">> \in replies', <<i, d, "ok">> \notin replies
    PROVE  call[i].device = d
  <1>1. PICK w \in Workers : AcceptWon(w) \/ AcceptLost(w)
    <2>1. CASE Tick \/ ReapRinging \/ ReapConnecting \/ ReapActive \/ UNCHANGED vars
      BY <2>1 DEF Tick, ReapRinging, ReapConnecting, ReapActive, Reap, vars
    <2>2. ASSUME NEW w \in Workers, NEW s \in Sessions, NEW j \in CallIds,
                 \/ \E v \in Conversations : Invite(w, s, j, v)
                 \/ \E op \in Events : Load(w, s, j, op)
          PROVE  FALSE
      BY <2>2 DEF Invite, Load
    <2>3. ASSUME NEW w \in Workers, Handle(w), ~AcceptWon(w), ~AcceptLost(w)
          PROVE  FALSE
      <3>1. UNCHANGED replies
        BY <2>3 DEF Handle, Expire, Reread, Refuse, Accept, Decline, Cancel, End,
                    Finish, Offer, Answer, Advance, Ice, Relay
      <3> QED
        BY <3>1
    <2> QED
      BY <2>1, <2>2, <2>3 DEF Next
  <1>2. CASE AcceptWon(w)
    BY <1>2 DEF AcceptWon, WinnersOK
  <1>3. CASE AcceptLost(w)
    BY <1>3 DEF AcceptLost
  <1> QED
    BY <1>1, <1>2, <1>3

LEMMA DeviceStep ==
    ASSUME Basis, OutcomeFitsAnswer, DeviceInv, [Next]_vars
    PROVE  DeviceInv'
  <1>1. ASSUME NEW i \in CallIds, NEW d \in Devices, <<i, d, "ok">> \in replies'
        PROVE  call'[i].device = d
    <2>1. call[i].device = d
      BY <1>1, NewReply DEF DeviceInv, OneDeviceTakesTheCall
    <2> QED
      BY <2>1, DeviceStays
  <1>2. ASSUME NEW w \in Workers, req'[w].pc = "accepted"
        PROVE  call'[req'[w].id].device = req'[w].device
    <2>1. CASE req'[w] = req[w]
      <3>1. req[w].pc = "accepted" /\ call[req[w].id].device = req[w].device
        BY <1>2, <2>1 DEF DeviceInv, WinnersOK
      <3>2. req[w].id \in CallIds /\ req[w].device \in Devices
        BY <3>1, Running DEF RequestOK
      <3> QED
        BY <2>1, <3>1, <3>2, DeviceStays
    <2> QED
      BY <1>2, <2>1, NewWinner
  <1> QED
    BY <1>1, <1>2 DEF DeviceInv, OneDeviceTakesTheCall, WinnersOK

\* However many devices accept and retry, the only one that is told it has the
\* call is the one the row names (call.accept: WHERE status = 'ringing').
THEOREM OneDevice == Spec => []OneDeviceTakesTheCall
  <1>1. Init => DeviceInv
    <2>1. Idle.pc = "idle"
      BY DEF Idle
    <2> QED
      BY <2>1 DEF Init, DeviceInv, OneDeviceTakesTheCall, WinnersOK
  <1>2. Basis /\ OutcomeFitsAnswer /\ DeviceInv /\ [Next]_vars => DeviceInv'
    BY DeviceStep
  <1>3. DeviceInv => OneDeviceTakesTheCall
    BY DEF DeviceInv
  <1> QED
    BY <1>1, <1>2, <1>3, BasisHolds, OutcomesFit, PTL DEF Spec

-----------------------------------------------------------------------------
(* A completed call was connected.                                           *)

\* A row, stored or copied, that says the call is or was connected.
WasConnected(row) == row.status \in {"active", "completed"}

\* The rows say so of connected calls only, and so do the copies that the
\* requests loaded earlier and still decide by.
ConnectedInv ==
    /\ \A i \in CallIds : WasConnected(call[i]) => i \in connected
    /\ \A w \in Workers : (req[w].pc # "idle" /\ WasConnected(req[w].row))
                            => req[w].id \in connected

LEMMA ConnectedGrows ==
    ASSUME [Next]_vars
    PROVE  connected \subseteq connected'
  <1>1. ASSUME NEW w \in Workers, Handle(w)
        PROVE  connected \subseteq connected'
    BY <1>1 DEF Handle, Expire, Reread, Refuse, Accept, AcceptWon, AcceptLost, Decline,
                Cancel, End, Finish, Offer, Answer, Advance, Ice, Relay
  <1> QED
    BY <1>1 DEF Next, Tick, Invite, Load, ReapRinging, ReapConnecting, ReapActive, Reap, vars

\* A request's new copy is blank, the copy it had, or the row as it is now.
LEMMA CopyStep ==
    ASSUME Basis, [Next]_vars, NEW w \in Workers, req'[w].pc # "idle"
    PROVE  \/ req'[w].row = NoCall
           \/ req[w].pc # "idle" /\ req'[w].row = req[w].row /\ req'[w].id = req[w].id
           \/ req'[w].id \in CallIds /\ req'[w].row \in {call[req'[w].id], call'[req'[w].id]}
  <1> DEFINE Goal == \/ req'[w].row = NoCall
                     \/ req[w].pc # "idle" /\ req'[w].row = req[w].row /\ req'[w].id = req[w].id
                     \/ /\ req'[w].id \in CallIds
                        /\ req'[w].row \in {call[req'[w].id], call'[req'[w].id]}
  <1> USE DEF Basis, TypeOK
  <1>1. Idle.row = NoCall /\ \A op, i : Relaying(op, i).row = NoCall
    BY DEF Idle, Relaying
  <1>2. CASE UNCHANGED req
    BY <1>2
  <1>3. ASSUME NEW x \in Workers, Finished(x) \/ ToRelay(x)
        PROVE  Goal
    BY <1>1, <1>3 DEF Finished, ToRelay
  <1>4. ASSUME NEW x \in Workers, NEW pc, Await(x, pc)
        PROVE  Goal
    <2>1. req[x] \in Request /\ \A r \in Request : Awaiting(r, pc).row = NoCall
      BY DEF Awaiting, Request
    <2> QED
      BY <1>4, <2>1 DEF Await
  <1>5. ASSUME NEW x \in Workers, NEW pc, NEW row, Continue(x, pc, row),
               req[x].pc # "idle",
               row = req[x].row \/ row \in {call[req[x].id], call'[req[x].id]}
        PROVE  Goal
    <2>1. /\ req[x] \in Request /\ req[x].id \in CallIds
          /\ \A r \in Request : /\ Continuing(r, pc, row, clock).row = row
                                /\ Continuing(r, pc, row, clock).id = r.id
      BY <1>5, Running DEF Continuing, Request
    <2> QED
      BY <1>5, <2>1 DEF Continue
  <1>6. ASSUME NEW x \in Workers, NEW s \in Sessions, NEW i \in CallIds,
               \/ \E v \in Conversations : Invite(x, s, i, v)
               \/ \E op \in Events : Load(x, s, i, op)
        PROVE  Goal
    BY <1>1, <1>6 DEF Invite, Load
  <1>7. ASSUME NEW x \in Workers, Handle(x)
        PROVE  Goal
    <2>1. CASE Decline(x) \/ Cancel(x) \/ End(x)
      BY <1>3, <2>1 DEF Decline, Cancel, End, Finish
    <2>2. CASE Offer(x) \/ Answer(x)
      BY <1>3, <2>2 DEF Offer, Answer, Advance
    <2>3. CASE Accept(x)
      BY <1>4, <2>3 DEF Accept
    <2>4. CASE Expire(x)
      <3>1. req[x].pc = "expire" /\ req[x].id \in CallIds
        BY <2>4, Running DEF Expire
      <3> QED
        BY <1>5, <2>4, <3>1 DEF Expire
    <2>5. CASE Reread(x)
      BY <1>5, <2>5 DEF Reread
    <2>6. CASE Refuse(x) \/ AcceptWon(x) \/ AcceptLost(x) \/ Ice(x) \/ Relay(x)
      BY <1>3, <2>6 DEF Refuse, AcceptWon, AcceptLost, Ice, Relay
    <2> QED
      BY <1>7, <2>1, <2>2, <2>3, <2>4, <2>5, <2>6 DEF Handle
  <1>8. CASE Tick \/ ReapRinging \/ ReapConnecting \/ ReapActive \/ UNCHANGED vars
    BY <1>2, <1>8 DEF Tick, ReapRinging, ReapConnecting, ReapActive, Reap, vars
  <1> QED
    BY <1>6, <1>7, <1>8 DEF Next

\* A row gets to say so by an answer, or it ends as it was.
LEMMA NewlyConnected ==
    ASSUME Basis, ConnectedInv, [Next]_vars, NEW i \in CallIds, WasConnected(call'[i])
    PROVE  i \in connected'
  <1>1. call[i] \in Row
    BY DEF Basis, TypeOK
  <1>2. i \in connected => i \in connected'
    BY ConnectedGrows
  <1>3. CASE call'[i] = call[i]
    BY <1>2, <1>3 DEF ConnectedInv
  <1>4. CASE Moves(i)
    <2>1. \A v, a, b : ~WasConnected(Ringing(v, a, b, clock))
      BY DEF WasConnected, Ringing
    <2>2. \A d \in Devices, now \in Nat : ~WasConnected(Taken(call[i], d, now))
      BY <1>1, TakenRow DEF WasConnected
    <2>3. ~WasConnected(Advanced(call[i], "connecting"))
      BY <1>1, AdvancedRow DEF WasConnected, Live
    <2> QED
      BY <1>4, <2>1, <2>2, <2>3 DEF Moves, Starts, Takes, Advances
  <1>5. CASE Ends(i)
    <2>1. call'[i].status = "completed"
      BY <1>5 DEF Ends, WasConnected, Terminal
    <2>2. CASE call[i].status = "active"
      BY <1>2, <2>2 DEF ConnectedInv, WasConnected
    <2>3. ASSUME NEW w \in Workers, req[w].pc = "apply", req[w].id = i,
                 req[w].row.status = "active"
          PROVE  i \in connected
      BY <2>3 DEF ConnectedInv, WasConnected
    <2> QED
      BY <1>2, <1>5, <2>1, <2>2, <2>3 DEF Ends
  <1> QED
    BY <1>3, <1>4, <1>5, NextRow DEF RowStep

LEMMA ConnectedStep ==
    ASSUME Basis, ConnectedInv, [Next]_vars
    PROVE  ConnectedInv'
  <1>1. \A i \in CallIds : WasConnected(call'[i]) => i \in connected'
    BY NewlyConnected
  <1>2. ASSUME NEW w \in Workers, req'[w].pc # "idle", WasConnected(req'[w].row)
        PROVE  req'[w].id \in connected'
    <2>1. connected \subseteq connected'
      BY ConnectedGrows
    <2>2. CASE req'[w].row = NoCall
      BY <1>2, <2>2 DEF WasConnected, NoCall
    <2>3. CASE req[w].pc # "idle" /\ req'[w].row = req[w].row /\ req'[w].id = req[w].id
      BY <1>2, <2>1, <2>3 DEF ConnectedInv
    <2>4. CASE req'[w].id \in CallIds /\ req'[w].row = call[req'[w].id]
      BY <1>2, <2>1, <2>4 DEF ConnectedInv
    <2>5. CASE req'[w].id \in CallIds /\ req'[w].row = call'[req'[w].id]
      BY <1>1, <1>2, <2>5
    <2> QED
      BY <1>2, <2>2, <2>3, <2>4, <2>5, CopyStep
  <1>3. \A i \in CallIds : WasConnected(call[i])' => i \in connected'
    BY <1>1 DEF WasConnected
  <1>4. \A w \in Workers : (req'[w].pc # "idle" /\ WasConnected(req[w].row)')
                             => req'[w].id \in connected'
    BY <1>2 DEF WasConnected
  <1> QED
    BY <1>3, <1>4 DEF ConnectedInv

\* History never shows a completed call that was not connected, however stale
\* the copy of the row that the hang-up or the timeout decides by
\* (call.end, expireCallIfStale and the reaper).
THEOREM CompletedCallsConnected == Spec => []CompletedWasConnected
  <1>1. Init => ConnectedInv
    <2>1. NoCall.status = "none" /\ Idle.pc = "idle"
      BY DEF NoCall, Idle
    <2> QED
      BY <2>1 DEF Init, ConnectedInv, WasConnected
  <1>2. Basis /\ ConnectedInv /\ [Next]_vars => ConnectedInv'
    BY ConnectedStep
  <1>3. ConnectedInv => CompletedWasConnected
    BY DEF ConnectedInv, WasConnected, CompletedWasConnected
  <1> QED
    BY <1>1, <1>2, <1>3, BasisHolds, PTL DEF Spec

-----------------------------------------------------------------------------
(* The talk time is not overstated.                                          *)

\* A copy of a row that knows when the call was answered knows it rightly.
CopiesAgree ==
    \A w \in Workers :
      req[w].pc # "idle" => req[w].row.answeredAt \in {NoTime, call[req[w].id].answeredAt}

\* No talk time is charged before the call ends.
LiveIsUncharged ==
    \A i \in CallIds : call[i].status \in Live \cup {"none"} => call[i].duration = 0

TalkInv == CopiesAgree /\ LiveIsUncharged /\ TalkTimeIsNotOverstated

LEMMA AnswerStays ==
    ASSUME Basis, OutcomeFitsAnswer, [Next]_vars,
           NEW i \in CallIds, call[i].answeredAt # NoTime
    PROVE  call'[i].answeredAt = call[i].answeredAt
  <1>1. call[i] \in Row
    BY DEF Basis, TypeOK
  <1>2. call[i].status \notin {"none", "ringing"}
    BY DEF OutcomeFitsAnswer
  <1>3. RowStep(i)
    BY NextRow
  <1>4. ASSUME NEW from, NEW to \in Live, Advances(i, from, to)
        PROVE  call'[i].answeredAt = call[i].answeredAt
    BY <1>1, <1>4, AdvancedRow DEF Advances
  <1> QED
    BY <1>2, <1>3, <1>4 DEF RowStep, Moves, Starts, Takes, Ends, Live

LEMMA CopiesStep ==
    ASSUME Basis, OutcomeFitsAnswer, CopiesAgree, [Next]_vars
    PROVE  CopiesAgree'
  <1> SUFFICES ASSUME NEW w \in Workers, req'[w].pc # "idle", req'[w].row.answeredAt # NoTime
               PROVE  req'[w].row.answeredAt = call'[req'[w].id].answeredAt
    BY DEF CopiesAgree
  <1>1. req'[w].row # NoCall
    BY NoCallType DEF NoTime
  <1>2. CASE req[w].pc # "idle" /\ req'[w].row = req[w].row /\ req'[w].id = req[w].id
    <2>1. req[w].id \in CallIds
      BY <1>2, Running
    <2>2. req[w].row.answeredAt = call[req[w].id].answeredAt
      BY <1>2 DEF CopiesAgree
    <2> QED
      BY <1>2, <2>1, <2>2, AnswerStays
  <1>3. CASE req'[w].id \in CallIds /\ req'[w].row \in {call[req'[w].id], call'[req'[w].id]}
    BY <1>3, AnswerStays
  <1> QED
    BY <1>1, <1>2, <1>3, CopyStep

\* What one row says of the talk time after a step.
LEMMA TalkRow ==
    ASSUME Basis, OutcomeFitsAnswer, TalkInv, [Next]_vars, NEW i \in CallIds
    PROVE  /\ call'[i].status \in Live \cup {"none"} => call'[i].duration = 0
           /\ call'[i].duration > 0 =>
                /\ call'[i].answeredAt # NoTime
                /\ call'[i].duration <= call'[i].endedAt - call'[i].answeredAt
  <1>1. call[i] \in Row
    BY DEF Basis, TypeOK
  <1>2. CASE call'[i] = call[i]
    BY <1>2 DEF TalkInv, LiveIsUncharged, TalkTimeIsNotOverstated
  <1>3. CASE Moves(i)
    <2>1. call[i].status \in Live \cup {"none"}
      BY <1>3 DEF Moves, Starts, Takes, Advances, Live
    <2>2. call[i].duration = 0
      BY <2>1 DEF TalkInv, LiveIsUncharged
    <2>3. \A v, a, b : Ringing(v, a, b, clock).duration = 0
      BY DEF Ringing
    <2>4. \A d \in Devices, now \in Nat : Taken(call[i], d, now).duration = call[i].duration
      BY <1>1, TakenRow
    <2>5. \A to \in Live : Advanced(call[i], to).duration = call[i].duration
      BY <1>1, AdvancedRow
    <2>6. call'[i].duration = 0
      BY <1>3, <2>2, <2>3, <2>4, <2>5 DEF Moves, Starts, Takes, Advances, Live
    <2> QED
      BY <2>6
  <1>4. CASE Ends(i)
    <2>1. /\ call[i].duration = 0 /\ call'[i].status \notin Live \cup {"none"}
          /\ call'[i].answeredAt = call[i].answeredAt /\ call'[i].endedAt \in Nat
          /\ Charged(i)
      BY <1>4 DEF Ends, TalkInv, LiveIsUncharged, Live, Terminal
    <2>2. call[i].answeredAt \in Int /\ MaximumDuration \in Nat
      BY <1>1, CallAssumption DEF Row, Times, NoTime
    <2>3. \A w \in Workers : (req[w].pc # "idle" /\ req[w].id = i) =>
                               req[w].row.answeredAt \in {NoTime, call[i].answeredAt}
      BY DEF TalkInv, CopiesAgree
    <2>4. CASE /\ call[i].status = "active" /\ call'[i].duration = MaximumDuration
               /\ Stale(call[i], call'[i].endedAt)
      BY <2>1, <2>2, <2>4 DEF Stale, Limit
    <2>5. ASSUME NEW w \in Workers, call'[i].duration = MaximumDuration,
                 req[w].pc = "expire", req[w].id = i,
                 req[w].row.status = "active", req[w].since = call'[i].endedAt
          PROVE  /\ call[i].answeredAt # NoTime
                 /\ call'[i].duration <= call'[i].endedAt - call[i].answeredAt
      <3>1. Stale(req[w].row, req[w].since)
        BY <2>5, Running DEF RequestOK
      <3>2. /\ req[w].row.answeredAt # NoTime
            /\ req[w].row.answeredAt < call'[i].endedAt - MaximumDuration
        BY <2>5, <3>1 DEF Stale, Limit
      <3>3. req[w].row.answeredAt = call[i].answeredAt
        BY <2>3, <2>5, <3>2
      <3> QED
        BY <2>1, <2>2, <2>5, <3>2, <3>3
    <2>6. ASSUME NEW w \in Workers, req[w].pc = "apply", req[w].id = i,
                 call'[i].duration = TalkTime(req[w].row, call'[i].endedAt)
          PROVE  \/ call'[i].duration = 0
                 \/ /\ call[i].answeredAt # NoTime
                    /\ call'[i].duration = call'[i].endedAt - call[i].answeredAt
      BY <2>3, <2>6 DEF TalkTime
    <2> QED
      BY <2>1, <2>2, <2>4, <2>5, <2>6 DEF Charged
  <1> QED
    BY <1>2, <1>3, <1>4, NextRow DEF RowStep

\* The time recorded for a call is at most the time from its answer to its end,
\* although a hang-up computes it from the row it loaded and a timeout charges
\* the maximum: the copies know the answer rightly or not at all, and a timeout
\* comes late enough (finish, expireCallIfStale and the reaper).
THEOREM TalkTimeRight == Spec => []TalkTimeIsNotOverstated
  <1>1. Init => TalkInv
    <2>1. NoCall.duration = 0 /\ Idle.pc = "idle"
      BY DEF NoCall, Idle
    <2> QED
      BY <2>1 DEF Init, TalkInv, CopiesAgree, LiveIsUncharged, TalkTimeIsNotOverstated
  <1>2. Basis /\ OutcomeFitsAnswer /\ TalkInv /\ [Next]_vars => TalkInv'
    BY CopiesStep, TalkRow DEF TalkInv, LiveIsUncharged, TalkTimeIsNotOverstated
  <1>3. TalkInv => TalkTimeIsNotOverstated
    BY DEF TalkInv
  <1> QED
    BY <1>1, <1>2, <1>3, BasisHolds, OutcomesFit, PTL DEF Spec

-----------------------------------------------------------------------------
(* Each step is relayed once.                                                *)

\* The request r has made step e of call i and has yet to relay it.
Pending(r, i, e) == r.pc \in {"accepted", "relay"} /\ r.id = i /\ r.op = e

\* A row of this status shows that step e was made, or never will be.
Made(status, e) ==
    \/ e = "call.invite" /\ status # "none"
    \/ e = "call.accept" /\ status \notin {"none", "ringing"}
    \/ e = "call.offer"  /\ status \notin {"none", "ringing", "accepted"}
    \/ e = "call.answer" /\ status \notin {"none", "ringing", "accepted", "connecting"}
    \/ e \in EndOps /\ status \in Terminal

\* Step e of call i was relayed or is about to be.
Claimed(i, e) == relayed[i][e] # 0 \/ \E w \in Workers : Pending(req[w], i, e)

PendingIsUnique ==
    \A w \in Workers, i \in CallIds, e \in Steps :
      Pending(req[w], i, e) =>
        /\ relayed[i][e] = 0
        /\ \A x \in Workers : Pending(req[x], i, e) => x = w

ClaimedIsMade == \A i \in CallIds, e \in Steps : Claimed(i, e) => Made(call[i].status, e)

OneEnding == \A i \in CallIds : \A e, f \in EndOps : Claimed(i, e) /\ Claimed(i, f) => e = f

RelayInv ==
    /\ \A i \in CallIds, e \in Steps : relayed[i][e] <= 1
    /\ PendingIsUnique /\ ClaimedIsMade /\ OneEnding

LEMMA MadeStays ==
    ASSUME Basis, [Next]_vars, NEW i \in CallIds, NEW e, Made(call[i].status, e)
    PROVE  Made(call'[i].status, e)
  <1>1. call[i] \in Row /\ RowStep(i)
    BY NextRow DEF Basis, TypeOK
  <1>2. CASE Starts(i)
    BY <1>2 DEF Starts, Made, EndOps, Terminal
  <1>3. CASE Takes(i)
    <2>1. call'[i].status = "accepted" /\ call[i].status = "ringing"
      BY <1>1, <1>3, TakenRow DEF Takes
    <2> QED
      BY <2>1 DEF Made, EndOps, Terminal
  <1>4. ASSUME NEW from \in {"accepted", "connecting"}, NEW to \in {"connecting", "active"},
               Advances(i, from, to), from # to
        PROVE  Made(call'[i].status, e)
    <2>1. call[i].status = from /\ call'[i].status = to
      BY <1>1, <1>4, AdvancedRow DEF Advances, Live
    <2> QED
      BY <1>4, <2>1 DEF Made, EndOps, Terminal
  <1>5. CASE Ends(i)
    BY <1>5 DEF Ends, Made, Terminal, Live
  <1> QED
    BY <1>1, <1>2, <1>3, <1>4, <1>5 DEF RowStep, Moves

\* A step leaves what is pending and what was relayed alone, ...
StaysPending ==
    /\ relayed' = relayed
    /\ \A w \in Workers, i \in CallIds, e \in Steps : Pending(req'[w], i, e) => Pending(req[w], i, e)

\* ... or makes step e of call i, which was not made before, ...
Makes(w, i, e) ==
    /\ relayed' = relayed
    /\ ~Made(call[i].status, e) /\ Made(call'[i].status, e)
    /\ \A x \in Workers, j \in CallIds, f \in Steps :
         Pending(req'[x], j, f) => Pending(req[x], j, f) \/ (x = w /\ j = i /\ f = e)

\* ... or relays it.
Sends(w, i, e) ==
    /\ Pending(req[w], i, e)
    /\ relayed' = [relayed EXCEPT ![i][e] = @ + 1]
    /\ \A x \in Workers, j \in CallIds, f \in Steps :
         Pending(req'[x], j, f) => Pending(req[x], j, f) /\ x # w

RelayStep ==
    \/ StaysPending
    \/ \E w \in Workers, i \in CallIds, e \in Steps : Makes(w, i, e) \/ Sends(w, i, e)

\* Requests that become pending through one new request r of worker w.
LEMMA NewPending ==
    ASSUME Basis, NEW w \in Workers, NEW r, req' = [req EXCEPT ![w] = r],
           NEW x \in Workers, NEW j, NEW f, Pending(req'[x], j, f)
    PROVE  Pending(req[x], j, f) \/ (x = w /\ Pending(r, j, f))
  BY DEF Basis, TypeOK

LEMMA Finishing ==
    ASSUME Basis, NEW w \in Workers, Finished(w), NEW x \in Workers, NEW j, NEW f,
           Pending(req'[x], j, f)
    PROVE  Pending(req[x], j, f) /\ x # w
  <1>1. ~Pending(Idle, j, f)
    BY DEF Pending, Idle
  <1> QED
    BY <1>1 DEF Finished, Basis, TypeOK

LEMMA FinishRelays ==
    ASSUME Basis, NEW w \in Workers, NEW status \in Terminal,
           NEW allowed \in SUBSET Live, req[w].pc = "apply", req[w].op \in EndOps,
           Finish(w, allowed, status)
    PROVE  RelayStep
  <1> DEFINE r == req[w]
  <1>1. r.id \in CallIds /\ call[r.id] \in Row /\ r.op \in Steps
    BY Running DEF EndOps, Steps, Ops
  <1>2. relayed' = relayed
    BY DEF Finish
  <1>3. CASE call[r.id].status \in allowed
    <2>1. req' = [req EXCEPT ![w] = Relaying(r.op, r.id)]
      BY <1>3 DEF Finish, ToRelay
    <2>2. \A j, f : Pending(Relaying(r.op, r.id), j, f) => j = r.id /\ f = r.op
      BY DEF Pending, Relaying, Idle
    <2>3. PICK now \in Stamps(r) :
            call' = [call EXCEPT ![r.id] = Ended(call[r.id], status, now, TalkTime(r.row, now))]
      BY <1>3 DEF Finish
    <2>4. call'[r.id].status = status
      BY <1>1, <2>3 DEF Ended, Row, Basis, TypeOK
    <2>5. Made(call'[r.id].status, r.op) /\ ~Made(call[r.id].status, r.op)
      BY <1>3, <2>4 DEF Made, EndOps, Live, Terminal
    <2>6. Makes(w, r.id, r.op)
      BY <1>2, <2>1, <2>2, <2>5, NewPending DEF Makes
    <2> QED
      BY <1>1, <2>6 DEF RelayStep
  <1>4. CASE call[r.id].status \notin allowed
    <2>1. Finished(w)
      BY <1>4 DEF Finish
    <2> QED
      BY <1>2, <2>1, Finishing DEF RelayStep, StaysPending
  <1> QED
    BY <1>3, <1>4

LEMMA AdvanceRelays ==
    ASSUME Basis, NEW w \in Workers, NEW from, NEW to, req[w].pc = "apply",
           Advance(w, from, to),
           \/ from = "accepted" /\ to = "connecting" /\ req[w].op = "call.offer"
           \/ from = "connecting" /\ to = "active" /\ req[w].op = "call.answer"
    PROVE  RelayStep
  <1> DEFINE r == req[w]
  <1>1. r.id \in CallIds /\ call[r.id] \in Row /\ r.op \in Steps
    BY Running DEF Steps, Ops
  <1>2. relayed' = relayed
    BY DEF Advance
  <1>3. CASE call[r.id].status = from
    <2>1. req' = [req EXCEPT ![w] = Relaying(r.op, r.id)]
      BY <1>3 DEF Advance, ToRelay
    <2>2. \A j, f : Pending(Relaying(r.op, r.id), j, f) => j = r.id /\ f = r.op
      BY DEF Pending, Relaying, Idle
    <2>3. call'[r.id].status = to
      BY <1>1, <1>3 DEF Advance, Advanced, Row, Basis, TypeOK
    <2>4. Made(call'[r.id].status, r.op) /\ ~Made(call[r.id].status, r.op)
      BY <1>3, <2>3 DEF Made, EndOps, Terminal
    <2>5. Makes(w, r.id, r.op)
      BY <1>2, <2>1, <2>2, <2>4, NewPending DEF Makes
    <2> QED
      BY <1>1, <2>5 DEF RelayStep
  <1>4. CASE call[r.id].status # from
    <2>1. Finished(w)
      BY <1>4 DEF Advance
    <2> QED
      BY <1>2, <2>1, Finishing DEF RelayStep, StaysPending
  <1> QED
    BY <1>3, <1>4

LEMMA AcceptRelays == ASSUME Basis, NEW w \in Workers, Accept(w) PROVE RelayStep
  <1> DEFINE r == req[w]
  <1>1. r.pc = "apply" /\ r.op = "call.accept" /\ relayed' = relayed
    BY DEF Accept
  <1>2. r \in Request /\ r.id \in CallIds /\ call[r.id] \in Row /\ r.op \in Steps
    BY <1>1, Running DEF Steps, Ops
  <1>3. ASSUME NEW pc
        PROVE  /\ Awaiting(r, pc).pc = pc
               /\ Awaiting(r, pc).id = r.id /\ Awaiting(r, pc).op = r.op
    BY <1>2 DEF Awaiting, Request
  <1>4. CASE call[r.id].status = "ringing"
    <2>1. PICK now \in Stamps(r) : call' = [call EXCEPT ![r.id] = Taken(call[r.id], r.device, now)]
      BY <1>4 DEF Accept
    <2>2. req' = [req EXCEPT ![w] = Awaiting(r, "accepted")]
      BY <1>4 DEF Accept, Await
    <2>3. call'[r.id].status = "accepted"
      BY <1>2, <2>1 DEF Taken, Row, Basis, TypeOK
    <2>4. Made(call'[r.id].status, r.op) /\ ~Made(call[r.id].status, r.op)
      BY <1>1, <1>4, <2>3 DEF Made, EndOps, Terminal
    <2>5. \A j, f : Pending(Awaiting(r, "accepted"), j, f) => j = r.id /\ f = r.op
      BY <1>3 DEF Pending
    <2>6. Makes(w, r.id, r.op)
      BY <1>1, <2>2, <2>4, <2>5, NewPending DEF Makes
    <2> QED
      BY <1>2, <2>6 DEF RelayStep
  <1>5. CASE call[r.id].status # "ringing"
    <2>1. req' = [req EXCEPT ![w] = Awaiting(r, "lost")]
      BY <1>5 DEF Accept, Await
    <2>2. \A j, f : ~Pending(Awaiting(r, "lost"), j, f)
      BY <1>3 DEF Pending
    <2> QED
      BY <1>1, <2>1, <2>2, NewPending DEF RelayStep, StaysPending
  <1> QED
    BY <1>4, <1>5

LEMMA InviteRelays ==
    ASSUME Basis, NEW w \in Workers, NEW s \in Sessions, NEW i \in CallIds,
           NEW v \in Conversations, Invite(w, s, i, v)
    PROVE  RelayStep
  <1>1. PICK callee : call' = [call EXCEPT ![i] = Ringing(v, s[1], callee, clock)]
    BY DEF Invite
  <1>2. /\ call[i].status = "none" /\ relayed' = relayed
        /\ req' = [req EXCEPT ![w] = Relaying("call.invite", i)]
    BY DEF Invite
  <1>3. call'[i].status = "ringing"
    BY <1>1 DEF Ringing, Basis, TypeOK
  <1>4. Made(call'[i].status, "call.invite") /\ ~Made(call[i].status, "call.invite")
    BY <1>2, <1>3 DEF Made, EndOps
  <1>5. \A j, f : Pending(Relaying("call.invite", i), j, f) => j = i /\ f = "call.invite"
    BY DEF Pending, Relaying, Idle
  <1>6. Makes(w, i, "call.invite")
    BY <1>2, <1>4, <1>5, NewPending DEF Makes
  <1> QED
    BY <1>6 DEF RelayStep, Steps

LEMMA RelayRelays == ASSUME Basis, NEW w \in Workers, Relay(w) PROVE RelayStep
  <1> DEFINE r == req[w]
  <1>1. /\ r.pc = "relay" /\ Finished(w)
        /\ relayed' = IF r.op = "call.ice" THEN relayed
                      ELSE [relayed EXCEPT ![r.id][r.op] = @ + 1]
    BY DEF Relay
  <1>2. r.id \in CallIds /\ (r.op # "call.ice" => r.op \in Steps)
    BY <1>1, Running DEF RequestOK, Steps
  <1>3. CASE r.op = "call.ice"
    BY <1>1, <1>3, Finishing DEF RelayStep, StaysPending
  <1>4. CASE r.op # "call.ice"
    <2>1. Pending(r, r.id, r.op)
      BY <1>1 DEF Pending
    <2>2. Sends(w, r.id, r.op)
      BY <1>1, <1>4, <2>1, Finishing DEF Sends
    <2> QED
      BY <1>2, <1>4, <2>2 DEF RelayStep
  <1> QED
    BY <1>3, <1>4

\* The other steps of a request leave nothing new to relay, candidates apart.
LEMMA QuietRelays ==
    ASSUME Basis, NEW w \in Workers,
           \/ Expire(w) \/ Reread(w) \/ Refuse(w) \/ AcceptWon(w) \/ AcceptLost(w) \/ Ice(w)
    PROVE  RelayStep
  <1> DEFINE r == req[w]
  <1>1. r \in Request /\ RequestOK(r) /\ relayed' = relayed
    <2>1. r.pc # "idle" /\ relayed' = relayed
      BY DEF Expire, Reread, Refuse, AcceptWon, AcceptLost, Ice
    <2> QED
      BY <2>1, Running
  <1>2. CASE Finished(w)
    BY <1>1, <1>2, Finishing DEF RelayStep, StaysPending
  <1>3. CASE ToRelay(w)
    <2>1. req' = [req EXCEPT ![w] = Relaying(r.op, r.id)]
      BY <1>3 DEF ToRelay
    <2>2. \A j, f : Pending(Relaying(r.op, r.id), j, f) => j = r.id /\ f = r.op
      BY DEF Pending, Relaying, Idle
    <2>3. AcceptWon(w) \/ Ice(w) \/ Finished(w)
      <3>1. ASSUME NEW pc, NEW row, Continue(w, pc, row), pc \in {"apply", "reread"}
            PROVE  FALSE
        <4>1. Continuing(r, pc, row, clock).pc = pc /\ Relaying(r.op, r.id).pc = "relay"
          BY <1>1 DEF Continuing, Request, Relaying, Idle
        <4> QED
          BY <2>1, <3>1, <4>1 DEF Continue, Basis, TypeOK
      <3> QED
        BY <3>1 DEF Expire, Reread, Refuse, AcceptLost
    <2>4. CASE AcceptWon(w)
      <3>1. Pending(r, r.id, r.op)
        BY <2>4 DEF AcceptWon, Pending
      <3> QED
        BY <1>1, <2>1, <2>2, <3>1, NewPending DEF RelayStep, StaysPending
    <2>5. CASE Ice(w)
      <3>1. r.op \notin Steps
        BY <2>5 DEF Ice, Steps, Ops
      <3> QED
        BY <1>1, <2>1, <2>2, <3>1, NewPending DEF RelayStep, StaysPending
    <2> QED
      BY <1>2, <2>3, <2>4, <2>5
  <1>4. ASSUME NEW pc \in {"apply", "reread"}, NEW row, Continue(w, pc, row)
        PROVE  RelayStep
    <2>1. req' = [req EXCEPT ![w] = Continuing(r, pc, row, clock)]
      BY <1>4 DEF Continue
    <2>2. \A j, f : ~Pending(Continuing(r, pc, row, clock), j, f)
      BY <1>1 DEF Pending, Continuing, Request
    <2> QED
      BY <1>1, <2>1, <2>2, NewPending DEF RelayStep, StaysPending
  <1> QED
    BY <1>2, <1>3, <1>4 DEF Expire, Reread, Refuse, AcceptWon, AcceptLost, Ice

LEMMA NextRelays == ASSUME Basis, [Next]_vars PROVE RelayStep
  <1>1. CASE Tick \/ ReapRinging \/ ReapConnecting \/ ReapActive \/ UNCHANGED vars
    BY <1>1 DEF Tick, ReapRinging, ReapConnecting, ReapActive, Reap, vars, RelayStep, StaysPending
  <1>2. ASSUME NEW w \in Workers, NEW s \in Sessions, NEW i \in CallIds, NEW op \in Events,
               Load(w, s, i, op)
        PROVE  RelayStep
    <2> DEFINE r == [pc |-> IF Stale(call[i], clock) THEN "expire" ELSE "apply",
                     op |-> op, user |-> s[1], id |-> i, row |-> call[i],
                     device |-> IF op = "call.accept" THEN s[2] ELSE None,
                     since |-> clock]
    <2>1. req' = [req EXCEPT ![w] = r] /\ relayed' = relayed
      BY <1>2 DEF Load
    <2>2. \A j, f : ~Pending(r, j, f)
      BY DEF Pending
    <2> HIDE DEF r
    <2> QED
      BY <2>1, <2>2, NewPending DEF RelayStep, StaysPending
  <1>3. ASSUME NEW w \in Workers, Handle(w)
        PROVE  RelayStep
    <2>1. CASE Decline(w)
      BY <2>1, FinishRelays DEF Decline, Live, Terminal, EndOps
    <2>2. CASE Cancel(w)
      BY <2>2, FinishRelays DEF Cancel, Live, Terminal, EndOps
    <2>3. CASE End(w)
      BY <2>3, FinishRelays DEF End, Live, Terminal, EndOps
    <2>4. CASE Offer(w)
      BY <2>4, AdvanceRelays DEF Offer
    <2>5. CASE Answer(w)
      BY <2>5, AdvanceRelays DEF Answer
    <2> QED
      BY <1>3, <2>1, <2>2, <2>3, <2>4, <2>5, AcceptRelays, QuietRelays, RelayRelays DEF Handle
  <1> QED
    BY <1>1, <1>2, <1>3, InviteRelays DEF Next

LEMMA RelayInvStep == ASSUME Basis, RelayInv, [Next]_vars PROVE RelayInv'
  <1> USE DEF RelayInv
  <1>0. \A i \in CallIds, e \in Steps : Made(call[i].status, e) => Made(call'[i].status, e)
    BY MadeStays
  <1>1. EndOps \subseteq Steps
    BY DEF EndOps, Steps, Ops
  <1>2. CASE StaysPending
    <2>1. \A i \in CallIds, e \in Steps : Claimed(i, e)' => Claimed(i, e)
      BY <1>2 DEF StaysPending, Claimed
    <2>2. PendingIsUnique'
      BY <1>2 DEF StaysPending, PendingIsUnique
    <2>3. ClaimedIsMade'
      BY <1>0, <2>1 DEF ClaimedIsMade
    <2>4. OneEnding'
      BY <1>1, <2>1 DEF OneEnding
    <2> QED
      BY <1>2, <2>2, <2>3, <2>4 DEF StaysPending
  <1>3. ASSUME NEW w \in Workers, NEW i \in CallIds, NEW e \in Steps, Makes(w, i, e)
        PROVE  RelayInv'
    <2>1. ~Claimed(i, e) /\ (e \in EndOps => \A f \in EndOps : ~Claimed(i, f))
      <3>1. ~Made(call[i].status, e)
        BY <1>3 DEF Makes
      <3>2. ASSUME e \in EndOps, NEW f \in EndOps
            PROVE  ~Made(call[i].status, f)
        BY <3>1, <3>2 DEF Made, EndOps
      <3> QED
        BY <1>1, <3>1, <3>2 DEF ClaimedIsMade
    <2>2. \A j \in CallIds, f \in Steps : Claimed(j, f)' => Claimed(j, f) \/ (j = i /\ f = e)
      BY <1>3 DEF Makes, Claimed
    <2>3. PendingIsUnique'
      BY <1>3, <2>1 DEF Makes, PendingIsUnique, Claimed
    <2>4. ClaimedIsMade'
      BY <1>0, <1>3, <2>2 DEF Makes, ClaimedIsMade
    <2>5. OneEnding'
      BY <1>1, <2>1, <2>2 DEF OneEnding
    <2> QED
      BY <1>3, <2>3, <2>4, <2>5 DEF Makes
  <1>4. ASSUME NEW w \in Workers, NEW i \in CallIds, NEW e \in Steps, Sends(w, i, e)
        PROVE  RelayInv'
    <2>1. /\ relayed[i][e] = 0
          /\ \A x \in Workers : Pending(req[x], i, e) => x = w
      BY <1>4 DEF Sends, PendingIsUnique
    <2>2. relayed \in [CallIds -> [Steps -> Nat]]
      BY DEF Basis, TypeOK
    <2>3. \A j \in CallIds, f \in Steps :
            relayed'[j][f] = IF j = i /\ f = e THEN 1 ELSE relayed[j][f]
      BY <1>4, <2>1, <2>2 DEF Sends
    <2>4. \A j \in CallIds, f \in Steps : Claimed(j, f)' => Claimed(j, f)
      BY <1>4, <2>3 DEF Sends, Claimed
    <2>5. PendingIsUnique'
      BY <1>4, <2>1, <2>3 DEF Sends, PendingIsUnique
    <2>6. ClaimedIsMade'
      BY <1>0, <2>4 DEF ClaimedIsMade
    <2>7. OneEnding'
      BY <1>1, <2>4 DEF OneEnding
    <2> QED
      BY <2>3, <2>5, <2>6, <2>7
  <1> QED
    BY <1>2, <1>3, <1>4, NextRelays DEF RelayStep

\* However many requests race, each step of a call is sent to the devices once,
\* and of several endings one: only the request whose UPDATE made the step goes
\* on to relay it (relayCallEvent).
THEOREM RelayedOnce == Spec => []EachStepIsRelayedOnce
  <1>1. Init => RelayInv
    <2> SUFFICES ASSUME Init PROVE RelayInv
      OBVIOUS
    <2>1. /\ \A i \in CallIds, e \in Steps : relayed[i][e] = 0
          /\ \A w \in Workers : \A i, e : ~Pending(req[w], i, e)
      BY DEF Init, Pending, Idle
    <2>2. EndOps \subseteq Steps
      BY DEF EndOps, Steps, Ops
    <2> QED
      BY <2>1, <2>2 DEF RelayInv, PendingIsUnique, ClaimedIsMade, OneEnding, Claimed
  <1>2. Basis /\ RelayInv /\ [Next]_vars => RelayInv'
    BY RelayInvStep
  <1>3. Basis /\ RelayInv => EachStepIsRelayedOnce
    <2> SUFFICES ASSUME Basis, RelayInv, NEW i \in CallIds
                 PROVE  /\ \A e \in Steps : relayed[i][e] <= 1
                        /\ \A e, f \in EndOps : relayed[i][e] + relayed[i][f] = 2 => e = f
      BY DEF EachStepIsRelayedOnce
    <2>1. EndOps \subseteq Steps
      BY DEF EndOps, Steps, Ops
    <2>2. \A e \in Steps : relayed[i][e] \in Nat /\ relayed[i][e] <= 1
      BY DEF Basis, TypeOK, RelayInv
    <2> QED
      BY <2>1, <2>2 DEF RelayInv, OneEnding, Claimed
  <1> QED
    BY <1>1, <1>2, <1>3, BasisHolds, PTL DEF Spec

-----------------------------------------------------------------------------
(* The rows implement CallLifecycle.                                         *)

Outcome(i) == IF call[i].status \in Terminal THEN <<call[i].status, call[i].duration>> ELSE None

MappedPhase   == [i \in CallIds |-> Phase(call[i].status)]
MappedHolder  == [i \in CallIds |-> call[i].device]
MappedOutcome == [i \in CallIds |-> Outcome(i)]

Mapped == <<MappedPhase, MappedHolder, MappedOutcome>>

LEMMA Phases ==
    /\ Phase("none") = "none" /\ Phase("ringing") = "ringing"
    /\ Phase("accepted") = "taken" /\ Phase("connecting") = "taken"
    /\ Phase("active") = "connected"
    /\ \A t \in Terminal : Phase(t) = "over"
  BY DEF Phase, Terminal

LEMMA InitRefines == Init => Lifecycle!Init
  <1>1. NoCall.status = "none" /\ NoCall.device = None
    BY DEF NoCall
  <1> QED
    BY <1>1, Phases DEF Init, Lifecycle!Init, Terminal

\* Calls that end, one by a request or several by the reaper.
LEMMA EndsRefine ==
    ASSUME Basis, Basis', \A i \in CallIds : call'[i] = call[i] \/ Ends(i)
    PROVE  (\E ended \in SUBSET CallIds : Lifecycle!End(ended)) \/ UNCHANGED Mapped
  <1>0. PICK ended \in SUBSET CallIds : \A i \in CallIds : i \in ended <=> Ends(i)
    <2>1. {i \in CallIds : Ends(i)} \in SUBSET CallIds
      OBVIOUS
    <2> QED
      BY <2>1
  <1>1. CASE ended = {}
    <2>1. \A i \in CallIds : call'[i] = call[i]
      BY <1>0, <1>1
    <2> QED
      BY <2>1 DEF Mapped, MappedPhase, MappedHolder, MappedOutcome, Outcome
  <1>2. CASE ended # {}
    <2>1. \A i \in CallIds \ ended : call'[i] = call[i]
      BY <1>0
    <2>2. \A i \in CallIds : call'[i].device = call[i].device
      BY <1>0, <2>1 DEF Ends
    <2>3. \A i \in ended : /\ call[i].status \in Live
                           /\ Phase(call[i].status) \in {"ringing", "taken", "connected"}
      BY <1>0, Phases DEF Ends, Live
    <2>4. \A i \in ended : call'[i].status \in Terminal /\ Phase(call'[i].status) = "over"
      BY <1>0, Phases DEF Ends
    <2>5. \A i \in CallIds : call'[i].duration \in Nat
      BY DEF Basis, TypeOK, Row
    <2>6. Lifecycle!End(ended)
      BY <1>2, <2>1, <2>2, <2>3, <2>4, <2>5 DEF Lifecycle!End
    <2> QED
      BY <2>6
  <1> QED
    BY <1>1, <1>2

\* One call that moves on.
LEMMA MovesRefine ==
    ASSUME Basis, OutcomeFitsAnswer, NEW i \in CallIds, Moves(i),
           \A j \in CallIds \ {i} : call'[j] = call[j]
    PROVE  \/ Lifecycle!Ring(i) \/ Lifecycle!Connect(i)
           \/ \E d \in Devices : Lifecycle!Take(i, d)
           \/ UNCHANGED Mapped
  <1>1. call[i] \in Row
    BY DEF Basis, TypeOK
  <1>2. CASE Starts(i)
    <2>1. call[i].status = "none" /\ call'[i].status = "ringing" /\ call'[i].device = None
      BY <1>2 DEF Starts, Ringing
    <2>2. call[i].device = None
      BY <2>1 DEF OutcomeFitsAnswer
    <2> QED
      BY <2>1, <2>2, Phases DEF Lifecycle!Ring, Terminal
  <1>3. CASE Takes(i)
    <2>1. PICK d \in Devices, now \in Nat : call'[i] = Taken(call[i], d, now)
      BY <1>3 DEF Takes
    <2>2. call[i].status = "ringing" /\ call'[i].status = "accepted" /\ call'[i].device = d
      BY <1>1, <1>3, <2>1, TakenRow DEF Takes
    <2>3. Lifecycle!Take(i, d)
      BY <2>2, Phases DEF Lifecycle!Take, Terminal
    <2> QED
      BY <2>3
  <1>4. CASE Advances(i, "accepted", "connecting")
    <2>1. /\ call[i].status = "accepted" /\ call'[i].status = "connecting"
          /\ call'[i].device = call[i].device
      BY <1>1, <1>4, AdvancedRow DEF Advances, Live
    <2> QED
      BY <2>1, Phases DEF Mapped, MappedPhase, MappedHolder, MappedOutcome, Outcome, Terminal
  <1>5. CASE Advances(i, "connecting", "active")
    <2>1. /\ call[i].status = "connecting" /\ call'[i].status = "active"
          /\ call'[i].device = call[i].device
      BY <1>1, <1>5, AdvancedRow DEF Advances, Live
    <2> QED
      BY <2>1, Phases DEF Lifecycle!Connect, Terminal
  <1> QED
    BY <1>2, <1>3, <1>4, <1>5 DEF Moves

\* Every statement that writes a row is a step of the call's life or none:
\* it rings once, one device takes it for good, it is connected after that,
\* it ends once and keeps its outcome (all of ProcessEvent and the reaper).
THEOREM LifecycleImplemented == Spec => ImplementsLifecycle
  <1>1. Basis /\ Basis' /\ OutcomeFitsAnswer /\ [Next]_vars
          => [Lifecycle!Next]_Mapped
    <2> SUFFICES ASSUME Basis, Basis', OutcomeFitsAnswer, [Next]_vars
                 PROVE  Lifecycle!Next \/ UNCHANGED Mapped
      OBVIOUS
    <2> QED
      BY NextRows, EndsRefine, MovesRefine DEF RowSteps, Lifecycle!Next
  <1>2. Basis /\ Basis' /\ OutcomeFitsAnswer /\ [Next]_vars
          => [Lifecycle!Next]_<<[i \in CallIds |-> Phase(call[i].status)],
                                [i \in CallIds |-> call[i].device],
                                [i \in CallIds |->
                                   IF call[i].status \in Terminal
                                   THEN <<call[i].status, call[i].duration>> ELSE None]>>
    BY <1>1 DEF Mapped, MappedPhase, MappedHolder, MappedOutcome, Outcome
  <1> QED
    BY <1>2, InitRefines, BasisHolds, OutcomesFit, PTL
       DEF Spec, ImplementsLifecycle, Lifecycle!Spec
===============================================================================
