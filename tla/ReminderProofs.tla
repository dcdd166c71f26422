---------------------------- MODULE ReminderProofs ----------------------------
(***************************************************************************)
(* Proofs about Reminder for any reminders, schedulers, periods, limits    *)
(* and bounds.                                                             *)
(***************************************************************************)
EXTENDS Reminder, TLAPS

\* Scheduler i has claimed a row and is not done with it.
Holds(i) == scheduler[i].pc \in {"announce", "reschedule"}

\* A scheduler copies rows that users have created.
BatchesExist == \A i \in Instances : \A c \in scheduler[i].batch : reminder[c.id].status # "none"

\* The row a scheduler holds stays as the claim left it.
HoldersOK ==
    \A i \in Instances : Holds(i) =>
      /\ scheduler[i].copy \in Copies
      /\ reminder[scheduler[i].copy.id].status = "fired"

\* No two schedulers hold the same row.
HoldersDiffer ==
    \A i, j \in Instances :
      (i # j /\ Holds(i) /\ Holds(j)) => scheduler[i].copy.id # scheduler[j].copy.id

\* Copies agree with their rows on how often they repeat.
PeriodsAgree ==
    \A i \in Instances :
      /\ \A c \in scheduler[i].batch : c.period = reminder[c.id].period
      /\ Holds(i) => scheduler[i].copy.period = reminder[scheduler[i].copy.id].period

\* A reminder that does not exist yet has not been announced.  One that does not
\* repeat has been announced at most once; then it stays fired and nobody is
\* about to announce it.
Once(r) == reminder[r].status = "none" \/ reminder[r].period = 0

AnnouncedIsDone ==
    \A r \in Reminders, t \in 0 .. MaxTime :
      (Once(r) /\ fired[r][t] # 0) =>
        /\ fired[r][t] = 1
        /\ reminder[r].status = "fired"
        /\ \A i \in Instances : scheduler[i].pc = "announce" => scheduler[i].copy.id # r

ClaimsOK == BatchesExist /\ HoldersOK /\ HoldersDiffer /\ PeriodsAgree

IInv == TypeOK /\ ClaimsOK /\ AnnouncedIsDone

\* The part of TypeOK that is about the schedulers.
SchedulersOK ==
    /\ scheduler \in [Instances -> Schedulers]
    /\ \A i \in Instances :
         /\ scheduler[i].pc = "claim" => scheduler[i].batch # {}
         /\ scheduler[i].pc \in {"announce", "reschedule"} => scheduler[i].copy # NoCopy
-----------------------------------------------------------------------------
(* What the helpers return.                                                  *)

LEMMA Product == \A a, b \in Nat : a * b \in Nat
  OBVIOUS

\* The next time is a time, and there is none for what does not repeat.
LEMMA NextTimes ==
    ASSUME NEW at \in Nat, NEW period \in Nat, NEW now \in Nat
    PROVE  /\ NextTime(at, period, now) \subseteq Nat
           /\ period = 0 => NextTime(at, period, now) = {}
  <1>1. \A k \in 0 .. SkipLimit : at + k * period \in Nat
    <2> TAKE k \in 0 .. SkipLimit
    <2>1. k \in Nat
      BY ReminderAssumption
    <2>2. k * period \in Nat
      BY <2>1, Product
    <2> QED
      BY <2>2
  <1> QED
    BY <1>1 DEF NextTime

LEMMA Increment ==
    ASSUME NEW S, NEW f \in [S -> Nat], NEW x
    PROVE  [f EXCEPT ![x] = @ + 1] \in [S -> Nat]
  <1>1. \A y \in S : [f EXCEPT ![x] = @ + 1][y] = IF y = x THEN f[y] + 1 ELSE f[y]
    OBVIOUS
  <1>2. \A y \in S : f[y] \in Nat /\ f[y] + 1 \in Nat
    OBVIOUS
  <1> QED
    BY <1>1, <1>2

LEMMA WorkingOK ==
    ASSUME NEW now \in Nat, NEW batch \in SUBSET Copies
    PROVE  /\ Working(now, batch) \in Schedulers
           /\ Working(now, batch).pc \in {"wait", "claim"}
           /\ Working(now, batch).pc = "claim" => Working(now, batch).batch # {}
           /\ Working(now, batch).batch = batch
  <1>1. CASE batch = {}
    BY <1>1 DEF Working, Waiting, Scheduler, Schedulers
  <1>2. CASE batch # {}
    BY <1>2 DEF Working, Scheduler, Schedulers
  <1> QED
    BY <1>1, <1>2

LEMMA HoldingOK ==
    ASSUME NEW pc \in {"announce", "reschedule"}, NEW now \in Nat,
           NEW batch \in SUBSET Copies, NEW c \in Copies
    PROVE  /\ Scheduler(pc, now, batch, c) \in Schedulers
           /\ Scheduler(pc, now, batch, c).pc = pc
           /\ Scheduler(pc, now, batch, c).batch = batch
           /\ Scheduler(pc, now, batch, c).copy = c
           /\ c # NoCopy
  <1>1. c.id # 0
    BY ReminderAssumption DEF Copies
  <1> QED
    BY <1>1 DEF Scheduler, Schedulers, NoCopy

\* The copies a scheduler loads are copies of rows that exist.
LEMMA DueOK ==
    ASSUME TypeOK, NEW now \in Nat, NEW batch \in Batches(Due(now))
    PROVE  /\ batch \in SUBSET Copies
           /\ \A c \in batch : /\ reminder[c.id].status = "scheduled"
                                /\ c.period = reminder[c.id].period
  <1>1. batch \subseteq Due(now)
    BY DEF Batches
  <1>2. ASSUME NEW c \in Due(now)
        PROVE  /\ c \in Copies
               /\ reminder[c.id].status = "scheduled" /\ c.period = reminder[c.id].period
    <2>1. PICK r \in Reminders : reminder[r].status = "scheduled" /\ c = Copy(r)
      BY <1>2 DEF Due
    <2>2. reminder[r] \in Rows
      BY DEF TypeOK
    <2> QED
      BY <2>1, <2>2 DEF Copy, Copies, Rows
  <1> QED
    BY <1>1, <1>2

\* An UPDATE of a status leaves the rest of the row and the other rows alone.
LEMMA StatusUpdate ==
    ASSUME TypeOK, NEW r \in Reminders, NEW v \in {"scheduled", "fired", "canceled"},
           reminder' = [reminder EXCEPT ![r].status = v]
    PROVE  /\ reminder' \in [Reminders -> Rows]
           /\ reminder'[r].status = v /\ reminder'[r].period = reminder[r].period
           /\ \A q \in Reminders : q # r => reminder'[q] = reminder[q]
  <1>1. reminder[r] \in Rows /\ reminder \in [Reminders -> Rows]
    BY DEF TypeOK
  <1>2. reminder'[r] = [reminder[r] EXCEPT !.status = v]
    BY <1>1
  <1>3. \A q \in Reminders : q # r => reminder'[q] = reminder[q]
    BY <1>1
  <1>4. reminder'[r] \in Rows
    BY <1>1, <1>2 DEF Rows
  <1> QED
    BY <1>1, <1>2, <1>3, <1>4 DEF Rows

LEMMA TimeUpdate ==
    ASSUME TypeOK, NEW r \in Reminders, NEW at \in Nat,
           reminder' = [reminder EXCEPT ![r].status = "scheduled", ![r].at = at]
    PROVE  /\ reminder' \in [Reminders -> Rows]
           /\ reminder'[r].status = "scheduled" /\ reminder'[r].period = reminder[r].period
           /\ \A q \in Reminders : q # r => reminder'[q] = reminder[q]
  <1>1. reminder[r] \in Rows /\ reminder \in [Reminders -> Rows]
    BY DEF TypeOK
  <1>2. reminder'[r] = [reminder[r] EXCEPT !.status = "scheduled", !.at = at]
    BY <1>1
  <1>3. \A q \in Reminders : q # r => reminder'[q] = reminder[q]
    BY <1>1
  <1>4. reminder'[r] \in Rows
    BY <1>1, <1>2 DEF Rows
  <1> QED
    BY <1>1, <1>2, <1>3, <1>4 DEF Rows

-----------------------------------------------------------------------------
(* The steps that leave the rows alone.                                      *)

\* A batch that scheduler i may have.
BatchOK(batch) ==
    /\ batch \in SUBSET Copies
    /\ \A c \in batch : reminder[c.id].status # "none" /\ c.period = reminder[c.id].period

LEMMA OwnBatchOK ==
    ASSUME IInv, NEW i \in Instances
    PROVE  /\ scheduler[i].now \in Nat
           /\ \A batch \in SUBSET scheduler[i].batch : BatchOK(batch)
  <1>1. scheduler[i] \in Schedulers
    BY DEF IInv, TypeOK
  <1>2. BatchesExist /\ PeriodsAgree
    BY DEF IInv, ClaimsOK
  <1> QED
    BY <1>1, <1>2 DEF BatchOK, BatchesExist, PeriodsAgree, Schedulers

\* A scheduler lets go of what it held, or goes on without holding anything.
LEMMA LetGo ==
    ASSUME IInv, NEW i \in Instances, NEW now \in Nat, NEW batch, BatchOK(batch),
           scheduler' = [scheduler EXCEPT ![i] = Working(now, batch)],
           UNCHANGED reminder
    PROVE  /\ SchedulersOK' /\ ClaimsOK'
           /\ scheduler'[i].pc \notin {"announce", "reschedule"}
           /\ \A j \in Instances : j # i => scheduler'[j] = scheduler[j]
  <1> DEFINE s == Working(now, batch)
  <1>1. /\ s \in Schedulers /\ s.pc \in {"wait", "claim"}
        /\ s.pc = "claim" => s.batch # {}
        /\ s.batch = batch
    BY WorkingOK DEF BatchOK
  <1>2. SchedulersOK /\ ClaimsOK
    BY DEF IInv, TypeOK, SchedulersOK
  <1> HIDE DEF s
  <1>3. scheduler'[i] = s /\ \A j \in Instances : j # i => scheduler'[j] = scheduler[j]
    BY <1>2 DEF SchedulersOK, s
  <1>4. SchedulersOK'
    BY <1>1, <1>2, <1>3 DEF SchedulersOK, s
  <1>5. BatchesExist'
    BY <1>1, <1>2, <1>3 DEF ClaimsOK, BatchesExist, BatchOK
  <1>6. HoldersOK'
    BY <1>1, <1>2, <1>3 DEF ClaimsOK, HoldersOK, Holds
  <1>7. HoldersDiffer'
    BY <1>1, <1>2, <1>3 DEF ClaimsOK, HoldersDiffer, Holds
  <1>8. PeriodsAgree'
    BY <1>1, <1>2, <1>3 DEF ClaimsOK, PeriodsAgree, Holds, BatchOK
  <1> QED
    BY <1>1, <1>3, <1>4, <1>5, <1>6, <1>7, <1>8 DEF ClaimsOK

\* As long as nobody announces, a step that only lets go is harmless.
LEMMA LetGoQuietly ==
    ASSUME IInv, NEW i \in Instances, NEW now \in Nat, NEW batch, BatchOK(batch),
           scheduler' = [scheduler EXCEPT ![i] = Working(now, batch)],
           UNCHANGED <<reminder, clock, fired>>, faults' \in Nat, shared' \subseteq Reminders
    PROVE  IInv'
  <1>1. /\ SchedulersOK' /\ ClaimsOK'
        /\ scheduler'[i].pc \notin {"announce", "reschedule"}
        /\ \A j \in Instances : j # i => scheduler'[j] = scheduler[j]
    BY LetGo
  <1>2. TypeOK'
    BY <1>1 DEF IInv, TypeOK, SchedulersOK
  <1>3. AnnouncedIsDone'
    BY <1>1 DEF IInv, AnnouncedIsDone, Once
  <1> QED
    BY <1>1, <1>2, <1>3 DEF IInv

LEMMA TickStep == IInv /\ Tick => IInv'
  <1> SUFFICES ASSUME IInv, Tick PROVE IInv'
    OBVIOUS
  <1>1. TypeOK'
    BY DEF IInv, TypeOK, Tick
  <1>2. ClaimsOK'
    BY DEF IInv, ClaimsOK, BatchesExist, HoldersOK, HoldersDiffer, PeriodsAgree, Holds, Tick
  <1>3. AnnouncedIsDone'
    BY DEF IInv, AnnouncedIsDone, Once, Tick
  <1> QED
    BY <1>1, <1>2, <1>3 DEF IInv

LEMMA LoadStep == ASSUME IInv, NEW i \in Instances, Load(i) PROVE IInv'
  <1>1. scheduler[i].now \in Nat /\ clock \in Nat /\ faults \in Nat /\ TypeOK
    BY DEF IInv, TypeOK, Schedulers
  <1>2. PICK now \in scheduler[i].now + 1 .. clock : \E batch \in Batches(Due(now)) :
          /\ scheduler' = [scheduler EXCEPT ![i] = Working(now, batch)]
          /\ shared' = shared \cup HeldElsewhere(i, batch)
    BY DEF Load
  <1>3. now \in Nat
    BY <1>1
  <1> PICK batch \in Batches(Due(now)) :
          /\ scheduler' = [scheduler EXCEPT ![i] = Working(now, batch)]
          /\ shared' = shared \cup HeldElsewhere(i, batch)
    BY <1>2
  <1>4. BatchOK(batch)
    BY <1>1, <1>3, DueOK DEF BatchOK
  <1>5. shared' \subseteq Reminders
    BY <1>1 DEF TypeOK, HeldElsewhere
  <1> QED
    BY <1>1, <1>3, <1>4, <1>5, LetGoQuietly DEF Load

LEMMA FaultStep ==
    ASSUME IInv, NEW i \in Instances, Crash(i) \/ ClaimFails(i) \/ RescheduleFails(i)
    PROVE  IInv'
  <1>1. /\ scheduler[i].now \in Nat
        /\ \A batch \in SUBSET scheduler[i].batch : BatchOK(batch)
    BY OwnBatchOK
  <1>2. faults' \in Nat /\ shared' \subseteq Reminders /\ UNCHANGED <<reminder, clock, fired>>
    <2>1. \E next : Fault(i, next)
      BY DEF Crash, ClaimFails, RescheduleFails
    <2> QED
      BY <2>1 DEF IInv, TypeOK, Fault
  <1>3. PICK batch \in SUBSET scheduler[i].batch :
          scheduler' = [scheduler EXCEPT ![i] = Working(scheduler[i].now, batch)]
    <2>1. CASE Crash(i)
      BY <2>1 DEF Crash, Fault, Working
    <2>2. CASE ClaimFails(i)
      BY <2>2 DEF ClaimFails, Fault
    <2>3. CASE RescheduleFails(i)
      BY <2>3 DEF RescheduleFails, Fault
    <2> QED
      BY <2>1, <2>2, <2>3
  <1> QED
    BY <1>1, <1>2, <1>3, LetGoQuietly

-----------------------------------------------------------------------------
(* Announcements.                                                            *)

\* A scheduler keeps what it holds and announces or has announced it.
LEMMA AnnounceStep == ASSUME IInv, NEW i \in Instances, Announce(i) PROVE IInv'
  <1> DEFINE s == scheduler[i]
             c == scheduler[i].copy
  <1>1. s \in Schedulers /\ s.now \in Nat /\ s.batch \in SUBSET Copies /\ s.pc = "announce"
    BY DEF IInv, TypeOK, Schedulers, Announce
  <1>2. /\ c \in Copies /\ c.id \in Reminders /\ c.at \in Nat /\ c.period \in Nat
        /\ reminder[c.id].status = "fired" /\ c.period = reminder[c.id].period
    BY <1>1 DEF IInv, ClaimsOK, HoldersOK, PeriodsAgree, Holds, Copies
  <1>3. BatchOK(s.batch)
    BY OwnBatchOK
  <1>4. /\ SchedulersOK' /\ ClaimsOK'
        /\ scheduler'[i].pc # "announce"
        /\ \A j \in Instances : j # i => scheduler'[j] = scheduler[j]
    <2>1. CASE NextTime(c.at, c.period, s.now) = {}
      <3>1. scheduler' = [scheduler EXCEPT ![i] = Working(s.now, s.batch)] /\ UNCHANGED reminder
        BY <2>1 DEF Announce
      <3> QED
        BY <3>1, <1>1, <1>3, LetGo
    <2>2. CASE NextTime(c.at, c.period, s.now) # {}
      <3> DEFINE n == Scheduler("reschedule", s.now, s.batch, c)
      <3>1. scheduler' = [scheduler EXCEPT ![i] = n] /\ UNCHANGED reminder
        BY <2>2 DEF Announce
      <3>2. /\ n \in Schedulers /\ n.pc = "reschedule" /\ n.batch = s.batch
            /\ n.copy = c /\ c # NoCopy
        BY <1>1, <1>2, HoldingOK
      <3>3. SchedulersOK /\ ClaimsOK
        BY DEF IInv, TypeOK, SchedulersOK
      <3> HIDE DEF n
      <3>4. scheduler'[i] = n /\ \A j \in Instances : j # i => scheduler'[j] = scheduler[j]
        BY <3>1, <3>3 DEF SchedulersOK
      <3>5. SchedulersOK'
        BY <3>1, <3>2, <3>3, <3>4 DEF SchedulersOK
      <3>6. BatchesExist'
        BY <3>1, <3>2, <3>3, <3>4 DEF ClaimsOK, BatchesExist
      <3>7. HoldersOK'
        BY <1>1, <3>1, <3>2, <3>3, <3>4 DEF ClaimsOK, HoldersOK, Holds
      <3>8. HoldersDiffer'
        BY <1>1, <3>2, <3>3, <3>4 DEF ClaimsOK, HoldersDiffer, Holds
      <3>9. PeriodsAgree'
        BY <1>1, <1>2, <3>1, <3>2, <3>3, <3>4 DEF ClaimsOK, PeriodsAgree, Holds
      <3> QED
        BY <3>2, <3>4, <3>5, <3>6, <3>7, <3>8, <3>9 DEF ClaimsOK
    <2> QED
      BY <2>1, <2>2
  <1>5. /\ fired \in [Reminders -> [0 .. MaxTime -> Nat]]
        /\ fired' = [fired EXCEPT ![c.id][c.at] = @ + 1]
        /\ reminder' = reminder
    BY DEF IInv, TypeOK, Announce
  <1>6. fired' \in [Reminders -> [0 .. MaxTime -> Nat]]
    <2>1. fired[c.id] \in [0 .. MaxTime -> Nat]
      BY <1>2, <1>5
    <2>2. [fired[c.id] EXCEPT ![c.at] = @ + 1] \in [0 .. MaxTime -> Nat]
      BY <2>1, Increment
    <2>3. fired' = [fired EXCEPT ![c.id] = [fired[c.id] EXCEPT ![c.at] = @ + 1]]
      BY <1>5
    <2> QED
      BY <1>2, <1>5, <2>2, <2>3
  <1>7. \A r \in Reminders, t \in 0 .. MaxTime :
          fired'[r][t] = IF r = c.id /\ t = c.at THEN fired[r][t] + 1 ELSE fired[r][t]
    BY <1>2, <1>5
  <1>8. AnnouncedIsDone'
    <2> SUFFICES ASSUME NEW r \in Reminders, NEW t \in 0 .. MaxTime,
                        Once(r), fired'[r][t] # 0
                 PROVE  /\ fired'[r][t] = 1 /\ reminder[r].status = "fired"
                        /\ \A j \in Instances :
                             scheduler'[j].pc = "announce" => scheduler'[j].copy.id # r
      BY <1>5 DEF AnnouncedIsDone, Once
    <2>1. CASE r = c.id
      <3>1. fired[r][t] = 0
        BY <2>1, <1>1 DEF IInv, AnnouncedIsDone
      <3>2. \A j \in Instances :
              (j # i /\ scheduler[j].pc = "announce") => scheduler[j].copy.id # r
        BY <2>1, <1>1 DEF IInv, ClaimsOK, HoldersDiffer, Holds
      <3> QED
        BY <2>1, <3>1, <3>2, <1>2, <1>4, <1>7
    <2>2. CASE r # c.id
      BY <2>2, <1>4, <1>7 DEF IInv, AnnouncedIsDone
    <2> QED
      BY <2>1, <2>2
  <1>9. TypeOK'
    BY <1>4, <1>5, <1>6 DEF IInv, TypeOK, SchedulersOK, Announce
  <1> QED
    BY <1>4, <1>8, <1>9 DEF IInv

-----------------------------------------------------------------------------
(* The steps that write a row.                                               *)

\* Nobody has to do with a row that does not exist yet.
LEMMA CreateStep ==
    ASSUME IInv, NEW r \in Reminders, NEW at \in Nat, NEW p \in Nat, Create(r, at, p)
    PROVE  IInv'
  <1> DEFINE n == [status |-> "scheduled", at |-> at, period |-> p]
  <1>1. /\ reminder \in [Reminders -> Rows]
        /\ reminder[r].status = "none"
        /\ reminder' = [reminder EXCEPT ![r] = n]
        /\ UNCHANGED <<scheduler, clock, faults, fired, shared>>
    BY DEF IInv, TypeOK, Create
  <1>2. n \in Rows /\ n.status = "scheduled" /\ n.period = p
    BY DEF Rows
  <1>3. /\ reminder' \in [Reminders -> Rows] /\ reminder'[r] = n
        /\ \A q \in Reminders : q # r => reminder'[q] = reminder[q]
    BY <1>1, <1>2
  <1> HIDE DEF n
  <1>4. \A i \in Instances : \A c \in scheduler[i].batch : c.id \in Reminders /\ c.id # r
    BY <1>1 DEF IInv, TypeOK, Schedulers, Copies, ClaimsOK, BatchesExist
  <1>5. \A i \in Instances :
          Holds(i) => scheduler[i].copy.id \in Reminders /\ scheduler[i].copy.id # r
    BY <1>1 DEF IInv, Copies, ClaimsOK, HoldersOK
  <1>6. TypeOK'
    BY <1>1, <1>3 DEF IInv, TypeOK
  <1>7. BatchesExist'
    BY <1>1, <1>3, <1>4 DEF IInv, ClaimsOK, BatchesExist
  <1>8. HoldersOK' /\ HoldersDiffer'
    BY <1>1, <1>3, <1>5 DEF IInv, ClaimsOK, HoldersOK, HoldersDiffer, Holds
  <1>9. PeriodsAgree'
    BY <1>1, <1>3, <1>4, <1>5 DEF IInv, ClaimsOK, PeriodsAgree, Holds
  <1>10. AnnouncedIsDone'
    <2>1. \A t \in 0 .. MaxTime : fired[r][t] = 0
      BY <1>1 DEF IInv, AnnouncedIsDone, Once
    <2> QED
      BY <1>1, <1>3, <2>1 DEF IInv, AnnouncedIsDone, Once
  <1> QED
    BY <1>6, <1>7, <1>8, <1>9, <1>10 DEF IInv, ClaimsOK

\* What is scheduled is held by nobody and, if it does not repeat, has not been
\* announced.
LEMMA ScheduledIsFree ==
    ASSUME IInv, NEW r \in Reminders, reminder[r].status = "scheduled"
    PROVE  /\ \A i \in Instances : Holds(i) => scheduler[i].copy.id # r
           /\ Once(r) => \A t \in 0 .. MaxTime : fired[r][t] = 0
  BY DEF IInv, ClaimsOK, HoldersOK, AnnouncedIsDone

LEMMA CancelStep ==
    ASSUME IInv, NEW r \in Reminders, Cancel(r)
    PROVE  IInv'
  <1>1. TypeOK /\ reminder[r].status = "scheduled" /\ UNCHANGED <<scheduler, clock, faults, fired, shared>>
    BY DEF IInv, Cancel
  <1>2. reminder' = [reminder EXCEPT ![r].status = "canceled"]
    BY DEF Cancel
  <1>3. /\ reminder' \in [Reminders -> Rows]
        /\ reminder'[r].status = "canceled" /\ reminder'[r].period = reminder[r].period
        /\ \A q \in Reminders : q # r => reminder'[q] = reminder[q]
    BY <1>1, <1>2, StatusUpdate
  <1>4. /\ \A i \in Instances : Holds(i) => scheduler[i].copy.id # r
        /\ Once(r) => \A t \in 0 .. MaxTime : fired[r][t] = 0
    BY <1>1, ScheduledIsFree
  <1>5. \A i \in Instances : \A c \in scheduler[i].batch : c.id \in Reminders
    BY <1>1 DEF TypeOK, Schedulers, Copies
  <1>6. \A i \in Instances : Holds(i) => scheduler[i].copy.id \in Reminders
    BY DEF IInv, ClaimsOK, HoldersOK, Copies
  <1>7. TypeOK'
    BY <1>1, <1>3 DEF TypeOK
  <1>8. BatchesExist'
    BY <1>1, <1>3, <1>5 DEF IInv, ClaimsOK, BatchesExist
  <1>9. HoldersOK' /\ HoldersDiffer'
    BY <1>1, <1>3, <1>4, <1>6 DEF IInv, ClaimsOK, HoldersOK, HoldersDiffer, Holds
  <1>10. PeriodsAgree'
    BY <1>1, <1>3, <1>5, <1>6 DEF IInv, ClaimsOK, PeriodsAgree, Holds
  <1>11. AnnouncedIsDone'
    BY <1>1, <1>3, <1>4 DEF IInv, AnnouncedIsDone, Once
  <1> QED
    BY <1>7, <1>8, <1>9, <1>10, <1>11 DEF IInv, ClaimsOK

\* A row that is claimed was scheduled: nobody else holds it.
LEMMA ClaimStep == ASSUME IInv, NEW i \in Instances, Claim(i) PROVE IInv'
  <1> DEFINE s == scheduler[i]
  <1>1. /\ s \in Schedulers /\ s.now \in Nat /\ s.batch \in SUBSET Copies /\ s.pc = "claim"
        /\ TypeOK /\ UNCHANGED <<clock, faults, fired, shared>>
    BY DEF IInv, TypeOK, Schedulers, Claim
  <1>2. PICK c \in Firsts(s.batch) :
          IF reminder[c.id].status = "scheduled"
          THEN /\ reminder' = [reminder EXCEPT ![c.id].status = "fired"]
               /\ scheduler' = [scheduler EXCEPT ![i] = Scheduler("announce", s.now, s.batch \ {c}, c)]
          ELSE /\ scheduler' = [scheduler EXCEPT ![i] = Working(s.now, s.batch \ {c})]
               /\ UNCHANGED reminder
    BY DEF Claim
  <1>3. c \in s.batch /\ c \in Copies /\ c.id \in Reminders
    BY <1>1 DEF Firsts, Copies
  <1>4. \A batch \in SUBSET s.batch : BatchOK(batch)
    BY OwnBatchOK
  <1>5. CASE reminder[c.id].status # "scheduled"
    <2>1. scheduler' = [scheduler EXCEPT ![i] = Working(s.now, s.batch \ {c})] /\ UNCHANGED reminder
      BY <1>2, <1>5
    <2>2. BatchOK(s.batch \ {c})
      BY <1>4
    <2>3. faults' \in Nat /\ shared' \subseteq Reminders
      BY <1>1 DEF TypeOK
    <2> QED
      BY <1>1, <2>1, <2>2, <2>3, LetGoQuietly
  <1>6. CASE reminder[c.id].status = "scheduled"
    <2> DEFINE n == Scheduler("announce", s.now, s.batch \ {c}, c)
    <2>1. /\ reminder' = [reminder EXCEPT ![c.id].status = "fired"]
          /\ scheduler' = [scheduler EXCEPT ![i] = n]
      BY <1>2, <1>6
    <2>2. /\ n \in Schedulers /\ n.pc = "announce" /\ n.batch = s.batch \ {c}
          /\ n.copy = c /\ c # NoCopy
      BY <1>1, <1>3, HoldingOK
    <2>3. /\ reminder' \in [Reminders -> Rows]
          /\ reminder'[c.id].status = "fired" /\ reminder'[c.id].period = reminder[c.id].period
          /\ \A q \in Reminders : q # c.id => reminder'[q] = reminder[q]
      BY <1>1, <1>3, <2>1, StatusUpdate
    <2>4. /\ \A j \in Instances : Holds(j) => scheduler[j].copy.id # c.id
          /\ Once(c.id) => \A t \in 0 .. MaxTime : fired[c.id][t] = 0
      BY <1>3, <1>6, ScheduledIsFree
    <2> HIDE DEF n
    <2>5. scheduler'[i] = n /\ \A j \in Instances : j # i => scheduler'[j] = scheduler[j]
      BY <1>1, <2>1 DEF TypeOK
    <2>6. \A j \in Instances : \A d \in scheduler[j].batch : d.id \in Reminders
      BY <1>1 DEF TypeOK, Schedulers, Copies
    <2>7. \A j \in Instances : Holds(j) => scheduler[j].copy.id \in Reminders
      BY DEF IInv, ClaimsOK, HoldersOK, Copies
    <2>8. scheduler' \in [Instances -> Schedulers]
      BY <1>1, <2>1, <2>2 DEF TypeOK
    <2>9. TypeOK'
      BY <1>1, <2>2, <2>3, <2>5, <2>8 DEF TypeOK
    <2>10. \A j \in Instances : scheduler'[j].batch \subseteq scheduler[j].batch
      BY <2>2, <2>5
    <2>11. BatchesExist'
      BY <2>3, <2>6, <2>10 DEF IInv, ClaimsOK, BatchesExist
    <2>12. HoldersOK'
      BY <1>3, <2>2, <2>3, <2>4, <2>5, <2>7 DEF IInv, ClaimsOK, HoldersOK, Holds
    <2>13. HoldersDiffer'
      BY <2>2, <2>4, <2>5 DEF IInv, ClaimsOK, HoldersDiffer, Holds
    <2>14. PeriodsAgree'
      <3>1. c.period = reminder[c.id].period
        BY <1>3 DEF IInv, ClaimsOK, PeriodsAgree
      <3>2. \A j \in Instances : \A d \in scheduler'[j].batch : d.period = reminder'[d.id].period
        BY <2>3, <2>6, <2>10 DEF IInv, ClaimsOK, PeriodsAgree
      <3>3. \A j \in Instances : Holds(j)' =>
              scheduler'[j].copy.period = reminder'[scheduler'[j].copy.id].period
        BY <3>1, <2>2, <2>3, <2>5, <2>7 DEF IInv, ClaimsOK, PeriodsAgree, Holds
      <3> QED
        BY <3>2, <3>3 DEF PeriodsAgree
    <2>15. AnnouncedIsDone'
      <3> SUFFICES ASSUME NEW r \in Reminders, NEW t \in 0 .. MaxTime,
                          Once(r)', fired[r][t] # 0
                   PROVE  /\ fired[r][t] = 1 /\ reminder'[r].status = "fired"
                          /\ \A j \in Instances :
                               scheduler'[j].pc = "announce" => scheduler'[j].copy.id # r
        BY <1>1 DEF AnnouncedIsDone
      <3>1. r # c.id
        BY <2>3, <2>4 DEF Once
      <3>2. reminder'[r] = reminder[r] /\ Once(r)
        BY <2>3, <3>1 DEF Once
      <3> QED
        BY <2>2, <2>5, <3>1, <3>2 DEF IInv, AnnouncedIsDone
    <2> QED
      BY <2>9, <2>11, <2>12, <2>13, <2>14, <2>15 DEF IInv, ClaimsOK
  <1> QED
    BY <1>5, <1>6

\* Only a row that its scheduler holds, and that repeats, is scheduled again.
LEMMA RescheduleStep == ASSUME IInv, NEW i \in Instances, Reschedule(i) PROVE IInv'
  <1> DEFINE s == scheduler[i]
             c == scheduler[i].copy
  <1>1. /\ s \in Schedulers /\ s.now \in Nat /\ s.batch \in SUBSET Copies /\ s.pc = "reschedule"
        /\ TypeOK /\ UNCHANGED <<clock, faults, fired, shared>>
        /\ scheduler' = [scheduler EXCEPT ![i] = Working(s.now, s.batch)]
    BY DEF IInv, TypeOK, Schedulers, Reschedule
  <1>2. /\ c \in Copies /\ c.id \in Reminders /\ c.at \in Nat /\ c.period \in Nat
        /\ reminder[c.id].status = "fired" /\ c.period = reminder[c.id].period
    BY <1>1 DEF IInv, ClaimsOK, HoldersOK, PeriodsAgree, Holds, Copies
  <1>3. PICK at \in NextTime(c.at, c.period, s.now) :
          reminder' = [reminder EXCEPT ![c.id].status = "scheduled", ![c.id].at = at]
    BY DEF Reschedule
  <1>4. at \in Nat /\ c.period # 0
    BY <1>1, <1>2, NextTimes
  <1>5. /\ reminder' \in [Reminders -> Rows]
        /\ reminder'[c.id].status = "scheduled" /\ reminder'[c.id].period = reminder[c.id].period
        /\ \A q \in Reminders : q # c.id => reminder'[q] = reminder[q]
    BY <1>1, <1>2, <1>3, <1>4, TimeUpdate
  <1> DEFINE n == Working(s.now, s.batch)
  <1>6. /\ n \in Schedulers /\ n.pc \in {"wait", "claim"}
        /\ n.pc = "claim" => n.batch # {}
        /\ n.batch = s.batch
    BY <1>1, WorkingOK
  <1>7. scheduler' = [scheduler EXCEPT ![i] = n]
    BY <1>1
  <1> HIDE DEF n
  <1>8. scheduler'[i] = n /\ \A j \in Instances : j # i => scheduler'[j] = scheduler[j]
    BY <1>1, <1>7 DEF TypeOK
  <1>9. \A j \in Instances : \A d \in scheduler[j].batch : d.id \in Reminders
    BY <1>1 DEF TypeOK, Schedulers, Copies
  <1>10. \A j \in Instances : (j # i /\ Holds(j)) =>
           scheduler[j].copy.id \in Reminders /\ scheduler[j].copy.id # c.id
    BY <1>1 DEF IInv, ClaimsOK, HoldersOK, HoldersDiffer, Holds, Copies
  <1>11. scheduler' \in [Instances -> Schedulers]
    BY <1>1, <1>6, <1>7 DEF TypeOK
  <1>12. TypeOK'
    BY <1>1, <1>5, <1>6, <1>8, <1>11 DEF TypeOK
  <1>13. \A j \in Instances : scheduler'[j].batch = scheduler[j].batch
    BY <1>6, <1>8
  <1>14. BatchesExist'
    BY <1>5, <1>9, <1>13 DEF IInv, ClaimsOK, BatchesExist
  <1>15. HoldersOK' /\ HoldersDiffer'
    BY <1>5, <1>6, <1>8, <1>10 DEF IInv, ClaimsOK, HoldersOK, HoldersDiffer, Holds
  <1>16. PeriodsAgree'
    <2>1. \A j \in Instances : \A d \in scheduler'[j].batch : d.period = reminder'[d.id].period
      BY <1>5, <1>9, <1>13 DEF IInv, ClaimsOK, PeriodsAgree
    <2>2. \A j \in Instances : Holds(j)' =>
            scheduler'[j].copy.period = reminder'[scheduler'[j].copy.id].period
      BY <1>5, <1>6, <1>8, <1>10 DEF IInv, ClaimsOK, PeriodsAgree, Holds
    <2> QED
      BY <2>1, <2>2 DEF PeriodsAgree
  <1>17. AnnouncedIsDone'
    BY <1>1, <1>2, <1>4, <1>5, <1>6, <1>8 DEF IInv, AnnouncedIsDone, Once
  <1> QED
    BY <1>12, <1>14, <1>15, <1>16, <1>17 DEF IInv, ClaimsOK

-----------------------------------------------------------------------------
(* The theorems.                                                             *)

LEMMA InitIInv == Init => IInv
  <1> SUFFICES ASSUME Init PROVE IInv
    OBVIOUS
  <1>1. \A i \in Instances :
          /\ scheduler[i] \in Schedulers /\ scheduler[i].pc = "wait" /\ scheduler[i].batch = {}
    BY DEF Init, Waiting, Scheduler, Schedulers
  <1>2. TypeOK
    BY <1>1 DEF Init, TypeOK, NoReminder, Rows
  <1>3. ClaimsOK
    BY <1>1 DEF ClaimsOK, BatchesExist, HoldersOK, HoldersDiffer, PeriodsAgree, Holds
  <1>4. AnnouncedIsDone
    BY DEF Init, AnnouncedIsDone
  <1> QED
    BY <1>2, <1>3, <1>4 DEF IInv

LEMMA NextIInv == IInv /\ [Next]_vars => IInv'
  <1> SUFFICES ASSUME IInv, [Next]_vars PROVE IInv'
    OBVIOUS
  <1>1. CASE UNCHANGED vars
    BY <1>1 DEF IInv, TypeOK, ClaimsOK, BatchesExist, HoldersOK, HoldersDiffer, PeriodsAgree,
                Holds, AnnouncedIsDone, Once, vars
  <1>2. CASE Tick
    BY <1>2, TickStep
  <1>3. ASSUME NEW r \in Reminders, Cancel(r) PROVE IInv'
    BY <1>3, CancelStep
  <1>4. ASSUME NEW r \in Reminders, NEW at \in 1 .. MaxTime, NEW p \in Periods, Create(r, at, p)
        PROVE  IInv'
    <2>1. at \in Nat /\ p \in Nat
      BY ReminderAssumption
    <2> QED
      BY <1>4, <2>1, CreateStep
  <1>5. ASSUME NEW i \in Instances, Fire(i) PROVE IInv'
    BY <1>5, LoadStep, ClaimStep, AnnounceStep, RescheduleStep DEF Fire
  <1>6. ASSUME NEW i \in Instances, Crash(i) \/ ClaimFails(i) \/ RescheduleFails(i) PROVE IInv'
    BY <1>6, FaultStep
  <1> QED
    BY <1>1, <1>2, <1>3, <1>4, <1>5, <1>6 DEF Next

\* The invariant that the other theorems rest on.
THEOREM Invariance == Spec => []IInv
  BY InitIInv, NextIInv, PTL DEF Spec

\* The rows and the batches of the schedulers keep their shape.
THEOREM TypeCorrectness == Spec => []TypeOK
  <1>1. IInv => TypeOK
    BY DEF IInv
  <1> QED
    BY <1>1, Invariance, PTL

\* However many schedulers load, die and go on, a reminder that does not repeat
\* is announced once.
THEOREM AnnouncedOnce == Spec => []SingleFiresOnce
  <1>1. IInv => SingleFiresOnce
    <2> SUFFICES ASSUME IInv, NEW r \in Reminders, NEW t \in 0 .. MaxTime,
                        reminder[r].period = 0
                 PROVE  fired[r][t] <= 1
      BY DEF SingleFiresOnce
    <2> QED
      BY DEF IInv, AnnouncedIsDone, Once
  <1> QED
    BY <1>1, Invariance, PTL

\* The unconditional reschedule never meets a canceled row, because a scheduler
\* that reschedules holds a row that has been fired.
THEOREM CanceledForGood == Spec => CanceledIsFinal
  <1> DEFINE A == \A r \in Reminders : reminder[r].status = "canceled" => reminder'[r] = reminder[r]
  <1>1. IInv /\ [Next]_vars => [A]_vars
    <2> SUFFICES ASSUME IInv, [Next]_vars, NEW r \in Reminders, reminder[r].status = "canceled"
                 PROVE  reminder'[r] = reminder[r]
      OBVIOUS
    <2>1. reminder \in [Reminders -> Rows]
      BY DEF IInv, TypeOK
    <2>2. ASSUME NEW q \in Reminders, Cancel(q) PROVE reminder'[r] = reminder[r]
      BY <2>1, <2>2 DEF Cancel
    <2>3. ASSUME NEW q \in Reminders, NEW at \in 1 .. MaxTime, NEW p \in Periods, Create(q, at, p)
          PROVE  reminder'[r] = reminder[r]
      BY <2>1, <2>3 DEF Create
    <2>4. ASSUME NEW i \in Instances, Claim(i) PROVE reminder'[r] = reminder[r]
      BY <2>1, <2>4 DEF Claim
    <2>5. ASSUME NEW i \in Instances, Reschedule(i) PROVE reminder'[r] = reminder[r]
      <3>1. Holds(i)
        BY <2>5 DEF Holds, Reschedule
      <3>2. reminder[scheduler[i].copy.id].status = "fired"
        BY <3>1 DEF IInv, ClaimsOK, HoldersOK
      <3>3. \E at : reminder' = [reminder EXCEPT ![scheduler[i].copy.id].status = "scheduled",
                                                 ![scheduler[i].copy.id].at = at]
        BY <2>5 DEF Reschedule
      <3> QED
        BY <2>1, <3>2, <3>3
    <2>6. CASE UNCHANGED reminder
      BY <2>6
    <2>7. ASSUME NEW i \in Instances,
                 Load(i) \/ Announce(i) \/ Crash(i) \/ ClaimFails(i) \/ RescheduleFails(i)
          PROVE  UNCHANGED reminder
      BY <2>7 DEF Load, Announce, Crash, ClaimFails, RescheduleFails, Fault
    <2> QED
      BY <2>2, <2>3, <2>4, <2>5, <2>6, <2>7 DEF Next, Fire, Tick, vars
  <1> QED
    BY <1>1, Invariance, PTL DEF CanceledIsFinal, Spec

-----------------------------------------------------------------------------
(* No time is announced twice while no two schedulers hold a reminder.       *)

\* A batch has one copy of a row, and schedulers take up only what is due.
BatchesAreDue ==
    \A i \in Instances :
      /\ \A c, d \in scheduler[i].batch : c.id = d.id => c = d
      /\ \A c \in scheduler[i].batch : c.at <= scheduler[i].now
      /\ Holds(i) => scheduler[i].copy.at <= scheduler[i].now

InBatch(i, r) == \E c \in scheduler[i].batch : c.id = r

HeldBy(i, r) == Holds(i) /\ scheduler[i].copy.id = r

\* A reminder that was never in two batches at once is in one of them or held,
\* and never both.
OneScheduler ==
    \A r \in Reminders \ shared : \A i, j \in Instances :
      /\ InBatch(i, r) /\ InBatch(j, r) => i = j
      /\ InBatch(i, r) => ~HeldBy(j, r)

\* As long as the row can be claimed, its copy has the time of the row, ...
CopiesAgree ==
    \A r \in Reminders \ shared : \A i \in Instances :
      /\ reminder[r].status = "scheduled" =>
           \A c \in scheduler[i].batch : c.id = r => c.at = reminder[r].at
      /\ HeldBy(i, r) => scheduler[i].copy.at = reminder[r].at

\* ... and the times announced so far are over: a row is set to a later one.
TimesGoOn ==
    \A r \in Reminders \ shared, t \in 0 .. MaxTime :
      fired[r][t] # 0 =>
        /\ fired[r][t] = 1
        /\ reminder[r].status # "none"
        /\ t <= reminder[r].at
        /\ reminder[r].status = "scheduled" => t < reminder[r].at
        /\ \A i \in Instances :
             (HeldBy(i, r) /\ scheduler[i].pc = "announce") => t < reminder[r].at

Turns == BatchesAreDue /\ OneScheduler /\ CopiesAgree /\ TimesGoOn
LEMMA WorkingTurn ==
    ASSUME NEW now, NEW batch
    PROVE  /\ Working(now, batch).now = now /\ Working(now, batch).batch = batch
           /\ Working(now, batch).pc \notin {"announce", "reschedule"}
  BY DEF Working, Waiting, Scheduler

\* What a scheduler loads is due and agrees with its row.
LEMMA DueTurn ==
    ASSUME TypeOK, NEW now \in Nat, NEW batch \in Batches(Due(now)), NEW c \in batch
    PROVE  /\ c.id \in Reminders /\ c = Copy(c.id)
           /\ reminder[c.id].status = "scheduled"
           /\ c.at = reminder[c.id].at /\ c.at <= now
  <1>1. PICK r \in Reminders :
          reminder[r].status = "scheduled" /\ reminder[r].at <= now /\ c = Copy(r)
    BY DEF Batches, Due
  <1> QED
    BY <1>1 DEF Copy

\* A scheduler that only lets go of something disturbs nothing.
LEMMA LessTurn ==
    ASSUME Turns, NEW i \in Instances, UNCHANGED <<reminder, fired>>, shared \subseteq shared',
           \A j \in Instances \ {i} : scheduler'[j] = scheduler[j],
           scheduler'[i].batch \subseteq scheduler[i].batch, scheduler'[i].now = scheduler[i].now,
           Holds(i)' => /\ Holds(i) /\ scheduler'[i].copy = scheduler[i].copy
                        /\ scheduler'[i].pc = "announce" => scheduler[i].pc = "announce"
    PROVE  Turns'
  <1>1. \A j \in Instances, r \in Reminders :
          /\ InBatch(j, r)' => InBatch(j, r)
          /\ HeldBy(j, r)' => HeldBy(j, r) /\ scheduler'[j].copy = scheduler[j].copy
    BY DEF InBatch, HeldBy, Holds
  <1>2. \A j \in Instances : scheduler'[j].batch \subseteq scheduler[j].batch
    OBVIOUS
  <1>3. BatchesAreDue'
    BY <1>2 DEF Turns, BatchesAreDue, Holds
  <1>4. OneScheduler'
    BY <1>1 DEF Turns, OneScheduler
  <1>5. CopiesAgree'
    BY <1>1, <1>2 DEF Turns, CopiesAgree
  <1>6. TimesGoOn'
    <2>1. \A j \in Instances, r \in Reminders :
            (HeldBy(j, r) /\ scheduler[j].pc = "announce")'
              => HeldBy(j, r) /\ scheduler[j].pc = "announce"
      BY <1>1 DEF HeldBy, Holds
    <2> QED
      BY <2>1 DEF Turns, TimesGoOn
  <1> QED
    BY <1>3, <1>4, <1>5, <1>6 DEF Turns

LEMMA LoadTurn ==
    ASSUME IInv, Turns, NEW i \in Instances, Load(i)
    PROVE  Turns'
  <1>1. TypeOK /\ scheduler \in [Instances -> Schedulers] /\ scheduler[i].now \in Nat /\ clock \in Nat
    BY DEF IInv, TypeOK, Schedulers
  <1>2. PICK now \in scheduler[i].now + 1 .. clock : \E batch \in Batches(Due(now)) :
          /\ scheduler' = [scheduler EXCEPT ![i] = Working(now, batch)]
          /\ shared' = shared \cup HeldElsewhere(i, batch)
    BY DEF Load
  <1> PICK batch \in Batches(Due(now)) :
          /\ scheduler' = [scheduler EXCEPT ![i] = Working(now, batch)]
          /\ shared' = shared \cup HeldElsewhere(i, batch)
    BY <1>2
  <1>3. now \in Nat /\ UNCHANGED <<reminder, fired>>
    BY <1>1 DEF Load
  <1>4. /\ scheduler'[i].now = now /\ scheduler'[i].batch = batch /\ ~Holds(i)'
        /\ \A j \in Instances \ {i} : scheduler'[j] = scheduler[j]
    BY <1>1, WorkingTurn DEF Holds
  <1>5. \A c \in batch : /\ c.id \in Reminders /\ c = Copy(c.id)
                         /\ reminder[c.id].status = "scheduled"
                         /\ c.at = reminder[c.id].at /\ c.at <= now
    BY <1>1, <1>3, DueTurn
  <1>6. \A j \in Instances, r \in Reminders : HeldBy(j, r)' => HeldBy(j, r) /\ j # i
    BY <1>4 DEF HeldBy, Holds
  <1>7. \A j \in Instances, r \in Reminders : j # i => (InBatch(j, r)' <=> InBatch(j, r))
    BY <1>4 DEF InBatch
  <1>8. BatchesAreDue'
    BY <1>4, <1>5 DEF Turns, BatchesAreDue, Holds
  <1>9. OneScheduler'
    <2> SUFFICES ASSUME NEW r \in Reminders \ shared', NEW j \in Instances, NEW k \in Instances
                 PROVE  /\ InBatch(j, r)' /\ InBatch(k, r)' => j = k
                        /\ InBatch(j, r)' => ~HeldBy(k, r)'
      BY DEF OneScheduler
    <2>1. r \notin shared /\ r \notin HeldElsewhere(i, batch)
      OBVIOUS
    <2>2. ASSUME NEW m \in Instances, InBatch(i, r)', InBatch(m, r)'
          PROVE  m = i
      BY <1>4, <1>7, <2>1, <2>2 DEF HeldElsewhere, InBatch
    <2>3. ASSUME InBatch(i, r)' PROVE ~HeldBy(k, r)
      <3>1. reminder[r].status = "scheduled"
        BY <1>4, <1>5, <2>3 DEF InBatch
      <3> QED
        BY <3>1, ScheduledIsFree DEF HeldBy
    <2> QED
      BY <1>6, <1>7, <2>1, <2>2, <2>3 DEF Turns, OneScheduler
  <1>10. CopiesAgree'
    <2>1. \A j \in Instances, r \in Reminders : HeldBy(j, r)' => scheduler'[j].copy = scheduler[j].copy
      BY <1>4, <1>6
    <2> QED
      BY <1>3, <1>4, <1>5, <1>6, <2>1 DEF Turns, CopiesAgree
  <1>11. TimesGoOn'
    <2>1. \A j \in Instances, r \in Reminders :
            (HeldBy(j, r) /\ scheduler[j].pc = "announce")'
              => HeldBy(j, r) /\ scheduler[j].pc = "announce"
      BY <1>4, <1>6
    <2> QED
      BY <1>3, <2>1 DEF Turns, TimesGoOn
  <1> QED
    BY <1>8, <1>9, <1>10, <1>11 DEF Turns

\* Users only touch rows that nobody holds; a cancelled one keeps its time.
LEMMA UserTurn ==
    ASSUME IInv, Turns, NEW r \in Reminders,
           Cancel(r) \/ \E at \in 1 .. MaxTime, p \in Periods : Create(r, at, p)
    PROVE  Turns'
  <1>1. /\ reminder \in [Reminders -> Rows] /\ UNCHANGED <<scheduler, fired, shared>>
        /\ \A q \in Reminders : q # r => reminder'[q] = reminder[q]
    BY DEF IInv, TypeOK, Cancel, Create
  <1>2. BatchesAreDue' /\ OneScheduler'
    BY <1>1 DEF Turns, BatchesAreDue, OneScheduler, InBatch, HeldBy, Holds
  <1>3. ~\E i \in Instances : HeldBy(i, r)
    BY DEF IInv, ClaimsOK, HoldersOK, HeldBy, Cancel, Create
  <1>4. \A i \in Instances, q \in Reminders : HeldBy(i, q)' <=> HeldBy(i, q)
    BY <1>1 DEF HeldBy, Holds
  <1>5. CASE Cancel(r)
    <2>1. /\ reminder'[r].status = "canceled" /\ reminder'[r].at = reminder[r].at
          /\ reminder[r].status = "scheduled"
      BY <1>1, <1>5 DEF Cancel, Rows
    <2>2. CopiesAgree'
      BY <1>1, <1>4, <2>1 DEF Turns, CopiesAgree
    <2>3. TimesGoOn'
      BY <1>1, <1>3, <1>4, <2>1 DEF Turns, TimesGoOn
    <2> QED
      BY <1>2, <2>2, <2>3 DEF Turns
  <1>6. ASSUME reminder[r].status = "none" PROVE Turns'
    <2>1. \A i \in Instances : \A c \in scheduler[i].batch : c.id # r
      BY <1>6 DEF IInv, ClaimsOK, BatchesExist
    <2>2. \A i \in Instances : \A c \in scheduler[i].batch : c.id \in Reminders
      BY DEF IInv, TypeOK, Schedulers, Copies
    <2>3. r \in shared \/ \A t \in 0 .. MaxTime : fired[r][t] = 0
      BY <1>6 DEF Turns, TimesGoOn
    <2>4. CopiesAgree'
      BY <1>1, <1>3, <1>4, <2>1, <2>2 DEF Turns, CopiesAgree
    <2>5. TimesGoOn'
      BY <1>1, <1>3, <1>4, <2>3 DEF Turns, TimesGoOn
    <2> QED
      BY <1>2, <2>4, <2>5 DEF Turns
  <1> QED
    BY <1>5, <1>6 DEF Create

\* The scheduler that claims had the only copy: now it holds it, and the times
\* announced so far are before it.
LEMMA ClaimTurn ==
    ASSUME IInv, Turns, NEW i \in Instances, Claim(i)
    PROVE  Turns'
  <1> DEFINE s == scheduler[i]
  <1>1. /\ TypeOK /\ s \in Schedulers /\ s.now \in Nat /\ s.batch \in SUBSET Copies
        /\ scheduler \in [Instances -> Schedulers]
        /\ s.pc = "claim" /\ UNCHANGED <<fired, shared>>
    BY DEF IInv, TypeOK, Schedulers, Claim
  <1>2. PICK c \in Firsts(s.batch) :
          IF reminder[c.id].status = "scheduled"
          THEN /\ reminder' = [reminder EXCEPT ![c.id].status = "fired"]
               /\ scheduler' = [scheduler EXCEPT ![i] = Scheduler("announce", s.now, s.batch \ {c}, c)]
          ELSE /\ scheduler' = [scheduler EXCEPT ![i] = Working(s.now, s.batch \ {c})]
               /\ UNCHANGED reminder
    BY DEF Claim
  <1>3. c \in s.batch /\ c \in Copies /\ c.id \in Reminders
    BY <1>1 DEF Firsts, Copies
  <1>4. CASE reminder[c.id].status # "scheduled"
    <2>1. /\ scheduler' = [scheduler EXCEPT ![i] = Working(s.now, s.batch \ {c})]
          /\ UNCHANGED reminder
      BY <1>2, <1>4
    <2>2. /\ \A j \in Instances \ {i} : scheduler'[j] = scheduler[j]
          /\ scheduler'[i].batch \subseteq s.batch /\ scheduler'[i].now = s.now /\ ~Holds(i)'
      BY <1>1, <2>1, WorkingTurn DEF Holds
    <2> QED
      BY <1>1, <2>1, <2>2, LessTurn
  <1>5. CASE reminder[c.id].status = "scheduled"
    <2>1. /\ reminder' = [reminder EXCEPT ![c.id].status = "fired"]
          /\ scheduler' = [scheduler EXCEPT ![i] = Scheduler("announce", s.now, s.batch \ {c}, c)]
      BY <1>2, <1>5
    <2>2. /\ \A j \in Instances \ {i} : scheduler'[j] = scheduler[j]
          /\ scheduler'[i].batch = s.batch \ {c} /\ scheduler'[i].now = s.now
          /\ scheduler'[i].copy = c /\ scheduler'[i].pc = "announce"
      BY <1>1, <2>1 DEF Scheduler
    <2>3. /\ \A q \in Reminders : reminder'[q].at = reminder[q].at
          /\ \A q \in Reminders : q # c.id => reminder'[q] = reminder[q]
          /\ reminder'[c.id].status = "fired"
      BY <1>1, <1>3, <2>1 DEF TypeOK, Rows
    <2>4. \A j \in Instances, r \in Reminders :
            /\ InBatch(j, r)' => InBatch(j, r)
            /\ HeldBy(j, r)' => HeldBy(j, r) \/ (j = i /\ r = c.id)
            /\ HeldBy(j, r)' /\ j # i => HeldBy(j, r)
      BY <2>2 DEF InBatch, HeldBy, Holds
    <2>5. ~InBatch(i, c.id)'
      BY <1>3, <2>2 DEF InBatch, Turns, BatchesAreDue
    <2>6. BatchesAreDue'
      BY <1>3, <2>2 DEF Turns, BatchesAreDue, Holds
    <2>7. OneScheduler'
      <3>1. InBatch(i, c.id)
        BY <1>3 DEF InBatch
      <3>2. \A j \in Instances : c.id \notin shared => ~InBatch(j, c.id)'
        BY <1>3, <2>4, <2>5, <3>1 DEF Turns, OneScheduler
      <3> QED
        BY <1>1, <2>4, <3>2 DEF Turns, OneScheduler
    <2>8. c.id \notin shared => c.at = reminder[c.id].at
      BY <1>3, <1>5 DEF Turns, CopiesAgree
    <2>9. CopiesAgree'
      <3> SUFFICES ASSUME NEW r \in Reminders \ shared, NEW j \in Instances
                   PROVE  /\ reminder'[r].status = "scheduled" =>
                               \A d \in scheduler'[j].batch : d.id = r => d.at = reminder'[r].at
                          /\ HeldBy(j, r)' => scheduler'[j].copy.at = reminder'[r].at
        BY <1>1 DEF CopiesAgree
      <3>1. ASSUME reminder'[r].status = "scheduled", NEW d \in scheduler'[j].batch, d.id = r
            PROVE  d.at = reminder'[r].at
        <4>1. r # c.id /\ reminder'[r] = reminder[r]
          BY <2>3, <3>1
        <4>2. d \in scheduler[j].batch
          BY <2>2
        <4> QED
          BY <3>1, <4>1, <4>2 DEF Turns, CopiesAgree
      <3>2. ASSUME HeldBy(j, r)' PROVE scheduler'[j].copy.at = reminder'[r].at
        <4>1. CASE j = i
          BY <2>2, <2>3, <2>8, <3>2, <4>1 DEF HeldBy
        <4>2. CASE j # i
          BY <2>2, <2>3, <2>4, <3>2, <4>2 DEF Turns, CopiesAgree
        <4> QED
          BY <4>1, <4>2
      <3> QED
        BY <3>1, <3>2
    <2>10. TimesGoOn'
      <3> SUFFICES ASSUME NEW r \in Reminders \ shared, NEW t \in 0 .. MaxTime, fired[r][t] # 0
                   PROVE  /\ fired[r][t] = 1
                          /\ reminder'[r].status # "none"
                          /\ t <= reminder'[r].at
                          /\ reminder'[r].status = "scheduled" => t < reminder'[r].at
                          /\ \A j \in Instances :
                               (HeldBy(j, r)' /\ scheduler'[j].pc = "announce") => t < reminder'[r].at
        BY <1>1 DEF TimesGoOn
      <3>1. CASE r = c.id
        BY <1>5, <2>3, <3>1 DEF Turns, TimesGoOn
      <3>2. CASE r # c.id
        <4>1. reminder'[r] = reminder[r]
          BY <2>3, <3>2
        <4>2. \A j \in Instances : (HeldBy(j, r)' /\ scheduler'[j].pc = "announce")
                                     => (HeldBy(j, r) /\ scheduler[j].pc = "announce")
          BY <2>2, <3>2 DEF HeldBy, Holds
        <4> QED
          BY <4>1, <4>2 DEF Turns, TimesGoOn
      <3> QED
        BY <3>1, <3>2
    <2> QED
      BY <2>6, <2>7, <2>9, <2>10 DEF Turns
  <1> QED
    BY <1>4, <1>5

\* What is announced is the time of the row, and no announced time is left to come.
LEMMA AnnounceTurn ==
    ASSUME IInv, Turns, NEW i \in Instances, Announce(i)
    PROVE  Turns'
  <1> DEFINE s == scheduler[i]
             c == scheduler[i].copy
  <1>1. /\ s \in Schedulers /\ s.now \in Nat /\ s.pc = "announce" /\ Holds(i)
        /\ scheduler \in [Instances -> Schedulers] /\ UNCHANGED <<reminder, shared>>
        /\ fired \in [Reminders -> [0 .. MaxTime -> Nat]]
    BY DEF IInv, TypeOK, Schedulers, Announce, Holds
  <1>2. c \in Copies /\ c.id \in Reminders /\ c.at \in Nat /\ reminder[c.id].status = "fired"
    BY <1>1 DEF IInv, ClaimsOK, HoldersOK, Copies
  <1>3. /\ \A j \in Instances \ {i} : scheduler'[j] = scheduler[j]
        /\ scheduler'[i].batch = s.batch /\ scheduler'[i].now = s.now
        /\ Holds(i)' => scheduler'[i].copy = c
        /\ scheduler'[i].pc # "announce"
    <2>1. CASE NextTime(c.at, c.period, s.now) = {}
      BY <1>1, <2>1, WorkingTurn DEF Announce, Holds
    <2>2. CASE NextTime(c.at, c.period, s.now) # {}
      BY <1>1, <2>2 DEF Announce, Scheduler
    <2> QED
      BY <2>1, <2>2
  <1>4. \A r \in Reminders, t \in 0 .. MaxTime :
          fired'[r][t] = IF r = c.id /\ t = c.at THEN fired[r][t] + 1 ELSE fired[r][t]
    BY <1>1, <1>2 DEF Announce
  <1>5. \A j \in Instances, r \in Reminders :
          /\ InBatch(j, r)' <=> InBatch(j, r)
          /\ HeldBy(j, r)' => HeldBy(j, r) /\ scheduler'[j].copy = scheduler[j].copy
    BY <1>1, <1>3 DEF InBatch, HeldBy, Holds
  <1>6. BatchesAreDue'
    BY <1>1, <1>3 DEF Turns, BatchesAreDue, Holds
  <1>7. OneScheduler'
    BY <1>1, <1>5 DEF Turns, OneScheduler
  <1>8. CopiesAgree'
    <2>1. \A j \in Instances : scheduler'[j].batch = scheduler[j].batch
      BY <1>3
    <2> QED
      BY <1>1, <1>5, <2>1 DEF Turns, CopiesAgree
  <1>9. TimesGoOn'
    <2> SUFFICES ASSUME NEW r \in Reminders \ shared, NEW t \in 0 .. MaxTime, fired'[r][t] # 0
                 PROVE  /\ fired'[r][t] = 1
                        /\ reminder[r].status # "none"
                        /\ t <= reminder[r].at
                        /\ reminder[r].status = "scheduled" => t < reminder[r].at
                        /\ \A j \in Instances :
                             (HeldBy(j, r)' /\ scheduler'[j].pc = "announce") => t < reminder[r].at
      BY <1>1 DEF TimesGoOn
    <2>1. CASE r = c.id
      <3>1. HeldBy(i, r) /\ c.at = reminder[r].at
        BY <1>1, <2>1 DEF HeldBy, Turns, CopiesAgree
      <3>2. \A j \in Instances : HeldBy(j, r)' => scheduler'[j].pc # "announce"
        BY <1>1, <1>3, <1>5, <3>1 DEF IInv, ClaimsOK, HoldersDiffer, HeldBy
      <3>3. CASE t = c.at
        <4>1. fired[r][t] = 0
          <5>1. t \in Int
            OBVIOUS
          <5> QED
            BY <1>1, <3>1, <3>3, <5>1 DEF Turns, TimesGoOn
        <4> QED
          BY <1>2, <1>4, <2>1, <3>1, <3>2, <3>3, <4>1
      <3>4. CASE t # c.at
        BY <1>1, <1>2, <1>4, <2>1, <3>2, <3>4 DEF Turns, TimesGoOn
      <3> QED
        BY <3>3, <3>4
    <2>2. CASE r # c.id
      <3>1. fired'[r][t] = fired[r][t]
        BY <1>4, <2>2
      <3>2. \A j \in Instances : (HeldBy(j, r)' /\ scheduler'[j].pc = "announce")
                                   => (HeldBy(j, r) /\ scheduler[j].pc = "announce")
        BY <1>3, <1>5
      <3> QED
        BY <3>1, <3>2 DEF Turns, TimesGoOn
    <2> QED
      BY <2>1, <2>2
  <1> QED
    BY <1>6, <1>7, <1>8, <1>9 DEF Turns

\* The next time of a reminder comes after the tick that is handled, and so after
\* the time that was announced.
LEMMA RescheduleTurn ==
    ASSUME IInv, Turns, NEW i \in Instances, Reschedule(i)
    PROVE  Turns'
  <1> DEFINE s == scheduler[i]
             c == scheduler[i].copy
  <1>1. /\ s \in Schedulers /\ s.now \in Nat /\ s.pc = "reschedule" /\ Holds(i)
        /\ scheduler \in [Instances -> Schedulers] /\ UNCHANGED <<fired, shared>>
        /\ reminder \in [Reminders -> Rows]
        /\ scheduler' = [scheduler EXCEPT ![i] = Working(s.now, s.batch)]
    BY DEF IInv, TypeOK, Schedulers, Reschedule, Holds
  <1>2. /\ c \in Copies /\ c.id \in Reminders /\ c.at \in Nat /\ c.period \in Nat
        /\ reminder[c.id].status = "fired"
    BY <1>1 DEF IInv, ClaimsOK, HoldersOK, Copies
  <1>3. PICK at \in NextTime(c.at, c.period, s.now) :
          reminder' = [reminder EXCEPT ![c.id].status = "scheduled", ![c.id].at = at]
    BY DEF Reschedule
  <1>4. at \in Nat /\ at > s.now /\ c.at <= s.now
    BY <1>1, <1>2, <1>3, NextTimes DEF NextTime, Turns, BatchesAreDue
  <1>5. /\ \A j \in Instances \ {i} : scheduler'[j] = scheduler[j]
        /\ scheduler'[i].batch = s.batch /\ scheduler'[i].now = s.now /\ ~Holds(i)'
    BY <1>1, WorkingTurn DEF Holds
  <1>6. /\ reminder'[c.id].status = "scheduled" /\ reminder'[c.id].at = at
        /\ \A q \in Reminders : q # c.id => reminder'[q] = reminder[q]
    BY <1>1, <1>2, <1>3 DEF Rows
  <1>7. \A j \in Instances, r \in Reminders :
          /\ InBatch(j, r)' <=> InBatch(j, r)
          /\ HeldBy(j, r)' => /\ HeldBy(j, r) /\ j # i
                              /\ scheduler'[j] = scheduler[j]
    BY <1>5 DEF InBatch, HeldBy, Holds
  <1>8. \A j \in Instances, r \in Reminders : HeldBy(j, r)' => r # c.id
    BY <1>1, <1>7 DEF IInv, ClaimsOK, HoldersDiffer, HeldBy
  <1>9. c.id \notin shared => \A j \in Instances : ~InBatch(j, c.id)
    BY <1>1, <1>2 DEF Turns, OneScheduler, HeldBy
  <1>10. BatchesAreDue'
    BY <1>1, <1>5 DEF Turns, BatchesAreDue, Holds
  <1>11. OneScheduler'
    BY <1>1, <1>7 DEF Turns, OneScheduler
  <1>12. CopiesAgree'
    <2> SUFFICES ASSUME NEW r \in Reminders \ shared, NEW j \in Instances
                 PROVE  /\ reminder'[r].status = "scheduled" =>
                             \A d \in scheduler'[j].batch : d.id = r => d.at = reminder'[r].at
                        /\ HeldBy(j, r)' => scheduler'[j].copy.at = reminder'[r].at
      BY <1>1 DEF CopiesAgree
    <2>1. scheduler'[j].batch = scheduler[j].batch
      BY <1>5
    <2>2. CASE r = c.id
      BY <1>8, <1>9, <2>1, <2>2 DEF InBatch
    <2>3. CASE r # c.id
      BY <1>6, <1>7, <2>1, <2>3 DEF Turns, CopiesAgree
    <2> QED
      BY <2>2, <2>3
  <1>13. TimesGoOn'
    <2> SUFFICES ASSUME NEW r \in Reminders \ shared, NEW t \in 0 .. MaxTime, fired[r][t] # 0
                 PROVE  /\ fired[r][t] = 1
                        /\ reminder'[r].status # "none"
                        /\ t <= reminder'[r].at
                        /\ reminder'[r].status = "scheduled" => t < reminder'[r].at
                        /\ \A j \in Instances :
                             (HeldBy(j, r)' /\ scheduler'[j].pc = "announce") => t < reminder'[r].at
      BY <1>1 DEF TimesGoOn
    <2>1. CASE r = c.id
      <3>1. reminder[r].at = c.at
        BY <1>1, <2>1 DEF HeldBy, Turns, CopiesAgree
      <3>2. fired[r][t] = 1 /\ t <= c.at
        BY <3>1 DEF Turns, TimesGoOn
      <3> QED
        BY <1>1, <1>2, <1>4, <1>6, <1>8, <2>1, <3>2
    <2>2. CASE r # c.id
      <3>1. reminder'[r] = reminder[r]
        BY <1>6, <2>2
      <3> QED
        BY <1>7, <3>1 DEF Turns, TimesGoOn
    <2> QED
      BY <2>1, <2>2
  <1> QED
    BY <1>10, <1>11, <1>12, <1>13 DEF Turns

LEMMA FaultTurn ==
    ASSUME IInv, Turns, NEW i \in Instances, Crash(i) \/ ClaimFails(i) \/ RescheduleFails(i)
    PROVE  Turns'
  <1>1. /\ UNCHANGED <<reminder, fired, shared>>
        /\ scheduler \in [Instances -> Schedulers]
    BY DEF IInv, TypeOK, Crash, ClaimFails, RescheduleFails, Fault
  <1>2. PICK batch \in SUBSET scheduler[i].batch :
          scheduler' = [scheduler EXCEPT ![i] = Working(scheduler[i].now, batch)]
    BY DEF Crash, ClaimFails, RescheduleFails, Fault, Working
  <1>3. /\ \A j \in Instances \ {i} : scheduler'[j] = scheduler[j]
        /\ scheduler'[i].batch \subseteq scheduler[i].batch
        /\ scheduler'[i].now = scheduler[i].now /\ ~Holds(i)'
    BY <1>1, <1>2, WorkingTurn DEF Holds
  <1> QED
    BY <1>1, <1>3, LessTurn

\* As long as no two schedulers had a reminder in their batches at once, each of
\* its times is announced once, also when schedulers die between the claim and
\* the reschedule (fireDue).
THEOREM EachTimeOnce == Spec => []FiresOnce
  <1>1. Init => Turns
    <2> SUFFICES ASSUME Init PROVE Turns
      OBVIOUS
    <2>1. /\ \A i \in Instances : scheduler[i].batch = {} /\ ~Holds(i)
          /\ \A r \in Reminders, t \in 0 .. MaxTime : fired[r][t] = 0
      BY DEF Init, Holds, Waiting, Scheduler
    <2> QED
      BY <2>1 DEF Turns, BatchesAreDue, OneScheduler, CopiesAgree, TimesGoOn, InBatch, HeldBy
  <1>2. IInv /\ Turns /\ [Next]_vars => Turns'
    <2> SUFFICES ASSUME IInv, Turns, [Next]_vars PROVE Turns'
      OBVIOUS
    <2>1. CASE Tick \/ UNCHANGED vars
      BY <2>1 DEF Tick, vars, Turns, BatchesAreDue, OneScheduler, CopiesAgree, TimesGoOn,
                  InBatch, HeldBy, Holds
    <2> QED
      BY <2>1, UserTurn, LoadTurn, ClaimTurn, AnnounceTurn, RescheduleTurn, FaultTurn
         DEF Next, Fire
  <1>3. IInv /\ Turns => FiresOnce
    <2> SUFFICES ASSUME IInv, Turns, NEW r \in Reminders \ shared, NEW t \in 0 .. MaxTime
                 PROVE  fired[r][t] <= 1
      BY DEF FiresOnce
    <2> QED
      BY DEF IInv, TypeOK, Turns, TimesGoOn
  <1> QED
    BY <1>1, <1>2, <1>3, Invariance, PTL DEF Spec
===============================================================================
