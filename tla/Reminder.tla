------------------------------- MODULE Reminder -------------------------------
(***************************************************************************)
(* Reminders of a conversation and the schedulers that announce them.      *)
(*                                                                         *)
(* Every API instance runs one scheduler.  Each second it loads the due    *)
(* rows (fireDue) and then takes them one after the other: it claims the   *)
(* row with a conditional UPDATE, announces the reminder to the members    *)
(* and, if it repeats, schedules it again with an UPDATE that is not       *)
(* conditional.  Nothing but the claim protects one scheduler's batch from *)
(* another scheduler or from a user who cancels.                           *)
(***************************************************************************)
EXTENDS Integers, FiniteSets

CONSTANTS
    Reminders,  \* reminder ids, numbered like the rows of chat_reminders
    Instances,  \* API instances
    Periods,    \* repeat periods users choose, 0 for "none"
    BatchLimit, \* rows a scheduler loads at once
    SkipLimit,  \* missed occurrences that nextReminderTime steps over
    MaxTime,    \* bound: the clock stops here
    MaxFaults   \* bound: so many schedulers die or statements fail

ASSUME ReminderAssumption ==
    /\ Reminders \subseteq Nat \ {0}
    /\ Periods \subseteq Nat
    /\ {BatchLimit, SkipLimit} \subseteq Nat \ {0}
    /\ {MaxTime, MaxFaults} \subseteq Nat

VARIABLES
    reminder,   \* reminder[r] is the row of r
    scheduler,  \* scheduler[i] is what instance i is doing
    clock,      \* the time
    faults,     \* how many schedulers died or statements failed
    fired,      \* history: fired[r][t] counts the announcements of r for time t
    shared      \* history: reminders that two schedulers held in their batches at once

vars == <<reminder, scheduler, clock, faults, fired, shared>>

NoReminder == [status |-> "none", at |-> 0, period |-> 0]

NoCopy == [id |-> 0, at |-> 0, period |-> 0]

\* A scheduler waits for a tick or works on a batch of copies of rows, the
\* claimed one of which it holds apart; it has handled the ticks up to now.
Scheduler(pc, now, batch, copy) == [pc |-> pc, now |-> now, batch |-> batch, copy |-> copy]

Waiting(now) == Scheduler("wait", now, {}, NoCopy)

\* Mutant: the end of the batch is not noticed.
WorkingPastEnd(now, batch) == Scheduler("claim", now, batch, NoCopy)

\* The loop over the batch comes to the next copy or to its end.
Working(now, batch) ==
    IF batch = {} THEN Waiting(now) ELSE Scheduler("claim", now, batch, NoCopy)

Copy(r) == [id |-> r, at |-> reminder[r].at, period |-> reminder[r].period]

\* ORDER BY remind_at LIMIT BatchLimit: ties are broken as the database likes.
Batches(due) ==
    {b \in SUBSET due : /\ Cardinality(b) <= BatchLimit
                        /\ b # due => Cardinality(b) = BatchLimit
                        /\ \A c \in b, d \in due \ b : c.at <= d.at}

Firsts(batch) == {c \in batch : \A d \in batch : c.at <= d.at}

\* Mutant: the occurrence that is due now is returned again.
NextTimeAtOnce(at, period, now) ==
    {t \in {at + k * period : k \in 0 .. SkipLimit} : period # 0 /\ t >= now /\ t < now + period}

\* Mutant: missed occurrences are not stepped over.
NextTimeNoSkip(at, period, now) == {t \in {at + period} : period # 0 /\ t > now}

\* nextReminderTime: the first occurrence after now, none if the reminder does
\* not repeat or too many occurrences were missed.
NextTime(at, period, now) ==
    {t \in {at + k * period : k \in 0 .. SkipLimit} : period # 0 /\ t > now /\ t <= now + period}

Init ==
    /\ reminder = [r \in Reminders |-> NoReminder]
    /\ scheduler = [i \in Instances |-> Waiting(0)]
    /\ clock = 0
    /\ faults = 0
    /\ fired = [r \in Reminders |-> [t \in 0 .. MaxTime |-> 0]]
    /\ shared = {}

Tick ==
    /\ clock < MaxTime
    /\ clock' = clock + 1
    /\ UNCHANGED <<reminder, scheduler, faults, fired, shared>>

\* ReminderService.Create refuses a time that is not in the future.
Create(r, at, period) ==
    /\ reminder[r].status = "none"
    /\ at > clock
    /\ reminder' = [reminder EXCEPT ![r] = [status |-> "scheduled", at |-> at, period |-> period]]
    /\ UNCHANGED <<scheduler, clock, faults, fired, shared>>

\* ReminderService.Cancel: UPDATE ... WHERE status = 'scheduled'; in any other
\* status it changes nothing and is answered with success all the same.
Cancel(r) ==
    /\ reminder[r].status = "scheduled"
    /\ reminder' = [reminder EXCEPT ![r].status = "canceled"]
    /\ UNCHANGED <<scheduler, clock, faults, fired, shared>>

-----------------------------------------------------------------------------
(* fireDue of one scheduler.                                                 *)

\* Mutant: only reminders of exactly this time are due.
DueExactly(now) ==
    {Copy(r) : r \in {x \in Reminders : reminder[x].status = "scheduled" /\ reminder[x].at = now}}

Due(now) ==
    {Copy(r) : r \in {x \in Reminders : reminder[x].status = "scheduled" /\ reminder[x].at <= now}}

\* The reminders of a batch that another scheduler holds too.
HeldElsewhere(i, batch) ==
    {r \in Reminders : /\ \E c \in batch : c.id = r
                       /\ \E j \in Instances \ {i} : \E c \in scheduler[j].batch : c.id = r}

\* The ticker drops ticks while a batch is handled and keeps at most one, so
\* the tick that is handled next is some later one.
Load(i) ==
    /\ scheduler[i].pc = "wait"
    /\ \E now \in scheduler[i].now + 1 .. clock : \E batch \in Batches(Due(now)) :
         /\ scheduler' = [scheduler EXCEPT ![i] = Working(now, batch)]
         /\ shared' = shared \cup HeldElsewhere(i, batch)
    /\ UNCHANGED <<reminder, clock, faults, fired>>

\* Mutant: the claim does not test the status.
ClaimAlways(i) ==
    LET s == scheduler[i] IN
    /\ s.pc = "claim"
    /\ \E c \in Firsts(s.batch) :
         /\ reminder' = [reminder EXCEPT ![c.id].status = "fired"]
         /\ scheduler' = [scheduler EXCEPT ![i] = Scheduler("announce", s.now, s.batch \ {c}, c)]
    /\ UNCHANGED <<clock, faults, fired, shared>>

\* UPDATE ... WHERE status = 'scheduled': the row is claimed, or it is skipped.
Claim(i) ==
    LET s == scheduler[i] IN
    /\ s.pc = "claim"
    /\ \E c \in Firsts(s.batch) :
         IF reminder[c.id].status = "scheduled"
         THEN /\ reminder' = [reminder EXCEPT ![c.id].status = "fired"]
              /\ scheduler' = [scheduler EXCEPT ![i] = Scheduler("announce", s.now, s.batch \ {c}, c)]
         ELSE /\ scheduler' = [scheduler EXCEPT ![i] = Working(s.now, s.batch \ {c})]
              /\ UNCHANGED reminder
    /\ UNCHANGED <<clock, faults, fired, shared>>

\* Broadcast and push of reminder.due.
Announce(i) ==
    LET s == scheduler[i]
        c == s.copy
    IN /\ s.pc = "announce"
       /\ fired' = [fired EXCEPT ![c.id][c.at] = @ + 1]
       /\ scheduler' = [scheduler EXCEPT ![i] =
            IF NextTime(c.at, c.period, s.now) = {} THEN Working(s.now, s.batch)
            ELSE Scheduler("reschedule", s.now, s.batch, c)]
       /\ UNCHANGED <<reminder, clock, faults, shared>>

\* UPDATE ... WHERE id = ?, whatever has become of the row.
Reschedule(i) ==
    LET s == scheduler[i]
        c == s.copy
    IN /\ s.pc = "reschedule"
       /\ \E at \in NextTime(c.at, c.period, s.now) :
            reminder' = [reminder EXCEPT ![c.id].status = "scheduled", ![c.id].at = at]
       /\ scheduler' = [scheduler EXCEPT ![i] = Working(s.now, s.batch)]
       /\ UNCHANGED <<clock, faults, fired, shared>>

Fault(i, next) ==
    /\ faults < MaxFaults
    /\ faults' = faults + 1
    /\ scheduler' = [scheduler EXCEPT ![i] = next]
    /\ UNCHANGED <<reminder, clock, fired, shared>>

\* The instance dies and starts again; its batch is lost.
Crash(i) == scheduler[i].pc # "wait" /\ Fault(i, Waiting(scheduler[i].now))

\* The UPDATE that claims or the one that reschedules fails: the scheduler goes
\* on with the next copy.
ClaimFails(i) ==
    LET s == scheduler[i] IN
    /\ s.pc = "claim"
    /\ \E c \in Firsts(s.batch) : Fault(i, Working(s.now, s.batch \ {c}))

RescheduleFails(i) ==
    LET s == scheduler[i] IN s.pc = "reschedule" /\ Fault(i, Working(s.now, s.batch))

Fire(i) == Load(i) \/ Claim(i) \/ Announce(i) \/ Reschedule(i)

Next ==
    \/ Tick
    \/ \E r \in Reminders : \/ Cancel(r)
                            \/ \E at \in 1 .. MaxTime, p \in Periods : Create(r, at, p)
    \/ \E i \in Instances : Fire(i) \/ Crash(i) \/ ClaimFails(i) \/ RescheduleFails(i)

Spec == Init /\ [][Next]_vars

\* Time passes and every scheduler keeps running.
Fairness == WF_vars(Tick) /\ \A i \in Instances : WF_vars(Fire(i))

FairSpec == Spec /\ Fairness

-----------------------------------------------------------------------------
(* Properties.                                                               *)

Rows == [status : {"none", "scheduled", "fired", "canceled"}, at : Nat, period : Nat]

Copies == [id : Reminders, at : Nat, period : Nat]

Schedulers == [pc : {"wait", "claim", "announce", "reschedule"}, now : Nat,
               batch : SUBSET Copies, copy : Copies \cup {NoCopy}]

\* The rows and the schedulers keep their shape; a scheduler that claims has
\* something to claim, one past its claim holds a copy of the row.
TypeOK ==
    /\ reminder \in [Reminders -> Rows]
    /\ scheduler \in [Instances -> Schedulers]
    /\ \A i \in Instances :
         /\ scheduler[i].pc = "claim" => scheduler[i].batch # {}
         /\ scheduler[i].pc \in {"announce", "reschedule"} => scheduler[i].copy # NoCopy
    /\ clock \in Nat /\ faults \in Nat
    /\ fired \in [Reminders -> [0 .. MaxTime -> Nat]]
    /\ shared \subseteq Reminders

\* A reminder that does not repeat is announced once, also when several
\* schedulers loaded its row or one of them died (chat_production_service_test.go:272,
\* "FiresOnce").
SingleFiresOnce ==
    \A r \in Reminders, t \in 0 .. MaxTime : reminder[r].period = 0 => fired[r][t] <= 1

\* No time of a repeating reminder is announced twice either, as long as no two
\* schedulers had the reminder in their batches at once: after that the slower
\* one announces a time again and may even set the reminder back to it.
FiresOnce == \A r \in Reminders \ shared, t \in 0 .. MaxTime : fired[r][t] <= 1

\* Nothing revives a canceled reminder, not even the unconditional reschedule
\* of a scheduler that loaded it before.
CanceledIsFinal ==
    [][\A r \in Reminders : reminder[r].status = "canceled" => reminder'[r] = reminder[r]]_vars

\* While the schedulers run and nothing fails, each time a reminder is set to is
\* announced, unless somebody cancels it first: late batches skip none and lose
\* none.  Only a repeating reminder that two schedulers held at once may be set
\* past a time that nobody announced.
EveryTimeIsAnnounced ==
    \A r \in Reminders, t \in 0 .. MaxTime :
      (reminder[r].status = "scheduled" /\ reminder[r].at = t)
        ~> \/ fired[r][t] > 0 \/ reminder[r].status = "canceled" \/ faults > 0
           \/ r \in shared /\ reminder[r].period # 0

\* A repeating reminder is always set again, unless somebody cancels it or the
\* scheduler that claimed it fails.
RepeatsGoOn ==
    \A r \in Reminders :
      (reminder[r].status = "fired" /\ reminder[r].period # 0)
        ~> (reminder[r].status \in {"scheduled", "canceled"} \/ faults > 0)
=============================================================================
