---------------------------- MODULE BackgroundWork ----------------------------
(***************************************************************************)
(* What an API instance does without a request: the schedulers of the      *)
(* reminders and the reaper of the calls.  They work on tables of their    *)
(* own, so a behaviour exercises one of them, chosen at the start.         *)
(***************************************************************************)
EXTENDS Reminder

CONSTANTS CallIds, Conversations, Members, Sessions, Events, Workers, None, RingTimeout,
          ConnectTimeout, MaximumDuration, LastCallTime, LastStart, LastAccept \* calls

VARIABLES call, req, callClock, connected, replies, relayed

VARIABLE part \* the work that this behaviour exercises

Call == INSTANCE CallService WITH clock <- callClock, MaxTime <- LastCallTime

callVars == <<call, req, callClock, connected, replies, relayed>>
workVars == <<vars, callVars, part>>

WorkInit ==
    /\ part \in {"reminders", "calls"}
    /\ Init
    /\ Call!Init

RemindersNext == part = "reminders" /\ Next /\ UNCHANGED <<callVars, part>>
CallsNext     == part = "calls" /\ Call!Next /\ UNCHANGED <<vars, part>>

WorkNext == RemindersNext \/ CallsNext

\* The fairness of Reminder and of CallService, each for its part.
WorkFairness ==
    /\ WF_vars(part = "reminders" /\ Tick)
    /\ \A i \in Instances : WF_vars(part = "reminders" /\ Fire(i))
    /\ WF_callVars(part = "calls" /\ Call!Tick)
    /\ WF_callVars(part = "calls" /\ Call!ReapRinging)
    /\ WF_callVars(part = "calls" /\ Call!ReapConnecting)
    /\ WF_callVars(part = "calls" /\ Call!ReapActive)
    /\ \A w \in Workers : WF_callVars(part = "calls" /\ Call!Handle(w))

WorkSpec == WorkInit /\ [][WorkNext]_workVars /\ WorkFairness

\* No call goes on for ever: the reaper ends it if nobody else does.
EveryCallEnds == Call!EveryCallEnds
=============================================================================
