---------------------------- MODULE CallLifecycle ----------------------------
(***************************************************************************)
(* What a call promises to its two users, whatever the requests, retries   *)
(* and timeouts behind it: it rings once, at most one device takes it, and *)
(* for good; it is connected only after it was taken; it ends at most once *)
(* and an ended call keeps its outcome.                                    *)
(***************************************************************************)
CONSTANTS Calls, Holders, Nobody, Outcomes

VARIABLES
    phase,   \* phase[i] \in {"none", "ringing", "taken", "connected", "over"}
    holder,  \* the device that took call i
    outcome  \* how call i ended

Init ==
    /\ phase = [i \in Calls |-> "none"]
    /\ holder = [i \in Calls |-> Nobody]
    /\ outcome = [i \in Calls |-> Nobody]

Ring(i) ==
    /\ phase[i] = "none"
    /\ phase' = [phase EXCEPT ![i] = "ringing"]
    /\ UNCHANGED <<holder, outcome>>

Take(i, d) ==
    /\ phase[i] = "ringing"
    /\ phase' = [phase EXCEPT ![i] = "taken"]
    /\ holder' = [holder EXCEPT ![i] = d]
    /\ UNCHANGED outcome

Connect(i) ==
    /\ phase[i] = "taken"
    /\ phase' = [phase EXCEPT ![i] = "connected"]
    /\ UNCHANGED <<holder, outcome>>

\* Several calls may run out of time at once.
End(ended) ==
    /\ ended # {}
    /\ \A i \in ended : phase[i] \in {"ringing", "taken", "connected"}
    /\ phase' = [i \in Calls |-> IF i \in ended THEN "over" ELSE phase[i]]
    /\ \A i \in ended : outcome'[i] \in Outcomes
    /\ outcome' = [i \in Calls |-> IF i \in ended THEN outcome'[i] ELSE outcome[i]]
    /\ UNCHANGED holder

Next ==
    \/ \E i \in Calls : Ring(i) \/ Connect(i)
    \/ \E i \in Calls, d \in Holders : Take(i, d)
    \/ \E ended \in SUBSET Calls : End(ended)

Spec == Init /\ [][Next]_<<phase, holder, outcome>>
=============================================================================
