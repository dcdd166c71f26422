----------------------------- MODULE MCCallScreen -----------------------------
(* A call between two devices that is rejected; one thing goes wrong. *)
EXTENDS CallScreen, TLC

CONSTANTS ann, bob, a1, b1, k1

MCUserOf   == (a1 :> ann) @@ (b1 :> bob)
MCRejected == {[open |-> {a1, b1}, callers |-> {a1}, calls |-> {k1},
                acts |-> {"reject", "return"}, faults |-> 1]}
=============================================================================
