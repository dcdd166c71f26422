------------------------------ MODULE MCServices ------------------------------
(* Two users and two requests at a time, for each service. *)
EXTENDS Services, TLC

\* One choice and custom options, or several choices of those that there are.
MCKinds == {[multiple |-> FALSE, custom |-> TRUE], [multiple |-> TRUE, custom |-> FALSE]}

MCScenarios == {{"pin", "unpin"}, {"pin", "recall"}, {"pin", "hide"}, {"react", "unreact", "recall"}}

\* A group of two, which is no direct conversation.
MCGroups == {Users}

MCSymmetry == Permutations(Requests)
=============================================================================
