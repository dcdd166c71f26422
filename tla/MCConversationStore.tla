------------------------- MODULE MCConversationStore -------------------------
(* A group of one or two people and two transactions at a time. *)
EXTENDS ConversationStore, TLC

CONSTANTS ann, bob

Changing   == [operations |-> {"send", "read", "edit", "recall", "hide"}, ids |-> 2]
Membership == [operations |-> {"send", "read", "add", "remove"}, ids |-> 3]
Joining    == [operations |-> {"send", "read", "deliver", "add"}, ids |-> 3]
Voting     == [operations |-> {"send", "poll", "vote", "read"}, ids |-> 4]

MCChanging            == {Changing}
MCMembershipAndVoting == {Membership, Joining, Voting}
MCVoting              == {Voting}
MCSymmetry            == Permutations(Workers)
=============================================================================
