---------------------------- MODULE MCCallService ----------------------------
(* Alice with one device and Bob with one or two. *)
EXTENDS CallService, TLC

CONSTANTS alice, bob, phoneA, phoneB, tabletB

MCMembers    == [v \in Conversations |-> {alice, bob}]
MCSessions   == {<<alice, phoneA>>, <<bob, phoneB>>, <<bob, tabletB>>}
MCEvents     == Ops
MCSymmetry   == {w @@ d : w \in Permutations(Workers),
                          d \in Permutations({phoneB, tabletB})}
=============================================================================
