--------------------------- MODULE MCBackgroundWork ---------------------------
(* Two reminders and two schedulers; one call of two devices. *)
EXTENDS BackgroundWork

CONSTANTS alice, bob, phoneA, phoneB

MCMembers  == [v \in Conversations |-> {alice, bob}]
MCSessions == {<<alice, phoneA>>, <<bob, phoneB>>}
MCEvents   == {"call.accept", "call.cancel", "call.end", "call.offer", "call.answer"}
=============================================================================
