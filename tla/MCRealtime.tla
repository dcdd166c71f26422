------------------------------ MODULE MCRealtime ------------------------------
(* Two connections of a user; two requests at a time, three starts. *)
EXTENDS Realtime
=============================================================================
