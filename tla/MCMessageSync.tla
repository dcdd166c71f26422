---------------------------- MODULE MCMessageSync ----------------------------
(* One client that receives, and one request at a time that writes. *)
EXTENDS MessageSync
=============================================================================
