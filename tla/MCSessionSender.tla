-------------------------- MODULE MCSessionSender --------------------------
(* Small instances of SessionSender for TLC. *)
EXTENDS SessionSender
=============================================================================
