----------------------------- MODULE MCAcceptor -----------------------------
(* Small instances of Acceptor for TLC. *)
EXTENDS Acceptor
=============================================================================
