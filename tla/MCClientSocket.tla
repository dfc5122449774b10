--------------------------- MODULE MCClientSocket ---------------------------
(* Small instances of ClientSocket for TLC. *)
EXTENDS ClientSocket
=============================================================================
