------------------------- MODULE MCSessionReceiver -------------------------
(* Small instances of SessionReceiver for TLC. *)
EXTENDS SessionReceiver, TLC

Symmetry == Permutations(Workers)
=============================================================================
