----------------------------- MODULE ByteStream -----------------------------
(***************************************************************************)
(* What either half of a session promises, with no queue, no completion    *)
(* port and no thread in sight: the bytes handed to it, numbered 1, 2,     *)
(* 3, ..., come out in that order, each one once, and none before it was   *)
(* handed over.  For SessionSender the bytes are handed over by SendAsync  *)
(* and come out on the connection; for SessionReceiver they arrive from    *)
(* the peer and come out in calls of OnReceivePacket.  Nothing is promised *)
(* about how many come out: the connection may break at any time.          *)
(***************************************************************************)
EXTENDS Naturals, Sequences

VARIABLES
  submitted,  \* how many bytes have been handed over
  wire        \* the bytes that have come out, by number, oldest first

vars == <<submitted, wire>>

Init ==
  /\ submitted = 0
  /\ wire = <<>>

(* More bytes are handed over. *)
Submit ==
  /\ submitted' > submitted
  /\ UNCHANGED wire

(* The next bytes in order come out. *)
Transmit ==
  /\ Len(wire') \in Len(wire) + 1 .. submitted
  /\ wire' = wire \o [i \in 1 .. Len(wire') - Len(wire) |-> Len(wire) + i]
  /\ UNCHANGED submitted

Next == Submit \/ Transmit

Spec == Init /\ [][Next]_vars
=============================================================================
