--------------------------- MODULE ServerSession ---------------------------
(***************************************************************************)
(* ClientSession of the example server                                     *)
(* (examples/server/client_session.cpp): SessionReceiver passes it the     *)
(* stream from one client piece by piece (OnReceivePacket), a              *)
(* PacketReceiver cuts the stream into packets, each packet is verified    *)
(* and its handler answers with SendAsync.  The client sends any packets,  *)
(* also ones that do not verify; the pieces are cut anywhere, or, without  *)
(* Coalescing, only within packets.                                        *)
(***************************************************************************)
EXTENDS PacketReceiver, FiniteSets

CONSTANTS
  Requests,          \* the kinds of packets OnPacket has a handler for
  Other,             \* the kind of a packet it has none for
  Payloads,          \* the lengths of the data clients send
  MaxPackets,        \* bound: how many packets the client sends
  kSocketBufferSize, \* the most one call of OnReceivePacket gets, 1460
  Coalescing         \* whether one call may get bytes of several packets

ASSUME SessionAssumption ==
  /\ Other \notin Requests
  /\ Payloads \subseteq Nat
  /\ \A n \in Payloads : n + kPacketLengthSize < UINT32
  /\ MaxPackets \in Nat
  /\ kSocketBufferSize \in Nat \ {0}
  /\ Coalescing \in BOOLEAN

VARIABLES
  packets,          \* what the client has sent, oldest first
  passed,           \* how many bytes OnReceivePacket has got
  packet_receiver_, \* the member of that name
  buffer,           \* the argument of OnReceivePacket, <<>> outside of it
  remain_length,    \* its local variable of that name
  handled,          \* the positions of the data of the packets OnPacket has got
  answers           \* the results passed to SendAsync

vars == <<packets, passed, packet_receiver_, buffer, remain_length, handled, answers>>

Kinds == Requests \cup {Other}

(* A packet in the stream: it holds the positions from .. to-1, header and *)
(* data, and verifies or does not.                                         *)
Packet == [from : Nat, to : Nat, kind : Kinds, valid : BOOLEAN]

Init ==
  /\ packets = <<>>
  /\ passed = 0
  /\ packet_receiver_ = NewReceiver
  /\ buffer = <<>>
  /\ remain_length = 0
  /\ handled = <<>>
  /\ answers = <<>>

-----------------------------------------------------------------------------
(* Where the i-th packet begins, or would begin. *)
Start(i) == IF i = 1 THEN 1 ELSE packets[i - 1].to

Sent == Start(Len(packets) + 1) - 1

(* The byte at position p of a packet: in the header a digit of the        *)
(* length.  What is in the data only Readings looks at, so that one value  *)
(* stands for any.                                                         *)
DataValue == 1

DataLength(packet) == packet.to - packet.from - kPacketLengthSize

ByteOf(packet, p) ==
  LET i == p - packet.from
  IN [pos   |-> p,
      value |-> IF i < kPacketLengthSize
                THEN (DataLength(packet) \div Weight[i]) % Base
                ELSE DataValue]

(* The byte at position p of the stream. *)
Holds(packet, p) == packet.from <= p /\ p < packet.to

ByteAt(p) == ByteOf(packets[CHOOSE i \in 1 .. Len(packets) : Holds(packets[i], p)], p)

Bytes(from, to) == [i \in 1 .. to - from |-> ByteAt(from + i - 1)]

(* The positions of some bytes, and of the data of the i-th packet. *)
Positions(bytes) == [j \in 1 .. Len(bytes) |-> bytes[j].pos]

DataOf(i) ==
  [j \in 1 .. DataLength(packets[i]) |-> packets[i].from + kPacketLengthSize + j - 1]

(* The client sends a packet.  One without data does not verify. *)
Send(kind, n, valid) ==
  /\ Len(packets) < MaxPackets
  /\ n = 0 => ~valid
  /\ packets' = Append(packets,
       [from |-> Sent + 1, to |-> Sent + 1 + kPacketLengthSize + n,
        kind |-> kind, valid |-> valid])
  /\ UNCHANGED <<passed, packet_receiver_, buffer, remain_length, handled, answers>>

(* SessionReceiver calls OnReceivePacket with the next n bytes. *)
OnReceivePacket(n) ==
  /\ buffer = <<>>
  /\ passed + n <= Sent
  /\ ~Coalescing => \E i \in 1 .. Len(packets) :
       packets[i].from <= passed + 1 /\ passed + n < packets[i].to
  /\ buffer' = Bytes(passed + 1, passed + n + 1)
  /\ remain_length' = n
  /\ passed' = passed + n
  /\ UNCHANGED <<packets, packet_receiver_, handled, answers>>

(* What Verifier and GetPacket say of the data: of a packet's own data     *)
(* what the packet is, and of anything else they may say anything.         *)
Readings(data) ==
  LET whole == {i \in 1 .. Len(packets) : Positions(data) = DataOf(i)}
  IN IF whole # {}
     THEN {[kind |-> packets[i].kind, valid |-> packets[i].valid] : i \in whole}
     ELSE [kind : Kinds, valid : BOOLEAN]

(* The loop ends when nothing remains. *)
Continue(remain) ==
  /\ remain_length' = remain
  /\ buffer' = IF remain = 0 THEN <<>> ELSE buffer

(* OnPacket: the handler of a request answers it. *)
OnPacket(kind, data) ==
  /\ handled' = Append(handled, Positions(data))
  /\ answers' = IF kind \in Requests THEN Append(answers, kind) ELSE answers

(* One turn of the loop.  OnReceive gets the pointer the loop began with.  *)
(* A packet that does not verify ends the loop and stays where it is.      *)
(* Mutated form: such a packet is cleared away.                            *)
TurnClearsInvalid ==
  /\ buffer # <<>>
  /\ LET got == OnReceive(packet_receiver_, buffer, remain_length)
     IN \/ /\ ~IsComplete(got.receiver)
           /\ packet_receiver_' = got.receiver
           /\ Continue(got.remain)
           /\ UNCHANGED <<handled, answers>>
        \/ /\ IsComplete(got.receiver)
           /\ packet_receiver_' = Clear(got.receiver)
           /\ Continue(got.remain)
           /\ \E reading \in Readings(Data(got.receiver)) :
                IF reading.valid
                THEN OnPacket(reading.kind, Data(got.receiver))
                ELSE UNCHANGED <<handled, answers>>
  /\ UNCHANGED <<packets, passed>>

Turn ==
  /\ buffer # <<>>
  /\ LET got == OnReceive(packet_receiver_, buffer, remain_length)
     IN \/ /\ ~IsComplete(got.receiver)
           /\ packet_receiver_' = got.receiver
           /\ Continue(got.remain)
           /\ UNCHANGED <<handled, answers>>
        \/ /\ IsComplete(got.receiver)
           /\ \E reading \in Readings(Data(got.receiver)) :
                IF reading.valid
                THEN /\ OnPacket(reading.kind, Data(got.receiver))
                     /\ packet_receiver_' = Clear(got.receiver)
                     /\ Continue(got.remain)
                ELSE /\ packet_receiver_' = got.receiver
                     /\ Continue(0)
                     /\ UNCHANGED <<handled, answers>>
  /\ UNCHANGED <<packets, passed>>

Next ==
  \/ \E kind \in Kinds, n \in Payloads, valid \in BOOLEAN : Send(kind, n, valid)
  \/ \E n \in 1 .. kSocketBufferSize : OnReceivePacket(n)
  \/ Turn

Spec == Init /\ [][Next]_vars

(* The worker in the loop goes on, and what has arrived is passed on (that *)
(* is AllRead of SessionReceiver).  Nothing makes the client send.         *)
Fairness ==
  /\ WF_vars(\E n \in 1 .. kSocketBufferSize : OnReceivePacket(n))
  /\ WF_vars(Turn)

FairSpec == Spec /\ Fairness

-----------------------------------------------------------------------------
TypeOK ==
  /\ packets \in Seq(Packet)
  /\ passed \in 0 .. Sent
  /\ packet_receiver_ \in ReceiverState
  /\ buffer \in Seq(Byte)
  /\ remain_length \in 0 .. Len(buffer)
  /\ handled \in Seq(Seq(Nat))
  /\ answers \in Seq(Requests)

(* Nothing is ever copied beyond the end of buffer_, however much or       *)
(* little earlier packets made it grow.                                    *)
WithinBuffer == packet_receiver_.offset_ <= Len(packet_receiver_.buffer_)

(* packet_receiver_ always holds the beginning of the packet after those   *)
(* handled, and once its header is there length_ is its length.            *)
HoldsNextPacket ==
  LET next == Len(handled) + 1
      r == packet_receiver_
  IN /\ \A i \in 1 .. r.offset_ : r.buffer_[i].pos = Start(next) + i - 1
     /\ r.offset_ >= kPacketLengthSize => r.length_ = DataLength(packets[next])

(* The packets among those handled that have a handler to answer them. *)
Answered == {i \in 1 .. Len(handled) : packets[i].kind \in Requests}
AnsweredUpTo(i) == {j \in Answered : j <= i}

(* OnPacket gets the client's packets whole and in order, and answers      *)
(* those that have a handler, in order and once; it gets nothing from the  *)
(* first packet on that does not verify.                                   *)
HandledInOrder ==
  /\ Len(handled) <= Len(packets)
  /\ \A i \in 1 .. Len(handled) : packets[i].valid /\ handled[i] = DataOf(i)
  /\ Len(answers) = Cardinality(Answered)
  /\ \A i \in Answered : answers[Cardinality(AnsweredUpTo(i))] = packets[i].kind

(* Every packet the client sends is handled, unless it or one before it    *)
(* does not verify.                                                        *)
AllHandled ==
  \A i \in 1 .. MaxPackets :
    Len(packets) >= i
      ~> \/ Len(handled) >= i
         \/ \E j \in 1 .. Len(packets) : j <= i /\ ~packets[j].valid
=============================================================================
