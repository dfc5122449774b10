--------------------------- MODULE PacketReceiver ---------------------------
(***************************************************************************)
(* iocplib::PacketReceiver (lib/iocplib/packet.h): cuts a stream of bytes  *)
(* into packets, each a header that holds the length of the data and then  *)
(* the data.  This module has its state and its operations; ServerSession  *)
(* calls them.                                                             *)
(*                                                                         *)
(* A byte is its value and its position in the stream, which the code does *)
(* not have: with it a byte that comes from the wrong place shows.         *)
(***************************************************************************)
EXTENDS Integers, Sequences

CONSTANTS
  kDefaultBufferSize, \* the first size of buffer_, 512 in the code
  kPacketLengthSize,  \* the bytes of a header, 4 in the code
  Base                \* how many values a byte has, 256 in the code

ASSUME PacketAssumption ==
  /\ kDefaultBufferSize \in Nat
  /\ kPacketLengthSize \in Nat \ {0}
  /\ Base \in Nat \ {0, 1}

(* What the i-th byte of a number counts for, the least significant being  *)
(* byte 0, and how many values length_ and offset_ have: a header holds    *)
(* one of them.                                                            *)
Weight[i \in 0 .. kPacketLengthSize] == IF i = 0 THEN 1 ELSE Base * Weight[i - 1]

UINT32 == Weight[kPacketLengthSize]

Byte == [pos : Nat, value : 0 .. Base - 1]

(* A byte of buffer_ nothing was copied to yet. *)
Unset == [pos |-> 0, value |-> 0]

ReceiverState ==
  [length_ : 0 .. UINT32 - 1, offset_ : 0 .. UINT32 - 1, buffer_ : Seq(Byte)]

NewReceiver ==
  [length_ |-> 0, offset_ |-> 0,
   buffer_ |-> [i \in 1 .. kDefaultBufferSize |-> Unset]]

(* Mutated form: offset_ is left, so that the next packet is taken for     *)
(* more of this one.                                                       *)
ClearLengthOnly(r) == [r EXCEPT !.length_ = 0]

Clear(r) == [r EXCEPT !.length_ = 0, !.offset_ = 0]

(* Mutated form: one byte more is waited for. *)
IsOverfull(r) == (r.length_ + kPacketLengthSize + 1) % UINT32 = r.offset_

IsComplete(r) == (r.length_ + kPacketLengthSize) % UINT32 = r.offset_

(* The data of a complete packet, buffer() and length(). *)
Data(r) == SubSeq(r.buffer_, kPacketLengthSize + 1, kPacketLengthSize + r.length_)

-----------------------------------------------------------------------------
(* Append: buffer_ grows by what is appended, whatever room it has, and    *)
(* the bytes are copied to offset_.  Mutated form: it does not grow, and   *)
(* what does not fit is lost.                                              *)
CopyAt(r, bytes) ==
  LET grown == r.buffer_ \o [i \in 1 .. Len(bytes) |-> Unset]
  IN [r EXCEPT !.buffer_ = SubSeq(grown, 1, r.offset_) \o bytes
                             \o SubSeq(grown, r.offset_ + Len(bytes) + 1, Len(grown)),
               !.offset_ = (@ + Len(bytes)) % UINT32]

AppendInPlace(r, bytes) ==
  [CopyAt(r, bytes) EXCEPT !.buffer_ = SubSeq(@, 1, Len(r.buffer_))]

Append_(r, bytes) == CopyAt(r, bytes)

(* The number in the first bytes of buffer_, least significant first.      *)
(* Mutated form: every byte counts for the place after its own.            *)
HeaderOfShifted(buffer) ==
  LET number[i \in 0 .. kPacketLengthSize] ==
        IF i = 0 THEN 0 ELSE number[i - 1] + buffer[i].value * Weight[i]
  IN number[kPacketLengthSize]

HeaderOf(buffer) ==
  LET number[i \in 0 .. kPacketLengthSize] ==
        IF i = 0 THEN 0 ELSE number[i - 1] + buffer[i].value * Weight[i - 1]
  IN number[kPacketLengthSize]

Least(a, b) == IF a < b THEN a ELSE b

(* The first half of OnReceive: header bytes are appended while offset_    *)
(* lies within the header, and length_ is read when the last one is there. *)
(* The reserve that follows allocates what the peer chose as a length, and *)
(* throws when it cannot: that it may is left out.                         *)
TakeHeader(r, bytes) ==
  LET s == Append_(r, bytes)
  IN IF s.offset_ >= kPacketLengthSize
     THEN [s EXCEPT !.length_ = HeaderOf(s.buffer_)]
     ELSE s

(* What the packet still lacks, as the code computes it. *)
Lacking(r) == (r.length_ + kPacketLengthSize + UINT32 - r.offset_) % UINT32

(* OnReceive with the first `received' bytes of buffer: the receiver it    *)
(* leaves, and how many of these bytes it has not taken.                   *)
OnReceive(r, buffer, received) ==
  LET header == IF r.offset_ < kPacketLengthSize
                THEN Least(received, kPacketLengthSize - r.offset_)
                ELSE 0
      s == IF r.offset_ < kPacketLengthSize
           THEN TakeHeader(r, SubSeq(buffer, 1, header))
           ELSE r
      data == Least(received - header, Lacking(s))
  IN [receiver |-> Append_(s, SubSeq(buffer, header + 1, header + data)),
      remain   |-> received - header - data]
=============================================================================
