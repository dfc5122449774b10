------------------------ MODULE ServerSessionProofs ------------------------
(***************************************************************************)
(* What holds of ServerSession for any number and any lengths of packets,  *)
(* any header and any size of the pieces: nothing is copied beyond the end *)
(* of buffer_, and, when no piece has bytes of two packets, OnPacket gets  *)
(* the packets the client has sent, in order and answered once.            *)
(***************************************************************************)
EXTENDS ServerSession, PacketReceiverProofs, FiniteSetTheorems

-----------------------------------------------------------------------------
(* The inductive invariants. *)

(* The packets lie one behind the other, without a gap.  One without data  *)
(* does not verify.                                                        *)
Tiled ==
  \A i \in 1 .. Len(packets) :
    /\ packets[i].from = Start(i)
    /\ DataLength(packets[i]) \in Payloads
    /\ DataLength(packets[i]) = 0 => ~packets[i].valid

Ordered ==
  \A i, j \in 1 .. Len(packets) : i < j => packets[i].to <= packets[j].from

Covered == \A p \in 1 .. Sent : \E i \in 1 .. Len(packets) : Holds(packets[i], p)

Stream ==
  /\ packets \in Seq(Packet)
  /\ Tiled
  /\ Ordered
  /\ Covered
  /\ Sent \in Nat

(* What does not depend on how the stream is cut. *)
Sound ==
  /\ Stream
  /\ passed \in 0 .. Sent
  /\ packet_receiver_ \in ReceiverState
  /\ buffer \in Seq(Byte)
  /\ remain_length \in 0 .. Len(buffer)
  /\ WithinBuffer

Upcoming == Len(handled) + 1

(* The packet after those handled is complete and has not been cleared.    *)
Stuck ==
  /\ Upcoming <= Len(packets)
  /\ packet_receiver_.offset_ = packets[Upcoming].to - packets[Upcoming].from

(* Receiver r holds the beginning of the i-th packet, or all of it, and    *)
(* has read its length if the header is there.                             *)
Beginning(r, i) ==
  /\ r.offset_ <= packets[i].to - packets[i].from
  /\ \A k \in 1 .. r.offset_ : r.buffer_[k] = ByteOf(packets[i], Start(i) + k - 1)
  /\ r.length_ = IF r.offset_ >= kPacketLengthSize THEN DataLength(packets[i]) ELSE 0

HoldsBeginning ==
  IF Upcoming <= Len(packets)
  THEN Beginning(packet_receiver_, Upcoming)
  ELSE packet_receiver_.offset_ = 0 /\ packet_receiver_.length_ = 0

(* Only a packet that does not verify is left in packet_receiver_. *)
StuckInvalid == Stuck => ~packets[Upcoming].valid

(* The piece in the loop has not been touched, and goes on in the upcoming *)
(* packet where packet_receiver_ stops.                                    *)
PieceFits ==
  /\ remain_length = Len(buffer)
  /\ ~Stuck =>
       /\ passed = Start(Upcoming) + packet_receiver_.offset_ + Len(buffer) - 1
       /\ buffer # <<>> =>
            /\ Upcoming <= Len(packets)
            /\ passed < packets[Upcoming].to
            /\ \A i \in 1 .. Len(buffer) :
                 buffer[i] = ByteOf(packets[Upcoming],
                                    Start(Upcoming) + packet_receiver_.offset_ + i - 1)

IInv ==
  /\ Sound
  /\ handled \in Seq(Seq(Nat))
  /\ answers \in Seq(Requests)
  /\ HandledInOrder
  /\ HoldsBeginning
  /\ StuckInvalid
  /\ PieceFits

-----------------------------------------------------------------------------
(* The stream. *)

(* A header is smaller than the values of length_, as is every packet.     *)
LEMMA Sizes ==
  /\ kPacketLengthSize \in Nat \ {0}
  /\ Base \in Nat \ {0, 1}
  /\ UINT32 \in Nat \ {0, 1}
  /\ \A n \in Payloads : n \in Nat /\ n + kPacketLengthSize < UINT32
BY PacketAssumption, SessionAssumption, UINT32Type

(* The numbers that belong to the i-th packet. *)
LEMMA PacketNumbers ==
  ASSUME Stream, NEW i \in 1 .. Len(packets)
  PROVE  /\ packets[i] \in Packet
         /\ packets[i].from \in Nat
         /\ packets[i].to \in Nat
         /\ packets[i].from = Start(i)
         /\ DataLength(packets[i]) \in Payloads
         /\ DataLength(packets[i]) \in Nat
         /\ packets[i].to = packets[i].from + kPacketLengthSize + DataLength(packets[i])
         /\ Start(i + 1) = packets[i].to
<1>1. packets[i] \in Packet
  BY ElementOfSeq DEF Stream
<1>2. packets[i].from \in Nat /\ packets[i].to \in Nat
  BY <1>1 DEF Packet
<1>3. packets[i].from = Start(i) /\ DataLength(packets[i]) \in Payloads
  BY DEF Stream, Tiled
<1>4. DataLength(packets[i]) \in Nat
  BY <1>3, Sizes
<1>5. packets[i].to = packets[i].from + kPacketLengthSize + DataLength(packets[i])
  BY <1>2, <1>4, Sizes DEF DataLength
<1>6. Start(i + 1) = packets[i].to
  <2>1. i + 1 # 1 /\ (i + 1) - 1 = i
    OBVIOUS
  <2> QED BY <2>1 DEF Start
<1> QED BY <1>1, <1>2, <1>3, <1>4, <1>5, <1>6

(* A position lies in one packet. *)
LEMMA HeldByOne ==
  ASSUME Stream, NEW i \in 1 .. Len(packets), NEW j \in 1 .. Len(packets), NEW p \in Nat,
         Holds(packets[i], p), Holds(packets[j], p)
  PROVE  i = j
<1>1. /\ packets[i].from \in Nat /\ packets[i].to \in Nat
      /\ packets[j].from \in Nat /\ packets[j].to \in Nat
  BY PacketNumbers
<1>2. packets[i].from <= p /\ p < packets[i].to /\ packets[j].from <= p /\ p < packets[j].to
  BY DEF Holds
<1>3. ~(i < j)
  <2>1. i < j => packets[i].to <= packets[j].from
    BY DEF Stream, Ordered
  <2> QED BY <2>1, <1>1, <1>2
<1>4. ~(j < i)
  <2>1. j < i => packets[j].to <= packets[i].from
    BY DEF Stream, Ordered
  <2> QED BY <2>1, <1>1, <1>2
<1>5. Len(packets) \in Nat
  BY LenProperties DEF Stream
<1> QED BY <1>3, <1>4, <1>5

(* The byte there is a byte of that packet. *)
LEMMA ByteOfHolder ==
  ASSUME Stream, NEW i \in 1 .. Len(packets), NEW p \in Nat, Holds(packets[i], p)
  PROVE  ByteAt(p) = ByteOf(packets[i], p) /\ ByteAt(p) \in Byte
<1> DEFINE j == CHOOSE j \in 1 .. Len(packets) : Holds(packets[j], p)
<1>1. j \in 1 .. Len(packets) /\ Holds(packets[j], p)
  OBVIOUS
<1> HIDE DEF j
<1>2. j = i
  BY <1>1, HeldByOne
<1>3. ByteAt(p) = ByteOf(packets[i], p)
  BY <1>2 DEF ByteAt, j
<1>4. ByteOf(packets[i], p) \in Byte
  <2> DEFINE k == p - packets[i].from
             n == DataLength(packets[i])
  <2>1. k \in Nat /\ n \in Nat
    BY PacketNumbers DEF Holds
  <2> HIDE DEF k, n
  <2>2. k < kPacketLengthSize => (n \div Weight[k]) % Base \in 0 .. Base - 1
    <3> SUFFICES ASSUME k < kPacketLengthSize PROVE (n \div Weight[k]) % Base \in 0 .. Base - 1
      OBVIOUS
    <3>1. k \in 0 .. kPacketLengthSize
      BY <2>1, Sizes
    <3>2. Weight[k] \in Nat \ {0}
      BY <3>1, Weights
    <3>3. n \div Weight[k] \in Nat
      BY <2>1, <3>2, Division
    <3> QED BY <3>3, Sizes, Division
  <2>3. DataValue \in 0 .. Base - 1
    BY Sizes DEF DataValue
  <2>4. ByteOf(packets[i], p) = [pos |-> p, value |-> IF k < kPacketLengthSize
                                                     THEN (n \div Weight[k]) % Base
                                                     ELSE DataValue]
    BY DEF ByteOf, k, n
  <2> QED BY <2>2, <2>3, <2>4 DEF Byte
<1> QED BY <1>3, <1>4

(* What is cut out of the stream are bytes. *)
LEMMA BytesType ==
  ASSUME Stream, NEW from \in Nat \ {0}, NEW n \in Nat, from + n - 1 <= Sent
  PROVE  /\ Bytes(from, from + n) \in Seq(Byte)
         /\ Len(Bytes(from, from + n)) = n
         /\ \A i \in 1 .. n : Bytes(from, from + n)[i] = ByteAt(from + i - 1)
<1>1. Sent \in Nat
  BY DEF Stream
<1>2. \A i \in 1 .. n : ByteAt(from + i - 1) \in Byte
  <2> TAKE i \in 1 .. n
  <2>1. from + i - 1 \in 1 .. Sent
    BY <1>1
  <2>2. PICK j \in 1 .. Len(packets) : Holds(packets[j], from + i - 1)
    BY <2>1 DEF Stream, Covered
  <2> QED BY <2>1, <2>2, ByteOfHolder
<1>3. from + n - from = n
  OBVIOUS
<1>4. Bytes(from, from + n) = [i \in 1 .. n |-> ByteAt(from + i - 1)]
  BY <1>3 DEF Bytes
<1> HIDE DEF Bytes
<1>5. [i \in 1 .. n |-> ByteAt(from + i - 1)] \in Seq(Byte)
  BY <1>2, IsASeq
<1>6. Len([i \in 1 .. n |-> ByteAt(from + i - 1)]) = n
  BY <1>2
<1> QED BY <1>4, <1>5, <1>6

(* The data of different packets lie at different places, unless they are  *)
(* empty.                                                                  *)
LEMMA DataTellsPackets ==
  ASSUME Stream, NEW i \in 1 .. Len(packets), NEW j \in 1 .. Len(packets),
         DataOf(i) = DataOf(j)
  PROVE  /\ DataLength(packets[i]) = DataLength(packets[j])
         /\ DataLength(packets[i]) # 0 => i = j
<1> DEFINE K == kPacketLengthSize
           n == DataLength(packets[i])
           m == DataLength(packets[j])
           a == packets[i].from
           b == packets[j].from
<1>1. n \in Nat /\ m \in Nat /\ a \in Nat /\ b \in Nat /\ packets[i].to = a + K + n
  BY PacketNumbers
<1>2. packets[j].to = b + K + m /\ K \in Nat \ {0}
  BY PacketNumbers, Sizes
<1>3. [k \in 1 .. n |-> a + K + k - 1] = [k \in 1 .. m |-> b + K + k - 1]
  BY DEF DataOf
<1> HIDE DEF K, n, m, a, b
<1>4. 1 .. n = 1 .. m
  BY <1>3
<1>5. n = m
  BY <1>1, <1>4
<1>6. ASSUME n # 0 PROVE i = j
  <2>1. 1 \in 1 .. n
    BY <1>1, <1>6
  <2>2. a + K + 1 - 1 = b + K + 1 - 1
    BY <1>3, <2>1, <1>5
  <2>3. a = b
    BY <2>2, <1>1, <1>2
  <2>4. Holds(packets[i], a) /\ Holds(packets[j], a)
    BY <2>3, <1>1, <1>2 DEF Holds, a, b
  <2> QED BY <2>4, <1>1, HeldByOne
<1> QED BY <1>5, <1>6 DEF n, m

-----------------------------------------------------------------------------
(* Send. *)

(* A packet more leaves the others where they are. *)
LEMMA SendExtends ==
  ASSUME Stream, NEW kind \in Kinds, NEW n \in Payloads, NEW valid \in BOOLEAN,
         Send(kind, n, valid)
  PROVE  /\ Stream'
         /\ Sent' = Sent + kPacketLengthSize + n
         /\ Len(packets') = Len(packets) + 1
         /\ \A i \in 1 .. Len(packets) : packets'[i] = packets[i]
         /\ \A i \in 1 .. Len(packets) + 1 : Start(i)' = Start(i)
<1> DEFINE K == kPacketLengthSize
           L == Len(packets)
           new == [from |-> Sent + 1, to |-> Sent + 1 + K + n, kind |-> kind, valid |-> valid]
<1>1. L \in Nat /\ Sent \in Nat /\ K \in Nat \ {0} /\ n \in Nat
  BY LenProperties, Sizes DEF Stream
<1>2. new \in Packet
  BY <1>1 DEF Packet
<1>3. packets' = Append(packets, new) /\ (n = 0 => ~valid)
  BY DEF Send
<1>4. /\ new.from = Sent + 1 /\ new.to = Sent + 1 + K + n /\ new.valid = valid
      /\ DataLength(new) = n
  BY <1>1 DEF DataLength
<1> HIDE DEF new
<1>5. /\ packets' \in Seq(Packet)
      /\ Len(packets') = L + 1
      /\ \A i \in 1 .. L : packets'[i] = packets[i]
      /\ packets'[L + 1] = new
  BY <1>2, <1>3, AppendProperties DEF Stream
<1>6. \A i \in 1 .. L + 1 : Start(i)' = Start(i)
  <2> TAKE i \in 1 .. L + 1
  <2>1. CASE i = 1
    BY <2>1 DEF Start
  <2>2. CASE i # 1
    <3>1. i - 1 \in 1 .. L
      BY <2>2, <1>1
    <3> QED BY <3>1, <2>2, <1>5 DEF Start
  <2> QED BY <2>1, <2>2
<1>7. Start(L + 1) = Sent + 1
  <2>1. Start(L + 1) \in Int
    BY <1>1, PacketNumbers DEF Start
  <2> QED BY <2>1 DEF Sent
<1>8. Sent' = Sent + K + n
  <2>1. Len(packets') + 1 # 1 /\ Len(packets') + 1 - 1 = L + 1
    BY <1>1, <1>5
  <2>2. Start(Len(packets) + 1)' = new.to
    BY <2>1, <1>5 DEF Start
  <2>3. Sent' = new.to - 1
    BY <2>2 DEF Sent
  <2> QED BY <2>3, <1>1, <1>4
<1>9. Tiled'
  <2>1. ASSUME NEW i \in 1 .. Len(packets')
        PROVE  /\ packets'[i].from = Start(i)'
               /\ DataLength(packets'[i]) \in Payloads
               /\ DataLength(packets'[i]) = 0 => ~packets'[i].valid
    <3>1. CASE i \in 1 .. L
      <4>1. packets'[i] = packets[i] /\ Start(i)' = Start(i)
        BY <3>1, <1>1, <1>5, <1>6
      <4>2. /\ packets[i].from = Start(i)
            /\ DataLength(packets[i]) \in Payloads
            /\ DataLength(packets[i]) = 0 => ~packets[i].valid
        BY <3>1 DEF Stream, Tiled
      <4> QED BY <4>1, <4>2
    <3>2. CASE i = L + 1
      <4>1. packets'[i] = new /\ Start(i)' = Sent + 1
        BY <3>2, <1>1, <1>5, <1>6, <1>7
      <4> QED BY <4>1, <1>3, <1>4
    <3> QED BY <3>1, <3>2, <1>1, <1>5
  <2> QED BY <2>1 DEF Tiled
<1>10. Ordered'
  <2>1. ASSUME NEW i \in 1 .. Len(packets'), NEW j \in 1 .. Len(packets'), i < j
        PROVE  packets'[i].to <= packets'[j].from
    <3>1. i \in 1 .. L /\ packets'[i] = packets[i]
      BY <2>1, <1>1, <1>5
    <3>2. CASE j \in 1 .. L
      <4>1. packets'[j] = packets[j]
        BY <3>2, <1>5
      <4>2. packets[i].to <= packets[j].from
        BY <2>1, <3>1, <3>2 DEF Stream, Ordered
      <4> QED BY <3>1, <4>1, <4>2
    <3>3. CASE j = L + 1
      <4>1. packets'[j].from = Start(L + 1)
        BY <3>3, <1>4, <1>5, <1>7
      <4>2. L \in 1 .. L /\ Start(L + 1) = packets[L].to
        BY <3>1, <1>1, PacketNumbers
      <4>3. packets[i].to <= packets[L].to
        <5>1. CASE i = L
          <6>1. packets[L].to \in Nat
            BY <4>2, PacketNumbers
          <6> QED BY <5>1, <6>1
        <5>2. CASE i < L
          <6>1. packets[i].to <= packets[L].from
            BY <3>1, <4>2, <5>2 DEF Stream, Ordered
          <6>2. /\ packets[i].to \in Nat /\ packets[L].from \in Nat
                /\ packets[L].to = packets[L].from + kPacketLengthSize + DataLength(packets[L])
                /\ DataLength(packets[L]) \in Nat
            BY <3>1, <4>2, PacketNumbers
          <6> QED BY <6>1, <6>2, <1>1
        <5> QED BY <5>1, <5>2, <3>1, <1>1
      <4> QED BY <3>1, <4>1, <4>2, <4>3
    <3> QED BY <3>2, <3>3, <1>1, <1>5
  <2> QED BY <2>1 DEF Ordered
<1>11. Covered'
  <2>1. ASSUME NEW p \in 1 .. Sent' PROVE \E i \in 1 .. Len(packets') : Holds(packets'[i], p)
    <3>1. CASE p <= Sent
      <4>1. PICK i \in 1 .. L : Holds(packets[i], p)
        BY <3>1, <1>1 DEF Stream, Covered
      <4>2. i \in 1 .. Len(packets') /\ packets'[i] = packets[i]
        BY <1>1, <1>5
      <4> QED BY <4>1, <4>2
    <3>2. CASE p > Sent
      <4>1. Holds(new, p)
        BY <3>2, <1>1, <1>4, <1>8 DEF Holds
      <4>2. L + 1 \in 1 .. Len(packets')
        BY <1>1, <1>5
      <4> QED BY <4>1, <4>2, <1>5
    <3> QED BY <3>1, <3>2, <1>1, <1>8
  <2> QED BY <2>1 DEF Covered
<1>12. Sent' \in Nat
  BY <1>1, <1>8
<1> QED BY <1>5, <1>6, <1>8, <1>9, <1>10, <1>11, <1>12 DEF Stream

(* Without a new packet the stream is the same. *)
LEMMA StreamStays ==
  ASSUME Stream, UNCHANGED packets
  PROVE  Stream' /\ Sent' = Sent
<1>1. Sent' = Sent
  BY DEF Sent, Start
<1>2. Tiled'
  BY DEF Stream, Tiled, Start
<1>3. Ordered'
  BY DEF Stream, Ordered
<1>4. Covered'
  BY <1>1 DEF Stream, Covered
<1> QED BY <1>1, <1>2, <1>3, <1>4 DEF Stream

-----------------------------------------------------------------------------
(* What holds however the stream is cut. *)

(* In the beginning. *)
LEMMA SoundInit == Init => Sound
<1> SUFFICES ASSUME Init PROVE Sound
  OBVIOUS
<1>1. packets = <<>> /\ passed = 0 /\ packet_receiver_ = NewReceiver /\ buffer = <<>> /\ remain_length = 0
  BY DEF Init
<1>2. packets \in Seq(Packet) /\ Len(packets) = 0 /\ buffer \in Seq(Byte) /\ Len(buffer) = 0
  BY <1>1, EmptySeq
<1>3. Sent = 0
  BY <1>2 DEF Sent, Start
<1>4. Tiled /\ Ordered /\ Covered
  BY <1>2, <1>3 DEF Tiled, Ordered, Covered
<1>5. WithinBuffer
  <2>1. NewReceiver.buffer_ \in Seq(Byte)
    BY NewReceiverType DEF ReceiverState
  <2>2. Len(NewReceiver.buffer_) \in Nat
    BY <2>1, LenProperties
  <2>3. \A x \in Nat : 0 <= x
    OBVIOUS
  <2> QED BY <1>1, <2>2, <2>3, NewReceiverType DEF WithinBuffer
<1>6. passed \in 0 .. Sent /\ remain_length \in 0 .. Len(buffer)
  BY <1>1, <1>2, <1>3
<1>7. packet_receiver_ \in ReceiverState
  BY <1>1, NewReceiverType
<1> QED BY <1>2, <1>3, <1>4, <1>5, <1>6, <1>7 DEF Sound, Stream

(* A turn of the loop leaves a receiver that fits its buffer. *)
LEMMA TurnSound ==
  ASSUME Sound, Turn
  PROVE  Sound'
<1> DEFINE got == OnReceive(packet_receiver_, buffer, remain_length)
<1>1. /\ got.receiver \in ReceiverState
      /\ got.receiver.offset_ <= Len(got.receiver.buffer_)
      /\ got.remain \in 0 .. remain_length
  BY OnReceiveType DEF Sound, WithinBuffer
<1>2. /\ Clear(got.receiver) \in ReceiverState
      /\ Clear(got.receiver).offset_ <= Len(Clear(got.receiver).buffer_)
  <2>1. got.receiver.buffer_ \in Seq(Byte)
    BY <1>1 DEF ReceiverState
  <2>2. Len(got.receiver.buffer_) \in Nat
    BY <2>1, LenProperties
  <2>3. \A x \in Nat : 0 <= x
    OBVIOUS
  <2> HIDE DEF got
  <2> QED BY <1>1, <2>2, <2>3, ClearType
<1> HIDE DEF got
<1>3. /\ UNCHANGED <<packets, passed>>
      /\ \/ packet_receiver_' = got.receiver
         \/ packet_receiver_' = Clear(got.receiver)
      /\ \/ Continue(got.remain)
         \/ Continue(0)
  BY DEF Turn, got
<1>4. Stream' /\ Sent' = Sent
  BY <1>3, StreamStays DEF Sound
<1>5. packet_receiver_' \in ReceiverState /\ WithinBuffer'
  BY <1>1, <1>2, <1>3 DEF WithinBuffer
<1>6. buffer' \in Seq(Byte) /\ remain_length' \in 0 .. Len(buffer')
  <2>1. buffer \in Seq(Byte) /\ remain_length \in 0 .. Len(buffer) /\ Len(buffer) \in Nat
    BY LenProperties DEF Sound
  <2>2. <<>> \in Seq(Byte) /\ Len(<<>>) = 0
    BY EmptySeq
  <2>3. ASSUME NEW remain \in 0 .. remain_length, Continue(remain)
        PROVE  buffer' \in Seq(Byte) /\ remain_length' \in 0 .. Len(buffer')
    <3>1. remain_length' = remain /\ buffer' = IF remain = 0 THEN <<>> ELSE buffer
      BY <2>3 DEF Continue
    <3>2. CASE remain = 0
      BY <3>1, <3>2, <2>2
    <3>3. CASE remain # 0
      BY <3>1, <3>3, <2>1
    <3> QED BY <3>2, <3>3
  <2>4. 0 \in 0 .. remain_length
    BY <2>1
  <2> QED BY <2>3, <2>4, <1>1, <1>3
<1>7. passed' \in 0 .. Sent'
  BY <1>3, <1>4 DEF Sound
<1> QED BY <1>4, <1>5, <1>6, <1>7 DEF Sound

(* Every step. *)
LEMMA SoundStep ==
  ASSUME Sound, [Next]_vars
  PROVE  Sound'
<1>1. ASSUME NEW kind \in Kinds, NEW n \in Payloads, NEW valid \in BOOLEAN, Send(kind, n, valid)
      PROVE  Sound'
  <2>1. Stream' /\ Sent' = Sent + kPacketLengthSize + n
    BY <1>1, SendExtends DEF Sound
  <2>2. UNCHANGED <<passed, packet_receiver_, buffer, remain_length>>
    BY <1>1 DEF Send
  <2>3. passed' \in 0 .. Sent'
    BY <2>1, <2>2, Sizes DEF Sound, Stream
  <2> QED BY <2>1, <2>2, <2>3 DEF Sound, WithinBuffer
<1>2. ASSUME NEW n \in 1 .. kSocketBufferSize, OnReceivePacket(n)
      PROVE  Sound'
  <2>1. /\ UNCHANGED <<packets, packet_receiver_>>
        /\ passed + n <= Sent
        /\ passed' = passed + n
        /\ remain_length' = n
        /\ buffer' = Bytes(passed + 1, passed + n + 1)
    BY <1>2 DEF OnReceivePacket
  <2>2. Stream' /\ Sent' = Sent
    BY <2>1, StreamStays DEF Sound
  <2>3. n \in Nat /\ passed \in Nat /\ Sent \in Nat
    BY SessionAssumption DEF Sound, Stream
  <2>4. /\ passed + 1 \in Nat \ {0} /\ (passed + 1) + n - 1 <= Sent
        /\ passed + n + 1 = (passed + 1) + n
    BY <2>1, <2>3
  <2>5. buffer' \in Seq(Byte) /\ Len(buffer') = n
    BY <2>1, <2>3, <2>4, BytesType DEF Sound
  <2>6. passed' \in 0 .. Sent' /\ remain_length' \in 0 .. Len(buffer')
    BY <2>1, <2>2, <2>3, <2>5
  <2> QED BY <2>1, <2>2, <2>5, <2>6 DEF Sound, WithinBuffer
<1>3. ASSUME UNCHANGED vars PROVE Sound'
  <2>1. UNCHANGED <<packets, passed, packet_receiver_, buffer, remain_length>>
    BY <1>3 DEF vars
  <2>2. Stream' /\ Sent' = Sent
    BY <2>1, StreamStays DEF Sound
  <2> QED BY <2>1, <2>2 DEF Sound, WithinBuffer
<1> QED BY <1>1, <1>2, <1>3, TurnSound DEF Next

(* However the stream is cut, and whatever its headers hold, no packet is  *)
(* copied beyond the end of buffer_.                                       *)
THEOREM NothingBeyondBuffer == Spec => []WithinBuffer
<1>1. Spec => []Sound
  BY SoundInit, SoundStep, PTL DEF Spec
<1>2. Sound => WithinBuffer
  BY DEF Sound
<1> QED BY <1>1, <1>2, PTL

-----------------------------------------------------------------------------
(* The receiver and the upcoming packet. *)

(* IsComplete tells whether it is all of it. *)
LEMMA CompleteWhenWhole ==
  ASSUME Stream, NEW r \in ReceiverState, NEW i \in 1 .. Len(packets), Beginning(r, i)
  PROVE  IsComplete(r) <=> r.offset_ = packets[i].to - packets[i].from
<1> DEFINE K == kPacketLengthSize
           n == DataLength(packets[i])
           whole == packets[i].to - packets[i].from
<1>1. n \in Nat /\ whole = K + n /\ n + K < UINT32
  BY PacketNumbers, Sizes
<1>2. K \in Nat \ {0} /\ UINT32 \in Nat \ {0} /\ r.offset_ \in 0 .. UINT32 - 1 /\ r.offset_ <= whole
  BY Sizes DEF ReceiverState, Beginning
<1> HIDE DEF n, whole
<1>3. CASE r.offset_ >= K
  <2>1. r.length_ = n
    BY <1>3 DEF Beginning, n
  <2>2. (n + K) % UINT32 = n + K
    <3>1. n + K \in 0 .. UINT32 - 1
      BY <1>1, <1>2
    <3> QED BY <3>1, <1>2, SmallRemainder
  <2>3. IsComplete(r) <=> n + K = r.offset_
    BY <2>1, <2>2 DEF IsComplete
  <2> QED BY <2>3, <1>1, <1>2 DEF whole
<1>4. CASE ~(r.offset_ >= K)
  <2>1. r.length_ = 0
    BY <1>4 DEF Beginning
  <2>2. (0 + K) % UINT32 = K
    <3>1. K \in 0 .. UINT32 - 1 /\ 0 + K = K
      BY <1>1, <1>2
    <3> QED BY <3>1, <1>2, SmallRemainder
  <2>3. IsComplete(r) <=> K = r.offset_
    BY <2>1, <2>2 DEF IsComplete
  <2> QED BY <2>3, <1>1, <1>2, <1>4 DEF whole
<1> QED BY <1>3, <1>4

(* The data of a complete packet lie where they lie in the stream. *)
LEMMA DataOfWhole ==
  ASSUME Stream, NEW r \in ReceiverState, r.offset_ <= Len(r.buffer_),
         NEW i \in 1 .. Len(packets), Beginning(r, i),
         r.offset_ = packets[i].to - packets[i].from
  PROVE  Positions(Data(r)) = DataOf(i)
<1> DEFINE K == kPacketLengthSize
           n == DataLength(packets[i])
           from == packets[i].from
           data == SubSeq(r.buffer_, K + 1, K + n)
<1>1. n \in Nat /\ from \in Nat /\ from = Start(i) /\ r.offset_ = K + n /\ K \in Nat
  BY PacketNumbers, Sizes
<1>2. r.length_ = n
  BY <1>1 DEF Beginning
<1>3. Data(r) = data
  BY <1>2 DEF Data
<1> HIDE DEF n, from
<1>4. Len(data) = n /\ \A k \in 1 .. n : data[k] = r.buffer_[K + k]
  <2> DEFINE e == K + n
  <2>1. r.buffer_ \in Seq(Byte)
    BY DEF ReceiverState
  <2>2. Len(r.buffer_) \in Nat
    BY <2>1, LenProperties
  <2>3. K \in 0 .. Len(r.buffer_) /\ e \in K .. Len(r.buffer_) /\ e - K = n
    BY <1>1, <2>2
  <2>4. data = SubSeq(r.buffer_, K + 1, e)
    OBVIOUS
  <2> HIDE DEF e, data
  <2>5. /\ Len(SubSeq(r.buffer_, K + 1, e)) = e - K
        /\ \A k \in 1 .. e - K : SubSeq(r.buffer_, K + 1, e)[k] = r.buffer_[K + k]
    BY <2>1, <2>3, Piece
  <2> QED BY <2>3, <2>4, <2>5
<1> HIDE DEF data
<1>5. \A k \in 1 .. n : data[k].pos = from + K + k - 1
  <2> TAKE k \in 1 .. n
  <2>1. K + k \in 1 .. r.offset_
    BY <1>1
  <2>2. r.buffer_[K + k] = ByteOf(packets[i], Start(i) + (K + k) - 1)
    BY <2>1 DEF Beginning
  <2>3. data[k].pos = Start(i) + (K + k) - 1
    BY <2>2, <1>4 DEF ByteOf
  <2> QED BY <2>3, <1>1
<1>6. Positions(Data(r)) = [k \in 1 .. n |-> data[k].pos]
  BY <1>3, <1>4 DEF Positions
<1>7. DataOf(i) = [k \in 1 .. n |-> from + K + k - 1]
  BY DEF DataOf, n, from
<1> QED BY <1>5, <1>6, <1>7

(* What a packet's own data are read as. *)
LEMMA ReadingOfPacket ==
  ASSUME Stream, NEW i \in 1 .. Len(packets), NEW data, Positions(data) = DataOf(i),
         NEW reading \in Readings(data)
  PROVE  /\ reading.valid <=> packets[i].valid
         /\ reading.valid => reading.kind = packets[i].kind
<1> DEFINE whole == {j \in 1 .. Len(packets) : Positions(data) = DataOf(j)}
<1>1. i \in whole
  OBVIOUS
<1>2. Readings(data) = {[kind |-> packets[j].kind, valid |-> packets[j].valid] : j \in whole}
  BY <1>1 DEF Readings
<1>3. PICK j \in whole : reading = [kind |-> packets[j].kind, valid |-> packets[j].valid]
  BY <1>2
<1>4. j \in 1 .. Len(packets) /\ DataOf(i) = DataOf(j)
  BY <1>3
<1> HIDE DEF whole
<1>5. reading.kind = packets[j].kind /\ reading.valid = packets[j].valid
  BY <1>3
<1>6. CASE DataLength(packets[i]) # 0
  <2>1. i = j
    BY <1>4, <1>6, DataTellsPackets
  <2> QED BY <2>1, <1>5
<1>7. CASE DataLength(packets[i]) = 0
  <2>1. DataLength(packets[j]) = 0
    BY <1>4, <1>7, DataTellsPackets
  <2>2. ~packets[i].valid /\ ~packets[j].valid
    BY <1>4, <1>7, <2>1 DEF Stream, Tiled
  <2> QED BY <2>2, <1>5
<1> QED BY <1>6, <1>7

(* What DataOf gives is a sequence of positions. *)
LEMMA DataOfType ==
  ASSUME Stream, NEW i \in 1 .. Len(packets)
  PROVE  DataOf(i) \in Seq(Nat)
<1> DEFINE n == DataLength(packets[i])
           from == packets[i].from
           K == kPacketLengthSize
<1>1. n \in Nat /\ from \in Nat /\ K \in Nat
  BY PacketNumbers, Sizes
<1>2. DataOf(i) = [k \in 1 .. n |-> from + K + k - 1]
  BY DEF DataOf
<1> HIDE DEF n, from, K
<1>3. \A k \in 1 .. n : from + K + k - 1 \in Nat
  BY <1>1
<1>4. [k \in 1 .. n |-> from + K + k - 1] \in Seq(Nat)
  BY <1>1, <1>3, IsASeq
<1> QED BY <1>2, <1>4

-----------------------------------------------------------------------------
(* The packets handled and their answers. *)

(* What has been handled remains so when the client sends more. *)
LEMMA OrderKept ==
  ASSUME Stream, HandledInOrder, handled \in Seq(Seq(Nat)), UNCHANGED <<handled, answers>>,
         Len(packets') \in Nat, Len(packets) <= Len(packets'),
         \A i \in 1 .. Len(packets) : packets'[i] = packets[i]
  PROVE  HandledInOrder'
<1>1. Len(handled) \in Nat /\ Len(packets) \in Nat /\ Len(handled) <= Len(packets)
  BY LenProperties DEF HandledInOrder, Stream
<1>2. \A i \in 1 .. Len(handled) : i \in 1 .. Len(packets) /\ packets'[i] = packets[i]
  BY <1>1
<1>3. \A i \in 1 .. Len(handled) : DataOf(i)' = DataOf(i)
  BY <1>2 DEF DataOf, DataLength
<1>4. Answered' = Answered
  BY <1>2 DEF Answered
<1>5. \A i : AnsweredUpTo(i)' = AnsweredUpTo(i)
  BY <1>4 DEF AnsweredUpTo
<1>6. Len(handled') <= Len(packets')
  BY <1>1
<1>7. \A i \in 1 .. Len(handled') : packets'[i].valid /\ handled'[i] = DataOf(i)'
  BY <1>2, <1>3 DEF HandledInOrder
<1>8. Len(answers') = Cardinality(Answered')
  BY <1>4 DEF HandledInOrder
<1>9. \A i \in Answered' : answers'[Cardinality(AnsweredUpTo(i)')] = packets'[i].kind
  <2> TAKE i \in Answered'
  <2>1. i \in Answered /\ i \in 1 .. Len(handled)
    BY <1>4 DEF Answered
  <2> QED BY <2>1, <1>2, <1>5 DEF HandledInOrder
<1> QED BY <1>6, <1>7, <1>8, <1>9 DEF HandledInOrder

(* The set of the packets answered is finite, as is each beginning of it,  *)
(* and there are no more of these than answers.                            *)
LEMMA AnswersCounted ==
  ASSUME HandledInOrder, handled \in Seq(Seq(Nat)), answers \in Seq(Requests)
  PROVE  /\ IsFiniteSet(Answered)
         /\ \A i \in Answered : Cardinality(AnsweredUpTo(i)) \in 1 .. Len(answers)
<1>1. Len(handled) \in Nat
  BY LenProperties
<1>2. IsFiniteSet(Answered)
  <2>1. IsFiniteSet(1 .. Len(handled)) /\ Answered \subseteq 1 .. Len(handled)
    BY <1>1, FS_Interval DEF Answered
  <2> QED BY <2>1, FS_Subset
<1>3. ASSUME NEW i \in Answered PROVE Cardinality(AnsweredUpTo(i)) \in 1 .. Len(answers)
  <2>1. AnsweredUpTo(i) \subseteq Answered /\ AnsweredUpTo(i) # {}
    <3>1. i <= i
      BY <1>1 DEF Answered
    <3> QED BY <3>1 DEF AnsweredUpTo
  <2>2. IsFiniteSet(AnsweredUpTo(i)) /\ Cardinality(AnsweredUpTo(i)) <= Cardinality(Answered)
    BY <1>2, <2>1, FS_Subset
  <2>3. Cardinality(AnsweredUpTo(i)) \in Nat /\ Cardinality(AnsweredUpTo(i)) # 0
    BY <2>1, <2>2, FS_CardinalityType, FS_EmptySet
  <2>4. Cardinality(Answered) = Len(answers) /\ Len(answers) \in Nat
    BY LenProperties DEF HandledInOrder
  <2> QED BY <2>2, <2>3, <2>4
<1> QED BY <1>2, <1>3

(* The next packet is handled, and answered if it has a handler. *)
LEMMA OrderGrows ==
  ASSUME Stream, HandledInOrder, handled \in Seq(Seq(Nat)), answers \in Seq(Requests),
         UNCHANGED packets,
         Upcoming \in 1 .. Len(packets), packets[Upcoming].valid,
         handled' = Append(handled, DataOf(Upcoming)),
         answers' = IF packets[Upcoming].kind \in Requests
                    THEN Append(answers, packets[Upcoming].kind)
                    ELSE answers
  PROVE  HandledInOrder' /\ handled' \in Seq(Seq(Nat)) /\ answers' \in Seq(Requests)
<1> DEFINE L == Len(handled)
           u == Upcoming
           kind == packets[Upcoming].kind
           new == IF kind \in Requests THEN {u} ELSE {}
<1>1. L \in Nat /\ u = L + 1
  BY LenProperties DEF Upcoming
<1>2. /\ handled' \in Seq(Seq(Nat))
      /\ Len(handled') = L + 1
      /\ \A i \in 1 .. L : handled'[i] = handled[i]
      /\ handled'[L + 1] = DataOf(u)
  BY DataOfType, AppendProperties
<1> HIDE DEF L, u
<1>3. \A i : DataOf(i)' = DataOf(i)
  BY DEF DataOf, DataLength
<1>4. Len(handled') <= Len(packets')
  BY <1>1, <1>2 DEF u
<1>5. \A i \in 1 .. Len(handled') : packets'[i].valid /\ handled'[i] = DataOf(i)'
  <2> TAKE i \in 1 .. Len(handled')
  <2>1. CASE i \in 1 .. L
    <3>1. packets[i].valid /\ handled[i] = DataOf(i)
      BY <2>1 DEF HandledInOrder, L
    <3> QED BY <3>1, <2>1, <1>2, <1>3
  <2>2. CASE i = L + 1
    BY <2>2, <1>1, <1>2, <1>3 DEF u
  <2> QED BY <2>1, <2>2, <1>1, <1>2
<1>6. Answered' = Answered \cup new
  <2>1. Answered' = {i \in 1 .. L + 1 : packets[i].kind \in Requests}
    BY <1>2 DEF Answered
  <2>2. Answered = {i \in 1 .. L : packets[i].kind \in Requests}
    BY DEF Answered, L
  <2>3. 1 .. L + 1 = 1 .. L \cup {u}
    BY <1>1
  <2> QED BY <2>1, <2>2, <2>3 DEF new, kind, u
<1>7. u \notin Answered /\ \A i \in Answered : i \in Int /\ i < u
  BY <1>1 DEF Answered, L
<1>8. \A i \in Answered : AnsweredUpTo(i)' = AnsweredUpTo(i)
  <2> TAKE i \in Answered
  <2>1. \A j \in new : ~(j <= i)
    BY <1>7, <1>1 DEF new
  <2> HIDE DEF new
  <2>2. {j \in Answered' : j <= i} = {j \in Answered : j <= i}
    BY <1>6, <2>1
  <2> QED BY <2>2 DEF AnsweredUpTo
<1>9. /\ IsFiniteSet(Answered)
      /\ \A i \in Answered : Cardinality(AnsweredUpTo(i)) \in 1 .. Len(answers)
      /\ Len(answers) = Cardinality(Answered)
      /\ \A i \in Answered : answers[Cardinality(AnsweredUpTo(i))] = packets[i].kind
  BY AnswersCounted DEF HandledInOrder
<1>10. CASE kind \notin Requests
  <2>1. answers' = answers /\ Answered' = Answered
    BY <1>6, <1>10 DEF kind
  <2>2. Len(answers') = Cardinality(Answered')
    BY <2>1, <1>9
  <2>3. \A i \in Answered' : answers'[Cardinality(AnsweredUpTo(i)')] = packets'[i].kind
    BY <2>1, <1>8, <1>9
  <2> QED BY <2>1, <2>2, <2>3, <1>2, <1>4, <1>5 DEF HandledInOrder
<1>11. CASE kind \in Requests
  <2>1. Answered' = Answered \cup {u}
    BY <1>6, <1>11
  <2>2. Cardinality(Answered') = Cardinality(Answered) + 1
    BY <2>1, <1>7, <1>9, FS_AddElement
  <2>3. /\ answers' \in Seq(Requests)
        /\ Len(answers') = Len(answers) + 1
        /\ \A k \in 1 .. Len(answers) : answers'[k] = answers[k]
        /\ answers'[Len(answers) + 1] = kind
    BY <1>11, AppendProperties DEF kind
  <2>4. Len(answers') = Cardinality(Answered')
    BY <2>2, <2>3, <1>9
  <2>5. ASSUME NEW i, i = u PROVE AnsweredUpTo(i)' = Answered'
    <3>1. \A j \in Answered' : j <= i
      BY <2>1, <2>5, <1>7, <1>1
    <3>2. AnsweredUpTo(i)' = {j \in Answered' : j <= i}
      BY DEF AnsweredUpTo
    <3> QED BY <3>1, <3>2
  <2>6. \A i \in Answered' : answers'[Cardinality(AnsweredUpTo(i)')] = packets'[i].kind
    <3> TAKE i \in Answered'
    <3>1. CASE i \in Answered
      BY <3>1, <2>3, <1>8, <1>9
    <3>2. CASE i = u
      <4>1. AnsweredUpTo(i)' = Answered'
        BY <2>5, <3>2
      <4> QED BY <4>1, <3>2, <2>2, <2>3, <1>9 DEF kind, u
    <3> QED BY <3>1, <3>2, <2>1
  <2> QED BY <2>3, <2>4, <2>6, <1>2, <1>4, <1>5 DEF HandledInOrder
<1> QED BY <1>10, <1>11

-----------------------------------------------------------------------------
(* What holds when no piece has bytes of two packets. *)

(* Where the upcoming packet begins, sent or not. *)
LEMMA UpcomingNumbers ==
  ASSUME Stream, HandledInOrder, handled \in Seq(Seq(Nat))
  PROVE  /\ Upcoming \in 1 .. Len(packets) + 1
         /\ Upcoming = Len(handled) + 1
         /\ Len(packets) \in Nat
         /\ Start(Upcoming) \in Nat
         /\ Upcoming <= Len(packets) => Upcoming \in 1 .. Len(packets)
         /\ ~(Upcoming <= Len(packets)) => Start(Upcoming) = Sent + 1
<1>1. Len(packets) \in Nat /\ Len(handled) \in 0 .. Len(packets)
  <2>1. Len(packets) \in Nat
    BY LenProperties DEF Stream
  <2>2. Len(handled) <= Len(packets)
    BY DEF HandledInOrder
  <2>3. Len(handled) \in Nat
    BY LenProperties
  <2> QED BY <2>1, <2>2, <2>3
<1>2. Upcoming \in 1 .. Len(packets) + 1 /\ Upcoming = Len(handled) + 1
  BY <1>1 DEF Upcoming
<1>3. Start(Upcoming) \in Nat
  <2>1. CASE Upcoming = 1
    BY <2>1 DEF Start
  <2>2. CASE Upcoming # 1
    <3>1. Upcoming - 1 \in 1 .. Len(packets)
      BY <2>2, <1>1, <1>2
    <3>2. packets[Upcoming - 1].to \in Nat
      BY <3>1, PacketNumbers
    <3> QED BY <3>2, <2>2 DEF Start
  <2> QED BY <2>1, <2>2
<1>4. ASSUME ~(Upcoming <= Len(packets)) PROVE Start(Upcoming) = Sent + 1
  <2>1. Upcoming = Len(packets) + 1
    BY <1>1, <1>2, <1>4
  <2>2. Sent = Start(Upcoming) - 1
    BY <2>1 DEF Sent
  <2> QED BY <2>2, <1>3
<1> QED BY <1>1, <1>2, <1>3, <1>4

(* In the beginning. *)
LEMMA IInvInit == Init => IInv
<1> SUFFICES ASSUME Init PROVE IInv
  OBVIOUS
<1>1. /\ packets = <<>> /\ passed = 0 /\ packet_receiver_ = NewReceiver /\ buffer = <<>>
      /\ remain_length = 0 /\ handled = <<>> /\ answers = <<>>
  BY DEF Init
<1>2. Len(packets) = 0 /\ Len(buffer) = 0 /\ Len(handled) = 0 /\ Len(answers) = 0
  BY <1>1, EmptySeq
<1>3. handled \in Seq(Seq(Nat)) /\ answers \in Seq(Requests)
  BY <1>1, EmptySeq
<1>4. Upcoming = 1 /\ Start(Upcoming) = 1 /\ ~(Upcoming <= Len(packets))
  BY <1>2 DEF Upcoming, Start
<1>5. packet_receiver_.offset_ = 0 /\ packet_receiver_.length_ = 0
  BY <1>1, NewReceiverType
<1>6. HoldsBeginning
  BY <1>4, <1>5 DEF HoldsBeginning
<1>7. StuckInvalid /\ PieceFits
  BY <1>1, <1>2, <1>4, <1>5 DEF StuckInvalid, Stuck, PieceFits
<1>8. HandledInOrder
  <2>1. Answered = {}
    BY <1>2 DEF Answered
  <2>2. Cardinality(Answered) = 0
    BY <2>1, FS_EmptySet
  <2> QED BY <2>1, <2>2, <1>2 DEF HandledInOrder
<1> QED BY <1>3, <1>6, <1>7, <1>8, SoundInit DEF IInv

(* A packet more does not touch what is held of the upcoming one. *)
LEMMA IInvSend ==
  ASSUME IInv, NEW kind \in Kinds, NEW n \in Payloads, NEW valid \in BOOLEAN,
         Send(kind, n, valid), Sound'
  PROVE  IInv'
<1> DEFINE K == kPacketLengthSize
           r == packet_receiver_
<1>1. UNCHANGED <<passed, packet_receiver_, buffer, remain_length, handled, answers>>
  BY DEF Send
<1>2. /\ Stream'
      /\ Len(packets') = Len(packets) + 1
      /\ \A i \in 1 .. Len(packets) : packets'[i] = packets[i]
      /\ \A i \in 1 .. Len(packets) + 1 : Start(i)' = Start(i)
  BY SendExtends DEF IInv, Sound
<1>3. /\ Upcoming \in 1 .. Len(packets) + 1
      /\ Len(packets) \in Nat
      /\ Upcoming <= Len(packets) => Upcoming \in 1 .. Len(packets)
  BY UpcomingNumbers DEF IInv, Sound
<1>4. PICK u \in 1 .. Len(packets) + 1 : u = Upcoming
  BY <1>3
<1>5. Upcoming' = u
  BY <1>1, <1>4 DEF Upcoming
<1>6. Start(Upcoming)' = Start(Upcoming)
  <2>1. Start(u)' = Start(u)
    BY <1>2
  <2> QED BY <2>1, <1>4, <1>5 DEF Start
<1>7. Len(packets') \in Nat /\ Len(packets) <= Len(packets')
  BY <1>2, <1>3
<1>8. HandledInOrder' /\ handled' \in Seq(Seq(Nat)) /\ answers' \in Seq(Requests)
  BY <1>1, <1>2, <1>7, OrderKept DEF IInv, Sound
<1>9. CASE u <= Len(packets)
  <2>1. packets'[Upcoming'] = packets[Upcoming] /\ Upcoming' <= Len(packets')
    BY <1>9, <1>2, <1>3, <1>4, <1>5
  <2>2. Beginning(r, Upcoming)'
    <3>1. Beginning(r, Upcoming)
      BY <1>9, <1>4 DEF IInv, HoldsBeginning
    <3> QED BY <3>1, <2>1, <1>1, <1>6 DEF Beginning
  <2>3. HoldsBeginning'
    BY <2>1, <2>2 DEF HoldsBeginning
  <2>4. Stuck' <=> Stuck
    BY <2>1, <1>1, <1>9, <1>4 DEF Stuck
  <2>5. StuckInvalid'
    BY <2>1, <2>4 DEF StuckInvalid, IInv
  <2>6. PieceFits'
    BY <2>1, <2>4, <1>1, <1>6, <1>9, <1>4 DEF PieceFits, IInv
  <2> QED BY <2>3, <2>5, <2>6, <1>8 DEF IInv
<1>10. CASE ~(u <= Len(packets))
  <2>1. r.offset_ = 0 /\ r.length_ = 0 /\ ~Stuck
    BY <1>10, <1>4 DEF IInv, HoldsBeginning, Stuck
  <2>2. u \in 1 .. Len(packets')
    BY <1>10, <1>2, <1>3
  <2>3. packets'[u].to - packets'[u].from \in Nat \ {0}
    <3>1. ASSUME NEW i \in 1 .. Len(packets) PROVE packets[i].to - packets[i].from \in Nat \ {0}
      <4>1. /\ packets[i].from \in Nat /\ DataLength(packets[i]) \in Nat
            /\ packets[i].to = packets[i].from + kPacketLengthSize + DataLength(packets[i])
        BY <3>1, PacketNumbers DEF IInv, Sound
      <4> QED BY <4>1, Sizes
    <3>2. packets'[u].from = Start(u)' /\ DataLength(packets'[u]) \in Payloads
      BY <1>2, <2>2 DEF Stream, Tiled
    <3>3. packets'[u] \in Packet
      BY <1>2, <2>2, ElementOfSeq DEF Stream
    <3>4. packets'[u].from \in Nat /\ packets'[u].to \in Nat
      BY <3>3 DEF Packet
    <3>5. packets'[u].to - packets'[u].from - K \in Nat
      BY <3>2, Sizes DEF DataLength
    <3> QED BY <3>4, <3>5, Sizes
  <2>4. HoldsBeginning'
    <3>1. Upcoming' <= Len(packets')
      BY <2>2, <1>5
    <3>2. r'.offset_ = 0 /\ r'.length_ = 0 /\ ~(0 >= K)
      BY <2>1, <1>1, Sizes
    <3>3. Beginning(r, Upcoming)'
      BY <3>2, <2>3, <1>5 DEF Beginning
    <3> QED BY <3>1, <3>3 DEF HoldsBeginning
  <2>5. ~Stuck'
    BY <2>1, <2>3, <1>1, <1>5 DEF Stuck
  <2>6. PieceFits'
    BY <2>1, <2>5, <1>1, <1>6, <1>10, <1>4 DEF PieceFits, IInv
  <2> QED BY <2>4, <2>5, <2>6, <1>8 DEF IInv, StuckInvalid
<1> QED BY <1>9, <1>10

(* The next piece is of the upcoming packet, unless an earlier one is      *)
(* stuck.                                                                  *)
LEMMA IInvReceive ==
  ASSUME IInv, ~Coalescing, NEW n \in 1 .. kSocketBufferSize, OnReceivePacket(n), Sound'
  PROVE  IInv'
<1> DEFINE r == packet_receiver_
<1>1. /\ UNCHANGED <<packets, packet_receiver_, handled, answers>>
      /\ buffer = <<>>
      /\ passed + n <= Sent
      /\ passed' = passed + n
      /\ remain_length' = n
      /\ buffer' = Bytes(passed + 1, passed + n + 1)
  BY DEF OnReceivePacket
<1>2. PICK i \in 1 .. Len(packets) : packets[i].from <= passed + 1 /\ passed + n < packets[i].to
  BY DEF OnReceivePacket
<1>3. Stream /\ Sent \in Nat /\ passed \in Nat /\ n \in Nat \ {0} /\ Len(buffer) = 0
  BY <1>1, SessionAssumption, EmptySeq DEF IInv, Sound, Stream
<1>4. /\ Upcoming \in 1 .. Len(packets) + 1
      /\ Len(packets) \in Nat
      /\ Start(Upcoming) \in Nat
      /\ Upcoming <= Len(packets) => Upcoming \in 1 .. Len(packets)
      /\ ~(Upcoming <= Len(packets)) => Start(Upcoming) = Sent + 1
  BY UpcomingNumbers DEF IInv, Sound
<1>5. Upcoming' = Upcoming /\ Start(Upcoming)' = Start(Upcoming)
  BY <1>1 DEF Upcoming, Start
<1>6. Stream'
  BY <1>1, <1>3, StreamStays
<1>7. HandledInOrder' /\ handled' \in Seq(Seq(Nat)) /\ answers' \in Seq(Requests)
  BY <1>1, <1>3, <1>4, OrderKept DEF IInv
<1>8. HoldsBeginning'
  BY <1>1, <1>5 DEF IInv, HoldsBeginning, Beginning
<1>9. (Stuck' <=> Stuck) /\ StuckInvalid'
  BY <1>1, <1>5 DEF IInv, StuckInvalid, Stuck
<1>10. /\ buffer' \in Seq(Byte)
       /\ Len(buffer') = n
       /\ \A k \in 1 .. n : buffer'[k] = ByteAt(passed + 1 + k - 1)
  <2>1. passed + 1 \in Nat \ {0} /\ (passed + 1) + n - 1 <= Sent /\ passed + n + 1 = (passed + 1) + n
        /\ n \in Nat
    BY <1>1, <1>3
  <2>2. /\ Bytes(passed + 1, (passed + 1) + n) \in Seq(Byte)
        /\ Len(Bytes(passed + 1, (passed + 1) + n)) = n
        /\ \A k \in 1 .. n : Bytes(passed + 1, (passed + 1) + n)[k] = ByteAt((passed + 1) + k - 1)
    BY <2>1, <1>3, BytesType
  <2> QED BY <2>1, <2>2, <1>1
<1>11. ASSUME ~Stuck
       PROVE  /\ passed' = Start(Upcoming) + r.offset_ + n - 1
              /\ Upcoming <= Len(packets)
              /\ passed' < packets[Upcoming].to
              /\ \A k \in 1 .. n :
                   buffer'[k] = ByteOf(packets[Upcoming], Start(Upcoming) + r.offset_ + k - 1)
  <2>1. r.offset_ \in Nat
    BY UINT32Type DEF IInv, Sound, ReceiverState
  <2>2. passed = Start(Upcoming) + r.offset_ + 0 - 1
    BY <1>3, <1>11 DEF IInv, PieceFits
  <2>3. passed + 1 = Start(Upcoming) + r.offset_
    BY <2>1, <2>2, <1>4
  <2>4. Upcoming <= Len(packets)
    <3> SUFFICES ASSUME ~(Upcoming <= Len(packets)) PROVE FALSE
      OBVIOUS
    <3>1. Start(Upcoming) = Sent + 1
      BY <1>4
    <3> QED BY <3>1, <2>1, <2>3, <1>1, <1>3
  <2>5. /\ Upcoming \in 1 .. Len(packets)
        /\ packets[Upcoming].from = Start(Upcoming)
        /\ packets[Upcoming].to \in Nat
    BY <2>4, <1>3, <1>4, PacketNumbers
  <2>6. r.offset_ < packets[Upcoming].to - packets[Upcoming].from
    <3>1. r.offset_ <= packets[Upcoming].to - packets[Upcoming].from
      BY <2>4 DEF IInv, HoldsBeginning, Beginning
    <3>2. r.offset_ # packets[Upcoming].to - packets[Upcoming].from
      BY <2>4, <1>11 DEF Stuck
    <3> QED BY <3>1, <3>2, <2>1, <2>5, <1>4
  <2>7. Holds(packets[Upcoming], passed + 1)
    BY <2>1, <2>3, <2>5, <2>6, <1>4 DEF Holds
  <2>8. packets[i].from \in Nat /\ packets[i].to \in Nat
    BY <1>3, PacketNumbers
  <2>9. Holds(packets[i], passed + 1)
    BY <2>8, <1>2, <1>3 DEF Holds
  <2>10. i = Upcoming
    <3>1. passed + 1 \in Nat
      BY <1>3
    <3> QED BY <3>1, <2>5, <2>7, <2>9, <1>3, HeldByOne
  <2>11. ASSUME NEW k \in 1 .. n
         PROVE  buffer'[k] = ByteOf(packets[Upcoming], Start(Upcoming) + r.offset_ + k - 1)
    <3>1. passed + 1 + k - 1 = Start(Upcoming) + r.offset_ + k - 1 /\ passed + 1 + k - 1 \in Nat
      BY <2>1, <2>3, <1>3, <1>4
    <3>2. Holds(packets[Upcoming], passed + 1 + k - 1)
      BY <2>5, <2>8, <2>10, <1>2, <1>3 DEF Holds
    <3>3. ByteAt(passed + 1 + k - 1) = ByteOf(packets[Upcoming], passed + 1 + k - 1)
      BY <3>1, <3>2, <2>5, <1>3, ByteOfHolder
    <3> QED BY <3>1, <3>3, <1>10
  <2>12. passed' = Start(Upcoming) + r.offset_ + n - 1
    BY <2>1, <2>3, <1>1, <1>3, <1>4
  <2>13. passed' < packets[Upcoming].to
    BY <2>10, <1>1, <1>2
  <2> QED BY <2>4, <2>11, <2>12, <2>13
<1>12. PieceFits'
  <2>1. remain_length' = Len(buffer')
    BY <1>1, <1>10
  <2>2. ASSUME ~Stuck'
        PROVE  /\ passed' = Start(Upcoming)' + r'.offset_ + Len(buffer') - 1
               /\ Upcoming' <= Len(packets')
               /\ passed' < packets'[Upcoming'].to
               /\ \A k \in 1 .. Len(buffer') :
                    buffer'[k] = ByteOf(packets'[Upcoming'], Start(Upcoming)' + r'.offset_ + k - 1)
    BY <2>2, <1>1, <1>5, <1>9, <1>10, <1>11
  <2> QED BY <2>1, <2>2 DEF PieceFits
<1> QED BY <1>7, <1>8, <1>9, <1>12 DEF IInv

(* What OnReceive leaves of a turn is the beginning of the upcoming        *)
(* packet: longer by the whole piece, or as it was if that packet is       *)
(* stuck.                                                                  *)
LEMMA TurnReceives ==
  ASSUME IInv, buffer # <<>>,
         NEW got, got = OnReceive(packet_receiver_, buffer, remain_length)
  PROVE  /\ Upcoming \in 1 .. Len(packets)
         /\ got.receiver \in ReceiverState
         /\ got.receiver.offset_ <= Len(got.receiver.buffer_)
         /\ Beginning(got.receiver, Upcoming)
         /\ Stuck => got.receiver.offset_ = packets[Upcoming].to - packets[Upcoming].from
         /\ ~Stuck => /\ got.remain = 0
                      /\ passed = Start(Upcoming) + got.receiver.offset_ - 1
<1> DEFINE K == kPacketLengthSize
           r == packet_receiver_
           u == Upcoming
           n == DataLength(packets[Upcoming])
           b == Start(Upcoming)
           s == got.receiver
<1>1. /\ Stream /\ r \in ReceiverState /\ buffer \in Seq(Byte) /\ remain_length \in 0 .. Len(buffer)
      /\ r.offset_ <= Len(r.buffer_)
  BY DEF IInv, Sound, WithinBuffer
<1>2. s \in ReceiverState /\ s.offset_ <= Len(s.buffer_)
  BY <1>1, OnReceiveType
<1>3. u <= Len(packets)
  BY DEF IInv, PieceFits, Stuck
<1>4. u \in 1 .. Len(packets)
  BY <1>1, <1>3, UpcomingNumbers DEF IInv
<1>5. /\ n \in Nat /\ n + K < UINT32 /\ K \in Nat \ {0} /\ b \in Nat
      /\ packets[u].from = b /\ packets[u].to = b + K + n /\ packets[u].to - packets[u].from = K + n
  BY <1>1, <1>4, PacketNumbers, Sizes
<1>6. Beginning(r, u)
  BY <1>3 DEF IInv, HoldsBeginning
<1>7. /\ r.offset_ <= K + n
      /\ \A k \in 1 .. r.offset_ : r.buffer_[k] = ByteOf(packets[u], b + k - 1)
      /\ r.length_ = IF r.offset_ >= K THEN n ELSE 0
  BY <1>5, <1>6 DEF Beginning
<1>8. r.offset_ \in Nat /\ Len(buffer) \in Nat /\ s.offset_ \in Nat
  BY <1>1, <1>2, UINT32Type, LenProperties DEF ReceiverState
<1>9. \A k \in 1 .. K : ByteOf(packets[u], b + k - 1).value = (n \div Weight[k - 1]) % Base
  <2> TAKE k \in 1 .. K
  <2> DEFINE q == b + k - 1
  <2>1. q - packets[u].from = k - 1 /\ k - 1 < K
    BY <1>5
  <2>2. \A p : ByteOf(packets[u], p).value = IF p - packets[u].from < K
                                             THEN (n \div Weight[p - packets[u].from]) % Base
                                             ELSE DataValue
    <3>1. n = DataLength(packets[u])
      OBVIOUS
    <3> HIDE DEF u, n
    <3>2. \A p : ByteOf(packets[u], p).value
                   = IF p - packets[u].from < K
                     THEN (DataLength(packets[u]) \div Weight[p - packets[u].from]) % Base
                     ELSE DataValue
      BY DEF ByteOf
    <3> QED BY <3>1, <3>2, Zenon
  <2> HIDE DEF n, u, b, q, K
  <2>3. ByteOf(packets[u], q).value = (n \div Weight[k - 1]) % Base
    BY <2>1, <2>2
  <2> QED BY <2>3 DEF q
<1> HIDE DEF u, n, b, s, r
<1>10. CASE Stuck
  <2>1. r.offset_ = K + n /\ r.length_ = n
    <3>1. r.offset_ = K + n
      BY <1>5, <1>10 DEF Stuck, u, r
    <3>2. r.offset_ >= K
      BY <3>1, <1>5
    <3> QED BY <3>1, <3>2, <1>7
  <2>2. /\ s.offset_ = r.offset_
        /\ s.length_ = n
        /\ \A k \in 1 .. r.offset_ : s.buffer_[k] = r.buffer_[k]
    BY <2>1, <1>1, <1>5, OnReceiveFull DEF s, r
  <2>3. s.offset_ >= K
    BY <2>1, <2>2, <1>5
  <2>4. Beginning(s, u)
    BY <2>1, <2>2, <2>3, <1>5, <1>7 DEF Beginning, n, b, u
  <2> QED BY <2>1, <2>2, <2>4, <1>2, <1>4, <1>5, <1>10 DEF s, u
<1>11. CASE ~Stuck
  <2> DEFINE m == Len(buffer)
  <2>1. /\ remain_length = m
        /\ passed = b + r.offset_ + m - 1
        /\ passed < packets[u].to
        /\ \A k \in 1 .. m : buffer[k] = ByteOf(packets[u], b + r.offset_ + k - 1)
    BY <1>11 DEF IInv, PieceFits, r, u, b
  <2>2. r.offset_ + m <= K + n
    BY <2>1, <1>5, <1>8
  <2>3. \A k \in 1 .. K : k <= r.offset_ => r.buffer_[k].value = (n \div Weight[k - 1]) % Base
    <3> TAKE k \in 1 .. K
    <3>1. k <= r.offset_ => k \in 1 .. r.offset_
      BY <1>8
    <3> QED BY <3>1, <1>7, <1>9
  <2>4. \A k \in 1 .. K : r.offset_ < k /\ k <= r.offset_ + m =>
          buffer[k - r.offset_].value = (n \div Weight[k - 1]) % Base
    <3> TAKE k \in 1 .. K
    <3> SUFFICES ASSUME r.offset_ < k, k <= r.offset_ + m
                 PROVE  buffer[k - r.offset_].value = (n \div Weight[k - 1]) % Base
      OBVIOUS
    <3>1. k - r.offset_ \in 1 .. m /\ b + r.offset_ + (k - r.offset_) - 1 = b + k - 1
      BY <1>5, <1>8
    <3>2. buffer[k - r.offset_] = ByteOf(packets[u], b + k - 1)
      BY <3>1, <2>1
    <3> QED BY <3>2, <1>9
  <2>5. r.offset_ >= K => r.length_ = n
    BY <1>7
  <2>6. /\ got.remain = 0
        /\ s.offset_ = r.offset_ + m
        /\ s.length_ = IF s.offset_ >= K THEN n ELSE r.length_
        /\ \A k \in 1 .. r.offset_ : s.buffer_[k] = r.buffer_[k]
        /\ \A k \in 1 .. m : s.buffer_[r.offset_ + k] = buffer[k]
    <3>1. m \in 0 .. Len(buffer)
      BY <1>8
    <3>2. got = OnReceive(r, buffer, m)
      BY <2>1 DEF r
    <3> HIDE DEF m
    <3>3. n \in Nat /\ n + kPacketLengthSize < UINT32 /\ r.offset_ + m <= kPacketLengthSize + n
      BY <2>2, <1>5
    <3>4. LET after == OnReceive(r, buffer, m)
          IN /\ after.remain = 0
             /\ after.receiver.offset_ = r.offset_ + m
             /\ after.receiver.length_ = IF after.receiver.offset_ >= K THEN n ELSE r.length_
             /\ \A k \in 1 .. r.offset_ : after.receiver.buffer_[k] = r.buffer_[k]
             /\ \A k \in 1 .. m : after.receiver.buffer_[r.offset_ + k] = buffer[k]
      BY <3>1, <3>3, <2>3, <2>4, <2>5, <1>1, OnReceiveFills
    <3> QED BY <3>2, <3>4 DEF s
  <2> HIDE DEF m
  <2>7. m \in Nat
    BY <1>8 DEF m
  <2>8. s.length_ = IF s.offset_ >= K THEN n ELSE 0
    <3>1. s.offset_ >= K \/ ~(r.offset_ >= K)
      BY <2>6, <2>7, <1>5, <1>8
    <3> QED BY <3>1, <2>6, <1>7
  <2>9. \A k \in 1 .. s.offset_ : s.buffer_[k] = ByteOf(packets[u], b + k - 1)
    <3> TAKE k \in 1 .. s.offset_
    <3>1. CASE k <= r.offset_
      <4>1. k \in 1 .. r.offset_
        BY <3>1, <1>8
      <4> QED BY <4>1, <2>6, <1>7
    <3>2. CASE ~(k <= r.offset_)
      <4>1. k - r.offset_ \in 1 .. m /\ r.offset_ + (k - r.offset_) = k
            /\ b + r.offset_ + (k - r.offset_) - 1 = b + k - 1
        BY <3>2, <2>6, <2>7, <1>5, <1>8
      <4>2. s.buffer_[r.offset_ + (k - r.offset_)] = buffer[k - r.offset_]
        BY <4>1, <2>6
      <4>3. buffer[k - r.offset_] = ByteOf(packets[u], b + r.offset_ + (k - r.offset_) - 1)
        BY <4>1, <2>1
      <4> QED BY <4>1, <4>2, <4>3
    <3> QED BY <3>1, <3>2
  <2>10. Beginning(s, u)
    BY <2>2, <2>6, <2>8, <2>9, <1>5 DEF Beginning, n, b, u
  <2>11. passed = b + s.offset_ - 1
    <3>1. s.offset_ = r.offset_ + m /\ passed = b + r.offset_ + m - 1
      BY <2>1, <2>6
    <3>2. \A x, y, z \in Nat : x + (y + z) - 1 = x + y + z - 1
      OBVIOUS
    <3>3. b + (r.offset_ + m) - 1 = b + r.offset_ + m - 1
      BY <3>2, <2>7, <1>5, <1>8, Zenon
    <3> QED BY <3>1, <3>3
  <2> QED BY <2>6, <2>10, <2>11, <1>2, <1>4, <1>11 DEF s, u, b
<1> QED BY <1>10, <1>11

(* A turn: the packet is not complete yet, or it is handled and cleared,   *)
(* or it does not verify and stays.                                        *)
LEMMA IInvTurn ==
  ASSUME IInv, Turn, Sound'
  PROVE  IInv'
<1>1. PICK got : got = OnReceive(packet_receiver_, buffer, remain_length)
  OBVIOUS
<1> DEFINE s == got.receiver
<1>2. buffer # <<>> /\ UNCHANGED <<packets, passed>>
  BY DEF Turn
<1>3. /\ Stream /\ HandledInOrder /\ handled \in Seq(Seq(Nat)) /\ answers \in Seq(Requests)
  BY DEF IInv, Sound
<1>4. /\ Upcoming \in 1 .. Len(packets)
      /\ s \in ReceiverState
      /\ s.offset_ <= Len(s.buffer_)
      /\ Beginning(s, Upcoming)
      /\ Stuck => s.offset_ = packets[Upcoming].to - packets[Upcoming].from
      /\ ~Stuck => got.remain = 0 /\ passed = Start(Upcoming) + s.offset_ - 1
  BY <1>1, <1>2, TurnReceives
<1>5. Len(packets) \in Nat /\ Upcoming = Len(handled) + 1 /\ Start(Upcoming) \in Nat /\ Len(handled) \in Nat
  BY <1>3, LenProperties, UpcomingNumbers
<1>6. IsComplete(s) <=> s.offset_ = packets[Upcoming].to - packets[Upcoming].from
  BY <1>3, <1>4, CompleteWhenWhole
<1>7. s.offset_ \in Nat
  BY <1>4, UINT32Type DEF ReceiverState
<1> HIDE DEF s
<1>8. ASSUME Continue(0) PROVE buffer' = <<>> /\ remain_length' = 0 /\ Len(buffer') = 0
  BY <1>8, EmptySeq DEF Continue
<1>9. ASSUME UNCHANGED <<handled, answers>>
      PROVE  /\ Upcoming' = Upcoming /\ Start(Upcoming)' = Start(Upcoming)
             /\ HandledInOrder' /\ handled' \in Seq(Seq(Nat)) /\ answers' \in Seq(Requests)
  <2>1. Upcoming' = Upcoming /\ Start(Upcoming)' = Start(Upcoming)
    BY <1>2, <1>9 DEF Upcoming, Start
  <2>2. HandledInOrder'
    BY <1>2, <1>3, <1>5, <1>9, OrderKept
  <2> QED BY <2>1, <2>2, <1>3, <1>9
<1>10. ASSUME UNCHANGED <<handled, answers>>, packet_receiver_' = s
       PROVE  /\ HoldsBeginning'
              /\ Stuck' <=> s.offset_ = packets[Upcoming].to - packets[Upcoming].from
  <2>1. Upcoming' = Upcoming /\ Start(Upcoming)' = Start(Upcoming)
    BY <1>9, <1>10
  <2>2. Upcoming' <= Len(packets')
    BY <2>1, <1>2, <1>4
  <2>3. Beginning(packet_receiver_, Upcoming)'
    BY <2>1, <1>2, <1>4, <1>10 DEF Beginning
  <2>4. HoldsBeginning'
    BY <2>2, <2>3 DEF HoldsBeginning
  <2> QED BY <2>1, <2>2, <2>4, <1>2, <1>10 DEF Stuck
<1>11. CASE /\ ~IsComplete(s)
            /\ packet_receiver_' = s
            /\ Continue(got.remain)
            /\ UNCHANGED <<handled, answers>>
  <2>1. ~Stuck /\ got.remain = 0 /\ passed = Start(Upcoming) + s.offset_ - 1
    BY <1>4, <1>6, <1>11
  <2>2. HoldsBeginning' /\ ~Stuck'
    BY <1>6, <1>10, <1>11
  <2>3. buffer' = <<>> /\ remain_length' = 0 /\ Len(buffer') = 0
    BY <2>1, <1>8, <1>11
  <2>4. Upcoming' = Upcoming /\ Start(Upcoming)' = Start(Upcoming)
    BY <1>9, <1>11
  <2>5. passed' = Start(Upcoming)' + packet_receiver_'.offset_ + Len(buffer') - 1
    <3>1. Start(Upcoming) + s.offset_ - 1 = Start(Upcoming) + s.offset_ + 0 - 1
      BY <1>5, <1>7
    <3> QED BY <3>1, <2>1, <2>3, <2>4, <1>2, <1>11
  <2>6. PieceFits'
    BY <2>3, <2>5 DEF PieceFits
  <2> QED BY <2>2, <2>6, <1>9, <1>11 DEF IInv, StuckInvalid
<1>12. ASSUME IsComplete(s), NEW reading \in Readings(Data(s))
       PROVE  /\ reading.valid <=> packets[Upcoming].valid
              /\ reading.valid => reading.kind = packets[Upcoming].kind
              /\ Positions(Data(s)) = DataOf(Upcoming)
  <2>1. Positions(Data(s)) = DataOf(Upcoming)
    BY <1>3, <1>4, <1>6, <1>12, DataOfWhole
  <2> QED BY <2>1, <1>3, <1>4, <1>12, ReadingOfPacket
<1>13. ASSUME IsComplete(s), NEW reading \in Readings(Data(s)), reading.valid,
              OnPacket(reading.kind, Data(s)),
              packet_receiver_' = Clear(s),
              Continue(got.remain)
       PROVE  IInv'
  <2>1. /\ packets[Upcoming].valid
        /\ reading.kind = packets[Upcoming].kind
        /\ Positions(Data(s)) = DataOf(Upcoming)
    BY <1>12, <1>13
  <2>2. /\ handled' = Append(handled, DataOf(Upcoming))
        /\ answers' = IF packets[Upcoming].kind \in Requests
                      THEN Append(answers, packets[Upcoming].kind)
                      ELSE answers
    BY <2>1, <1>13 DEF OnPacket
  <2>3. HandledInOrder' /\ handled' \in Seq(Seq(Nat)) /\ answers' \in Seq(Requests)
    BY <2>1, <2>2, <1>2, <1>3, <1>4, OrderGrows
  <2>4. Upcoming' = Upcoming + 1
    <3>1. Len(handled') = Len(handled) + 1
      BY <2>2, <1>3, <1>4, DataOfType, AppendProperties
    <3> QED BY <3>1, <1>5 DEF Upcoming
  <2>5. packet_receiver_'.offset_ = 0 /\ packet_receiver_'.length_ = 0
    BY <1>4, <1>13, ClearType
  <2>6. Start(Upcoming)' = packets[Upcoming].to
    <3>1. Upcoming + 1 # 1 /\ (Upcoming + 1) - 1 = Upcoming
      BY <1>4
    <3> QED BY <3>1, <2>4, <1>2 DEF Start
  <2>7. /\ packets[Upcoming].from = Start(Upcoming)
        /\ packets[Upcoming].to \in Nat
        /\ packets[Upcoming].from \in Nat
    BY <1>3, <1>4, PacketNumbers
  <2>8. ~Stuck
    <3>1. Stuck => ~packets[Upcoming].valid
      BY DEF IInv, StuckInvalid
    <3> QED BY <3>1, <2>1
  <2>9. got.remain = 0 /\ passed = packets[Upcoming].to - 1
    <3>1. s.offset_ = packets[Upcoming].to - packets[Upcoming].from
      BY <1>6, <1>13
    <3>2. got.remain = 0 /\ passed = Start(Upcoming) + s.offset_ - 1
      BY <2>8, <1>4
    <3> QED BY <3>1, <3>2, <2>7
  <2>10. buffer' = <<>> /\ remain_length' = 0 /\ Len(buffer') = 0
    BY <2>9, <1>8, <1>13
  <2>11. ASSUME NEW i \in 1 .. Len(packets)
         PROVE  packets[i].to - packets[i].from \in Nat \ {0}
    <3>1. /\ packets[i].from \in Nat /\ DataLength(packets[i]) \in Nat
          /\ packets[i].to = packets[i].from + kPacketLengthSize + DataLength(packets[i])
      BY <1>3, PacketNumbers
    <3> QED BY <3>1, Sizes
  <2>12. Upcoming' <= Len(packets') => packets'[Upcoming'].to - packets'[Upcoming'].from \in Nat \ {0}
    <3>1. Upcoming + 1 <= Len(packets) => Upcoming + 1 \in 1 .. Len(packets)
      BY <1>4, <1>5
    <3> QED BY <3>1, <2>4, <2>11, <1>2
  <2>13. HoldsBeginning'
    <3>1. ~(0 >= kPacketLengthSize)
      BY Sizes
    <3>2. ASSUME Upcoming' <= Len(packets') PROVE Beginning(packet_receiver_, Upcoming)'
      BY <3>1, <3>2, <2>5, <2>12 DEF Beginning
    <3> QED BY <3>2, <2>5 DEF HoldsBeginning
  <2>14. ~Stuck'
    BY <2>5, <2>12 DEF Stuck
  <2>15. passed' = Start(Upcoming)' + packet_receiver_'.offset_ + Len(buffer') - 1
    <3>1. packets[Upcoming].to - 1 = packets[Upcoming].to + 0 + 0 - 1
      BY <2>7
    <3> QED BY <3>1, <2>5, <2>6, <2>9, <2>10, <1>2
  <2>16. PieceFits'
    BY <2>10, <2>15 DEF PieceFits
  <2> QED BY <2>3, <2>13, <2>14, <2>16 DEF IInv, StuckInvalid
<1>14. ASSUME IsComplete(s), NEW reading \in Readings(Data(s)), ~reading.valid,
              packet_receiver_' = s,
              Continue(0),
              UNCHANGED <<handled, answers>>
       PROVE  IInv'
  <2>1. ~packets[Upcoming].valid
    BY <1>12, <1>14
  <2>2. HoldsBeginning' /\ Stuck'
    BY <1>6, <1>10, <1>14
  <2>3. StuckInvalid'
    BY <2>1, <1>2, <1>9, <1>14 DEF StuckInvalid
  <2>4. PieceFits'
    BY <2>2, <1>8, <1>14 DEF PieceFits
  <2> QED BY <2>2, <2>3, <2>4, <1>9, <1>14 DEF IInv
<1>15. CASE /\ IsComplete(s)
            /\ \E reading \in Readings(Data(s)) :
                 IF reading.valid
                 THEN /\ OnPacket(reading.kind, Data(s))
                      /\ packet_receiver_' = Clear(s)
                      /\ Continue(got.remain)
                 ELSE /\ packet_receiver_' = s
                      /\ Continue(0)
                      /\ UNCHANGED <<handled, answers>>
  <2>1. PICK reading \in Readings(Data(s)) :
          IF reading.valid
          THEN /\ OnPacket(reading.kind, Data(s))
               /\ packet_receiver_' = Clear(s)
               /\ Continue(got.remain)
          ELSE /\ packet_receiver_' = s
               /\ Continue(0)
               /\ UNCHANGED <<handled, answers>>
    BY <1>15
  <2>2. CASE reading.valid
    BY <2>1, <2>2, <1>13, <1>15
  <2>3. CASE ~reading.valid
    BY <2>1, <2>3, <1>14, <1>15
  <2> QED BY <2>2, <2>3
<1> QED BY <1>1, <1>11, <1>15 DEF Turn, s

(* Every step. *)
LEMMA IInvStep ==
  ASSUME IInv, ~Coalescing, [Next]_vars
  PROVE  IInv'
<1>1. Sound'
  BY SoundStep DEF IInv
<1>2. ASSUME NEW kind \in Kinds, NEW n \in Payloads, NEW valid \in BOOLEAN, Send(kind, n, valid)
      PROVE  IInv'
  BY <1>1, <1>2, IInvSend
<1>3. ASSUME NEW n \in 1 .. kSocketBufferSize, OnReceivePacket(n)
      PROVE  IInv'
  BY <1>1, <1>3, IInvReceive
<1>4. ASSUME Turn PROVE IInv'
  BY <1>1, <1>4, IInvTurn
<1>5. ASSUME UNCHANGED vars PROVE IInv'
  <2>1. UNCHANGED <<packets, passed, packet_receiver_, buffer, remain_length, handled, answers>>
    BY <1>5 DEF vars
  <2>2. HandledInOrder'
    <3>1. Stream /\ HandledInOrder /\ handled \in Seq(Seq(Nat)) /\ Len(packets) \in Nat
      BY LenProperties DEF IInv, Sound, Stream
    <3> QED BY <3>1, <2>1, OrderKept
  <2>3. Upcoming' = Upcoming /\ Start(Upcoming)' = Start(Upcoming)
    BY <2>1 DEF Upcoming, Start
  <2>4. HoldsBeginning'
    BY <2>1, <2>3 DEF IInv, HoldsBeginning, Beginning
  <2>5. StuckInvalid' /\ PieceFits'
    BY <2>1, <2>3 DEF IInv, StuckInvalid, PieceFits, Stuck
  <2> QED BY <2>1, <2>2, <2>4, <2>5, <1>1 DEF IInv
<1> QED BY <1>2, <1>3, <1>4, <1>5 DEF Next

(* When every call of OnReceivePacket gets bytes of one packet, which is   *)
(* what the loop with the pointer it never moves needs, packet_receiver_   *)
(* follows the stream.                                                     *)
THEOREM InductiveInvariant ==
  ASSUME ~Coalescing
  PROVE  Spec => []IInv
<1>1. Init => IInv
  BY IInvInit
<1>2. IInv /\ [Next]_vars => IInv'
  BY IInvStep
<1> QED BY <1>1, <1>2, PTL DEF Spec

(* Every variable has its type: no value leaves the range it has in the    *)
(* code.                                                                   *)
THEOREM TypeCorrect ==
  ASSUME ~Coalescing
  PROVE  Spec => []TypeOK
<1>1. Spec => []IInv
  BY InductiveInvariant
<1>2. IInv => TypeOK
  BY DEF IInv, Sound, Stream, TypeOK
<1> QED BY <1>1, <1>2, PTL

(* packet_receiver_ holds the beginning of the packet after those handled, *)
(* and its length once the header is there.                                *)
THEOREM ReceiverFollowsStream ==
  ASSUME ~Coalescing
  PROVE  Spec => []HoldsNextPacket
<1>1. Spec => []IInv
  BY InductiveInvariant
<1>2. IInv => HoldsNextPacket
  <2> SUFFICES ASSUME IInv PROVE HoldsNextPacket
    OBVIOUS
  <2> DEFINE r == packet_receiver_
  <2>1. r.offset_ \in Nat
    BY UINT32Type DEF IInv, Sound, ReceiverState
  <2>2. CASE Upcoming <= Len(packets)
    <3>1. Beginning(r, Upcoming)
      BY <2>2 DEF IInv, HoldsBeginning
    <3>2. \A i \in 1 .. r.offset_ : r.buffer_[i].pos = Start(Upcoming) + i - 1
      <4> TAKE i \in 1 .. r.offset_
      <4>1. r.buffer_[i] = ByteOf(packets[Upcoming], Start(Upcoming) + i - 1)
        BY <3>1 DEF Beginning
      <4>2. \A packet, p : ByteOf(packet, p).pos = p
        BY DEF ByteOf
      <4> QED BY <4>1, <4>2
    <3>3. r.offset_ >= kPacketLengthSize => r.length_ = DataLength(packets[Upcoming])
      BY <3>1 DEF Beginning
    <3> QED BY <3>2, <3>3 DEF HoldsNextPacket, Upcoming
  <2>3. CASE ~(Upcoming <= Len(packets))
    <3>1. r.offset_ = 0
      BY <2>3 DEF IInv, HoldsBeginning
    <3>2. ~(0 >= kPacketLengthSize) /\ 1 .. 0 = {}
      BY Sizes
    <3> QED BY <3>1, <3>2 DEF HoldsNextPacket
  <2> QED BY <2>2, <2>3
<1> QED BY <1>1, <1>2, PTL

(* OnPacket gets the client's packets whole and in order, from the first   *)
(* up to one that does not verify, and each that has a handler is answered *)
(* once and in order.                                                      *)
THEOREM PacketsInOrder ==
  ASSUME ~Coalescing
  PROVE  Spec => []HandledInOrder
<1>1. Spec => []IInv
  BY InductiveInvariant
<1>2. IInv => HandledInOrder
  BY DEF IInv
<1> QED BY <1>1, <1>2, PTL
=============================================================================
