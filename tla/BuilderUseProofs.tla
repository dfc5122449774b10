-------------------------- MODULE BuilderUseProofs ---------------------------
(***************************************************************************)
(* Proofs about a FlatBufferBuilder, however a program that BuilderUse     *)
(* allows uses it: for any strings, numbers, structs and fields, any first *)
(* block, and any number of objects and buffers.  In this order: the       *)
(* invariant UseInv and that each action keeps it; reading what has been   *)
(* written; what the invariant says of the properties; the theorems.       *)
(***************************************************************************)
EXTENDS BuilderProofs

-----------------------------------------------------------------------------
(* The objects that have been written.                                     *)

(* Structs that are aligned by more than a byte are padded alike. *)
LEMMA AlignedArePadded ==
  ASSUME NEW u, Len(u[1]) \in Nat, u[2] \in Nat, u[3] \in Alignments, u[3] # 1, u[2] % u[3] = 0
  PROVE  PaddedAlike(u)
<1> DEFINE k == Len(u[1])
           s == u[2]
           a == u[3]
           n == k * s
           q == n \div a
<1>1. k \in Nat /\ s \in Nat /\ a \in {2, 4, 8, 16, 32} /\ a \in Alignments /\ s % a = 0
  BY DEF Alignments
<1>2. (q * s - n) % 4 = 0 => PaddedAlike(u)
  BY DEF PaddedAlike
<1> HIDE DEF k, s, a
<1>3. n \in Nat
  BY <1>1
<1> HIDE DEF n
<1>4. q \in Nat
  BY <1>1, <1>3
<1>5. ASSUME NEW z \in Int PROVE (4 * z) % 4 = 0
  OBVIOUS
<1>6. CASE a # 2
  <2>1. s % 4 = 0
    <3>1. 4 \in Alignments /\ 4 <= a
      BY <1>1, <1>6 DEF Alignments
    <3> QED BY <1>1, <3>1, SmallerAlignment
  <2> DEFINE j == s \div 4
  <2>2. j \in Nat /\ s = 4 * j
    BY <1>1, <2>1
  <2> HIDE DEF j, q
  <2>3. q * s = 4 * (q * j)
    BY <1>4, <2>2
  <2>4. n = 4 * (k * j)
    BY <1>1, <2>2 DEF n
  <2>5. q * j \in Int /\ k * j \in Int
    BY <1>1, <1>4, <2>2
  <2> DEFINE x == q * j
             y == k * j
  <2>6. q * s = 4 * x /\ n = 4 * y /\ x \in Int /\ y \in Int
    BY <2>3, <2>4, <2>5
  <2> HIDE DEF x, y
  <2>7. q * s - n = 4 * (x - y) /\ x - y \in Int
    BY <2>6
  <2>8. (4 * (x - y)) % 4 = 0
    BY <1>5, <2>7
  <2> QED BY <1>2, <2>7, <2>8 DEF q
<1>7. CASE a = 2
  <2> DEFINE j == s \div 2
             w == k * j
  <2>1. j \in Nat /\ s = 2 * j
    BY <1>1, <1>7
  <2> HIDE DEF j
  <2>2. n = 2 * w /\ w \in Nat
    BY <1>1, <2>1 DEF n
  <2> HIDE DEF w
  <2>3. q = w
    BY <1>7, <2>2
  <2> HIDE DEF q
  <2>4. \E i \in Int : w * j - w = 2 * i
    <3> DEFINE h == j \div 2
    <3>1. h \in Nat /\ (j = 2 * h \/ j = 2 * h + 1)
      BY <2>1
    <3> HIDE DEF h
    <3>2. CASE j = 2 * h + 1
      <4>1. w * j - w = 2 * (w * h) /\ w * h \in Int
        BY <2>2, <3>1, <3>2
      <4> QED BY <4>1
    <3>3. CASE j = 2 * h
      <4>1. w = 2 * (k * h) /\ k * h \in Int
        BY <1>1, <3>1, <3>3 DEF w
      <4> DEFINE y == k * h
      <4>2. w = 2 * y /\ y \in Int
        BY <4>1
      <4> HIDE DEF y
      <4>3. w * j = 2 * (y * j) /\ y * j \in Int
        BY <2>1, <4>2
      <4> DEFINE x == y * j
      <4>4. w * j = 2 * x /\ x \in Int
        BY <4>3
      <4> HIDE DEF x
      <4>5. w * j - w = 2 * (x - y) /\ x - y \in Int
        BY <4>2, <4>4
      <4> QED BY <4>5
    <3> QED BY <3>1, <3>2, <3>3
  <2>5. PICK i \in Int : w * j - w = 2 * i
    BY <2>4
  <2>6. q * s = 2 * (w * j) /\ w * j \in Int
    BY <2>1, <2>2, <2>3
  <2> DEFINE x == w * j
  <2>7. x - w = 2 * i /\ q * s = 2 * x /\ x \in Int
    BY <2>5, <2>6
  <2> HIDE DEF x
  <2>8. q * s - n = 4 * i
    BY <2>2, <2>7
  <2>9. (4 * i) % 4 = 0
    BY <1>5
  <2> QED BY <1>2, <2>8, <2>9 DEF q
<1> QED BY <1>6, <1>7

(* Those that are aligned by a byte are if their number and size allow it. *)
StructsPadded == \A v \in Structs : v[3] = 1 => PaddedAlike(v)

(* What lies at the offset o of the buffer v for each kind of object, in a *)
(* buffer that is aligned by minalign.                                     *)
StringAt(v, o, value) ==
  /\ value = [text |-> value.text] \/ value = [text |-> value.text, shared |-> TRUE]
  /\ value.text \in Seq(Byte) /\ TextAt(v, o, value.text)
IntegersAt(v, o, value, minalign) ==
  /\ value = [integers |-> value.integers, bytes |-> value.bytes]
  /\ value.bytes \in Sizes /\ value.integers \in Seq(Values(value.bytes))
  /\ ScalarsAt(v, o, value.integers, value.bytes, minalign)
ReferencesAt(v, o, value) ==
  /\ value = [offsets |-> value.offsets] /\ value.offsets \in Seq(Nat)
  /\ OffsetsAt(v, o, value.offsets, Len(value.offsets))
StringsAt(v, o, value) ==
  /\ value = [texts |-> value.texts] /\ value.texts \in Seq(Seq(Byte))
  /\ TextsAt(v, o, value.texts)
StructVectorAt(v, o, value, minalign) ==
  /\ value = [structs |-> value.structs, sizeof |-> value.sizeof, alignment |-> value.alignment]
  /\ value.sizeof \in Nat \ {0} /\ value.alignment \in Alignments
  /\ value.structs \in Seq([1 .. value.sizeof -> Byte])
  /\ StructsPadded => PaddedAlike(<<value.structs, value.sizeof, value.alignment>>)
  /\ StructsAt(v, o, value.structs, value.sizeof, value.alignment, minalign)
FieldsAt(v, o, value, force, minalign) ==
  value = [table |-> value.table] /\ TableAt(v, o, value.table, force, minalign)
ObjectAt(v, o, value, force, minalign) ==
  /\ o \in Nat /\ 4 <= o /\ o <= v.size /\ o % 4 = 0 /\ 4 <= minalign
  /\ \/ StringAt(v, o, value)
     \/ IntegersAt(v, o, value, minalign)
     \/ ReferencesAt(v, o, value)
     \/ StringsAt(v, o, value)
     \/ StructVectorAt(v, o, value, minalign)
     \/ FieldsAt(v, o, value, force, minalign)

(* The length that something begins with stays. *)
LEMMA LengthStays ==
  ASSUME NEW v, NEW w, v.size \in Nat, w.size \in Nat, Stays(v, w),
         NEW o \in Int, NEW n \in Int, Holds(v, o, EndianScalar(n, 4))
  PROVE  Holds(w, o, EndianScalar(n, 4))
<1>1. 4 \in Nat
  OBVIOUS
<1>2. Len(EndianScalar(n, 4)) \in Nat
  BY <1>1, ScalarBytes
<1> QED BY <1>2, HoldsOn

(* Vectors stay: those of integers, *)
LEMMA ScalarsStay ==
  ASSUME NEW v, NEW w, v.size \in Nat, w.size \in Nat, Stays(v, w),
         NEW o \in Nat, NEW n \in Sizes, NEW elements \in Seq(Values(n)),
         NEW low \in Nat, NEW high \in Nat, low <= high, ScalarsAt(v, o, elements, n, low)
  PROVE  ScalarsAt(w, o, elements, n, high)
<1>1. Len(elements) \in Nat /\ n \in Nat /\ o \in Int
  BY DEF Sizes
<1>2. Holds(w, o, EndianScalar(Len(elements), 4))
  <2>1. Holds(v, o, EndianScalar(Len(elements), 4)) /\ Len(elements) \in Int
    BY <1>1 DEF ScalarsAt
  <2> QED BY <1>1, <2>1, LengthStays
<1>3. ASSUME NEW i \in 1 .. Len(elements)
      PROVE  Holds(w, o - 4 - n * (i - 1), EndianScalar(elements[i], n))
  <2> DEFINE e == o - 4 - n * (i - 1)
  <2>1. e \in Int
    BY <1>1, <1>3
  <2>2. Holds(v, e, EndianScalar(elements[i], n))
    BY <1>3 DEF ScalarsAt
  <2> HIDE DEF e
  <2>3. elements[i] \in Int
    <3>1. elements[i] \in Values(n)
      BY <1>3
    <3> QED BY <3>1 DEF Values
  <2>4. Len(EndianScalar(elements[i], n)) \in Nat
    BY <1>1, <2>3, ScalarBytes
  <2>5. Holds(w, e, EndianScalar(elements[i], n))
    BY <2>1, <2>2, <2>4, HoldsOn
  <2> QED BY <2>5 DEF e
<1>4. Len(elements) # 0 => (o - 4) % n = 0 /\ n <= high
  <2>1. Len(elements) # 0 => (o - 4) % n = 0 /\ n <= low
    BY DEF ScalarsAt
  <2> QED BY <1>1, <2>1
<1>5. Len(elements) <= o
  BY DEF ScalarsAt
<1> QED BY <1>2, <1>3, <1>4, <1>5 DEF ScalarsAt

(* of references, *)
LEMMA OffsetsStay ==
  ASSUME NEW v, NEW w, v.size \in Nat, w.size \in Nat, Stays(v, w),
         NEW o \in Nat, NEW offsets \in Seq(Nat), OffsetsAt(v, o, offsets, Len(offsets))
  PROVE  OffsetsAt(w, o, offsets, Len(offsets))
<1> DEFINE n == Len(offsets)
<1>1. n \in Nat /\ n \in Int /\ o \in Int /\ \A i \in 1 .. n : offsets[i] \in Int
  OBVIOUS
<1> HIDE DEF n
<1>2. OffsetsAt(v, o, offsets, n)
  BY DEF n
<1>3. Holds(w, o, EndianScalar(n, 4))
  <2>1. Holds(v, o, EndianScalar(n, 4))
    BY <1>2 DEF OffsetsAt
  <2> QED BY <1>1, <2>1, LengthStays
<1>4. ASSUME NEW i \in 1 .. n PROVE RefersAt(w, o - 4 - 4 * (i - 1), offsets[i])
  <2> DEFINE e == o - 4 - 4 * (i - 1)
  <2>1. e \in Int /\ RefersAt(v, e, offsets[i])
    BY <1>1, <1>2, <1>4 DEF OffsetsAt
  <2> HIDE DEF e
  <2>2. offsets[i] \in Int
    BY <1>1, <1>4
  <2>3. RefersAt(w, e, offsets[i])
    BY <2>1, <2>2, RefersStays
  <2> QED BY <2>3 DEF e
<1>5. n <= o
  BY <1>2 DEF OffsetsAt
<1>6. OffsetsAt(w, o, offsets, n)
  BY <1>3, <1>4, <1>5 DEF OffsetsAt
<1> QED BY <1>6 DEF n

(* of strings *)
LEMMA TextsStay ==
  ASSUME NEW v, NEW w, v.size \in Nat, w.size \in Nat, Stays(v, w),
         NEW o \in Nat, NEW texts \in Seq(Seq(Byte)), TextsAt(v, o, texts)
  PROVE  TextsAt(w, o, texts)
<1> DEFINE n == Len(texts)
<1>1. n \in Nat /\ n \in Int /\ o \in Int /\ \A i \in 1 .. n : texts[i] \in Seq(Byte)
  OBVIOUS
<1>2. /\ n <= o /\ Holds(v, o, EndianScalar(n, 4))
      /\ \A i \in 1 .. n : \E off \in Nat :
           off % 4 = 0 /\ RefersAt(v, o - 4 - 4 * (i - 1), off) /\ TextAt(v, off, texts[i])
  BY DEF TextsAt
<1> HIDE DEF n
<1>3. Holds(w, o, EndianScalar(n, 4))
  BY <1>1, <1>2, LengthStays
<1>4. ASSUME NEW i \in 1 .. n
      PROVE  \E off \in Nat :
               off % 4 = 0 /\ RefersAt(w, o - 4 - 4 * (i - 1), off) /\ TextAt(w, off, texts[i])
  <2> DEFINE e == o - 4 - 4 * (i - 1)
  <2>1. PICK off \in Nat : off % 4 = 0 /\ RefersAt(v, e, off) /\ TextAt(v, off, texts[i])
    BY <1>2, <1>4
  <2>2. e \in Int /\ off \in Int
    BY <1>1, <1>4
  <2> HIDE DEF e
  <2>3. RefersAt(w, e, off)
    BY <2>1, <2>2, RefersStays
  <2>4. texts[i] \in Seq(Byte)
    BY <1>1, <1>4
  <2>5. TextAt(w, off, texts[i])
    BY <2>1, <2>2, <2>4, TextStays
  <2> QED BY <2>1, <2>3, <2>5 DEF e
<1> QED BY <1>2, <1>3, <1>4 DEF TextsAt, n

(* and of structs. *)
LEMMA StructsStay ==
  ASSUME NEW v, NEW w, v.size \in Nat, w.size \in Nat, Stays(v, w),
         NEW o \in Nat, NEW size_ \in Nat, NEW alignment \in Alignments,
         NEW structs \in Seq([1 .. size_ -> Byte]),
         NEW low \in Nat, NEW high \in Nat, low <= high,
         StructsAt(v, o, structs, size_, alignment, low)
  PROVE  StructsAt(w, o, structs, size_, alignment, high)
<1> DEFINE n == Len(structs)
<1>1. n \in Nat /\ n \in Int /\ o \in Int /\ alignment \in Nat
      /\ \A i \in 1 .. n : structs[i] \in [1 .. size_ -> Byte]
  BY DEF Alignments
<1>2. n <= o /\ Holds(v, o, EndianScalar(n, 4))
  BY DEF StructsAt
<1>3. n # 0 => (o - 4) % alignment = 0 /\ alignment <= low
  BY DEF StructsAt
<1>4. PaddedAlike(<<structs, size_, alignment>>) =>
        \A i \in 1 .. n : Holds(v, o - 4 - size_ * (i - 1), structs[i])
  BY DEF StructsAt
<1> HIDE DEF n
<1>5. Holds(w, o, EndianScalar(n, 4))
  BY <1>1, <1>2, LengthStays
<1>6. ASSUME PaddedAlike(<<structs, size_, alignment>>), NEW i \in 1 .. n
      PROVE  Holds(w, o - 4 - size_ * (i - 1), structs[i])
  <2> DEFINE e == o - 4 - size_ * (i - 1)
  <2>1. e \in Int
    BY <1>1, <1>6
  <2>2. Holds(v, e, structs[i])
    BY <1>4, <1>6
  <2> HIDE DEF e
  <2>3. Len(structs[i]) \in Nat
    <3>1. structs[i] \in [1 .. size_ -> Byte]
      BY <1>1, <1>6
    <3>2. structs[i] \in Seq(Byte)
      BY <3>1
    <3> QED BY <3>2
  <2>4. Holds(w, e, structs[i])
    BY <2>1, <2>2, <2>3, HoldsOn
  <2> QED BY <2>4 DEF e
<1>7. n # 0 => (o - 4) % alignment = 0 /\ alignment <= high
  BY <1>1, <1>3
<1> QED BY <1>2, <1>5, <1>6, <1>7 DEF StructsAt, n

(* Whatever is serialized later, an object stays as it was written. *)
LEMMA ObjectStays ==
  ASSUME NEW v, NEW w, v.size \in Nat, w.size \in Nat, Stays(v, w),
         NEW o, NEW value, NEW force, NEW low \in Nat, NEW high \in Nat, low <= high,
         ObjectAt(v, o, value, force, low)
  PROVE  ObjectAt(w, o, value, force, high)
<1>1. o \in Nat /\ 4 <= o /\ o <= v.size /\ o % 4 = 0 /\ 4 <= low
  BY DEF ObjectAt
<1>2. 4 <= high /\ o <= w.size /\ o \in Int
  BY <1>1 DEF Stays
<1>3. CASE StringAt(v, o, value)
  <2>1. value.text \in Seq(Byte) /\ TextAt(v, o, value.text)
    BY <1>3 DEF StringAt
  <2>2. TextAt(w, o, value.text)
    BY <1>2, <2>1, TextStays
  <2>3. StringAt(w, o, value)
    BY <1>3, <2>2 DEF StringAt
  <2> QED BY <1>1, <1>2, <2>3 DEF ObjectAt
<1>4. CASE IntegersAt(v, o, value, low)
  <2>1. /\ value.bytes \in Sizes /\ value.integers \in Seq(Values(value.bytes))
        /\ ScalarsAt(v, o, value.integers, value.bytes, low)
    BY <1>4 DEF IntegersAt
  <2>2. ScalarsAt(w, o, value.integers, value.bytes, high)
    BY <1>1, <2>1, ScalarsStay
  <2>3. IntegersAt(w, o, value, high)
    BY <1>4, <2>2 DEF IntegersAt
  <2> QED BY <1>1, <1>2, <2>3 DEF ObjectAt
<1>5. CASE ReferencesAt(v, o, value)
  <2>1. value.offsets \in Seq(Nat) /\ OffsetsAt(v, o, value.offsets, Len(value.offsets))
    BY <1>5 DEF ReferencesAt
  <2>2. OffsetsAt(w, o, value.offsets, Len(value.offsets))
    BY <1>1, <2>1, OffsetsStay
  <2>3. ReferencesAt(w, o, value)
    BY <1>5, <2>2 DEF ReferencesAt
  <2> QED BY <1>1, <1>2, <2>3 DEF ObjectAt
<1>6. CASE StringsAt(v, o, value)
  <2>1. value.texts \in Seq(Seq(Byte)) /\ TextsAt(v, o, value.texts)
    BY <1>6 DEF StringsAt
  <2>2. TextsAt(w, o, value.texts)
    BY <1>1, <2>1, TextsStay
  <2>3. StringsAt(w, o, value)
    BY <1>6, <2>2 DEF StringsAt
  <2> QED BY <1>1, <1>2, <2>3 DEF ObjectAt
<1>7. CASE StructVectorAt(v, o, value, low)
  <2>1. /\ value.sizeof \in Nat /\ value.alignment \in Alignments
        /\ value.structs \in Seq([1 .. value.sizeof -> Byte])
        /\ StructsAt(v, o, value.structs, value.sizeof, value.alignment, low)
    BY <1>7 DEF StructVectorAt
  <2>2. StructsAt(w, o, value.structs, value.sizeof, value.alignment, high)
    BY <1>1, <2>1, StructsStay
  <2>3. StructVectorAt(w, o, value, high)
    BY <1>7, <2>2 DEF StructVectorAt
  <2> QED BY <1>1, <1>2, <2>3 DEF ObjectAt
<1>8. CASE FieldsAt(v, o, value, force, low)
  <2>1. TableAt(v, o, value.table, force, low)
    BY <1>8 DEF FieldsAt
  <2>2. TableAt(w, o, value.table, force, high)
    BY <1>1, <2>1, TableStays
  <2>3. FieldsAt(w, o, value, force, high)
    BY <1>8, <2>2 DEF FieldsAt
  <2> QED BY <1>1, <1>2, <2>3 DEF ObjectAt
<1> QED BY <1>3, <1>4, <1>5, <1>6, <1>7, <1>8 DEF ObjectAt

-----------------------------------------------------------------------------
(* The invariant.                                                          *)

(* What every use of the builder keeps: its memory is in order for the     *)
(* block that is detached, and it has FieldLocs only while it builds a     *)
(* table.                                                                  *)
MemoryInv ==
  /\ detached \in 0 .. 3 /\ buffers \in Nat
  /\ b \in Builders(detached)
  /\ b.nested \/ b.num_field_loc = 0
  /\ start \in Nat
  /\ \A x \in objects : x.o \in Nat

(* No assertion of the builder has failed, and the buffer is no longer     *)
(* than a reference reaches, which vector_downward.h:140 asserts whenever  *)
(* more is written.                                                        *)
Asserted == b.ok /\ b.buf.size <= FLATBUFFERS_MAX_BUFFER_SIZE

(* Then the objects are where they were written, the fields of the open    *)
(* table where the scratch pad says, and the vtables where it says; a      *)
(* finished buffer is as long as its largest alignment allows.             *)
ObjectsWritten ==
  \A x \in objects :
    /\ x = [o |-> x.o, value |-> x.value]
    /\ ObjectAt(b.buf, x.o, x.value, b.force_defaults_, b.minalign_)
TableBegun == b.nested => TableOpen(b, fields, start)
VTablesKept == VTablesIn(b.buf, Base(b), b.dedup_vtables_)
FinishedWhole == b.finished => ~b.nested /\ 4 <= b.minalign_ /\ b.buf.size % b.minalign_ = 0
ObjectsInv == ObjectsWritten /\ TableBegun /\ VTablesKept /\ SharedStringsOnce /\ FinishedWhole

UseInv == MemoryInv /\ (Asserted => ObjectsInv)

(* A step within a buffer leaves what is serialized where it is. *)
StepStays == buffers' = buffers => Stays(b.buf, b'.buf)

(* A builder that is idle builds no table. *)
LEMMA IdleIsIdler ==
  ASSUME MemoryInv, ~b.nested
  PROVE  b \in Idlers(detached) /\ b \in Builders(detached) /\ detached \in 0 .. 3 /\ b.nested = FALSE
<1>1. b \in Builders(detached) /\ detached \in 0 .. 3 /\ b.num_field_loc = 0
  BY DEF MemoryInv
<1>2. b.nested \in BOOLEAN
  BY <1>1, BuilderFields
<1> QED BY <1>1, <1>2 DEF Idlers

(* What was written stays when the builder only grows. *)
LEMMA ObjectsStay ==
  ASSUME UseInv, Asserted', NEW d, b' \in Builders(d), Stays(b.buf, b'.buf), b'.ok => b.ok,
         b'.force_defaults_ = b.force_defaults_, b.minalign_ <= b'.minalign_
  PROVE  /\ Asserted /\ ObjectsInv
         /\ \A x \in objects :
              /\ x = [o |-> x.o, value |-> x.value]
              /\ ObjectAt(b'.buf, x.o, x.value, b'.force_defaults_, b'.minalign_)
<1>1. b \in Builders(detached)
  BY DEF UseInv, MemoryInv
<1> DEFINE v == b.buf
           w == b'.buf
           low == b.minalign_
           high == b'.minalign_
           x_ == v.size
           y_ == w.size
           max == FLATBUFFERS_MAX_BUFFER_SIZE
<1>2. x_ \in Nat /\ y_ \in Nat /\ low \in Nat /\ high \in Nat /\ low <= high /\ max \in Nat
  BY <1>1, BuilderNumbers, SmallSizes
<1>3. x_ <= y_ /\ y_ <= max
  BY DEF Stays, Asserted
<1>4. Asserted
  <2>1. b.ok
    BY DEF Asserted
  <2> HIDE DEF x_, y_, max
  <2>2. x_ <= max
    BY <1>2, <1>3
  <2> QED BY <2>1, <2>2 DEF Asserted, x_, max
<1>5. ObjectsInv
  BY <1>4 DEF UseInv
<1>6. ASSUME NEW x \in objects
      PROVE  /\ x = [o |-> x.o, value |-> x.value]
             /\ ObjectAt(b'.buf, x.o, x.value, b'.force_defaults_, b'.minalign_)
  <2>1. /\ x = [o |-> x.o, value |-> x.value]
        /\ ObjectAt(v, x.o, x.value, b'.force_defaults_, low)
    BY <1>5 DEF ObjectsInv, ObjectsWritten
  <2>2. v.size \in Nat /\ w.size \in Nat /\ Stays(v, w)
    BY <1>2
  <2> HIDE DEF v, w, low, high
  <2>3. ObjectAt(w, x.o, x.value, b'.force_defaults_, high)
    BY <1>2, <2>1, <2>2, ObjectStays
  <2> QED BY <2>1, <2>3 DEF w, high
<1> QED BY <1>4, <1>5, <1>6

(* The vtables stay when the scratch pad before the FieldLocs does. *)
LEMMA VTablesOn ==
  ASSUME NEW d, NEW e, NEW b_ \in Builders(d), NEW c \in Builders(e), SamePad(b_, c),
         Stays(b_.buf, c.buf), c.dedup_vtables_ = b_.dedup_vtables_,
         VTablesIn(b_.buf, Base(b_), b_.dedup_vtables_)
  PROVE  VTablesIn(c.buf, Base(c), c.dedup_vtables_)
<1>1. b_.buf \in Vectors(d) /\ c.buf \in Vectors(e)
  BY BuilderFields
<1>2. Base(b_) \in Nat
  BY BaseIs
<1>3. Base(c) = Base(b_) /\ SameBelow(b_.buf, c.buf, Base(b_))
  BY DEF SamePad, SameBelow
<1>4. VTablesIn(c.buf, Base(b_), b_.dedup_vtables_)
  BY <1>1, <1>2, <1>3, VTablesStay
<1> QED BY <1>3, <1>4

(* It does when nothing of the scratch pad changes. *)
LEMMA PadSame ==
  ASSUME NEW d, NEW b_ \in Builders(d), NEW c, SameScratch(b_.buf, c.buf),
         c.num_field_loc = b_.num_field_loc
  PROVE  SamePad(b_, c)
<1> DEFINE s == b_.buf.scratch
           base == Base(b_)
<1>1. s \in Nat /\ base \in Nat /\ base <= s
  BY BuilderNumbers, BaseIs
<1>2. \A a \in 0 .. s - 1 : c.buf.mem[a] = b_.buf.mem[a]
  BY DEF SameScratch
<1>3. Base(c) = base
  BY DEF Base, SameScratch
<1> HIDE DEF s, base
<1>4. \A a \in 0 .. base - 1 : c.buf.mem[a] = b_.buf.mem[a]
  BY <1>1, <1>2
<1> QED BY <1>3, <1>4 DEF SamePad, base

-----------------------------------------------------------------------------
(* Objects *)

(* An object that is new keeps the invariant when it is written behind     *)
(* what there was.                                                         *)
LEMMA ObjectKeeps ==
  ASSUME UseInv, Idle, NEW new, NEW value, Object(new, value), Written(b, new, detached),
         "shared" \notin DOMAIN value,
         new.b.ok /\ new.b.buf.size <= FLATBUFFERS_MAX_BUFFER_SIZE =>
           ObjectAt(new.b.buf, new.o, value, new.b.force_defaults_, new.b.minalign_)
  PROVE  UseInv' /\ StepStays
<1> DEFINE x == [o |-> new.o, value |-> value]
<1>1. /\ b' = new.b /\ objects' = objects \union {x}
      /\ fields' = fields /\ start' = start /\ buffers' = buffers /\ detached' = detached
  BY DEF Object
<1>2. /\ b \in Idlers(detached) /\ b \in Builders(detached) /\ detached \in 0 .. 3
      /\ b.nested = FALSE
  BY IdleIsIdler DEF Idle, UseInv
<1>3. /\ b' \in Follows(b, detached) /\ b'.string_pool = b.string_pool /\ b'.nested = FALSE
      /\ new.o \in Nat
  BY <1>1, <1>2 DEF Written
<1>4. /\ b' \in Builders(detached) /\ b'.num_field_loc = 0 /\ b.num_field_loc = 0
      /\ SameFlags(b, b') /\ b.minalign_ <= b'.minalign_
      /\ SameScratch(b.buf, b'.buf) /\ Stays(b.buf, b'.buf)
  BY <1>2, <1>3 DEF Follows, Idlers
<1>5. x.o = new.o /\ x.value = value
  OBVIOUS
<1> HIDE DEF x
<1>6. MemoryInv'
  <2>1. \A y \in objects' : y.o \in Nat
    BY <1>1, <1>3, <1>5 DEF UseInv, MemoryInv
  <2> QED BY <1>1, <1>4, <2>1 DEF UseInv, MemoryInv
<1>7. ASSUME Asserted' PROVE ObjectsInv'
  <2>1. /\ Asserted /\ ObjectsInv
        /\ \A y \in objects :
             /\ y = [o |-> y.o, value |-> y.value]
             /\ ObjectAt(b'.buf, y.o, y.value, b'.force_defaults_, b'.minalign_)
    BY <1>4, <1>7, ObjectsStay DEF SameFlags
  <2>2. ObjectsWritten'
    <3>1. ObjectAt(b'.buf, x.o, x.value, b'.force_defaults_, b'.minalign_)
      BY <1>1, <1>5, <1>7 DEF Asserted
    <3>2. x = [o |-> x.o, value |-> x.value]
      BY <1>5 DEF x
    <3> QED BY <1>1, <2>1, <3>1, <3>2 DEF ObjectsWritten
  <2>3. TableBegun'
    BY <1>3 DEF TableBegun
  <2>4. VTablesKept'
    <3>1. SamePad(b, b')
      BY <1>2, <1>4, PadSame
    <3>2. VTablesIn(b.buf, Base(b), b.dedup_vtables_)
      BY <2>1 DEF ObjectsInv, VTablesKept
    <3>3. b'.dedup_vtables_ = b.dedup_vtables_
      BY <1>4 DEF SameFlags
    <3> QED BY <1>2, <1>4, <3>1, <3>2, <3>3, VTablesOn DEF VTablesKept
  <2>5. SharedStringsOnce'
    <3>1. {y \in objects' : "shared" \in DOMAIN y.value} = {y \in objects : "shared" \in DOMAIN y.value}
      BY <1>1, <1>5
    <3>2. SharedStringsOnce
      BY <2>1 DEF ObjectsInv
    <3> QED BY <1>3, <3>1, <3>2 DEF SharedStringsOnce
  <2>6. FinishedWhole'
    BY <1>4 DEF FinishedWhole, SameFlags, Idle
  <2> QED BY <2>2, <2>3, <2>4, <2>5, <2>6 DEF ObjectsInv
<1>8. StepStays
  BY <1>4 DEF StepStays
<1> QED BY <1>6, <1>7, <1>8 DEF UseInv

(* What Written says of where the object is. *)
LEMMA WrittenAt ==
  ASSUME NEW d, NEW b_, NEW r, Written(b_, r, d), NEW value, NEW force, NEW minalign,
         minalign = r.b.minalign_,
         \/ StringAt(r.b.buf, r.o, value)
         \/ IntegersAt(r.b.buf, r.o, value, minalign)
         \/ ReferencesAt(r.b.buf, r.o, value)
         \/ StringsAt(r.b.buf, r.o, value)
         \/ StructVectorAt(r.b.buf, r.o, value, minalign)
  PROVE  ObjectAt(r.b.buf, r.o, value, force, minalign)
BY DEF Written, ObjectAt

(* Each kind of object is written so, and keeps the invariant: a string, *)
LEMMA TextKeeps ==
  ASSUME UseInv, NEW s \in Strings, Text(s)
  PROVE  UseInv' /\ StepStays
<1> DEFINE new == CreateString(b, s)
           value == [text |-> s]
<1>1. Idle /\ Object(new, value) /\ s \in Seq(Byte)
  BY UseAssumption DEF Text, UseAssumption
<1>2. /\ b \in Idlers(detached) /\ b \in Builders(detached) /\ detached \in 0 .. 3
      /\ b.nested = FALSE
  BY <1>1, IdleIsIdler DEF Idle, UseInv
<1>3. /\ new.b \in Grown(b, detached) /\ new.o = new.b.buf.size /\ new.o \in Nat
      /\ new.o % 4 = 0 /\ 4 <= new.o /\ 4 <= new.b.minalign_
      /\ TextAt(new.b.buf, new.o, s)
  BY <1>1, <1>2, CreatesString
<1>4. value = [text |-> value.text] /\ value.text = s /\ "shared" \notin DOMAIN value
  OBVIOUS
<1> HIDE DEF new, value
<1>5. new.b \in Follows(b, detached) /\ new.b.nested = b.nested /\ new.b.string_pool = b.string_pool
  BY <1>2, <1>3, GrownIdles
<1>6. Written(b, new, detached)
  <2>1. new.o <= new.b.buf.size
    BY <1>3
  <2> QED BY <1>2, <1>3, <1>5, <2>1 DEF Written
<1>7. StringAt(new.b.buf, new.o, value)
  BY <1>1, <1>3, <1>4 DEF StringAt
<1>8. ObjectAt(new.b.buf, new.o, value, new.b.force_defaults_, new.b.minalign_)
  BY <1>6, <1>7, WrittenAt
<1> QED BY <1>1, <1>4, <1>6, <1>8, ObjectKeeps

(* A vector of integers, written by CreateVector, keeps the invariant. *)
LEMMA IntegersKeep ==
  ASSUME UseInv, NEW v \in Numbers, IntegerVector(v)
  PROVE  UseInv' /\ StepStays
<1> DEFINE new == CreateVector(b, v[1], v[2])
           value == [integers |-> v[1], bytes |-> v[2]]
<1>1. /\ Idle /\ Object(new, value) /\ v[2] \in Sizes /\ v[1] \in Seq(Values(v[2]))
  BY UseAssumption DEF IntegerVector, UseAssumption
<1>2. b \in Idlers(detached) /\ detached \in 0 .. 3
  BY <1>1, IdleIsIdler DEF Idle, UseInv
<1>3. v[1] \in Seq(Int)
  <2> DEFINE vals == Values(v[2])
  <2>1. \A y \in vals : y \in Int
    BY DEF Values
  <2>2. v[1] \in Seq(vals)
    BY <1>1
  <2> HIDE DEF vals
  <2> QED BY <2>1, <2>2
<1>4. Written(b, new, detached) /\ ScalarsAt(new.b.buf, new.o, v[1], v[2], new.b.minalign_)
  BY <1>1, <1>2, <1>3, CreatesVector
<1>5. /\ value = [integers |-> value.integers, bytes |-> value.bytes]
      /\ value.integers = v[1] /\ value.bytes = v[2] /\ "shared" \notin DOMAIN value
  OBVIOUS
<1> HIDE DEF new, value
<1>6. IntegersAt(new.b.buf, new.o, value, new.b.minalign_)
  BY <1>1, <1>4, <1>5 DEF IntegersAt
<1>7. ObjectAt(new.b.buf, new.o, value, new.b.force_defaults_, new.b.minalign_)
  BY <1>4, <1>6, WrittenAt
<1> QED BY <1>1, <1>4, <1>5, <1>7, ObjectKeeps

(* So does a vector of references to what has been written, *)
LEMMA OffsetsKeep ==
  ASSUME UseInv, NEW o \in Offsets, NEW p \in Offsets, OffsetVector(<<o, p>>)
  PROVE  UseInv' /\ StepStays
<1> DEFINE offs == <<o, p>>
           new == CreateVectorOfOffsets(b, offs)
           value == [offsets |-> offs]
<1>1. Idle /\ Object(new, value)
  BY DEF OffsetVector
<1>2. b \in Idlers(detached) /\ detached \in 0 .. 3
  BY <1>1, IdleIsIdler DEF Idle, UseInv
<1>3. offs \in Seq(Nat)
  <2>1. o \in Nat /\ p \in Nat
    BY DEF UseInv, MemoryInv, Offsets
  <2> QED BY <2>1
<1> HIDE DEF offs
<1>4. /\ Written(b, new, detached)
      /\ new.b.ok => OffsetsAt(new.b.buf, new.o, offs, Len(offs))
  BY <1>2, <1>3, CreatesVectorOfOffsets
<1>5. value = [offsets |-> value.offsets] /\ value.offsets = offs /\ "shared" \notin DOMAIN value
  OBVIOUS
<1> HIDE DEF new, value
<1>6. ASSUME new.b.ok
      PROVE  ObjectAt(new.b.buf, new.o, value, new.b.force_defaults_, new.b.minalign_)
  <2>1. ReferencesAt(new.b.buf, new.o, value)
    BY <1>3, <1>4, <1>5, <1>6 DEF ReferencesAt
  <2> QED BY <1>4, <2>1, WrittenAt
<1> QED BY <1>1, <1>4, <1>5, <1>6, ObjectKeeps

(* a vector of strings, which are written first, *)
LEMMA TextsKeep ==
  ASSUME UseInv, NEW s \in Strings, NEW t \in Strings, TextVector(<<s, t>>)
  PROVE  UseInv' /\ StepStays
<1> DEFINE texts == <<s, t>>
           new == CreateVectorOfStrings(b, texts)
           value == [texts |-> texts]
<1>1. Idle /\ Object(new, value)
  BY DEF TextVector
<1>2. b \in Idlers(detached) /\ detached \in 0 .. 3
  BY <1>1, IdleIsIdler DEF Idle, UseInv
<1>3. texts \in Seq(Seq(Byte))
  <2>1. s \in Seq(Byte) /\ t \in Seq(Byte)
    BY UseAssumption DEF UseAssumption
  <2> DEFINE B == Seq(Byte)
  <2>2. s \in B /\ t \in B
    BY <2>1
  <2> HIDE DEF B
  <2>3. texts \in Seq(B)
    BY <2>2
  <2> QED BY <2>3 DEF B
<1> HIDE DEF texts
<1>4. /\ Written(b, new, detached)
      /\ new.b.ok /\ new.b.buf.size <= FLATBUFFERS_MAX_BUFFER_SIZE =>
           TextsAt(new.b.buf, new.o, texts)
  BY <1>2, <1>3, CreatesVectorOfStrings
<1>5. value = [texts |-> value.texts] /\ value.texts = texts /\ "shared" \notin DOMAIN value
  OBVIOUS
<1> HIDE DEF new, value
<1>6. ASSUME new.b.ok /\ new.b.buf.size <= FLATBUFFERS_MAX_BUFFER_SIZE
      PROVE  ObjectAt(new.b.buf, new.o, value, new.b.force_defaults_, new.b.minalign_)
  <2>1. StringsAt(new.b.buf, new.o, value)
    BY <1>3, <1>4, <1>5, <1>6 DEF StringsAt
  <2> QED BY <1>4, <2>1, WrittenAt
<1> QED BY <1>1, <1>4, <1>5, <1>6, ObjectKeeps

(* and a vector of structs. *)
LEMMA StructsKeep ==
  ASSUME UseInv, NEW v \in Structs, StructVector(v)
  PROVE  UseInv' /\ StepStays
<1> DEFINE new == CreateVectorOfStructs(b, v[1], v[2], v[3])
           value == [structs |-> v[1], sizeof |-> v[2], alignment |-> v[3]]
<1>1. /\ Idle /\ Object(new, value) /\ v[3] \in Alignments /\ v[2] \in Nat \ {0}
      /\ v[2] % v[3] = 0 /\ v[1] \in Seq([1 .. v[2] -> Byte])
  BY UseAssumption DEF StructVector, UseAssumption
<1>2. b \in Idlers(detached) /\ detached \in 0 .. 3
  BY <1>1, IdleIsIdler DEF Idle, UseInv
<1>3. Written(b, new, detached) /\ StructsAt(new.b.buf, new.o, v[1], v[2], v[3], new.b.minalign_)
  BY <1>1, <1>2, CreatesVectorOfStructs
<1>4. /\ value = [structs |-> value.structs, sizeof |-> value.sizeof, alignment |-> value.alignment]
      /\ value.structs = v[1] /\ value.sizeof = v[2] /\ value.alignment = v[3]
      /\ "shared" \notin DOMAIN value
  OBVIOUS
<1> HIDE DEF new, value
<1>5. StructsPadded => PaddedAlike(<<value.structs, value.sizeof, value.alignment>>)
  <2>1. StructsPadded => PaddedAlike(v)
    <3>1. v[3] = 1 => (StructsPadded => PaddedAlike(v))
      BY DEF StructsPadded
    <3>2. v[3] # 1 => PaddedAlike(v)
      <4>1. Len(v[1]) \in Nat /\ v[2] \in Nat
        BY <1>1
      <4> QED BY <1>1, <4>1, AlignedArePadded
    <3> QED BY <3>1, <3>2
  <2> QED BY <1>4, <2>1 DEF PaddedAlike
<1>6. StructVectorAt(new.b.buf, new.o, value, new.b.minalign_)
  BY <1>1, <1>3, <1>4, <1>5 DEF StructVectorAt
<1>7. ObjectAt(new.b.buf, new.o, value, new.b.force_defaults_, new.b.minalign_)
  BY <1>3, <1>6, WrittenAt
<1> QED BY <1>1, <1>3, <1>4, <1>7, ObjectKeeps

-----------------------------------------------------------------------------
(* An object that was shared is a string, and reads back as one. *)
LEMMA SharedAt ==
  ASSUME NEW v, v.reserved \in Nat, v.size \in Nat, v.size <= FLATBUFFERS_MAX_BUFFER_SIZE,
         NEW o, NEW value, NEW force, NEW minalign, ObjectAt(v, o, value, force, minalign),
         "shared" \in DOMAIN value
  PROVE  value = [text |-> value.text, shared |-> TRUE] /\ str(v.mem, v.reserved - o) = value.text
<1>1. StringAt(v, o, value)
  <2>1. ~IntegersAt(v, o, value, minalign)
    BY DEF IntegersAt
  <2>2. ~ReferencesAt(v, o, value)
    BY DEF ReferencesAt
  <2>3. ~StringsAt(v, o, value)
    BY DEF StringsAt
  <2>4. ~StructVectorAt(v, o, value, minalign)
    BY DEF StructVectorAt
  <2>5. ~FieldsAt(v, o, value, force, minalign)
    BY DEF FieldsAt
  <2> QED BY <2>1, <2>2, <2>3, <2>4, <2>5 DEF ObjectAt
<1>2. value.text \in Seq(Byte) /\ TextAt(v, o, value.text)
  BY <1>1 DEF StringAt
<1>3. o \in Int
  BY DEF ObjectAt
<1>4. str(v.mem, v.reserved - o) = value.text
  BY <1>2, <1>3, TextReads
<1>5. value = [text |-> value.text, shared |-> TRUE]
  BY <1>1 DEF StringAt
<1> QED BY <1>4, <1>5

(* The strings that were shared, of which the pool holds the offsets. *)
SharedObjects(objs) == {x \in objs : "shared" \in DOMAIN x.value}

(* A string is shared with the one that is there, or joins the pool: no    *)
(* two in it are the same.                                                 *)
LEMMA SharedTextKeeps ==
  ASSUME UseInv, NEW s \in Strings, SharedText(s)
  PROVE  UseInv' /\ StepStays
<1> DEFINE new == CreateSharedString(b, s)
           value == [text |-> s, shared |-> TRUE]
           same == Pooled(b, s)
           x == [o |-> new.o, value |-> value]
<1>1. Idle /\ Object(new, value) /\ s \in Seq(Byte)
  BY UseAssumption DEF SharedText, UseAssumption
<1>2. /\ b \in Idlers(detached) /\ b \in Builders(detached) /\ detached \in 0 .. 3
      /\ b.nested = FALSE
  BY <1>1, IdleIsIdler DEF Idle, UseInv
<1>3. /\ new.b \in Follows(b, detached) /\ new.b.nested = b.nested /\ new.o \in Nat
      /\ same # {} =>
           new.o \in same /\ new.b.string_pool = b.string_pool /\ new.b.buf.size = b.buf.size
      /\ same = {} =>
           /\ new.b.string_pool = b.string_pool \union {new.o}
           /\ new.o % 4 = 0 /\ 4 <= new.o /\ new.o <= new.b.buf.size /\ 4 <= new.b.minalign_
           /\ TextAt(new.b.buf, new.o, s)
  BY <1>1, <1>2, CreatesSharedString
<1>4. /\ value = [text |-> value.text, shared |-> TRUE] /\ value.text = s
      /\ "shared" \in DOMAIN value
  OBVIOUS
<1>5. x.o = new.o /\ x.value = value /\ x = [o |-> x.o, value |-> x.value]
  OBVIOUS
<1>6. /\ b' = new.b /\ objects' = objects \union {x}
      /\ fields' = fields /\ start' = start /\ buffers' = buffers /\ detached' = detached
  BY <1>1 DEF Object
<1> HIDE DEF new, value, x
<1>7. /\ b' \in Builders(detached) /\ b'.num_field_loc = 0 /\ b.num_field_loc = 0
      /\ SameFlags(b, b') /\ b.minalign_ <= b'.minalign_ /\ b'.nested = FALSE
      /\ SameScratch(b.buf, b'.buf) /\ Stays(b.buf, b'.buf)
  BY <1>2, <1>3, <1>6 DEF Follows, Idlers
<1>8. MemoryInv'
  <2>1. \A y \in objects' : y.o \in Nat
    BY <1>3, <1>5, <1>6 DEF UseInv, MemoryInv
  <2> QED BY <1>6, <1>7, <2>1 DEF UseInv, MemoryInv
<1>9. ASSUME Asserted' PROVE ObjectsInv'
  <2>1. /\ Asserted /\ ObjectsInv
        /\ \A y \in objects :
             /\ y = [o |-> y.o, value |-> y.value]
             /\ ObjectAt(b'.buf, y.o, y.value, b'.force_defaults_, b'.minalign_)
    BY <1>7, <1>9, ObjectsStay DEF SameFlags
  <2>2. TableBegun'
    BY <1>7 DEF TableBegun
  <2>3. VTablesKept'
    <3>1. SamePad(b, b')
      BY <1>2, <1>7, PadSame
    <3>2. VTablesIn(b.buf, Base(b), b.dedup_vtables_)
      BY <2>1 DEF ObjectsInv, VTablesKept
    <3>3. b'.dedup_vtables_ = b.dedup_vtables_
      BY <1>7 DEF SameFlags
    <3> QED BY <1>2, <1>7, <3>1, <3>2, <3>3, VTablesOn DEF VTablesKept
  <2>4. FinishedWhole'
    BY <1>1, <1>7 DEF FinishedWhole, SameFlags, Idle
  <2>5. /\ b.string_pool = {y.o : y \in SharedObjects(objects)}
        /\ \A y, z \in SharedObjects(objects) : y.value = z.value => y = z
    BY <2>1 DEF ObjectsInv, SharedStringsOnce, SharedObjects
  <2>6. ASSUME NEW y \in SharedObjects(objects)
        PROVE  /\ y = [o |-> y.o, value |-> y.value] /\ y.o \in b.string_pool
               /\ y.value = [text |-> y.value.text, shared |-> TRUE]
               /\ str(b.buf.mem, Address(b, y.o)) = y.value.text
    <3>1. /\ y = [o |-> y.o, value |-> y.value] /\ "shared" \in DOMAIN y.value
          /\ ObjectAt(b.buf, y.o, y.value, b.force_defaults_, b.minalign_)
      BY <2>1 DEF ObjectsInv, ObjectsWritten, SharedObjects
    <3>2. b.buf.reserved \in Nat /\ b.buf.size \in Nat /\ b.buf.size <= FLATBUFFERS_MAX_BUFFER_SIZE
      BY <1>2, <2>1, BuilderNumbers DEF Asserted
    <3>3. y.value = [text |-> y.value.text, shared |-> TRUE]
          /\ str(b.buf.mem, b.buf.reserved - y.o) = y.value.text
      BY <3>1, <3>2, SharedAt
    <3>4. y.o \in b.string_pool
      BY <2>5
    <3> QED BY <3>1, <3>3, <3>4 DEF Address, data_at
  <2>7. CASE same # {}
    <3>1. new.o \in b.string_pool /\ str(b.buf.mem, Address(b, new.o)) = s
      BY <1>3, <2>7 DEF Pooled
    <3>2. PICK y \in SharedObjects(objects) : y.o = new.o
      BY <2>5, <3>1
    <3>3. y.value.text = s
      BY <2>6, <3>1, <3>2
    <3>4. y = x
      BY <1>4, <1>5, <2>6, <3>2, <3>3
    <3>5. objects' = objects
      BY <1>6, <3>4 DEF SharedObjects
    <3>6. ObjectsWritten'
      BY <2>1, <3>5 DEF ObjectsWritten
    <3>7. SharedStringsOnce'
      BY <1>3, <1>6, <2>5, <2>7, <3>5 DEF SharedStringsOnce, SharedObjects
    <3> QED BY <2>2, <2>3, <2>4, <3>6, <3>7 DEF ObjectsInv
  <2>8. CASE same = {}
    <3>1. ObjectAt(b'.buf, x.o, x.value, b'.force_defaults_, b'.minalign_)
      <4>1. StringAt(new.b.buf, new.o, value)
        BY <1>1, <1>3, <1>4, <2>8 DEF StringAt
      <4>2. ObjectAt(new.b.buf, new.o, value, new.b.force_defaults_, new.b.minalign_)
        BY <1>3, <2>8, <4>1 DEF ObjectAt
      <4> QED BY <1>5, <1>6, <4>2
    <3>2. ObjectsWritten'
      BY <1>5, <1>6, <2>1, <3>1 DEF ObjectsWritten
    <3>3. SharedObjects(objects') = SharedObjects(objects) \union {x}
      BY <1>4, <1>5, <1>6 DEF SharedObjects
    <3>4. b'.string_pool = {y.o : y \in SharedObjects(objects')}
      BY <1>3, <1>5, <1>6, <2>5, <2>8, <3>3, ZenonT(40)
    <3>5. ASSUME NEW y \in SharedObjects(objects), y.value = x.value PROVE FALSE
      <4>1. y.value.text = s
        BY <1>4, <1>5, <3>5
      <4>2. y.o \in same
        BY <2>6, <4>1 DEF Pooled
      <4> QED BY <2>8, <4>2
    <3>6. \A y, z \in SharedObjects(objects') : y.value = z.value => y = z
      BY <2>5, <3>3, <3>5
    <3>7. SharedStringsOnce'
      BY <3>4, <3>6 DEF SharedStringsOnce, SharedObjects
    <3> QED BY <2>2, <2>3, <2>4, <3>2, <3>7 DEF ObjectsInv
  <2> QED BY <2>7, <2>8
<1>10. StepStays
  BY <1>7 DEF StepStays
<1> QED BY <1>8, <1>9, <1>10 DEF UseInv

-----------------------------------------------------------------------------
(* Tables *)

(* A table begins with no field. *)
LEMMA BeginKeeps ==
  ASSUME UseInv, BeginTable
  PROVE  UseInv' /\ StepStays
<1>1. /\ b' = StartTable(b) /\ start' = GetSize(b) /\ fields' = << >> /\ Idle
      /\ objects' = objects /\ buffers' = buffers /\ detached' = detached
  BY DEF BeginTable
<1>2. /\ b \in Idlers(detached) /\ b \in Builders(detached) /\ detached \in 0 .. 3
      /\ b.nested = FALSE
  BY <1>1, IdleIsIdler DEF Idle, UseInv
<1>3. /\ b' \in Follows(b, detached) /\ b' \in Idlers(detached) /\ b' \in Builders(detached)
      /\ b'.nested = TRUE /\ b'.buf = b.buf /\ b'.string_pool = b.string_pool
  BY <1>1, <1>2, StartsTable
<1>4. /\ SameFlags(b, b') /\ b.minalign_ <= b'.minalign_ /\ b'.num_field_loc = 0
      /\ b.num_field_loc = 0 /\ SameScratch(b.buf, b'.buf) /\ Stays(b.buf, b'.buf)
  BY <1>2, <1>3 DEF Follows, Idlers
<1>5. start' = b'.buf.size /\ start' \in Nat
  BY <1>1, <1>2, <1>3, BuilderNumbers DEF GetSize
<1>6. MemoryInv'
  BY <1>1, <1>3, <1>4, <1>5 DEF UseInv, MemoryInv
<1>7. ASSUME Asserted' PROVE ObjectsInv'
  <2>1. /\ Asserted /\ ObjectsInv
        /\ \A y \in objects :
             /\ y = [o |-> y.o, value |-> y.value]
             /\ ObjectAt(b'.buf, y.o, y.value, b'.force_defaults_, b'.minalign_)
    BY <1>3, <1>4, <1>7, ObjectsStay DEF SameFlags
  <2>2. ObjectsWritten'
    BY <1>1, <2>1 DEF ObjectsWritten
  <2>3. TableBegun'
    <3>1. TableOpen(b', << >>, b'.buf.size)
      BY <1>3, OpensTable
    <3> QED BY <1>1, <1>5, <3>1 DEF TableBegun
  <2>4. VTablesKept'
    <3>1. SamePad(b, b')
      BY <1>2, <1>4, PadSame
    <3>2. VTablesIn(b.buf, Base(b), b.dedup_vtables_)
      BY <2>1 DEF ObjectsInv, VTablesKept
    <3>3. b'.dedup_vtables_ = b.dedup_vtables_
      BY <1>4 DEF SameFlags
    <3> QED BY <1>2, <1>3, <1>4, <3>1, <3>2, <3>3, VTablesOn DEF VTablesKept
  <2>5. SharedStringsOnce'
    BY <1>1, <1>3, <2>1 DEF ObjectsInv, SharedStringsOnce
  <2>6. FinishedWhole'
    BY <1>1, <1>4 DEF FinishedWhole, SameFlags, Idle
  <2> QED BY <2>2, <2>3, <2>4, <2>5, <2>6 DEF ObjectsInv
<1>8. StepStays
  BY <1>4 DEF StepStays
<1> QED BY <1>6, <1>7, <1>8 DEF UseInv

(* A field that is added keeps the invariant when the open table has it.   *)
LEMMA FieldKeeps ==
  ASSUME UseInv, NEW field, NEW new, NEW value, AddField(field, new, value),
         new \in Extended(b, detached),
         Asserted /\ ObjectsInv /\ new.ok /\ new.buf.size <= FLATBUFFERS_MAX_BUFFER_SIZE =>
           TableOpen(new, fields', start)
  PROVE  UseInv' /\ StepStays
<1>1. /\ b' = new /\ b.nested
      /\ objects' = objects /\ start' = start /\ buffers' = buffers /\ detached' = detached
  BY DEF AddField
<1>2. /\ b' \in Builders(detached) /\ b'.nested = b.nested /\ b'.string_pool = b.string_pool
      /\ SameFlags(b, b') /\ b.minalign_ <= b'.minalign_
      /\ SamePad(b, b') /\ Stays(b.buf, b'.buf)
  BY <1>1 DEF Extended
<1>3. b \in Builders(detached)
  BY DEF UseInv, MemoryInv
<1>4. MemoryInv'
  BY <1>1, <1>2 DEF UseInv, MemoryInv
<1>5. ASSUME Asserted' PROVE ObjectsInv'
  <2>1. /\ Asserted /\ ObjectsInv
        /\ \A y \in objects :
             /\ y = [o |-> y.o, value |-> y.value]
             /\ ObjectAt(b'.buf, y.o, y.value, b'.force_defaults_, b'.minalign_)
    BY <1>2, <1>5, ObjectsStay DEF SameFlags
  <2>2. ObjectsWritten'
    BY <1>1, <2>1 DEF ObjectsWritten
  <2>3. TableBegun'
    <3>1. TableOpen(new, fields', start)
      BY <1>1, <1>5, <2>1 DEF Asserted
    <3> QED BY <1>1, <3>1 DEF TableBegun
  <2>4. VTablesKept'
    <3>1. VTablesIn(b.buf, Base(b), b.dedup_vtables_)
      BY <2>1 DEF ObjectsInv, VTablesKept
    <3>2. b'.dedup_vtables_ = b.dedup_vtables_
      BY <1>2 DEF SameFlags
    <3> QED BY <1>2, <1>3, <3>1, <3>2, VTablesOn DEF VTablesKept
  <2>5. SharedStringsOnce'
    BY <1>1, <1>2, <2>1 DEF ObjectsInv, SharedStringsOnce
  <2>6. FinishedWhole'
    <3>1. ~b.finished
      BY <1>1, <2>1 DEF ObjectsInv, FinishedWhole
    <3> QED BY <1>2, <3>1 DEF FinishedWhole, SameFlags
  <2> QED BY <2>2, <2>3, <2>4, <2>5, <2>6 DEF ObjectsInv
<1>6. StepStays
  BY <1>2 DEF StepStays
<1> QED BY <1>4, <1>5, <1>6 DEF UseInv

(* The fields after one was added. *)
LEMMA FieldsAfter ==
  ASSUME UseInv, NEW field, NEW new, NEW value, AddField(field, new, value)
  PROVE  /\ OneMore(fields, fields', field, value) /\ field \notin DOMAIN fields
         /\ b \in Builders(detached) /\ detached \in 0 .. 3 /\ start \in Nat
         /\ ObjectsInv => TableOpen(b, fields, start)
<1>1. OneMore(fields, fields', field, value) /\ field \notin DOMAIN fields /\ b.nested
  BY DEF AddField, OneMore
<1>2. b \in Builders(detached) /\ detached \in 0 .. 3 /\ start \in Nat
  BY DEF UseInv, MemoryInv
<1>3. ObjectsInv => TableOpen(b, fields, start)
  BY <1>1 DEF ObjectsInv, TableBegun
<1> QED BY <1>1, <1>2, <1>3

(* A number is such a field, *)
LEMMA NumberKeeps ==
  ASSUME UseInv, NEW e \in Elements, AddNumber(e)
  PROVE  UseInv' /\ StepStays
<1> DEFINE field == e[1]
           n == e[2]
           bytes == e[3]
           new == AddElement(b, field, n, bytes, 0)
           value == [number |-> n, bytes |-> bytes]
<1>1. /\ AddField(field, new, value)
      /\ field \in VOffsets /\ bytes \in Sizes /\ n \in Values(bytes)
  BY UseAssumption DEF AddNumber, UseAssumption
<1>2. n \in Int
  BY <1>1 DEF Values
<1>3. /\ value = [number |-> value.number, bytes |-> value.bytes]
      /\ value.number = n /\ value.bytes = bytes
  OBVIOUS
<1>4. \A force : Defaulted(value, force) <=> n = 0 /\ ~force
  BY DEF Defaulted
<1> HIDE DEF value, field, n, bytes
<1>5. /\ OneMore(fields, fields', field, value) /\ field \notin DOMAIN fields
      /\ b \in Builders(detached) /\ detached \in 0 .. 3 /\ start \in Nat
      /\ ObjectsInv => TableOpen(b, fields, start)
  BY <1>1, FieldsAfter
<1>6. /\ new \in Extended(b, detached)
      /\ n = 0 /\ ~b.force_defaults_ => new = b
      /\ ~(n = 0 /\ ~b.force_defaults_) =>
           new \in Added(b, detached, field, EndianScalar(n, bytes), bytes)
  <2>1. LET c == AddElement(b, field, n, bytes, 0)
        IN /\ c \in Extended(b, detached) /\ c.ok = b.ok
           /\ n = 0 /\ ~b.force_defaults_ => c = b
           /\ ~(n = 0 /\ ~b.force_defaults_) =>
                /\ c \in Added(b, detached, field, EndianScalar(n, bytes), bytes)
                /\ c.buf.size = b.buf.size + PaddingBytes(b.buf.size, bytes) + bytes
    BY <1>1, <1>2, <1>5, AddsElement
  <2> QED BY <2>1, Zenon
<1> HIDE DEF new
<1>7. ASSUME ObjectsInv, new.buf.size <= FLATBUFFERS_MAX_BUFFER_SIZE
      PROVE  TableOpen(new, fields', start)
  <2>1. CASE Defaulted(value, b.force_defaults_)
    BY <1>1, <1>4, <1>5, <1>6, <1>7, <2>1, DefaultAdded
  <2>2. CASE ~Defaulted(value, b.force_defaults_)
    <3>1. new \in Added(b, detached, field, EndianScalar(n, bytes), bytes)
      BY <1>4, <1>6, <2>2
    <3>2. /\ Holds(new.buf, new.buf.size, EndianScalar(n, bytes))
          /\ new.buf.size % bytes = 0 /\ bytes <= new.minalign_
      BY <3>1 DEF Added
    <3>3. NumberAt(new.buf, new.buf.size, value, new.minalign_)
      BY <1>1, <1>3, <3>2 DEF NumberAt
    <3>4. FieldAt(new.buf, new.buf.size, value, new.minalign_)
      BY <3>3 DEF FieldAt
    <3> QED BY <1>1, <1>5, <1>7, <2>2, <3>1, <3>4, FieldAdded
  <2> QED BY <2>1, <2>2
<1> QED BY <1>1, <1>6, <1>7, FieldKeeps

(* so is a reference to an object that has been written, *)
LEMMA ReferenceKeeps ==
  ASSUME UseInv, NEW o \in Offsets, AddReference(o)
  PROVE  UseInv' /\ StepStays
<1> DEFINE new == AddOffset(b, OffsetField, o)
           value == [offset |-> o]
<1>1. AddField(OffsetField, new, value) /\ OffsetField \in VOffsets /\ o \in Nat /\ o \in Int
  <2>1. AddField(OffsetField, new, value)
    BY DEF AddReference
  <2>2. OffsetField \in VOffsets
    BY UseAssumption DEF UseAssumption
  <2>3. o \in Nat
    BY DEF UseInv, MemoryInv, Offsets
  <2> QED BY <2>1, <2>2, <2>3
<1>2. value = [offset |-> value.offset] /\ value.offset = o
  OBVIOUS
<1>3. \A force : ~Defaulted(value, force)
  BY DEF Defaulted
<1> HIDE DEF value
<1>4. /\ OneMore(fields, fields', OffsetField, value) /\ OffsetField \notin DOMAIN fields
      /\ b \in Builders(detached) /\ detached \in 0 .. 3 /\ start \in Nat
      /\ ObjectsInv => TableOpen(b, fields, start)
  BY <1>1, FieldsAfter
<1>5. /\ new \in Extended(b, detached)
      /\ o # 0 /\ new.ok =>
           /\ new \in Added(b, detached, OffsetField, EndianScalar(new.buf.size - o, 4), 4)
           /\ o + 4 <= new.buf.size
  BY <1>1, <1>4, AddsOffset
<1> HIDE DEF new
<1>6. ASSUME ObjectsInv, new.ok, new.buf.size <= FLATBUFFERS_MAX_BUFFER_SIZE
      PROVE  TableOpen(new, fields', start)
  <2>1. o # 0
    <3>1. 4 <= o
      BY <1>6 DEF Offsets, ObjectsInv, ObjectsWritten, ObjectAt
    <3> QED BY <3>1
  <2>2. /\ new \in Added(b, detached, OffsetField, EndianScalar(new.buf.size - o, 4), 4)
        /\ o + 4 <= new.buf.size
    BY <1>5, <1>6, <2>1
  <2>3. /\ Holds(new.buf, new.buf.size, EndianScalar(new.buf.size - o, 4))
        /\ new.buf.size % 4 = 0 /\ 4 <= new.minalign_
    BY <2>2 DEF Added
  <2>4. ReferenceAt(new.buf, new.buf.size, value, new.minalign_)
    BY <1>1, <1>2, <2>2, <2>3 DEF ReferenceAt, RefersAt
  <2>5. FieldAt(new.buf, new.buf.size, value, new.minalign_)
    BY <2>4 DEF FieldAt
  <2>6. ~Defaulted(value, b.force_defaults_)
    BY <1>3
  <2> QED BY <1>1, <1>4, <1>6, <2>2, <2>5, <2>6, FieldAdded
<1> QED BY <1>1, <1>5, <1>6, FieldKeeps

(* and so is the struct. *)
LEMMA StructKeeps ==
  ASSUME UseInv, AddTheStruct
  PROVE  UseInv' /\ StepStays
<1> DEFINE field == AStruct[1]
           bytes == AStruct[2]
           n == AStruct[3]
           new == AddStruct(b, field, bytes, n)
           value == [struct |-> bytes, alignment |-> n]
<1>1. /\ AddField(field, new, value)
      /\ field \in VOffsets /\ bytes \in Seq(Byte) /\ n \in Alignments /\ Len(bytes) % n = 0
  BY UseAssumption DEF AddTheStruct, UseAssumption
<1>2. /\ value = [struct |-> value.struct, alignment |-> value.alignment]
      /\ value.struct = bytes /\ value.alignment = n
  OBVIOUS
<1>3. \A force : ~Defaulted(value, force)
  BY DEF Defaulted
<1> HIDE DEF value, field, bytes, n
<1>4. /\ OneMore(fields, fields', field, value) /\ field \notin DOMAIN fields
      /\ b \in Builders(detached) /\ detached \in 0 .. 3 /\ start \in Nat
      /\ ObjectsInv => TableOpen(b, fields, start)
  BY <1>1, FieldsAfter
<1>5. new \in Added(b, detached, field, bytes, n)
  BY <1>1, <1>4, AddsStruct
<1> HIDE DEF new
<1>6. new \in Extended(b, detached)
  BY <1>5 DEF Added
<1>7. ASSUME ObjectsInv, new.buf.size <= FLATBUFFERS_MAX_BUFFER_SIZE
      PROVE  TableOpen(new, fields', start)
  <2>1. Holds(new.buf, new.buf.size, bytes) /\ new.buf.size % n = 0 /\ n <= new.minalign_
    BY <1>5 DEF Added
  <2>2. StructAt(new.buf, new.buf.size, value, new.minalign_)
    BY <1>1, <1>2, <2>1 DEF StructAt
  <2>3. FieldAt(new.buf, new.buf.size, value, new.minalign_)
    BY <2>2 DEF FieldAt
  <2>4. ~Defaulted(value, b.force_defaults_)
    BY <1>3
  <2> QED BY <1>1, <1>4, <1>5, <1>7, <2>3, <2>4, FieldAdded
<1> QED BY <1>1, <1>6, <1>7, FieldKeeps

(* The table that is completed is an object with its fields. *)
LEMMA CompleteKeeps ==
  ASSUME UseInv, CompleteTable
  PROVE  UseInv' /\ StepStays
<1> DEFINE new == EndTable(b, start)
           value == [table |-> fields]
           x == [o |-> new.o, value |-> value]
<1>1. /\ b' = new.b /\ objects' = objects \union {x} /\ b.nested
      /\ start' = 0 /\ buffers' = buffers /\ detached' = detached
  BY DEF CompleteTable, Completed
<1>2. b \in Builders(detached) /\ detached \in 0 .. 3 /\ start \in Nat /\ start \in Int
  BY DEF UseInv, MemoryInv
<1>3. /\ new.b \in Builders(detached)
      /\ new.b.nested = FALSE /\ new.b.num_field_loc = 0
      /\ new.b.string_pool = b.string_pool /\ SameFlags(b, new.b)
      /\ b.minalign_ <= new.b.minalign_ /\ 4 <= new.b.minalign_
      /\ Stays(b.buf, new.b.buf)
      /\ new.o \in Nat /\ new.o % 4 = 0 /\ b.buf.size + 4 <= new.o /\ new.o <= new.b.buf.size
      /\ VTablesIn(b.buf, Base(b), b.dedup_vtables_) /\ new.b.ok
           /\ new.b.buf.size <= FLATBUFFERS_MAX_BUFFER_SIZE => Ended(b, new.b, start, new.o)
  <2>1. LET r == EndTable(b, start)
        IN /\ r.b \in Builders(detached)
           /\ r.b.nested = FALSE /\ r.b.num_field_loc = 0 /\ r.b.max_voffset_ = 0
           /\ r.b.string_pool = b.string_pool /\ SameFlags(b, r.b)
           /\ b.minalign_ <= r.b.minalign_ /\ 4 <= r.b.minalign_
           /\ Stays(b.buf, r.b.buf)
           /\ r.o \in Nat /\ r.o % 4 = 0 /\ b.buf.size + 4 <= r.o /\ r.o <= r.b.buf.size
           /\ r.b.ok => b.nested
           /\ VTablesIn(b.buf, Base(b), b.dedup_vtables_) /\ r.b.ok
                /\ r.b.buf.size <= FLATBUFFERS_MAX_BUFFER_SIZE => Ended(b, r.b, start, r.o)
    BY <1>2, EndsTable
  <2> QED BY <2>1, Zenon
<1>4. x.o = new.o /\ x.value = value /\ x = [o |-> x.o, value |-> x.value]
  OBVIOUS
<1>5. value = [table |-> value.table] /\ value.table = fields /\ "shared" \notin DOMAIN value
  OBVIOUS
<1> HIDE DEF new, value, x
<1>6. MemoryInv'
  <2>1. \A y \in objects' : y.o \in Nat
    BY <1>1, <1>3, <1>4 DEF UseInv, MemoryInv
  <2>2. start' \in Nat
    BY <1>1
  <2> QED BY <1>1, <1>3, <2>1, <2>2 DEF UseInv, MemoryInv
<1>7. ASSUME Asserted' PROVE ObjectsInv'
  <2>1. b' \in Builders(detached) /\ Stays(b.buf, b'.buf) /\ SameFlags(b, b')
        /\ b.minalign_ <= b'.minalign_
    BY <1>1, <1>3
  <2>2. /\ Asserted /\ ObjectsInv
        /\ \A y \in objects :
             /\ y = [o |-> y.o, value |-> y.value]
             /\ ObjectAt(b'.buf, y.o, y.value, b'.force_defaults_, b'.minalign_)
    BY <1>7, <2>1, ObjectsStay DEF SameFlags
  <2>3. Ended(b, new.b, start, new.o)
    BY <1>1, <1>3, <1>7, <2>2 DEF ObjectsInv, VTablesKept, Asserted
  <2>4. TableAt(new.b.buf, new.o, fields, new.b.force_defaults_, new.b.minalign_)
    <3>1. TableOpen(b, fields, start)
      BY <1>1, <2>2 DEF ObjectsInv, TableBegun
    <3> DEFINE s == b.buf.size
    <3>2. s \in Nat /\ s = b.buf.size /\ s + 4 <= new.o
      BY <1>2, <1>3, BuilderNumbers
    <3> HIDE DEF s
    <3> QED BY <1>2, <1>3, <2>3, <3>1, <3>2, CompletesTable
  <2>5. ObjectAt(b'.buf, x.o, x.value, b'.force_defaults_, b'.minalign_)
    <3>1. FieldsAt(new.b.buf, new.o, value, new.b.force_defaults_, new.b.minalign_)
      BY <1>5, <2>4 DEF FieldsAt
    <3>2. 4 <= new.o
      <4> DEFINE s == b.buf.size
      <4>1. s \in Nat /\ s + 4 <= new.o /\ new.o \in Nat
        BY <1>2, <1>3, BuilderNumbers
      <4> HIDE DEF s
      <4> QED BY <4>1
    <3>3. ObjectAt(new.b.buf, new.o, value, new.b.force_defaults_, new.b.minalign_)
      BY <1>3, <3>1, <3>2 DEF ObjectAt
    <3> QED BY <1>1, <1>4, <3>3
  <2>6. ObjectsWritten'
    BY <1>1, <1>4, <2>2, <2>5 DEF ObjectsWritten
  <2>7. TableBegun'
    BY <1>1, <1>3 DEF TableBegun
  <2>8. VTablesKept'
    <3>1. VTablesIn(b'.buf, b'.buf.scratch, b'.dedup_vtables_)
      BY <1>1, <2>3 DEF Ended
    <3>2. Base(b') = b'.buf.scratch
      <4> DEFINE s == b'.buf.scratch
      <4>1. s \in Nat /\ b'.num_field_loc = 0
        BY <1>1, <1>3, <2>1, BuilderNumbers
      <4>2. Base(b') = s - 0 * 8
        BY <4>1 DEF Base
      <4> HIDE DEF s
      <4>3. Base(b') = s
        BY <4>1, <4>2
      <4> QED BY <4>3 DEF s
    <3> QED BY <3>1, <3>2 DEF VTablesKept
  <2>9. SharedStringsOnce'
    <3>1. {y \in objects' : "shared" \in DOMAIN y.value} = {y \in objects : "shared" \in DOMAIN y.value}
      BY <1>1, <1>4, <1>5
    <3>2. SharedStringsOnce
      BY <2>2 DEF ObjectsInv
    <3> QED BY <1>1, <1>3, <3>1, <3>2 DEF SharedStringsOnce
  <2>10. FinishedWhole'
    <3>1. ~b.finished
      BY <1>1, <2>2 DEF ObjectsInv, FinishedWhole
    <3> QED BY <2>1, <3>1 DEF FinishedWhole, SameFlags
  <2> QED BY <2>6, <2>7, <2>8, <2>9, <2>10 DEF ObjectsInv
<1>8. StepStays
  BY <1>1, <1>3 DEF StepStays
<1> QED BY <1>6, <1>7, <1>8 DEF UseInv

-----------------------------------------------------------------------------
(* Buffers *)

(* Nothing is in the scratch pad: no vtable is remembered. *)
LEMMA NoVTables ==
  ASSUME NEW c, c.num_field_loc = 0, c.buf.scratch = 0
  PROVE  VTablesIn(c.buf, Base(c), c.dedup_vtables_)
<1>1. Base(c) = 0
  BY DEF Base
<1>2. DOMAIN VTs(c.buf, 0) = {}
  BY DEF VTs
<1> QED BY <1>1, <1>2 DEF VTablesIn

(* Finish leaves every object where it is and forgets the vtables. *)
LEMMA FinishKeeps ==
  ASSUME UseInv, NEW root \in Tables, NEW identifier \in {<< >>, <<66, 70, 66, 83>>},
         NEW prefixed \in BOOLEAN, FinishBuffer(root, identifier, prefixed)
  PROVE  UseInv' /\ StepStays
<1>1. root \in Int
  BY DEF Tables, UseInv, MemoryInv
<1>2. identifier \in Seq(Byte)
  <2>1. << >> \in Seq(Byte) /\ <<66, 70, 66, 83>> \in Seq(Byte)
    BY DEF Byte
  <2>2. identifier = << >> \/ identifier = <<66, 70, 66, 83>>
    OBVIOUS
  <2> QED BY <2>1, <2>2, Zenon
<1>3. /\ b' = Finish(b, root, identifier, prefixed) /\ ~b.nested
      /\ objects' = objects /\ start' = start /\ buffers' = buffers /\ detached' = detached
  BY DEF FinishBuffer
<1>4. /\ b \in Idlers(detached) /\ b \in Builders(detached) /\ detached \in 0 .. 3
      /\ b.nested = FALSE
  BY <1>3, IdleIsIdler DEF UseInv
<1>5. b' \in FinishedFrom(b, detached)
  BY <1>1, <1>2, <1>3, <1>4, Finishes
<1>6. /\ b' \in Builders(detached) /\ b'.num_field_loc = 0
      /\ b'.finished = TRUE /\ b'.nested = FALSE /\ b'.string_pool = b.string_pool
      /\ b'.force_defaults_ = b.force_defaults_ /\ b'.dedup_vtables_ = b.dedup_vtables_
      /\ b'.ok => b.ok
      /\ Stays(b.buf, b'.buf) /\ b'.buf.scratch = 0 /\ b.minalign_ <= b'.minalign_
      /\ 4 <= b.minalign_ => b'.minalign_ = b.minalign_ /\ b'.buf.size % b'.minalign_ = 0
  BY <1>4, <1>5 DEF FinishedFrom, Idlers
<1>7. MemoryInv'
  BY <1>3, <1>6 DEF UseInv, MemoryInv
<1>8. ASSUME Asserted' PROVE ObjectsInv'
  <2>1. /\ Asserted /\ ObjectsInv
        /\ \A y \in objects :
             /\ y = [o |-> y.o, value |-> y.value]
             /\ ObjectAt(b'.buf, y.o, y.value, b'.force_defaults_, b'.minalign_)
    BY <1>6, <1>8, ObjectsStay
  <2>2. ObjectsWritten'
    BY <1>3, <2>1 DEF ObjectsWritten
  <2>3. TableBegun'
    BY <1>6 DEF TableBegun
  <2>4. VTablesKept'
    BY <1>6, NoVTables DEF VTablesKept
  <2>5. SharedStringsOnce'
    BY <1>3, <1>6, <2>1 DEF ObjectsInv, SharedStringsOnce
  <2>6. FinishedWhole'
    <3>1. 4 <= b.minalign_
      <4>1. PICK y \in objects : root = y.o
        BY DEF Tables
      <4> QED BY <2>1, <4>1 DEF ObjectsInv, ObjectsWritten, ObjectAt
    <3> QED BY <1>6, <3>1 DEF FinishedWhole
  <2> QED BY <2>2, <2>3, <2>4, <2>5, <2>6 DEF ObjectsInv
<1>9. StepStays
  BY <1>6 DEF StepStays
<1> QED BY <1>7, <1>8, <1>9 DEF UseInv

(* A builder that starts again has written nothing. *)
LEMMA EmptyKeeps ==
  ASSUME b' \in Emptied(detached'), detached' \in 0 .. 3, buffers' \in Nat, start' = 0, objects' = {}
  PROVE  UseInv'
<1>1. /\ b' \in Builders(detached') /\ b'.num_field_loc = 0 /\ b'.nested = FALSE
      /\ b'.finished = FALSE /\ b'.string_pool = {} /\ b'.buf.scratch = 0
  BY DEF Emptied, Idlers
<1>2. MemoryInv'
  BY <1>1 DEF MemoryInv
<1>3. ObjectsWritten' /\ SharedStringsOnce'
  BY <1>1 DEF ObjectsWritten, SharedStringsOnce
<1>4. TableBegun' /\ FinishedWhole'
  BY <1>1 DEF TableBegun, FinishedWhole
<1>5. VTablesKept'
  BY <1>1, NoVTables DEF VTablesKept
<1> QED BY <1>2, <1>3, <1>4, <1>5 DEF UseInv, ObjectsInv

(* Clear and Reset begin a buffer with no object in it (EmptyKeeps). *)
LEMMA AgainKeeps ==
  ASSUME UseInv, NEW new, Again(new), new \in Emptied(detached)
  PROVE  UseInv' /\ StepStays
<1>1. /\ b' = new /\ objects' = {} /\ start' = 0 /\ buffers' = buffers + 1
      /\ detached' = detached
  BY DEF Again
<1>2. detached \in 0 .. 3 /\ buffers \in Nat
  BY DEF UseInv, MemoryInv
<1>3. buffers' \in Nat /\ buffers' # buffers
  BY <1>1, <1>2
<1>4. b' \in Emptied(detached') /\ detached' \in 0 .. 3
  BY <1>1, <1>2
<1>5. UseInv'
  BY <1>1, <1>3, <1>4, EmptyKeeps
<1> QED BY <1>3, <1>5 DEF StepStays

(* So does Release with the Clear behind it, which leaves the block to the *)
(* DetachedBuffer.                                                         *)
LEMMA ReleaseKeeps ==
  ASSUME UseInv, ReleaseAndClear
  PROVE  UseInv' /\ StepStays
<1>1. b \in Builders(0) /\ buffers \in Nat
  BY DEF ReleaseAndClear, UseInv, MemoryInv
<1>2. /\ b' = Clear(Release(b).b) /\ detached' = Release(b).detached
      /\ objects' = {} /\ start' = 0 /\ buffers' = buffers + 1
  BY DEF ReleaseAndClear
<1>3. detached' \in 0 .. 3 /\ b' \in Emptied(detached')
  BY <1>1, <1>2, ReleasesBuilder
<1>4. buffers' \in Nat /\ buffers' # buffers
  BY <1>1, <1>2
<1>5. UseInv'
  BY <1>2, <1>3, <1>4, EmptyKeeps
<1> QED BY <1>4, <1>5 DEF StepStays

(* The open table is the same in a builder of which the block is. *)
LEMMA TableOpenSame ==
  ASSUME NEW d, NEW e, NEW b_ \in Builders(d), NEW c \in Builders(e), SameTable(b_, c),
         SameMinAlign(b_, c), c.force_defaults_ = b_.force_defaults_,
         SameScratch(b_.buf, c.buf), Stays(b_.buf, c.buf), c.buf.size = b_.buf.size,
         NEW fs, NEW begin, TableOpen(b_, fs, begin)
  PROVE  TableOpen(c, fs, begin)
<1> DEFINE n == b_.num_field_loc
           locs == FieldLocs(b_)
<1>1. /\ n \in Nat /\ c.num_field_loc = n /\ b_.buf.size \in Nat /\ c.buf.size \in Nat
      /\ b_.minalign_ \in Nat /\ c.minalign_ = b_.minalign_
  BY BuilderFields, BuilderNumbers DEF SameTable, SameMinAlign
<1>2. FieldLocs(c) = locs
  <2>1. b_.buf.scratch \in Nat /\ n * 8 <= b_.buf.scratch
    BY BuilderFields, BuilderNumbers DEF LocsFit
  <2>2. Locs(c.buf, n) = Locs(b_.buf, n)
    BY <1>1, <2>1, LocsSame
  <2> QED BY <1>1, <2>2, FieldLocsAre
<1>3. ASSUME NEW i \in 1 .. n PROVE LocIn(c, fs, begin, locs[i])
  <2>1. LocIn(b_, fs, begin, locs[i]) /\ locs[i].off \in Int
    BY <1>3, LocsRead DEF TableOpen
  <2>2. FieldAt(b_.buf, locs[i].off, fs[locs[i].id], b_.minalign_)
    BY <2>1 DEF LocIn
  <2> DEFINE low == b_.minalign_
             off == locs[i].off
             value == fs[locs[i].id]
  <2>3. low \in Nat /\ low <= low
    BY <1>1
  <2>4. FieldAt(b_.buf, off, value, low) /\ off \in Int
    BY <2>1, <2>2
  <2> HIDE DEF low, off, value, locs
  <2>5. FieldAt(c.buf, off, value, low)
    BY <1>1, <2>3, <2>4, FieldStays
  <2>6. FieldAt(c.buf, locs[i].off, fs[locs[i].id], c.minalign_)
    BY <1>1, <2>5 DEF low, off, value
  <2> QED BY <2>1, <2>6 DEF LocIn
<1>4. begin <= c.buf.size
  BY DEF TableOpen
<1>5. ASSUME NEW f \in DOMAIN fs
      PROVE  f \in VOffsets /\ (Defaulted(fs[f], c.force_defaults_) \/ Located(c, f))
  <2>1. f \in VOffsets /\ (Defaulted(fs[f], b_.force_defaults_) \/ Located(b_, f))
    BY <1>5 DEF TableOpen
  <2>2. Located(b_, f) => Located(c, f)
    BY <1>1, <1>2 DEF Located
  <2> QED BY <2>1, <2>2
<1> QED BY <1>1, <1>2, <1>3, <1>4, <1>5 DEF TableOpen

(* Freeing the DetachedBuffer touches nothing of the builder's. *)
LEMMA DestroyKeeps ==
  ASSUME UseInv, DestroyDetached
  PROVE  UseInv' /\ StepStays
<1>1. /\ detached # 0 /\ b' = [b EXCEPT !.buf = Destroyed(@, detached)] /\ detached' = 0
      /\ objects' = objects /\ start' = start /\ fields' = fields /\ buffers' = buffers
  BY DEF DestroyDetached
<1>2. b \in Builders(detached)
  BY DEF UseInv, MemoryInv
<1>3. /\ b' \in Builders(0) /\ SameTable(b, b') /\ SameFlags(b, b') /\ SameMinAlign(b, b')
      /\ SameScratch(b.buf, b'.buf) /\ Stays(b.buf, b'.buf) /\ b'.buf.size = b.buf.size
  BY <1>1, <1>2, DestroysDetached
<1>4. /\ b'.num_field_loc = b.num_field_loc /\ b'.nested = b.nested
      /\ b'.string_pool = b.string_pool /\ b'.minalign_ = b.minalign_
      /\ b'.force_defaults_ = b.force_defaults_ /\ b'.dedup_vtables_ = b.dedup_vtables_
      /\ b'.finished = b.finished
      /\ b'.ok => b.ok
  BY <1>3 DEF SameTable, SameFlags, SameMinAlign
<1>5. MemoryInv'
  BY <1>1, <1>3, <1>4 DEF UseInv, MemoryInv
<1>6. ASSUME Asserted' PROVE ObjectsInv'
  <2>1. b.minalign_ <= b'.minalign_
    <3>1. b.minalign_ \in Nat
      BY <1>2, BuilderNumbers
    <3> QED BY <1>4, <3>1
  <2>2. /\ Asserted /\ ObjectsInv
        /\ \A y \in objects :
             /\ y = [o |-> y.o, value |-> y.value]
             /\ ObjectAt(b'.buf, y.o, y.value, b'.force_defaults_, b'.minalign_)
    BY <1>3, <1>4, <1>6, <2>1, ObjectsStay DEF SameFlags
  <2>3. ObjectsWritten'
    BY <1>1, <2>2 DEF ObjectsWritten
  <2>4. TableBegun'
    <3>1. ASSUME b.nested PROVE TableOpen(b', fields, start)
      <4>1. TableOpen(b, fields, start)
        BY <2>2, <3>1 DEF ObjectsInv, TableBegun
      <4> QED BY <1>2, <1>3, <1>4, <4>1, TableOpenSame
    <3> QED BY <1>1, <1>4, <3>1 DEF TableBegun
  <2>5. VTablesKept'
    <3>1. SamePad(b, b')
      BY <1>2, <1>3, <1>4, PadSame
    <3>2. VTablesIn(b.buf, Base(b), b.dedup_vtables_)
      BY <2>2 DEF ObjectsInv, VTablesKept
    <3> QED BY <1>2, <1>3, <1>4, <3>1, <3>2, VTablesOn DEF VTablesKept
  <2>6. SharedStringsOnce'
    BY <1>1, <1>4, <2>2 DEF ObjectsInv, SharedStringsOnce
  <2>7. FinishedWhole'
    <3>1. b.finished => ~b.nested /\ 4 <= b.minalign_ /\ b.buf.size % b.minalign_ = 0
      BY <2>2 DEF ObjectsInv, FinishedWhole
    <3>2. b'.buf.size % b'.minalign_ = b.buf.size % b.minalign_
      BY <1>3, <1>4, Zenon
    <3> QED BY <1>4, <3>1, <3>2 DEF FinishedWhole
  <2> QED BY <2>3, <2>4, <2>5, <2>6, <2>7 DEF ObjectsInv
<1>7. StepStays
  BY <1>3 DEF StepStays
<1> QED BY <1>5, <1>6, <1>7 DEF UseInv

-----------------------------------------------------------------------------
(* Initially the builder has no block, and nothing is written. *)
LEMMA UseInit == Init => UseInv
<1> SUFFICES ASSUME Init PROVE UseInv
  OBVIOUS
<1>1. PICK force \in BOOLEAN, dedup \in BOOLEAN : b = NewBuilder(InitialSize, 8, force, dedup)
  BY DEF Init
<1>2. b \in Emptied(0)
  BY <1>1, NewBuilders, UseAssumption DEF UseAssumption
<1>3. /\ b \in Builders(0) /\ b.num_field_loc = 0 /\ b.nested = FALSE
      /\ b.finished = FALSE /\ b.string_pool = {} /\ b.buf.scratch = 0
  BY <1>2 DEF Emptied, Idlers
<1>4. objects = {} /\ start = 0 /\ buffers = 1 /\ detached = 0
  BY DEF Init
<1>5. MemoryInv
  BY <1>3, <1>4 DEF MemoryInv
<1>6. ObjectsWritten /\ SharedStringsOnce
  BY <1>3, <1>4 DEF ObjectsWritten, SharedStringsOnce
<1>7. TableBegun /\ FinishedWhole
  BY <1>3 DEF TableBegun, FinishedWhole
<1>8. VTablesKept
  BY <1>3, NoVTables DEF VTablesKept
<1> QED BY <1>5, <1>6, <1>7, <1>8 DEF UseInv, ObjectsInv

(* Every action keeps the invariant, and within a buffer what is           *)
(* serialized where it is.                                                 *)
LEMMA UseNext == UseInv /\ [Next]_vars => UseInv' /\ StepStays
<1> SUFFICES ASSUME UseInv, [Next]_vars PROVE UseInv' /\ StepStays
  OBVIOUS
<1>1. CASE UNCHANGED vars
  <2>1. /\ b' = b /\ objects' = objects /\ fields' = fields /\ start' = start
        /\ buffers' = buffers /\ detached' = detached
    BY <1>1 DEF vars
  <2>2. UseInv'
    BY <2>1 DEF UseInv, MemoryInv, Asserted, ObjectsInv, ObjectsWritten, TableBegun, VTablesKept,
                SharedStringsOnce, FinishedWhole
  <2>3. Stays(b.buf, b'.buf)
    <3>1. b.buf.size \in Nat
      BY BuilderNumbers DEF UseInv, MemoryInv
    <3> QED BY <2>1, <3>1, StaysSelf
  <2> QED BY <2>2, <2>3 DEF StepStays
<1>2. ASSUME NEW s \in Strings, Text(s) \/ SharedText(s) PROVE UseInv' /\ StepStays
  BY <1>2, TextKeeps, SharedTextKeeps
<1>3. ASSUME NEW v \in Numbers, IntegerVector(v) PROVE UseInv' /\ StepStays
  BY <1>3, IntegersKeep
<1>4. ASSUME NEW o \in Offsets, NEW p \in Offsets, OffsetVector(<<o, p>>) PROVE UseInv' /\ StepStays
  BY <1>4, OffsetsKeep
<1>5. ASSUME NEW s \in Strings, NEW t \in Strings, TextVector(<<s, t>>) PROVE UseInv' /\ StepStays
  BY <1>5, TextsKeep
<1>6. ASSUME NEW v \in Structs, StructVector(v) PROVE UseInv' /\ StepStays
  BY <1>6, StructsKeep
<1>7. CASE BeginTable
  BY <1>7, BeginKeeps
<1>8. ASSUME NEW e \in Elements, AddNumber(e) PROVE UseInv' /\ StepStays
  BY <1>8, NumberKeeps
<1>9. ASSUME NEW o \in Offsets, AddReference(o) PROVE UseInv' /\ StepStays
  BY <1>9, ReferenceKeeps
<1>10. CASE AddTheStruct
  BY <1>10, StructKeeps
<1>11. CASE CompleteTable
  BY <1>11, CompleteKeeps
<1>12. ASSUME NEW root \in Tables, NEW identifier \in {<< >>, <<66, 70, 66, 83>>},
              NEW prefixed \in BOOLEAN, FinishBuffer(root, identifier, prefixed)
       PROVE  UseInv' /\ StepStays
  BY <1>12, FinishKeeps
<1>13. CASE Again(Clear(b))
  <2>1. Clear(b) \in Emptied(detached)
    BY ClearsBuilder DEF UseInv, MemoryInv, Builders
  <2> QED BY <1>13, <2>1, AgainKeeps
<1>14. CASE Again(Reset(b))
  <2>1. Reset(b) \in Emptied(detached)
    BY ResetsBuilder DEF UseInv, MemoryInv, Builders
  <2> QED BY <1>14, <2>1, AgainKeeps
<1>15. CASE ReleaseAndClear
  BY <1>15, ReleaseKeeps
<1>16. CASE DestroyDetached
  BY <1>16, DestroyKeeps
<1> QED
  BY <1>1, <1>2, <1>3, <1>4, <1>5, <1>6, <1>7, <1>8, <1>9, <1>10, <1>11, <1>12, <1>13, <1>14,
     <1>15, <1>16 DEF Next

-----------------------------------------------------------------------------
(* Reading.  A buffer that a reference can reach the other end of.         *)
Readable(v) ==
  /\ v.reserved \in Nat /\ v.size \in Nat
  /\ v.size <= FLATBUFFERS_MAX_BUFFER_SIZE

(* A reference leads to what it refers to. *)
LEMMA RefersReads ==
  ASSUME NEW v, Readable(v), NEW e \in Int, NEW off \in Nat, RefersAt(v, e, off)
  PROVE  Indirect(v.mem, v.reserved - e) = v.reserved - off
<1> DEFINE r == v.reserved
           x == e - off
           y == v.size
           max == FLATBUFFERS_MAX_BUFFER_SIZE
<1>1. r \in Nat /\ y \in Nat /\ y <= max /\ max \in Nat
  BY SmallSizes DEF Readable
<1>2. Holds(v, e, EndianScalar(x, 4)) /\ off + 4 <= e
  BY DEF RefersAt
<1>3. e <= y
  BY <1>2 DEF Holds
<1> HIDE DEF r, y, max
<1>4. x \in Nat /\ x <= max
  BY <1>1, <1>2, <1>3
<1>5. x \in Values(4) /\ 4 \in Sizes /\ v.reserved \in Int
  BY <1>1, <1>4, SmallSizes DEF Sizes, max, r
<1> HIDE DEF x
<1>6. ReadScalar(v.mem, v.reserved - e, Scalar(4, FALSE)) = x
  BY <1>2, <1>5, ReadsHeld
<1>7. Indirect(v.mem, v.reserved - e) = (v.reserved - e) + x
  BY <1>6 DEF Indirect, uoffset_t
<1>8. (r - e) + x = r - off
  BY <1>1 DEF x
<1> QED BY <1>7, <1>8 DEF r

(* Where the elements of a vector are. *)
LEMMA ElementIs ==
  ASSUME NEW r \in Nat, NEW o \in Int, NEW i \in Nat \ {0}, NEW n \in Nat
  PROVE  /\ ElementAt(r - o, i - 1, n) = r - (o - 4 - n * (i - 1))
         /\ o - 4 - n * (i - 1) \in Int
<1> DEFINE z == n * (i - 1)
<1>1. z \in Int /\ (i - 1) * n = z
  OBVIOUS
<1>2. ElementAt(r - o, i - 1, n) = (r - o) + 4 + (i - 1) * n
  BY DEF ElementAt, Data, uoffset_t, Scalar
<1> HIDE DEF z
<1>3. (r - o) + 4 + z = r - (o - 4 - z) /\ o - 4 - z \in Int
  BY <1>1
<1> QED BY <1>1, <1>2, <1>3 DEF z

(* Integers, *)
LEMMA IntegersRead ==
  ASSUME NEW v, Readable(v), NEW o \in Nat, o <= v.size, NEW n \in Sizes,
         NEW elements \in Seq(Values(n)), NEW minalign, ScalarsAt(v, o, elements, n, minalign)
  PROVE  LET p == v.reserved - o
         IN /\ size(v.mem, p) = Len(elements)
            /\ \A i \in DOMAIN elements : GetScalar(v.mem, p, i - 1, Scalar(n, FALSE)) = elements[i]
<1> DEFINE p == v.reserved - o
           k == Len(elements)
<1>1. /\ k \in Nat /\ DOMAIN elements = 1 .. k /\ n \in Nat /\ v.reserved \in Nat /\ v.size \in Nat
      /\ v.size <= FLATBUFFERS_MAX_BUFFER_SIZE /\ o \in Int
  BY DEF Sizes, Readable
<1>2. /\ k <= o /\ Holds(v, o, EndianScalar(k, 4))
      /\ \A i \in 1 .. k : Holds(v, o - 4 - n * (i - 1), EndianScalar(elements[i], n))
  BY DEF ScalarsAt
<1> HIDE DEF k
<1>3. k <= v.size
  <2> DEFINE y == v.size
  <2>1. y \in Nat /\ k <= o /\ o <= y
    BY <1>1, <1>2
  <2> HIDE DEF y
  <2>2. k <= y
    BY <1>1, <2>1
  <2> QED BY <2>2 DEF y
<1>4. size(v.mem, p) = k
  BY <1>1, <1>2, <1>3, LengthReads
<1>5. ASSUME NEW i \in 1 .. k
      PROVE  GetScalar(v.mem, p, i - 1, Scalar(n, FALSE)) = elements[i]
  <2> DEFINE e == o - 4 - n * (i - 1)
  <2>1. i \in Nat \ {0} /\ v.reserved \in Nat /\ o \in Int /\ n \in Nat
    BY <1>1, <1>5
  <2>2. ElementAt(p, i - 1, n) = v.reserved - e /\ e \in Int
    BY <2>1, ElementIs, ZenonT(40)
  <2>3. Holds(v, e, EndianScalar(elements[i], n))
    BY <1>2, <1>5
  <2>4. elements[i] \in Values(n) /\ v.reserved \in Int
    BY <1>1, <1>5
  <2> HIDE DEF e, p
  <2>5. ReadScalar(v.mem, v.reserved - e, Scalar(n, FALSE)) = elements[i]
    BY <2>2, <2>3, <2>4, ReadsHeld
  <2>6. Scalar(n, FALSE).size = n
    BY DEF Scalar
  <2> QED BY <2>2, <2>5, <2>6 DEF GetScalar
<1> QED BY <1>1, <1>4, <1>5 DEF k

(* references, *)
LEMMA ReferencesRead ==
  ASSUME NEW v, Readable(v), NEW o \in Nat, o <= v.size,
         NEW offsets \in Seq(Nat), OffsetsAt(v, o, offsets, Len(offsets))
  PROVE  LET p == v.reserved - o
         IN /\ size(v.mem, p) = Len(offsets)
            /\ \A i \in DOMAIN offsets : GetObject(v.mem, p, i - 1) = v.reserved - offsets[i]
<1> DEFINE p == v.reserved - o
           k == Len(offsets)
<1>1. /\ k \in Nat /\ DOMAIN offsets = 1 .. k /\ v.reserved \in Nat /\ v.size \in Nat
      /\ v.size <= FLATBUFFERS_MAX_BUFFER_SIZE /\ o \in Int
  BY DEF Readable
<1>2. /\ k <= o /\ Holds(v, o, EndianScalar(k, 4))
      /\ \A i \in 1 .. k : RefersAt(v, o - 4 - 4 * (i - 1), offsets[i])
  BY DEF OffsetsAt
<1> HIDE DEF k
<1>3. k <= v.size
  <2> DEFINE y == v.size
  <2>1. y \in Nat /\ k <= o /\ o <= y
    BY <1>1, <1>2
  <2> HIDE DEF y
  <2>2. k <= y
    BY <1>1, <2>1
  <2> QED BY <2>2 DEF y
<1>4. size(v.mem, p) = k
  BY <1>1, <1>2, <1>3, LengthReads
<1>5. ASSUME NEW i \in 1 .. k PROVE GetObject(v.mem, p, i - 1) = v.reserved - offsets[i]
  <2> DEFINE e == o - 4 - 4 * (i - 1)
  <2>1. i \in Nat \ {0} /\ v.reserved \in Nat /\ o \in Int /\ 4 \in Nat
    BY <1>1, <1>5
  <2>2. ElementAt(p, i - 1, 4) = v.reserved - e /\ e \in Int
    BY <2>1, ElementIs, ZenonT(40)
  <2>3. RefersAt(v, e, offsets[i]) /\ offsets[i] \in Nat
    BY <1>1, <1>2, <1>5
  <2> HIDE DEF e, p
  <2>4. Indirect(v.mem, v.reserved - e) = v.reserved - offsets[i]
    BY <2>2, <2>3, RefersReads
  <2>5. uoffset_t.size = 4
    BY DEF uoffset_t, Scalar
  <2> QED BY <2>2, <2>4, <2>5 DEF GetObject
<1> QED BY <1>1, <1>4, <1>5 DEF k

(* strings *)
LEMMA TextsRead ==
  ASSUME NEW v, Readable(v), NEW o \in Nat, o <= v.size,
         NEW texts \in Seq(Seq(Byte)), TextsAt(v, o, texts)
  PROVE  LET p == v.reserved - o
         IN /\ size(v.mem, p) = Len(texts)
            /\ \A i \in DOMAIN texts : str(v.mem, GetObject(v.mem, p, i - 1)) = texts[i]
<1> DEFINE p == v.reserved - o
           k == Len(texts)
<1>1. /\ k \in Nat /\ DOMAIN texts = 1 .. k /\ v.reserved \in Nat /\ v.size \in Nat
      /\ v.size <= FLATBUFFERS_MAX_BUFFER_SIZE /\ o \in Int
  BY DEF Readable
<1>2. /\ k <= o /\ Holds(v, o, EndianScalar(k, 4))
      /\ \A i \in 1 .. k : \E off \in Nat :
           off % 4 = 0 /\ RefersAt(v, o - 4 - 4 * (i - 1), off) /\ TextAt(v, off, texts[i])
  BY DEF TextsAt
<1> HIDE DEF k
<1>3. k <= v.size
  <2> DEFINE y == v.size
  <2>1. y \in Nat /\ k <= o /\ o <= y
    BY <1>1, <1>2
  <2> HIDE DEF y
  <2>2. k <= y
    BY <1>1, <2>1
  <2> QED BY <2>2 DEF y
<1>4. size(v.mem, p) = k
  BY <1>1, <1>2, <1>3, LengthReads
<1>5. ASSUME NEW i \in 1 .. k PROVE str(v.mem, GetObject(v.mem, p, i - 1)) = texts[i]
  <2> DEFINE e == o - 4 - 4 * (i - 1)
  <2>1. i \in Nat \ {0} /\ v.reserved \in Nat /\ o \in Int /\ 4 \in Nat
    BY <1>1, <1>5
  <2>2. ElementAt(p, i - 1, 4) = v.reserved - e /\ e \in Int
    BY <2>1, ElementIs, ZenonT(40)
  <2>3. PICK off \in Nat : RefersAt(v, e, off) /\ TextAt(v, off, texts[i])
    BY <1>2, <1>5
  <2> HIDE DEF e, p
  <2>4. Indirect(v.mem, v.reserved - e) = v.reserved - off
    BY <2>2, <2>3, RefersReads
  <2>5. uoffset_t.size = 4
    BY DEF uoffset_t, Scalar
  <2>6. GetObject(v.mem, p, i - 1) = v.reserved - off
    BY <2>2, <2>4, <2>5 DEF GetObject
  <2>7. texts[i] \in Seq(Byte) /\ off \in Int
    BY <1>1, <1>5
  <2>8. str(v.mem, v.reserved - off) = texts[i]
    BY <1>1, <2>3, <2>7, TextReads
  <2> QED BY <2>6, <2>8
<1> QED BY <1>1, <1>4, <1>5 DEF k

(* and structs are read as they were written. *)
LEMMA StructsRead ==
  ASSUME NEW v, Readable(v), NEW o \in Nat, o <= v.size, NEW n \in Nat,
         NEW structs \in Seq([1 .. n -> Byte]), NEW alignment, NEW minalign,
         PaddedAlike(<<structs, n, alignment>>), StructsAt(v, o, structs, n, alignment, minalign)
  PROVE  LET p == v.reserved - o
         IN /\ size(v.mem, p) = Len(structs)
            /\ \A i \in DOMAIN structs : GetStruct(v.mem, p, i - 1, n) = structs[i]
<1> DEFINE p == v.reserved - o
           k == Len(structs)
<1>1. /\ k \in Nat /\ DOMAIN structs = 1 .. k /\ v.reserved \in Nat /\ v.size \in Nat
      /\ v.size <= FLATBUFFERS_MAX_BUFFER_SIZE /\ o \in Int
  BY DEF Readable
<1>2. /\ k <= o /\ Holds(v, o, EndianScalar(k, 4))
      /\ \A i \in 1 .. k : Holds(v, o - 4 - n * (i - 1), structs[i])
  BY DEF StructsAt
<1> HIDE DEF k
<1>3. k <= v.size
  <2> DEFINE y == v.size
  <2>1. y \in Nat /\ k <= o /\ o <= y
    BY <1>1, <1>2
  <2> HIDE DEF y
  <2>2. k <= y
    BY <1>1, <2>1
  <2> QED BY <2>2 DEF y
<1>4. size(v.mem, p) = k
  BY <1>1, <1>2, <1>3, LengthReads
<1>5. ASSUME NEW i \in 1 .. k PROVE GetStruct(v.mem, p, i - 1, n) = structs[i]
  <2> DEFINE e == o - 4 - n * (i - 1)
             s == structs[i]
             r == v.reserved
  <2>1. i \in Nat \ {0} /\ v.reserved \in Nat /\ o \in Int /\ n \in Nat
    BY <1>1, <1>5
  <2>2. ElementAt(p, i - 1, n) = r - e /\ e \in Int
    BY <2>1, ElementIs, ZenonT(40)
  <2>3. Holds(v, e, s) /\ s \in [1 .. n -> Byte]
    BY <1>1, <1>2, <1>5
  <2> HIDE DEF e, p, s
  <2>4. Len(s) = n /\ s = [j \in 1 .. n |-> s[j]]
    BY <2>3
  <2>5. ASSUME NEW j \in 1 .. n PROVE v.mem[(r - e) + j - 1] = s[j]
    <3>1. v.mem[r - (e - j + 1)] = s[j]
      BY <2>3, <2>4, <2>5 DEF Holds
    <3>2. r \in Nat
      BY <1>1
    <3> HIDE DEF r
    <3>3. (r - e) + j - 1 = r - (e - j + 1)
      BY <2>2, <2>5, <3>2
    <3> QED BY <3>1, <3>3
  <2>6. GetStruct(v.mem, p, i - 1, n) = [j \in 1 .. n |-> v.mem[(r - e) + j - 1]]
    BY <2>2 DEF GetStruct
  <2> HIDE DEF r
  <2>7. GetStruct(v.mem, p, i - 1, n) = s
    BY <2>4, <2>5, <2>6
  <2> QED BY <2>7 DEF s
<1> QED BY <1>1, <1>4, <1>5 DEF k

-----------------------------------------------------------------------------
(* Where a table says its fields are. *)
LEMMA TableReads ==
  ASSUME NEW v, Readable(v), NEW o \in Nat, NEW vt \in Nat, NEW n \in Values(2),
         NEW at \in Layouts, VTableWith(v, o, vt, n, at)
  PROVE  LET p == v.reserved - o
         IN /\ GetVTable(v.mem, p) = v.reserved - vt
            /\ \A f \in VOffsets : GetOptionalFieldOffset(v.mem, p, f) = at[f]
<1> DEFINE p == v.reserved - o
           r == v.reserved
           y == v.size
           x == vt - o
           max == FLATBUFFERS_MAX_BUFFER_SIZE
<1>1. r \in Nat /\ y \in Nat /\ y <= max /\ max \in Nat /\ r \in Int
  BY SmallSizes DEF Readable
<1>2. /\ 4 <= n /\ n % 2 = 0 /\ Holds(v, o, EndianScalar(x, 4)) /\ Holds(v, vt, EndianScalar(n, 2))
      /\ \A f \in VOffsets :
           /\ f + 2 <= n => Holds(v, vt - f, EndianScalar(at[f], 2))
           /\ ~(f + 2 <= n) => at[f] = 0
  BY DEF VTableWith
<1>3. n \in Nat /\ 2 \in Sizes /\ 4 \in Sizes /\ \A f \in VOffsets : at[f] \in Values(2)
  BY TwoBytes DEF Sizes, Layouts
<1>4. o <= y /\ vt <= y
  BY <1>2 DEF Holds
<1>5. x \in Values(4)
  <2>1. max = 2147483647
    BY DEF FLATBUFFERS_MAX_BUFFER_SIZE
  <2> HIDE DEF y, max
  <2>2. x \in Int /\ x >= 0 - 2147483647 - 1 /\ x <= 2147483647
    BY <1>1, <1>4, <2>1
  <2> HIDE DEF x
  <2> QED BY <2>2 DEF Values
<1> HIDE DEF x, y, max
<1>6. GetVTable(v.mem, p) = r - vt
  <2>0. o \in Int
    OBVIOUS
  <2>1. ReadScalar(v.mem, r - o, Scalar(4, TRUE)) = x
    BY <2>0, <1>1, <1>2, <1>3, <1>5, ReadsHeld
  <2>2. GetVTable(v.mem, p) = (r - o) - x
    BY <2>1 DEF GetVTable, soffset_t
  <2> HIDE DEF r
  <2>3. (r - o) - x = r - vt
    BY <1>1 DEF x
  <2> QED BY <2>2, <2>3
<1>7. ReadScalar(v.mem, r - vt, voffset_t) = n
  <2>0. vt \in Int
    OBVIOUS
  <2>1. ReadScalar(v.mem, r - vt, Scalar(2, FALSE)) = n
    BY <2>0, <1>1, <1>2, <1>3, ReadsHeld
  <2> QED BY <2>1 DEF voffset_t
<1>8. ASSUME NEW f \in VOffsets PROVE GetOptionalFieldOffset(v.mem, p, f) = at[f]
  <2>1. f \in Nat /\ f % 2 = 0
    BY VOffsetsAre
  <2>2. f < n <=> f + 2 <= n
    BY <1>2, <1>3, <2>1
  <2>3. GetOptionalFieldOffset(v.mem, p, f) =
          IF f < n THEN ReadScalar(v.mem, (r - vt) + f, voffset_t) ELSE 0
    BY <1>6, <1>7 DEF GetOptionalFieldOffset, VTableEntry
  <2>4. ASSUME f + 2 <= n PROVE ReadScalar(v.mem, (r - vt) + f, voffset_t) = at[f]
    <3> DEFINE e == vt - f
    <3>1. Holds(v, e, EndianScalar(at[f], 2)) /\ at[f] \in Values(2) /\ e \in Int
      BY <1>2, <1>3, <2>1, <2>4
    <3> HIDE DEF e
    <3>2. ReadScalar(v.mem, r - e, Scalar(2, FALSE)) = at[f]
      BY <1>1, <1>3, <3>1, ReadsHeld
    <3> HIDE DEF r
    <3>3. (r - vt) + f = r - e
      BY <1>1, <2>1 DEF e
    <3> QED BY <3>2, <3>3 DEF voffset_t
  <2>5. CASE f + 2 <= n
    BY <2>2, <2>3, <2>4, <2>5
  <2>6. CASE ~(f + 2 <= n)
    BY <1>2, <2>2, <2>3, <2>6
  <2> QED BY <2>5, <2>6
<1> QED BY <1>6, <1>8

-----------------------------------------------------------------------------
(* Objects read back, in a buffer that is readable. *)

(* A string. *)
LEMMA StringReadsBack ==
  ASSUME NEW x, Readable(b.buf), x.o \in Nat, StringAt(b.buf, x.o, x.value)
  PROVE  ReadsBack(x)
<1> DEFINE v == x.value
           p == Address(b, x.o)
           m == b.buf.mem
<1>1. /\ v = [text |-> v.text] \/ v = [text |-> v.text, shared |-> TRUE]
      /\ v.text \in Seq(Byte) /\ TextAt(b.buf, x.o, v.text)
  BY DEF StringAt
<1>2. p = b.buf.reserved - x.o
  BY DEF Address, data_at
<1>3. size(m, p) = Len(v.text) /\ str(m, p) = v.text /\ m[Data(p) + Len(v.text)] = 0
  <2>1. x.o \in Int
    OBVIOUS
  <2> QED BY <1>1, <1>2, <2>1, TextReads DEF Readable
<1>4. DOMAIN v \subseteq {"text", "shared"} /\ "text" \in DOMAIN v
  BY <1>1
<1> HIDE DEF v, p, m
<1>5. ValueBack(m, p, v)
  BY <1>3, <1>4 DEF ValueBack
<1>6. LengthBack(m, p, v)
  BY <1>3, <1>4 DEF LengthBack
<1> QED BY <1>5, <1>6 DEF ReadsBack, v, p, m

(* A vector of integers, *)
LEMMA IntegersReadBack ==
  ASSUME NEW x, NEW minalign, Readable(b.buf), x.o \in Nat, x.o <= b.buf.size,
         IntegersAt(b.buf, x.o, x.value, minalign)
  PROVE  ReadsBack(x)
<1> DEFINE v == x.value
           p == Address(b, x.o)
           m == b.buf.mem
<1>1. /\ v = [integers |-> v.integers, bytes |-> v.bytes]
      /\ v.bytes \in Sizes /\ v.integers \in Seq(Values(v.bytes))
      /\ ScalarsAt(b.buf, x.o, v.integers, v.bytes, minalign)
  BY DEF IntegersAt
<1>2. p = b.buf.reserved - x.o
  BY DEF Address, data_at
<1>3. /\ size(m, p) = Len(v.integers)
      /\ \A i \in DOMAIN v.integers : GetScalar(m, p, i - 1, Scalar(v.bytes, FALSE)) = v.integers[i]
  <2> DEFINE n == v.bytes
             elements == v.integers
             w == b.buf
             o == x.o
  <2>1. /\ Readable(w) /\ o \in Nat /\ o <= w.size /\ n \in Sizes /\ elements \in Seq(Values(n))
        /\ ScalarsAt(w, o, elements, n, minalign)
    BY <1>1
  <2>2. p = w.reserved - o /\ m = w.mem
    BY <1>2
  <2> HIDE DEF n, elements, w, o, p, m
  <2>3. LET p_ == w.reserved - o
        IN /\ size(w.mem, p_) = Len(elements)
           /\ \A i \in DOMAIN elements : GetScalar(w.mem, p_, i - 1, Scalar(n, FALSE)) = elements[i]
    BY <2>1, IntegersRead, Zenon
  <2>4. /\ size(m, p) = Len(elements)
        /\ \A i \in DOMAIN elements : GetScalar(m, p, i - 1, Scalar(n, FALSE)) = elements[i]
    BY <2>2, <2>3, Zenon
  <2> QED BY <2>4 DEF n, elements
<1>4. DOMAIN v \subseteq {"integers", "bytes"} /\ "integers" \in DOMAIN v
  BY <1>1
<1> HIDE DEF v, p, m
<1>5. ValueBack(m, p, v)
  BY <1>3, <1>4 DEF ValueBack
<1>6. LengthBack(m, p, v)
  BY <1>3, <1>4 DEF LengthBack
<1> QED BY <1>5, <1>6 DEF ReadsBack, v, p, m

(* of references, *)
LEMMA ReferencesReadBack ==
  ASSUME NEW x, Readable(b.buf), x.o \in Nat, x.o <= b.buf.size,
         ReferencesAt(b.buf, x.o, x.value)
  PROVE  ReadsBack(x)
<1> DEFINE v == x.value
           p == Address(b, x.o)
           m == b.buf.mem
<1>1. /\ v = [offsets |-> v.offsets] /\ v.offsets \in Seq(Nat)
      /\ OffsetsAt(b.buf, x.o, v.offsets, Len(v.offsets))
  BY DEF ReferencesAt
<1>2. p = b.buf.reserved - x.o /\ \A o : Address(b, o) = b.buf.reserved - o
  BY DEF Address, data_at
<1>3. /\ size(m, p) = Len(v.offsets)
      /\ \A i \in DOMAIN v.offsets : GetObject(m, p, i - 1) = Address(b, v.offsets[i])
  BY <1>1, <1>2, ReferencesRead
<1>4. DOMAIN v \subseteq {"offsets"} /\ "offsets" \in DOMAIN v
  BY <1>1
<1> HIDE DEF v, p, m
<1>5. ValueBack(m, p, v)
  BY <1>3, <1>4 DEF ValueBack
<1>6. LengthBack(m, p, v)
  BY <1>3, <1>4 DEF LengthBack
<1> QED BY <1>5, <1>6 DEF ReadsBack, v, p, m

(* of strings *)
LEMMA StringsReadBack ==
  ASSUME NEW x, Readable(b.buf), x.o \in Nat, x.o <= b.buf.size,
         StringsAt(b.buf, x.o, x.value)
  PROVE  ReadsBack(x)
<1> DEFINE v == x.value
           p == Address(b, x.o)
           m == b.buf.mem
<1>1. /\ v = [texts |-> v.texts] /\ v.texts \in Seq(Seq(Byte))
      /\ TextsAt(b.buf, x.o, v.texts)
  BY DEF StringsAt
<1>2. p = b.buf.reserved - x.o
  BY DEF Address, data_at
<1>3. /\ size(m, p) = Len(v.texts)
      /\ \A i \in DOMAIN v.texts : str(m, GetObject(m, p, i - 1)) = v.texts[i]
  BY <1>1, <1>2, TextsRead
<1>4. DOMAIN v \subseteq {"texts"} /\ "texts" \in DOMAIN v
  BY <1>1
<1> HIDE DEF v, p, m
<1>5. ValueBack(m, p, v)
  BY <1>3, <1>4 DEF ValueBack
<1>6. LengthBack(m, p, v)
  BY <1>3, <1>4 DEF LengthBack
<1> QED BY <1>5, <1>6 DEF ReadsBack, v, p, m

(* and of structs that are padded alike. *)
LEMMA StructsReadBack ==
  ASSUME NEW x, NEW minalign, Readable(b.buf), x.o \in Nat, x.o <= b.buf.size,
         StructVectorAt(b.buf, x.o, x.value, minalign), StructsPadded
  PROVE  ReadsBack(x)
<1> DEFINE v == x.value
           p == Address(b, x.o)
           m == b.buf.mem
<1>1. /\ v = [structs |-> v.structs, sizeof |-> v.sizeof, alignment |-> v.alignment]
      /\ v.sizeof \in Nat /\ v.structs \in Seq([1 .. v.sizeof -> Byte])
      /\ PaddedAlike(<<v.structs, v.sizeof, v.alignment>>)
      /\ StructsAt(b.buf, x.o, v.structs, v.sizeof, v.alignment, minalign)
  BY DEF StructVectorAt
<1>2. p = b.buf.reserved - x.o
  BY DEF Address, data_at
<1>3. /\ size(m, p) = Len(v.structs)
      /\ \A i \in DOMAIN v.structs : GetStruct(m, p, i - 1, v.sizeof) = v.structs[i]
  <2> DEFINE n == v.sizeof
             align == v.alignment
             structs == v.structs
             w == b.buf
             o == x.o
  <2>1. /\ Readable(w) /\ o \in Nat /\ o <= w.size /\ n \in Nat
        /\ structs \in Seq([1 .. n -> Byte]) /\ PaddedAlike(<<structs, n, align>>)
        /\ StructsAt(w, o, structs, n, align, minalign)
    BY <1>1
  <2>2. p = w.reserved - o /\ m = w.mem
    BY <1>2
  <2> HIDE DEF n, align, structs, w, o, p, m
  <2>3. LET p_ == w.reserved - o
        IN /\ size(w.mem, p_) = Len(structs)
           /\ \A i \in DOMAIN structs : GetStruct(w.mem, p_, i - 1, n) = structs[i]
    BY <2>1, StructsRead, Zenon
  <2>4. /\ size(m, p) = Len(structs)
        /\ \A i \in DOMAIN structs : GetStruct(m, p, i - 1, n) = structs[i]
    BY <2>2, <2>3, Zenon
  <2> QED BY <2>4 DEF n, structs
<1>4. DOMAIN v \subseteq {"structs", "sizeof", "alignment"} /\ "structs" \in DOMAIN v
  BY <1>1
<1> HIDE DEF v, p, m
<1>5. ValueBack(m, p, v)
  BY <1>3, <1>4 DEF ValueBack
<1>6. LengthBack(m, p, v)
  BY <1>3, <1>4 DEF LengthBack
<1> QED BY <1>5, <1>6 DEF ReadsBack, v, p, m

-----------------------------------------------------------------------------
(* A number *)
LEMMA NumberReadsBack ==
  ASSUME Readable(b.buf), NEW o \in Nat, NEW at \in Nat, at # 0, NEW said, NEW minalign,
         NumberAt(b.buf, o - at, said, minalign), ~Defaulted(said, b.force_defaults_)
  PROVE  FieldBack(b.buf.mem, b.buf.reserved - o, at, said)
<1> DEFINE e == o - at
           r == b.buf.reserved
           m == b.buf.mem
<1>1. /\ said = [number |-> said.number, bytes |-> said.bytes]
      /\ said.bytes \in Sizes /\ said.number \in Values(said.bytes)
      /\ Holds(b.buf, e, EndianScalar(said.number, said.bytes))
  BY DEF NumberAt
<1>2. r \in Nat /\ r \in Int /\ e \in Int
  BY DEF Readable
<1> HIDE DEF e
<1>3. ReadScalar(m, r - e, Scalar(said.bytes, FALSE)) = said.number
  BY <1>1, <1>2, ReadsHeld
<1> HIDE DEF r, m
<1>4. (r - o) + at = r - e
  BY <1>2 DEF e
<1>5. ~(said.number = 0 /\ ~b.force_defaults_)
  BY <1>1 DEF Defaulted
<1>6. NumberBack(m, r - o, at, said)
  BY <1>3, <1>4, <1>5 DEF NumberBack
<1>7. DOMAIN said \subseteq {"number", "bytes"}
  BY <1>1
<1>8. FieldBack(m, r - o, at, said)
  BY <1>6, <1>7 DEF FieldBack
<1> QED BY <1>8 DEF r, m

(* is read, and so are a reference *)
LEMMA ReferenceReadsBack ==
  ASSUME Readable(b.buf), NEW o \in Nat, NEW at \in Nat, at # 0, NEW said, NEW minalign,
         ReferenceAt(b.buf, o - at, said, minalign)
  PROVE  FieldBack(b.buf.mem, b.buf.reserved - o, at, said)
<1> DEFINE e == o - at
           r == b.buf.reserved
           m == b.buf.mem
<1>1. /\ said = [offset |-> said.offset] /\ said.offset \in Nat
      /\ RefersAt(b.buf, e, said.offset)
  BY DEF ReferenceAt
<1>2. r \in Nat /\ e \in Int
  BY DEF Readable
<1> HIDE DEF e
<1>3. Indirect(m, r - e) = r - said.offset
  BY <1>1, <1>2, RefersReads
<1>4. Address(b, said.offset) = r - said.offset
  BY DEF Address, data_at
<1> HIDE DEF r, m
<1>5. (r - o) + at = r - e
  BY <1>2 DEF e
<1>6. ReferenceBack(m, r - o, at, said)
  BY <1>3, <1>4, <1>5 DEF ReferenceBack
<1>7. DOMAIN said \subseteq {"offset"}
  BY <1>1
<1>8. FieldBack(m, r - o, at, said)
  BY <1>6, <1>7 DEF FieldBack
<1> QED BY <1>8 DEF r, m

(* and a struct. *)
LEMMA StructReadsBack ==
  ASSUME Readable(b.buf), NEW o \in Nat, NEW at \in Nat, at # 0, NEW said, NEW minalign,
         StructAt(b.buf, o - at, said, minalign)
  PROVE  FieldBack(b.buf.mem, b.buf.reserved - o, at, said)
<1> DEFINE e == o - at
           r == b.buf.reserved
           m == b.buf.mem
           s == said.struct
<1>1. /\ said = [struct |-> said.struct, alignment |-> said.alignment]
      /\ s \in Seq(Byte) /\ Holds(b.buf, e, s)
  BY DEF StructAt
<1>2. r \in Nat /\ e \in Int
  BY DEF Readable
<1> HIDE DEF e, s
<1>3. ASSUME NEW k \in DOMAIN s PROVE m[(r - o) + at + k - 1] = s[k]
  <2>1. k \in 1 .. Len(s)
    BY <1>1, <1>3
  <2>2. m[r - (e - k + 1)] = s[k]
    BY <1>1, <2>1 DEF Holds
  <2> HIDE DEF r, m
  <2>3. k \in Int
    BY <2>1
  <2>4. (r - o) + at + k - 1 = r - (e - k + 1)
    BY <1>2, <2>3 DEF e
  <2> QED BY <2>2, <2>4
<1> HIDE DEF r, m
<1>4. StructBack(m, r - o, at, said)
  BY <1>3 DEF StructBack, s
<1>5. DOMAIN said \subseteq {"struct", "alignment"}
  BY <1>1
<1>6. FieldBack(m, r - o, at, said)
  BY <1>4, <1>5 DEF FieldBack
<1> QED BY <1>6 DEF r, m

(* Each field of a table, and each that it does not have. *)
LEMMA FieldReadsBack ==
  ASSUME Readable(b.buf), NEW o \in Nat, NEW fs, NEW minalign,
         b.force_defaults_ \in BOOLEAN, TableAt(b.buf, o, fs, b.force_defaults_, minalign),
         NEW f \in VOffsets,
         NEW said, said = IF f \in DOMAIN fs THEN fs[f] ELSE [none |-> TRUE],
         NEW p, p = b.buf.reserved - o
  PROVE  FieldBack(b.buf.mem, p, GetOptionalFieldOffset(b.buf.mem, p, f), said)
<1>1. PICK vt \in Nat, n \in Values(2), layout \in Layouts :
        VTableWith(b.buf, o, vt, n, layout) /\ FieldsWith(b.buf, o, fs, b.force_defaults_, minalign, layout)
  BY DEF TableAt
<1> DEFINE at == layout[f]
<1>2. GetOptionalFieldOffset(b.buf.mem, p, f) = at
  BY <1>1, TableReads
<1>3. at \in Nat
  <2>1. at \in Values(2)
    BY DEF Layouts
  <2> QED BY <2>1, TwoBytes
<1>4. /\ f \notin DOMAIN fs => at = 0
      /\ f \in DOMAIN fs =>
           /\ Defaulted(fs[f], b.force_defaults_) => at = 0
           /\ ~Defaulted(fs[f], b.force_defaults_) => at # 0 /\ FieldAt(b.buf, o - at, fs[f], minalign)
  BY <1>1 DEF FieldsWith
<1> HIDE DEF at
<1>5. CASE f \notin DOMAIN fs
  <2>1. said = [none |-> TRUE] /\ at = 0
    BY <1>4, <1>5
  <2>2. DOMAIN said \subseteq {"none"}
    BY <2>1
  <2>3. FieldBack(b.buf.mem, p, at, said)
    BY <2>1, <2>2 DEF FieldBack
  <2> QED BY <1>2, <2>3
<1>6. CASE f \in DOMAIN fs /\ Defaulted(fs[f], b.force_defaults_)
  <2>1. said = fs[f] /\ at = 0
    BY <1>4, <1>6
  <2>2. said = [number |-> 0, bytes |-> said.bytes] /\ ~b.force_defaults_
    BY <1>6, <2>1 DEF Defaulted
  <2>3. DOMAIN said \subseteq {"number", "bytes"} /\ said.number = 0
    BY <2>2
  <2>4. NumberBack(b.buf.mem, p, at, said)
    BY <2>1, <2>2, <2>3 DEF NumberBack
  <2>5. FieldBack(b.buf.mem, p, at, said)
    BY <2>3, <2>4 DEF FieldBack
  <2> QED BY <1>2, <2>5
<1>7. CASE f \in DOMAIN fs /\ ~Defaulted(fs[f], b.force_defaults_)
  <2>1. /\ said = fs[f] /\ at # 0 /\ FieldAt(b.buf, o - at, said, minalign)
        /\ ~Defaulted(said, b.force_defaults_)
    BY <1>4, <1>7
  <2>2. \/ NumberAt(b.buf, o - at, said, minalign)
        \/ ReferenceAt(b.buf, o - at, said, minalign)
        \/ StructAt(b.buf, o - at, said, minalign)
    BY <2>1 DEF FieldAt
  <2>3. Readable(b.buf) /\ o \in Nat /\ at \in Nat /\ at # 0 /\ ~Defaulted(said, b.force_defaults_)
    BY <1>3, <2>1
  <2>4. NumberAt(b.buf, o - at, said, minalign) => FieldBack(b.buf.mem, b.buf.reserved - o, at, said)
    BY <2>3, NumberReadsBack, Zenon
  <2>5. ReferenceAt(b.buf, o - at, said, minalign) => FieldBack(b.buf.mem, b.buf.reserved - o, at, said)
    BY <2>3, ReferenceReadsBack, Zenon
  <2>6. StructAt(b.buf, o - at, said, minalign) => FieldBack(b.buf.mem, b.buf.reserved - o, at, said)
    BY <2>3, StructReadsBack, Zenon
  <2>7. FieldBack(b.buf.mem, b.buf.reserved - o, at, said)
    BY <2>2, <2>4, <2>5, <2>6
  <2> QED BY <1>2, <2>7
<1> QED BY <1>5, <1>6, <1>7

(* A table reads back. *)
LEMMA TableReadsBack ==
  ASSUME NEW x, NEW minalign, Readable(b.buf), x.o \in Nat, b.force_defaults_ \in BOOLEAN,
         FieldsAt(b.buf, x.o, x.value, b.force_defaults_, minalign)
  PROVE  ReadsBack(x)
<1> DEFINE v == x.value
           p == Address(b, x.o)
           m == b.buf.mem
<1>1. /\ v = [table |-> v.table]
      /\ TableAt(b.buf, x.o, v.table, b.force_defaults_, minalign)
  BY DEF FieldsAt
<1>2. p = b.buf.reserved - x.o
  BY DEF Address, data_at
<1>3. DOMAIN v \subseteq {"table"}
  BY <1>1
<1>4. ASSUME NEW f \in {e[1] : e \in Elements} \union {AStruct[1], OffsetField}
      PROVE  FieldBack(m, p, GetOptionalFieldOffset(m, p, f),
                       IF f \in DOMAIN v.table THEN v.table[f] ELSE [none |-> TRUE])
  <2>1. f \in VOffsets
    BY UseAssumption DEF UseAssumption
  <2> DEFINE said == IF f \in DOMAIN v.table THEN v.table[f] ELSE [none |-> TRUE]
             fs == v.table
             o == x.o
             force == b.force_defaults_
  <2>2. /\ Readable(b.buf) /\ o \in Nat /\ force \in BOOLEAN /\ TableAt(b.buf, o, fs, force, minalign)
        /\ said = IF f \in DOMAIN fs THEN fs[f] ELSE [none |-> TRUE]
        /\ p = b.buf.reserved - o
    BY <1>1, <1>2
  <2> HIDE DEF said, fs, o, p
  <2>3. FieldBack(b.buf.mem, p, GetOptionalFieldOffset(b.buf.mem, p, f), said)
    BY <2>1, <2>2, FieldReadsBack
  <2> QED BY <2>3 DEF said
<1> HIDE DEF v, p, m
<1>5. ValueBack(m, p, v)
  BY <1>3, <1>4 DEF ValueBack
<1>6. LengthBack(m, p, v)
  BY <1>3 DEF LengthBack
<1> QED BY <1>5, <1>6 DEF ReadsBack, v, p, m

-----------------------------------------------------------------------------
(* What the invariant says of the properties.                              *)

(* In the invariant's states the builder is one, its buffer can be read    *)
(* when nothing was asserted in vain, and each object is where it was      *)
(* written.                                                                *)
LEMMA InvGives ==
  ASSUME UseInv, Asserted
  PROVE  /\ b \in Builders(detached) /\ ObjectsInv /\ Readable(b.buf)
         /\ b.force_defaults_ \in BOOLEAN /\ b.minalign_ \in Alignments /\ b.ok
         /\ \A x \in objects :
              /\ x.o \in Nat /\ x.o <= b.buf.size
              /\ ObjectAt(b.buf, x.o, x.value, b.force_defaults_, b.minalign_)
<1>1. b \in Builders(detached) /\ ObjectsInv
  BY DEF UseInv, MemoryInv
<1>2. b.buf.size \in Nat /\ b.buf.reserved \in Nat
      /\ b.force_defaults_ \in BOOLEAN /\ b.minalign_ \in Alignments
  BY <1>1, BuilderFields, BuilderNumbers
<1>3. \A x \in objects : ObjectAt(b.buf, x.o, x.value, b.force_defaults_, b.minalign_)
  BY <1>1 DEF ObjectsInv, ObjectsWritten
<1>4. \A x \in objects : x.o \in Nat /\ x.o <= b.buf.size
  BY <1>3 DEF ObjectAt
<1> QED BY <1>1, <1>2, <1>3, <1>4 DEF Readable, Asserted

(* The objects read back. *)
LEMMA AllReadBack ==
  ASSUME UseInv, Asserted, StructsPadded
  PROVE  ObjectsReadBack
<1> DEFINE minalign == b.minalign_
<1>1. ASSUME NEW x \in objects PROVE ReadsBack(x)
  <2>1. /\ Readable(b.buf) /\ x.o \in Nat /\ x.o <= b.buf.size /\ b.force_defaults_ \in BOOLEAN
        /\ ObjectAt(b.buf, x.o, x.value, b.force_defaults_, minalign)
    BY InvGives
  <2> HIDE DEF minalign
  <2>2. StringAt(b.buf, x.o, x.value) => ReadsBack(x)
    BY <2>1, StringReadsBack
  <2>3. IntegersAt(b.buf, x.o, x.value, minalign) => ReadsBack(x)
    BY <2>1, IntegersReadBack
  <2>4. ReferencesAt(b.buf, x.o, x.value) => ReadsBack(x)
    BY <2>1, ReferencesReadBack
  <2>5. StringsAt(b.buf, x.o, x.value) => ReadsBack(x)
    BY <2>1, StringsReadBack
  <2>6. StructVectorAt(b.buf, x.o, x.value, minalign) => ReadsBack(x)
    BY <2>1, StructsReadBack
  <2>7. FieldsAt(b.buf, x.o, x.value, b.force_defaults_, minalign) => ReadsBack(x)
    BY <2>1, TableReadsBack
  <2> QED BY <2>1, <2>2, <2>3, <2>4, <2>5, <2>6, <2>7 DEF ObjectAt
<1>2. b.ok
  BY DEF Asserted
<1> QED BY <1>1, <1>2 DEF ObjectsReadBack

-----------------------------------------------------------------------------
(* In a finished buffer what is aligned from the end is aligned from the   *)
(* beginning.                                                              *)
LEMMA InPlaceAt ==
  ASSUME UseInv, Asserted, b.finished, NEW e \in Int, NEW k \in Alignments, e % k = 0,
         k <= b.minalign_, NEW p, p = b.buf.reserved - e
  PROVE  InPlace(p, k)
<1> DEFINE y == b.buf.size
           r == b.buf.reserved
           c == b.buf.cur
           minalign == b.minalign_
<1>1. /\ y \in Nat /\ r \in Nat /\ c = r - y
      /\ minalign \in Alignments /\ y % minalign = 0
  <2>1. b \in Builders(detached) /\ ObjectsInv /\ minalign \in Alignments
    BY InvGives
  <2>2. b.buf \in Vectors(detached)
    BY <2>1, BuilderFields
  <2> QED BY <2>1, <2>2, VectorFields DEF ObjectsInv, FinishedWhole
<1>2. p = r - e /\ k <= minalign
  OBVIOUS
<1> HIDE DEF y, r, c, minalign
<1>3. y \in Int /\ y % k = 0
  BY <1>1, <1>2, SmallerAlignment
<1>4. p - c = y - e /\ y - e \in Int /\ e + (y - e) = y
  BY <1>1, <1>2
<1>5. (e + (y - e)) % k = (y - e) % k
  BY <1>4, SumAligned
<1>6. (p - c) % k = 0
  BY <1>3, <1>4, <1>5, Zenon
<1> QED BY <1>6 DEF InPlace, c

(* So every object is in place. *)
LEMMA ObjectInPlace ==
  ASSUME UseInv, Asserted, b.finished, NEW x \in objects
  PROVE  InPlace(Address(b, x.o), uoffset_t.size)
<1>1. /\ x.o \in Int /\ x.o % 4 = 0 /\ 4 <= b.minalign_
  BY InvGives DEF ObjectAt
<1>2. 4 \in Alignments
  BY DEF Alignments
<1>3. InPlace(Address(b, x.o), 4)
  <2>1. Address(b, x.o) = b.buf.reserved - x.o
    BY DEF Address, data_at
  <2> QED BY <1>1, <1>2, <2>1, InPlaceAt
<1>4. uoffset_t.size = 4
  BY DEF uoffset_t, Scalar
<1> QED BY <1>3, <1>4

(* the elements of a vector, *)
LEMMA ElementsInPlace ==
  ASSUME UseInv, Asserted, b.finished, NEW o \in Int, NEW n \in Alignments, (o - 4) % n = 0,
         n <= b.minalign_
  PROVE  InPlace(Data(Address(b, o)), n)
<1> DEFINE r == b.buf.reserved
           p == Data(Address(b, o))
           e == o - 4
<1>1. r \in Int
  BY InvGives DEF Readable
<1>2. p = (r - o) + 4
  BY DEF Data, Address, data_at, uoffset_t, Scalar
<1> HIDE DEF r, p
<1>3. p = r - e /\ e \in Int /\ e % n = 0
  BY <1>1, <1>2
<1> HIDE DEF e
<1>4. p = b.buf.reserved - e
  BY <1>3 DEF r
<1>5. InPlace(p, n)
  BY <1>3, <1>4, InPlaceAt
<1> QED BY <1>5 DEF p

(* the fields of a table and its vtable. *)
LEMMA FieldsInPlace ==
  ASSUME UseInv, Asserted, b.finished, NEW o \in Nat, NEW fs,
         TableAt(b.buf, o, fs, b.force_defaults_, b.minalign_), NEW p, p = b.buf.reserved - o
  PROVE  /\ InPlace(GetVTable(b.buf.mem, p), voffset_t.size)
         /\ \A f \in DOMAIN fs : FieldInPlace(p, GetOptionalFieldOffset(b.buf.mem, p, f), fs[f])
<1> DEFINE m == b.buf.mem
           r == b.buf.reserved
           force == b.force_defaults_
           minalign == b.minalign_
<1>1. PICK vt \in Nat, n \in Values(2), at \in Layouts :
        VTableWith(b.buf, o, vt, n, at) /\ FieldsWith(b.buf, o, fs, force, minalign, at)
  BY DEF TableAt
<1>2. /\ Readable(b.buf) /\ r \in Nat /\ minalign \in Alignments
      /\ 4 <= minalign
  <2>1. 4 <= minalign
    BY DEF UseInv, ObjectsInv, FinishedWhole
  <2> QED BY <2>1, InvGives DEF Readable
<1>3. /\ GetVTable(m, p) = r - vt
      /\ \A f \in VOffsets : GetOptionalFieldOffset(m, p, f) = at[f]
  BY <1>1, <1>2, TableReads
<1>4. InPlace(GetVTable(m, p), voffset_t.size)
  <2>1. voffset_t.size = 2 /\ 2 \in Alignments
    BY DEF voffset_t, Scalar, Alignments
  <2>2. 2 <= minalign
    <3>1. minalign \in Nat
      BY <1>2 DEF Alignments
    <3> HIDE DEF minalign
    <3> QED BY <1>2, <3>1
  <2>3. vt \in Int /\ vt % 2 = 0
    BY <1>1 DEF VTableWith
  <2>4. InPlace(GetVTable(m, p), 2)
    BY <1>3, <2>1, <2>2, <2>3, InPlaceAt
  <2> QED BY <2>1, <2>4
<1>5. ASSUME NEW f \in DOMAIN fs
      PROVE  FieldInPlace(p, GetOptionalFieldOffset(m, p, f), fs[f])
  <2> DEFINE a == at[f]
             e == o - a
             said == fs[f]
  <2>1. f \in VOffsets /\ (~Defaulted(said, force) => FieldAt(b.buf, e, said, minalign))
        /\ (Defaulted(said, force) => a = 0)
    BY <1>1 DEF FieldsWith
  <2>2. a \in Int
    <3>1. a \in Values(2)
      BY <2>1 DEF Layouts
    <3> QED BY <3>1, TwoBytes
  <2>3. GetOptionalFieldOffset(m, p, f) = a
    BY <1>3, <2>1
  <2>4. e \in Int /\ p + a = r - e
    <3> HIDE DEF r, a
    <3> QED BY <1>2, <2>2 DEF r
  <2> HIDE DEF e, a, said
  <2>5. ASSUME FieldAt(b.buf, e, said, minalign) PROVE InPlace(p + a, AlignmentOf(said))
    <3>1. CASE NumberAt(b.buf, e, said, minalign)
      <4>1. said = [number |-> said.number, bytes |-> said.bytes]
            /\ said.bytes \in Sizes /\ e % said.bytes = 0 /\ said.bytes <= minalign
        BY <3>1 DEF NumberAt
      <4>2. said.bytes \in Alignments /\ AlignmentOf(said) = said.bytes
        <5>1. "number" \in DOMAIN said
          BY <4>1
        <5> QED BY <4>1, <5>1 DEF Sizes, Alignments, AlignmentOf
      <4>3. InPlace(p + a, said.bytes)
        BY <2>4, <4>1, <4>2, InPlaceAt
      <4> QED BY <4>2, <4>3
    <3>2. CASE ReferenceAt(b.buf, e, said, minalign)
      <4>1. said = [offset |-> said.offset] /\ e % 4 = 0
        BY <3>2 DEF ReferenceAt
      <4>2. DOMAIN said = {"offset"}
        BY <4>1
      <4>3. 4 \in Alignments /\ AlignmentOf(said) = 4
        BY <4>2 DEF Alignments, AlignmentOf, uoffset_t, Scalar
      <4>4. InPlace(p + a, 4)
        BY <1>2, <2>4, <4>1, <4>3, InPlaceAt
      <4> QED BY <4>3, <4>4
    <3>3. CASE StructAt(b.buf, e, said, minalign)
      <4>1. said = [struct |-> said.struct, alignment |-> said.alignment]
            /\ said.alignment \in Alignments /\ e % said.alignment = 0 /\ said.alignment <= minalign
        BY <3>3 DEF StructAt
      <4>2. DOMAIN said = {"struct", "alignment"}
        BY <4>1
      <4>3. AlignmentOf(said) = said.alignment
        BY <4>2 DEF AlignmentOf
      <4>4. InPlace(p + a, said.alignment)
        BY <2>4, <4>1, InPlaceAt
      <4> QED BY <4>3, <4>4
    <3> QED BY <2>5, <3>1, <3>2, <3>3 DEF FieldAt
  <2>6. FieldInPlace(p, a, said)
    BY <2>1, <2>5 DEF FieldInPlace
  <2> QED BY <2>3, <2>6 DEF said
<1> QED BY <1>4, <1>5

(* Everything that has been written is in place. *)
LEMMA AllInPlace ==
  ASSUME UseInv, Asserted, b.finished
  PROVE  ObjectsInPlace
<1> SUFFICES ASSUME NEW x \in objects
             PROVE  ValueInPlace(b.buf.mem, Address(b, x.o), x.value)
  BY DEF ObjectsInPlace
<1> DEFINE v == x.value
           o == x.o
           m == b.buf.mem
           p == Address(b, o)
           minalign == b.minalign_
           force == b.force_defaults_
<1>1. /\ o \in Nat /\ o \in Int /\ ObjectAt(b.buf, o, v, force, minalign)
      /\ InPlace(p, uoffset_t.size)
  BY InvGives, ObjectInPlace
<1>2. p = b.buf.reserved - o
  BY DEF Address, data_at
<1>3. CASE StringAt(b.buf, o, v)
  <2>1. DOMAIN v \subseteq {"text", "shared"}
    BY <1>3 DEF StringAt
  <2> HIDE DEF v, p, m
  <2>2. ValueInPlace(m, p, v)
    BY <1>1, <2>1 DEF ValueInPlace
  <2> QED BY <2>2 DEF v, p, m
<1>4. CASE IntegersAt(b.buf, o, v, minalign)
  <2>1. v = [integers |-> v.integers, bytes |-> v.bytes]
        /\ v.bytes \in Sizes /\ v.integers \in Seq(Values(v.bytes))
        /\ ScalarsAt(b.buf, o, v.integers, v.bytes, minalign)
    BY <1>4 DEF IntegersAt
  <2>2. DOMAIN v = {"integers", "bytes"} /\ v.bytes \in Alignments
    BY <2>1 DEF Sizes, Alignments
  <2>3. v.integers # << >> => (o - 4) % v.bytes = 0 /\ v.bytes <= minalign
    <3>1. v.integers # << >> => Len(v.integers) # 0
      BY <2>1
    <3> QED BY <2>1, <3>1 DEF ScalarsAt
  <2> HIDE DEF v, o
  <2>4. v.integers # << >> => InPlace(Data(p), v.bytes)
    BY <1>1, <2>2, <2>3, ElementsInPlace
  <2> HIDE DEF p, m
  <2>5. ValueInPlace(m, p, v)
    BY <1>1, <2>2, <2>4 DEF ValueInPlace
  <2> QED BY <2>5 DEF v, p, m, o
<1>5. CASE ReferencesAt(b.buf, o, v) \/ StringsAt(b.buf, o, v)
  <2>1. DOMAIN v \subseteq {"offsets", "texts"}
    BY <1>5 DEF ReferencesAt, StringsAt
  <2> HIDE DEF v, p, m
  <2>2. ValueInPlace(m, p, v)
    BY <1>1, <2>1 DEF ValueInPlace
  <2> QED BY <2>2 DEF v, p, m
<1>6. CASE StructVectorAt(b.buf, o, v, minalign)
  <2>1. v = [structs |-> v.structs, sizeof |-> v.sizeof, alignment |-> v.alignment]
        /\ v.alignment \in Alignments /\ v.structs \in Seq([1 .. v.sizeof -> Byte])
        /\ StructsAt(b.buf, o, v.structs, v.sizeof, v.alignment, minalign)
    BY <1>6 DEF StructVectorAt
  <2>2. DOMAIN v = {"structs", "sizeof", "alignment"}
    BY <2>1
  <2>3. v.structs # << >> => (o - 4) % v.alignment = 0 /\ v.alignment <= minalign
    <3>1. v.structs # << >> => Len(v.structs) # 0
      BY <2>1
    <3> QED BY <2>1, <3>1 DEF StructsAt
  <2> HIDE DEF v, o
  <2>4. v.structs # << >> => InPlace(Data(p), v.alignment)
    BY <1>1, <2>1, <2>3, ElementsInPlace
  <2> HIDE DEF p, m
  <2>5. ValueInPlace(m, p, v)
    BY <1>1, <2>2, <2>4 DEF ValueInPlace
  <2> QED BY <2>5 DEF v, p, m, o
<1>7. CASE FieldsAt(b.buf, o, v, force, minalign)
  <2>1. v = [table |-> v.table] /\ TableAt(b.buf, o, v.table, force, minalign)
    BY <1>7 DEF FieldsAt
  <2>2. DOMAIN v = {"table"}
    BY <2>1
  <2>3. /\ InPlace(GetVTable(m, p), voffset_t.size)
        /\ \A f \in DOMAIN v.table : FieldInPlace(p, GetOptionalFieldOffset(m, p, f), v.table[f])
    <3> DEFINE fs == v.table
    <3>1. TableAt(b.buf, o, fs, force, minalign)
      BY <2>1
    <3> HIDE DEF fs, o, p
    <3>2. /\ InPlace(GetVTable(m, p), voffset_t.size)
          /\ \A f \in DOMAIN fs : FieldInPlace(p, GetOptionalFieldOffset(m, p, f), fs[f])
      BY <1>1, <1>2, <3>1, FieldsInPlace
    <3> QED BY <3>2 DEF fs
  <2> HIDE DEF v, p, m
  <2>4. ValueInPlace(m, p, v)
    BY <1>1, <2>2, <2>3 DEF ValueInPlace
  <2> QED BY <2>4 DEF v, p, m
<1> QED BY <1>1, <1>3, <1>4, <1>5, <1>6, <1>7 DEF ObjectAt

-----------------------------------------------------------------------------
(* Every byte of the buffer has been written. *)
AllWritten == \A a \in DOMAIN GetBuffer(b) : GetBuffer(b)[a] \in Byte

(* So it is in the states of the invariant. *)
LEMMA AllIsWritten ==
  ASSUME UseInv
  PROVE  AllWritten
<1> DEFINE v == b.buf
           y == v.size
           r == v.reserved
           c == v.cur
<1>1. b \in Builders(detached)
  BY DEF UseInv, MemoryInv
<1>2. Clean(v) /\ v \in Vectors(detached)
  BY <1>1, BuilderFields
<1>3. y \in Nat /\ r \in Nat /\ c = r - y
  BY <1>2, VectorFields
<1>4. ASSUME NEW a \in 0 .. (y - 1) PROVE v.mem[c + a] \in Byte
  <2>1. v.mem[r - (y - a)] \in Byte
    <3>1. y - a \in 1 .. y
      <4> HIDE DEF y
      <4> QED BY <1>3, <1>4
    <3> QED BY <1>2, <3>1 DEF Clean
  <2>2. r - (y - a) = c + a
    <3> HIDE DEF y, r, c
    <3>1. a \in Int
      BY <1>3, <1>4
    <3> QED BY <1>3, <3>1
  <2> QED BY <2>1, <2>2
<1>5. GetBuffer(b) = [a \in 0 .. (y - 1) |-> v.mem[c + a]]
  BY DEF GetBuffer, Serialized
<1> QED BY <1>4, <1>5 DEF AllWritten

(* A finished buffer is sound, *)
LEMMA FinishedSound ==
  ASSUME UseInv, Asserted
  PROVE  FinishedIsSound
BY AllInPlace, AllIsWritten DEF FinishedIsSound, AllWritten

(* what can be shared is shared, *)
LEMMA SharesOnce ==
  ASSUME UseInv, Asserted
  PROVE  SharedOnce
<1>1. b \in Builders(detached) /\ VTablesIn(b.buf, Base(b), b.dedup_vtables_) /\ SharedStringsOnce
      /\ (b.nested \/ b.num_field_loc = 0)
  BY DEF UseInv, ObjectsInv, VTablesKept, MemoryInv
<1>2. VTablesOnce
  <2> SUFFICES ASSUME b.dedup_vtables_, ~b.nested,
                      NEW i \in DOMAIN VTables(b), NEW j \in DOMAIN VTables(b),
                      VTableAt(b, VTables(b)[i]) = VTableAt(b, VTables(b)[j])
               PROVE  i = j
    BY DEF VTablesOnce
  <2> DEFINE vts == VTs(b.buf, b.buf.scratch)
  <2>1. Base(b) = b.buf.scratch
    <3>1. b.num_field_loc = 0 /\ b.buf.scratch \in Nat
      BY <1>1, BuilderNumbers
    <3> QED BY <3>1 DEF Base
  <2>2. VTables(b) = vts /\ \A o : VTableAt(b, o) = VBytes(b.buf, o)
    BY VTablesAre
  <2>3. i \in DOMAIN vts /\ j \in DOMAIN vts /\ VBytes(b.buf, vts[i]) = VBytes(b.buf, vts[j])
    BY <2>2
  <2>4. VTablesIn(b.buf, b.buf.scratch, TRUE)
    <3>1. b.dedup_vtables_ = TRUE
      BY <1>1, BuilderFields
    <3> QED BY <1>1, <2>1, <3>1
  <2> QED BY <2>3, <2>4 DEF VTablesIn
<1> QED BY <1>1, <1>2 DEF SharedOnce

(* and the memory is in order. *)
LEMMA MemoryIsKept ==
  ASSUME UseInv
  PROVE  MemoryKept
<1> DEFINE v == b.buf
           n == b.num_field_loc
<1>1. b \in Builders(detached) /\ v \in Vectors(detached) /\ n \in Nat
      /\ LocsFit(v, n, b.max_voffset_) /\ (b.nested \/ n = 0)
  BY BuilderFields DEF UseInv, MemoryInv
<1>2. /\ v.cur = v.reserved - v.size /\ v.scratch <= v.cur /\ v.mem \in Memory(v.reserved)
      /\ v.heap = {v.block, detached} \ {0} /\ v.scratch \in Nat
  BY <1>1, VectorFields
<1>3. v.scratch >= n * 8 /\ (v.scratch - n * 8) % 4 = 0
  BY <1>1, <1>2 DEF LocsFit
<1>4. DOMAIN v.mem = 0 .. (v.reserved - 1)
  BY <1>2 DEF Memory
<1>5. SizeOfFieldLoc = 8 /\ uoffset_t.size = 4
  BY DEF SizeOfFieldLoc, uoffset_t, Scalar
<1>6. StacksApart
  BY <1>1, <1>2, <1>3, <1>4, <1>5 DEF StacksApart
<1>7. BlocksOwned
  BY <1>2 DEF BlocksOwned
<1> QED BY <1>6, <1>7 DEF MemoryKept

-----------------------------------------------------------------------------
(* The theorems.                                                           *)

(* The invariant holds in every state of every use of a builder, whatever  *)
(* strings, vectors, structs and fields are written, in whatever order.    *)
THEOREM BuilderInvariant == Spec => []UseInv
<1>1. UseInv /\ [Next]_vars => UseInv'
  BY UseNext
<1> QED BY <1>1, UseInit, PTL DEF Spec

(* MemoryKept, for all uses of a builder: however the block is replaced,   *)
(* cleared, freed or given away, and whatever is written, shared, taken    *)
(* back or kept in the scratch pad, the two stacks of the block stay apart *)
(* inside of it, and the allocated blocks are the builder's and the        *)
(* detached one.                                                           *)
THEOREM BuilderMemoryKept == Spec => []MemoryKept
<1>1. UseInv => MemoryKept
  BY MemoryIsKept
<1> QED BY <1>1, BuilderInvariant, PTL

(* Until the builder is used for the next buffer, what it has serialized   *)
(* stays, byte by byte, at the same distance from the end of the block:    *)
(* reallocation copies it (vector_downward.h:267-287), and neither a       *)
(* string nor a vtable that is taken back takes something older with it.   *)
THEOREM BuilderStays == Spec => [][StepStays]_vars
<1>1. UseInv /\ [Next]_vars => StepStays
  BY UseNext
<1> QED BY <1>1, BuilderInvariant, PTL DEF Spec

(* No byte of what the builder gives out, finished or not, is one that     *)
(* nothing has written: padding is zero, and so is what a vtable reserves. *)
THEOREM BuilderWritesAll == Spec => []AllWritten
<1>1. UseInv => AllWritten
  BY AllIsWritten
<1> QED BY <1>1, BuilderInvariant, PTL

(* ObjectsReadBack, for all values: as long as no assertion of the builder *)
(* has failed, every string, vector and table that was written, whatever   *)
(* was written after it, reads back as it was written; vectors of structs  *)
(* that are aligned by a byte only if they are padded alike, for others    *)
(* come out shifted (flatbuffer_builder.h:791, see PaddedAlike).           *)
THEOREM BuilderReadsBack ==
  ASSUME StructsPadded
  PROVE  Spec => [](Asserted => ObjectsReadBack)
<1>1. UseInv => (Asserted => ObjectsReadBack)
  BY AllReadBack
<1> QED BY <1>1, BuilderInvariant, PTL

(* FinishedIsSound, for all values: as long as no assertion of the builder *)
(* has failed, everything in a finished buffer lies at a multiple of its   *)
(* alignment, counted from the first byte, and every byte was written.     *)
THEOREM BuilderFinishesSound == Spec => [](Asserted => FinishedIsSound)
<1>1. UseInv => (Asserted => FinishedIsSound)
  BY FinishedSound
<1> QED BY <1>1, BuilderInvariant, PTL

(* SharedOnce, for all values: as long as no assertion of the builder has  *)
(* failed, no two vtables are the same if they are to be shared, and no    *)
(* two shared strings.                                                     *)
THEOREM BuilderSharesOnce == Spec => [](Asserted => SharedOnce)
<1>1. UseInv => (Asserted => SharedOnce)
  BY SharesOnce
<1> QED BY <1>1, BuilderInvariant, PTL
=============================================================================
