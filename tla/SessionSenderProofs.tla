------------------------ MODULE SessionSenderProofs ------------------------
(***************************************************************************)
(* Proofs about SessionSender, for any set of workers, any payload sizes,  *)
(* any bound on the stream and any set of failures.  IInv is inductive;    *)
(* the safety properties of the module and its refinement of ByteStream    *)
(* follow from it.                                                         *)
(***************************************************************************)
EXTENDS SessionSender, SequenceTheorems, TLAPS

-----------------------------------------------------------------------------
(* Tilings: what the operations the sender performs on its lists do to the *)
(* stretch of the stream they hold.                                        *)

(* Appending the next bytes extends the stretch. *)
LEMMA TilesAppend ==
  ASSUME NEW bufs \in Seq(Buffer), NEW a \in Int, NEW b \in Buffer,
         Tiles(bufs, a, b.from)
  PROVE  Tiles(Append(bufs, b), a, b.to)
<1> DEFINE s == Append(bufs, b)
<1>1. /\ s \in Seq(Buffer) /\ s # <<>> /\ Len(s) = Len(bufs) + 1
      /\ \A i \in 1 .. Len(bufs) : s[i] = bufs[i]
      /\ s[Len(bufs) + 1] = b
      /\ Len(bufs) \in Nat
  BY AppendProperties, LenProperties
<1>2. b.from \in Nat /\ b.to \in Nat /\ b.from < b.to
  BY DEF Buffer
<1>3. \A i \in 1 .. Len(bufs) : bufs[i].from \in Nat /\ bufs[i].to \in Nat
  BY ElementOfSeq DEF Buffer
<1>4. bufs = <<>> <=> Len(bufs) = 0
  BY EmptySeq, LenProperties
<1> HIDE DEF s
<1>5. a <= b.to
  BY <1>2 DEF Tiles
<1>6. s[1].from = a /\ s[Len(s)].to = b.to
  <2>1. CASE bufs = <<>>
    BY <2>1, <1>1, <1>2, <1>4 DEF Tiles
  <2>2. CASE bufs # <<>>
    BY <2>2, <1>1, <1>4 DEF Tiles
  <2> QED BY <2>1, <2>2
<1>7. \A i \in 1 .. Len(s) : a <= s[i].from /\ s[i].to <= b.to
  BY <1>1, <1>2, <1>3 DEF Tiles
<1>8. \A i, j \in 1 .. Len(s) : i < j => s[i].to <= s[j].from
  <2> SUFFICES ASSUME NEW i \in 1 .. Len(s), NEW j \in 1 .. Len(s), i < j
               PROVE  s[i].to <= s[j].from
    OBVIOUS
  <2>1. i \in 1 .. Len(bufs) /\ s[i] = bufs[i]
    BY <1>1
  <2>2. CASE j <= Len(bufs)
    <3>1. j \in 1 .. Len(bufs) /\ s[j] = bufs[j]
      BY <2>2, <1>1
    <3> QED BY <2>1, <3>1 DEF Tiles
  <2>3. CASE j = Len(bufs) + 1
    BY <2>1, <2>3, <1>1 DEF Tiles
  <2> QED BY <2>2, <2>3, <1>1
<1>9. \A i \in 1 .. Len(s) - 1 : s[i].to = s[i + 1].from
  <2> TAKE i \in 1 .. Len(s) - 1
  <2>1. CASE i < Len(bufs)
    BY <2>1, <1>1 DEF Tiles
  <2>2. CASE i = Len(bufs)
    BY <2>2, <1>1, <1>4 DEF Tiles
  <2> QED BY <2>1, <2>2, <1>1
<1> QED BY <1>1, <1>5, <1>6, <1>7, <1>8, <1>9 DEF Tiles, s

(* Two stretches, the second beginning where the first ends, make one. *)
LEMMA TilesConcat ==
  ASSUME NEW s \in Seq(Buffer), NEW t \in Seq(Buffer),
         NEW a \in Int, NEW m \in Int, NEW z \in Int,
         Tiles(s, a, m), Tiles(t, m, z)
  PROVE  Tiles(s \o t, a, z)
<1> DEFINE c == s \o t
<1>1. /\ c \in Seq(Buffer)
      /\ Len(s) \in Nat /\ Len(t) \in Nat /\ Len(c) = Len(s) + Len(t)
      /\ \A i \in 1 .. Len(s) + Len(t) :
           c[i] = IF i <= Len(s) THEN s[i] ELSE t[i - Len(s)]
  BY ConcatProperties, LenProperties
<1>2. \A i \in 1 .. Len(s) : s[i].from \in Nat /\ s[i].to \in Nat
  BY ElementOfSeq DEF Buffer
<1>3. \A i \in 1 .. Len(t) : t[i].from \in Nat /\ t[i].to \in Nat
  BY ElementOfSeq DEF Buffer
<1>4. /\ s = <<>> <=> Len(s) = 0
      /\ t = <<>> <=> Len(t) = 0
      /\ c = <<>> <=> Len(c) = 0
  BY <1>1, EmptySeq
<1>5. /\ \A i \in 1 .. Len(s) : i \in 1 .. Len(c) /\ c[i] = s[i]
      /\ \A i \in 1 .. Len(c) : i > Len(s) =>
           i - Len(s) \in 1 .. Len(t) /\ c[i] = t[i - Len(s)]
  BY <1>1
<1> HIDE DEF c
<1>6. a <= z /\ (c = <<>> => a = z)
  BY <1>1, <1>4 DEF Tiles
<1>7. c # <<>> => c[1].from = a /\ c[Len(c)].to = z
  <2>1. CASE s = <<>> /\ t # <<>>
    BY <2>1, <1>1, <1>4, <1>5 DEF Tiles
  <2>2. CASE s # <<>> /\ t = <<>>
    BY <2>2, <1>1, <1>4, <1>5 DEF Tiles
  <2>3. CASE s # <<>> /\ t # <<>>
    <3>1. c[1] = s[1]
      BY <2>3, <1>1, <1>4, <1>5
    <3>2. c[Len(c)] = t[Len(t)]
      BY <2>3, <1>1, <1>4, <1>5
    <3> QED BY <2>3, <3>1, <3>2 DEF Tiles
  <2> QED BY <2>1, <2>2, <2>3, <1>1, <1>4
<1>8. \A i \in 1 .. Len(c) : a <= c[i].from /\ c[i].to <= z
  <2> TAKE i \in 1 .. Len(c)
  <2>1. CASE i <= Len(s)
    <3>1. i \in 1 .. Len(s) /\ c[i] = s[i]
      BY <2>1, <1>1, <1>5
    <3>2. a <= s[i].from /\ s[i].to <= m /\ m <= z
      BY <3>1 DEF Tiles
    <3> QED BY <3>1, <3>2, <1>2
  <2>2. CASE i > Len(s)
    <3>1. i - Len(s) \in 1 .. Len(t) /\ c[i] = t[i - Len(s)]
      BY <2>2, <1>1, <1>5
    <3>2. m <= t[i - Len(s)].from /\ t[i - Len(s)].to <= z /\ a <= m
      BY <3>1 DEF Tiles
    <3> QED BY <3>1, <3>2, <1>3
  <2> QED BY <2>1, <2>2, <1>1
<1>9. \A i, j \in 1 .. Len(c) : i < j => c[i].to <= c[j].from
  <2> SUFFICES ASSUME NEW i \in 1 .. Len(c), NEW j \in 1 .. Len(c), i < j
               PROVE  c[i].to <= c[j].from
    OBVIOUS
  <2>1. CASE j <= Len(s)
    BY <2>1, <1>1, <1>5 DEF Tiles
  <2>2. CASE i > Len(s)
    <3>1. /\ i - Len(s) \in 1 .. Len(t) /\ j - Len(s) \in 1 .. Len(t)
          /\ i - Len(s) < j - Len(s)
          /\ c[i] = t[i - Len(s)] /\ c[j] = t[j - Len(s)]
      BY <2>2, <1>1, <1>5
    <3> QED BY <3>1 DEF Tiles
  <2>3. CASE i <= Len(s) /\ j > Len(s)
    <3>1. /\ i \in 1 .. Len(s) /\ c[i] = s[i]
          /\ j - Len(s) \in 1 .. Len(t) /\ c[j] = t[j - Len(s)]
      BY <2>3, <1>1, <1>5
    <3>2. s[i].to <= m /\ m <= t[j - Len(s)].from
      BY <3>1 DEF Tiles
    <3>3. s[i].to \in Nat
      BY <3>1, <1>2
    <3>4. t[j - Len(s)].from \in Nat
      BY <3>1, <1>3
    <3>5. s[i].to <= t[j - Len(s)].from
      BY <3>2, <3>3, <3>4
    <3> QED BY <3>1, <3>5
  <2> QED BY <2>1, <2>2, <2>3, <1>1
<1>10. \A i \in 1 .. Len(c) - 1 : c[i].to = c[i + 1].from
  <2> TAKE i \in 1 .. Len(c) - 1
  <2>1. CASE i < Len(s)
    BY <2>1, <1>1, <1>5 DEF Tiles
  <2>2. CASE i = Len(s)
    <3>1. c[i] = s[Len(s)] /\ c[i + 1] = t[1] /\ s # <<>> /\ t # <<>>
      BY <2>2, <1>1, <1>4, <1>5
    <3> QED BY <3>1 DEF Tiles
  <2>3. CASE i > Len(s)
    <3>1. /\ i - Len(s) \in 1 .. Len(t) - 1
          /\ c[i] = t[i - Len(s)]
          /\ c[i + 1] = t[(i - Len(s)) + 1]
      BY <2>3, <1>1, <1>5
    <3> QED BY <3>1 DEF Tiles
  <2> QED BY <2>1, <2>2, <2>3, <1>1
<1> QED BY <1>6, <1>7, <1>8, <1>9, <1>10 DEF Tiles, c

(* Dropping the first k buffers leaves the rest of the stretch. *)
LEMMA TilesDrop ==
  ASSUME NEW s \in Seq(Buffer), NEW a \in Int, NEW z \in Int,
         Tiles(s, a, z), NEW k \in 0 .. Len(s)
  PROVE  LET r == SubSeq(s, k + 1, Len(s))
         IN /\ r \in Seq(Buffer)
            /\ Len(r) = Len(s) - k
            /\ \A i \in 1 .. Len(r) : r[i] = s[i + k]
            /\ Tiles(r, IF k < Len(s) THEN s[k + 1].from ELSE z, z)
<1> DEFINE r == SubSeq(s, k + 1, Len(s))
           b == IF k < Len(s) THEN s[k + 1].from ELSE z
<1>1. Len(s) \in Nat /\ k \in Nat /\ k <= Len(s)
  BY LenProperties
<1>2. \A i \in 1 .. Len(s) : s[i] \in Buffer /\ s[i].from \in Nat /\ s[i].to \in Nat
  BY ElementOfSeq DEF Buffer
<1>3. /\ r \in Seq(Buffer)
      /\ Len(r) = IF k + 1 <= Len(s) THEN Len(s) - (k + 1) + 1 ELSE 0
      /\ \A i \in 1 .. Len(s) - (k + 1) + 1 : r[i] = s[(k + 1) + i - 1]
  <2>1. k + 1 \in Int /\ Len(s) \in Int /\ \A i \in k + 1 .. Len(s) : s[i] \in Buffer
    BY <1>1, <1>2
  <2> QED BY <2>1, SubSeqProperties
<1>4. Len(r) = Len(s) - k
  BY <1>1, <1>3
<1>5. \A i \in 1 .. Len(r) : i + k \in 1 .. Len(s) /\ r[i] = s[i + k]
  BY <1>1, <1>3, <1>4
<1>6. r = <<>> <=> Len(r) = 0
  BY <1>3, EmptySeq
<1> HIDE DEF r
<1>7. b <= z /\ (r = <<>> => b = z)
  BY <1>1, <1>2, <1>4, <1>6 DEF Tiles
<1>8. r # <<>> => r[1].from = b /\ r[Len(r)].to = z
  <2> HAVE r # <<>>
  <2>1. Len(r) > 0 /\ k < Len(s) /\ s # <<>>
    BY <1>1, <1>4, <1>6
  <2>2. r[1] = s[k + 1] /\ r[Len(r)] = s[Len(s)]
    BY <2>1, <1>1, <1>4, <1>5
  <2> QED BY <2>1, <2>2 DEF Tiles
<1>9. \A i \in 1 .. Len(r) : b <= r[i].from /\ r[i].to <= z
  <2> TAKE i \in 1 .. Len(r)
  <2>1. r[i] = s[i + k] /\ i + k \in 1 .. Len(s) /\ k < Len(s)
    BY <1>1, <1>4, <1>5
  <2>2. b = s[k + 1].from /\ k + 1 \in 1 .. Len(s)
    BY <2>1, <1>1
  <2>3. s[k + 1].from <= s[i + k].from
    <3>1. CASE i = 1
      BY <3>1, <2>2, <1>2, <1>1
    <3>2. CASE i > 1
      <4>1. s[k + 1].to <= s[i + k].from
        BY <3>2, <2>1, <2>2, <1>1 DEF Tiles
      <4>2. s[k + 1].from < s[k + 1].to
        BY <2>2, <1>2 DEF Buffer
      <4> QED BY <4>1, <4>2, <2>1, <2>2, <1>2
    <3> QED BY <3>1, <3>2
  <2> QED BY <2>1, <2>2, <2>3 DEF Tiles
<1>10. \A i, j \in 1 .. Len(r) : i < j => r[i].to <= r[j].from
  <2> SUFFICES ASSUME NEW i \in 1 .. Len(r), NEW j \in 1 .. Len(r), i < j
               PROVE  r[i].to <= r[j].from
    OBVIOUS
  <2>1. i + k < j + k
    BY <1>1
  <2> QED BY <2>1, <1>5 DEF Tiles
<1>11. \A i \in 1 .. Len(r) - 1 : r[i].to = r[i + 1].from
  <2> TAKE i \in 1 .. Len(r) - 1
  <2>1. /\ r[i] = s[i + k] /\ r[i + 1] = s[(i + k) + 1]
        /\ i + k \in 1 .. Len(s) - 1
    BY <1>1, <1>4, <1>5
  <2> QED BY <2>1 DEF Tiles
<1>12. Tiles(r, b, z)
  BY <1>7, <1>8, <1>9, <1>10, <1>11 DEF Tiles
<1> QED BY <1>3, <1>4, <1>5, <1>12 DEF r

(* Advancing the beginning of the first buffer shortens the stretch. *)
LEMMA TilesAdvance ==
  ASSUME NEW s \in Seq(Buffer), NEW a \in Int, NEW z \in Int,
         Tiles(s, a, z), s # <<>>,
         NEW d \in Nat, s[1].from + d < s[1].to,
         NEW r \in Seq(Buffer), Len(r) = Len(s),
         r[1] = [from |-> s[1].from + d, to |-> s[1].to],
         \A i \in 2 .. Len(s) : r[i] = s[i]
  PROVE  Tiles(r, a + d, z)
<1>1. Len(s) \in Nat /\ Len(s) >= 1 /\ Len(r) \in Nat /\ r # <<>>
  BY LenProperties, EmptySeq
<1>2. \A i \in 1 .. Len(s) : s[i].from \in Nat /\ s[i].to \in Nat /\ s[i].from < s[i].to
  BY ElementOfSeq DEF Buffer
<1>3. s[1].from = a /\ r[1].from = a + d /\ r[1].to = s[1].to
  BY DEF Tiles
<1>4. \A i \in 1 .. Len(r) : r[i].to = s[i].to /\ (i > 1 => r[i].from = s[i].from)
  <2> TAKE i \in 1 .. Len(r)
  <2>1. i = 1 \/ i \in 2 .. Len(s)
    BY <1>1
  <2> QED BY <2>1, <1>3
<1>5. \A i \in 1 .. Len(s) : s[i].to <= z
  BY DEF Tiles
<1>6. \A i, j \in 1 .. Len(s) : i < j => s[i].to <= s[j].from
  BY DEF Tiles
<1>7. \A i \in 1 .. Len(s) - 1 : s[i].to = s[i + 1].from
  BY DEF Tiles
<1>8. a + d <= z
  BY <1>1, <1>2, <1>3, <1>5
<1>9. r[Len(r)].to = z
  BY <1>1, <1>4 DEF Tiles
<1>10. \A i \in 1 .. Len(r) : a + d <= r[i].from /\ r[i].to <= z
  <2> TAKE i \in 1 .. Len(r)
  <2>1. CASE i = 1
    BY <2>1, <1>1, <1>3, <1>4, <1>5
  <2>2. CASE i > 1
    <3>1. s[1].to <= s[i].from
      BY <2>2, <1>1, <1>6
    <3>2. a + d < s[i].from
      BY <3>1, <1>1, <1>2, <1>3
    <3> QED BY <2>2, <3>2, <1>2, <1>4, <1>5
  <2> QED BY <2>1, <2>2
<1>11. \A i, j \in 1 .. Len(r) : i < j => r[i].to <= r[j].from
  BY <1>1, <1>4, <1>6
<1>12. \A i \in 1 .. Len(r) - 1 : r[i].to = r[i + 1].from
  BY <1>1, <1>4, <1>7
<1> QED BY <1>1, <1>3, <1>8, <1>9, <1>10, <1>11, <1>12 DEF Tiles

(* Taking the first position off the first buffer shortens the stretch by  *)
(* one.                                                                    *)
LEMMA TilesTakeFirst ==
  ASSUME NEW s \in Seq(Buffer), NEW a \in Int, NEW z \in Int,
         Tiles(s, a, z), s # <<>>
  PROVE  /\ TakeFirst(s) \in Seq(Buffer)
         /\ Tiles(TakeFirst(s), a + 1, z)
         /\ \A j \in 1 .. Len(TakeFirst(s)) : \E k \in 1 .. Len(s) :
              s[k].from <= TakeFirst(s)[j].from /\ TakeFirst(s)[j].to <= s[k].to
<1> DEFINE r == TakeFirst(s)
<1>1. Len(s) \in Nat /\ Len(s) >= 1 /\ 1 \in 1 .. Len(s)
  BY LenProperties, EmptySeq
<1>2. \A i \in 1 .. Len(s) : s[i].from \in Nat /\ s[i].to \in Nat /\ s[i].from < s[i].to
  BY ElementOfSeq DEF Buffer
<1>3. s[1].from = a
  BY DEF Tiles
<1>4. CASE s[1].from + 1 = s[1].to
  <2> DEFINE t == SubSeq(s, 1 + 1, Len(s))
  <2>1. r = t
    <3>1. 1 + 1 = 2
      OBVIOUS
    <3> QED BY <3>1, <1>4, TailIsSubSeq DEF TakeFirst
  <2>2. 1 \in 0 .. Len(s)
    BY <1>1
  <2>3. /\ t \in Seq(Buffer)
        /\ Len(t) = Len(s) - 1
        /\ \A i \in 1 .. Len(t) : t[i] = s[i + 1]
        /\ Tiles(t, IF 1 < Len(s) THEN s[1 + 1].from ELSE z, z)
    BY <2>2, TilesDrop
  <2> HIDE DEF t, r
  <2>4. (IF 1 < Len(s) THEN s[1 + 1].from ELSE z) = a + 1
    <3>1. CASE 1 < Len(s)
      <4>1. s[1].to = s[1 + 1].from
        BY <3>1, <1>1 DEF Tiles
      <4> QED BY <3>1, <4>1, <1>1, <1>2, <1>3, <1>4
    <3>2. CASE ~(1 < Len(s))
      <4>1. Len(s) = 1
        <5>1. \A n \in Nat : n >= 1 /\ ~(1 < n) => n = 1
          OBVIOUS
        <5> QED BY <5>1, <3>2, <1>1, Zenon
      <4>2. s[1].to = z
        BY <4>1 DEF Tiles
      <4> QED BY <3>2, <4>2, <1>1, <1>2, <1>3, <1>4
    <3> QED BY <3>1, <3>2
  <2>5. ASSUME NEW j \in 1 .. Len(t)
        PROVE  \E k \in 1 .. Len(s) : s[k].from <= t[j].from /\ t[j].to <= s[k].to
    <3>1. j + 1 \in 1 .. Len(s) /\ t[j] = s[j + 1]
      BY <2>3, <1>1
    <3> QED BY <3>1, <1>2
  <2> QED BY <2>1, <2>3, <2>4, <2>5 DEF r
<1>5. CASE s[1].from + 1 # s[1].to
  <2> DEFINE e == [from |-> s[1].from + 1, to |-> s[1].to]
  <2>1. e \in Buffer /\ e = [s[1] EXCEPT !.from = s[1].from + 1]
    <3>1. s[1] \in Buffer
      BY <1>1, ElementOfSeq
    <3> QED BY <3>1, <1>1, <1>2, <1>5 DEF Buffer
  <2>2. r = [s EXCEPT ![1] = e]
    BY <2>1, <1>5 DEF TakeFirst
  <2> HIDE DEF e, r
  <2>3. /\ r \in Seq(Buffer) /\ Len(r) = Len(s) /\ r[1] = e
        /\ \A i \in 1 .. Len(s) : i # 1 => r[i] = s[i]
    BY <2>1, <2>2, <1>1, ExceptSeq
  <2>4. \A i \in 2 .. Len(s) : r[i] = s[i]
    BY <2>3, <1>1
  <2>5. s[1].from + 1 < s[1].to
    BY <1>1, <1>2, <1>5
  <2>6. Tiles(r, a + 1, z)
    BY <2>3, <2>4, <2>5, TilesAdvance DEF e
  <2>7. ASSUME NEW j \in 1 .. Len(r)
        PROVE  s[j].from <= r[j].from /\ r[j].to <= s[j].to
    <3>1. CASE j = 1
      BY <3>1, <2>3, <1>1, <1>2 DEF e
    <3>2. CASE j # 1
      BY <3>2, <2>3, <1>2
    <3> QED BY <3>1, <3>2
  <2> QED BY <2>3, <2>6, <2>7 DEF r
<1> QED BY <1>4, <1>5

-----------------------------------------------------------------------------
(* The members of the sender, and the positions read off them, are of      *)
(* their types.                                                            *)
LEMMA SenderTypes ==
  ASSUME NEW s \in SenderState, submitted \in Nat
  PROVE  /\ s.post_send_signal \in BOOLEAN
         /\ s.send_queue \in Seq(Buffer)
         /\ s.sending_packets \in Seq(Buffer)
         /\ s.sending_offset \in Nat
         /\ QueueStart(s) \in Nat
         /\ SendingStart(s) \in Nat
         /\ ResumesAt(s) \in Nat
<1>1. /\ s.post_send_signal \in BOOLEAN
      /\ s.send_queue \in Seq(Buffer)
      /\ s.sending_packets \in Seq(Buffer)
      /\ s.sending_offset \in Nat
  BY DEF SenderState
<1>2. \A q \in Seq(Buffer) : q # <<>> => q[1].from \in Nat
  <2> SUFFICES ASSUME NEW q \in Seq(Buffer), q # <<>> PROVE q[1].from \in Nat
    OBVIOUS
  <2>1. 1 \in 1 .. Len(q)
    BY LenProperties, EmptySeq
  <2> QED BY <2>1, ElementOfSeq DEF Buffer
<1>3. QueueStart(s) \in Nat
  BY <1>1, <1>2 DEF QueueStart
<1>4. SendingStart(s) \in Nat
  BY <1>1, <1>2, <1>3 DEF SendingStart
<1> QED BY <1>1, <1>3, <1>4 DEF ResumesAt

(* MoveQueue makes sending_packets hold all that is left of the stream and *)
(* leaves the position at which the sender resumes.                        *)
LEMMA MoveQueueTiled ==
  ASSUME NEW s \in SenderState, submitted \in Nat, Tiled(s)
  PROVE  LET m == MoveQueue(s)
         IN /\ m \in SenderState
            /\ Tiled(m)
            /\ m.send_queue = <<>>
            /\ m.post_send_signal = s.post_send_signal
            /\ ResumesAt(m) = ResumesAt(s)
            /\ QueueStart(m) = submitted + 1
            /\ s.send_queue # <<>> => m.sending_packets # <<>>
<1> DEFINE m == MoveQueue(s)
<1>1. /\ s.send_queue \in Seq(Buffer) /\ s.sending_packets \in Seq(Buffer)
      /\ s.sending_offset \in Nat
      /\ QueueStart(s) \in Nat /\ SendingStart(s) \in Nat
  BY SenderTypes
<1>2. /\ m.send_queue = <<>>
      /\ m.sending_packets = s.sending_packets \o s.send_queue
      /\ m.sending_offset = s.sending_offset
      /\ m.post_send_signal = s.post_send_signal
  BY DEF MoveQueue, SenderState
<1>3. s.sending_packets \o s.send_queue \in Seq(Buffer)
  BY <1>1, ConcatProperties
<1>4. m \in SenderState
  <2>1. <<>> \in Seq(Buffer)
    BY EmptySeq
  <2>2. \A p, q \in Seq(Buffer) :
          [s EXCEPT !.sending_packets = p, !.send_queue = q] \in SenderState
    BY DEF SenderState
  <2> QED BY <2>1, <2>2, <1>3 DEF MoveQueue
<1> HIDE DEF m
<1>5. QueueStart(m) = submitted + 1
  BY <1>2 DEF QueueStart
<1>6. Tiles(m.sending_packets, SendingStart(s), submitted + 1)
  BY <1>1, <1>2, TilesConcat DEF Tiled
<1>7. /\ s.send_queue # <<>> => m.sending_packets # <<>>
      /\ s.sending_packets # <<>> => /\ m.sending_packets # <<>>
                                     /\ m.sending_packets[1] = s.sending_packets[1]
      /\ s.sending_packets = <<>> => m.sending_packets = s.send_queue
  <2>1. /\ Len(s.sending_packets) \in Nat /\ Len(s.send_queue) \in Nat
        /\ s.sending_packets = <<>> <=> Len(s.sending_packets) = 0
        /\ s.send_queue = <<>> <=> Len(s.send_queue) = 0
        /\ m.sending_packets = <<>> <=> Len(m.sending_packets) = 0
    BY <1>1, <1>2, <1>3, EmptySeq, LenProperties
  <2>2. /\ Len(m.sending_packets) = Len(s.sending_packets) + Len(s.send_queue)
        /\ \A i \in 1 .. Len(s.sending_packets) :
             m.sending_packets[i] = s.sending_packets[i]
    <3>1. \A p, q \in Seq(Buffer) :
            /\ Len(p \o q) = Len(p) + Len(q)
            /\ \A i \in 1 .. Len(p) : (p \o q)[i] = p[i]
      BY ConcatProperties, LenProperties
    <3> QED BY <3>1, <1>1, <1>2
  <2>3. s.sending_packets = <<>> => m.sending_packets = s.send_queue
    BY <1>1, <1>2, ConcatEmptySeq
  <2>4. s.sending_packets # <<>> => 1 \in 1 .. Len(s.sending_packets)
    BY <2>1
  <2>5. s.sending_packets # <<>> \/ s.send_queue # <<>> => m.sending_packets # <<>>
    <3>1. \A p, q, n \in Nat : n = p + q /\ (p # 0 \/ q # 0) => n # 0
      OBVIOUS
    <3>2. Len(m.sending_packets) \in Nat
      BY <1>2, <1>3, LenProperties
    <3> QED BY <3>1, <3>2, <2>1, <2>2, Zenon
  <2> QED BY <2>1, <2>2, <2>3, <2>4, <2>5
<1>8. SendingStart(m) = SendingStart(s)
  <2>1. CASE s.sending_packets # <<>>
    BY <2>1, <1>7 DEF SendingStart
  <2>2. CASE s.sending_packets = <<>>
    <3>1. CASE s.send_queue = <<>>
      BY <2>2, <3>1, <1>2, <1>5, <1>7 DEF SendingStart, QueueStart
    <3>2. CASE s.send_queue # <<>>
      BY <2>2, <3>2, <1>7 DEF SendingStart, QueueStart
    <3> QED BY <3>1, <3>2
  <2> QED BY <2>1, <2>2
<1>9. Tiled(m)
  <2>1. Tiles(m.send_queue, QueueStart(m), submitted + 1)
    BY <1>2, <1>5, EmptySeq DEF Tiles
  <2>2. Tiles(m.sending_packets, SendingStart(m), QueueStart(m))
    BY <1>5, <1>6, <1>8
  <2>3. IF m.sending_packets = <<>>
        THEN m.sending_offset = 0
        ELSE m.sending_offset < m.sending_packets[1].to - m.sending_packets[1].from
    <3>1. CASE s.sending_packets # <<>>
      BY <3>1, <1>2, <1>7 DEF Tiled
    <3>2. CASE s.sending_packets = <<>> /\ s.send_queue = <<>>
      BY <3>2, <1>2, <1>7 DEF Tiled
    <3>3. CASE s.sending_packets = <<>> /\ s.send_queue # <<>>
      <4>1. 1 \in 1 .. Len(s.send_queue)
        BY <3>3, <1>1, EmptySeq, LenProperties
      <4>2. s.send_queue[1].from \in Nat /\ s.send_queue[1].to \in Nat
            /\ s.send_queue[1].from < s.send_queue[1].to
        BY <4>1, <1>1, ElementOfSeq DEF Buffer
      <4> QED BY <3>3, <4>2, <1>2, <1>7 DEF Tiled
    <3> QED BY <3>1, <3>2, <3>3
  <2> QED BY <2>1, <2>2, <2>3 DEF Tiled
<1>10. ResumesAt(m) = ResumesAt(s)
  BY <1>2, <1>8 DEF ResumesAt
<1> QED BY <1>2, <1>4, <1>5, <1>7, <1>9, <1>10 DEF m

(* The WSABUFs of a call of WSASend hold what lies between the position at *)
(* which the sender resumes and the start of its queue, and each lies      *)
(* within a buffer of sending_packets.                                     *)
LEMMA WsaBufsTiled ==
  ASSUME NEW s \in SenderState, submitted \in Nat, Tiled(s),
         s.sending_packets # <<>>
  PROVE  /\ WsaBufs(s) \in Seq(Buffer)
         /\ Tiles(WsaBufs(s), ResumesAt(s), QueueStart(s))
         /\ Len(WsaBufs(s)) = Len(s.sending_packets)
         /\ \A j \in 1 .. Len(WsaBufs(s)) :
              /\ s.sending_packets[j].from <= WsaBufs(s)[j].from
              /\ WsaBufs(s)[j].to <= s.sending_packets[j].to
<1> DEFINE p == s.sending_packets
           d == s.sending_offset
           r == WsaBufs(s)
<1>1. /\ p \in Seq(Buffer) /\ d \in Nat /\ Len(p) \in Nat
      /\ SendingStart(s) \in Nat /\ QueueStart(s) \in Nat
  BY SenderTypes, LenProperties
<1>2. \A i \in 1 .. Len(p) :
        p[i].from \in Nat /\ p[i].to \in Nat /\ p[i].from < p[i].to
  BY <1>1, ElementOfSeq DEF Buffer
<1>12. \A i \in 1 .. Len(p) : p[i] = [from |-> p[i].from, to |-> p[i].to]
  BY <1>1, ElementOfSeq DEF Buffer
<1>3. Tiles(p, SendingStart(s), QueueStart(s)) /\ p[1].from + d < p[1].to
  <2>1. d < p[1].to - p[1].from
    BY DEF Tiled
  <2>2. 1 \in 1 .. Len(p)
    BY <1>1, EmptySeq
  <2>3. Tiles(p, SendingStart(s), QueueStart(s))
    BY DEF Tiled
  <2> HIDE DEF p, d
  <2> QED BY <2>1, <2>2, <2>3, <1>1, <1>2
<1>4. r = [i \in 1 .. Len(p) |-> [from |-> p[i].from + (IF i = 1 THEN d ELSE 0),
                                  to |-> p[i].to]]
  BY DEF WsaBufs
<1> HIDE DEF p, d, r
<1>5. \A i \in 1 .. Len(p) : r[i] \in Buffer
  <2> TAKE i \in 1 .. Len(p)
  <2>1. p[i].from + (IF i = 1 THEN d ELSE 0) \in Nat
    BY <1>1, <1>2
  <2>2. p[i].from + (IF i = 1 THEN d ELSE 0) < p[i].to
    BY <1>1, <1>2, <1>3
  <2> QED BY <2>1, <2>2, <1>2, <1>4 DEF Buffer
<1>6. r \in Seq(Buffer) /\ Len(r) = Len(p)
  <2>1. r \in [1 .. Len(p) -> Buffer]
    BY <1>4, <1>5
  <2> QED BY <2>1, <1>1, LenProperties DEF Seq
<1>7. 1 \in 1 .. Len(p) /\ p # <<>>
  BY <1>1, EmptySeq DEF p
<1>8. r[1] = [from |-> p[1].from + d, to |-> p[1].to]
  BY <1>4, <1>7
<1>9. \A i \in 2 .. Len(p) : r[i] = p[i]
  <2> TAKE i \in 2 .. Len(p)
  <2>1. i \in 1 .. Len(p) /\ i # 1
    BY <1>1
  <2>2. r[i] = [from |-> p[i].from + 0, to |-> p[i].to]
    BY <2>1, <1>4
  <2>3. p[i].from + 0 = p[i].from
    BY <2>1, <1>2
  <2> QED BY <2>1, <2>2, <2>3, <1>12
<1>10. Tiles(r, SendingStart(s) + d, QueueStart(s))
  BY <1>1, <1>3, <1>6, <1>7, <1>8, <1>9, TilesAdvance
<1>11. \A j \in 1 .. Len(r) : p[j].from <= r[j].from /\ r[j].to <= p[j].to
  <2> TAKE j \in 1 .. Len(r)
  <2>1. r[j].from = p[j].from + (IF j = 1 THEN d ELSE 0) /\ r[j].to = p[j].to
    BY <1>4, <1>6
  <2> QED BY <2>1, <1>1, <1>2, <1>6
<1> QED BY <1>6, <1>10, <1>11 DEF p, d, r, ResumesAt

(* A completion of bytes moves the position at which the sender resumes by *)
(* that much and frees no buffer beyond it.                                *)
LEMMA AcknowledgeTiled ==
  ASSUME NEW s \in SenderState, submitted \in Nat, Tiled(s), NEW bytes \in Nat,
         ResumesAt(s) + bytes <= QueueStart(s),
         NEW t \in Acknowledge(s, bytes)
  PROVE  /\ t \in SenderState
         /\ Tiled(t)
         /\ t.post_send_signal = s.post_send_signal
         /\ t.send_queue = s.send_queue
         /\ QueueStart(t) = QueueStart(s)
         /\ ResumesAt(t) = ResumesAt(s) + bytes
<1> DEFINE p == s.sending_packets
           a == SendingStart(s)
           q == QueueStart(s)
           n == bytes + s.sending_offset
<1>1. PICK k \in PopCount(p, n) :
        t = [s EXCEPT !.sending_packets = SubSeq(p, k + 1, Len(p)),
                      !.sending_offset = IF k < Len(p)
                                         THEN n - SizeOfFirst(p, k)
                                         ELSE 0]
  BY DEF Acknowledge
<1>2. /\ p \in Seq(Buffer) /\ s.sending_offset \in Nat /\ Len(p) \in Nat
      /\ a \in Nat /\ q \in Nat /\ n \in Nat
      /\ s.send_queue \in Seq(Buffer) /\ s.post_send_signal \in BOOLEAN
  BY SenderTypes, LenProperties
<1>3. /\ k \in 0 .. Len(p)
      /\ SizeOfFirst(p, k) <= n
      /\ k < Len(p) => n < SizeOfFirst(p, k + 1)
  BY DEF PopCount
<1>4. Tiles(p, a, q) /\ Tiles(s.send_queue, q, submitted + 1)
  BY DEF Tiled
<1>5. n <= q - a
  BY <1>2 DEF ResumesAt
<1>6. \A i \in 1 .. Len(p) : p[i].from \in Nat /\ p[i].to \in Nat
  BY <1>2, ElementOfSeq DEF Buffer
<1>7. Len(p) = 0 => a = q /\ s.sending_offset = 0
  BY <1>2, <1>4, EmptySeq DEF Tiles, Tiled
<1>8. Len(p) # 0 => p # <<>> /\ p[1].from = a /\ p[Len(p)].to = q
  BY <1>2, <1>4, EmptySeq DEF Tiles
<1>9. \A i \in 1 .. Len(p) : SizeOfFirst(p, i) = p[i].to - a
  BY <1>2, <1>8 DEF SizeOfFirst
<1>10. SizeOfFirst(p, 0) = 0
  BY DEF SizeOfFirst
<1>11. k < Len(p) => /\ p[k + 1].from = a + SizeOfFirst(p, k)
                     /\ p[k + 1].from \in Nat /\ p[k + 1].to \in Nat
                     /\ SizeOfFirst(p, k) \in Int
                     /\ n - SizeOfFirst(p, k) \in Nat
                     /\ n - SizeOfFirst(p, k) < p[k + 1].to - p[k + 1].from
  <2> SUFFICES ASSUME k < Len(p)
               PROVE  /\ p[k + 1].from = a + SizeOfFirst(p, k)
                      /\ p[k + 1].from \in Nat /\ p[k + 1].to \in Nat
                      /\ SizeOfFirst(p, k) \in Int
                      /\ n - SizeOfFirst(p, k) \in Nat
                      /\ n - SizeOfFirst(p, k) < p[k + 1].to - p[k + 1].from
    OBVIOUS
  <2> HIDE DEF p, a, q, n
  <2>1. k + 1 \in 1 .. Len(p) /\ p[k + 1].from \in Nat /\ p[k + 1].to \in Nat
    BY <1>2, <1>3, <1>6
  <2>2. SizeOfFirst(p, k) \in Int /\ p[k + 1].from = a + SizeOfFirst(p, k)
    <3>1. CASE k = 0
      BY <3>1, <1>2, <1>8, <1>10
    <3>2. CASE k # 0
      <4>1. k \in 1 .. Len(p) - 1 /\ k \in 1 .. Len(p)
        BY <3>2, <1>2, <1>3
      <4>2. p[k].to = p[k + 1].from
        BY <4>1, <1>4 DEF Tiles
      <4> QED BY <4>1, <4>2, <2>1, <1>2, <1>6, <1>9
    <3> QED BY <3>1, <3>2
  <2>3. SizeOfFirst(p, k + 1) = p[k + 1].to - a
    BY <2>1, <1>9
  <2>4. n < p[k + 1].to - a
    BY <2>3, <1>3
  <2> QED BY <2>1, <2>2, <2>4, <1>2, <1>3
<1>12. k = Len(p) => a + n = q
  <2>1. CASE Len(p) = 0
    BY <2>1, <1>2, <1>5, <1>7
  <2>2. CASE Len(p) # 0
    <3>1. Len(p) \in 1 .. Len(p)
      BY <2>2, <1>2
    <3>2. k = Len(p) => SizeOfFirst(p, k) = q - a
      BY <3>1, <2>2, <1>8, <1>9
    <3> QED BY <3>2, <1>2, <1>3, <1>5
  <2> QED BY <2>1, <2>2
<1> DEFINE r == SubSeq(p, k + 1, Len(p))
           o == IF k < Len(p) THEN n - SizeOfFirst(p, k) ELSE 0
<1>13. /\ r \in Seq(Buffer)
       /\ Len(r) = Len(p) - k
       /\ \A i \in 1 .. Len(r) : r[i] = p[i + k]
       /\ Tiles(r, IF k < Len(p) THEN p[k + 1].from ELSE q, q)
  BY <1>2, <1>3, <1>4, TilesDrop
<1>14. o \in Nat
  BY <1>11
<1>15. /\ t \in SenderState
       /\ t.sending_packets = r /\ t.sending_offset = o
       /\ t.send_queue = s.send_queue
       /\ t.post_send_signal = s.post_send_signal
  <2>1. \A x \in Seq(Buffer), y \in Nat :
          LET u == [s EXCEPT !.sending_packets = x, !.sending_offset = y]
          IN /\ u \in SenderState
             /\ u.sending_packets = x /\ u.sending_offset = y
             /\ u.send_queue = s.send_queue
             /\ u.post_send_signal = s.post_send_signal
    BY DEF SenderState
  <2> QED BY <2>1, <1>1, <1>13, <1>14
<1>16. QueueStart(t) = q
  BY <1>15 DEF QueueStart
<1> HIDE DEF p, a, q, n, r, o
<1>17. (r = <<>> <=> k = Len(p)) /\ (r # <<>> => r[1] = p[k + 1])
  <2>1. Len(r) \in Nat /\ (r = <<>> <=> Len(r) = 0)
    BY <1>13, EmptySeq, LenProperties
  <2>2. r # <<>> => 1 \in 1 .. Len(r)
    BY <2>1
  <2>3. r # <<>> => r[1] = p[1 + k]
    BY <2>2, <1>13
  <2>4. 1 + k = k + 1
    BY <1>3
  <2> QED BY <2>1, <2>3, <2>4, <1>2, <1>3, <1>13
<1>18. k < Len(p) \/ k = Len(p)
  BY <1>2, <1>3
<1>19. SendingStart(t) = IF k < Len(p) THEN p[k + 1].from ELSE q
  <2>1. SendingStart(t) = IF r = <<>> THEN q ELSE r[1].from
    BY <1>15, <1>16 DEF SendingStart
  <2> QED BY <2>1, <1>2, <1>3, <1>17
<1>20. Tiled(t)
  <2>1. Tiles(t.send_queue, QueueStart(t), submitted + 1)
    BY <1>4, <1>15, <1>16
  <2>2. Tiles(t.sending_packets, SendingStart(t), QueueStart(t))
    BY <1>13, <1>15, <1>16, <1>19
  <2>3. IF t.sending_packets = <<>>
        THEN t.sending_offset = 0
        ELSE t.sending_offset < t.sending_packets[1].to - t.sending_packets[1].from
    <3>1. CASE k < Len(p)
      BY <3>1, <1>2, <1>3, <1>11, <1>15, <1>17 DEF o
    <3>2. CASE k = Len(p)
      BY <3>2, <1>2, <1>15, <1>17 DEF o
    <3> QED BY <3>1, <3>2, <1>18
  <2> QED BY <2>1, <2>2, <2>3 DEF Tiled
<1>21. ResumesAt(t) = a + n
  <2>1. CASE k < Len(p)
    BY <2>1, <1>2, <1>11, <1>15, <1>19 DEF ResumesAt, o
  <2>2. CASE k = Len(p)
    BY <2>2, <1>2, <1>12, <1>15, <1>19 DEF ResumesAt, o
  <2> QED BY <2>1, <2>2, <1>18
<1>22. a + n = ResumesAt(s) + bytes
  BY <1>2 DEF a, n, ResumesAt
<1> QED BY <1>15, <1>16, <1>20, <1>21, <1>22 DEF q

(* What Conclude leaves after OnSend's attempts: either no send started    *)
(* and post_send_signal is clear, or one of all of sending_packets did, on *)
(* a live connection.                                                      *)
LEMMA ConcludeOutcome ==
  ASSUME TypeOK, NEW s \in SenderState, NEW b \in SendAttempts(s), Conclude(b)
  PROVE  /\ send_error_' \in Errors
         /\ calls' \in Seq(Errors)
         /\ \/ /\ sender' = [MoveQueue(s) EXCEPT !.post_send_signal = FALSE]
               /\ pending' = pending \o <<>>
            \/ /\ s.send_queue # <<>>
               /\ connected
               /\ sender' = MoveQueue(s)
               /\ pending' = pending \o <<[bufs |-> WsaBufs(MoveQueue(s)), done |-> 0]>>
<1> DEFINE m == MoveQueue(s)
<1>1. \A x \in SenderState : x.send_queue = <<>> => BeginSend(x) = {NothingToSend(x)}
  BY DEF BeginSend
<1>2. m.send_queue = <<>> /\ (s.send_queue = <<>> => m = s)
  <2>1. s.sending_packets \in Seq(Buffer)
    BY DEF SenderState
  <2>2. s.sending_packets \o <<>> = s.sending_packets
    BY <2>1, ConcatEmptySeq
  <2> QED BY <2>2 DEF MoveQueue, SenderState
<1>3. BeginSend(m) = {NothingToSend(m)}
  BY <1>2 DEF BeginSend
<1>4. Success # Transient /\ Success # Fatal /\ Transient # Fatal
      /\ Errors = {Success, Transient, Fatal}
  BY DEF Success, Transient, Fatal, Errors
<1>5. CASE s.send_queue = <<>>
  <2>1. BeginSend(s) = {NothingToSend(s)}
    BY <1>5 DEF BeginSend
  <2>2. NothingToSend(s).ret = Success
    BY DEF NothingToSend
  <2>3. b = NothingToSend(s)
    BY <2>1, <2>2, <1>4 DEF SendAttempts
  <2> QED BY <2>3, <1>2, <1>4, <1>5, EmptySeq DEF Conclude, NothingToSend, TypeOK
<1>6. CASE s.send_queue # <<>>
  <2>1. BeginSend(s) = {CallWSASend(m, r) : r \in SendResults}
    BY <1>6 DEF BeginSend
  <2>0. PICK c \in BeginSend(s) :
          b \in IF c.ret = Transient
                THEN {[b2 EXCEPT !.calls = c.calls \o @] : b2 \in BeginSend(c.sender)}
                ELSE {c}
    BY Zenon DEF SendAttempts
  <2>2. PICK r \in SendResults : c = CallWSASend(m, r)
    BY <2>0, <2>1
  <2>3. /\ CallWSASend(m, r).ret = r
        /\ CallWSASend(m, r).sender = m
        /\ CallWSASend(m, r).calls = <<r>>
        /\ CallWSASend(m, r).ops = IF r = Success
                                   THEN <<[bufs |-> WsaBufs(m), done |-> 0]>>
                                   ELSE <<>>
    BY DEF CallWSASend
  <2>4. r \in Errors /\ (r = Success => connected)
    BY <1>4 DEF SendResults
  <2>5. <<r>> \in Seq(Errors)
    BY <2>4
  <2>6. CASE r = Transient
    <3>1. b = [NothingToSend(m) EXCEPT !.calls = <<r>> \o @]
      BY <2>0, <2>2, <2>3, <2>6, <1>3
    <3>2. /\ b.ret = Success /\ b.ops = <<>>
          /\ b.sender = [m EXCEPT !.post_send_signal = FALSE]
          /\ b.calls = <<r>> \o <<>>
      BY <3>1 DEF NothingToSend
    <3>3. <<r>> \o <<>> \in Seq(Errors)
      BY <2>5, ConcatEmptySeq
    <3> QED BY <3>2, <3>3 DEF Conclude, TypeOK
  <2>7. CASE r # Transient
    <3>1. b = CallWSASend(m, r)
      BY <2>0, <2>2, <2>3, <2>7
    <3>2. CASE r = Success
      BY <3>1, <3>2, <2>3, <2>4, <2>5, <1>6 DEF Conclude, TypeOK
    <3>3. CASE r # Success
      BY <3>1, <3>3, <2>3, <2>4, <2>5, <1>6 DEF Conclude, TypeOK
    <3> QED BY <3>2, <3>3
  <2> QED BY <2>6, <2>7
<1> QED BY <1>5, <1>6

-----------------------------------------------------------------------------
(* Facts about short sequences that the steps below use. *)
LEMMA ShortSeqs ==
  ASSUME NEW S, NEW q \in Seq(S)
  PROVE  /\ Len(q) \in Nat
         /\ q = <<>> <=> Len(q) = 0
         /\ q # <<>> => Head(q) \in S /\ Head(q) = q[1] /\ Tail(q) \in Seq(S)
         /\ Len(q) = 1 => Tail(q) = <<>>
         /\ \A e \in S : /\ Append(q, e) \in Seq(S)
                         /\ Append(q, e) # <<>>
                         /\ q = <<>> => /\ Len(Append(q, e)) = 1
                                        /\ Append(q, e)[1] = e
<1>1. Len(q) \in Nat /\ (q = <<>> <=> Len(q) = 0)
  BY EmptySeq, LenProperties
<1>2. q # <<>> => Head(q) \in S /\ Head(q) = q[1] /\ Tail(q) \in Seq(S)
                  /\ Len(Tail(q)) = Len(q) - 1
  BY HeadTailProperties, ElementOfSeq, <1>1
<1>3. Len(q) = 1 => Tail(q) = <<>>
  <2> HAVE Len(q) = 1
  <2>1. q # <<>> /\ Tail(q) \in Seq(S) /\ Len(Tail(q)) = 0
    BY <1>1, <1>2
  <2> QED BY <2>1, EmptySeq
<1>4. ASSUME NEW e \in S
      PROVE  /\ Append(q, e) \in Seq(S)
             /\ Append(q, e) # <<>>
             /\ q = <<>> => Len(Append(q, e)) = 1 /\ Append(q, e)[1] = e
  BY AppendProperties, <1>1, EmptySeq
<1> QED BY <1>1, <1>2, <1>3, <1>4

(* Where the sender's one OVERLAPPED is. *)
LEMMA WhereItIs ==
  ASSUME TypeOK, SingleOutstanding
  PROVE  /\ ~sender.post_send_signal =>
              pending = <<>> /\ port = <<>> /\ \A w \in Workers : worker[w] = <<>>
         /\ pending # <<>> =>
              /\ sender.post_send_signal /\ port = <<>> /\ Len(pending) = 1
              /\ \A w \in Workers : worker[w] = <<>>
         /\ port # <<>> =>
              /\ sender.post_send_signal /\ pending = <<>> /\ Len(port) = 1
              /\ \A w \in Workers : worker[w] = <<>>
         /\ \A w \in Workers : worker[w] # <<>> =>
              /\ sender.post_send_signal /\ pending = <<>> /\ port = <<>>
              /\ Len(worker[w]) = 1
              /\ \A v \in Workers : v # w => worker[v] = <<>>
<1>1. /\ Len(pending) \in Nat /\ (pending = <<>> <=> Len(pending) = 0)
      /\ Len(port) \in Nat /\ (port = <<>> <=> Len(port) = 0)
  BY ShortSeqs DEF TypeOK
<1>2. Len(pending) + Len(port) <= 1
  BY DEF SingleOutstanding
<1>3. /\ pending # <<>> => port = <<>> /\ Len(pending) = 1
      /\ port # <<>> => pending = <<>> /\ Len(port) = 1
  <2>1. \A a, b \in Nat : a + b <= 1 => (a # 0 => b = 0 /\ a = 1) /\ (b # 0 => a = 0 /\ b = 1)
    OBVIOUS
  <2> QED BY <2>1, <1>1, <1>2, Zenon
<1> QED BY <1>3 DEF SingleOutstanding

(* The initial states satisfy the inductive invariant. *)
LEMMA InitIInv == Init => IInv
<1> SUFFICES ASSUME Init PROVE IInv
  OBVIOUS
<1>1. <<>> \in Seq(Buffer) /\ <<>> \in Seq(Errors) /\ <<>> \in Seq(SendOp)
      /\ <<>> \in Seq(Completion) /\ <<>> \in Seq(Nat) /\ Len(<<>>) = 0
  BY EmptySeq
<1>2. TypeOK
  BY <1>1 DEF Init, TypeOK, SenderState, Errors
<1>3. SingleOutstanding
  BY <1>1 DEF Init, SingleOutstanding
<1>4. QueueStart(sender) = 1 /\ SendingStart(sender) = 1 /\ ResumesAt(sender) = 1
  BY DEF Init, QueueStart, SendingStart, ResumesAt
<1>5. Tiles(<<>>, 1, 1)
  BY <1>1 DEF Tiles
<1>6. Tiled(sender)
  BY <1>4, <1>5 DEF Init, Tiled
<1>7. WireWithin(sender)
  BY <1>1, <1>4 DEF Init, WireWithin
<1>8. BuffersAlive
  BY <1>1 DEF Init, BuffersAlive
<1> QED BY <1>1, <1>2, <1>3, <1>4, <1>6, <1>7, <1>8 DEF Init, IInv, Prefix,
           PendingAccounts, PortAccounts, WorkerAccounts, IdleAccounts

(* A step that leaves the sender, the stream and the wire alone keeps what *)
(* the invariant says of them.                                             *)
LEMMA FrameIInv ==
  ASSUME IInv, UNCHANGED <<sender, submitted, wire>>, connected' => connected
  PROVE  /\ Tiled(sender)' /\ WireWithin(sender)' /\ Prefix' /\ IdleAccounts'
         /\ ResumesAt(sender)' = ResumesAt(sender)
         /\ QueueStart(sender)' = QueueStart(sender)
<1>1. QueueStart(sender)' = QueueStart(sender)
  BY DEF QueueStart
<1>2. SendingStart(sender)' = SendingStart(sender)
  BY <1>1 DEF SendingStart
<1>3. ResumesAt(sender)' = ResumesAt(sender)
  BY <1>2 DEF ResumesAt
<1>4. Tiled(sender)'
  BY <1>1, <1>2 DEF IInv, Tiled
<1>5. WireWithin(sender)'
  BY <1>1, <1>3 DEF IInv, WireWithin
<1>6. Prefix'
  BY DEF IInv, Prefix
<1>7. IdleAccounts'
  BY <1>3 DEF IInv, IdleAccounts
<1> QED BY <1>1, <1>3, <1>4, <1>5, <1>6, <1>7

(* OnAccept and Reset touch nothing the invariant relates. *)
LEMMA OnAcceptIInv == IInv /\ OnAccept => IInv'
<1> SUFFICES ASSUME IInv, OnAccept PROVE IInv'
  OBVIOUS
<1>1. TypeOK' /\ SingleOutstanding'
  BY DEF IInv, OnAccept, TypeOK, SingleOutstanding
<1>2. UNCHANGED <<sender, submitted, wire, connected, pending, port, worker>>
  BY DEF OnAccept
<1>3. BuffersAlive'
  BY <1>2 DEF IInv, BuffersAlive
<1>4. PendingAccounts'
  BY <1>2, FrameIInv DEF IInv, PendingAccounts, SendAccounts
<1>5. PortAccounts'
  BY <1>2, FrameIInv DEF IInv, PortAccounts, Accounts
<1>6. WorkerAccounts'
  BY <1>2, FrameIInv DEF IInv, WorkerAccounts, Accounts
<1> QED BY <1>1, <1>2, <1>3, <1>4, <1>5, <1>6, FrameIInv DEF IInv

LEMMA ResetIInv == IInv /\ Reset => IInv'
<1> SUFFICES ASSUME IInv, Reset PROVE IInv'
  OBVIOUS
<1>1. TypeOK' /\ SingleOutstanding'
  BY DEF IInv, Reset, TypeOK, SingleOutstanding
<1>2. UNCHANGED <<sender, submitted, wire, pending, port, worker>> /\ ~connected'
  BY DEF Reset
<1>3. BuffersAlive'
  BY <1>2 DEF IInv, BuffersAlive
<1>4. PendingAccounts'
  BY <1>2, FrameIInv DEF IInv, PendingAccounts, SendAccounts
<1>5. PortAccounts'
  BY <1>2, FrameIInv DEF IInv, PortAccounts, Accounts
<1>6. WorkerAccounts'
  BY <1>2, FrameIInv DEF IInv, WorkerAccounts, Accounts
<1> QED BY <1>1, <1>2, <1>3, <1>4, <1>5, <1>6, FrameIInv DEF IInv

(* A worker takes the one completion there is. *)
LEMMA DequeueIInv ==
  ASSUME IInv, NEW w \in Workers, Dequeue(w)
  PROVE  IInv'
<1>1. TypeOK /\ SingleOutstanding
  BY DEF IInv
<1>2. /\ port # <<>> /\ Head(port) \in Completion /\ Head(port) = port[1]
      /\ pending = <<>> /\ Len(port) = 1 /\ port' = <<>> /\ pending' = <<>>
      /\ \A v \in Workers : worker[v] = <<>>
      /\ sender.post_send_signal /\ sender' = sender
  BY <1>1, WhereItIs, ShortSeqs DEF Dequeue, TypeOK
<1>3. /\ worker' = [worker EXCEPT ![w] = <<Head(port)>>]
      /\ worker'[w] = <<Head(port)>>
      /\ \A v \in Workers : v # w => worker'[v] = <<>>
  BY <1>1, <1>2 DEF Dequeue, TypeOK
<1>4. <<Head(port)>> \in Seq(Completion) /\ <<>> \in Seq(Completion)
      /\ <<Head(port)>> # <<>> /\ Len(<<Head(port)>>) = 1 /\ Len(<<>>) = 0
  BY <1>2, EmptySeq
<1>5. TypeOK'
  BY <1>1, <1>2, <1>3, <1>4 DEF Dequeue, TypeOK
<1>6. SingleOutstanding'
  BY <1>2, <1>3, <1>4 DEF SingleOutstanding
<1>7. UNCHANGED <<sender, submitted, wire, connected, pending>>
  BY DEF Dequeue
<1>8. Accounts(Head(port))
  BY <1>2 DEF IInv, PortAccounts
<1>9. PortAccounts' /\ PendingAccounts' /\ BuffersAlive'
  BY <1>2, <1>4 DEF PortAccounts, PendingAccounts, BuffersAlive
<1>10. WorkerAccounts'
  <2> SUFFICES ASSUME NEW v \in Workers, NEW i \in 1 .. Len(worker'[v])
               PROVE  Accounts(worker[v][i])'
    BY DEF WorkerAccounts
  <2>1. v = w /\ worker'[v][i] = Head(port)
    BY <1>3, <1>4
  <2> QED BY <2>1, <1>7, <1>8, FrameIInv DEF Accounts
<1> QED BY <1>5, <1>6, <1>7, <1>9, <1>10, FrameIInv DEF IInv

(* SendAsync lengthens the stream and the queue by the same buffer, and    *)
(* posts a signal only when nothing is outstanding.                        *)
LEMMA SendAsyncIInv ==
  ASSUME IInv, NEW n \in Payloads, SendAsync(n)
  PROVE  IInv'
<1> DEFINE b == Allocate(n)
           q == Append(sender.send_queue, b)
           s == [sender EXCEPT !.send_queue = q]
<1>1. TypeOK /\ SingleOutstanding /\ submitted \in Nat /\ sender \in SenderState
  BY DEF IInv, TypeOK
<1>2. /\ b \in Buffer /\ b.from = submitted + 1 /\ b.to = submitted' + 1
      /\ submitted' \in Nat /\ submitted <= submitted'
  BY <1>1, ConstantsAssumption DEF SendAsync, Allocate, Buffer
<1>3. /\ q \in Seq(Buffer) /\ q # <<>>
      /\ sender.send_queue # <<>> => q[1] = sender.send_queue[1]
      /\ sender.send_queue = <<>> => q[1] = b
  <2>1. sender.send_queue \in Seq(Buffer)
    BY <1>1, SenderTypes
  <2>2. sender.send_queue # <<>> => 1 \in 1 .. Len(sender.send_queue)
    BY <2>1, ShortSeqs
  <2> QED BY <2>1, <2>2, <1>2, AppendProperties, ShortSeqs
<1> HIDE DEF b, q
<1>4. /\ s \in SenderState
      /\ s.send_queue = q
      /\ s.sending_packets = sender.sending_packets
      /\ s.sending_offset = sender.sending_offset
      /\ s.post_send_signal = sender.post_send_signal
  BY <1>1, <1>3 DEF SenderState
<1>5. /\ UNCHANGED <<session_, send_error_, calls, pending, worker, connected, wire>>
      /\ \/ /\ ~sender.post_send_signal
            /\ sender' = [s EXCEPT !.post_send_signal = TRUE]
            /\ port' = Append(port, [err |-> Success, bytes |-> 0])
         \/ sender' = s /\ port' = port
  BY <1>4 DEF SendAsync, PostCompletionPortSignal, q, b
<1>6. /\ sender' \in SenderState
      /\ sender'.send_queue = q
      /\ sender'.sending_packets = sender.sending_packets
      /\ sender'.sending_offset = sender.sending_offset
  BY <1>4, <1>5 DEF SenderState
<1>7. QueueStart(sender)' = QueueStart(sender)
  BY <1>2, <1>3, <1>6 DEF QueueStart
<1>8. SendingStart(sender)' = SendingStart(sender)
  BY <1>6, <1>7 DEF SendingStart
<1>9. ResumesAt(sender)' = ResumesAt(sender)
  BY <1>6, <1>8 DEF ResumesAt
<1>10. Tiled(sender)'
  <2>1. Tiles(sender.send_queue, QueueStart(sender), b.from)
    BY <1>2 DEF IInv, Tiled
  <2>2. Tiles(q, QueueStart(sender), b.to)
    BY <2>1, <1>1, <1>2, TilesAppend, SenderTypes DEF q
  <2>3. Tiles(sender.sending_packets, SendingStart(sender), QueueStart(sender))
    BY DEF IInv, Tiled
  <2>4. IF sender.sending_packets = <<>>
        THEN sender.sending_offset = 0
        ELSE sender.sending_offset
               < sender.sending_packets[1].to - sender.sending_packets[1].from
    BY DEF IInv, Tiled
  <2> QED BY <2>2, <2>3, <2>4, <1>2, <1>6, <1>7, <1>8 DEF Tiled
<1>11. WireWithin(sender)' /\ Prefix' /\ BuffersAlive' /\ PendingAccounts' /\ WorkerAccounts'
  <2>1. WireWithin(sender)' /\ Prefix'
    BY <1>5, <1>7, <1>9 DEF IInv, WireWithin, Prefix
  <2>2. BuffersAlive'
    BY <1>5, <1>6 DEF IInv, BuffersAlive
  <2>3. PendingAccounts'
    BY <1>5, <1>7, <1>9 DEF IInv, PendingAccounts, SendAccounts
  <2>4. WorkerAccounts'
    BY <1>5, <1>9 DEF IInv, WorkerAccounts, Accounts
  <2> QED BY <2>1, <2>2, <2>3, <2>4
<1>12. CASE sender' = s /\ port' = port
  <2>1. TypeOK'
    BY <1>1, <1>2, <1>5, <1>6, <1>12 DEF TypeOK
  <2>2. SingleOutstanding'
    BY <1>1, <1>4, <1>5, <1>12 DEF SingleOutstanding
  <2>3. PortAccounts'
    BY <1>5, <1>9, <1>12 DEF IInv, PortAccounts, Accounts
  <2>4. IdleAccounts'
    BY <1>4, <1>5, <1>9, <1>12 DEF IInv, IdleAccounts
  <2> QED BY <2>1, <2>2, <2>3, <2>4, <1>10, <1>11 DEF IInv
<1>13. CASE /\ ~sender.post_send_signal
            /\ sender' = [s EXCEPT !.post_send_signal = TRUE]
            /\ port' = Append(port, [err |-> Success, bytes |-> 0])
  <2> DEFINE c == [err |-> Success, bytes |-> 0]
  <2>1. c \in Completion /\ c.bytes = 0 /\ port \in Seq(Completion) /\ pending \in Seq(SendOp)
    BY <1>1 DEF Completion, Errors, TypeOK
  <2>2. /\ pending = <<>> /\ port = <<>> /\ \A w \in Workers : worker[w] = <<>>
        /\ sender'.post_send_signal
    BY <1>1, <1>4, <1>13, WhereItIs DEF SenderState
  <2>3. port' \in Seq(Completion) /\ port' # <<>> /\ Len(port') = 1 /\ port'[1] = c
    BY <2>1, <2>2, <1>13, ShortSeqs
  <2>4. TypeOK'
    BY <2>3, <1>1, <1>2, <1>5, <1>6 DEF TypeOK
  <2>5. SingleOutstanding'
    <3>1. Len(pending') = 0 /\ pending' = <<>> /\ worker' = worker
      BY <2>1, <2>2, <1>5, EmptySeq
    <3> QED BY <3>1, <2>2, <2>3 DEF SingleOutstanding
  <2>6. ResumesAt(sender) \in Nat /\ Len(wire) \in Nat
    BY <1>1, SenderTypes, LenProperties DEF TypeOK
  <2>7. PortAccounts'
    <3>1. ResumesAt(sender) + 0 <= Len(wire) + 1
          /\ (connected => ResumesAt(sender) + 0 = Len(wire) + 1)
      BY <2>6, <1>13 DEF IInv, WireWithin, IdleAccounts
    <3>2. c.err = Success
      OBVIOUS
    <3> QED BY <3>1, <3>2, <2>1, <2>3, <1>5, <1>9 DEF PortAccounts, Accounts
  <2>8. IdleAccounts'
    BY <2>2 DEF IdleAccounts
  <2> QED BY <2>4, <2>5, <2>7, <2>8, <1>10, <1>11 DEF IInv
<1> QED BY <1>5, <1>12, <1>13

(* OnSend acknowledges what the completion reports and starts at most one  *)
(* WSASend, of exactly what lies beyond the wire.                          *)
LEMMA OnSendIInv ==
  ASSUME IInv, NEW w \in Workers, OnSend(w)
  PROVE  IInv'
<1> DEFINE c == Head(worker[w])
<1>1. /\ TypeOK /\ SingleOutstanding /\ submitted \in Nat /\ sender \in SenderState
      /\ Tiled(sender)
  BY DEF IInv, TypeOK
<1>2. /\ pending = <<>> /\ port = <<>> /\ Len(worker[w]) = 1
      /\ \A v \in Workers : v # w => worker[v] = <<>>
      /\ worker[w] \in Seq(Completion) /\ worker[w] # <<>>
  BY <1>1, WhereItIs DEF OnSend, TypeOK
<1>3. c \in Completion /\ c = worker[w][1] /\ c.bytes \in Nat
  <2>1. c \in Completion /\ c = worker[w][1]
    BY <1>2, ShortSeqs
  <2> QED BY <2>1 DEF Completion
<1>4. Accounts(c)
  BY <1>2, <1>3 DEF IInv, WorkerAccounts
<1>5. PICK s \in IF c.err = Success THEN Acknowledge(sender, c.bytes) ELSE {sender} :
        \E b \in SendAttempts(s) : Conclude(b)
  BY DEF OnSend
<1>6. PICK b \in SendAttempts(s) : Conclude(b)
  BY <1>5
<1>7. /\ Len(wire) \in Nat /\ ResumesAt(sender) \in Nat /\ QueueStart(sender) \in Nat
      /\ Len(wire) + 1 <= QueueStart(sender) /\ ResumesAt(sender) <= Len(wire) + 1
  BY <1>1, SenderTypes, LenProperties DEF TypeOK, IInv, WireWithin
<1>8. /\ s \in SenderState /\ Tiled(s)
      /\ QueueStart(s) = QueueStart(sender)
      /\ ResumesAt(s) <= Len(wire) + 1
      /\ connected => ResumesAt(s) = Len(wire) + 1
  <2>1. CASE c.err = Success
    <3>1. ResumesAt(sender) + c.bytes <= QueueStart(sender)
      BY <1>3, <1>4, <1>7 DEF Accounts
    <3>2. s \in Acknowledge(sender, c.bytes)
      BY <2>1, <1>5
    <3>3. /\ s \in SenderState /\ Tiled(s) /\ QueueStart(s) = QueueStart(sender)
          /\ ResumesAt(s) = ResumesAt(sender) + c.bytes
      BY <3>1, <3>2, <1>1, <1>3, AcknowledgeTiled
    <3> QED BY <3>3, <1>4 DEF Accounts
  <2>2. CASE c.err # Success
    <3>1. s = sender
      BY <2>2, <1>5
    <3>2. c.bytes = 0
      BY <2>2, <1>4 DEF Accounts
    <3> QED BY <3>1, <3>2, <1>1, <1>4, <1>7 DEF Accounts
  <2> QED BY <2>1, <2>2
<1> DEFINE m == MoveQueue(s)
<1>9. /\ m \in SenderState /\ Tiled(m) /\ m.send_queue = <<>>
      /\ ResumesAt(m) = ResumesAt(s) /\ QueueStart(m) = submitted + 1
      /\ s.send_queue # <<>> => m.sending_packets # <<>>
  BY <1>1, <1>8, MoveQueueTiled
<1>10. /\ UNCHANGED <<session_, submitted, port, connected, wire>>
       /\ worker' = [worker EXCEPT ![w] = <<>>]
  BY DEF OnSend
<1>11. \A v \in Workers : worker'[v] = <<>>
  BY <1>1, <1>2, <1>10 DEF TypeOK
<1>12. worker' \in [Workers -> Seq(Completion)]
  BY <1>1, <1>10, EmptySeq DEF TypeOK
<1>13. /\ send_error_' \in Errors /\ calls' \in Seq(Errors)
       /\ \/ /\ sender' = [m EXCEPT !.post_send_signal = FALSE]
             /\ pending' = pending \o <<>>
          \/ /\ s.send_queue # <<>>
             /\ connected
             /\ sender' = m
             /\ pending' = pending \o <<[bufs |-> WsaBufs(m), done |-> 0]>>
  BY <1>1, <1>6, <1>8, ConcludeOutcome
<1> HIDE DEF m
<1>14. /\ sender' \in SenderState
       /\ sender'.send_queue = <<>>
       /\ sender'.sending_packets = m.sending_packets
       /\ sender'.sending_offset = m.sending_offset
  BY <1>9, <1>13 DEF SenderState
<1>15. QueueStart(sender)' = QueueStart(m)
  BY <1>9, <1>10, <1>14 DEF QueueStart
<1>16. SendingStart(sender)' = SendingStart(m)
  BY <1>14, <1>15 DEF SendingStart
<1>17. ResumesAt(sender)' = ResumesAt(m)
  BY <1>14, <1>16 DEF ResumesAt
<1>18. Tiled(sender)'
  BY <1>9, <1>10, <1>14, <1>15, <1>16 DEF Tiled
<1>19. QueueStart(sender) <= submitted + 1
  BY <1>1 DEF Tiled, Tiles
<1>20. WireWithin(sender)' /\ Prefix' /\ PortAccounts' /\ WorkerAccounts' /\ IdleAccounts'
  <2>1. WireWithin(sender)'
    BY <1>1, <1>7, <1>8, <1>9, <1>10, <1>15, <1>17, <1>19 DEF WireWithin
  <2>2. Prefix'
    BY <1>10 DEF IInv, Prefix
  <2>3. Len(<<>>) = 0 /\ port' = <<>>
    BY <1>2, <1>10, EmptySeq
  <2>4. PortAccounts' /\ WorkerAccounts'
    BY <2>3, <1>11 DEF PortAccounts, WorkerAccounts
  <2>5. IdleAccounts'
    BY <1>8, <1>9, <1>10, <1>17 DEF IdleAccounts
  <2> QED BY <2>1, <2>2, <2>4, <2>5
<1>21. CASE /\ sender' = [m EXCEPT !.post_send_signal = FALSE]
            /\ pending' = pending \o <<>>
  <2>1. pending' = <<>> /\ pending' \in Seq(SendOp) /\ Len(pending') = 0 /\ Len(port') = 0
        /\ port' = <<>>
    BY <1>2, <1>10, <1>21, ConcatEmptySeq, EmptySeq
  <2>2. TypeOK'
    BY <2>1, <1>1, <1>10, <1>12, <1>13, <1>14 DEF TypeOK
  <2>3. SingleOutstanding'
    <3>1. ~sender'.post_send_signal
      BY <1>9, <1>21 DEF SenderState
    <3> QED BY <3>1, <2>1, <1>11 DEF SingleOutstanding
  <2>4. BuffersAlive' /\ PendingAccounts'
    BY <2>1 DEF BuffersAlive, PendingAccounts
  <2> QED BY <2>2, <2>3, <2>4, <1>18, <1>20 DEF IInv
<1>22. CASE /\ s.send_queue # <<>>
            /\ connected
            /\ sender' = m
            /\ pending' = pending \o <<[bufs |-> WsaBufs(m), done |-> 0]>>
  <2> DEFINE op == [bufs |-> WsaBufs(m), done |-> 0]
  <2>1. /\ WsaBufs(m) \in Seq(Buffer)
        /\ Tiles(WsaBufs(m), ResumesAt(m), QueueStart(m))
        /\ Len(WsaBufs(m)) = Len(m.sending_packets)
        /\ \A j \in 1 .. Len(WsaBufs(m)) :
             /\ m.sending_packets[j].from <= WsaBufs(m)[j].from
             /\ WsaBufs(m)[j].to <= m.sending_packets[j].to
    BY <1>1, <1>9, <1>22, WsaBufsTiled
  <2>2. op \in SendOp
    BY <2>1 DEF SendOp
  <2>3. pending' = <<op>> /\ pending' \in Seq(SendOp) /\ Len(pending') = 1 /\ pending'[1] = op
        /\ pending' # <<>>
    <3>1. <<>> \o <<op>> = <<op>> /\ <<op>> \in Seq(SendOp)
      BY <2>2, ConcatEmptySeq
    <3>2. pending' = <<op>>
      BY <3>1, <1>2, <1>22
    <3> QED BY <3>1, <3>2
  <2>4. port' = <<>> /\ Len(port') = 0
    BY <1>2, <1>10, EmptySeq
  <2>5. TypeOK'
    BY <2>3, <1>1, <1>10, <1>12, <1>13, <1>14 DEF TypeOK
  <2>6. sender.post_send_signal /\ s.post_send_signal = sender.post_send_signal
    <3>1. sender.post_send_signal
      BY <1>1, <1>2, WhereItIs
    <3>2. CASE c.err = Success
      <4>1. ResumesAt(sender) + c.bytes <= QueueStart(sender)
        BY <1>3, <1>4, <1>7 DEF Accounts
      <4> QED BY <3>1, <3>2, <4>1, <1>1, <1>3, <1>5, AcknowledgeTiled
    <3>3. CASE c.err # Success
      BY <3>1, <3>3, <1>5
    <3> QED BY <3>2, <3>3
  <2>7. sender'.post_send_signal
    BY <2>6, <1>1, <1>8, <1>22, MoveQueueTiled DEF m
  <2>8. SingleOutstanding'
    BY <2>3, <2>4, <2>7, <1>11 DEF SingleOutstanding
  <2>9. BuffersAlive'
    <3> SUFFICES ASSUME NEW i \in 1 .. Len(pending'), NEW j \in 1 .. Len(pending'[i].bufs)
                 PROVE  \E k \in 1 .. Len(sender'.sending_packets) :
                          /\ sender'.sending_packets[k].from <= pending'[i].bufs[j].from
                          /\ pending'[i].bufs[j].to <= sender'.sending_packets[k].to
      BY DEF BuffersAlive
    <3>1. pending'[i].bufs = WsaBufs(m)
      BY <2>3
    <3>2. j \in 1 .. Len(m.sending_packets)
      BY <3>1, <2>1
    <3> QED BY <3>1, <3>2, <2>1, <1>14
  <2>10. PendingAccounts'
    <3>1. ResumesAt(m) = Len(wire) + 1 /\ ResumesAt(m) + 0 = Len(wire) + 1
      BY <1>7, <1>8, <1>9, <1>22
    <3>2. ResumesAt(sender)' + op.done = Len(wire') + 1
      BY <3>1, <1>10, <1>17
    <3>3. Tiles(op.bufs, Len(wire') + 1, QueueStart(sender)')
      BY <3>1, <2>1, <1>10, <1>15
    <3> QED BY <3>2, <3>3, <2>3 DEF PendingAccounts, SendAccounts
  <2> QED BY <2>5, <2>8, <2>9, <2>10, <1>18, <1>20 DEF IInv
<1> QED BY <1>13, <1>21, <1>22

(* The kernel sends the next byte: it is the one after the end of the wire, *)
(* because the pending WSASend holds what lies beyond the wire.            *)
LEMMA PutOnWireIInv == IInv /\ PutOnWire => IInv'
<1> SUFFICES ASSUME IInv, PutOnWire PROVE IInv'
  OBVIOUS
<1> DEFINE op == pending[1]
           b  == op.bufs[1]
           bufs == TakeFirst(op.bufs)
           op2 == [bufs |-> bufs, done |-> op.done + 1]
           q == QueueStart(sender)
<1>1. TypeOK /\ SingleOutstanding /\ submitted \in Nat /\ sender \in SenderState
  BY DEF IInv, TypeOK
<1>2. /\ Len(pending) = 1 /\ port = <<>> /\ sender.post_send_signal
      /\ \A w \in Workers : worker[w] = <<>>
      /\ Head(pending) = op /\ op \in SendOp
  BY <1>1, WhereItIs, ShortSeqs DEF PutOnWire, TypeOK
<1>3. op.bufs \in Seq(Buffer) /\ op.done \in Nat /\ op.bufs # <<>> /\ Head(op.bufs) = b
  <2>1. op.bufs \in Seq(Buffer) /\ op.done \in Nat
    BY <1>2 DEF SendOp
  <2>2. op.bufs # <<>>
    BY <1>2 DEF PutOnWire
  <2> QED BY <2>1, <2>2, ShortSeqs
<1>4. /\ 1 \in 1 .. Len(op.bufs) /\ Len(op.bufs) \in Nat /\ b \in Buffer
      /\ b.from \in Nat /\ b.to \in Nat /\ b.from < b.to
  <2>1. 1 \in 1 .. Len(op.bufs) /\ Len(op.bufs) \in Nat /\ b \in Buffer
    BY <1>3, ShortSeqs
  <2> QED BY <2>1 DEF Buffer
<1>5. /\ wire' = Append(wire, b.from)
      /\ pending' = [pending EXCEPT ![1] = op2]
      /\ UNCHANGED <<session_, sender, send_error_, calls, submitted, port,
                     worker, connected>>
      /\ connected
  BY <1>2, <1>3 DEF PutOnWire
<1>6. /\ ResumesAt(sender) + op.done = Len(wire) + 1
      /\ Tiles(op.bufs, Len(wire) + 1, q)
  BY <1>2 DEF IInv, PendingAccounts, SendAccounts
<1>7. /\ Len(wire) \in Nat /\ ResumesAt(sender) \in Nat /\ q \in Nat
      /\ wire \in Seq(Nat)
  BY <1>1, SenderTypes, LenProperties DEF TypeOK
<1> HIDE DEF op, b, bufs, q
<1>8. b.from = Len(wire) + 1 /\ b.to <= q
  BY <1>3, <1>4, <1>6 DEF Tiles, b
<1>9. /\ wire' \in Seq(Nat) /\ Len(wire') = Len(wire) + 1
      /\ \A i \in 1 .. Len(wire) : wire'[i] = wire[i]
      /\ wire'[Len(wire) + 1] = Len(wire) + 1
  BY <1>4, <1>5, <1>7, <1>8, AppendProperties
<1>10. /\ bufs \in Seq(Buffer)
       /\ Tiles(bufs, Len(wire) + 2, q)
       /\ \A j \in 1 .. Len(bufs) : \E k \in 1 .. Len(op.bufs) :
            op.bufs[k].from <= bufs[j].from /\ bufs[j].to <= op.bufs[k].to
  <2>1. Len(wire) + 1 \in Int /\ q \in Int /\ Len(wire) + 1 + 1 = Len(wire) + 2
    BY <1>7
  <2> QED BY <2>1, <1>3, <1>6, TilesTakeFirst DEF bufs
<1>11. op2 \in SendOp
  BY <1>3, <1>10 DEF SendOp
<1>12. /\ pending' \in Seq(SendOp) /\ Len(pending') = 1 /\ pending'[1] = op2
       /\ pending' # <<>>
  <2>1. pending \in Seq(SendOp) /\ 1 \in 1 .. Len(pending)
    BY <1>1, <1>2 DEF TypeOK
  <2>2. pending' \in Seq(SendOp) /\ Len(pending') = Len(pending) /\ pending'[1] = op2
    BY <2>1, <1>5, <1>11, ExceptSeq
  <2>3. Len(pending') = 1 /\ pending' \in Seq(SendOp)
    BY <2>2, <1>2
  <2>4. pending' # <<>>
    BY <2>3, EmptySeq
  <2> QED BY <2>2, <2>3, <2>4
<1> HIDE DEF op2
<1>13. ResumesAt(sender)' = ResumesAt(sender) /\ QueueStart(sender)' = q
       /\ SendingStart(sender)' = SendingStart(sender)
  BY <1>5 DEF ResumesAt, SendingStart, QueueStart, q
<1>14. TypeOK'
  BY <1>1, <1>5, <1>9, <1>12 DEF TypeOK
<1>15. SingleOutstanding'
  <2>1. port' = <<>> /\ Len(port') = 0 /\ sender'.post_send_signal
        /\ \A w \in Workers : worker'[w] = <<>>
    BY <1>2, <1>5, EmptySeq
  <2> QED BY <2>1, <1>12 DEF SingleOutstanding
<1>16. Tiled(sender)'
  BY <1>5, <1>13 DEF IInv, Tiled, q
<1>17. WireWithin(sender)'
  BY <1>4, <1>7, <1>8, <1>9, <1>13 DEF IInv, WireWithin, q
<1>18. Prefix'
  <2> SUFFICES ASSUME NEW i \in 1 .. Len(wire') PROVE wire'[i] = i
    BY DEF Prefix
  <2>1. i \in 1 .. Len(wire) \/ i = Len(wire) + 1
    BY <1>7, <1>9
  <2> QED BY <2>1, <1>9 DEF IInv, Prefix
<1>19. BuffersAlive'
  <2> SUFFICES ASSUME NEW i \in 1 .. Len(pending'), NEW j \in 1 .. Len(pending'[i].bufs)
               PROVE  \E l \in 1 .. Len(sender'.sending_packets) :
                        /\ sender'.sending_packets[l].from <= pending'[i].bufs[j].from
                        /\ pending'[i].bufs[j].to <= sender'.sending_packets[l].to
    BY DEF BuffersAlive
  <2>1. pending'[i].bufs = bufs /\ j \in 1 .. Len(bufs)
    BY <1>12 DEF op2
  <2>2. PICK k \in 1 .. Len(op.bufs) :
          op.bufs[k].from <= bufs[j].from /\ bufs[j].to <= op.bufs[k].to
    BY <2>1, <1>10
  <2>3. PICK l \in 1 .. Len(sender.sending_packets) :
          /\ sender.sending_packets[l].from <= op.bufs[k].from
          /\ op.bufs[k].to <= sender.sending_packets[l].to
    BY <1>2 DEF IInv, BuffersAlive, op
  <2>4. /\ sender.sending_packets[l].from \in Nat /\ sender.sending_packets[l].to \in Nat
        /\ op.bufs[k].from \in Nat /\ op.bufs[k].to \in Nat
        /\ bufs[j].from \in Nat /\ bufs[j].to \in Nat
    <3>1. \A x \in Buffer : x.from \in Nat /\ x.to \in Nat
      BY DEF Buffer
    <3>2. sender.sending_packets \in Seq(Buffer)
      BY <1>1, SenderTypes
    <3>3. sender.sending_packets[l] \in Buffer
      BY <3>2, ElementOfSeq
    <3>4. op.bufs[k] \in Buffer
      BY <1>3, ElementOfSeq
    <3>5. bufs[j] \in Buffer
      BY <2>1, <1>10, ElementOfSeq
    <3> QED BY <3>1, <3>3, <3>4, <3>5
  <2>5. /\ sender.sending_packets[l].from <= bufs[j].from
        /\ bufs[j].to <= sender.sending_packets[l].to
    <3>1. \A x, y, z \in Nat : x <= y /\ y <= z => x <= z
      OBVIOUS
    <3> QED BY <3>1, <2>2, <2>3, <2>4, Zenon
  <2>6. sender'.sending_packets = sender.sending_packets
    BY <1>5
  <2> QED BY <2>1, <2>5, <2>6
<1>20. PendingAccounts'
  <2>1. ResumesAt(sender)' + op2.done = Len(wire') + 1
    BY <1>3, <1>6, <1>7, <1>9, <1>13 DEF op2
  <2>2. Tiles(op2.bufs, Len(wire') + 1, QueueStart(sender)')
    <3>1. Len(wire') + 1 = Len(wire) + 2
      BY <1>7, <1>9
    <3> QED BY <3>1, <1>10, <1>13 DEF op2
  <2> QED BY <2>1, <2>2, <1>12 DEF PendingAccounts, SendAccounts
<1>21. PortAccounts' /\ WorkerAccounts' /\ IdleAccounts'
  <2>1. port' = <<>> /\ (\A w \in Workers : worker'[w] = <<>>) /\ Len(<<>>) = 0
        /\ sender'.post_send_signal
    BY <1>2, <1>5, EmptySeq
  <2> QED BY <2>1 DEF PortAccounts, WorkerAccounts, IdleAccounts
<1> QED BY <1>14, <1>15, <1>16, <1>17, <1>18, <1>19, <1>20, <1>21 DEF IInv

(* However a WSASend ends, its completion tells the sender what it sent. *)
LEMMA CompleteIInv ==
  ASSUME IInv, pending # <<>>, NEW c \in Completion, Complete(c), Accounts(c)
  PROVE  IInv'
<1>1. TypeOK /\ SingleOutstanding /\ port \in Seq(Completion) /\ pending \in Seq(SendOp)
  BY DEF IInv, TypeOK
<1>2. /\ Len(pending) = 1 /\ port = <<>> /\ sender.post_send_signal
      /\ \A w \in Workers : worker[w] = <<>>
  BY <1>1, WhereItIs
<1>3. /\ pending' = <<>> /\ pending' \in Seq(SendOp) /\ Len(pending') = 0
      /\ port' \in Seq(Completion) /\ port' # <<>> /\ Len(port') = 1 /\ port'[1] = c
  BY <1>1, <1>2, ShortSeqs, EmptySeq DEF Complete
<1>4. UNCHANGED <<session_, sender, send_error_, calls, submitted, worker, connected, wire>>
  BY DEF Complete
<1>5. TypeOK'
  BY <1>1, <1>3, <1>4 DEF TypeOK
<1>6. SingleOutstanding'
  BY <1>2, <1>3, <1>4 DEF SingleOutstanding
<1>7. BuffersAlive' /\ PendingAccounts'
  BY <1>3 DEF BuffersAlive, PendingAccounts
<1>8. WorkerAccounts'
  <2>1. \A w \in Workers : worker'[w] = <<>>
    BY <1>2, <1>4
  <2> QED BY <2>1, EmptySeq DEF WorkerAccounts
<1>9. PortAccounts'
  BY <1>3, <1>4, FrameIInv DEF PortAccounts, Accounts
<1> QED BY <1>4, <1>5, <1>6, <1>7, <1>8, <1>9, FrameIInv DEF IInv

-----------------------------------------------------------------------------
(* Every step keeps the inductive invariant. *)
LEMMA StepIInv == IInv /\ [Next]_vars => IInv'
<1> SUFFICES ASSUME IInv, [Next]_vars PROVE IInv'
  OBVIOUS
<1>1. TypeOK /\ pending \in Seq(SendOp) /\ sender \in SenderState /\ submitted \in Nat
      /\ Len(wire) \in Nat
  BY LenProperties DEF IInv, TypeOK
<1>2. pending # <<>> => /\ Head(pending) = pending[1] /\ Head(pending).done \in Nat
                        /\ SendAccounts(Head(pending))
  <2> HAVE pending # <<>>
  <2>1. Head(pending) = pending[1] /\ Head(pending) \in SendOp /\ 1 \in 1 .. Len(pending)
    BY <1>1, ShortSeqs
  <2>2. SendAccounts(pending[1])
    BY <2>1 DEF IInv, PendingAccounts
  <2> QED BY <2>1, <2>2 DEF SendOp
<1>3. Success \in Errors /\ Transient \in Errors /\ Fatal \in Errors
      /\ Success # Transient /\ Success # Fatal
  BY DEF Errors, Success, Transient, Fatal
<1>4. CASE OnAccept
  BY <1>4, OnAcceptIInv
<1>5. ASSUME NEW n \in Payloads, SendAsync(n) PROVE IInv'
  BY <1>5, SendAsyncIInv
<1>6. ASSUME NEW w \in Workers, Dequeue(w) PROVE IInv'
  BY <1>6, DequeueIInv
<1>7. ASSUME NEW w \in Workers, OnSend(w) PROVE IInv'
  BY <1>7, OnSendIInv
<1>8. CASE PutOnWire
  BY <1>8, PutOnWireIInv
<1>9. CASE SendCompletes
  <2> DEFINE c == [err |-> Success, bytes |-> Head(pending).done]
  <2>1. pending # <<>> /\ Complete(c)
    BY <1>9 DEF SendCompletes
  <2>2. c \in Completion
    BY <2>1, <1>2, <1>3 DEF Completion
  <2>3. Accounts(c)
    <3>1. ResumesAt(sender) \in Nat
      BY <1>1, SenderTypes
    <3>2. ResumesAt(sender) + Head(pending).done = Len(wire) + 1
      BY <2>1, <1>2 DEF SendAccounts
    <3> QED BY <3>1, <3>2, <2>1, <1>1, <1>2 DEF Accounts
  <2> QED BY <2>1, <2>2, <2>3, CompleteIInv
<1>10. CASE SendFails
  <2> DEFINE c == [err |-> Transient, bytes |-> 0]
  <2>1. pending # <<>> /\ Complete(c) /\ Head(pending).done = 0
    BY <1>10 DEF SendFails
  <2>2. c \in Completion
    BY <1>3 DEF Completion
  <2>3. Accounts(c)
    <3>1. ResumesAt(sender) \in Nat
      BY <1>1, SenderTypes
    <3>2. ResumesAt(sender) + 0 = Len(wire) + 1
      BY <2>1, <1>2 DEF SendAccounts
    <3> QED BY <3>1, <3>2, <1>1 DEF Accounts
  <2> QED BY <2>1, <2>2, <2>3, CompleteIInv
<1>11. CASE SendAborts
  <2> DEFINE c == [err |-> Fatal, bytes |-> 0]
  <2>1. pending # <<>> /\ Complete(c) /\ ~connected
    BY <1>11 DEF SendAborts
  <2>2. c \in Completion
    BY <1>3 DEF Completion
  <2>3. Accounts(c)
    <3>1. ResumesAt(sender) \in Nat /\ ResumesAt(sender) <= Len(wire) + 1
      BY <1>1, SenderTypes DEF IInv, WireWithin
    <3> QED BY <3>1, <2>1, <1>1 DEF Accounts
  <2> QED BY <2>1, <2>2, <2>3, CompleteIInv
<1>12. CASE Reset
  BY <1>12, ResetIInv
<1>13. CASE UNCHANGED vars
  <2>1. UNCHANGED <<session_, sender, send_error_, calls, submitted, pending, port,
                    worker, connected, wire>>
    BY <1>13 DEF vars
  <2>2. TypeOK' /\ SingleOutstanding'
    BY <2>1 DEF IInv, TypeOK, SingleOutstanding
  <2>3. BuffersAlive'
    BY <2>1 DEF IInv, BuffersAlive
  <2>4. PendingAccounts'
    BY <2>1, FrameIInv DEF IInv, PendingAccounts, SendAccounts
  <2>5. PortAccounts'
    BY <2>1, FrameIInv DEF IInv, PortAccounts, Accounts
  <2>6. WorkerAccounts'
    BY <2>1, FrameIInv DEF IInv, WorkerAccounts, Accounts
  <2> QED BY <2>1, <2>2, <2>3, <2>4, <2>5, <2>6, FrameIInv DEF IInv
<1> QED BY <1>4, <1>5, <1>6, <1>7, <1>8, <1>9, <1>10, <1>11, <1>12, <1>13
        DEF Next, Kernel

(* The inductive invariant holds in every reachable state: the sender's    *)
(* lists, the kernel's WSASend and every completion agree on where the     *)
(* wire ends.                                                              *)
THEOREM InductiveInvariant == Spec => []IInv
<1>1. Init => IInv
  BY InitIInv
<1>2. IInv /\ [Next]_vars => IInv'
  BY StepIInv
<1> QED BY <1>1, <1>2, PTL DEF Spec

(* The variables keep their types. *)
THEOREM TypeCorrect == Spec => []TypeOK
<1>1. IInv => TypeOK
  BY DEF IInv
<1> QED BY <1>1, InductiveInvariant, PTL

(* The sender's one OVERLAPPED is never in two places: no second signal is *)
(* posted, and no second WSASend is started, while one is on its way.      *)
THEOREM OneOverlappedInFlight == Spec => []SingleOutstanding
<1>1. IInv => SingleOutstanding
  BY DEF IInv
<1> QED BY <1>1, InductiveInvariant, PTL

(* No byte is lost, repeated or reordered, whatever sends fail, stop short *)
(* or are tried again.                                                     *)
THEOREM BytesInOrder == Spec => []InOrder
<1>1. IInv => InOrder
  <2> SUFFICES ASSUME IInv PROVE InOrder
    OBVIOUS
  <2>1. submitted \in Nat /\ sender \in SenderState /\ Len(wire) \in Nat
    BY LenProperties DEF IInv, TypeOK
  <2>2. QueueStart(sender) \in Nat /\ QueueStart(sender) <= submitted + 1
    BY <2>1, SenderTypes DEF IInv, Tiled, Tiles
  <2>3. Len(wire) + 1 <= QueueStart(sender)
    BY DEF IInv, WireWithin
  <2> QED BY <2>1, <2>2, <2>3 DEF IInv, Prefix, InOrder
<1> QED BY <1>1, InductiveInvariant, PTL

(* OnSend never frees a buffer that a WSASend in progress still reads. *)
THEOREM NoBufferFreedEarly == Spec => []BuffersAlive
<1>1. IInv => BuffersAlive
  BY DEF IInv
<1> QED BY <1>1, InductiveInvariant, PTL

(* After a short, failed or complete send the sender would go on exactly   *)
(* where the wire ends.                                                    *)
THEOREM ResumesWithoutGap == Spec => []ResumesWhereWireEnds
<1>1. IInv => ResumesWhereWireEnds
  BY DEF IInv, WireWithin, IdleAccounts, ResumesWhereWireEnds
<1> QED BY <1>1, InductiveInvariant, PTL

-----------------------------------------------------------------------------
(* A call of SendAsync takes a packet of at least HeaderLen bytes. *)
LEMMA SubmitStep ==
  ASSUME IInv, NEW n \in Payloads, SendAsync(n)
  PROVE  Stream!Submit
<1>1. submitted \in Nat
  BY DEF IInv, TypeOK
<1>2. submitted' = submitted + HeaderLen + n /\ wire' = wire
  BY DEF SendAsync
<1>3. submitted' > submitted
  BY <1>1, <1>2, ConstantsAssumption
<1> QED BY <1>2, <1>3 DEF Stream!Submit

(* What the kernel puts on the wire is the next byte of the stream. *)
LEMMA TransmitStep == IInv /\ PutOnWire => Stream!Transmit
<1> SUFFICES ASSUME IInv, PutOnWire PROVE Stream!Transmit
  OBVIOUS
<1>1. /\ submitted \in Nat /\ sender \in SenderState /\ Len(wire) \in Nat
      /\ wire \in Seq(Nat) /\ pending \in Seq(SendOp) /\ pending # <<>>
  BY LenProperties DEF IInv, TypeOK, PutOnWire
<1>2. Head(pending) = pending[1] /\ pending[1] \in SendOp /\ 1 \in 1 .. Len(pending)
  BY <1>1, ShortSeqs
<1>3. pending[1].bufs \in Seq(Buffer) /\ pending[1].bufs # <<>>
  BY <1>2 DEF SendOp, PutOnWire
<1>4. Tiles(pending[1].bufs, Len(wire) + 1, QueueStart(sender))
  BY <1>2 DEF IInv, PendingAccounts, SendAccounts
<1>5. 1 \in 1 .. Len(pending[1].bufs) /\ pending[1].bufs[1] \in Buffer
  BY <1>3, ShortSeqs
<1>6. /\ pending[1].bufs[1].from = Len(wire) + 1
      /\ pending[1].bufs[1].to <= QueueStart(sender)
  BY <1>3, <1>4, <1>5 DEF Tiles
<1>7. /\ pending[1].bufs[1].from \in Nat /\ pending[1].bufs[1].to \in Nat
      /\ pending[1].bufs[1].from < pending[1].bufs[1].to
  BY <1>5 DEF Buffer
<1>8. QueueStart(sender) \in Nat /\ QueueStart(sender) <= submitted + 1
  BY <1>1, SenderTypes DEF IInv, Tiled, Tiles
<1>9. Len(wire) < submitted
  BY <1>1, <1>6, <1>7, <1>8
<1>10. wire' = Append(wire, Len(wire) + 1) /\ submitted' = submitted
  BY <1>2, <1>6 DEF PutOnWire
<1>11. Append(wire, Len(wire) + 1) = wire \o [i \in 1 .. 1 |-> Len(wire) + i]
  <2>1. [i \in 1 .. 1 |-> Len(wire) + i] = <<Len(wire) + 1>>
    OBVIOUS
  <2> QED BY <2>1, <1>1, AppendIsConcat
<1>12. Len(wire') = Len(wire) + 1
  BY <1>1, <1>10, AppendProperties
<1>13. Len(wire') - Len(wire) = 1 /\ Len(wire') \in Len(wire) + 1 .. submitted
  BY <1>1, <1>9, <1>12
<1> QED BY <1>10, <1>11, <1>13 DEF Stream!Transmit

(* SessionSender implements the stream of ByteStream: SendAsync is Submit, *)
(* the kernel's sending of a byte is Transmit, everything else stutters.   *)
THEOREM ImplementsStream == Spec => StreamSpec
<1>1. Init => Stream!Init
  BY DEF Init, Stream!Init
<1>2. IInv /\ [Next]_vars => [Stream!Next]_Stream!vars
  <2> SUFFICES ASSUME IInv, [Next]_vars PROVE [Stream!Next]_Stream!vars
    OBVIOUS
  <2>1. ASSUME NEW n \in Payloads, SendAsync(n) PROVE Stream!Next
    BY <2>1, SubmitStep DEF Stream!Next
  <2>2. CASE PutOnWire
    BY <2>2, TransmitStep DEF Stream!Next
  <2>3. CASE UNCHANGED <<submitted, wire>>
    BY <2>3 DEF Stream!vars
  <2>4. CASE \/ OnAccept \/ \E w \in Workers : Dequeue(w) \/ OnSend(w)
             \/ SendCompletes \/ SendFails \/ SendAborts \/ Reset \/ UNCHANGED vars
    BY <2>3, <2>4 DEF OnAccept, Dequeue, OnSend, SendCompletes, SendFails, SendAborts,
       Complete, Reset, vars
  <2> QED BY <2>1, <2>2, <2>4 DEF Next, Kernel
<1> QED BY <1>1, <1>2, InductiveInvariant, PTL DEF Spec, StreamSpec, Stream!Spec
=============================================================================
