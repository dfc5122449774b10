------------------------ MODULE PacketReceiverProofs -------------------------
(***************************************************************************)
(* First what every proof about lengths needs: induction over the natural  *)
(* numbers, stated with a set in place of a predicate; what follows from it*)
(* for functions defined by recursion; and what the provers have to be told*)
(* of division.                                                            *)
(* Then lemmas about the operators of PacketReceiver, for any length of the*)
(* header, any number of values of a byte and any size of buffer_: what    *)
(* the number in a header is, what Append_ leaves in buffer_, and what     *)
(* OnReceive makes of the next bytes of a packet.                          *)
(***************************************************************************)
EXTENDS PacketReceiver, SequenceTheorems, WellFoundedInduction, TLAPS

-----------------------------------------------------------------------------
(* Induction, and functions defined by recursion. *)

(* The order of the natural numbers is a well-founded relation. *)
LEMMA LessIsWellFounded ==
  \E R : IsWellFoundedOn(R, Nat) /\ \A x, y \in Nat : <<x, y>> \in R <=> x < y
<1> DEFINE R == OpToRel(<, Nat)
<1>1. IsWellFoundedOn(R, Nat)
  BY NatLessThanWellFounded
<1>2. \A x, y \in Nat : <<x, y>> \in R <=> x < y
  BY DEF OpToRel
<1> HIDE DEF R
<1> QED BY <1>1, <1>2

(* A set of natural numbers that is not empty has a least element. *)
LEMMA LeastElement ==
  ASSUME NEW S, S \subseteq Nat, S # {}
  PROVE  \E m \in S : \A n \in S : m <= n
<1>1. PICK R : IsWellFoundedOn(R, Nat) /\ \A x, y \in Nat : <<x, y>> \in R <=> x < y
  BY LessIsWellFounded
<1>2. \E x \in S : \A y \in S : <<y, x>> \notin R
  <2>1. IsWellFoundedOn(R, Nat)
    BY <1>1
  <2>2. S \subseteq Nat /\ S # {}
    OBVIOUS
  <2> QED BY <2>1, <2>2, WFMin, Zenon
<1>3. \A x, y \in S : ~(x < y) => y <= x
  OBVIOUS
<1> QED BY <1>1, <1>2, <1>3

(* Induction: a set that holds 0, and n + 1 when it holds n, holds them    *)
(* all.                                                                    *)
LEMMA Induction ==
  ASSUME NEW T, 0 \in T, \A n \in Nat : n \in T => n + 1 \in T
  PROVE  \A n \in Nat : n \in T
<1> SUFFICES ASSUME Nat \ T # {} PROVE FALSE
  OBVIOUS
<1>1. PICK m \in Nat \ T : \A n \in Nat \ T : m <= n
  <2>1. Nat \ T \subseteq Nat
    OBVIOUS
  <2> QED BY <2>1, LeastElement
<1>2. m - 1 \in Nat /\ m - 1 + 1 = m
  BY <1>1
<1>3. m - 1 \in T
  <2>1. ~(m <= m - 1)
    BY <1>1
  <2> QED BY <2>1, <1>1, <1>2
<1> QED BY <1>1, <1>2, <1>3

(* g starts from a and goes on, up to n, by step. *)
Recursion(g, S, a, n, step) ==
  /\ g \in [0 .. n -> S]
  /\ g = [i \in 0 .. n |-> IF i = 0 THEN a ELSE step[i][g[i - 1]]]

(* There is such a g for any a and any step. *)
LEMMA RecursionExists ==
  ASSUME NEW S, NEW a \in S, NEW n \in Nat, NEW step \in [1 .. n -> [S -> S]]
  PROVE  \E g : Recursion(g, S, a, n, step)
<1> DEFINE Solves(g, m) == \A i \in 0 .. m : g[i] = IF i = 0 THEN a ELSE step[i][g[i - 1]]
           T == {m \in Nat : m <= n => \E g \in [0 .. m -> S] : Solves(g, m)}
<1>1. 0 \in T
  <2> DEFINE g == [i \in 0 .. 0 |-> a]
  <2>1. g \in [0 .. 0 -> S] /\ Solves(g, 0)
    OBVIOUS
  <2> QED BY <2>1
<1>2. ASSUME NEW m \in Nat, m \in T PROVE m + 1 \in T
  <2> SUFFICES ASSUME m + 1 <= n PROVE \E g \in [0 .. m + 1 -> S] : Solves(g, m + 1)
    OBVIOUS
  <2>1. PICK g \in [0 .. m -> S] : Solves(g, m)
    BY <1>2
  <2> DEFINE h == [i \in 0 .. m + 1 |-> IF i = m + 1 THEN step[m + 1][g[m]] ELSE g[i]]
  <2>2. step[m + 1][g[m]] \in S
    <3>1. m \in 0 .. m /\ m + 1 \in 1 .. n
      OBVIOUS
    <3>2. g[m] \in S
      BY <3>1
    <3> QED BY <3>1, <3>2
  <2>3. h \in [0 .. m + 1 -> S]
    BY <2>2
  <2>4. ASSUME NEW i \in 0 .. m + 1
        PROVE  h[i] = IF i = 0 THEN a ELSE step[i][h[i - 1]]
    <3>1. CASE i = m + 1
      <4>1. h[i] = step[i][g[m]] /\ h[m] = g[m] /\ i - 1 = m /\ i # 0
        BY <3>1
      <4> QED BY <4>1
    <3>2. CASE i # m + 1
      <4>1. i \in 0 .. m /\ h[i] = g[i]
        BY <3>2
      <4>2. CASE i = 0
        BY <4>1, <4>2, <2>1
      <4>3. CASE i # 0
        <5>1. i - 1 \in 0 .. m /\ h[i - 1] = g[i - 1]
          BY <4>1, <4>3
        <5> QED BY <4>1, <4>3, <5>1, <2>1
      <4> QED BY <4>2, <4>3
    <3> QED BY <3>1, <3>2
  <2> QED BY <2>3, <2>4
<1> HIDE DEF T
<1>3. n \in T
  BY <1>1, <1>2, Induction
<1>4. PICK g \in [0 .. n -> S] : Solves(g, n)
  BY <1>3 DEF T
<1>5. g = [i \in 0 .. n |-> IF i = 0 THEN a ELSE step[i][g[i - 1]]]
  BY <1>4
<1> QED BY <1>5 DEF Recursion

(* g holds the sums of the first i of n numbers d.                          *)
Sums(g, n, d) ==
  /\ g \in [0 .. n -> Nat]
  /\ g = [i \in 0 .. n |-> IF i = 0 THEN 0 ELSE g[i - 1] + d[i]]

(* There is such a g for any numbers. *)
LEMMA SumsExist ==
  ASSUME NEW n \in Nat, NEW d \in [1 .. n -> Nat]
  PROVE  \E g : Sums(g, n, d)
<1> DEFINE step == [i \in 1 .. n |-> [x \in Nat |-> x + d[i]]]
<1>1. \E g : Recursion(g, Nat, 0, n, step)
  <2>1. step \in [1 .. n -> [Nat -> Nat]] /\ 0 \in Nat
    OBVIOUS
  <2> HIDE DEF step
  <2> QED BY <2>1, RecursionExists
<1>2. PICK g : Recursion(g, Nat, 0, n, step)
  BY <1>1
<1>3. \A i \in 0 .. n : i # 0 => i \in 1 .. n /\ i - 1 \in 0 .. n
  OBVIOUS
<1>4. g \in [0 .. n -> Nat] /\ g = [i \in 0 .. n |-> IF i = 0 THEN 0 ELSE step[i][g[i - 1]]]
  BY <1>2 DEF Recursion
<1>6. \A i \in 0 .. n : i # 0 => step[i][g[i - 1]] = g[i - 1] + d[i]
  BY <1>3, <1>4
<1> HIDE DEF step
<1>5. g = [i \in 0 .. n |-> IF i = 0 THEN 0 ELSE g[i - 1] + d[i]]
  BY <1>4, <1>6
<1> QED BY <1>4, <1>5 DEF Sums

-----------------------------------------------------------------------------
(* The quotient and the remainder. *)
LEMMA Division ==
  ASSUME NEW n \in Nat, NEW w \in Nat \ {0}
  PROVE  /\ n \div w \in Nat
         /\ n % w \in 0 .. w - 1
         /\ n = (n \div w) * w + (n % w)
<1>1. n \div w \in Nat
  OBVIOUS
<1>2. n % w \in 0 .. w - 1
  OBVIOUS
<1>3. n = (n \div w) * w + (n % w)
  OBVIOUS
<1> QED BY <1>1, <1>2, <1>3

(* There is only one of each. *)
LEMMA RemainderUnique ==
  ASSUME NEW n \in Nat, NEW w \in Nat \ {0}, NEW q \in Nat, NEW r \in 0 .. w - 1,
         n = q * w + r
  PROVE  n % w = r
<1> DEFINE d == n \div w
           s == n % w
<1>1. d * w + s = q * w + r /\ d \in Nat /\ s \in 0 .. w - 1
  BY Division
<1> HIDE DEF d, s
<1>2. d * w \in Int /\ q * w \in Int
  BY <1>1
<1>3. ~(d < q)
  <2> SUFFICES ASSUME d < q PROVE FALSE
    OBVIOUS
  <2>1. (d + 1) * w <= q * w /\ (d + 1) * w = d * w + w
    BY <1>1
  <2> QED BY <1>1, <1>2, <2>1
<1>4. ~(q < d)
  <2> SUFFICES ASSUME q < d PROVE FALSE
    OBVIOUS
  <2>1. (q + 1) * w <= d * w /\ (q + 1) * w = q * w + w
    BY <1>1
  <2> QED BY <1>1, <1>2, <2>1
<1>5. d = q
  BY <1>1, <1>3, <1>4
<1>6. s = r
  BY <1>1, <1>2, <1>5
<1> QED BY <1>6 DEF s

(* A digit more: the remainder by b * w is the remainder by w and the next *)
(* digit to the base b.                                                    *)
LEMMA NextDigit ==
  ASSUME NEW n \in Nat, NEW w \in Nat \ {0}, NEW b \in Nat \ {0}
  PROVE  n % (b * w) = (n % w) + ((n \div w) % b) * w
<1> DEFINE q == n \div w
           r == n % w
           p == q \div b
           d == q % b
<1>1. q \in Nat /\ r \in 0 .. w - 1 /\ n = q * w + r
  BY Division
<1>2. p \in Nat /\ d \in 0 .. b - 1 /\ q = p * b + d
  BY <1>1, Division
<1> SUFFICES n % (b * w) = r + d * w
  OBVIOUS
<1> HIDE DEF q, r, p, d
<1>3. n = p * (b * w) + (r + d * w)
  <2>1. q * w = p * (b * w) + d * w
    BY <1>1, <1>2
  <2> QED BY <1>1, <1>2, <2>1
<1>4. b * w \in Nat \ {0}
  OBVIOUS
<1>5. r + d * w \in 0 .. b * w - 1
  <2>1. d * w <= (b - 1) * w /\ (b - 1) * w = b * w - w /\ d * w \in Nat
    BY <1>2
  <2> QED BY <1>1, <1>4, <2>1
<1> QED BY <1>2, <1>3, <1>4, <1>5, RemainderUnique

(* A number below w is its own remainder. *)
LEMMA SmallRemainder ==
  ASSUME NEW w \in Nat \ {0}, NEW n \in 0 .. w - 1
  PROVE  n % w = n /\ (n + w) % w = n
<1>1. n = 0 * w + n /\ n + w = 1 * w + n /\ n \in Nat /\ n + w \in Nat
  OBVIOUS
<1>2. n % w = n
  BY <1>1, RemainderUnique
<1>3. (n + w) % w = n
  BY <1>1, RemainderUnique
<1> QED BY <1>2, <1>3

-----------------------------------------------------------------------------
(* The header. *)

(* The weights are the powers of Base. *)
LEMMA Weights ==
  /\ Weight \in [0 .. kPacketLengthSize -> Nat \ {0}]
  /\ Weight[0] = 1
  /\ \A i \in 1 .. kPacketLengthSize : Weight[i] = Base * Weight[i - 1]
<1> DEFINE K == kPacketLengthSize
           S == Nat \ {0}
           step == [i \in 1 .. K |-> [x \in S |-> Base * x]]
           Solves(g) == g = [i \in 0 .. K |-> IF i = 0 THEN 1 ELSE Base * g[i - 1]]
<1>1. K \in Nat /\ Base \in Nat \ {0}
  BY PacketAssumption
<1>2. \E g : Recursion(g, S, 1, K, step)
  <2>1. step \in [1 .. K -> [S -> S]] /\ 1 \in S
    BY <1>1
  <2> HIDE DEF step, S
  <2> QED BY <2>1, <1>1, RecursionExists
<1>3. \E g \in [0 .. K -> S] : Solves(g)
  <2>1. PICK g : Recursion(g, S, 1, K, step)
    BY <1>2
  <2>2. \A i \in 0 .. K : i # 0 => i \in 1 .. K /\ i - 1 \in 0 .. K
    BY <1>1
  <2>3. g \in [0 .. K -> S] /\ g = [i \in 0 .. K |-> IF i = 0 THEN 1 ELSE step[i][g[i - 1]]]
    BY <2>1 DEF Recursion
  <2>4. \A i \in 0 .. K : i # 0 => step[i][g[i - 1]] = Base * g[i - 1]
    BY <2>2, <2>3
  <2> HIDE DEF step
  <2>5. Solves(g)
    BY <2>3, <2>4
  <2> HIDE DEF Solves
  <2> QED BY <2>3, <2>5
<1>4. Weight = CHOOSE g : Solves(g)
  BY DEF Weight
<1>5. Solves(Weight)
  <2> HIDE DEF Solves
  <2> QED BY <1>3, <1>4
<1>6. Weight[0] = 1 /\ \A i \in 1 .. K : Weight[i] = Base * Weight[i - 1]
  BY <1>1, <1>5
<1> DEFINE T == {i \in Nat : i <= K => Weight[i] \in S}
<1>7. \A i \in Nat : i \in T
  <2>1. 0 \in T
    BY <1>6
  <2>2. \A i \in Nat : i \in T => i + 1 \in T
    <3> SUFFICES ASSUME NEW i \in Nat, i + 1 <= K, Weight[i] \in S PROVE Weight[i + 1] \in S
      BY <1>1
    <3>1. i + 1 \in 1 .. K /\ (i + 1) - 1 = i
      BY <1>1
    <3>2. Weight[i + 1] = Base * Weight[i]
      BY <3>1, <1>6
    <3> QED BY <3>2, <1>1
  <2> HIDE DEF T
  <2> QED BY <2>1, <2>2, Induction
<1>8. \A i \in 0 .. K : Weight[i] \in S
  BY <1>1, <1>7
<1> QED BY <1>5, <1>6, <1>8

(* There are at least two values of length_. *)
LEMMA UINT32Type == UINT32 \in Nat \ {0, 1}
<1> DEFINE K == kPacketLengthSize
<1>1. K \in 1 .. K /\ K - 1 \in 0 .. K /\ K \in 0 .. K /\ Base \in Nat \ {0, 1}
  BY PacketAssumption
<1>2. UINT32 = Base * Weight[K - 1] /\ Weight[K - 1] \in Nat \ {0}
  BY <1>1, Weights DEF UINT32
<1>3. \A b, w \in Nat : b >= 2 /\ w >= 1 => b * w \in Nat /\ b * w >= b
  <2> SUFFICES ASSUME NEW b \in Nat, NEW w \in Nat, b >= 2, w >= 1
               PROVE  b * w \in Nat /\ b * w >= b
    OBVIOUS
  <2>1. b * w = b * (w - 1) + b /\ b * (w - 1) \in Nat
    OBVIOUS
  <2> QED BY <2>1
<1>4. Base >= 2 /\ Weight[K - 1] >= 1 /\ Base \in Nat /\ Weight[K - 1] \in Nat
  BY <1>1, <1>2
<1>5. UINT32 \in Nat /\ UINT32 >= Base
  BY <1>2, <1>3, <1>4
<1> QED BY <1>4, <1>5

(* HeaderOf is the sum of the digits, each with its weight: there is a     *)
(* function of its partial sums.                                           *)
LEMMA PartialSums ==
  ASSUME NEW buffer \in Seq(Byte), Len(buffer) >= kPacketLengthSize
  PROVE  \E number \in [0 .. kPacketLengthSize -> Nat] :
           /\ number[0] = 0
           /\ \A i \in 1 .. kPacketLengthSize :
                number[i] = number[i - 1] + buffer[i].value * Weight[i - 1]
           /\ HeaderOf(buffer) = number[kPacketLengthSize]
<1> DEFINE K == kPacketLengthSize
           d == [i \in 1 .. K |-> buffer[i].value * Weight[i - 1]]
           Solves(g) == g = [i \in 0 .. K |-> IF i = 0 THEN 0
                                              ELSE g[i - 1] + buffer[i].value * Weight[i - 1]]
<1>1. K \in Nat
  BY PacketAssumption
<1>2. \A i \in 1 .. K : buffer[i].value * Weight[i - 1] \in Nat
  <2> TAKE i \in 1 .. K
  <2>1. i \in 1 .. Len(buffer) /\ i - 1 \in 0 .. K
    BY <1>1, LenProperties
  <2>2. buffer[i].value \in Nat
    <3>1. buffer[i] \in Byte
      BY <2>1, ElementOfSeq
    <3>2. \A x \in 0 .. Base - 1 : x \in Nat
      BY PacketAssumption
    <3> QED BY <3>1, <3>2 DEF Byte
  <2>3. Weight[i - 1] \in Nat
    BY <2>1, Weights
  <2> QED BY <2>2, <2>3
<1>3. \E g \in [0 .. K -> Nat] : Solves(g)
  <2>1. d \in [1 .. K -> Nat]
    BY <1>2
  <2>2. \A i \in 0 .. K : i # 0 => i \in 1 .. K
    BY <1>1
  <2>3. \A i \in 0 .. K : i # 0 => d[i] = buffer[i].value * Weight[i - 1]
    BY <2>2
  <2> HIDE DEF d
  <2>4. \E g : Sums(g, K, d)
    BY <2>1, <1>1, SumsExist
  <2>5. PICK g : Sums(g, K, d)
    BY <2>4
  <2>6. g \in [0 .. K -> Nat] /\ g = [i \in 0 .. K |-> IF i = 0 THEN 0 ELSE g[i - 1] + d[i]]
    BY <2>5 DEF Sums
  <2>7. Solves(g)
    BY <2>3, <2>6
  <2> HIDE DEF Solves
  <2> QED BY <2>6, <2>7
<1> DEFINE number == CHOOSE g : Solves(g)
<1>5. HeaderOf(buffer) = number[K]
  BY DEF HeaderOf
<1>6. Solves(number)
  <2> HIDE DEF Solves
  <2> QED BY <1>3
<1> HIDE DEF number
<1>7. number[0] = 0 /\ \A i \in 1 .. K : number[i] = number[i - 1] + buffer[i].value * Weight[i - 1]
  <2>1. \A i \in 1 .. K : i \in 0 .. K /\ i # 0
    BY <1>1
  <2>2. 0 \in 0 .. K
    BY <1>1
  <2> QED BY <2>1, <2>2, <1>6, Zenon
<1> DEFINE T == {i \in Nat : i <= K => number[i] \in Nat}
<1>8. \A i \in Nat : i \in T
  <2>1. 0 \in T
    BY <1>7
  <2>2. \A i \in Nat : i \in T => i + 1 \in T
    <3> SUFFICES ASSUME NEW i \in Nat, i + 1 <= K, number[i] \in Nat PROVE number[i + 1] \in Nat
      BY <1>1
    <3>1. i + 1 \in 1 .. K /\ (i + 1) - 1 = i
      BY <1>1
    <3>2. /\ number[i + 1] = number[i] + buffer[i + 1].value * Weight[(i + 1) - 1]
          /\ buffer[i + 1].value * Weight[(i + 1) - 1] \in Nat
      BY <3>1, <1>2, <1>7
    <3> QED BY <3>2
  <2> HIDE DEF T
  <2> QED BY <2>1, <2>2, Induction
<1>9. number \in [0 .. K -> Nat]
  BY <1>1, <1>6, <1>8
<1> QED BY <1>5, <1>7, <1>9

(* The number in a header fits length_. *)
LEMMA HeaderRange ==
  ASSUME NEW buffer \in Seq(Byte), Len(buffer) >= kPacketLengthSize
  PROVE  HeaderOf(buffer) \in 0 .. UINT32 - 1
<1> DEFINE K == kPacketLengthSize
<1>1. PICK number \in [0 .. K -> Nat] :
        /\ number[0] = 0
        /\ \A i \in 1 .. K : number[i] = number[i - 1] + buffer[i].value * Weight[i - 1]
        /\ HeaderOf(buffer) = number[K]
  BY PartialSums
<1>2. K \in Nat /\ Base \in Nat \ {0}
  BY PacketAssumption
<1> DEFINE T == {i \in Nat : i <= K => number[i] <= Weight[i] - 1}
<1>3. \A i \in Nat : i \in T
  <2>1. 0 \in T
    BY <1>1, Weights
  <2>2. \A i \in Nat : i \in T => i + 1 \in T
    <3> SUFFICES ASSUME NEW i \in Nat, i + 1 <= K, number[i] <= Weight[i] - 1
                 PROVE  number[i + 1] <= Weight[i + 1] - 1
      BY <1>2
    <3> DEFINE v == buffer[i + 1].value
               w == Weight[i]
    <3>1. i + 1 \in 1 .. K /\ (i + 1) - 1 = i /\ i \in 0 .. K /\ i + 1 \in 1 .. Len(buffer)
      BY <1>2, LenProperties
    <3>2. v \in 0 .. Base - 1
      <4>1. buffer[i + 1] \in Byte
        BY <3>1, ElementOfSeq
      <4> QED BY <4>1 DEF Byte
    <3>3. w \in Nat \ {0} /\ Weight[i + 1] = Base * w
      BY <3>1, Weights
    <3>4. number[i + 1] = number[i] + v * w /\ number[i] \in Nat
      BY <3>1, <1>1
    <3> HIDE DEF v, w
    <3>5. v * w <= (Base - 1) * w /\ (Base - 1) * w = Base * w - w /\ v * w \in Nat
          /\ Base * w \in Nat
      BY <3>2, <3>3, <1>2
    <3>6. number[i] <= w - 1
      BY DEF w
    <3> QED BY <3>3, <3>4, <3>5, <3>6
  <2> HIDE DEF T
  <2> QED BY <2>1, <2>2, Induction
<1>4. number[K] <= Weight[K] - 1 /\ number[K] \in Nat /\ Weight[K] \in Nat
  BY <1>1, <1>2, <1>3, Weights
<1> QED BY <1>1, <1>4 DEF UINT32

(* A header that holds the digits of a length is read as that length.      *)
LEMMA HeaderRoundTrip ==
  ASSUME NEW buffer \in Seq(Byte), Len(buffer) >= kPacketLengthSize,
         NEW n \in 0 .. UINT32 - 1,
         \A i \in 1 .. kPacketLengthSize : buffer[i].value = (n \div Weight[i - 1]) % Base
  PROVE  HeaderOf(buffer) = n
<1> DEFINE K == kPacketLengthSize
<1>1. PICK number \in [0 .. K -> Nat] :
        /\ number[0] = 0
        /\ \A i \in 1 .. K : number[i] = number[i - 1] + buffer[i].value * Weight[i - 1]
        /\ HeaderOf(buffer) = number[K]
  BY PartialSums
<1>2. K \in Nat /\ Base \in Nat \ {0} /\ n \in Nat
  BY PacketAssumption, UINT32Type
<1> DEFINE T == {i \in Nat : i <= K => number[i] = n % Weight[i]}
<1>3. \A i \in Nat : i \in T
  <2>1. 0 \in T
    <3>1. n % 1 = 0
      BY <1>2
    <3> QED BY <3>1, <1>1, Weights
  <2>2. \A i \in Nat : i \in T => i + 1 \in T
    <3> SUFFICES ASSUME NEW i \in Nat, i + 1 <= K, number[i] = n % Weight[i]
                 PROVE  number[i + 1] = n % Weight[i + 1]
      BY <1>2
    <3> DEFINE w == Weight[i]
    <3>1. i + 1 \in 1 .. K /\ (i + 1) - 1 = i /\ i \in 0 .. K
      BY <1>2
    <3>2. w \in Nat \ {0} /\ Weight[i + 1] = Base * w
      BY <3>1, Weights
    <3>3. number[i + 1] = number[i] + ((n \div w) % Base) * w
      BY <3>1, <1>1
    <3>4. n % (Base * w) = (n % w) + ((n \div w) % Base) * w
      BY <3>2, <1>2, NextDigit
    <3> QED BY <3>2, <3>3, <3>4
  <2> HIDE DEF T
  <2> QED BY <2>1, <2>2, Induction
<1>4. number[K] = n % UINT32
  BY <1>2, <1>3 DEF UINT32
<1>5. n % UINT32 = n
  BY UINT32Type, SmallRemainder
<1> QED BY <1>1, <1>4, <1>5

-----------------------------------------------------------------------------
(* The bytes. *)

(* Sequence s, grown by the elements of u, after t is copied into it at o. *)
Splice(s, t, u, o) ==
  LET grown == s \o u
  IN SubSeq(grown, 1, o) \o t \o SubSeq(grown, o + Len(t) + 1, Len(grown))

(* It keeps what is before o, has t behind it, and is as long as s and u.  *)
LEMMA Spliced ==
  ASSUME NEW S, NEW s \in Seq(S), NEW t \in Seq(S), NEW u \in Seq(S), Len(u) = Len(t),
         NEW o \in 0 .. Len(s)
  PROVE  /\ Splice(s, t, u, o) \in Seq(S)
         /\ Len(Splice(s, t, u, o)) = Len(s) + Len(t)
         /\ \A i \in 1 .. o : Splice(s, t, u, o)[i] = s[i]
         /\ \A i \in 1 .. Len(t) : Splice(s, t, u, o)[o + i] = t[i]
<1> DEFINE grown == s \o u
           n == Len(s)
           m == Len(t)
           front == SubSeq(grown, 1, o)
           back == SubSeq(grown, o + m + 1, Len(grown))
           v == front \o t
           w == v \o back
<1>1. n \in Nat /\ m \in Nat /\ o \in Nat /\ o <= n
  BY LenProperties
<1>2. grown \in Seq(S) /\ Len(grown) = n + m /\ \A i \in 1 .. n + m : grown[i] = IF i <= n THEN s[i] ELSE u[i - n]
  <2>1. /\ grown \in Seq(S)
        /\ Len(grown) = Len(s) + Len(u)
        /\ \A i \in 1 .. Len(s) + Len(u) : grown[i] = IF i <= Len(s) THEN s[i] ELSE u[i - Len(s)]
    BY ConcatProperties, Zenon
  <2>2. Len(u) = m
    OBVIOUS
  <2> HIDE DEF grown, n, m
  <2> QED BY <2>1, <2>2 DEF n
<1>3. \A i \in 1 .. n + m : grown[i] \in S
  BY <1>2, ElementOfSeq
<1> HIDE DEF grown, n, m
<1>4. front \in Seq(S) /\ Len(front) = o /\ \A i \in 1 .. o : front[i] = s[i]
  <2>1. \A i \in 1 .. o : grown[i] \in S
    BY <1>1, <1>3
  <2>2. /\ front \in Seq(S)
        /\ Len(front) = IF 1 <= o THEN o - 1 + 1 ELSE 0
        /\ \A i \in 1 .. o - 1 + 1 : front[i] = grown[1 + i - 1]
    BY <2>1, <1>1, SubSeqProperties
  <2>3. \A i \in 1 .. o : grown[i] = s[i]
    BY <1>1, <1>2
  <2>4. o - 1 + 1 = o /\ \A i \in 1 .. o : 1 + i - 1 = i
    BY <1>1
  <2> HIDE DEF front
  <2> QED BY <1>1, <2>2, <2>3, <2>4
<1>5. back \in Seq(S) /\ Len(back) = n - o
  <2>1. \A i \in o + m + 1 .. Len(grown) : grown[i] \in S
    BY <1>1, <1>2, <1>3
  <2>2. o + m + 1 \in Int /\ Len(grown) \in Int
    BY <1>1, <1>2
  <2>3. /\ back \in Seq(S)
        /\ Len(back) = IF o + m + 1 <= Len(grown) THEN Len(grown) - (o + m + 1) + 1 ELSE 0
    BY <2>1, <2>2, SubSeqProperties
  <2> HIDE DEF back
  <2> QED BY <1>1, <1>2, <2>3
<1> HIDE DEF front, back
<1>6. v \in Seq(S) /\ Len(v) = o + m /\ \A i \in 1 .. o + m : v[i] = IF i <= o THEN front[i] ELSE t[i - o]
  BY <1>4, ConcatProperties DEF m
<1> HIDE DEF v
<1>7. /\ w \in Seq(S)
      /\ Len(w) = n + m
      /\ \A i \in 1 .. o + m : w[i] = v[i]
  <2>1. /\ w \in Seq(S)
        /\ Len(w) = Len(v) + Len(back)
        /\ \A i \in 1 .. Len(v) + Len(back) : w[i] = IF i <= Len(v) THEN v[i] ELSE back[i - Len(v)]
    <3>1. v \in Seq(S) /\ back \in Seq(S)
      BY <1>5, <1>6
    <3> QED BY <3>1, ConcatProperties, Zenon
  <2> HIDE DEF w
  <2>2. Len(v) + Len(back) = n + m
    BY <1>1, <1>5, <1>6
  <2>3. \A i \in 1 .. o + m : i \in 1 .. n + m /\ i <= Len(v)
    BY <1>1, <1>6
  <2> QED BY <2>1, <2>2, <2>3
<1> HIDE DEF w
<1>8. \A i \in 1 .. o : w[i] = s[i]
  BY <1>1, <1>4, <1>6, <1>7
<1>9. \A i \in 1 .. m : w[o + i] = t[i]
  <2> TAKE i \in 1 .. m
  <2>1. o + i \in 1 .. o + m /\ ~(o + i <= o) /\ (o + i) - o = i
    BY <1>1
  <2>2. w[o + i] = v[o + i]
    BY <2>1, <1>7
  <2> QED BY <2>1, <2>2, <1>6
<1>10. w = Splice(s, t, u, o)
  BY DEF w, v, front, back, grown, m, Splice
<1> QED BY <1>7, <1>8, <1>9, <1>10 DEF n, m

(* Append keeps what is before offset_ and puts the bytes behind it; the   *)
(* buffer is then large enough for offset_, whether or not it wraps.       *)
LEMMA AppendBehindOffset ==
  ASSUME NEW r \in ReceiverState, NEW bytes \in Seq(Byte), r.offset_ <= Len(r.buffer_)
  PROVE  /\ Append_(r, bytes) \in ReceiverState
         /\ Append_(r, bytes).length_ = r.length_
         /\ Append_(r, bytes).offset_ = (r.offset_ + Len(bytes)) % UINT32
         /\ Append_(r, bytes).offset_ <= Len(Append_(r, bytes).buffer_)
         /\ Len(Append_(r, bytes).buffer_) = Len(r.buffer_) + Len(bytes)
         /\ \A i \in 1 .. r.offset_ : Append_(r, bytes).buffer_[i] = r.buffer_[i]
         /\ \A i \in 1 .. Len(bytes) : Append_(r, bytes).buffer_[r.offset_ + i] = bytes[i]
<1> DEFINE s == r.buffer_
           o == r.offset_
           m == Len(bytes)
           u == [i \in 1 .. m |-> Unset]
           w == Splice(s, bytes, u, o)
           after == Append_(r, bytes)
<1>1. s \in Seq(Byte) /\ o \in 0 .. UINT32 - 1 /\ r.length_ \in 0 .. UINT32 - 1
  BY DEF ReceiverState
<1>2. m \in Nat /\ o \in 0 .. Len(s)
  BY <1>1, UINT32Type, LenProperties
<1>3. Unset \in Byte
  BY PacketAssumption DEF Unset, Byte
<1>4. u \in Seq(Byte) /\ Len(u) = m
  BY <1>2, <1>3, IsASeq
<1>5. /\ w \in Seq(Byte)
      /\ Len(w) = Len(s) + m
      /\ \A i \in 1 .. o : w[i] = s[i]
      /\ \A i \in 1 .. m : w[o + i] = bytes[i]
  <2>1. s \in Seq(Byte) /\ u \in Seq(Byte) /\ Len(u) = Len(bytes) /\ o \in 0 .. Len(s)
    BY <1>1, <1>2, <1>4
  <2> HIDE DEF s, o, u
  <2>2. /\ Splice(s, bytes, u, o) \in Seq(Byte)
        /\ Len(Splice(s, bytes, u, o)) = Len(s) + Len(bytes)
        /\ \A i \in 1 .. o : Splice(s, bytes, u, o)[i] = s[i]
        /\ \A i \in 1 .. Len(bytes) : Splice(s, bytes, u, o)[o + i] = bytes[i]
    BY <2>1, Spliced
  <2> QED BY <2>2
<1>6. after = [r EXCEPT !.buffer_ = w, !.offset_ = (o + m) % UINT32]
  BY DEF Append_, CopyAt, Splice
<1>7. (o + m) % UINT32 \in 0 .. UINT32 - 1 /\ (o + m) % UINT32 <= o + m
  <2>1. o + m \in Nat
    BY <1>1, <1>2, UINT32Type
  <2> HIDE DEF o, m
  <2>2. \A x \in Nat, y \in Nat \ {0} : x % y \in 0 .. y - 1 /\ x % y <= x
    <3> SUFFICES ASSUME NEW x \in Nat, NEW y \in Nat \ {0} PROVE x % y \in 0 .. y - 1 /\ x % y <= x
      OBVIOUS
    <3>1. x \div y \in Nat /\ x % y \in 0 .. y - 1 /\ x = (x \div y) * y + (x % y)
      BY Division
    <3>2. (x \div y) * y \in Nat
      BY <3>1
    <3> QED BY <3>1, <3>2
  <2> QED BY <2>1, <2>2, UINT32Type
<1>8. /\ after.buffer_ = w
      /\ after.offset_ = (o + m) % UINT32
      /\ after.length_ = r.length_
      /\ after \in ReceiverState
  <2> HIDE DEF w
  <2> QED BY <1>1, <1>5, <1>6, <1>7 DEF ReceiverState
<1>9. o + m <= Len(s) + m /\ Len(s) \in Nat
  BY <1>1, <1>2, LenProperties
<1>10. after.offset_ <= Len(after.buffer_)
  <2> HIDE DEF w, s, o, m, after
  <2>1. \A x, y, z \in Int : x <= y /\ y <= z => x <= z
    OBVIOUS
  <2>2. (o + m) % UINT32 \in Int /\ o + m \in Int /\ Len(s) + m \in Int
    BY <1>2, <1>7, <1>9
  <2> QED BY <1>5, <1>7, <1>8, <1>9, <2>1, <2>2
<1> HIDE DEF w, after
<1> QED BY <1>5, <1>8, <1>10 DEF after

(* A receiver without a packet is one. *)
LEMMA NewReceiverType ==
  /\ NewReceiver \in ReceiverState
  /\ NewReceiver.length_ = 0
  /\ NewReceiver.offset_ = 0
<1>1. Unset \in Byte
  BY PacketAssumption DEF Unset, Byte
<1>2. [i \in 1 .. kDefaultBufferSize |-> Unset] \in Seq(Byte)
  BY <1>1, PacketAssumption, IsASeq
<1>3. 0 \in 0 .. UINT32 - 1
  BY UINT32Type
<1> QED BY <1>2, <1>3 DEF NewReceiver, ReceiverState

(* Clear leaves the buffer as it is. *)
LEMMA ClearType ==
  ASSUME NEW r \in ReceiverState
  PROVE  /\ Clear(r) \in ReceiverState
         /\ Clear(r).length_ = 0
         /\ Clear(r).offset_ = 0
         /\ Clear(r).buffer_ = r.buffer_
<1>1. 0 \in 0 .. UINT32 - 1
  BY UINT32Type
<1> QED BY <1>1 DEF Clear, ReceiverState

(* A piece of a sequence: what is behind position m up to position n.      *)
LEMMA Piece ==
  ASSUME NEW S, NEW s \in Seq(S), NEW m \in 0 .. Len(s), NEW n \in m .. Len(s)
  PROVE  /\ SubSeq(s, m + 1, n) \in Seq(S)
         /\ Len(SubSeq(s, m + 1, n)) = n - m
         /\ \A i \in 1 .. n - m : SubSeq(s, m + 1, n)[i] = s[m + i]
<1> DEFINE t == SubSeq(s, m + 1, n)
<1>1. Len(s) \in Nat /\ m \in Nat /\ n \in Nat /\ m <= n /\ n <= Len(s)
  BY LenProperties
<1>2. \A i \in m + 1 .. n : s[i] \in S
  <2> TAKE i \in m + 1 .. n
  <2>1. i \in 1 .. Len(s)
    BY <1>1
  <2> QED BY <2>1, ElementOfSeq
<1>3. /\ t \in Seq(S)
      /\ Len(t) = IF m + 1 <= n THEN n - (m + 1) + 1 ELSE 0
      /\ \A i \in 1 .. n - (m + 1) + 1 : t[i] = s[m + 1 + i - 1]
  <2>1. m + 1 \in Int /\ n \in Int
    BY <1>1
  <2> QED BY <1>2, <2>1, SubSeqProperties
<1> HIDE DEF t
<1>4. n - (m + 1) + 1 = n - m /\ \A i \in 1 .. n - m : m + 1 + i - 1 = m + i
  BY <1>1
<1>5. Len(t) = n - m
  BY <1>1, <1>3
<1>6. \A i \in 1 .. n - m : t[i] = s[m + i]
  BY <1>3, <1>4
<1> QED BY <1>3, <1>5, <1>6 DEF t

(* After the header bytes are appended length_ is read if all are there,   *)
(* and what it is read from was appended.                                  *)
LEMMA TakeHeaderType ==
  ASSUME NEW r \in ReceiverState, NEW bytes \in Seq(Byte), r.offset_ <= Len(r.buffer_)
  PROVE  /\ TakeHeader(r, bytes) \in ReceiverState
         /\ TakeHeader(r, bytes).offset_ = Append_(r, bytes).offset_
         /\ TakeHeader(r, bytes).buffer_ = Append_(r, bytes).buffer_
         /\ TakeHeader(r, bytes).offset_ <= Len(TakeHeader(r, bytes).buffer_)
         /\ TakeHeader(r, bytes).length_ = IF Append_(r, bytes).offset_ >= kPacketLengthSize
                                           THEN HeaderOf(Append_(r, bytes).buffer_)
                                           ELSE r.length_
<1> DEFINE s == Append_(r, bytes)
           h == HeaderOf(s.buffer_)
<1>1. s \in ReceiverState /\ s.offset_ <= Len(s.buffer_) /\ s.length_ = r.length_
  BY AppendBehindOffset
<1>2. TakeHeader(r, bytes) = IF s.offset_ >= kPacketLengthSize THEN [s EXCEPT !.length_ = h] ELSE s
  BY DEF TakeHeader
<1> HIDE DEF s, h
<1>3. s.offset_ >= kPacketLengthSize => h \in 0 .. UINT32 - 1
  <2> SUFFICES ASSUME s.offset_ >= kPacketLengthSize PROVE h \in 0 .. UINT32 - 1
    OBVIOUS
  <2>1. s.buffer_ \in Seq(Byte) /\ s.offset_ \in 0 .. UINT32 - 1
    BY <1>1 DEF ReceiverState
  <2>2. Len(s.buffer_) \in Nat
    BY <2>1, LenProperties
  <2>3. \A x, y, z \in Int : x <= y /\ z >= x => z >= x
    OBVIOUS
  <2>4. Len(s.buffer_) >= kPacketLengthSize
    <3>1. s.offset_ \in Int /\ kPacketLengthSize \in Int
      BY <2>1, UINT32Type, PacketAssumption
    <3> QED BY <1>1, <2>2, <3>1
  <2> QED BY <2>1, <2>4, HeaderRange DEF h
<1>4. CASE s.offset_ >= kPacketLengthSize
  <2>1. TakeHeader(r, bytes) = [s EXCEPT !.length_ = h]
    BY <1>2, <1>4
  <2> HIDE DEF TakeHeader
  <2>2. /\ TakeHeader(r, bytes) \in ReceiverState
        /\ TakeHeader(r, bytes).offset_ = s.offset_
        /\ TakeHeader(r, bytes).buffer_ = s.buffer_
        /\ TakeHeader(r, bytes).length_ = h
    BY <1>1, <1>3, <1>4, <2>1 DEF ReceiverState
  <2> QED BY <1>1, <1>4, <2>2 DEF s, h
<1>5. CASE ~(s.offset_ >= kPacketLengthSize)
  <2>1. TakeHeader(r, bytes) = s
    BY <1>2, <1>5
  <2> QED BY <1>1, <1>5, <2>1 DEF s
<1> QED BY <1>4, <1>5

(* Whatever OnReceive is passed, it leaves a receiver whose offset_ lies   *)
(* in its buffer, and takes no more bytes than it is passed.               *)
LEMMA OnReceiveType ==
  ASSUME NEW r \in ReceiverState, r.offset_ <= Len(r.buffer_),
         NEW buffer \in Seq(Byte), NEW received \in 0 .. Len(buffer)
  PROVE  /\ OnReceive(r, buffer, received).receiver \in ReceiverState
         /\ OnReceive(r, buffer, received).receiver.offset_
              <= Len(OnReceive(r, buffer, received).receiver.buffer_)
         /\ OnReceive(r, buffer, received).remain \in 0 .. received
<1> DEFINE K == kPacketLengthSize
           header == IF r.offset_ < K THEN Least(received, K - r.offset_) ELSE 0
           s == IF r.offset_ < K THEN TakeHeader(r, SubSeq(buffer, 1, header)) ELSE r
           data == Least(received - header, Lacking(s))
           rest == SubSeq(buffer, header + 1, header + data)
<1>1. /\ OnReceive(r, buffer, received).receiver = Append_(s, rest)
      /\ OnReceive(r, buffer, received).remain = received - header - data
  BY DEF OnReceive
<1>2. K \in Nat /\ r.offset_ \in Nat /\ Len(buffer) \in Nat /\ received \in Nat /\ received <= Len(buffer)
  BY PacketAssumption, UINT32Type, LenProperties DEF ReceiverState
<1>3. header \in 0 .. received
  BY <1>2 DEF Least
<1> HIDE DEF header
<1>4. s \in ReceiverState /\ s.offset_ <= Len(s.buffer_)
  <2>1. SubSeq(buffer, 1, header) \in Seq(Byte)
    <3>1. 0 \in 0 .. Len(buffer) /\ header \in 0 .. Len(buffer) /\ 0 + 1 = 1
      BY <1>2, <1>3
    <3>2. SubSeq(buffer, 0 + 1, header) \in Seq(Byte)
      BY <3>1, Piece
    <3> QED BY <3>1, <3>2
  <2>2. CASE r.offset_ < K
    <3>1. s = TakeHeader(r, SubSeq(buffer, 1, header))
      BY <2>2
    <3> HIDE DEF s
    <3> QED BY <2>1, <3>1, TakeHeaderType
  <2>3. CASE ~(r.offset_ < K)
    <3>1. s = r
      BY <2>3
    <3> HIDE DEF s
    <3> QED BY <3>1
  <2> HIDE DEF s
  <2> QED BY <2>2, <2>3
<1> HIDE DEF s
<1>5. Lacking(s) \in Nat
  <2>1. s.length_ \in Nat /\ s.offset_ \in 0 .. UINT32 - 1
    BY <1>4, UINT32Type DEF ReceiverState
  <2>2. s.length_ + K + UINT32 - s.offset_ \in Nat /\ UINT32 \in Nat \ {0}
    BY <2>1, <1>2, UINT32Type
  <2>3. (s.length_ + K + UINT32 - s.offset_) % UINT32 \in 0 .. UINT32 - 1
    BY <2>2, Division
  <2> QED BY <2>2, <2>3 DEF Lacking
<1>6. data \in 0 .. received - header
  BY <1>2, <1>3, <1>5 DEF Least
<1> HIDE DEF data
<1>7. rest \in Seq(Byte)
  <2>1. header \in 0 .. Len(buffer) /\ header + data \in header .. Len(buffer)
    BY <1>2, <1>3, <1>6
  <2> QED BY <2>1, Piece
<1> HIDE DEF rest
<1>8. Append_(s, rest) \in ReceiverState /\ Append_(s, rest).offset_ <= Len(Append_(s, rest).buffer_)
  BY <1>4, <1>7, AppendBehindOffset
<1>9. received - header - data \in 0 .. received
  BY <1>2, <1>3, <1>6
<1> QED BY <1>1, <1>8, <1>9

(* A receiver that holds the beginning of a packet with n bytes of data,   *)
(* and is passed bytes that go on where it stopped and not beyond the end  *)
(* of the packet, takes them all, and has n in length_ once the header is  *)
(* there.                                                                  *)
LEMMA OnReceiveFills ==
  ASSUME NEW r \in ReceiverState, r.offset_ <= Len(r.buffer_),
         NEW buffer \in Seq(Byte), NEW received \in 0 .. Len(buffer),
         NEW n \in Nat, n + kPacketLengthSize < UINT32,
         r.offset_ + received <= kPacketLengthSize + n,
         r.offset_ >= kPacketLengthSize => r.length_ = n,
         \A i \in 1 .. kPacketLengthSize : i <= r.offset_ =>
           r.buffer_[i].value = (n \div Weight[i - 1]) % Base,
         \A i \in 1 .. kPacketLengthSize : r.offset_ < i /\ i <= r.offset_ + received =>
           buffer[i - r.offset_].value = (n \div Weight[i - 1]) % Base
  PROVE  LET got == OnReceive(r, buffer, received)
         IN /\ got.remain = 0
            /\ got.receiver.offset_ = r.offset_ + received
            /\ got.receiver.length_ = IF got.receiver.offset_ >= kPacketLengthSize
                                      THEN n ELSE r.length_
            /\ \A i \in 1 .. r.offset_ : got.receiver.buffer_[i] = r.buffer_[i]
            /\ \A i \in 1 .. received : got.receiver.buffer_[r.offset_ + i] = buffer[i]
<1> DEFINE K == kPacketLengthSize
           o == r.offset_
           m == received
           Digit(i) == (n \div Weight[i - 1]) % Base
           header == IF o < K THEN Least(m, K - o) ELSE 0
           front == SubSeq(buffer, 1, header)
           s == IF o < K THEN TakeHeader(r, front) ELSE r
           data == Least(m - header, Lacking(s))
           rest == SubSeq(buffer, header + 1, header + data)
           after == Append_(s, rest)
<1>1. OnReceive(r, buffer, received) = [receiver |-> after, remain |-> m - header - data]
  BY DEF OnReceive
<1>2. /\ K \in Nat /\ o \in Nat /\ m \in Nat /\ n \in Nat
      /\ Len(buffer) \in Nat /\ m <= Len(buffer)
      /\ UINT32 \in Nat \ {0} /\ n + K < UINT32 /\ o + m <= K + n
      /\ r.length_ \in 0 .. UINT32 - 1
  BY PacketAssumption, UINT32Type, LenProperties DEF ReceiverState
<1>3. /\ o >= K => r.length_ = n
      /\ \A i \in 1 .. K : i <= o => r.buffer_[i].value = Digit(i)
      /\ \A i \in 1 .. K : o < i /\ i <= o + m => buffer[i - o].value = Digit(i)
  OBVIOUS
<1> HIDE DEF Digit, o, m, K
<1>4. header \in 0 .. m /\ (o < K => o + header <= K) /\ (header < m => o + header >= K)
  BY <1>2 DEF Least
<1>5. o >= K => header = 0
  BY <1>2
<1> HIDE DEF header
<1>6. front \in Seq(Byte) /\ Len(front) = header /\ \A i \in 1 .. header : front[i] = buffer[i]
  <2>1. 0 \in 0 .. Len(buffer) /\ header \in 0 .. Len(buffer) /\ 0 + 1 = 1 /\ header - 0 = header
        /\ \A i \in 1 .. header : 0 + i = i
    BY <1>2, <1>4
  <2>2. /\ SubSeq(buffer, 0 + 1, header) \in Seq(Byte)
        /\ Len(SubSeq(buffer, 0 + 1, header)) = header - 0
        /\ \A i \in 1 .. header - 0 : SubSeq(buffer, 0 + 1, header)[i] = buffer[0 + i]
    BY <2>1, Piece
  <2> QED BY <2>1, <2>2
<1> HIDE DEF front
<1>7. /\ s \in ReceiverState /\ s.offset_ <= Len(s.buffer_)
      /\ s.offset_ = o + header
      /\ s.length_ = IF s.offset_ >= K THEN n ELSE r.length_
      /\ \A i \in 1 .. o : s.buffer_[i] = r.buffer_[i]
      /\ \A i \in 1 .. header : s.buffer_[o + i] = buffer[i]
  <2>1. CASE o < K
    <3> DEFINE a == Append_(r, front)
    <3>1. s = TakeHeader(r, front)
      BY <2>1
    <3>2. /\ a \in ReceiverState
          /\ a.offset_ = (o + header) % UINT32
          /\ a.offset_ <= Len(a.buffer_)
          /\ \A i \in 1 .. o : a.buffer_[i] = r.buffer_[i]
          /\ \A i \in 1 .. header : a.buffer_[o + i] = front[i]
      BY <1>6, AppendBehindOffset DEF o
    <3>3. /\ s \in ReceiverState /\ s.offset_ <= Len(s.buffer_)
          /\ s.offset_ = a.offset_ /\ s.buffer_ = a.buffer_
          /\ s.length_ = IF a.offset_ >= K THEN HeaderOf(a.buffer_) ELSE r.length_
      BY <1>6, <3>1, TakeHeaderType DEF K
    <3> HIDE DEF s, a
    <3>4. o + header \in 0 .. UINT32 - 1 /\ o + header <= K
      BY <2>1, <1>2, <1>4
    <3>5. a.offset_ = o + header
      BY <3>2, <3>4, <1>2, SmallRemainder
    <3>6. ASSUME a.offset_ >= K PROVE HeaderOf(a.buffer_) = n
      <4>1. o + header = K
        BY <3>4, <3>5, <3>6, <1>2, <1>4
      <4>2. \A i \in 1 .. K : a.buffer_[i].value = Digit(i)
        <5> TAKE i \in 1 .. K
        <5>1. CASE i <= o
          <6>1. i \in 1 .. o
            BY <5>1, <1>2
          <6> QED BY <6>1, <5>1, <3>2, <1>3
        <5>2. CASE ~(i <= o)
          <6>1. i - o \in 1 .. header /\ o + (i - o) = i /\ o < i /\ i <= o + m
            BY <5>2, <4>1, <1>2, <1>4
          <6>2. a.buffer_[o + (i - o)] = front[i - o] /\ front[i - o] = buffer[i - o]
            BY <6>1, <3>2, <1>6
          <6>3. a.buffer_[i] = buffer[i - o]
            BY <6>1, <6>2
          <6>4. buffer[i - o].value = Digit(i)
            BY <6>1, <1>3
          <6> QED BY <6>3, <6>4
        <5> QED BY <5>1, <5>2
      <4>3. a.buffer_ \in Seq(Byte)
        BY <3>2 DEF ReceiverState
      <4>4. Len(a.buffer_) >= K
        <5>1. Len(a.buffer_) \in Nat
          BY <4>3, LenProperties
        <5> QED BY <5>1, <3>2, <3>5, <4>1, <1>2
      <4>5. n \in 0 .. UINT32 - 1
        BY <1>2
      <4> QED BY <4>2, <4>3, <4>4, <4>5, HeaderRoundTrip DEF Digit, K
    <3>7. s.length_ = IF s.offset_ >= K THEN n ELSE r.length_
      BY <3>3, <3>6
    <3>8. \A i \in 1 .. header : s.buffer_[o + i] = buffer[i]
      BY <3>2, <3>3, <1>6
    <3> QED BY <3>2, <3>3, <3>5, <3>7, <3>8
  <2>2. CASE ~(o < K)
    <3>1. s = r
      BY <2>2
    <3>2. header = 0 /\ o >= K
      BY <2>2, <1>2, <1>5
    <3> HIDE DEF s
    <3>3. o + header = o /\ \A i \in 1 .. header : FALSE
      BY <3>2, <1>2
    <3> QED BY <3>1, <3>2, <3>3, <1>3 DEF o
  <2> HIDE DEF s
  <2> QED BY <2>1, <2>2
<1> HIDE DEF s
<1>8. data = m - header
  <2>1. CASE o + header >= K
    <3>1. s.length_ = n /\ s.offset_ = o + header
      BY <2>1, <1>7
    <3> DEFINE x == n + K - (o + header)
    <3>2. x \in 0 .. UINT32 - 1 /\ n + K + UINT32 - (o + header) = x + UINT32 /\ m - header <= x
      BY <2>1, <1>2, <1>4
    <3>3. Lacking(s) = (x + UINT32) % UINT32
      BY <3>1, <3>2 DEF Lacking, K
    <3>4. Lacking(s) = x
      <4> HIDE DEF x
      <4> QED BY <3>2, <3>3, <1>2, SmallRemainder
    <3> QED BY <3>2, <3>4, <1>2, <1>4 DEF Least
  <2>2. CASE ~(o + header >= K)
    <3>1. header = m
      BY <2>2, <1>2, <1>4
    <3>2. Lacking(s) \in Nat
      <4>1. s.length_ \in Nat /\ s.offset_ \in 0 .. UINT32 - 1
        BY <1>2, <1>7, UINT32Type DEF ReceiverState
      <4>2. s.length_ + K + UINT32 - s.offset_ \in Nat /\ UINT32 \in Nat \ {0}
        BY <4>1, <1>2
      <4>3. (s.length_ + K + UINT32 - s.offset_) % UINT32 \in 0 .. UINT32 - 1
        BY <4>2, Division
      <4> QED BY <4>2, <4>3 DEF Lacking, K
    <3> QED BY <3>1, <3>2, <1>2 DEF Least
  <2> QED BY <2>1, <2>2
<1> HIDE DEF data
<1>9. rest \in Seq(Byte) /\ Len(rest) = m - header /\ \A i \in 1 .. m - header : rest[i] = buffer[header + i]
  <2> DEFINE e == header + data
  <2>1. header \in 0 .. Len(buffer) /\ e \in header .. Len(buffer) /\ e = m
    BY <1>2, <1>4, <1>8
  <2>2. rest = SubSeq(buffer, header + 1, e)
    OBVIOUS
  <2> HIDE DEF e, rest
  <2>3. /\ SubSeq(buffer, header + 1, e) \in Seq(Byte)
        /\ Len(SubSeq(buffer, header + 1, e)) = e - header
        /\ \A i \in 1 .. e - header : SubSeq(buffer, header + 1, e)[i] = buffer[header + i]
    BY <2>1, Piece
  <2> QED BY <2>1, <2>2, <2>3
<1> HIDE DEF rest
<1>10. /\ after.length_ = s.length_
       /\ after.offset_ = (s.offset_ + (m - header)) % UINT32
       /\ \A i \in 1 .. s.offset_ : after.buffer_[i] = s.buffer_[i]
       /\ \A i \in 1 .. m - header : after.buffer_[s.offset_ + i] = rest[i]
  <2>1. /\ after.length_ = s.length_
        /\ after.offset_ = (s.offset_ + Len(rest)) % UINT32
        /\ \A i \in 1 .. s.offset_ : after.buffer_[i] = s.buffer_[i]
        /\ \A i \in 1 .. Len(rest) : after.buffer_[s.offset_ + i] = rest[i]
    BY <1>7, <1>9, AppendBehindOffset
  <2> HIDE DEF after
  <2> QED BY <2>1, <1>9
<1> HIDE DEF after
<1>11. after.offset_ = o + m
  <2>1. s.offset_ + (m - header) = o + m /\ o + m \in 0 .. UINT32 - 1
    BY <1>2, <1>4, <1>7
  <2> QED BY <2>1, <1>2, <1>10, SmallRemainder
<1>12. after.length_ = IF after.offset_ >= K THEN n ELSE r.length_
  <2>1. s.offset_ >= K <=> o + m >= K
    BY <1>2, <1>4, <1>7
  <2> QED BY <2>1, <1>7, <1>10, <1>11
<1>13. \A i \in 1 .. o : after.buffer_[i] = r.buffer_[i]
  <2>1. \A i \in 1 .. o : i \in 1 .. s.offset_
    BY <1>2, <1>4, <1>7
  <2> QED BY <2>1, <1>7, <1>10
<1>14. \A i \in 1 .. m : after.buffer_[o + i] = buffer[i]
  <2> TAKE i \in 1 .. m
  <2>1. CASE i <= header
    <3>1. i \in 1 .. header /\ o + i \in 1 .. s.offset_
      BY <2>1, <1>2, <1>4, <1>7
    <3> QED BY <3>1, <1>7, <1>10
  <2>2. CASE ~(i <= header)
    <3>1. i - header \in 1 .. m - header /\ s.offset_ + (i - header) = o + i /\ header + (i - header) = i
      BY <2>2, <1>2, <1>4, <1>7
    <3>2. after.buffer_[s.offset_ + (i - header)] = rest[i - header] /\ rest[i - header] = buffer[header + (i - header)]
      BY <3>1, <1>9, <1>10
    <3> QED BY <3>1, <3>2
  <2> QED BY <2>1, <2>2
<1>15. m - header - data = 0
  BY <1>2, <1>4, <1>8
<1>16. /\ OnReceive(r, buffer, received).remain = 0
       /\ OnReceive(r, buffer, received).receiver = after
  BY <1>1, <1>15
<1> HIDE DEF OnReceive
<1> QED BY <1>11, <1>12, <1>13, <1>14, <1>16 DEF o, m, K

(* A receiver that holds a whole packet takes nothing more. *)
LEMMA OnReceiveFull ==
  ASSUME NEW r \in ReceiverState, r.offset_ <= Len(r.buffer_),
         NEW buffer \in Seq(Byte), NEW received \in 0 .. Len(buffer),
         NEW n \in Nat, n + kPacketLengthSize < UINT32,
         r.offset_ = kPacketLengthSize + n, r.length_ = n
  PROVE  LET got == OnReceive(r, buffer, received)
         IN /\ got.receiver.offset_ = r.offset_
            /\ got.receiver.length_ = n
            /\ \A i \in 1 .. r.offset_ : got.receiver.buffer_[i] = r.buffer_[i]
<1> DEFINE K == kPacketLengthSize
           o == r.offset_
           rest == SubSeq(buffer, 0 + 1, 0 + 0)
           after == Append_(r, rest)
<1>1. K \in Nat /\ o \in 0 .. UINT32 - 1 /\ received \in Nat /\ Len(buffer) \in Nat /\ UINT32 \in Nat \ {0}
  BY PacketAssumption, UINT32Type, LenProperties DEF ReceiverState
<1>2. ~(o < K)
  BY <1>1
<1>3. Lacking(r) = 0
  <2>1. n + K + UINT32 - o = 0 + UINT32 /\ 0 \in 0 .. UINT32 - 1
    BY <1>1
  <2>2. (0 + UINT32) % UINT32 = 0
    BY <2>1, <1>1, SmallRemainder
  <2> QED BY <2>1, <2>2 DEF Lacking
<1>4. Least(received - 0, Lacking(r)) = 0
  BY <1>1, <1>3 DEF Least
<1>5. OnReceive(r, buffer, received).receiver = after
  BY <1>2, <1>4 DEF OnReceive
<1>6. rest \in Seq(Byte) /\ Len(rest) = 0
  <2>1. 0 \in 0 .. Len(buffer) /\ 0 + 0 \in 0 .. Len(buffer) /\ 0 + 0 = 0 /\ 0 - 0 = 0
    BY <1>1
  <2>2. SubSeq(buffer, 0 + 1, 0) \in Seq(Byte) /\ Len(SubSeq(buffer, 0 + 1, 0)) = 0 - 0
    BY <2>1, Piece
  <2> QED BY <2>1, <2>2
<1> HIDE DEF rest
<1>7. /\ after.length_ = r.length_
      /\ after.offset_ = (o + Len(rest)) % UINT32
      /\ \A i \in 1 .. o : after.buffer_[i] = r.buffer_[i]
  BY <1>6, AppendBehindOffset
<1>8. (o + Len(rest)) % UINT32 = o
  <2>1. o + Len(rest) = o
    BY <1>1, <1>6
  <2> QED BY <2>1, <1>1, SmallRemainder
<1> HIDE DEF after, OnReceive
<1> QED BY <1>5, <1>7, <1>8
=============================================================================
