--------------------------- MODULE BuilderProofs -----------------------------
(***************************************************************************)
(* Lemmas about the operators of VectorDownward and FlatBufferBuilder: what*)
(* each keeps of the memory, what it writes and that it reads back.  In    *)
(* this order: induction; the memory; scalars and fields, as they are      *)
(* written and read; vtables; strings and vectors; Finish, Clear, Reset and*)
(* Release; reading the value of a field and a table.  Of BuilderUse they  *)
(* use the ranges of values, sizes and alignments, and not its state.  The *)
(* facts on induction are those of PacketReceiverProofs, a module this one *)
(* cannot extend: its constants are those of a PacketReceiver.             *)
(***************************************************************************)
EXTENDS BuilderUse, SequenceTheorems, FiniteSetTheorems, WellFoundedInduction, TLAPS

-----------------------------------------------------------------------------
(* Induction over the natural numbers, stated with a set in place of a     *)
(* predicate, and functions defined by recursion.                          *)

(* The order of the natural numbers is a well-founded relation. *)
LEMMA LessIsWellFounded ==
  \E R : IsWellFoundedOn(R, Nat) /\ \A x, y \in Nat : <<x, y>> \in R <=> x < y
<1> DEFINE R == OpToRel(<, Nat)
<1>1. IsWellFoundedOn(R, Nat)
  BY NatLessThanWellFounded
<1>2. \A x, y \in Nat : <<x, y>> \in R <=> x < y
  BY DEF OpToRel
<1> HIDE DEF R
<1> QED BY <1>1, <1>2

(* A set of natural numbers that is not empty has a least element. *)
LEMMA LeastElement ==
  ASSUME NEW S, S \subseteq Nat, S # {}
  PROVE  \E m \in S : \A n \in S : m <= n
<1>1. PICK R : IsWellFoundedOn(R, Nat) /\ \A x, y \in Nat : <<x, y>> \in R <=> x < y
  BY LessIsWellFounded
<1>2. \E x \in S : \A y \in S : <<y, x>> \notin R
  <2>1. IsWellFoundedOn(R, Nat)
    BY <1>1
  <2>2. S \subseteq Nat /\ S # {}
    OBVIOUS
  <2> QED BY <2>1, <2>2, WFMin, Zenon
<1>3. \A x, y \in S : ~(x < y) => y <= x
  OBVIOUS
<1> QED BY <1>1, <1>2, <1>3

(* Induction: a set that holds 0, and n + 1 when it holds n, holds them    *)
(* all.                                                                    *)
LEMMA Induction ==
  ASSUME NEW T, 0 \in T, \A n \in Nat : n \in T => n + 1 \in T
  PROVE  \A n \in Nat : n \in T
<1> SUFFICES ASSUME Nat \ T # {} PROVE FALSE
  OBVIOUS
<1>1. PICK m \in Nat \ T : \A n \in Nat \ T : m <= n
  <2>1. Nat \ T \subseteq Nat
    OBVIOUS
  <2> QED BY <2>1, LeastElement
<1>2. m - 1 \in Nat /\ m - 1 + 1 = m
  BY <1>1
<1>3. m - 1 \in T
  <2>1. ~(m <= m - 1)
    BY <1>1
  <2> QED BY <2>1, <1>1, <1>2
<1> QED BY <1>1, <1>2, <1>3

(* g starts from a and goes on, up to n, by step. *)
Recursion(g, S, a, n, step) ==
  /\ g \in [0 .. n -> S]
  /\ g = [i \in 0 .. n |-> IF i = 0 THEN a ELSE step[i][g[i - 1]]]

(* There is such a g for any a and any step. *)
LEMMA RecursionExists ==
  ASSUME NEW S, NEW a \in S, NEW n \in Nat, NEW step \in [1 .. n -> [S -> S]]
  PROVE  \E g : Recursion(g, S, a, n, step)
<1> DEFINE Solves(g, m) == \A i \in 0 .. m : g[i] = IF i = 0 THEN a ELSE step[i][g[i - 1]]
           T == {m \in Nat : m <= n => \E g \in [0 .. m -> S] : Solves(g, m)}
<1>1. 0 \in T
  <2> DEFINE g == [i \in 0 .. 0 |-> a]
  <2>1. g \in [0 .. 0 -> S] /\ Solves(g, 0)
    OBVIOUS
  <2> QED BY <2>1
<1>2. ASSUME NEW m \in Nat, m \in T PROVE m + 1 \in T
  <2> SUFFICES ASSUME m + 1 <= n PROVE \E g \in [0 .. m + 1 -> S] : Solves(g, m + 1)
    OBVIOUS
  <2>1. PICK g \in [0 .. m -> S] : Solves(g, m)
    BY <1>2
  <2> DEFINE h == [i \in 0 .. m + 1 |-> IF i = m + 1 THEN step[m + 1][g[m]] ELSE g[i]]
  <2>2. step[m + 1][g[m]] \in S
    <3>1. m \in 0 .. m /\ m + 1 \in 1 .. n
      OBVIOUS
    <3>2. g[m] \in S
      BY <3>1
    <3> QED BY <3>1, <3>2
  <2>3. h \in [0 .. m + 1 -> S]
    BY <2>2
  <2>4. ASSUME NEW i \in 0 .. m + 1
        PROVE  h[i] = IF i = 0 THEN a ELSE step[i][h[i - 1]]
    <3>1. CASE i = m + 1
      <4>1. h[i] = step[i][g[m]] /\ h[m] = g[m] /\ i - 1 = m /\ i # 0
        BY <3>1
      <4> QED BY <4>1
    <3>2. CASE i # m + 1
      <4>1. i \in 0 .. m /\ h[i] = g[i]
        BY <3>2
      <4>2. CASE i = 0
        BY <4>1, <4>2, <2>1
      <4>3. CASE i # 0
        <5>1. i - 1 \in 0 .. m /\ h[i - 1] = g[i - 1]
          BY <4>1, <4>3
        <5> QED BY <4>1, <4>3, <5>1, <2>1
      <4> QED BY <4>2, <4>3
    <3> QED BY <3>1, <3>2
  <2> QED BY <2>3, <2>4
<1> HIDE DEF T
<1>3. n \in T
  BY <1>1, <1>2, Induction
<1>4. PICK g \in [0 .. n -> S] : Solves(g, n)
  BY <1>3 DEF T
<1>5. g = [i \in 0 .. n |-> IF i = 0 THEN a ELSE step[i][g[i - 1]]]
  BY <1>4
<1> QED BY <1>5 DEF Recursion

-----------------------------------------------------------------------------
(* A vector_downward of which the block is written only within its bounds  *)
(* and whose two stacks are apart, while d is the block detached from it.  *)
Memory(n) == [0 .. n - 1 -> Int]
Memories == UNION {Memory(n) : n \in Nat}

VectorType ==
  [initial_size : Nat \ {0}, buffer_minalign : Nat \ {0},
   block : 0 .. 3, heap : SUBSET (1 .. 3), mem : Memories,
   reserved : Nat, size : Nat, cur : Nat, scratch : Nat]

Owned(v, d) ==
  /\ v.heap = {v.block, d} \ {0}
  /\ v.block = d => d = 0

Vectors(d) ==
  {v \in VectorType :
     /\ v.mem \in Memory(v.reserved)
     /\ v.cur = v.reserved - v.size
     /\ v.scratch <= v.cur
     /\ v.block = 0 => v.reserved = 0
     /\ Owned(v, d)}

(* What is below scratch stays as it is. *)
SameScratch(v, w) ==
  /\ w.scratch = v.scratch
  /\ \A a \in 0 .. v.scratch - 1 : w.mem[a] = v.mem[a]

(* What has been serialized in v is in w, at the same distance from the    *)
(* end of the block.                                                       *)
Stays(v, w) ==
  /\ v.size <= w.size
  /\ \A k \in 1 .. v.size : w.mem[w.reserved - k] = v.mem[v.reserved - k]

(* The bytes s begin o bytes before the end. *)
Holds(v, o, s) ==
  /\ Len(s) <= o /\ o <= v.size
  /\ \A i \in 1 .. Len(s) : v.mem[v.reserved - (o - i + 1)] = s[i]

(* Everything serialized has been written. *)
Clean(v) == \A k \in 1 .. v.size : v.mem[v.reserved - k] \in Byte

(* Padding is a number of bytes. *)
LEMMA Padding ==
  ASSUME NEW n \in Int, NEW k \in Nat \ {0}
  PROVE  PaddingBytes(n, k) \in Nat
BY DEF PaddingBytes

(* The fields of such a vector; a record with such fields is one. *)
VectorNames == {"initial_size", "buffer_minalign", "block", "heap", "mem",
                "reserved", "size", "cur", "scratch"}

(* What membership in Vectors says of each field of a vector. *)
LEMMA VectorFields ==
  ASSUME NEW d, NEW v \in Vectors(d)
  PROVE  /\ v = [f \in VectorNames |-> v[f]]
         /\ v.initial_size \in Nat \ {0} /\ v.buffer_minalign \in Nat \ {0}
         /\ v.block \in 0 .. 3 /\ v.heap \in SUBSET (1 .. 3)
         /\ v.reserved \in Nat /\ v.size \in Nat /\ v.cur \in Nat /\ v.scratch \in Nat
         /\ v.mem \in Memory(v.reserved)
         /\ v.cur = v.reserved - v.size /\ v.scratch <= v.cur
         /\ v.block = 0 => v.reserved = 0
         /\ v.heap = {v.block, d} \ {0} /\ (v.block = d => d = 0)
BY DEF Vectors, VectorType, Owned, VectorNames

(* A record whose fields are so is such a vector: how an operation is      *)
(* shown to give one.                                                      *)
LEMMA VectorIs ==
  ASSUME NEW d, NEW v,
         v = [f \in VectorNames |-> v[f]],
         v.initial_size \in Nat \ {0}, v.buffer_minalign \in Nat \ {0},
         v.block \in 0 .. 3, v.heap \in SUBSET (1 .. 3),
         v.reserved \in Nat, v.mem \in Memory(v.reserved), v.size \in Nat, v.scratch \in Nat,
         v.cur = v.reserved - v.size, v.scratch <= v.cur,
         v.block = 0 => v.reserved = 0,
         v.heap = {v.block, d} \ {0}, v.block = d => d = 0
  PROVE  v \in Vectors(d)
<1>1. v.mem \in Memories /\ v.cur \in Nat
  BY DEF Memories
<1>2. v \in VectorType
  BY <1>1 DEF VectorType, VectorNames
<1> QED BY <1>2 DEF Vectors, Owned

(* There is a third name of a block besides two. *)
LEMMA FreshBlock ==
  ASSUME NEW d \in 0 .. 3, NEW v \in Vectors(d)
  PROVE  Fresh(v.heap) \in 1 .. 3 /\ Fresh(v.heap) # v.block /\ Fresh(v.heap) # d
<1>1. v.heap = {v.block, d} \ {0} /\ v.block \in 0 .. 3
  BY DEF Vectors, VectorType, Owned
<1>2. \E n \in 1 .. 3 : n \notin v.heap
  <2>1. \A x, y \in 0 .. 3 : \E n \in 1 .. 3 : n # x /\ n # y
    <3> SUFFICES ASSUME NEW x \in 0 .. 3, NEW y \in 0 .. 3 PROVE \E n \in 1 .. 3 : n # x /\ n # y
      OBVIOUS
    <3>1. CASE x # 1 /\ y # 1
      BY <3>1
    <3>2. CASE x # 2 /\ y # 2
      BY <3>2
    <3>3. CASE x # 3 /\ y # 3
      BY <3>3
    <3> QED BY <3>1, <3>2, <3>3
  <2> QED BY <1>1, <2>1
<1>3. Fresh(v.heap) \in 1 .. 3 /\ Fresh(v.heap) \notin v.heap
  BY <1>2 DEF Fresh
<1> QED BY <1>1, <1>3

(* Nothing serialized changes when the block does not. *)
LEMMA StaysSelf ==
  ASSUME NEW v, NEW w, v.size \in Nat,
         w.size = v.size, w.mem = v.mem, w.reserved = v.reserved
  PROVE  Stays(v, w)
BY DEF Stays

(* What stays, stays on. *)
LEMMA StaysOn ==
  ASSUME NEW u, NEW v, NEW w, u.size \in Nat, v.size \in Nat, w.size \in Nat,
         Stays(u, v), Stays(v, w)
  PROVE  Stays(u, w)
<1>1. u.size <= v.size /\ v.size <= w.size
  BY DEF Stays
<1>2. \A k \in 1 .. u.size : k \in 1 .. v.size
  BY <1>1
<1>3. u.size <= w.size
  BY <1>1
<1> QED BY <1>2, <1>3 DEF Stays

(* Bytes that stay are held. *)
LEMMA HoldsOn ==
  ASSUME NEW v, NEW w, v.size \in Nat, w.size \in Nat, Stays(v, w),
         NEW o \in Int, NEW s, Len(s) \in Nat, Holds(v, o, s)
  PROVE  Holds(w, o, s)
<1>1. v.size <= w.size /\ Len(s) <= o /\ o <= v.size
  BY DEF Stays, Holds
<1>2. ASSUME NEW i \in 1 .. Len(s) PROVE w.mem[w.reserved - (o - i + 1)] = s[i]
  <2>1. o - i + 1 \in 1 .. v.size
    BY <1>1
  <2>2. w.mem[w.reserved - (o - i + 1)] = v.mem[v.reserved - (o - i + 1)]
    BY <2>1 DEF Stays
  <2> QED BY <2>2 DEF Holds
<1> QED BY <1>1, <1>2 DEF Holds

(* reallocate makes room for len bytes between the stacks. *)
LEMMA Reallocates ==
  ASSUME NEW d \in 0 .. 3, NEW v \in Vectors(d), NEW len \in Nat
  PROVE  LET w == reallocate(v, len)
         IN /\ w \in Vectors(d)
            /\ w.size = v.size /\ SameScratch(v, w) /\ Stays(v, w)
            /\ len <= w.cur - w.scratch
<1> DEFINE grown == v.reserved + Larger(len, IF v.reserved > 0 THEN v.reserved \div 2
                                                               ELSE v.initial_size)
           reserved == Aligned(grown, v.buffer_minalign)
           mem == Moved(v, reserved)
           block == Fresh(v.heap)
           heap == (v.heap \ {v.block}) \union {block}
           w == reallocate(v, len)
<1>1. /\ v \in VectorType
      /\ v.initial_size \in Nat \ {0} /\ v.buffer_minalign \in Nat \ {0} /\ v.block \in 0 .. 3
      /\ v.heap \in SUBSET (1 .. 3)
      /\ v.reserved \in Nat /\ v.size \in Nat /\ v.cur \in Nat /\ v.scratch \in Nat
      /\ v.mem \in Memory(v.reserved)
      /\ v.cur = v.reserved - v.size /\ v.scratch <= v.cur
      /\ v.block = 0 => v.reserved = 0
      /\ v.heap = {v.block, d} \ {0} /\ (v.block = d => d = 0)
  BY DEF Vectors, VectorType, Owned
<1>2. w = [v EXCEPT !.reserved = reserved, !.mem = mem, !.block = block, !.heap = heap,
                    !.cur = reserved - v.size]
  BY DEF reallocate
<1>3. grown \in Nat /\ grown >= v.reserved + len
  <2>1. v.reserved \div 2 \in Nat
    BY <1>1
  <2> QED BY <1>1, <2>1 DEF Larger
<1>4. reserved \in Nat /\ reserved >= v.reserved + len
  <2>1. PaddingBytes(grown, v.buffer_minalign) \in Nat
    BY <1>1, <1>3, Padding
  <2> QED BY <1>1, <1>3, <2>1 DEF Aligned
<1>5. block \in 1 .. 3 /\ block # v.block /\ block # d
  BY FreshBlock
<1> HIDE DEF grown, reserved, block
<1>6. mem \in Memory(reserved)
  <2>1. mem = [a \in 0 .. (reserved - 1) |->
                 IF v.block = 0 THEN Junk
                 ELSE IF a < v.scratch THEN v.mem[a]
                 ELSE IF a >= reserved - v.size THEN v.mem[a - (reserved - v.reserved)]
                 ELSE Junk]
    BY DEF Moved
  <2>2. ASSUME NEW a \in 0 .. reserved - 1
        PROVE  mem[a] \in Int
    <3>1. CASE a < v.scratch
      <4>1. a \in 0 .. v.reserved - 1
        BY <1>1, <3>1
      <4> QED BY <1>1, <2>1, <3>1, <4>1 DEF Memory, Junk
    <3>2. CASE ~(a < v.scratch) /\ a >= reserved - v.size
      <4>1. a - (reserved - v.reserved) \in 0 .. v.reserved - 1
        BY <1>1, <1>4, <3>2
      <4> QED BY <1>1, <2>1, <3>2, <4>1 DEF Memory, Junk
    <3>3. CASE ~(a < v.scratch) /\ ~(a >= reserved - v.size)
      BY <2>1, <3>3 DEF Junk
    <3> QED BY <3>1, <3>2, <3>3
  <2> HIDE DEF mem
  <2> QED BY <2>1, <2>2 DEF Memory
<1>7. \A a \in 0 .. v.scratch - 1 : mem[a] = v.mem[a]
  BY SMTT(30), <1>1, <1>4 DEF Moved
<1>13. ASSUME NEW k \in 1 .. v.size PROVE mem[reserved - k] = v.mem[v.reserved - k]
  <2> DEFINE a == reserved - k
  <2>1. /\ a \in 0 .. reserved - 1 /\ v.block # 0 /\ ~(a < v.scratch) /\ a >= reserved - v.size
        /\ a - (reserved - v.reserved) = v.reserved - k
    BY <1>1, <1>4
  <2> HIDE DEF a
  <2>2. mem[a] = v.mem[a - (reserved - v.reserved)]
    BY <2>1 DEF Moved
  <2> QED BY <2>1, <2>2 DEF a
<1>8. heap \in SUBSET (1 .. 3) /\ heap = {block, d} \ {0}
  BY <1>1, <1>5
<1> HIDE DEF mem, heap
<1>9. /\ w.reserved = reserved /\ w.mem = mem /\ w.block = block /\ w.heap = heap
      /\ w.cur = reserved - v.size /\ w.size = v.size /\ w.scratch = v.scratch
      /\ w.initial_size = v.initial_size /\ w.buffer_minalign = v.buffer_minalign
  BY <1>1, <1>2 DEF VectorType
<1>10. reserved - v.size \in Nat /\ len <= reserved - v.size - v.scratch /\ v.scratch <= reserved - v.size
  BY <1>1, <1>4
<1>11. w = [f \in VectorNames |-> w[f]]
  <2>1. v = [f \in VectorNames |-> v[f]]
    BY VectorFields
  <2> HIDE DEF w
  <2> QED BY <1>2, <2>1
<1> HIDE DEF w
<1>12. w \in Vectors(d)
  <2>1. block \in 0 .. 3 /\ (block = 0 => reserved = 0) /\ (block = d => d = 0)
    BY <1>5
  <2> QED BY <1>1, <1>4, <1>6, <1>8, <1>9, <1>10, <1>11, <2>1, VectorIs
<1>14. Stays(v, w)
  BY <1>1, <1>9, <1>13 DEF Stays
<1> QED BY <1>7, <1>9, <1>10, <1>12, <1>14 DEF SameScratch, w

(* ensure_space makes room for len bytes, by reallocate or because it was  *)
(* there.                                                                  *)
LEMMA EnsuresSpace ==
  ASSUME NEW d \in 0 .. 3, NEW v \in Vectors(d), NEW len \in Nat
  PROVE  LET w == ensure_space(v, len)
         IN /\ w \in Vectors(d)
            /\ w.size = v.size /\ SameScratch(v, w) /\ Stays(v, w)
            /\ len <= w.cur - w.scratch
<1>1. CASE len > v.cur - v.scratch
  BY <1>1, Reallocates DEF ensure_space
<1>2. CASE ~(len > v.cur - v.scratch)
  <2>1. v.cur \in Nat /\ v.scratch \in Nat /\ v.size \in Nat
    BY VectorFields
  <2>2. Stays(v, v)
    BY <2>1, StaysSelf
  <2> QED BY <1>2, <2>1, <2>2 DEF ensure_space, SameScratch
<1> QED BY <1>1, <1>2

(* make_space takes len bytes for what is serialized. *)
LEMMA MakesSpace ==
  ASSUME NEW d \in 0 .. 3, NEW v \in Vectors(d), NEW len \in Nat
  PROVE  LET w == make_space(v, len)
         IN /\ w \in Vectors(d)
            /\ w.size = v.size + len /\ SameScratch(v, w) /\ Stays(v, w)
<1>1. CASE len = 0
  <2>1. v.size \in Nat
    BY VectorFields
  <2>2. Stays(v, v)
    BY <2>1, StaysSelf
  <2> QED BY <1>1, <2>1, <2>2 DEF make_space, SameScratch
<1>2. CASE len # 0
  <2> DEFINE u == ensure_space(v, len)
             w == make_space(v, len)
  <2>1. u \in Vectors(d) /\ u.size = v.size /\ SameScratch(v, u) /\ Stays(v, u)
        /\ len <= u.cur - u.scratch
    BY EnsuresSpace
  <2>2. w = [u EXCEPT !.cur = @ - len, !.size = @ + len]
    BY <1>2 DEF make_space
  <2> HIDE DEF u, w
  <2>3. u = [f \in VectorNames |-> u[f]]
    BY <2>1, VectorFields
  <2>4. w = [f \in VectorNames |-> w[f]]
    BY <2>2, <2>3
  <2>5. /\ w.cur = u.cur - len /\ w.size = u.size + len
        /\ w.initial_size = u.initial_size /\ w.buffer_minalign = u.buffer_minalign
        /\ w.block = u.block /\ w.heap = u.heap /\ w.mem = u.mem
        /\ w.reserved = u.reserved /\ w.scratch = u.scratch
    BY <2>2, <2>3 DEF VectorNames
  <2>6. w \in Vectors(d)
    <3>1. w.size \in Nat /\ w.cur = w.reserved - w.size /\ w.scratch <= w.cur
      BY <2>1, <2>5, VectorFields
    <3> QED BY <2>1, <2>4, <2>5, <3>1, VectorFields, VectorIs
  <2>7. Stays(v, w)
    <3>1. v.size \in Nat /\ v.size <= w.size
      BY <2>1, <2>5, VectorFields
    <3> QED BY <2>1, <2>5, <3>1 DEF Stays
  <2> QED BY <2>1, <2>5, <2>6, <2>7 DEF SameScratch, w
<1> QED BY <1>1, <1>2

(* Bytes written between the two ends of the block. *)
LEMMA Puts ==
  ASSUME NEW d, NEW v \in Vectors(d), NEW p \in Nat, NEW bytes \in Seq(Int),
         p + Len(bytes) <= v.reserved
  PROVE  LET w == Put(v, p, bytes)
         IN /\ w \in Vectors(d)
            /\ w.size = v.size /\ w.scratch = v.scratch /\ w.cur = v.cur
            /\ w.reserved = v.reserved
            /\ \A a \in 0 .. p - 1 : w.mem[a] = v.mem[a]
            /\ \A a \in p + Len(bytes) .. v.reserved - 1 : w.mem[a] = v.mem[a]
            /\ \A i \in 1 .. Len(bytes) : w.mem[p + i - 1] = bytes[i]
<1> DEFINE mem == Copied(v.mem, p, bytes)
           w == Put(v, p, bytes)
<1>1. v = [f \in VectorNames |-> v[f]] /\ v.mem \in Memory(v.reserved) /\ v.reserved \in Nat
  BY VectorFields
<1>2. /\ DOMAIN v.mem = 0 .. v.reserved - 1
      /\ \A a \in 0 .. v.reserved - 1 : v.mem[a] \in Int
      /\ Len(bytes) \in Nat /\ DOMAIN bytes = 1 .. Len(bytes)
      /\ \A i \in 1 .. Len(bytes) : bytes[i] \in Int
  <2>1. /\ DOMAIN v.mem = 0 .. v.reserved - 1
        /\ \A a \in 0 .. v.reserved - 1 : v.mem[a] \in Int
    BY <1>1 DEF Memory
  <2>2. /\ Len(bytes) \in Nat /\ DOMAIN bytes = 1 .. Len(bytes)
        /\ \A i \in 1 .. Len(bytes) : bytes[i] \in Int
    BY LenProperties
  <2> QED BY <2>1, <2>2
<1>3. mem = [a \in 0 .. v.reserved - 1 |->
               IF a \in p .. p + Len(bytes) - 1 THEN bytes[a - p + 1] ELSE v.mem[a]]
  <2>1. DOMAIN v.mem \union p .. p + Len(bytes) - 1 = 0 .. v.reserved - 1
    BY <1>1, <1>2
  <2> QED BY <2>1 DEF Copied
<1> HIDE DEF mem
<1>4. mem \in Memory(v.reserved)
  <2>1. ASSUME NEW a \in 0 .. v.reserved - 1 PROVE mem[a] \in Int
    <3>1. a \in p .. p + Len(bytes) - 1 => a - p + 1 \in 1 .. Len(bytes)
      BY <1>1, <1>2
    <3> QED BY <1>2, <1>3, <3>1
  <2> QED BY <1>3, <2>1 DEF Memory
<1>5. w = [v EXCEPT !.mem = mem]
  BY DEF Put, mem
<1> HIDE DEF w
<1>6. w = [f \in VectorNames |-> w[f]]
  BY <1>1, <1>5
<1>7. /\ w.mem = mem /\ w.cur = v.cur /\ w.size = v.size
      /\ w.initial_size = v.initial_size /\ w.buffer_minalign = v.buffer_minalign
      /\ w.block = v.block /\ w.heap = v.heap
      /\ w.reserved = v.reserved /\ w.scratch = v.scratch
  BY <1>1, <1>5 DEF VectorNames
<1>8. w \in Vectors(d)
  <2>1. w.mem \in Memory(w.reserved)
    BY <1>4, <1>7
  <2>2. /\ w.initial_size \in Nat \ {0} /\ w.buffer_minalign \in Nat \ {0}
        /\ w.block \in 0 .. 3 /\ w.heap \in SUBSET (1 .. 3)
        /\ w.reserved \in Nat /\ w.size \in Nat /\ w.scratch \in Nat
        /\ w.cur = w.reserved - w.size /\ w.scratch <= w.cur
        /\ w.block = 0 => w.reserved = 0
        /\ w.heap = {w.block, d} \ {0} /\ (w.block = d => d = 0)
    BY <1>7, VectorFields
  <2> QED BY <1>6, <2>1, <2>2, VectorIs
<1>9. \A a \in 0 .. p - 1 : w.mem[a] = v.mem[a]
  BY <1>1, <1>2, <1>3, <1>7
<1>10. ASSUME NEW i \in 1 .. Len(bytes) PROVE w.mem[p + i - 1] = bytes[i]
  <2>1. p + i - 1 \in p .. p + Len(bytes) - 1 /\ p + i - 1 \in 0 .. v.reserved - 1
        /\ p + i - 1 - p + 1 = i
    BY SMTT(30), <1>1, <1>2
  <2> QED BY <1>3, <1>7, <2>1
<1>11. \A a \in p + Len(bytes) .. v.reserved - 1 : w.mem[a] = v.mem[a]
  BY <1>1, <1>2, <1>3, <1>7
<1> QED BY <1>7, <1>8, <1>9, <1>10, <1>11 DEF w

(* push writes where it has made space. *)
LEMMA Pushes ==
  ASSUME NEW d \in 0 .. 3, NEW v \in Vectors(d), NEW bytes \in Seq(Int)
  PROVE  LET w == push(v, bytes)
         IN /\ w \in Vectors(d)
            /\ w.size = v.size + Len(bytes) /\ SameScratch(v, w)
            /\ Stays(v, w) /\ Holds(w, w.size, bytes)
<1> DEFINE u == make_space(v, Len(bytes))
           w == push(v, bytes)
<1>1. Len(bytes) \in Nat
  OBVIOUS
<1>2. u \in Vectors(d) /\ u.size = v.size + Len(bytes) /\ SameScratch(v, u) /\ Stays(v, u)
  BY <1>1, MakesSpace
<1>3. w = Put(u, u.cur, bytes)
  BY DEF push, PutAtCur
<1> HIDE DEF u, w
<1>4. u.cur \in Nat /\ u.cur + Len(bytes) <= u.reserved /\ u.scratch \in Nat /\ u.scratch <= u.cur
      /\ v.scratch = u.scratch
  <2>1. v.size \in Nat /\ u.reserved \in Nat /\ u.cur \in Nat /\ u.cur = u.reserved - u.size
    BY <1>2, VectorFields
  <2> QED BY <1>1, <1>2, <2>1, VectorFields DEF SameScratch
<1>5. /\ w \in Vectors(d) /\ w.size = u.size /\ w.scratch = u.scratch /\ w.reserved = u.reserved
      /\ \A a \in 0 .. u.cur - 1 : w.mem[a] = u.mem[a]
      /\ \A a \in u.cur + Len(bytes) .. u.reserved - 1 : w.mem[a] = u.mem[a]
      /\ \A i \in 1 .. Len(bytes) : w.mem[u.cur + i - 1] = bytes[i]
  BY <1>2, <1>3, <1>4, Puts
<1>6. SameScratch(v, w)
  <2>1. \A a \in 0 .. u.scratch - 1 : a \in 0 .. u.cur - 1
    BY <1>4
  <2> QED BY <1>2, <1>4, <1>5, <2>1 DEF SameScratch
<1>7. /\ v.size \in Nat /\ w.size \in Nat /\ u.reserved \in Nat /\ u.cur = u.reserved - u.size
      /\ u.size \in Nat /\ u.cur \in Nat
  BY <1>2, <1>5, VectorFields
<1>8. Stays(v, w)
  <2>1. ASSUME NEW k \in 1 .. v.size PROVE w.mem[w.reserved - k] = v.mem[v.reserved - k]
    <3>1. u.reserved - k \in u.cur + Len(bytes) .. u.reserved - 1
      BY <1>1, <1>2, <1>7, SMTT(40)
    <3>2. u.mem[u.reserved - k] = v.mem[v.reserved - k]
      BY <1>2 DEF Stays
    <3> QED BY <1>5, <3>1, <3>2
  <2>2. v.size <= w.size
    BY <1>1, <1>2, <1>5, <1>7
  <2> QED BY <2>1, <2>2 DEF Stays
<1>9. Holds(w, w.size, bytes)
  <2>1. ASSUME NEW i \in 1 .. Len(bytes) PROVE w.mem[w.reserved - (w.size - i + 1)] = bytes[i]
    <3>1. w.reserved - (w.size - i + 1) = u.cur + i - 1
      BY <1>5, <1>7
    <3> QED BY <1>5, <3>1
  <2>2. Len(bytes) <= w.size /\ w.size <= w.size
    BY <1>1, <1>2, <1>5, <1>7
  <2> QED BY <2>1, <2>2 DEF Holds
<1> QED BY <1>2, <1>5, <1>6, <1>8, <1>9 DEF w

(* fill pushes zeros. *)
LEMMA Fills ==
  ASSUME NEW d \in 0 .. 3, NEW v \in Vectors(d), NEW n \in Nat
  PROVE  LET w == fill(v, n)
         IN /\ w \in Vectors(d)
            /\ w.size = v.size + n /\ SameScratch(v, w)
            /\ Stays(v, w) /\ Holds(w, w.size, [i \in 1 .. n |-> 0])
<1> DEFINE zeros == [i \in 1 .. n |-> 0]
<1>1. zeros \in Seq(Int) /\ Len(zeros) = n
  OBVIOUS
<1>2. fill(v, n) = push(v, zeros)
  BY DEF fill
<1> DEFINE w == push(v, zeros)
<1> HIDE DEF zeros
<1>3. /\ w \in Vectors(d) /\ w.size = v.size + Len(zeros) /\ SameScratch(v, w)
      /\ Stays(v, w) /\ Holds(w, w.size, zeros)
  BY <1>1, Pushes
<1> HIDE DEF w
<1>4. /\ w \in Vectors(d) /\ w.size = v.size + n /\ SameScratch(v, w)
      /\ Stays(v, w) /\ Holds(w, w.size, zeros)
  BY <1>1, <1>3
<1> QED BY <1>2, <1>4 DEF w, zeros

(* What is pushed on the scratch pad can be read there. *)
LEMMA PushesOnScratch ==
  ASSUME NEW d \in 0 .. 3, NEW v \in Vectors(d), NEW bytes \in Seq(Int)
  PROVE  LET w == scratch_push_small(v, bytes)
         IN /\ w \in Vectors(d)
            /\ w.size = v.size /\ w.scratch = v.scratch + Len(bytes) /\ Stays(v, w)
            /\ \A a \in 0 .. v.scratch - 1 : w.mem[a] = v.mem[a]
            /\ \A i \in 1 .. Len(bytes) : w.mem[v.scratch + i - 1] = bytes[i]
<1> DEFINE u == ensure_space(v, Len(bytes))
           x == Put(u, u.scratch, bytes)
           w == scratch_push_small(v, bytes)
<1>1. Len(bytes) \in Nat
  OBVIOUS
<1>2. u \in Vectors(d) /\ u.size = v.size /\ SameScratch(v, u) /\ Stays(v, u)
      /\ Len(bytes) <= u.cur - u.scratch
  BY <1>1, EnsuresSpace
<1>3. w = [x EXCEPT !.scratch = @ + Len(bytes)]
  BY DEF scratch_push_small, PutAtScratch
<1> HIDE DEF u, w
<1>4. u.scratch \in Nat /\ u.scratch + Len(bytes) <= u.reserved /\ v.scratch = u.scratch
      /\ u.scratch + Len(bytes) <= u.cur
  <2>1. u.scratch \in Nat /\ u.cur \in Nat /\ u.size \in Nat /\ u.reserved \in Nat /\ u.cur = u.reserved - u.size
    BY <1>2, VectorFields
  <2> QED BY <1>1, <1>2, <2>1 DEF SameScratch
<1>5. /\ x \in Vectors(d)
      /\ x.size = u.size /\ x.scratch = u.scratch /\ x.cur = u.cur /\ x.reserved = u.reserved
      /\ \A a \in 0 .. u.scratch - 1 : x.mem[a] = u.mem[a]
      /\ \A a \in u.scratch + Len(bytes) .. u.reserved - 1 : x.mem[a] = u.mem[a]
      /\ \A i \in 1 .. Len(bytes) : x.mem[u.scratch + i - 1] = bytes[i]
  BY <1>2, <1>4, Puts
<1> HIDE DEF x
<1>6. x = [f \in VectorNames |-> x[f]]
  BY <1>5, VectorFields
<1>7. w = [f \in VectorNames |-> w[f]]
  BY <1>3, <1>6
<1>8. /\ w.mem = x.mem /\ w.cur = x.cur /\ w.size = x.size
      /\ w.initial_size = x.initial_size /\ w.buffer_minalign = x.buffer_minalign
      /\ w.block = x.block /\ w.heap = x.heap
      /\ w.reserved = x.reserved /\ w.scratch = x.scratch + Len(bytes)
  BY <1>3, <1>6 DEF VectorNames
<1>9. w \in Vectors(d)
  <2>1. w.scratch \in Nat /\ w.scratch <= w.cur
    BY <1>1, <1>4, <1>5, <1>8
  <2>2. w.mem \in Memory(w.reserved) /\ w.cur = w.reserved - w.size
    BY <1>5, <1>8, VectorFields
  <2>3. /\ w.initial_size \in Nat \ {0} /\ w.buffer_minalign \in Nat \ {0}
        /\ w.block \in 0 .. 3 /\ w.heap \in SUBSET (1 .. 3)
        /\ w.reserved \in Nat /\ w.size \in Nat
        /\ w.block = 0 => w.reserved = 0
        /\ w.heap = {w.block, d} \ {0} /\ (w.block = d => d = 0)
    BY SMTT(30), <1>5, <1>8, VectorFields
  <2> QED BY <1>7, <2>1, <2>2, <2>3, VectorIs
<1>10. Stays(v, w)
  <2>1. /\ u.cur \in Nat /\ u.size \in Nat /\ u.reserved \in Nat /\ u.cur = u.reserved - u.size
        /\ v.size \in Nat
    BY <1>2, VectorFields
  <2>2. ASSUME NEW k \in 1 .. v.size PROVE w.mem[w.reserved - k] = v.mem[v.reserved - k]
    <3>1. u.reserved - k \in u.scratch + Len(bytes) .. u.reserved - 1
      <4>1. k \in 1 .. u.size /\ u.scratch + Len(bytes) <= u.cur
        BY <1>2, <1>4
      <4> QED BY <1>1, <1>4, <2>1, <4>1
    <3>2. u.mem[u.reserved - k] = v.mem[v.reserved - k]
      BY <1>2 DEF Stays
    <3> QED BY <1>5, <1>8, <3>1, <3>2
  <2>3. v.size <= w.size
    BY <1>2, <1>5, <1>8, <2>1
  <2> QED BY <2>2, <2>3 DEF Stays
<1> QED BY <1>2, <1>4, <1>5, <1>8, <1>9, <1>10 DEF SameScratch, w

(* pop and scratch_pop take back no more than there is. *)
LEMMA Pops ==
  ASSUME NEW d, NEW v \in Vectors(d), NEW n \in 0 .. v.size
  PROVE  LET w == pop(v, n)
         IN /\ w \in Vectors(d)
            /\ w.size = v.size - n /\ SameScratch(v, w)
            /\ w.mem = v.mem /\ w.reserved = v.reserved
<1> DEFINE w == pop(v, n)
<1>1. w = [v EXCEPT !.cur = @ + n, !.size = @ - n]
  BY DEF pop
<1>2. v = [f \in VectorNames |-> v[f]]
  BY VectorFields
<1> HIDE DEF w
<1>3. w = [f \in VectorNames |-> w[f]]
  BY <1>1, <1>2
<1>4. /\ w.mem = v.mem /\ w.cur = v.cur + n /\ w.size = v.size - n
      /\ w.initial_size = v.initial_size /\ w.buffer_minalign = v.buffer_minalign
      /\ w.block = v.block /\ w.heap = v.heap
      /\ w.reserved = v.reserved /\ w.scratch = v.scratch
  BY <1>1, <1>2 DEF VectorNames
<1>5. v.size \in Nat /\ v.cur \in Nat /\ v.scratch \in Nat /\ v.scratch <= v.cur
      /\ v.reserved \in Nat /\ v.cur = v.reserved - v.size
  BY VectorFields
<1>6. w.size \in Nat /\ w.cur = w.reserved - w.size /\ w.scratch <= w.cur
  BY <1>4, <1>5
<1>7. w \in Vectors(d)
  BY <1>3, <1>4, <1>6, VectorFields, VectorIs
<1> QED BY <1>4, <1>7 DEF SameScratch, w

(* scratch_pop takes back no more of the scratch pad than there is. *)
LEMMA PopsScratch ==
  ASSUME NEW d, NEW v \in Vectors(d), NEW n \in 0 .. v.scratch
  PROVE  LET w == scratch_pop(v, n)
         IN /\ w \in Vectors(d)
            /\ w.size = v.size /\ w.scratch = v.scratch - n /\ w.mem = v.mem
            /\ w.reserved = v.reserved /\ Stays(v, w)
<1> DEFINE w == scratch_pop(v, n)
<1>1. w = [v EXCEPT !.scratch = @ - n]
  BY DEF scratch_pop
<1>2. v = [f \in VectorNames |-> v[f]]
  BY VectorFields
<1> HIDE DEF w
<1>3. w = [f \in VectorNames |-> w[f]]
  BY <1>1, <1>2
<1>4. /\ w.mem = v.mem /\ w.cur = v.cur /\ w.size = v.size
      /\ w.initial_size = v.initial_size /\ w.buffer_minalign = v.buffer_minalign
      /\ w.block = v.block /\ w.heap = v.heap
      /\ w.reserved = v.reserved /\ w.scratch = v.scratch - n
  BY <1>1, <1>2 DEF VectorNames
<1>5. w.scratch \in Nat /\ w.scratch <= w.cur
  <2>1. v.scratch \in Nat /\ v.cur \in Nat /\ v.scratch <= v.cur
    BY VectorFields
  <2> QED BY <1>4, <2>1
<1>6. w \in Vectors(d)
  BY <1>3, <1>4, <1>5, VectorFields, VectorIs
<1>7. Stays(v, w)
  BY <1>4, VectorFields, StaysSelf
<1> QED BY <1>4, <1>6, <1>7 DEF w

(* clear_scratch takes all of it back. *)
LEMMA ClearsScratch ==
  ASSUME NEW d, NEW v \in Vectors(d)
  PROVE  LET w == clear_scratch(v)
         IN /\ w \in Vectors(d) /\ w.scratch = 0
            /\ w.size = v.size /\ w.mem = v.mem /\ w.reserved = v.reserved /\ Stays(v, w)
<1>1. v = [f \in VectorNames |-> v[f]] /\ v.scratch \in 0 .. v.scratch
  BY VectorFields
<1>2. clear_scratch(v) = scratch_pop(v, v.scratch)
  <2>1. v.scratch - v.scratch = 0
    BY VectorFields
  <2> QED BY <2>1 DEF clear_scratch, scratch_pop
<1> DEFINE n == v.scratch
           w == scratch_pop(v, n)
<1>3. /\ w \in Vectors(d)
      /\ w.size = v.size /\ w.scratch = v.scratch - n /\ w.mem = v.mem
      /\ w.reserved = v.reserved /\ Stays(v, w)
  <2>1. n \in 0 .. v.scratch
    BY <1>1
  <2> HIDE DEF n
  <2> QED BY <2>1, PopsScratch
<1>4. v.scratch - n = 0
  BY VectorFields
<1> HIDE DEF w
<1> QED BY <1>2, <1>3, <1>4 DEF w

(* clear forgets what is in the block and keeps the block, however much    *)
(* of the scratch pad has been given back before.                          *)
LEMMA Clears ==
  ASSUME NEW d, NEW v,
         v = [f \in VectorNames |-> v[f]],
         v.initial_size \in Nat \ {0}, v.buffer_minalign \in Nat \ {0},
         v.block \in 0 .. 3, v.heap \in SUBSET (1 .. 3), v.reserved \in Nat,
         v.mem \in Memory(IF v.block = 0 THEN 0 ELSE v.reserved),
         v.heap = {v.block, d} \ {0}, v.block = d => d = 0
  PROVE  LET w == clear(v)
         IN w \in Vectors(d) /\ w.size = 0 /\ w.scratch = 0 /\ w.block = v.block
<1> DEFINE reserved == IF v.block # 0 THEN v.reserved ELSE 0
           mem == [a \in DOMAIN v.mem |-> Junk]
           w == clear(v)
<1>1. w = [v EXCEPT !.cur = reserved, !.reserved = reserved, !.mem = mem, !.size = 0, !.scratch = 0]
  BY DEF clear
<1>2. reserved \in Nat /\ (v.block = 0 => reserved = 0)
  OBVIOUS
<1>3. mem \in Memory(reserved)
  BY DEF Memory, Junk
<1> HIDE DEF reserved, mem, w
<1>4. w = [f \in VectorNames |-> w[f]]
  BY <1>1
<1>5. /\ w.mem = mem /\ w.cur = reserved /\ w.size = 0
      /\ w.initial_size = v.initial_size /\ w.buffer_minalign = v.buffer_minalign
      /\ w.block = v.block /\ w.heap = v.heap
      /\ w.reserved = reserved /\ w.scratch = 0
  BY <1>1 DEF VectorNames
<1>6. w \in Vectors(d)
  <2>1. w.cur = w.reserved - w.size /\ w.scratch <= w.cur /\ w.scratch \in Nat /\ w.size \in Nat
    BY <1>2, <1>5
  <2>2. w.mem \in Memory(w.reserved)
    BY <1>3, <1>5
  <2> QED BY <1>2, <1>4, <1>5, <2>1, <2>2, VectorIs
<1> QED BY <1>5, <1>6 DEF w

(* clear after a scratch_pop of whatever the builder counted. *)
LEMMA ClearsAll ==
  ASSUME NEW d, NEW v \in Vectors(d), NEW n
  PROVE  LET w == clear(scratch_pop(v, n))
         IN w \in Vectors(d) /\ w.size = 0 /\ w.scratch = 0
<1> DEFINE u == scratch_pop(v, n)
<1>1. u = [v EXCEPT !.scratch = @ - n]
  BY DEF scratch_pop
<1>2. v = [f \in VectorNames |-> v[f]]
  BY VectorFields
<1> HIDE DEF u
<1>3. u = [f \in VectorNames |-> u[f]]
  BY <1>1, <1>2
<1>4. /\ u.initial_size = v.initial_size /\ u.buffer_minalign = v.buffer_minalign
      /\ u.block = v.block /\ u.heap = v.heap /\ u.mem = v.mem /\ u.reserved = v.reserved
  BY <1>1, <1>2 DEF VectorNames
<1>5. u.mem \in Memory(IF u.block = 0 THEN 0 ELSE u.reserved)
  BY <1>4, VectorFields
<1>6. clear(u) \in Vectors(d) /\ clear(u).size = 0 /\ clear(u).scratch = 0
  BY <1>3, <1>4, <1>5, VectorFields, Clears
<1> QED BY <1>6 DEF u

(* reset frees the block. *)
LEMMA Resets ==
  ASSUME NEW d, NEW v \in Vectors(d)
  PROVE  reset(v) \in Vectors(d) /\ reset(v).scratch = 0 /\ reset(v).size = 0
<1> DEFINE u == clear_buffer(v)
<1>1. u = [v EXCEPT !.heap = @ \ {v.block}, !.block = 0, !.mem = << >>]
  BY DEF clear_buffer
<1>2. v = [f \in VectorNames |-> v[f]]
  BY VectorFields
<1> HIDE DEF u
<1>3. u = [f \in VectorNames |-> u[f]]
  BY <1>1, <1>2
<1>4. /\ u.initial_size = v.initial_size /\ u.buffer_minalign = v.buffer_minalign
      /\ u.block = 0 /\ u.heap = v.heap \ {v.block} /\ u.mem = << >> /\ u.reserved = v.reserved
  BY <1>1, <1>2 DEF VectorNames
<1>5. u.mem \in Memory(IF u.block = 0 THEN 0 ELSE u.reserved)
  BY <1>4 DEF Memory
<1>6. u.heap \in SUBSET (1 .. 3) /\ u.heap = {u.block, d} \ {0}
  BY <1>4, VectorFields
<1>7. clear(u) \in Vectors(d) /\ clear(u).scratch = 0 /\ clear(u).size = 0
  <2>1. /\ u.initial_size \in Nat \ {0} /\ u.buffer_minalign \in Nat \ {0}
        /\ u.block \in 0 .. 3 /\ u.reserved \in Nat /\ (u.block = d => d = 0)
    BY <1>4, VectorFields
  <2> QED BY <1>3, <1>5, <1>6, <2>1, Clears
<1> QED BY <1>7 DEF u, reset

(* release gives the block away, *)
LEMMA Releases ==
  ASSUME NEW v \in Vectors(0)
  PROVE  /\ release(v).detached \in 0 .. 3
         /\ release(v).vector \in Vectors(release(v).detached)
<1> DEFINE u == [v EXCEPT !.block = 0, !.mem = << >>]
<1>1. v = [f \in VectorNames |-> v[f]]
  BY VectorFields
<1>2. release(v) = [vector |-> clear(u), detached |-> v.block]
  BY DEF release
<1>3. u = [f \in VectorNames |-> u[f]]
  BY <1>1
<1>4. /\ u.initial_size = v.initial_size /\ u.buffer_minalign = v.buffer_minalign
      /\ u.block = 0 /\ u.heap = v.heap /\ u.mem = << >> /\ u.reserved = v.reserved
  BY <1>1 DEF VectorNames
<1> HIDE DEF u
<1>5. u.mem \in Memory(IF u.block = 0 THEN 0 ELSE u.reserved)
  BY <1>4 DEF Memory
<1>6. u.heap = {u.block, v.block} \ {0}
  BY <1>4, VectorFields
<1>7. clear(u) \in Vectors(v.block)
  <2>1. /\ u.initial_size \in Nat \ {0} /\ u.buffer_minalign \in Nat \ {0}
        /\ u.block \in 0 .. 3 /\ u.heap \in SUBSET (1 .. 3) /\ u.reserved \in Nat
        /\ (u.block = v.block => v.block = 0)
    BY <1>4, VectorFields
  <2> QED BY <1>3, <1>5, <1>6, <2>1, Clears
<1> QED BY <1>2, <1>7, VectorFields

(* which is freed later. *)
LEMMA Destroys ==
  ASSUME NEW d, d # 0, NEW v \in Vectors(d)
  PROVE  LET w == Destroyed(v, d)
         IN /\ w \in Vectors(0) /\ w.size = v.size /\ w.scratch = v.scratch /\ w.mem = v.mem
            /\ w.reserved = v.reserved
<1> DEFINE w == Destroyed(v, d)
<1>1. w = [v EXCEPT !.heap = @ \ {d}]
  BY DEF Destroyed
<1>2. v = [f \in VectorNames |-> v[f]]
  BY VectorFields
<1> HIDE DEF w
<1>3. w = [f \in VectorNames |-> w[f]]
  BY <1>1, <1>2
<1>4. /\ w.mem = v.mem /\ w.cur = v.cur /\ w.size = v.size
      /\ w.initial_size = v.initial_size /\ w.buffer_minalign = v.buffer_minalign
      /\ w.block = v.block /\ w.heap = v.heap \ {d}
      /\ w.reserved = v.reserved /\ w.scratch = v.scratch
  BY <1>1, <1>2 DEF VectorNames
<1>5. w.heap \in SUBSET (1 .. 3) /\ w.heap = {w.block, 0} \ {0}
  BY <1>4, VectorFields
<1>6. w \in Vectors(0)
  <2>1. w.mem \in Memory(w.reserved) /\ w.cur = w.reserved - w.size /\ w.scratch <= w.cur
    BY <1>4, VectorFields
  <2> QED BY <1>3, <1>4, <1>5, <2>1, VectorFields, VectorIs
<1> QED BY <1>4, <1>6 DEF w

(* A new vector has no block. *)
LEMMA NewVectors ==
  ASSUME NEW n \in Nat \ {0}, NEW m \in Nat \ {0}
  PROVE  /\ NewVector(n, m) \in Vectors(0)
         /\ NewVector(n, m).scratch = 0 /\ NewVector(n, m).size = 0
<1> DEFINE v == NewVector(n, m)
<1>1. v = [initial_size |-> n, buffer_minalign |-> m,
           block |-> 0, heap |-> {}, mem |-> << >>,
           reserved |-> 0, size |-> 0, cur |-> 0, scratch |-> 0]
  BY DEF NewVector
<1> HIDE DEF v
<1>2. v = [f \in VectorNames |-> v[f]]
  BY <1>1 DEF VectorNames
<1>3. v.mem \in Memory(v.reserved)
  BY <1>1 DEF Memory
<1>4. v \in Vectors(0)
  <2>1. /\ v.initial_size \in Nat \ {0} /\ v.buffer_minalign \in Nat \ {0}
        /\ v.block \in 0 .. 3 /\ v.heap \in SUBSET (1 .. 3)
        /\ v.reserved \in Nat /\ v.size \in Nat /\ v.scratch \in Nat
        /\ v.cur = v.reserved - v.size /\ v.scratch <= v.cur
        /\ (v.block = 0 => v.reserved = 0) /\ v.heap = {v.block, 0} \ {0}
    BY <1>1
  <2> QED BY <1>2, <1>3, <2>1, VectorIs
<1> QED BY <1>1, <1>4 DEF v

-----------------------------------------------------------------------------
(* Scalars, as they are written and read.                                  *)

(* What is serialized is clean again when bytes have been pushed, *)
LEMMA CleanOn ==
  ASSUME NEW v, NEW w, v.size \in Nat, w.size \in Nat, Clean(v), Stays(v, w),
         NEW s \in Seq(Byte), Holds(w, w.size, s), w.size = v.size + Len(s)
  PROVE  Clean(w)
<1> SUFFICES ASSUME NEW k \in 1 .. w.size PROVE w.mem[w.reserved - k] \in Byte
  BY DEF Clean
<1>0. Len(s) \in Nat /\ \A i \in 1 .. Len(s) : s[i] \in Byte
  BY LenProperties
<1>1. CASE k <= v.size
  <2>1. k \in 1 .. v.size
    BY <1>1
  <2> QED BY <2>1 DEF Clean, Stays
<1>2. CASE ~(k <= v.size)
  <2>1. w.size - k + 1 \in 1 .. Len(s) /\ w.size - (w.size - k + 1) + 1 = k
    <3> DEFINE n == Len(s)
    <3>1. n \in Nat /\ w.size = v.size + n /\ k \in 1 .. w.size /\ ~(k <= v.size)
      BY <1>0, <1>2
    <3> HIDE DEF n
    <3>2. ASSUME NEW x \in Nat, NEW y \in Nat, x = y + n, k \in 1 .. x, ~(k <= y)
          PROVE  x - k + 1 \in 1 .. n /\ x - (x - k + 1) + 1 = k
      BY <3>1, <3>2
    <3>3. w.size - k + 1 \in 1 .. n /\ w.size - (w.size - k + 1) + 1 = k
      BY <3>1, <3>2
    <3> QED BY <3>3 DEF n
  <2>2. w.mem[w.reserved - (w.size - (w.size - k + 1) + 1)] = s[w.size - k + 1]
    BY <2>1 DEF Holds
  <2> QED BY <1>0, <2>1, <2>2
<1> QED BY <1>1, <1>2

(* and when nothing more is. *)
LEMMA CleanSame ==
  ASSUME NEW v, NEW w, w.size = v.size, Clean(v), Stays(v, w)
  PROVE  Clean(w)
BY DEF Clean, Stays

(* What is popped off leaves the rest clean. *)
LEMMA CleanPart ==
  ASSUME NEW v, NEW w, v.size \in Nat, w.size \in Nat, w.size <= v.size, Clean(v),
         w.mem = v.mem, w.reserved = v.reserved
  PROVE  Clean(w)
<1>1. \A k \in 1 .. w.size : k \in 1 .. v.size
  OBVIOUS
<1> QED BY <1>1 DEF Clean

(* A scalar is as many bytes as its type has. *)
LEMMA ScalarBytes ==
  ASSUME NEW n \in Int, NEW size_ \in Nat
  PROVE  EndianScalar(n, size_) \in Seq(Byte) /\ Len(EndianScalar(n, size_)) = size_
<1> DEFINE value(i) == IF i > 4 THEN IF n < 0 THEN 255 ELSE 0
                                ELSE (n \div 256^(i - 1)) % 256
<1>1. ASSUME NEW i \in 1 .. size_ PROVE value(i) \in 0 .. 255
  <2>1. CASE i > 4
    BY <2>1
  <2>2. CASE i = 1
    BY <2>2
  <2>3. CASE i = 2
    BY <2>3
  <2>4. CASE i = 3
    BY <2>4
  <2>5. CASE i = 4
    BY <2>5
  <2> QED BY <2>1, <2>2, <2>3, <2>4, <2>5
<1>2. EndianScalar(n, size_) = [i \in 1 .. size_ |-> value(i)]
  BY DEF EndianScalar
<1> HIDE DEF value
<1> QED BY <1>1, <1>2 DEF Byte

(* Bytes are integers. *)
LEMMA BytesAreIntegers ==
  ASSUME NEW s \in Seq(Byte)
  PROVE  s \in Seq(Int)
<1> DEFINE n == Len(s)
<1>1. n \in Nat /\ s \in [1 .. n -> Byte]
  BY LenProperties
<1>2. \A x \in Byte : x \in Int
  BY DEF Byte
<1> HIDE DEF n
<1>3. s \in [1 .. n -> Int]
  BY <1>1, <1>2
<1> QED BY <1>1, <1>3

(* The four lower bytes of a scalar. *)
LEMMA LowerBytes ==
  ASSUME NEW n \in Int, NEW size_ \in Nat
  PROVE  /\ size_ >= 1 => EndianScalar(n, size_)[1] = n % 256
         /\ size_ >= 2 => EndianScalar(n, size_)[2] = (n \div 256) % 256
         /\ size_ >= 3 => EndianScalar(n, size_)[3] = (n \div 65536) % 256
         /\ size_ >= 4 => EndianScalar(n, size_)[4] = (n \div 16777216) % 256
<1>1. size_ >= 1 => EndianScalar(n, size_)[1] = n % 256
  BY DEF EndianScalar
<1>2. size_ >= 2 => EndianScalar(n, size_)[2] = (n \div 256) % 256
  BY DEF EndianScalar
<1>3. size_ >= 3 => EndianScalar(n, size_)[3] = (n \div 65536) % 256
  BY DEF EndianScalar
<1>4. size_ >= 4 => EndianScalar(n, size_)[4] = (n \div 16777216) % 256
  BY DEF EndianScalar
<1> QED BY <1>1, <1>2, <1>3, <1>4

(* A number is the sum of its bytes, the highest with its sign. *)
LEMMA FourBytes ==
  ASSUME NEW n \in Int, 0 <= n + 2147483648, n <= 2147483647
  PROVE  LET top == (n \div 16777216) % 256
         IN n = (IF top >= 128 THEN top - 256 ELSE top) * 16777216
                + ((n % 256) + 256 * ((n \div 256) % 256) + 65536 * ((n \div 65536) % 256))
<1> DEFINE q == n \div 256
           r == n \div 65536
           t == n \div 16777216
           top == t % 256
<1>1. /\ q \in Int /\ r \in Int /\ t \in Int
      /\ n % 256 \in 0 .. 255 /\ q % 256 \in 0 .. 255 /\ r % 256 \in 0 .. 255 /\ top \in 0 .. 255
  OBVIOUS
<1>2. n = 256 * q + (n % 256)
  OBVIOUS
<1>3. q = 256 * r + (q % 256)
  <2>1. q \div 256 = r
    OBVIOUS
  <2> QED BY <1>1, <2>1
<1>4. r = 256 * t + (r % 256)
  <2>1. r \div 256 = t
    OBVIOUS
  <2> QED BY <1>1, <2>1
<1>5. t = IF top >= 128 THEN top - 256 ELSE top
  <2>1. t <= 127 /\ 0 <= t + 128
    OBVIOUS
  <2>2. ASSUME NEW x \in Int, x <= 127, 0 <= x + 128
        PROVE  x = IF x % 256 >= 128 THEN (x % 256) - 256 ELSE x % 256
    <3>1. CASE 0 <= x
      BY <2>2, <3>1
    <3>2. CASE ~(0 <= x)
      BY <2>2, <3>2
    <3> QED BY <3>1, <3>2
  <2> HIDE DEF t
  <2> QED BY <1>1, <2>1, <2>2
<1>6. (n \div 16777216) % 256 = top
  OBVIOUS
<1> HIDE DEF q, r, t, top
<1>7. n = t * 16777216 + ((n % 256) + 256 * (q % 256) + 65536 * (r % 256))
  BY <1>1, <1>2, <1>3, <1>4
<1> QED BY <1>5, <1>7 DEF q, r, t, top

(* The bytes of s lie at p. *)
BytesAt(m, p, s) == \A i \in 1 .. Len(s) : m[p + i - 1] = s[i]

(* Two bytes are read as the number they were written for, *)
LEMMA TwoRead ==
  ASSUME NEW m, NEW p \in Int, NEW n \in Int, n \div 256 \in 0 .. 255,
         m[p] = n % 256, m[p + 1] = (n \div 256) % 256
  PROVE  ReadScalar(m, p, Scalar(2, FALSE)) = n
<1>1. ReadScalar(m, p, Scalar(2, FALSE)) = m[p + 2 - 1] * 256^(2 - 1) + m[p]
  BY DEF ReadScalar, ReadBytes, Scalar, High
<1>2. p + 2 - 1 = p + 1 /\ 256^(2 - 1) = 256
  OBVIOUS
<1>4. (n \div 256) % 256 = n \div 256
  BY SMT
<1>5. (n \div 256) * 256 + (n % 256) = n
  BY SMT
<1>6. m[p + 1] = n \div 256
  BY <1>4, Zenon
<1> QED BY <1>1, <1>2, <1>5, <1>6, Zenon

(* and so are four. *)
LEMMA FourSum ==
  ASSUME NEW n \in Values(4)
  PROVE  LET e == EndianScalar(n, 4)
         IN n = High(e[4], TRUE) * 256^(4 - 1) + (e[1] + 256 * e[2] + 256^2 * e[3])
<1> DEFINE e   == EndianScalar(n, 4)
           top == (n \div 16777216) % 256
           h   == IF top >= 128 THEN top - 256 ELSE top
           x0  == n % 256
           x1  == (n \div 256) % 256
           x2  == (n \div 65536) % 256
<1>0. n \in Int /\ 0 <= n + 2147483648 /\ n <= 2147483647
  BY SMT DEF Values
<1>1. top \in Int /\ h \in Int /\ x0 \in Int /\ x1 \in Int /\ x2 \in Int
  BY <1>0, SMT
<1>2. n = h * 16777216 + (x0 + 256 * x1 + 65536 * x2)
  BY <1>0, FourBytes, SMT
<1>3. e[1] = x0 /\ e[2] = x1 /\ e[3] = x2 /\ e[4] = top
  BY <1>0, LowerBytes, SMT
<1>4. h = IF top >= 128 THEN top - 256 ELSE top
  BY SMT
<1> HIDE DEF e, top, h, x0, x1, x2
<1>5. High(e[4], TRUE) = h
  BY <1>3, <1>4, SMT DEF High
<1>6. 256^(4 - 1) = 16777216 /\ 256^2 = 65536
  BY SMT
<1>7. n = h * 256^(4 - 1) + (x0 + 256 * x1 + 256^2 * x2)
  BY <1>1, <1>2, <1>6, SMT
<1>8. n = High(e[4], TRUE) * 256^(4 - 1) + (e[1] + 256 * e[2] + 256^2 * e[3])
  BY <1>3, <1>5, <1>7, Zenon
<1> QED BY <1>8, Zenon DEF e

(* The four bytes of a number, wherever they are, are read as the number.  *)
LEMMA FourRead ==
  ASSUME NEW m, NEW p \in Int, NEW n \in Values(4),
         m[p] = EndianScalar(n, 4)[1], m[p + 1] = EndianScalar(n, 4)[2],
         m[p + 2] = EndianScalar(n, 4)[3], m[p + 3] = EndianScalar(n, 4)[4]
  PROVE  ReadBytes(m, p, 4, TRUE) = n
<1>1. ReadBytes(m, p, 4, TRUE)
        = High(m[p + 4 - 1], TRUE) * 256^(4 - 1) + (m[p] + 256 * m[p + 1] + 256^2 * m[p + 2])
  <2>1. 4 # 1 /\ 4 # 2
    BY SMT
  <2> QED BY <2>1, Zenon DEF ReadBytes
<1>2. p + 4 - 1 = p + 3
  BY SMT
<1>3. ReadBytes(m, p, 4, TRUE)
        = High(EndianScalar(n, 4)[4], TRUE) * 256^(4 - 1)
          + (EndianScalar(n, 4)[1] + 256 * EndianScalar(n, 4)[2] + 256^2 * EndianScalar(n, 4)[3])
  BY <1>1, <1>2, ZenonT(40)
<1>4. n = High(EndianScalar(n, 4)[4], TRUE) * 256^(4 - 1)
          + (EndianScalar(n, 4)[1] + 256 * EndianScalar(n, 4)[2] + 256^2 * EndianScalar(n, 4)[3])
  BY FourSum, Zenon
<1> QED BY <1>3, <1>4, Zenon

(* The lower half of a scalar of eight bytes is one of four. *)
LEMMA LowerHalf ==
  ASSUME NEW n \in Int
  PROVE  /\ EndianScalar(n, 8)[1] = EndianScalar(n, 4)[1]
         /\ EndianScalar(n, 8)[2] = EndianScalar(n, 4)[2]
         /\ EndianScalar(n, 8)[3] = EndianScalar(n, 4)[3]
         /\ EndianScalar(n, 8)[4] = EndianScalar(n, 4)[4]
BY DEF EndianScalar

(* A scalar of one or two bytes is read as it was written, *)
LEMMA ReadsOne ==
  ASSUME NEW m, NEW p \in Int, NEW n \in Values(1), BytesAt(m, p, EndianScalar(n, 1))
  PROVE  ReadScalar(m, p, Scalar(1, FALSE)) = n
<1>1. n \in Int /\ n \in 0 .. 255
  BY SMT DEF Values
<1>2. Len(EndianScalar(n, 1)) = 1
  BY <1>1, ScalarBytes
<1>3. m[p + 1 - 1] = EndianScalar(n, 1)[1]
  BY <1>2 DEF BytesAt
<1>4. EndianScalar(n, 1)[1] = n % 256
  BY <1>1, LowerBytes
<1>5. ReadScalar(m, p, Scalar(1, FALSE)) = m[p + 1 - 1] * 256^(1 - 1) + 0
  BY DEF ReadScalar, ReadBytes, Scalar, High
<1>6. n % 256 = n /\ 256^(1 - 1) = 1 /\ n * 1 + 0 = n
  BY <1>1
<1> QED BY <1>3, <1>4, <1>5, <1>6, Zenon

(* So are two bytes. *)
LEMMA ReadsTwo ==
  ASSUME NEW m, NEW p \in Int, NEW n \in Values(2), BytesAt(m, p, EndianScalar(n, 2))
  PROVE  ReadScalar(m, p, Scalar(2, FALSE)) = n
<1>1. n \in Int /\ 0 <= n /\ n < 65536
  BY SMT DEF Values
<1>2. Len(EndianScalar(n, 2)) = 2
  <2>1. n \in Int /\ 2 \in Nat
    BY <1>1, SMT
  <2> QED BY <2>1, ScalarBytes
<1>3. m[p + 1 - 1] = EndianScalar(n, 2)[1] /\ m[p + 2 - 1] = EndianScalar(n, 2)[2]
  BY <1>2, SMT DEF BytesAt
<1>4. p + 1 - 1 = p /\ p + 2 - 1 = p + 1
  BY SMT
<1>5. EndianScalar(n, 2)[1] = n % 256 /\ EndianScalar(n, 2)[2] = (n \div 256) % 256
  BY <1>1, LowerBytes, SMT
<1>6. m[p] = n % 256 /\ m[p + 1] = (n \div 256) % 256
  BY <1>3, <1>4, <1>5, Zenon
<1>7. n \div 256 \in 0 .. 255
  BY <1>1, SMT
<1>8. n \in Int
  BY <1>1, SMT
<1> QED BY <1>6, <1>7, <1>8, TwoRead

(* and so is one of four, with or without a sign, or of eight. *)
LEMMA ReadsLarge ==
  ASSUME NEW m, NEW p \in Int, NEW size_ \in {4, 8}, NEW n \in Values(size_), NEW signed \in BOOLEAN,
         BytesAt(m, p, EndianScalar(n, size_))
  PROVE  ReadScalar(m, p, Scalar(size_, signed)) = n
<1>1. size_ \in Nat /\ n \in Int /\ n \in Values(4)
  BY SMT DEF Values
<1>2. /\ m[p] = EndianScalar(n, 4)[1] /\ m[p + 1] = EndianScalar(n, 4)[2]
      /\ m[p + 2] = EndianScalar(n, 4)[3] /\ m[p + 3] = EndianScalar(n, 4)[4]
  <2>0. Len(EndianScalar(n, size_)) = size_
    BY <1>1, ScalarBytes
  <2>1. /\ m[p + 1 - 1] = EndianScalar(n, size_)[1] /\ m[p + 2 - 1] = EndianScalar(n, size_)[2]
        /\ m[p + 3 - 1] = EndianScalar(n, size_)[3] /\ m[p + 4 - 1] = EndianScalar(n, size_)[4]
    BY <2>0, SMT DEF BytesAt
  <2>2. p + 1 - 1 = p /\ p + 2 - 1 = p + 1 /\ p + 3 - 1 = p + 2 /\ p + 4 - 1 = p + 3
    BY SMT
  <2>3. CASE size_ = 4
    BY <2>1, <2>2, <2>3, Zenon
  <2>4. CASE size_ = 8
    BY <1>1, <2>1, <2>2, <2>4, LowerHalf, Zenon
  <2> QED BY <2>3, <2>4
<1>3. ReadScalar(m, p, Scalar(size_, signed)) = ReadBytes(m, p, 4, TRUE)
  <2>1. size_ # 1 /\ size_ # 2
    OBVIOUS
  <2>2. /\ Scalar(size_, signed).size = size_ /\ Scalar(size_, signed).signed = signed
    BY SMT DEF Scalar
  <2>3. (IF Scalar(size_, signed).size = 8 THEN 4 ELSE Scalar(size_, signed).size) = 4
    BY <2>2, SMT
  <2>4. (Scalar(size_, signed).signed \/ Scalar(size_, signed).size >= 4) = TRUE
    <3>1. Scalar(size_, signed).size >= 4
      BY <2>2, SMT
    <3>2. Scalar(size_, signed).signed \in BOOLEAN
      BY <2>2, SMT
    <3> QED BY <3>1, <3>2, Zenon
  <2> QED BY <2>3, <2>4, Zenon DEF ReadScalar
<1>4. ReadBytes(m, p, 4, TRUE) = n
  BY <1>1, <1>2, FourRead, ZenonT(40)
<1> QED BY <1>3, <1>4, Zenon

(* A scalar that is held reads back. *)
LEMMA ReadsHeld ==
  ASSUME NEW v, v.reserved \in Int, NEW o \in Int, NEW size_ \in Sizes, NEW n \in Values(size_),
         Holds(v, o, EndianScalar(n, size_))
  PROVE  /\ ReadScalar(v.mem, v.reserved - o, Scalar(size_, FALSE)) = n
         /\ size_ = 4 => ReadScalar(v.mem, v.reserved - o, Scalar(size_, TRUE)) = n
<1> DEFINE p == v.reserved - o
<1>1. size_ \in Nat /\ n \in Int /\ p \in Int /\ size_ \in {1, 2, 4, 8}
  BY SMT DEF Sizes, Values
<1>2. BytesAt(v.mem, p, EndianScalar(n, size_))
  <2> DEFINE s == EndianScalar(n, size_)
  <2>0. Len(s) \in Nat
    BY <1>1, ScalarBytes
  <2> HIDE DEF s
  <2> SUFFICES ASSUME NEW i \in 1 .. Len(s) PROVE v.mem[p + i - 1] = s[i]
    BY DEF BytesAt, s
  <2>1. v.mem[v.reserved - (o - i + 1)] = s[i]
    BY DEF Holds, s
  <2>2. v.reserved - (o - i + 1) = p + i - 1
    BY <2>0
  <2> QED BY <2>1, <2>2
<1> HIDE DEF p
<1>3. CASE size_ = 1
  <2>1. size_ # 4
    BY <1>3, SMT
  <2> QED BY <1>1, <1>2, <1>3, <2>1, ReadsOne, Zenon DEF p
<1>4. CASE size_ = 2
  <2>1. size_ # 4
    BY <1>4, SMT
  <2> QED BY <1>1, <1>2, <1>4, <2>1, ReadsTwo, Zenon DEF p
<1>5. CASE size_ = 4
  BY <1>1, <1>2, <1>5, ReadsLarge, Zenon DEF p
<1>6. CASE size_ = 8
  BY <1>1, <1>2, <1>6, ReadsLarge, Zenon DEF p
<1> QED BY <1>1, <1>3, <1>4, <1>5, <1>6, Zenon

(* A size that fits in a FieldLoc or in a reference does as a scalar. *)
LEMMA SmallSizes ==
  /\ FLATBUFFERS_MAX_BUFFER_SIZE \in Nat
  /\ \A n \in Nat : n <= FLATBUFFERS_MAX_BUFFER_SIZE => n \in Values(4)
BY SMT DEF FLATBUFFERS_MAX_BUFFER_SIZE, Values

(* The bytes read for a scalar of two or four are those of its own. *)
LEMMA ReadsSame ==
  ASSUME NEW m, NEW k, NEW p \in Int, NEW q \in Int, k[q] = m[p], k[q + 1] = m[p + 1]
  PROVE  /\ ReadScalar(k, q, voffset_t) = ReadScalar(m, p, voffset_t)
         /\ k[q + 2] = m[p + 2] /\ k[q + 3] = m[p + 3] =>
              ReadScalar(k, q, uoffset_t) = ReadScalar(m, p, uoffset_t)
<1> DEFINE two(x, a) == High(x[a + 1], FALSE) * 256^(2 - 1) + x[a]
           four(x, a) == High(x[a + 3], TRUE) * 256^(4 - 1) + (x[a] + 256 * x[a + 1] + 256^2 * x[a + 2])
<1>1. ASSUME NEW x, NEW a \in Int
      PROVE  ReadScalar(x, a, voffset_t) = two(x, a) /\ ReadScalar(x, a, uoffset_t) = four(x, a)
  <2>1. a + 2 - 1 = a + 1 /\ a + 4 - 1 = a + 3 /\ 4 # 1 /\ 4 # 2 /\ 2 # 1 /\ 2 # 8 /\ 4 # 8
        /\ ~(2 >= 4) /\ 4 >= 4
    OBVIOUS
  <2>2. voffset_t.size = 2 /\ voffset_t.signed = FALSE /\ uoffset_t.size = 4 /\ uoffset_t.signed = FALSE
    BY DEF voffset_t, uoffset_t, Scalar
  <2>3. ReadScalar(x, a, voffset_t) = ReadBytes(x, a, 2, FALSE)
    <3>1. (voffset_t.signed \/ voffset_t.size >= 4) = FALSE
      BY <2>1, <2>2, Zenon
    <3> QED BY <2>1, <2>2, <3>1, Zenon DEF ReadScalar
  <2>4. ReadScalar(x, a, uoffset_t) = ReadBytes(x, a, 4, TRUE)
    <3>1. (uoffset_t.signed \/ uoffset_t.size >= 4) = TRUE
      BY <2>1, <2>2, Zenon
    <3> QED BY <2>1, <2>2, <3>1, Zenon DEF ReadScalar
  <2>5. ReadBytes(x, a, 2, FALSE) = High(x[a + 2 - 1], FALSE) * 256^(2 - 1) + x[a]
    BY <2>1, Zenon DEF ReadBytes
  <2>6. ReadBytes(x, a, 4, TRUE)
          = High(x[a + 4 - 1], TRUE) * 256^(4 - 1) + (x[a] + 256 * x[a + 1] + 256^2 * x[a + 2])
    BY <2>1, Zenon DEF ReadBytes
  <2> QED BY <2>1, <2>3, <2>4, <2>5, <2>6, ZenonT(40)
<1>2. two(k, q) = two(m, p)
  BY Zenon
<1>3. k[q + 2] = m[p + 2] /\ k[q + 3] = m[p + 3] => four(k, q) = four(m, p)
  BY Zenon
<1> HIDE DEF two, four
<1> QED BY <1>1, <1>2, <1>3

(* Padding brings to the next multiple of an alignment, *)
LEMMA PaddingExact ==
  ASSUME NEW n \in Int, NEW k \in Alignments
  PROVE  /\ PaddingBytes(n, k) \in 0 .. k - 1
         /\ (n + PaddingBytes(n, k)) % k = 0
         /\ n % k = 0 => PaddingBytes(n, k) = 0
<1>1. k \in {1, 2, 4, 8, 16, 32}
  BY DEF Alignments
<1>2. CASE k = 1
  BY <1>2 DEF PaddingBytes
<1>3. CASE k = 2
  BY <1>3 DEF PaddingBytes
<1>4. CASE k = 4
  BY <1>4 DEF PaddingBytes
<1>5. CASE k = 8
  BY <1>5 DEF PaddingBytes
<1>6. CASE k = 16
  BY <1>6 DEF PaddingBytes
<1>7. CASE k = 32
  BY <1>7 DEF PaddingBytes
<1> QED BY <1>1, <1>2, <1>3, <1>4, <1>5, <1>6, <1>7

(* and a multiple of one is one of each smaller. *)
LEMMA SmallerAlignment ==
  ASSUME NEW n \in Int, NEW j \in Alignments, NEW k \in Alignments, j <= k, n % k = 0
  PROVE  n % j = 0
<1>1. j \in {1, 2, 4, 8, 16, 32} /\ k \in {1, 2, 4, 8, 16, 32}
  BY DEF Alignments
<1>2. CASE j = 1
  BY <1>2
<1>3. CASE j = 2
  BY <1>1, <1>3
<1>4. CASE j = 4
  BY <1>1, <1>4
<1>5. CASE j = 8
  BY <1>1, <1>5
<1>6. CASE j = 16
  BY <1>1, <1>6
<1>7. CASE j = 32
  BY <1>1, <1>7
<1> QED BY <1>1, <1>2, <1>3, <1>4, <1>5, <1>6, <1>7

(* Sums of multiples are multiples. *)
LEMMA SumAligned ==
  ASSUME NEW n \in Int, NEW m \in Int, NEW k \in Alignments, n % k = 0
  PROVE  /\ (n + m) % k = m % k
         /\ (n - m) % k = 0 => m % k = 0
<1>1. k \in {1, 2, 4, 8, 16, 32}
  BY DEF Alignments
<1>2. CASE k = 1
  BY <1>2
<1>3. CASE k = 2
  BY <1>3
<1>4. CASE k = 4
  BY <1>4
<1>5. CASE k = 8
  BY <1>5
<1>6. CASE k = 16
  BY <1>6
<1>7. CASE k = 32
  BY <1>7
<1> QED BY <1>1, <1>2, <1>3, <1>4, <1>5, <1>6, <1>7

(* The offsets in a vtable are even and fit in its two bytes. *)
LEMMA VOffsetsAre ==
  /\ \A f \in VOffsets : f \in Nat /\ 4 <= f /\ f <= 65532 /\ f % 2 = 0 /\ f \in Int
  /\ \A f \in VOffsets : f \in Values(2)
<1>1. \A f \in VOffsets : f \in Nat /\ f \in Int
  BY SMT DEF VOffsets
<1>2. \A f \in VOffsets : 4 <= f /\ f <= 65532
  BY SMT DEF VOffsets
<1>3. \A f \in VOffsets : f % 2 = 0
  BY SMTT(40) DEF VOffsets
<1>4. \A f \in Nat : f <= 65532 => f \in Values(2)
  BY SMT DEF Values
<1>5. \A f \in VOffsets : f \in Values(2)
  BY <1>1, <1>2, <1>4, SMT
<1> QED BY <1>1, <1>2, <1>3, <1>5, SMT

-----------------------------------------------------------------------------
(* A builder of which the scratch pad ends with a FieldLoc for each field  *)
(* of the table being built, the id of none larger than max_voffset_, and  *)
(* holds before them only whole offsets.                                   *)
BuilderType(d) ==
  [buf : Vectors(d), num_field_loc : Nat, max_voffset_ : {0} \union VOffsets,
   nested : BOOLEAN, finished : BOOLEAN, minalign_ : Alignments,
   force_defaults_ : BOOLEAN, dedup_vtables_ : BOOLEAN,
   string_pool : SUBSET Nat, ok : BOOLEAN]
BuilderNames == {"buf", "num_field_loc", "max_voffset_", "nested", "finished", "minalign_",
                 "force_defaults_", "dedup_vtables_", "string_pool", "ok"}

Locs(v, n) ==
  [i \in 1 .. n |->
     [off |-> ReadScalar(v.mem, v.scratch - (n - i + 1) * 8, uoffset_t),
      id  |-> ReadScalar(v.mem, v.scratch - (n - i + 1) * 8 + 4, voffset_t)]]
LocsFit(v, n, max) ==
  /\ n * 8 <= v.scratch
  /\ (v.scratch - n * 8) % 4 = 0
  /\ \A i \in 1 .. n : Locs(v, n)[i].id \in VOffsets /\ Locs(v, n)[i].id <= max

Builders(d) ==
  {b_ \in BuilderType(d) :
     Clean(b_.buf) /\ LocsFit(b_.buf, b_.num_field_loc, b_.max_voffset_)}

(* The builders that b becomes when more is serialized. *)
SameTable(b_, c) ==
  /\ c.num_field_loc = b_.num_field_loc /\ c.max_voffset_ = b_.max_voffset_
  /\ c.nested = b_.nested /\ c.string_pool = b_.string_pool
SameFlags(b_, c) ==
  /\ c.finished = b_.finished /\ c.force_defaults_ = b_.force_defaults_
  /\ c.dedup_vtables_ = b_.dedup_vtables_
  /\ c.ok => b_.ok
SameMinAlign(b_, c) == c.minalign_ = b_.minalign_ /\ c.ok = b_.ok
Grown(b_, d) ==
  {c \in Builders(d) :
     /\ SameTable(b_, c) /\ SameFlags(b_, c) /\ b_.minalign_ <= c.minalign_
     /\ SameScratch(b_.buf, c.buf) /\ Stays(b_.buf, c.buf)}

(* What membership in Builders says of each field of a builder. *)
LEMMA BuilderFields ==
  ASSUME NEW d, NEW b_ \in Builders(d)
  PROVE  /\ b_ = [f \in BuilderNames |-> b_[f]]
         /\ b_.buf \in Vectors(d) /\ b_.num_field_loc \in Nat
         /\ b_.max_voffset_ \in {0} \union VOffsets
         /\ b_.nested \in BOOLEAN /\ b_.finished \in BOOLEAN /\ b_.minalign_ \in Alignments
         /\ b_.force_defaults_ \in BOOLEAN /\ b_.dedup_vtables_ \in BOOLEAN
         /\ b_.string_pool \in SUBSET Nat /\ b_.ok \in BOOLEAN
         /\ LocsFit(b_.buf, b_.num_field_loc, b_.max_voffset_)
         /\ Clean(b_.buf)
<1>1. /\ b_ \in BuilderType(d) /\ LocsFit(b_.buf, b_.num_field_loc, b_.max_voffset_)
      /\ Clean(b_.buf)
  BY DEF Builders
<1> QED BY <1>1 DEF BuilderType, BuilderNames

(* A record whose fields are so is such a builder. *)
LEMMA BuilderIs ==
  ASSUME NEW d, NEW b_,
         b_ = [f \in BuilderNames |-> b_[f]],
         b_.buf \in Vectors(d), b_.num_field_loc \in Nat, b_.max_voffset_ \in {0} \union VOffsets,
         b_.nested \in BOOLEAN, b_.finished \in BOOLEAN, b_.minalign_ \in Alignments,
         b_.force_defaults_ \in BOOLEAN, b_.dedup_vtables_ \in BOOLEAN,
         b_.string_pool \in SUBSET Nat, b_.ok \in BOOLEAN,
         LocsFit(b_.buf, b_.num_field_loc, b_.max_voffset_), Clean(b_.buf)
  PROVE  b_ \in Builders(d)
<1>1. b_ \in BuilderType(d)
  BY DEF BuilderType, BuilderNames
<1> QED BY <1>1 DEF Builders

(* The numbers among the fields. *)
LEMMA BuilderNumbers ==
  ASSUME NEW d, NEW b_ \in Builders(d)
  PROVE  /\ b_.buf.size \in Nat /\ b_.buf.scratch \in Nat /\ b_.buf.reserved \in Nat
         /\ b_.max_voffset_ \in Nat /\ b_.minalign_ \in Nat
<1>1. /\ b_.buf \in Vectors(d) /\ b_.max_voffset_ \in {0} \union VOffsets
      /\ b_.minalign_ \in Alignments
  BY BuilderFields
<1>2. b_.max_voffset_ \in Nat
  BY <1>1, VOffsetsAre
<1>3. b_.minalign_ \in Nat
  BY <1>1 DEF Alignments
<1> QED BY <1>1, <1>2, <1>3, VectorFields

(* What grows, grows on. *)
LEMMA GrownOn ==
  ASSUME NEW d, NEW b_ \in Builders(d), NEW c \in Grown(b_, d), NEW e \in Grown(c, d)
  PROVE  e \in Grown(b_, d)
<1>0. c \in Builders(d) /\ e \in Builders(d)
  BY DEF Grown
<1>1. /\ b_.buf.size \in Nat /\ c.buf.size \in Nat /\ e.buf.size \in Nat
      /\ b_.minalign_ \in Nat /\ c.minalign_ \in Nat /\ e.minalign_ \in Nat
  BY <1>0, BuilderNumbers
<1>2. Stays(b_.buf, e.buf)
  BY <1>1, StaysOn DEF Grown
<1>3. SameScratch(b_.buf, e.buf)
  BY DEF Grown, SameScratch
<1>4. b_.minalign_ <= e.minalign_
  BY <1>1 DEF Grown
<1>5. SameTable(b_, e) /\ SameFlags(b_, e)
  BY DEF Grown, SameTable, SameFlags
<1> QED BY <1>0, <1>2, <1>3, <1>4, <1>5 DEF Grown

(* The FieldLocs stay where the scratch pad does. *)
LEMMA LocsSame ==
  ASSUME NEW v, v.scratch \in Nat, NEW w, SameScratch(v, w),
         NEW n \in Nat, n * 8 <= v.scratch
  PROVE  Locs(w, n) = Locs(v, n)
<1>1. w.scratch = v.scratch
  BY DEF SameScratch
<1>2. ASSUME NEW i \in 1 .. n
      PROVE  /\ ReadScalar(w.mem, w.scratch - (n - i + 1) * 8, uoffset_t)
                  = ReadScalar(v.mem, v.scratch - (n - i + 1) * 8, uoffset_t)
             /\ ReadScalar(w.mem, w.scratch - (n - i + 1) * 8 + 4, voffset_t)
                  = ReadScalar(v.mem, v.scratch - (n - i + 1) * 8 + 4, voffset_t)
  <2> DEFINE p == v.scratch - (n - i + 1) * 8
  <2>1. /\ p \in Int /\ p + 4 \in Int /\ p + 4 + 1 = p + 5
        /\ p \in 0 .. v.scratch - 1 /\ p + 1 \in 0 .. v.scratch - 1 /\ p + 2 \in 0 .. v.scratch - 1
        /\ p + 3 \in 0 .. v.scratch - 1 /\ p + 4 \in 0 .. v.scratch - 1
        /\ p + 5 \in 0 .. v.scratch - 1
    OBVIOUS
  <2> HIDE DEF p
  <2>2. /\ w.mem[p] = v.mem[p] /\ w.mem[p + 1] = v.mem[p + 1] /\ w.mem[p + 2] = v.mem[p + 2]
        /\ w.mem[p + 3] = v.mem[p + 3] /\ w.mem[p + 4] = v.mem[p + 4]
        /\ w.mem[p + 4 + 1] = v.mem[p + 4 + 1]
    BY <2>1 DEF SameScratch
  <2>3. ReadScalar(w.mem, p, uoffset_t) = ReadScalar(v.mem, p, uoffset_t)
    BY <2>1, <2>2, ReadsSame, ZenonT(40)
  <2>4. ReadScalar(w.mem, p + 4, voffset_t) = ReadScalar(v.mem, p + 4, voffset_t)
    BY <2>1, <2>2, ReadsSame
  <2> QED BY <1>1, <2>3, <2>4 DEF p
<1> QED BY <1>2 DEF Locs

(* The FieldLocs fit as long as the scratch pad stays as it is. *)
LEMMA LocsStay ==
  ASSUME NEW d, NEW v \in Vectors(d), NEW w, SameScratch(v, w),
         NEW n \in Nat, NEW max, LocsFit(v, n, max)
  PROVE  LocsFit(w, n, max)
<1>1. v.scratch \in Nat /\ w.scratch = v.scratch /\ n * 8 <= v.scratch
  BY VectorFields DEF SameScratch, LocsFit
<1>2. Locs(w, n) = Locs(v, n)
  BY <1>1, LocsSame
<1> QED BY <1>1, <1>2 DEF LocsFit

(* They are what the builder takes them for. *)
LEMMA FieldLocsAre ==
  ASSUME NEW b_
  PROVE  FieldLocs(b_) = Locs(b_.buf, b_.num_field_loc)
BY DEF FieldLocs, Locs, SizeOfFieldLoc, uoffset_t, Scalar

(* A builder that only grows keeps the FieldLocs of its table. *)
LEMMA FieldLocsStay ==
  ASSUME NEW d, NEW b_ \in Builders(d), NEW c \in Grown(b_, d)
  PROVE  FieldLocs(c) = FieldLocs(b_)
<1>1. /\ b_.buf.scratch \in Nat /\ b_.num_field_loc \in Nat /\ b_.num_field_loc * 8 <= b_.buf.scratch
      /\ SameScratch(b_.buf, c.buf) /\ c.num_field_loc = b_.num_field_loc
  BY BuilderFields, BuilderNumbers DEF LocsFit, Grown, SameTable
<1> QED BY <1>1, LocsSame, FieldLocsAre

(* A builder with another vector, possibly beside another detached block,  *)
(* of which the scratch pad is the same.                                   *)
LEMMA WithBuffer ==
  ASSUME NEW d, NEW d2, NEW b_ \in Builders(d), NEW w \in Vectors(d2), SameScratch(b_.buf, w),
         Clean(w)
  PROVE  LET c == [b_ EXCEPT !.buf = w]
         IN /\ c \in Builders(d2)
            /\ c.buf = w /\ SameTable(b_, c) /\ SameFlags(b_, c) /\ SameMinAlign(b_, c)
<1> DEFINE c == [b_ EXCEPT !.buf = w]
<1>1. b_ = [f \in BuilderNames |-> b_[f]] /\ b_.buf \in Vectors(d) /\ b_.num_field_loc \in Nat
  BY BuilderFields
<1>2. c = [f \in BuilderNames |-> c[f]]
  BY <1>1
<1>3. /\ c.buf = w /\ c.num_field_loc = b_.num_field_loc /\ c.max_voffset_ = b_.max_voffset_
      /\ c.nested = b_.nested /\ c.finished = b_.finished /\ c.minalign_ = b_.minalign_
      /\ c.force_defaults_ = b_.force_defaults_ /\ c.dedup_vtables_ = b_.dedup_vtables_
      /\ c.string_pool = b_.string_pool /\ c.ok = b_.ok
  BY <1>1 DEF BuilderNames
<1> HIDE DEF c
<1>4. LocsFit(c.buf, c.num_field_loc, c.max_voffset_)
  BY <1>1, <1>3, BuilderFields, LocsStay
<1>5. c \in Builders(d2)
  BY <1>2, <1>3, <1>4, BuilderFields, BuilderIs
<1> QED BY <1>3, <1>5 DEF SameTable, SameFlags, SameMinAlign, c

(* A builder whose vector holds more than before has grown. *)
LEMMA WithGrown ==
  ASSUME NEW d, NEW b_ \in Builders(d), NEW w \in Vectors(d), SameScratch(b_.buf, w),
         Stays(b_.buf, w), Clean(w)
  PROVE  LET c == [b_ EXCEPT !.buf = w]
         IN c \in Grown(b_, d) /\ c.buf = w /\ SameMinAlign(b_, c)
<1> DEFINE c == [b_ EXCEPT !.buf = w]
<1>1. c \in Builders(d) /\ c.buf = w /\ SameTable(b_, c) /\ SameFlags(b_, c) /\ SameMinAlign(b_, c)
  BY WithBuffer
<1> HIDE DEF c
<1>2. b_.minalign_ <= c.minalign_
  BY <1>1, BuilderNumbers DEF SameMinAlign
<1> QED BY <1>1, <1>2 DEF Grown, c

(* PushBytes and Pad. *)
LEMMA PushesBytes ==
  ASSUME NEW d \in 0 .. 3, NEW b_ \in Builders(d), NEW bytes \in Seq(Byte)
  PROVE  LET c == PushBytes(b_, bytes)
         IN /\ c \in Grown(b_, d) /\ c.buf.size = b_.buf.size + Len(bytes)
            /\ Holds(c.buf, c.buf.size, bytes) /\ SameMinAlign(b_, c)
<1> DEFINE w == push(b_.buf, bytes)
<1>1. b_.buf \in Vectors(d) /\ b_.buf.size \in Nat /\ Len(bytes) \in Nat /\ bytes \in Seq(Int)
      /\ Clean(b_.buf)
  BY BuilderFields, VectorFields, BytesAreIntegers
<1>2. w \in Vectors(d) /\ w.size = b_.buf.size + Len(bytes) /\ SameScratch(b_.buf, w)
      /\ Stays(b_.buf, w) /\ Holds(w, w.size, bytes)
  BY <1>1, Pushes
<1>3. PushBytes(b_, bytes) = [b_ EXCEPT !.buf = w]
  BY DEF PushBytes
<1> HIDE DEF w
<1>4. Clean(w)
  <2>1. w.size \in Nat
    BY <1>2, VectorFields
  <2> QED BY <1>1, <1>2, <2>1, CleanOn
<1> QED BY <1>2, <1>3, <1>4, WithGrown

(* Pad adds n bytes to what is serialized. *)
LEMMA PadsBytes ==
  ASSUME NEW d \in 0 .. 3, NEW b_ \in Builders(d), NEW n \in Nat
  PROVE  LET c == Pad(b_, n)
         IN /\ c \in Grown(b_, d) /\ c.buf.size = b_.buf.size + n
            /\ Holds(c.buf, c.buf.size, [i \in 1 .. n |-> 0]) /\ SameMinAlign(b_, c)
<1> DEFINE zeros == [i \in 1 .. n |-> 0]
<1>1. zeros \in Seq(Byte) /\ Len(zeros) = n
  BY DEF Byte
<1>2. Pad(b_, n) = PushBytes(b_, zeros)
  BY DEF Pad, PushBytes, fill
<1> HIDE DEF zeros
<1> QED BY <1>1, <1>2, PushesBytes DEF zeros

(* TrackMinAlign leaves the vector as it is. *)
LEMMA TracksMinAlign ==
  ASSUME NEW d, NEW b_ \in Builders(d), NEW n \in Alignments
  PROVE  LET c == TrackMinAlign(b_, n)
         IN /\ c \in Grown(b_, d) /\ c.buf = b_.buf /\ n <= c.minalign_ /\ c.ok = b_.ok
            /\ n <= b_.minalign_ => c.minalign_ = b_.minalign_
<1> DEFINE c == TrackMinAlign(b_, n)
<1>1. b_ = [f \in BuilderNames |-> b_[f]] /\ b_.minalign_ \in Alignments /\ b_.buf \in Vectors(d)
  BY BuilderFields
<1>2. c = [b_ EXCEPT !.minalign_ = Larger(@, n)]
  BY DEF TrackMinAlign
<1> HIDE DEF c
<1>3. c = [f \in BuilderNames |-> c[f]]
  BY <1>1, <1>2
<1>4. /\ c.buf = b_.buf /\ c.num_field_loc = b_.num_field_loc /\ c.max_voffset_ = b_.max_voffset_
      /\ c.nested = b_.nested /\ c.finished = b_.finished /\ c.minalign_ = Larger(b_.minalign_, n)
      /\ c.force_defaults_ = b_.force_defaults_ /\ c.dedup_vtables_ = b_.dedup_vtables_
      /\ c.string_pool = b_.string_pool /\ c.ok = b_.ok
  BY <1>1, <1>2 DEF BuilderNames
<1>5. /\ c.minalign_ \in Alignments /\ n <= c.minalign_ /\ b_.minalign_ <= c.minalign_
      /\ n <= b_.minalign_ => c.minalign_ = b_.minalign_
  BY <1>1, <1>4 DEF Larger, Alignments
<1>6. c \in Builders(d)
  <2>1. LocsFit(c.buf, c.num_field_loc, c.max_voffset_)
    BY <1>4, BuilderFields
  <2> QED BY <1>3, <1>4, <1>5, <2>1, BuilderFields, BuilderIs
<1>7. Stays(b_.buf, c.buf)
  BY <1>1, <1>4, VectorFields, StaysSelf
<1> QED BY <1>4, <1>5, <1>6, <1>7 DEF Grown, SameTable, SameFlags, SameScratch, c

(* A builder grows by nothing. *)
LEMMA Unchanged ==
  ASSUME NEW d, NEW b_ \in Builders(d)
  PROVE  b_ \in Grown(b_, d)
<1>1. b_.buf.size \in Nat /\ b_.minalign_ \in Nat
  BY BuilderNumbers
<1>2. Stays(b_.buf, b_.buf)
  BY <1>1, StaysSelf
<1>3. b_.minalign_ <= b_.minalign_
  BY <1>1
<1> QED BY <1>2, <1>3 DEF Grown, SameTable, SameFlags, SameScratch

(* Align and PreAlign. *)
LEMMA Aligns ==
  ASSUME NEW d \in 0 .. 3, NEW b_ \in Builders(d), NEW n \in Alignments
  PROVE  LET c == Align(b_, n)
         IN /\ c \in Grown(b_, d) /\ n <= c.minalign_ /\ c.ok = b_.ok
            /\ c.buf.size = b_.buf.size + PaddingBytes(b_.buf.size, n) /\ c.buf.size % n = 0
            /\ n <= b_.minalign_ => c.minalign_ = b_.minalign_
<1> DEFINE t == TrackMinAlign(b_, n)
           padding == PaddingBytes(b_.buf.size, n)
           c == Align(b_, n)
<1>1. /\ t \in Grown(b_, d) /\ t \in Builders(d) /\ t.buf = b_.buf /\ n <= t.minalign_ /\ t.ok = b_.ok
      /\ n <= b_.minalign_ => t.minalign_ = b_.minalign_
  BY TracksMinAlign DEF Grown
<1>2. b_.buf.size \in Int /\ padding \in Nat /\ (b_.buf.size + padding) % n = 0
  <2>1. b_.buf.size \in Int /\ n \in Nat
    BY BuilderNumbers DEF Alignments
  <2>2. padding \in 0 .. n - 1 /\ (b_.buf.size + padding) % n = 0
    BY <2>1, PaddingExact
  <2> HIDE DEF padding
  <2> QED BY <2>1, <2>2
<1>3. c = Pad(t, padding)
  BY DEF Align, GetSize
<1> HIDE DEF t, padding, c
<1>4. c \in Grown(t, d) /\ c.buf.size = t.buf.size + padding /\ SameMinAlign(t, c)
  BY <1>1, <1>2, <1>3, PadsBytes
<1>5. n <= c.minalign_ /\ c.ok = b_.ok /\ (n <= b_.minalign_ => c.minalign_ = b_.minalign_)
  BY <1>1, <1>4 DEF SameMinAlign
<1>6. c.buf.size = b_.buf.size + padding /\ c.buf.size % n = 0
  BY <1>1, <1>2, <1>4
<1> QED BY <1>1, <1>4, <1>5, <1>6, GrownOn DEF c, padding

(* PreAlign only makes the builder grow. *)
LEMMA PreAligns ==
  ASSUME NEW d \in 0 .. 3, NEW b_ \in Builders(d), NEW len \in Int, NEW n \in Alignments
  PROVE  LET c == PreAlign(b_, len, n)
         IN /\ c \in Grown(b_, d) /\ c.ok = b_.ok
            /\ len = 0 => c = b_
            /\ len # 0 => n <= c.minalign_ /\ (c.buf.size + len) % n = 0
            /\ (b_.buf.size + len) % n = 0 => c.buf.size = b_.buf.size
            /\ n <= b_.minalign_ => c.minalign_ = b_.minalign_
<1>1. CASE len = 0
  <2>1. PreAlign(b_, len, n) = b_
    BY <1>1 DEF PreAlign
  <2> QED BY <1>1, <2>1, Unchanged
<1>2. CASE len # 0
  <2> DEFINE t == TrackMinAlign(b_, n)
             padding == PaddingBytes(b_.buf.size + len, n)
             c == PreAlign(b_, len, n)
  <2>1. /\ t \in Grown(b_, d) /\ t \in Builders(d) /\ t.buf = b_.buf /\ n <= t.minalign_ /\ t.ok = b_.ok
        /\ n <= b_.minalign_ => t.minalign_ = b_.minalign_
    BY TracksMinAlign DEF Grown
  <2>2. /\ b_.buf.size \in Int /\ padding \in Nat /\ (b_.buf.size + len + padding) % n = 0
        /\ (b_.buf.size + len) % n = 0 => padding = 0
    <3>1. b_.buf.size \in Int /\ b_.buf.size + len \in Int /\ n \in Nat
      BY BuilderNumbers DEF Alignments
    <3>2. /\ padding \in 0 .. n - 1 /\ (b_.buf.size + len + padding) % n = 0
          /\ (b_.buf.size + len) % n = 0 => padding = 0
      BY <3>1, PaddingExact
    <3> HIDE DEF padding
    <3> QED BY <3>1, <3>2
  <2>3. c = Pad(t, padding)
    BY <1>2 DEF PreAlign, GetSize
  <2> HIDE DEF t, padding, c
  <2>4. c \in Grown(t, d) /\ c.buf.size = t.buf.size + padding /\ SameMinAlign(t, c)
    BY <2>1, <2>2, <2>3, PadsBytes
  <2>5. n <= c.minalign_ /\ c.ok = b_.ok /\ (n <= b_.minalign_ => c.minalign_ = b_.minalign_)
    BY <2>1, <2>4 DEF SameMinAlign
  <2>6. (c.buf.size + len) % n = 0
    <3>1. c.buf.size + len = b_.buf.size + len + padding
      BY <2>1, <2>2, <2>4
    <3> QED BY <2>2, <3>1
  <2>7. (b_.buf.size + len) % n = 0 => c.buf.size = b_.buf.size
    BY <2>1, <2>2, <2>4
  <2> QED BY <1>2, <2>1, <2>4, <2>5, <2>6, <2>7, GrownOn DEF c
<1> QED BY <1>1, <1>2

(* PushElement writes the bytes of a scalar behind their padding. *)
LEMMA PushesElement ==
  ASSUME NEW d \in 0 .. 3, NEW b_ \in Builders(d), NEW n \in Int, NEW size_ \in Sizes
  PROVE  LET c == PushElement(b_, n, size_)
         IN /\ c \in Grown(b_, d) /\ c.ok = b_.ok
            /\ c.buf.size = b_.buf.size + PaddingBytes(b_.buf.size, size_) + size_
            /\ c.buf.size % size_ = 0 /\ size_ <= c.minalign_
            /\ size_ <= b_.minalign_ => c.minalign_ = b_.minalign_
            /\ Holds(c.buf, c.buf.size, EndianScalar(n, size_))
<1> DEFINE a == Align(b_, size_)
           bytes == EndianScalar(n, size_)
           c == PushElement(b_, n, size_)
           padding == PaddingBytes(b_.buf.size, size_)
<1>0. size_ \in Alignments /\ size_ \in Nat
  BY DEF Sizes, Alignments
<1>1. /\ a \in Grown(b_, d) /\ a \in Builders(d) /\ size_ <= a.minalign_ /\ a.ok = b_.ok
      /\ a.buf.size = b_.buf.size + padding /\ a.buf.size % size_ = 0
      /\ size_ <= b_.minalign_ => a.minalign_ = b_.minalign_
  BY <1>0, Aligns DEF Grown
<1>2. bytes \in Seq(Byte) /\ Len(bytes) = size_
  BY <1>0, ScalarBytes
<1>3. c = PushBytes(a, bytes)
  BY DEF PushElement
<1> HIDE DEF a, bytes, c, padding
<1>4. c \in Grown(a, d) /\ c.buf.size = a.buf.size + Len(bytes) /\ Holds(c.buf, c.buf.size, bytes)
      /\ SameMinAlign(a, c)
  BY <1>1, <1>2, <1>3, PushesBytes
<1>5. size_ <= c.minalign_ /\ c.ok = b_.ok /\ (size_ <= b_.minalign_ => c.minalign_ = b_.minalign_)
  BY <1>1, <1>4 DEF SameMinAlign
<1>6. c.buf.size = b_.buf.size + padding + size_
  BY <1>1, <1>2, <1>4
<1>7. c.buf.size % size_ = 0
  <2>1. a.buf.size \in Nat /\ c.buf.size = a.buf.size + size_
    BY <1>1, <1>2, <1>4, BuilderNumbers
  <2>2. size_ \in {1, 2, 4, 8}
    BY DEF Sizes
  <2>3. \A k \in Nat : k % size_ = 0 => (k + size_) % size_ = 0
    BY <2>2
  <2> QED BY <1>1, <2>1, <2>3
<1>8. c \in Grown(b_, d)
  BY <1>1, <1>4, GrownOn
<1> QED BY <1>4, <1>5, <1>6, <1>7, <1>8 DEF c, padding, bytes

(* An assertion changes only ok. *)
LEMMA Asserts ==
  ASSUME NEW d, NEW b_ \in Builders(d), NEW condition
  PROVE  LET c == Assert_(b_, condition)
         IN /\ c \in Grown(b_, d) /\ c.buf = b_.buf /\ c.minalign_ = b_.minalign_
            /\ c.ok => condition
<1> DEFINE c == Assert_(b_, condition)
<1>1. b_ = [f \in BuilderNames |-> b_[f]] /\ b_.buf \in Vectors(d)
  BY BuilderFields
<1>2. c = [b_ EXCEPT !.ok = @ /\ condition]
  BY DEF Assert_
<1> HIDE DEF c
<1>3. c = [f \in BuilderNames |-> c[f]]
  BY <1>1, <1>2
<1>4. /\ c.buf = b_.buf /\ c.num_field_loc = b_.num_field_loc /\ c.max_voffset_ = b_.max_voffset_
      /\ c.nested = b_.nested /\ c.finished = b_.finished /\ c.minalign_ = b_.minalign_
      /\ c.force_defaults_ = b_.force_defaults_ /\ c.dedup_vtables_ = b_.dedup_vtables_
      /\ c.string_pool = b_.string_pool
  BY <1>1, <1>2 DEF BuilderNames
<1>5. c.ok \in BOOLEAN /\ (c.ok => b_.ok /\ condition)
  BY <1>1, <1>2 DEF BuilderNames
<1>6. c \in Builders(d)
  <2>1. LocsFit(c.buf, c.num_field_loc, c.max_voffset_)
    BY <1>4, BuilderFields
  <2> QED BY <1>3, <1>4, <1>5, <2>1, BuilderFields, BuilderIs
<1>7. Stays(b_.buf, c.buf)
  BY <1>1, <1>4, VectorFields, StaysSelf
<1>8. b_.minalign_ <= c.minalign_
  BY <1>4, BuilderNumbers
<1> QED BY <1>4, <1>5, <1>6, <1>7, <1>8 DEF Grown, SameTable, SameFlags, SameScratch, c

(* ReferTo aligns the builder and gives the distance to what is referred   *)
(* to, which the builder must hold.                                        *)
LEMMA RefersTo ==
  ASSUME NEW d \in 0 .. 3, NEW b_ \in Builders(d), NEW off \in Int
  PROVE  LET r == ReferTo(b_, off)
         IN /\ r.b \in Grown(b_, d) /\ r.ref = r.b.buf.size - off + 4 /\ r.ref \in Int
            /\ r.b.buf.size = b_.buf.size + PaddingBytes(b_.buf.size, 4)
            /\ r.b.buf.size % 4 = 0 /\ 4 <= r.b.minalign_
            /\ 4 <= b_.minalign_ => r.b.minalign_ = b_.minalign_
            /\ r.b.ok => off # 0 /\ off <= r.b.buf.size
<1> DEFINE a == Align(b_, uoffset_t.size)
           condition == off # 0 /\ off <= GetSize(a)
           e == ReferTo(b_, off).b
           padding == PaddingBytes(b_.buf.size, 4)
<1>0. uoffset_t.size = 4 /\ 4 \in Alignments
  BY DEF uoffset_t, Scalar, Alignments
<1>1. /\ a \in Grown(b_, d) /\ a \in Builders(d) /\ 4 <= a.minalign_
      /\ a.buf.size = b_.buf.size + padding /\ a.buf.size % 4 = 0
      /\ 4 <= b_.minalign_ => a.minalign_ = b_.minalign_
  BY <1>0, Aligns DEF Grown
<1>2. /\ e = Assert_(a, condition)
      /\ ReferTo(b_, off).ref = a.buf.size - off + 4
  BY <1>0 DEF ReferTo, ReferHere, GetSize
<1>3. a.buf.size \in Nat
  BY <1>1, BuilderNumbers
<1>4. condition => off # 0 /\ off <= a.buf.size
  BY DEF GetSize
<1> HIDE DEF a, condition, e, padding
<1>5. e \in Grown(a, d) /\ e.buf = a.buf /\ e.minalign_ = a.minalign_ /\ (e.ok => condition)
  BY <1>1, <1>2, Asserts
<1>6. e.ok => off # 0 /\ off <= e.buf.size
  BY <1>4, <1>5
<1>7. e \in Grown(b_, d)
  BY <1>1, <1>5, GrownOn
<1>8. ReferTo(b_, off).ref = e.buf.size - off + 4 /\ ReferTo(b_, off).ref \in Int
  BY <1>2, <1>3, <1>5
<1>9. /\ e.buf.size = b_.buf.size + padding /\ e.buf.size % 4 = 0 /\ 4 <= e.minalign_
      /\ 4 <= b_.minalign_ => e.minalign_ = b_.minalign_
  BY <1>1, <1>5
<1> QED BY <1>6, <1>7, <1>8, <1>9 DEF e, padding

(* PushOffset writes a reference. *)
LEMMA PushesOffset ==
  ASSUME NEW d \in 0 .. 3, NEW b_ \in Builders(d), NEW off \in Int
  PROVE  LET c == PushOffset(b_, off)
         IN /\ c \in Grown(b_, d)
            /\ c.buf.size = b_.buf.size + PaddingBytes(b_.buf.size, 4) + 4
            /\ c.buf.size % 4 = 0 /\ 4 <= c.minalign_
            /\ 4 <= b_.minalign_ => c.minalign_ = b_.minalign_
            /\ Holds(c.buf, c.buf.size, EndianScalar(c.buf.size - off, 4))
            /\ c.ok => off # 0 /\ off + 4 <= c.buf.size
<1> DEFINE r == ReferTo(b_, off)
           c == PushOffset(b_, off)
           padding == PaddingBytes(b_.buf.size, 4)
<1>0. 4 \in Sizes /\ 4 \in Alignments
  BY DEF Sizes, Alignments
<1>1. /\ r.b \in Grown(b_, d) /\ r.b \in Builders(d) /\ r.ref = r.b.buf.size - off + 4 /\ r.ref \in Int
      /\ r.b.buf.size = b_.buf.size + padding /\ r.b.buf.size % 4 = 0
      /\ (r.b.ok => off # 0 /\ off <= r.b.buf.size)
      /\ (4 <= b_.minalign_ => r.b.minalign_ = b_.minalign_)
  BY RefersTo DEF Grown
<1>2. c = PushElement(r.b, r.ref, 4)
  BY DEF PushOffset, PushReference, uoffset_t, Scalar
<1>3. r.b.buf.size \in Nat
  BY <1>1, BuilderNumbers
<1>4. PaddingBytes(r.b.buf.size, 4) = 0
  BY <1>0, <1>1, <1>3, PaddingExact
<1> HIDE DEF r, c, padding
<1>5. /\ c \in Grown(r.b, d) /\ c.ok = r.b.ok
      /\ c.buf.size = r.b.buf.size + PaddingBytes(r.b.buf.size, 4) + 4
      /\ c.buf.size % 4 = 0 /\ 4 <= c.minalign_ /\ Holds(c.buf, c.buf.size, EndianScalar(r.ref, 4))
      /\ (4 <= r.b.minalign_ => c.minalign_ = r.b.minalign_)
  BY <1>0, <1>1, <1>2, PushesElement
<1>6. c.buf.size = r.b.buf.size + 4
  BY <1>3, <1>4, <1>5
<1>7. c.buf.size = b_.buf.size + padding + 4 /\ r.ref = c.buf.size - off
  BY <1>1, <1>3, <1>6
<1>8. c.ok => off # 0 /\ off + 4 <= c.buf.size
  <2>1. ASSUME off <= r.b.buf.size PROVE off + 4 <= c.buf.size
    BY <1>3, <1>6, <2>1
  <2> QED BY <1>1, <1>5, <2>1
<1>9. c \in Grown(b_, d)
  BY <1>1, <1>5, GrownOn
<1>10. 4 <= b_.minalign_ => c.minalign_ = b_.minalign_
  BY <1>1, <1>5
<1> QED BY <1>5, <1>7, <1>8, <1>9, <1>10 DEF c, padding

-----------------------------------------------------------------------------
(* The builders that b becomes when fields are added: the scratch pad is   *)
(* the same before the FieldLocs.                                          *)
Base(b_) == b_.buf.scratch - b_.num_field_loc * 8
SamePad(b_, c) ==
  /\ Base(c) = Base(b_)
  /\ \A a \in 0 .. Base(b_) - 1 : c.buf.mem[a] = b_.buf.mem[a]
Extended(b_, d) ==
  {c \in Builders(d) :
     /\ c.nested = b_.nested /\ c.string_pool = b_.string_pool
     /\ SameFlags(b_, c) /\ b_.minalign_ <= c.minalign_
     /\ SamePad(b_, c) /\ Stays(b_.buf, c.buf)}

(* Those that hold a field more, the last bytes serialized.                *)
Added(b_, d, field, bytes, n) ==
  {c \in Extended(b_, d) :
     /\ c.num_field_loc = b_.num_field_loc + 1
     /\ \A i \in 1 .. b_.num_field_loc : FieldLocs(c)[i] = FieldLocs(b_)[i]
     /\ FieldLocs(c)[b_.num_field_loc + 1].id = field
     /\ c.buf.size <= FLATBUFFERS_MAX_BUFFER_SIZE =>
          FieldLocs(c)[b_.num_field_loc + 1].off = c.buf.size
     /\ b_.buf.size + Len(bytes) <= c.buf.size
     /\ Holds(c.buf, c.buf.size, bytes)
     /\ c.buf.size % n = 0 /\ n <= c.minalign_}

(* The scratch pad before the FieldLocs are whole offsets. *)
LEMMA BaseIs ==
  ASSUME NEW d, NEW b_ \in Builders(d)
  PROVE  Base(b_) \in Nat /\ Base(b_) % 4 = 0 /\ Base(b_) <= b_.buf.scratch
<1>1. /\ b_.num_field_loc \in Nat /\ b_.buf.scratch \in Nat
      /\ LocsFit(b_.buf, b_.num_field_loc, b_.max_voffset_)
  BY BuilderFields, BuilderNumbers
<1> QED BY <1>1 DEF Base, LocsFit

(* A builder that grows adds no field. *)
LEMMA GrownIsExtended ==
  ASSUME NEW d, NEW b_ \in Builders(d), NEW c \in Grown(b_, d)
  PROVE  c \in Extended(b_, d)
<1>1. Base(c) = Base(b_)
  BY DEF Grown, SameTable, SameScratch, Base
<1>2. Base(b_) \in Nat /\ b_.buf.scratch \in Nat /\ Base(b_) <= b_.buf.scratch
  BY BaseIs, BuilderNumbers
<1>3. \A a \in 0 .. Base(b_) - 1 : a \in 0 .. b_.buf.scratch - 1
  BY <1>2
<1>4. SamePad(b_, c)
  BY <1>1, <1>3 DEF SamePad, Grown, SameScratch
<1> QED BY <1>4 DEF Grown, Extended, SameTable

(* What is extended by fields is extended on. *)
LEMMA ExtendedOn ==
  ASSUME NEW d, NEW b_ \in Builders(d), NEW c \in Extended(b_, d), NEW e \in Extended(c, d)
  PROVE  e \in Extended(b_, d)
<1>0. c \in Builders(d) /\ e \in Builders(d)
  BY DEF Extended
<1>1. /\ b_.buf.size \in Nat /\ c.buf.size \in Nat /\ e.buf.size \in Nat
      /\ b_.minalign_ \in Nat /\ c.minalign_ \in Nat /\ e.minalign_ \in Nat
  BY <1>0, BuilderNumbers
<1>2. Stays(b_.buf, e.buf)
  BY <1>1, StaysOn DEF Extended
<1>3. SamePad(b_, e)
  BY DEF Extended, SamePad
<1>4. b_.minalign_ <= e.minalign_
  BY <1>1 DEF Extended
<1>5. SameFlags(b_, e) /\ e.nested = b_.nested /\ e.string_pool = b_.string_pool
  BY DEF Extended, SameFlags
<1> QED BY <1>0, <1>2, <1>3, <1>4, <1>5 DEF Extended

(* An element of a sequence behind another. *)
LEMMA InBoth ==
  ASSUME NEW s \in Seq(Int), NEW t \in Seq(Int), NEW k \in 1 .. Len(s) + Len(t)
  PROVE  /\ k <= Len(s) => (s \o t)[k] = s[k]
         /\ ~(k <= Len(s)) => (s \o t)[k] = t[k - Len(s)]
BY ConcatProperties

(* The first four bytes of a FieldLoc are those of the offset, the next    *)
(* two those of the id.                                                    *)
LEMMA ThreeParts ==
  ASSUME NEW s \in Seq(Int), NEW t \in Seq(Int), NEW u \in Seq(Int),
         Len(s) = 4, Len(t) = 2, Len(u) = 2
  PROVE  LET w == s \o t \o u
         IN /\ w \in Seq(Int) /\ Len(w) = 8
            /\ \A i \in 1 .. 4 : w[i] = s[i]
            /\ \A i \in 1 .. 2 : w[i + 4] = t[i]
<1> DEFINE q == s \o t
<1>2. q \in Seq(Int) /\ Len(q) = 6
  <2>1. q \in Seq(Int) /\ Len(q) = Len(s) + Len(t)
    BY ConcatProperties
  <2> QED BY <2>1
<1>3. \A i \in 1 .. 4 : q[i] = s[i]
  <2>1. ASSUME NEW i \in 1 .. 4 PROVE i \in 1 .. Len(s) + Len(t) /\ i <= Len(s)
    OBVIOUS
  <2> QED BY <2>1, InBoth
<1>4. \A i \in 1 .. 2 : q[i + 4] = t[i]
  <2>1. /\ 5 \in 1 .. Len(s) + Len(t) /\ ~(5 <= Len(s)) /\ 5 - Len(s) = 1
        /\ 6 \in 1 .. Len(s) + Len(t) /\ ~(6 <= Len(s)) /\ 6 - Len(s) = 2
    OBVIOUS
  <2>2. q[5] = t[5 - Len(s)]
    BY <2>1, InBoth
  <2>3. q[6] = t[6 - Len(s)]
    BY <2>1, InBoth
  <2>4. q[5] = t[1] /\ q[6] = t[2]
    BY <2>1, <2>2, <2>3
  <2> HIDE DEF q
  <2> QED BY <2>4
<1> HIDE DEF q
<1>5. (q \o u) \in Seq(Int) /\ Len(q \o u) = Len(q) + Len(u)
  BY <1>2, ConcatProperties
<1>6. \A j \in 1 .. 6 : (q \o u)[j] = q[j]
  <2>1. ASSUME NEW j \in 1 .. 6 PROVE j \in 1 .. Len(q) + Len(u) /\ j <= Len(q)
    BY <1>2
  <2> QED BY <1>2, <2>1, InBoth
<1>7. \A i \in 1 .. 4 : (q \o u)[i] = s[i]
  <2>1. \A i \in 1 .. 4 : i \in 1 .. 6
    OBVIOUS
  <2> QED BY <1>3, <1>6, <2>1
<1>8. \A i \in 1 .. 2 : (q \o u)[i + 4] = t[i]
  <2>1. \A i \in 1 .. 2 : i + 4 \in 1 .. 6
    OBVIOUS
  <2> QED BY <1>4, <1>6, <2>1
<1>9. Len(q) + Len(u) = 8
  BY <1>2
<1> QED BY <1>5, <1>7, <1>8, <1>9 DEF q

(* The parts of a FieldLoc as the scratch pad holds them. *)
LEMMA FieldLocBytes ==
  ASSUME NEW off \in Int, NEW field \in VOffsets
  PROVE  LET bytes == FieldLoc(off, field)
         IN /\ bytes \in Seq(Int) /\ Len(bytes) = 8
            /\ \A i \in 1 .. 4 : bytes[i] = EndianScalar(off, 4)[i]
            /\ \A i \in 1 .. 2 : bytes[i + 4] = EndianScalar(field, 2)[i]
<1> DEFINE o == EndianScalar(off, 4)
           i == EndianScalar(field, 2)
           bytes == FieldLoc(off, field)
<1>1. o \in Seq(Int) /\ Len(o) = 4 /\ i \in Seq(Int) /\ Len(i) = 2
  <2>1. 4 \in Nat /\ 2 \in Nat /\ field \in Int
    BY VOffsetsAre
  <2> HIDE DEF o, i
  <2>2. o \in Seq(Int) /\ Len(o) = 4
    BY <2>1, ScalarBytes, BytesAreIntegers DEF o
  <2>3. i \in Seq(Int) /\ Len(i) = 2
    BY <2>1, ScalarBytes, BytesAreIntegers DEF i
  <2> QED BY <2>2, <2>3
<1>3. bytes = o \o i \o <<Junk, Junk>>
  BY DEF FieldLoc
<1> HIDE DEF o, i, bytes
<1>4. <<Junk, Junk>> \in Seq(Int) /\ Len(<<Junk, Junk>>) = 2
  BY DEF Junk
<1> QED BY <1>1, <1>3, <1>4, ThreeParts, SMTT(40) DEF o, i, bytes

(* A FieldLoc of which the bytes are the same is the same. *)
LEMMA LocReads ==
  ASSUME NEW m, NEW k, NEW p \in Int, \A j \in 0 .. 5 : k[p + j] = m[p + j]
  PROVE  /\ ReadScalar(k, p, uoffset_t) = ReadScalar(m, p, uoffset_t)
         /\ ReadScalar(k, p + 4, voffset_t) = ReadScalar(m, p + 4, voffset_t)
<1>1. /\ p + 4 \in Int /\ p + 0 = p /\ p + 4 + 1 = p + 5
      /\ 0 \in 0 .. 5 /\ 1 \in 0 .. 5 /\ 2 \in 0 .. 5 /\ 3 \in 0 .. 5 /\ 4 \in 0 .. 5 /\ 5 \in 0 .. 5
  OBVIOUS
<1>2. /\ k[p] = m[p] /\ k[p + 1] = m[p + 1] /\ k[p + 2] = m[p + 2] /\ k[p + 3] = m[p + 3]
      /\ k[p + 4] = m[p + 4] /\ k[p + 4 + 1] = m[p + 4 + 1]
  BY <1>1
<1>3. ReadScalar(k, p, uoffset_t) = ReadScalar(m, p, uoffset_t)
  BY <1>2, ReadsSame
<1>4. ReadScalar(k, p + 4, voffset_t) = ReadScalar(m, p + 4, voffset_t)
  BY <1>1, <1>2, ReadsSame
<1> QED BY <1>3, <1>4

(* A FieldLoc pushed on the scratch pad is read back there, and those      *)
(* before it still are.                                                    *)
LEMMA LocsPushed ==
  ASSUME NEW v, v.scratch \in Nat, NEW w, NEW n \in Nat, n * 8 <= v.scratch,
         w.scratch = v.scratch + 8,
         \A a \in 0 .. v.scratch - 1 : w.mem[a] = v.mem[a],
         NEW off \in Int, NEW field \in VOffsets,
         \A i \in 1 .. 4 : w.mem[v.scratch + i - 1] = EndianScalar(off, 4)[i],
         \A i \in 1 .. 2 : w.mem[v.scratch + 4 + i - 1] = EndianScalar(field, 2)[i]
  PROVE  /\ \A i \in 1 .. n : Locs(w, n + 1)[i] = Locs(v, n)[i]
         /\ Locs(w, n + 1)[n + 1].id = field
         /\ off \in Values(4) => Locs(w, n + 1)[n + 1].off = off
<1>1. ASSUME NEW i \in 1 .. n PROVE Locs(w, n + 1)[i] = Locs(v, n)[i]
  <2> DEFINE p == v.scratch - (n - i + 1) * 8
  <2>1. /\ p \in Int /\ w.scratch - (n + 1 - i + 1) * 8 = p /\ i \in 1 .. n + 1
        /\ \A j \in 0 .. 5 : p + j \in 0 .. v.scratch - 1
    OBVIOUS
  <2>2. /\ Locs(v, n)[i] = [off |-> ReadScalar(v.mem, p, uoffset_t),
                            id  |-> ReadScalar(v.mem, p + 4, voffset_t)]
        /\ Locs(w, n + 1)[i] = [off |-> ReadScalar(w.mem, p, uoffset_t),
                                id  |-> ReadScalar(w.mem, p + 4, voffset_t)]
    BY <2>1 DEF Locs
  <2> HIDE DEF p
  <2>3. \A j \in 0 .. 5 : w.mem[p + j] = v.mem[p + j]
    BY <2>1
  <2>4. /\ ReadScalar(w.mem, p, uoffset_t) = ReadScalar(v.mem, p, uoffset_t)
        /\ ReadScalar(w.mem, p + 4, voffset_t) = ReadScalar(v.mem, p + 4, voffset_t)
    BY <2>1, <2>3, LocReads
  <2> QED BY <2>2, <2>4
<1> DEFINE p == v.scratch
<1>2. /\ p \in Int /\ p + 4 \in Int /\ w.scratch - (n + 1 - (n + 1) + 1) * 8 = p
      /\ n + 1 \in 1 .. n + 1
  OBVIOUS
<1>3. Locs(w, n + 1)[n + 1] = [off |-> ReadScalar(w.mem, p, uoffset_t),
                               id  |-> ReadScalar(w.mem, p + 4, voffset_t)]
  <2>1. \A i \in 1 .. n + 1 :
          Locs(w, n + 1)[i]
            = [off |-> ReadScalar(w.mem, w.scratch - (n + 1 - i + 1) * 8, uoffset_t),
               id  |-> ReadScalar(w.mem, w.scratch - (n + 1 - i + 1) * 8 + 4, voffset_t)]
    BY DEF Locs
  <2> DEFINE at == w.scratch - (n + 1 - (n + 1) + 1) * 8
  <2>2. Locs(w, n + 1)[n + 1] = [off |-> ReadScalar(w.mem, at, uoffset_t),
                                 id  |-> ReadScalar(w.mem, at + 4, voffset_t)]
    BY <1>2, <2>1
  <2>3. at = p
    BY <1>2
  <2> HIDE DEF at, p
  <2> QED BY <2>2, <2>3
<1>4. ReadScalar(w.mem, p + 4, voffset_t) = field
  <2>1. field \in Int /\ field \in Values(2) /\ 2 \in Nat
    BY VOffsetsAre
  <2>2. Len(EndianScalar(field, 2)) = 2
    BY <2>1, ScalarBytes
  <2>3. BytesAt(w.mem, p + 4, EndianScalar(field, 2))
    BY <2>2 DEF BytesAt
  <2>4. ReadScalar(w.mem, p + 4, Scalar(2, FALSE)) = field
    BY <1>2, <2>1, <2>3, ReadsTwo
  <2> QED BY <2>4 DEF voffset_t
<1>5. ASSUME off \in Values(4) PROVE ReadScalar(w.mem, p, uoffset_t) = off
  <2>1. off \in Int /\ off \in Values(4) /\ 4 \in Nat /\ 4 \in {4, 8} /\ FALSE \in BOOLEAN
    BY <1>5
  <2>2. Len(EndianScalar(off, 4)) = 4
    BY <2>1, ScalarBytes
  <2>3. BytesAt(w.mem, p, EndianScalar(off, 4))
    BY <2>2 DEF BytesAt
  <2>4. ReadScalar(w.mem, p, Scalar(4, FALSE)) = off
    BY <1>2, <2>1, <2>3, ReadsLarge
  <2> QED BY <2>4 DEF uoffset_t
<1> QED BY <1>1, <1>3, <1>4, <1>5

(* A FieldLoc pushed on the scratch pad is counted, and its id is not      *)
(* larger than max_voffset_.                                               *)
LEMMA TracksField ==
  ASSUME NEW d \in 0 .. 3, NEW b_ \in Builders(d), NEW field \in VOffsets, NEW off \in Int
  PROVE  LET c == TrackField(b_, field, off)
         IN /\ c \in Extended(b_, d) /\ c.buf.size = b_.buf.size /\ SameMinAlign(b_, c)
            /\ c.num_field_loc = b_.num_field_loc + 1
            /\ \A i \in 1 .. b_.num_field_loc : FieldLocs(c)[i] = FieldLocs(b_)[i]
            /\ FieldLocs(c)[b_.num_field_loc + 1].id = field
            /\ off \in Values(4) => FieldLocs(c)[b_.num_field_loc + 1].off = off
<1> DEFINE bytes == FieldLoc(off, field)
           v == b_.buf
           w == scratch_push_small(v, bytes)
           n == b_.num_field_loc
           top == Larger(b_.max_voffset_, field)
           c == TrackField(b_, field, off)
<1>1. /\ b_ = [f \in BuilderNames |-> b_[f]] /\ v \in Vectors(d) /\ n \in Nat
      /\ b_.max_voffset_ \in {0} \union VOffsets
      /\ LocsFit(v, n, b_.max_voffset_) /\ Clean(v)
  BY BuilderFields
<1>2. /\ bytes \in Seq(Int) /\ Len(bytes) = 8
      /\ \A i \in 1 .. 4 : bytes[i] = EndianScalar(off, 4)[i]
      /\ \A i \in 1 .. 2 : bytes[i + 4] = EndianScalar(field, 2)[i]
  BY FieldLocBytes
<1>3. c = [b_ EXCEPT !.buf = w, !.num_field_loc = @ + 1, !.max_voffset_ = top]
  BY DEF TrackField
<1> HIDE DEF bytes, c
<1>4. /\ w \in Vectors(d) /\ w.size = v.size /\ w.scratch = v.scratch + 8 /\ Stays(v, w)
      /\ \A a \in 0 .. v.scratch - 1 : w.mem[a] = v.mem[a]
      /\ \A i \in 1 .. 8 : w.mem[v.scratch + i - 1] = bytes[i]
  <2> HIDE DEF v
  <2>1. /\ w \in Vectors(d) /\ w.size = v.size /\ w.scratch = v.scratch + Len(bytes) /\ Stays(v, w)
        /\ \A a \in 0 .. v.scratch - 1 : w.mem[a] = v.mem[a]
        /\ \A i \in 1 .. Len(bytes) : w.mem[v.scratch + i - 1] = bytes[i]
    BY <1>1, <1>2, PushesOnScratch, ZenonT(40)
  <2> QED BY <1>2, <2>1
<1> HIDE DEF w
<1>5. c = [f \in BuilderNames |-> c[f]]
  BY <1>1, <1>3
<1>6. /\ c.buf = w /\ c.num_field_loc = n + 1 /\ c.max_voffset_ = top
      /\ c.nested = b_.nested /\ c.finished = b_.finished /\ c.minalign_ = b_.minalign_
      /\ c.force_defaults_ = b_.force_defaults_ /\ c.dedup_vtables_ = b_.dedup_vtables_
      /\ c.string_pool = b_.string_pool /\ c.ok = b_.ok
  BY <1>1, <1>3 DEF BuilderNames
<1>7. /\ top \in {0} \union VOffsets /\ top \in Nat /\ field <= top /\ b_.max_voffset_ <= top
      /\ b_.max_voffset_ \in Nat
  <2>1. field \in Nat /\ b_.max_voffset_ \in Nat
    BY VOffsetsAre, BuilderNumbers
  <2> QED BY <1>1, <2>1 DEF Larger
<1>8. v.scratch \in Nat /\ w.scratch \in Nat /\ n * 8 <= v.scratch
  BY <1>1, <1>4, VectorFields DEF LocsFit
<1> HIDE DEF top
<1>9. /\ \A i \in 1 .. n : Locs(w, n + 1)[i] = Locs(v, n)[i]
      /\ Locs(w, n + 1)[n + 1].id = field
      /\ off \in Values(4) => Locs(w, n + 1)[n + 1].off = off
  <2>1. ASSUME NEW i \in 1 .. 4 PROVE w.mem[v.scratch + i - 1] = EndianScalar(off, 4)[i]
    <3>1. i \in 1 .. 8
      OBVIOUS
    <3> QED BY <1>2, <1>4, <3>1
  <2>2. ASSUME NEW i \in 1 .. 2 PROVE w.mem[v.scratch + 4 + i - 1] = EndianScalar(field, 2)[i]
    <3>1. i + 4 \in 1 .. 8 /\ v.scratch + 4 + i - 1 = v.scratch + (i + 4) - 1
      BY <1>8
    <3> QED BY <1>2, <1>4, <3>1
  <2> HIDE DEF v, n
  <2> QED BY <1>1, <1>4, <1>8, <2>1, <2>2, LocsPushed
<1>10. LocsFit(w, n + 1, top)
  <2>1. (n + 1) * 8 <= w.scratch /\ (w.scratch - (n + 1) * 8) % 4 = 0
    <3>1. w.scratch - (n + 1) * 8 = v.scratch - n * 8
      BY <1>1, <1>4, <1>8
    <3>2. n * 8 <= v.scratch /\ (v.scratch - n * 8) % 4 = 0
      BY <1>1 DEF LocsFit
    <3> QED BY <1>1, <1>4, <1>8, <3>1, <3>2
  <2>2. ASSUME NEW i \in 1 .. n + 1
        PROVE  Locs(w, n + 1)[i].id \in VOffsets /\ Locs(w, n + 1)[i].id <= top
    <3>1. CASE i = n + 1
      BY <1>7, <1>9, <3>1
    <3>2. CASE i # n + 1
      <4>1. i \in 1 .. n
        BY <1>1, <3>2
      <4>2. Locs(v, n)[i].id \in VOffsets /\ Locs(v, n)[i].id <= b_.max_voffset_
        BY <1>1, <4>1 DEF LocsFit
      <4>3. Locs(v, n)[i].id \in Nat
        BY <4>2, VOffsetsAre
      <4>4. Locs(w, n + 1)[i].id = Locs(v, n)[i].id
        BY <1>9, <4>1
      <4>5. Locs(v, n)[i].id <= top
        BY <1>7, <4>2, <4>3
      <4> QED BY <4>2, <4>4, <4>5
    <3> QED BY <3>1, <3>2
  <2> QED BY <2>1, <2>2 DEF LocsFit
<1>11. Clean(w)
  BY <1>1, <1>4, CleanSame
<1>12. c \in Builders(d)
  <2>1. LocsFit(c.buf, c.num_field_loc, c.max_voffset_) /\ Clean(c.buf)
    BY <1>6, <1>10, <1>11
  <2>2. /\ c.buf \in Vectors(d) /\ c.num_field_loc \in Nat /\ c.max_voffset_ \in {0} \union VOffsets
    BY <1>1, <1>4, <1>6, <1>7
  <2> QED BY <1>5, <1>6, <2>1, <2>2, BuilderFields, BuilderIs
<1>13. SamePad(b_, c)
  <2>1. Base(c) = Base(b_)
    BY <1>1, <1>4, <1>6, <1>8 DEF Base
  <2>2. \A a \in 0 .. Base(b_) - 1 : a \in 0 .. v.scratch - 1
    BY <1>8, BaseIs
  <2> QED BY <1>4, <1>6, <2>1, <2>2 DEF SamePad
<1>14. b_.minalign_ <= c.minalign_
  BY <1>6, BuilderNumbers
<1>15. c \in Extended(b_, d)
  BY <1>4, <1>6, <1>12, <1>13, <1>14 DEF Extended, SameFlags
<1>16. SameMinAlign(b_, c) /\ c.buf.size = b_.buf.size
  BY <1>4, <1>6 DEF SameMinAlign
<1>17. FieldLocs(c) = Locs(w, n + 1) /\ FieldLocs(b_) = Locs(v, n)
  BY <1>6, FieldLocsAre
<1> QED BY <1>6, <1>9, <1>15, <1>16, <1>17 DEF c

(* Adding a field that has just been serialized. *)
LEMMA TracksLast ==
  ASSUME NEW d \in 0 .. 3, NEW b_ \in Builders(d), NEW c \in Grown(b_, d), NEW field \in VOffsets,
         NEW bytes \in Seq(Byte), NEW n \in Alignments,
         b_.buf.size + Len(bytes) <= c.buf.size, Holds(c.buf, c.buf.size, bytes),
         c.buf.size % n = 0, n <= c.minalign_
  PROVE  LET e == TrackLast(c, field)
         IN e \in Added(b_, d, field, bytes, n) /\ e.buf.size = c.buf.size /\ e.ok = c.ok
<1> DEFINE e == TrackLast(c, field)
           m == b_.num_field_loc
<1>1. /\ c \in Builders(d) /\ c \in Extended(b_, d) /\ FieldLocs(c) = FieldLocs(b_)
      /\ c.num_field_loc = m /\ c.buf.size \in Nat /\ c.buf.size \in Int
  BY GrownIsExtended, FieldLocsStay, BuilderNumbers DEF Grown, SameTable
<1>2. e = TrackField(c, field, c.buf.size)
  BY DEF TrackLast, GetSize
<1> HIDE DEF e, m
<1>3. /\ e \in Extended(c, d) /\ e.buf.size = c.buf.size /\ SameMinAlign(c, e)
      /\ e.num_field_loc = m + 1
      /\ \A i \in 1 .. m : FieldLocs(e)[i] = FieldLocs(c)[i]
      /\ FieldLocs(e)[m + 1].id = field
      /\ c.buf.size \in Values(4) => FieldLocs(e)[m + 1].off = c.buf.size
  BY <1>1, <1>2, TracksField
<1>4. e \in Extended(b_, d)
  BY <1>1, <1>3, ExtendedOn
<1>5. e.buf.size <= FLATBUFFERS_MAX_BUFFER_SIZE => FieldLocs(e)[m + 1].off = e.buf.size
  BY <1>1, <1>3, SmallSizes
<1>6. Holds(e.buf, e.buf.size, bytes)
  <2>1. e \in Builders(d) /\ Stays(c.buf, e.buf)
    BY <1>3 DEF Extended
  <2>2. e.buf.size \in Nat /\ Len(bytes) \in Nat
    BY <2>1, BuilderNumbers
  <2> QED BY <1>1, <1>3, <2>1, <2>2, HoldsOn
<1>7. n <= e.minalign_ /\ e.ok = c.ok
  BY <1>3 DEF SameMinAlign
<1>8. e.buf.size % n = 0 /\ b_.buf.size + Len(bytes) <= e.buf.size
  BY <1>3
<1>9. \A i \in 1 .. m : FieldLocs(e)[i] = FieldLocs(b_)[i]
  BY <1>1, <1>3
<1>10. e \in Added(b_, d, field, bytes, n)
  BY <1>3, <1>4, <1>5, <1>6, <1>7, <1>8, <1>9 DEF Added, m
<1> QED BY <1>3, <1>7, <1>10 DEF e

(* AddElement: a scalar and its FieldLoc, or nothing for a default. *)
LEMMA AddsElement ==
  ASSUME NEW d \in 0 .. 3, NEW b_ \in Builders(d), NEW field \in VOffsets,
         NEW n \in Int, NEW size_ \in Sizes, NEW def
  PROVE  LET c == AddElement(b_, field, n, size_, def)
         IN /\ c \in Extended(b_, d) /\ c.ok = b_.ok
            /\ n = def /\ ~b_.force_defaults_ => c = b_
            /\ ~(n = def /\ ~b_.force_defaults_) =>
                 /\ c \in Added(b_, d, field, EndianScalar(n, size_), size_)
                 /\ c.buf.size = b_.buf.size + PaddingBytes(b_.buf.size, size_) + size_
<1> DEFINE p == PushElement(b_, n, size_)
           e == TrackLast(p, field)
           s == EndianScalar(n, size_)
           c == AddElement(b_, field, n, size_, def)
           padding == PaddingBytes(b_.buf.size, size_)
<1>1. b_ \in Extended(b_, d)
  BY Unchanged, GrownIsExtended
<1>2. /\ size_ \in Alignments /\ size_ \in Nat /\ size_ \in Int /\ s \in Seq(Byte) /\ Len(s) = size_
      /\ b_.buf.size \in Nat /\ padding \in Nat
  <2>1. size_ \in Alignments /\ size_ \in Nat /\ size_ # 0
    BY DEF Sizes, Alignments
  <2>2. s \in Seq(Byte) /\ Len(s) = size_
    BY <2>1, ScalarBytes
  <2>3. b_.buf.size \in Nat
    BY BuilderNumbers
  <2>4. padding \in Nat
    BY <2>1, <2>3, Padding
  <2> HIDE DEF padding, s
  <2> QED BY <2>1, <2>2, <2>3, <2>4
<1>3. /\ p \in Grown(b_, d) /\ p.ok = b_.ok /\ p.buf.size = b_.buf.size + padding + size_
      /\ p.buf.size % size_ = 0 /\ size_ <= p.minalign_ /\ Holds(p.buf, p.buf.size, s)
  BY PushesElement
<1>4. c = IF n = def /\ ~b_.force_defaults_ THEN b_ ELSE e
  BY DEF AddElement
<1> HIDE DEF p, s, c, padding
<1>5. e \in Added(b_, d, field, s, size_) /\ e.buf.size = p.buf.size /\ e.ok = p.ok
  <2>1. b_.buf.size + Len(s) <= p.buf.size
    BY <1>2, <1>3
  <2> QED BY <1>2, <1>3, <2>1, TracksLast
<1> HIDE DEF e
<1>6. e \in Extended(b_, d)
  BY <1>5 DEF Added
<1> QED BY <1>1, <1>3, <1>4, <1>5, <1>6 DEF c, padding, s

(* AddOffset: a reference and its FieldLoc, or nothing for none. *)
LEMMA AddsOffset ==
  ASSUME NEW d \in 0 .. 3, NEW b_ \in Builders(d), NEW field \in VOffsets, NEW off \in Int
  PROVE  LET c == AddOffset(b_, field, off)
         IN /\ c \in Extended(b_, d)
            /\ off # 0 /\ c.ok =>
                 /\ c \in Added(b_, d, field, EndianScalar(c.buf.size - off, 4), 4)
                 /\ off + 4 <= c.buf.size
<1> DEFINE r == ReferTo(b_, off)
           p == PushElement(r.b, r.ref, 4)
           e == AddElement(r.b, field, r.ref, 4, 0)
           s == EndianScalar(r.ref, 4)
           c == AddOffset(b_, field, off)
<1>0. 4 \in Sizes /\ 4 \in Alignments
  BY DEF Sizes, Alignments
<1>1. b_ \in Extended(b_, d)
  BY Unchanged, GrownIsExtended
<1>2. /\ r.b \in Grown(b_, d) /\ r.b \in Builders(d) /\ r.ref \in Int
      /\ r.ref = r.b.buf.size - off + 4 /\ r.b.buf.size % 4 = 0
      /\ r.b.ok => off # 0 /\ off <= r.b.buf.size
  BY RefersTo DEF Grown
<1>3. c = IF off = 0 THEN b_ ELSE e
  BY DEF AddOffset, AddReferred, uoffset_t, Scalar
<1>4. b_.buf.size \in Nat /\ r.b.buf.size \in Nat /\ b_.buf.size <= r.b.buf.size
  BY <1>2, BuilderNumbers DEF Grown, Stays
<1>5. e = IF r.ref = 0 /\ ~r.b.force_defaults_ THEN r.b ELSE TrackLast(p, field)
  BY DEF AddElement
<1> HIDE DEF r
<1>6. e \in Extended(r.b, d) /\ e.ok = r.b.ok
  BY <1>0, <1>2, AddsElement
<1>7. e \in Extended(b_, d)
  BY <1>2, <1>6, GrownIsExtended, ExtendedOn
<1>8. PaddingBytes(r.b.buf.size, 4) = 0
  BY <1>0, <1>2, <1>4, PaddingExact
<1>9. /\ p \in Grown(r.b, d) /\ p.ok = r.b.ok /\ p.buf.size = r.b.buf.size + 0 + 4
      /\ p.buf.size % 4 = 0 /\ 4 <= p.minalign_ /\ Holds(p.buf, p.buf.size, s)
  BY <1>0, <1>2, <1>8, PushesElement
<1>10. s \in Seq(Byte) /\ Len(s) = 4
  BY <1>2, ScalarBytes
<1>11. p \in Grown(b_, d)
  BY <1>2, <1>9, GrownOn
<1> HIDE DEF p, e, c, s
<1>12. p.buf.size = r.b.buf.size + 4 /\ r.ref = p.buf.size - off
  BY <1>2, <1>4, <1>9
<1>13. LET t == TrackLast(p, field)
       IN t \in Added(b_, d, field, s, 4) /\ t.buf.size = p.buf.size
  <2>1. b_.buf.size + Len(s) <= p.buf.size
    BY <1>4, <1>10, <1>12
  <2> QED BY <1>0, <1>9, <1>10, <1>11, <2>1, TracksLast
<1>14. ASSUME off # 0, c.ok
       PROVE  c \in Added(b_, d, field, EndianScalar(c.buf.size - off, 4), 4) /\ off + 4 <= c.buf.size
  <2>1. c = e /\ r.b.ok
    BY <1>3, <1>6, <1>14
  <2>2. off <= r.b.buf.size
    BY <1>2, <2>1
  <2>3. r.ref # 0 /\ off + 4 <= p.buf.size
    BY <1>2, <1>4, <1>12, <2>2
  <2>4. c = TrackLast(p, field)
    BY <1>5, <2>1, <2>3
  <2> QED BY <1>12, <1>13, <2>3, <2>4 DEF s
<1>15. c \in Extended(b_, d)
  BY <1>1, <1>3, <1>7
<1> QED BY <1>14, <1>15 DEF c

(* AddStruct: the bytes of the struct and its FieldLoc. *)
LEMMA AddsStruct ==
  ASSUME NEW d \in 0 .. 3, NEW b_ \in Builders(d), NEW field \in VOffsets,
         NEW bytes \in Seq(Byte), NEW n \in Alignments, Len(bytes) % n = 0
  PROVE  LET c == AddStruct(b_, field, bytes, n)
         IN c \in Added(b_, d, field, bytes, n) /\ c.ok = b_.ok
<1> DEFINE a == Align(b_, n)
           p == PushBytes(a, bytes)
           c == AddStruct(b_, field, bytes, n)
<1>1. /\ a \in Grown(b_, d) /\ a \in Builders(d) /\ n <= a.minalign_ /\ a.ok = b_.ok
      /\ a.buf.size % n = 0
  BY Aligns DEF Grown
<1> HIDE DEF a
<1>2. /\ p \in Grown(a, d) /\ p.buf.size = a.buf.size + Len(bytes)
      /\ Holds(p.buf, p.buf.size, bytes) /\ SameMinAlign(a, p)
  BY <1>1, PushesBytes
<1>3. c = TrackLast(p, field)
  BY DEF AddStruct, a
<1> HIDE DEF p, c
<1>4. p \in Grown(b_, d)
  BY <1>1, <1>2, GrownOn
<1>5. /\ b_.buf.size \in Nat /\ a.buf.size \in Nat /\ b_.buf.size <= a.buf.size
      /\ Len(bytes) \in Nat
  BY <1>1, BuilderNumbers DEF Grown, Stays
<1>6. b_.buf.size + Len(bytes) <= p.buf.size
  BY <1>2, <1>5
<1>7. p.buf.size % n = 0
  <2>1. a.buf.size \in Int /\ Len(bytes) \in Int
    BY <1>5
  <2>2. (a.buf.size + Len(bytes)) % n = Len(bytes) % n
    BY <1>1, <2>1, SumAligned, Zenon
  <2> QED BY <1>2, <2>2, Zenon
<1>8. n <= p.minalign_ /\ p.ok = b_.ok
  BY <1>1, <1>2 DEF SameMinAlign
<1>9. c \in Added(b_, d, field, bytes, n) /\ c.ok = p.ok
  BY <1>2, <1>3, <1>4, <1>6, <1>7, <1>8, TracksLast
<1> QED BY <1>8, <1>9 DEF c

(* The nested flag is set and cleared. *)
LEMMA Nests ==
  ASSUME NEW d, NEW b_ \in Builders(d), NEW on \in BOOLEAN
  PROVE  LET c == [b_ EXCEPT !.nested = on]
         IN /\ c \in Builders(d) /\ c.nested = on /\ c.buf = b_.buf
            /\ c.num_field_loc = b_.num_field_loc /\ c.max_voffset_ = b_.max_voffset_
            /\ c.string_pool = b_.string_pool /\ SameFlags(b_, c) /\ SameMinAlign(b_, c)
<1> DEFINE c == [b_ EXCEPT !.nested = on]
<1>1. b_ = [f \in BuilderNames |-> b_[f]]
  BY BuilderFields
<1>2. c = [f \in BuilderNames |-> c[f]]
  BY <1>1
<1>3. /\ c.buf = b_.buf /\ c.num_field_loc = b_.num_field_loc /\ c.max_voffset_ = b_.max_voffset_
      /\ c.nested = on /\ c.finished = b_.finished /\ c.minalign_ = b_.minalign_
      /\ c.force_defaults_ = b_.force_defaults_ /\ c.dedup_vtables_ = b_.dedup_vtables_
      /\ c.string_pool = b_.string_pool /\ c.ok = b_.ok
  BY <1>1 DEF BuilderNames
<1> HIDE DEF c
<1>4. LocsFit(c.buf, c.num_field_loc, c.max_voffset_)
  BY <1>3, BuilderFields
<1>5. c \in Builders(d)
  BY <1>2, <1>3, <1>4, BuilderFields, BuilderIs
<1> QED BY <1>3, <1>5 DEF SameFlags, SameMinAlign, c

(* ClearOffsets takes the FieldLocs, and only them, off the scratch pad.   *)
LEMMA ClearsOffsets ==
  ASSUME NEW d, NEW b_ \in Builders(d)
  PROVE  LET c == ClearOffsets(b_)
         IN /\ c \in Builders(d) /\ c.num_field_loc = 0
            /\ c.buf.size = b_.buf.size /\ c.buf.mem = b_.buf.mem
            /\ c.buf.reserved = b_.buf.reserved
            /\ c.buf.scratch = Base(b_) /\ Base(c) = Base(b_)
            /\ c.nested = b_.nested /\ c.string_pool = b_.string_pool
            /\ SameFlags(b_, c) /\ SameMinAlign(b_, c)
<1> DEFINE n == b_.num_field_loc
           w == scratch_pop(b_.buf, n * SizeOfFieldLoc)
           c == ClearOffsets(b_)
<1>1. b_ = [f \in BuilderNames |-> b_[f]] /\ b_.buf \in Vectors(d) /\ n \in Nat
      /\ LocsFit(b_.buf, n, b_.max_voffset_) /\ b_.buf.scratch \in Nat /\ Clean(b_.buf)
  BY BuilderFields, VectorFields
<1>2. n * SizeOfFieldLoc = n * 8 /\ n * 8 \in 0 .. b_.buf.scratch
  BY <1>1 DEF LocsFit, SizeOfFieldLoc
<1>3. c = [b_ EXCEPT !.buf = w, !.num_field_loc = 0, !.max_voffset_ = 0]
  BY DEF ClearOffsets
<1>4. /\ w \in Vectors(d) /\ w.size = b_.buf.size /\ Stays(b_.buf, w)
      /\ w.scratch = b_.buf.scratch - n * 8 /\ w.mem = b_.buf.mem /\ w.reserved = b_.buf.reserved
  BY <1>1, <1>2, PopsScratch
<1> HIDE DEF w, c
<1>5. c = [f \in BuilderNames |-> c[f]]
  BY <1>1, <1>3
<1>6. /\ c.buf = w /\ c.num_field_loc = 0 /\ c.max_voffset_ = 0
      /\ c.nested = b_.nested /\ c.finished = b_.finished /\ c.minalign_ = b_.minalign_
      /\ c.force_defaults_ = b_.force_defaults_ /\ c.dedup_vtables_ = b_.dedup_vtables_
      /\ c.string_pool = b_.string_pool /\ c.ok = b_.ok
  BY <1>1, <1>3 DEF BuilderNames
<1>7. LocsFit(w, 0, 0)
  <2>1. w.scratch \in Nat /\ w.scratch - 0 * 8 = w.scratch
    BY <1>4, VectorFields
  <2>2. (b_.buf.scratch - n * 8) % 4 = 0
    BY <1>1 DEF LocsFit
  <2>3. (w.scratch - 0 * 8) % 4 = 0
    BY <1>4, <2>1, <2>2
  <2>4. 0 * 8 <= w.scratch
    BY <2>1
  <2> QED BY <2>3, <2>4 DEF LocsFit
<1>8. c \in Builders(d)
  <2>1. Clean(w)
    BY <1>1, <1>4, CleanSame
  <2> QED BY <1>4, <1>5, <1>6, <1>7, <2>1, BuilderFields, BuilderIs
<1>9. c.buf.scratch = Base(b_) /\ Base(c) = Base(b_)
  <2>1. w.scratch = Base(b_) /\ Base(b_) \in Int
    BY <1>1, <1>4 DEF Base
  <2>2. Base(c) = Base(b_) - 0 * 8
    BY <1>6, <2>1 DEF Base
  <2> QED BY <1>6, <2>1, <2>2
<1> QED BY <1>4, <1>6, <1>8, <1>9 DEF c, SameFlags, SameMinAlign

-----------------------------------------------------------------------------
(* Folds over sequences: FoldLeft is defined by a recursion over the sets  *)
(* of indexes, the largest first.                                          *)
LEMMA LargestIndex ==
  ASSUME NEW n \in Nat, NEW s \in SUBSET (1 .. n), s # {}
  PROVE  Max(s) \in s /\ Max(s) \in 1 .. n /\ \A i \in s : i <= Max(s)
<1> DEFINE Has(t) == Max(t) \in t /\ \A i \in t : i <= Max(t)
           P(k) == \A t \in SUBSET (1 .. k) : t # {} => Has(t)
           T == {k \in Nat : P(k)}
<1>1. ASSUME NEW t, t \subseteq Nat, NEW m \in t, \A i \in t : i <= m PROVE Has(t)
  BY <1>1 DEF Max
<1> HIDE DEF Has
<1>2. P(0)
  <2>1. \A t \in SUBSET (1 .. 0) : t = {}
    OBVIOUS
  <2> QED BY <2>1
<1>3. ASSUME NEW k \in Nat, P(k) PROVE P(k + 1)
  <2> SUFFICES ASSUME NEW t \in SUBSET (1 .. k + 1), t # {} PROVE Has(t)
    OBVIOUS
  <2>1. CASE k + 1 \in t
    <3>1. t \subseteq Nat /\ \A i \in t : i <= k + 1
      OBVIOUS
    <3> QED BY <1>1, <2>1, <3>1
  <2>2. CASE k + 1 \notin t
    <3>1. t \in SUBSET (1 .. k)
      <4>1. ASSUME NEW i \in t PROVE i \in 1 .. k
        BY <2>2
      <4> QED BY <4>1
    <3> QED BY <1>3, <3>1
  <2> QED BY <2>1, <2>2
<1> HIDE DEF P
<1>4. \A k \in Nat : k \in T
  <2>1. 0 \in T /\ \A k \in Nat : k \in T => k + 1 \in T
    BY <1>2, <1>3
  <2> HIDE DEF T
  <2> QED BY <2>1, Induction
<1>5. Has(s)
  BY <1>4 DEF P
<1> QED BY <1>5 DEF Has

FoldOf(g, n, base, step) ==
  \A s \in SUBSET (1 .. n) : g[s] = IF s = {} THEN base ELSE step[Max(s)][g[s \ {Max(s)}]]

(* Such a fold exists when every step stays in a set B. *)
LEMMA FoldExists ==
  ASSUME NEW B, NEW base \in B, NEW n \in Nat, NEW step \in [1 .. n -> [B -> B]]
  PROVE  \E g \in [SUBSET (1 .. n) -> B] : FoldOf(g, n, base, step)
<1> DEFINE P(k) == k <= n => \E g \in [SUBSET (1 .. k) -> B] : FoldOf(g, k, base, step)
           T == {k \in Nat : P(k)}
<1>1. P(0)
  <2> DEFINE g == [s \in SUBSET (1 .. 0) |-> base]
  <2>1. g \in [SUBSET (1 .. 0) -> B] /\ FoldOf(g, 0, base, step)
    BY DEF FoldOf
  <2> HIDE DEF g
  <2> QED BY <2>1
<1>2. ASSUME NEW k \in Nat, P(k) PROVE P(k + 1)
  <2> SUFFICES ASSUME k + 1 <= n
               PROVE  \E g \in [SUBSET (1 .. k + 1) -> B] : FoldOf(g, k + 1, base, step)
    OBVIOUS
  <2>0. k <= n
    OBVIOUS
  <2>1. PICK g \in [SUBSET (1 .. k) -> B] : FoldOf(g, k, base, step)
    BY <1>2, <2>0, Zenon
  <2> DEFINE h == [s \in SUBSET (1 .. k + 1) |->
                     IF k + 1 \in s THEN step[k + 1][g[s \ {k + 1}]] ELSE g[s]]
  <2>2. ASSUME NEW s \in SUBSET (1 .. k + 1)
        PROVE  /\ h[s] \in B
               /\ h[s] = IF s = {} THEN base ELSE step[Max(s)][h[s \ {Max(s)}]]
    <3>1. CASE k + 1 \in s
      <4> DEFINE r == s \ {k + 1}
      <4>1. r \in SUBSET (1 .. k) /\ k + 1 \in 1 .. n /\ r \in SUBSET (1 .. k + 1) /\ k + 1 \notin r
        OBVIOUS
      <4>2. Max(s) = k + 1
        <5>1. k + 1 \in Nat /\ s # {}
          BY <3>1
        <5>2. Max(s) \in 1 .. k + 1 /\ k + 1 <= Max(s)
          BY <3>1, <5>1, LargestIndex
        <5> QED BY <5>2
      <4> HIDE DEF r
      <4>3. g[r] \in B /\ h[r] = g[r]
        BY <4>1
      <4>4. h[s] = step[k + 1][g[r]]
        BY <3>1 DEF r
      <4>5. step[k + 1][g[r]] \in B
        BY <4>1, <4>3
      <4> HIDE DEF h
      <4> QED BY <3>1, <4>2, <4>3, <4>4, <4>5 DEF r
    <3>2. CASE k + 1 \notin s
      <4>1. s \in SUBSET (1 .. k) /\ s \ {Max(s)} \in SUBSET (1 .. k)
        <5>1. ASSUME NEW i \in s PROVE i \in 1 .. k
          BY <3>2
        <5> QED BY <5>1
      <4>2. h[s] = g[s] /\ h[s \ {Max(s)}] = g[s \ {Max(s)}]
        BY <4>1
      <4> HIDE DEF h
      <4> QED BY <2>1, <4>1, <4>2 DEF FoldOf
    <3> QED BY <3>1, <3>2
  <2>3. h \in [SUBSET (1 .. k + 1) -> B]
    BY <2>2
  <2> HIDE DEF h
  <2>4. FoldOf(h, k + 1, base, step)
    BY <2>2 DEF FoldOf
  <2> QED BY <2>3, <2>4
<1> HIDE DEF P
<1>3. n \in T
  <2>1. 0 \in T /\ \A k \in Nat : k \in T => k + 1 \in T
    BY <1>1, <1>2
  <2> HIDE DEF T
  <2> QED BY <2>1, Induction
<1>4. P(n) /\ n <= n
  BY <1>3
<1> QED BY <1>4, Zenon DEF P

(* What holds a set with its largest index when it holds it without, and   *)
(* holds the empty one, holds all.                                         *)
LEMMA FoldStays ==
  ASSUME NEW B, NEW n \in Nat, NEW g, g[{}] \in B,
         \A s \in SUBSET (1 .. n) : s # {} /\ g[s \ {Max(s)}] \in B => g[s] \in B
  PROVE  g[1 .. n] \in B
<1> DEFINE P(k) == k <= n => \A s \in SUBSET (1 .. k) : g[s] \in B
           T == {k \in Nat : P(k)}
<1>1. P(0)
  <2>1. \A s \in SUBSET (1 .. 0) : s = {}
    OBVIOUS
  <2> QED BY <2>1
<1>2. ASSUME NEW k \in Nat, P(k) PROVE P(k + 1)
  <2> SUFFICES ASSUME k + 1 <= n, NEW s \in SUBSET (1 .. k + 1) PROVE g[s] \in B
    OBVIOUS
  <2>1. CASE s = {}
    BY <2>1
  <2>2. CASE s # {}
    <3>1. Max(s) \in s /\ Max(s) \in 1 .. k + 1 /\ \A i \in s : i <= Max(s)
      <4>1. k + 1 \in Nat
        OBVIOUS
      <4> QED BY <2>2, <4>1, LargestIndex
    <3>2. s \ {Max(s)} \in SUBSET (1 .. k)
      <4>1. ASSUME NEW i \in s, i # Max(s) PROVE i \in 1 .. k
        <5>1. i \in 1 .. k + 1 /\ i <= Max(s) /\ Max(s) <= k + 1
          BY <3>1
        <5> QED BY <3>1, <4>1, <5>1
      <4> QED BY <4>1
    <3>3. s \in SUBSET (1 .. n)
      OBVIOUS
    <3>4. g[s \ {Max(s)}] \in B
      BY <1>2, <3>2
    <3> QED BY <2>2, <3>3, <3>4
  <2> QED BY <2>1, <2>2
<1> HIDE DEF P
<1>3. n \in T
  <2>1. 0 \in T /\ \A k \in Nat : k \in T => k + 1 \in T
    BY <1>1, <1>2
  <2> HIDE DEF T
  <2> QED BY <2>1, Induction
<1>4. P(n)
  BY <1>3
<1> QED BY <1>4 DEF P

(* A fold that takes the indexes 1 to n in order passes through the sets   *)
(* C[0] to C[n].                                                           *)
LEMMA FoldCounts ==
  ASSUME NEW n \in Nat, NEW C, NEW g, g[{}] \in C[0],
         \A s \in SUBSET (1 .. n), k \in 1 .. n :
           s # {} /\ Max(s) = k /\ g[s \ {Max(s)}] \in C[k - 1] => g[s] \in C[k]
  PROVE  g[1 .. n] \in C[n]
<1> DEFINE P(k) == k <= n => g[1 .. k] \in C[k]
           T == {k \in Nat : P(k)}
<1>1. P(0)
  <2>1. 1 .. 0 = {}
    OBVIOUS
  <2> QED BY <2>1
<1>2. ASSUME NEW k \in Nat, P(k) PROVE P(k + 1)
  <2> SUFFICES ASSUME k + 1 <= n PROVE g[1 .. k + 1] \in C[k + 1]
    OBVIOUS
  <2> DEFINE s == 1 .. k + 1
             j == k + 1
  <2>1. j \in 1 .. n /\ j - 1 = k /\ s \in SUBSET (1 .. n) /\ s # {} /\ s \ {j} = 1 .. k
    <3>1. j \in 1 .. n /\ j - 1 = k
      OBVIOUS
    <3>2. ASSUME NEW i \in s PROVE i \in 1 .. n
      OBVIOUS
    <3>3. j \in s
      OBVIOUS
    <3>4. \A i : i \in s \ {j} <=> i \in 1 .. k
      OBVIOUS
    <3> HIDE DEF s, j
    <3> QED BY <3>1, <3>2, <3>3, <3>4
  <2>2. Max(s) = j
    <3>1. j \in Nat /\ s \in SUBSET (1 .. j) /\ j \in s
      OBVIOUS
    <3>2. Max(s) \in 1 .. j /\ j <= Max(s)
      BY <2>1, <3>1, LargestIndex
    <3> QED BY <3>1, <3>2
  <2>3. g[1 .. k] \in C[k]
    BY <1>2
  <2> HIDE DEF s, j
  <2>4. g[s \ {Max(s)}] \in C[j - 1]
    BY <2>1, <2>2, <2>3
  <2>5. g[s] \in C[j]
    BY <2>1, <2>2, <2>4
  <2> QED BY <2>5 DEF s, j
<1> HIDE DEF P
<1>3. n \in T
  <2>1. 0 \in T /\ \A k \in Nat : k \in T => k + 1 \in T
    BY <1>1, <1>2
  <2> HIDE DEF T
  <2> QED BY <2>1, Induction
<1>4. P(n) /\ n <= n
  BY <1>3
<1> QED BY <1>4 DEF P

-----------------------------------------------------------------------------
(* Bytes written over what is serialized, in the block.                    *)
LEMMA Writes ==
  ASSUME NEW n \in Nat, NEW m \in Memory(n), NEW p \in Nat, NEW bytes \in Seq(Byte),
         p + Len(bytes) <= n
  PROVE  LET w == Copied(m, p, bytes)
         IN /\ w \in Memory(n)
            /\ \A a \in 0 .. n - 1 : ~(p <= a /\ a < p + Len(bytes)) => w[a] = m[a]
            /\ \A i \in 1 .. Len(bytes) : w[p + i - 1] = bytes[i]
<1> DEFINE mem == Copied(m, p, bytes)
           l == Len(bytes)
<1>1. /\ DOMAIN m = 0 .. n - 1
      /\ \A a \in 0 .. n - 1 : m[a] \in Int
  BY DEF Memory
<1>2. l \in Nat /\ p + l <= n /\ \A i \in 1 .. l : bytes[i] \in Int
  <2>1. bytes \in Seq(Int)
    BY BytesAreIntegers
  <2> QED BY <2>1, LenProperties
<1>3. mem = [a \in 0 .. n - 1 |-> IF a \in p .. p + l - 1 THEN bytes[a - p + 1] ELSE m[a]]
  <2>1. DOMAIN m \union p .. p + l - 1 = 0 .. n - 1
    BY <1>1, <1>2
  <2> QED BY <2>1 DEF Copied
<1> HIDE DEF mem, l
<1>4. mem \in Memory(n)
  <2>1. ASSUME NEW a \in 0 .. n - 1 PROVE mem[a] \in Int
    <3>1. a \in p .. p + l - 1 => a - p + 1 \in 1 .. l
      BY <1>2
    <3> QED BY <1>1, <1>2, <1>3, <3>1
  <2> QED BY <1>3, <2>1 DEF Memory
<1>5. \A a \in 0 .. n - 1 : ~(p <= a /\ a < p + l) => mem[a] = m[a]
  BY <1>2, <1>3
<1>6. ASSUME NEW i \in 1 .. l PROVE mem[p + i - 1] = bytes[i]
  <2>1. /\ p + i - 1 \in 0 .. n - 1 /\ p + i - 1 \in p .. p + l - 1
        /\ (p + i - 1) - p + 1 = i
    BY <1>2
  <2> QED BY <1>3, <2>1
<1> QED BY <1>4, <1>5, <1>6 DEF mem, l

(* The memories that differ from that of a builder only in the first n     *)
(* bytes serialized, and the two bytes of a slot of a vtable there.        *)
Overwritten(v, n) ==
  {m \in Memory(v.reserved) :
     /\ \A a \in 0 .. v.reserved - 1 : ~(v.cur <= a /\ a < v.cur + n) => m[a] = v.mem[a]
     /\ \A a \in 0 .. n - 1 : m[v.cur + a] \in Byte}
Slot(v, m, a, x) ==
  m[v.cur + a] = EndianScalar(x, 2)[1] /\ m[v.cur + a + 1] = EndianScalar(x, 2)[2]

(* A slot written into what is serialized leaves the other slots alone. *)
LEMMA WritesOver ==
  ASSUME NEW d, NEW v \in Vectors(d), NEW n \in Nat, n <= v.size, NEW m \in Overwritten(v, n),
         NEW at \in Nat, at + 2 <= n, NEW x \in Int
  PROVE  LET w == WriteScalar(m, v.cur + at, x, 2)
         IN /\ w \in Overwritten(v, n) /\ Slot(v, w, at, x)
            /\ \A a \in Nat : \A y : a + 2 <= n /\ a % 2 = 0 /\ at % 2 = 0 /\ a # at /\ Slot(v, m, a, y)
                 => Slot(v, w, a, y)
<1> DEFINE bytes == EndianScalar(x, 2)
           p == v.cur + at
           w == Copied(m, p, bytes)
<1>1. bytes \in Seq(Byte) /\ Len(bytes) = 2
  <2>1. 2 \in Nat
    OBVIOUS
  <2> QED BY <2>1, ScalarBytes
<1>2. v.reserved \in Nat /\ v.cur \in Nat /\ v.size \in Nat /\ v.cur = v.reserved - v.size
  BY VectorFields
<1>3. p \in Nat /\ p + 2 <= v.cur + n /\ v.cur + n <= v.reserved /\ m \in Memory(v.reserved)
  BY <1>2 DEF Overwritten
<1>4. WriteScalar(m, v.cur + at, x, 2) = w
  BY DEF WriteScalar
<1> HIDE DEF bytes
<1>5. /\ w \in Memory(v.reserved)
      /\ \A a \in 0 .. v.reserved - 1 : ~(p <= a /\ a < p + 2) => w[a] = m[a]
      /\ \A i \in 1 .. 2 : w[p + i - 1] = bytes[i]
  <2>1. p + Len(bytes) <= v.reserved
    BY <1>1, <1>2, <1>3
  <2> HIDE DEF p
  <2>2. /\ w \in Memory(v.reserved)
        /\ \A a \in 0 .. v.reserved - 1 : ~(p <= a /\ a < p + Len(bytes)) => w[a] = m[a]
        /\ \A i \in 1 .. Len(bytes) : w[p + i - 1] = bytes[i]
    BY <1>1, <1>2, <1>3, <2>1, Writes, ZenonT(40)
  <2> HIDE DEF w
  <2> QED BY <1>1, <2>2
<1> HIDE DEF w
<1>6. w[p] = bytes[1] /\ w[p + 1] = bytes[2]
  <2>1. p + 1 - 1 = p /\ p + 2 - 1 = p + 1 /\ 1 \in 1 .. 2 /\ 2 \in 1 .. 2
    BY <1>3
  <2> HIDE DEF p
  <2> QED BY <1>5, <2>1
<1>7. \A a \in 0 .. v.reserved - 1 : ~(v.cur <= a /\ a < v.cur + n) => w[a] = v.mem[a]
  <2>1. \A a \in 0 .. v.reserved - 1 : ~(v.cur <= a /\ a < v.cur + n) => ~(p <= a /\ a < p + 2)
    BY <1>2, <1>3
  <2> HIDE DEF p
  <2> QED BY <1>5, <2>1 DEF Overwritten
<1>8. ASSUME NEW a \in 0 .. n - 1 PROVE w[v.cur + a] \in Byte
  <2>1. v.cur + a \in 0 .. v.reserved - 1
    BY <1>2, <1>3
  <2>2. CASE p <= v.cur + a /\ v.cur + a < p + 2
    <3>1. v.cur + a = p \/ v.cur + a = p + 1
      BY <1>2, <1>3, <2>2
    <3>2. bytes[1] \in Byte /\ bytes[2] \in Byte
      <4>1. 1 \in 1 .. Len(bytes) /\ 2 \in 1 .. Len(bytes)
        BY <1>1
      <4> QED BY <1>1, <4>1, LenProperties
    <3> HIDE DEF p
    <3> QED BY <1>6, <3>1, <3>2
  <2>3. CASE ~(p <= v.cur + a /\ v.cur + a < p + 2)
    <3>1. m[v.cur + a] \in Byte
      BY DEF Overwritten
    <3> QED BY <1>5, <2>1, <2>3, <3>1
  <2> QED BY <2>2, <2>3
<1>9. w \in Overwritten(v, n)
  BY <1>5, <1>7, <1>8 DEF Overwritten
<1>10. Slot(v, w, at, x)
  BY <1>6 DEF Slot, bytes, p
<1>11. ASSUME NEW a \in Nat, NEW y, a + 2 <= n, a % 2 = 0, at % 2 = 0, a # at, Slot(v, m, a, y)
       PROVE  Slot(v, w, a, y)
  <2>1. a + 1 # at /\ a # at + 1
    BY <1>11
  <2>2. /\ v.cur + a \in 0 .. v.reserved - 1 /\ ~(p <= v.cur + a /\ v.cur + a < p + 2)
        /\ v.cur + a + 1 \in 0 .. v.reserved - 1 /\ ~(p <= v.cur + a + 1 /\ v.cur + a + 1 < p + 2)
    BY <1>2, <1>3, <1>11, <2>1
  <2> HIDE DEF p
  <2>3. w[v.cur + a] = m[v.cur + a] /\ w[v.cur + a + 1] = m[v.cur + a + 1]
    BY <1>5, <2>2
  <2> QED BY <1>11, <2>3 DEF Slot
<1> QED BY <1>4, <1>9, <1>10, <1>11

(* The memories in which the vtable is filled in for the first k fields:   *)
(* its size, that of the table, where each of the fields is, and nothing   *)
(* else.                                                                   *)
Filled(v, n, locs, length, at, k) ==
  {m \in Overwritten(v, n) :
     (\A i, j \in DOMAIN locs : locs[i].id = locs[j].id => i = j) =>
       /\ Slot(v, m, 0, n) /\ Slot(v, m, 2, length)
       /\ \A i \in 1 .. k : Slot(v, m, locs[i].id, at - locs[i].off)
       /\ \A f \in VOffsets : f + 2 <= n /\ (\A i \in 1 .. k : locs[i].id # f) => Slot(v, m, f, 0)}

(* One field more is filled in. *)
LEMMA FillsSlot ==
  ASSUME NEW d, NEW v \in Vectors(d), NEW n \in Nat, n <= v.size,
         NEW count \in Nat, NEW locs, DOMAIN locs = 1 .. count,
         \A i \in 1 .. count : locs[i].id \in VOffsets /\ locs[i].id + 2 <= n /\ locs[i].off \in Int,
         NEW length, NEW at \in Int, NEW k \in 1 .. count,
         NEW m \in Filled(v, n, locs, length, at, k - 1)
  PROVE  WriteScalar(m, v.cur + locs[k].id, at - locs[k].off, 2) \in Filled(v, n, locs, length, at, k)
<1> DEFINE x == at - locs[k].off
           id == locs[k].id
           w == WriteScalar(m, v.cur + id, x, 2)
<1>1. /\ id \in VOffsets /\ id \in Nat /\ id % 2 = 0 /\ 4 <= id /\ id + 2 <= n /\ x \in Int
      /\ m \in Overwritten(v, n)
  <2>1. id \in VOffsets /\ id + 2 <= n /\ locs[k].off \in Int
    OBVIOUS
  <2>2. m \in Overwritten(v, n)
    BY DEF Filled
  <2> QED BY <2>1, <2>2, VOffsetsAre
<1> HIDE DEF id, x
<1>2. /\ w \in Overwritten(v, n) /\ Slot(v, w, id, x)
      /\ \A a \in Nat : \A y : a + 2 <= n /\ a % 2 = 0 /\ id % 2 = 0 /\ a # id /\ Slot(v, m, a, y)
           => Slot(v, w, a, y)
  BY <1>1, WritesOver
<1> HIDE DEF w
<1>3. ASSUME \A i, j \in DOMAIN locs : locs[i].id = locs[j].id => i = j
      PROVE  /\ Slot(v, w, 0, n) /\ Slot(v, w, 2, length)
             /\ \A i \in 1 .. k : Slot(v, w, locs[i].id, at - locs[i].off)
             /\ \A f \in VOffsets : f + 2 <= n /\ (\A i \in 1 .. k : locs[i].id # f) => Slot(v, w, f, 0)
  <2>1. /\ Slot(v, m, 0, n) /\ Slot(v, m, 2, length)
        /\ \A i \in 1 .. k - 1 : Slot(v, m, locs[i].id, at - locs[i].off)
        /\ \A f \in VOffsets : f + 2 <= n /\ (\A i \in 1 .. k - 1 : locs[i].id # f) => Slot(v, m, f, 0)
    BY <1>3 DEF Filled
  <2>2. Slot(v, w, 0, n) /\ Slot(v, w, 2, length)
    <3>1. 0 + 2 <= n /\ 0 % 2 = 0 /\ 0 # id /\ 2 + 2 <= n /\ 2 % 2 = 0 /\ 2 # id /\ 0 \in Nat /\ 2 \in Nat
      BY <1>1
    <3> QED BY <1>1, <1>2, <2>1, <3>1
  <2>3. ASSUME NEW i \in 1 .. k PROVE Slot(v, w, locs[i].id, at - locs[i].off)
    <3>1. CASE i = k
      BY <1>2, <3>1 DEF id, x
    <3>2. CASE i # k
      <4>1. i \in 1 .. k - 1 /\ i \in 1 .. count
        BY <3>2
      <4>2. locs[i].id \in VOffsets /\ locs[i].id + 2 <= n /\ locs[i].id # id
        BY <1>3, <3>2, <4>1 DEF id
      <4>3. locs[i].id \in Nat /\ locs[i].id % 2 = 0
        BY <4>2, VOffsetsAre
      <4>4. Slot(v, m, locs[i].id, at - locs[i].off)
        BY <2>1, <4>1
      <4> QED BY <1>1, <1>2, <4>2, <4>3, <4>4
    <3> QED BY <3>1, <3>2
  <2>4. ASSUME NEW f \in VOffsets, f + 2 <= n, \A i \in 1 .. k : locs[i].id # f
        PROVE  Slot(v, w, f, 0)
    <3>1. f \in Nat /\ f % 2 = 0 /\ f # id
      <4>1. k \in 1 .. k
        OBVIOUS
      <4> QED BY <2>4, <4>1, VOffsetsAre DEF id
    <3>2. Slot(v, m, f, 0)
      <4>1. \A i \in 1 .. k - 1 : i \in 1 .. k
        OBVIOUS
      <4> QED BY <2>1, <2>4, <4>1
    <3> QED BY <1>1, <1>2, <2>4, <3>1, <3>2
  <2> QED BY <2>2, <2>3, <2>4
<1>4. w \in Filled(v, n, locs, length, at, k)
  BY <1>2, <1>3 DEF Filled
<1> QED BY <1>4 DEF w, id, x

(* The offsets of all fields written into the vtable, one after the other. *)
LEMMA FillsMemory ==
  ASSUME NEW d, NEW v \in Vectors(d), NEW n \in Nat, n <= v.size,
         NEW count \in Nat, NEW locs, DOMAIN locs = 1 .. count,
         \A i \in 1 .. count : locs[i].id \in VOffsets /\ locs[i].id + 2 <= n /\ locs[i].off \in Int,
         NEW length, NEW at \in Int, NEW base \in Filled(v, n, locs, length, at, 0)
  PROVE  LET put(m, a, x) == WriteScalar(m, v.cur + a, x, 2)
             field(m, loc) == put(m, loc.id, at - loc.off)
         IN FoldLeft(field, base, locs) \in Filled(v, n, locs, length, at, count)
<1> DEFINE B == Overwritten(v, n)
           C == [k \in 0 .. count |-> Filled(v, n, locs, length, at, k)]
           field(m, loc) == WriteScalar(m, v.cur + loc.id, at - loc.off, 2)
           iter == CHOOSE f : f = [s \in SUBSET (DOMAIN locs) |->
                     IF s = {} THEN base ELSE field(f[s \ {Max(s)}], locs[Max(s)])]
           step == [i \in 1 .. count |-> [m \in B |-> field(m, locs[i])]]
<1>1. FoldLeft(field, base, locs) = iter[DOMAIN locs]
  BY DEF FoldLeft, MapThenFoldSet
<1>2. ASSUME NEW i \in 1 .. count, NEW m \in B PROVE field(m, locs[i]) \in B
  <2>1. locs[i].id \in VOffsets /\ locs[i].id + 2 <= n /\ locs[i].off \in Int
    OBVIOUS
  <2>2. locs[i].id \in Nat /\ at - locs[i].off \in Int
    BY <2>1, VOffsetsAre
  <2> QED BY <2>1, <2>2, WritesOver
<1>3. ASSUME NEW i \in 1 .. count, NEW m \in C[i - 1] PROVE field(m, locs[i]) \in C[i]
  <2>1. i - 1 \in 0 .. count /\ i \in 0 .. count
    OBVIOUS
  <2>2. m \in Filled(v, n, locs, length, at, i - 1)
    BY <2>1
  <2>3. field(m, locs[i]) \in Filled(v, n, locs, length, at, i)
    BY <2>2, FillsSlot
  <2> QED BY <2>1, <2>3
<1>4. base \in B /\ base \in C[0]
  BY DEF Filled
<1>5. \A x : x \in C[count] => x \in Filled(v, n, locs, length, at, count)
  OBVIOUS
<1> HIDE DEF B, C, field
<1>6. step \in [1 .. count -> [B -> B]]
  BY <1>2
<1>7. PICK g \in [SUBSET (1 .. count) -> B] : FoldOf(g, count, base, step)
  <2> HIDE DEF step
  <2> QED BY <1>4, <1>6, FoldExists
<1>8. g = [s \in SUBSET (DOMAIN locs) |->
             IF s = {} THEN base ELSE field(g[s \ {Max(s)}], locs[Max(s)])]
  <2>1. ASSUME NEW s \in SUBSET (1 .. count), s # {}
        PROVE  step[Max(s)][g[s \ {Max(s)}]] = field(g[s \ {Max(s)}], locs[Max(s)])
    <3>1. Max(s) \in 1 .. count /\ s \ {Max(s)} \in SUBSET (1 .. count)
      BY <2>1, LargestIndex
    <3>2. g[s \ {Max(s)}] \in B
      BY <3>1
    <3> QED BY <3>1, <3>2
  <2> HIDE DEF step
  <2> QED BY <1>7, <2>1 DEF FoldOf
<1> HIDE DEF step
<1>9. iter = [s \in SUBSET (DOMAIN locs) |->
                IF s = {} THEN base ELSE field(iter[s \ {Max(s)}], locs[Max(s)])]
  BY <1>8
<1> HIDE DEF iter
<1>10. iter[1 .. count] \in C[count]
  <2>1. iter[{}] \in C[0]
    BY <1>4, <1>9
  <2>2. ASSUME NEW s \in SUBSET (1 .. count), NEW k \in 1 .. count,
               s # {}, Max(s) = k, iter[s \ {Max(s)}] \in C[k - 1]
        PROVE  iter[s] \in C[k]
    <3>1. iter[s] = field(iter[s \ {Max(s)}], locs[k])
      BY <1>9, <2>2
    <3> QED BY <1>3, <2>2, <3>1
  <2> QED BY <2>1, <2>2, FoldCounts
<1> QED BY <1>1, <1>5, <1>10 DEF field

-----------------------------------------------------------------------------
(* The vtable of a table, of n bytes, begins at the offset vt: its size,   *)
(* that of the table, and how far behind the table at lies each field, 0   *)
(* for a field that is not there.                                          *)
VTableIs(v, vt, n, length, at, locs) ==
  /\ n <= vt /\ vt <= v.size
  /\ Holds(v, vt, EndianScalar(n, 2)) /\ Holds(v, vt - 2, EndianScalar(length, 2))
  /\ \A i \in DOMAIN locs : Holds(v, vt - locs[i].id, EndianScalar(at - locs[i].off, 2))
  /\ \A f \in VOffsets :
       f + 2 <= n /\ (\A i \in DOMAIN locs : locs[i].id # f) => Holds(v, vt - f, EndianScalar(0, 2))

Distinct(locs) == \A i, j \in DOMAIN locs : locs[i].id = locs[j].id => i = j

OfMemory(b_, m) == [b_ EXCEPT !.buf.mem = m]

(* A builder of which only the first n bytes serialized were written over. *)
LEMMA WithMemory ==
  ASSUME NEW d, NEW b_ \in Builders(d), NEW n \in Nat, n <= b_.buf.size, NEW m \in Overwritten(b_.buf, n),
         NEW c, c = OfMemory(b_, m)
  PROVE  /\ c \in Builders(d) /\ SameTable(b_, c) /\ SameFlags(b_, c) /\ SameMinAlign(b_, c)
         /\ SameScratch(b_.buf, c.buf)
         /\ c.buf.size = b_.buf.size /\ c.buf.reserved = b_.buf.reserved /\ c.buf.mem = m
         /\ \A k \in 1 .. b_.buf.size - n : m[b_.buf.reserved - k] = b_.buf.mem[b_.buf.reserved - k]
<1> DEFINE v == b_.buf
           w == [v EXCEPT !.mem = m]
<1>1. v \in Vectors(d) /\ b_ = [f \in BuilderNames |-> b_[f]] /\ Clean(v)
  BY BuilderFields
<1>2. v = [f \in VectorNames |-> v[f]]
  BY <1>1, VectorFields
<1>3. w = [f \in VectorNames |-> w[f]]
  BY <1>2
<1>4. c = [b_ EXCEPT !.buf = w]
  <2> DEFINE e == [b_ EXCEPT !.buf.mem = m]
  <2>1. e = [b_ EXCEPT !.buf = w]
    BY <1>1 DEF BuilderNames
  <2>2. c = e
    BY DEF OfMemory
  <2> HIDE DEF e
  <2> QED BY <2>1, <2>2
<1>5. /\ w.mem = m /\ w.cur = v.cur /\ w.size = v.size
      /\ w.initial_size = v.initial_size /\ w.buffer_minalign = v.buffer_minalign
      /\ w.block = v.block /\ w.heap = v.heap
      /\ w.reserved = v.reserved /\ w.scratch = v.scratch
  BY <1>2 DEF VectorNames
<1>6. /\ v.reserved \in Nat /\ v.size \in Nat /\ v.cur \in Nat /\ v.scratch \in Nat
      /\ v.cur = v.reserved - v.size /\ v.scratch <= v.cur
  BY <1>1, VectorFields
<1> HIDE DEF w, v
<1>7. /\ m \in Memory(v.reserved)
      /\ \A a \in 0 .. v.reserved - 1 : ~(v.cur <= a /\ a < v.cur + n) => m[a] = v.mem[a]
      /\ \A a \in 0 .. n - 1 : m[v.cur + a] \in Byte
  BY DEF Overwritten, v
<1>8. n <= v.size
  BY DEF v
<1>9. \A a \in 0 .. v.scratch - 1 : w.mem[a] = v.mem[a]
  <2>1. \A a \in 0 .. v.scratch - 1 : a \in 0 .. v.reserved - 1 /\ ~(v.cur <= a /\ a < v.cur + n)
    BY <1>6
  <2> QED BY <1>5, <1>7, <2>1
<1>10. ASSUME NEW k \in 1 .. v.size - n PROVE m[v.reserved - k] = v.mem[v.reserved - k]
  <2>1. /\ v.reserved - k \in 0 .. v.reserved - 1
        /\ ~(v.cur <= v.reserved - k /\ v.reserved - k < v.cur + n)
    BY <1>6, <1>8
  <2> QED BY <1>7, <2>1
<1>11. Clean(w)
  <2>1. ASSUME NEW k \in 1 .. v.size PROVE m[v.reserved - k] \in Byte
    <3>1. CASE k \in 1 .. v.size - n
      BY <1>1, <1>10, <2>1, <3>1 DEF Clean
    <3>2. CASE ~(k \in 1 .. v.size - n)
      <4>1. v.size - k \in 0 .. n - 1 /\ v.cur + (v.size - k) = v.reserved - k
        BY <1>6, <1>8, <3>2
      <4>2. m[v.cur + (v.size - k)] \in Byte
        BY <1>7, <4>1
      <4> QED BY <4>1, <4>2
    <3> QED BY <3>1, <3>2
  <2> QED BY <1>5, <2>1 DEF Clean
<1>12. w \in Vectors(d)
  <2>1. /\ w.initial_size \in Nat \ {0} /\ w.buffer_minalign \in Nat \ {0}
        /\ w.block \in 0 .. 3 /\ w.heap \in SUBSET (1 .. 3)
        /\ w.reserved \in Nat /\ w.size \in Nat /\ w.scratch \in Nat
        /\ w.cur = w.reserved - w.size /\ w.scratch <= w.cur
        /\ w.block = 0 => w.reserved = 0
        /\ w.heap = {w.block, d} \ {0} /\ (w.block = d => d = 0)
    BY <1>1, <1>5, VectorFields
  <2>2. w.mem \in Memory(w.reserved)
    BY <1>5, <1>7
  <2> QED BY <1>3, <2>1, <2>2, VectorIs
<1>13. SameScratch(v, w)
  BY <1>5, <1>9 DEF SameScratch
<1>14. /\ c \in Builders(d) /\ c.buf = w
       /\ SameTable(b_, c) /\ SameFlags(b_, c) /\ SameMinAlign(b_, c)
  BY <1>4, <1>11, <1>12, <1>13, WithBuffer DEF v
<1> QED BY <1>5, <1>10, <1>13, <1>14 DEF v

(* A slot of what was written over is held. *)
LEMMA SlotHeld ==
  ASSUME NEW d, NEW v \in Vectors(d), NEW w, w.size = v.size, w.reserved = v.reserved,
         NEW a \in Nat, a + 2 <= v.size, NEW x \in Int, Slot(v, w.mem, a, x)
  PROVE  Holds(w, v.size - a, EndianScalar(x, 2))
<1>1. v.reserved \in Nat /\ v.cur \in Nat /\ v.size \in Nat /\ v.cur = v.reserved - v.size
  BY VectorFields
<1>2. Len(EndianScalar(x, 2)) = 2
  <2>1. 2 \in Nat
    OBVIOUS
  <2> QED BY <2>1, ScalarBytes
<1> DEFINE o == v.size - a
           s == EndianScalar(x, 2)
<1>3. /\ 2 <= o /\ o <= v.size
      /\ v.reserved - (o - 1 + 1) = v.cur + a /\ v.reserved - (o - 2 + 1) = v.cur + a + 1
  BY <1>1
<1>4. w.mem[v.cur + a] = s[1] /\ w.mem[v.cur + a + 1] = s[2]
  BY DEF Slot
<1> HIDE DEF o, s
<1>5. ASSUME NEW i \in 1 .. 2 PROVE w.mem[w.reserved - (o - i + 1)] = s[i]
  <2>1. i = 1 \/ i = 2
    OBVIOUS
  <2> QED BY <1>3, <1>4, <2>1
<1>6. Len(s) = 2
  BY <1>2 DEF s
<1>7. Holds(w, o, s)
  BY <1>3, <1>5, <1>6 DEF Holds
<1> QED BY <1>7 DEF o, s

(* What is read back from memory. *)
LEMMA ReadsOffset ==
  ASSUME NEW n \in Nat, NEW m \in Memory(n), NEW p \in Nat, p + 4 <= n
  PROVE  ReadScalar(m, p, uoffset_t) \in Int
<1>1. m[p] \in Int /\ m[p + 1] \in Int /\ m[p + 2] \in Int /\ m[p + 3] \in Int
  <2>1. p \in 0 .. n - 1 /\ p + 1 \in 0 .. n - 1 /\ p + 2 \in 0 .. n - 1 /\ p + 3 \in 0 .. n - 1
    OBVIOUS
  <2> QED BY <2>1 DEF Memory
<1>2. p + 4 - 1 = p + 3
  OBVIOUS
<1>3. High(m[p + 3], TRUE) \in Int
  BY <1>1 DEF High
<1>4. ReadScalar(m, p, uoffset_t)
        = High(m[p + 4 - 1], TRUE) * 256^(4 - 1) + (m[p] + 256 * m[p + 1] + 256^2 * m[p + 2])
  <2>1. uoffset_t.size = 4 /\ 4 # 8 /\ 4 >= 4
    BY DEF uoffset_t, Scalar
  <2>2. ReadScalar(m, p, uoffset_t) = ReadBytes(m, p, 4, TRUE)
    BY <2>1 DEF ReadScalar
  <2>3. 4 # 1 /\ 4 # 2
    OBVIOUS
  <2>4. ReadBytes(m, p, 4, TRUE)
          = High(m[p + 4 - 1], TRUE) * 256^(4 - 1) + (m[p] + 256 * m[p + 1] + 256^2 * m[p + 2])
    BY <2>3, Zenon DEF ReadBytes
  <2> QED BY <2>2, <2>4
<1>5. 256^(4 - 1) \in Int /\ 256^2 \in Int
  OBVIOUS
<1>6. High(m[p + 4 - 1], TRUE) \in Int
  BY <1>2, <1>3
<1>7. \A x, y, z \in Int : x * y + z \in Int
  OBVIOUS
<1>8. m[p] + 256 * m[p + 1] + 256^2 * m[p + 2] \in Int
  BY <1>1, <1>5
<1> DEFINE x == High(m[p + 4 - 1], TRUE)
           y == 256^(4 - 1)
           z == m[p] + 256 * m[p + 1] + 256^2 * m[p + 2]
<1>9. ReadScalar(m, p, uoffset_t) = x * y + z /\ x \in Int /\ y \in Int /\ z \in Int
  BY <1>4, <1>5, <1>6, <1>8
<1> HIDE DEF x, y, z
<1> QED BY <1>7, <1>9

(* FieldLocs gives the ids and offsets that the scratch pad ends with. *)
LEMMA LocsRead ==
  ASSUME NEW d, NEW b_ \in Builders(d)
  PROVE  /\ DOMAIN FieldLocs(b_) = 1 .. b_.num_field_loc
         /\ \A i \in 1 .. b_.num_field_loc :
              /\ FieldLocs(b_)[i].id \in VOffsets /\ FieldLocs(b_)[i].id <= b_.max_voffset_
              /\ FieldLocs(b_)[i].off \in Int
<1> DEFINE v == b_.buf
           n == b_.num_field_loc
<1>1. v \in Vectors(d) /\ n \in Nat /\ LocsFit(v, n, b_.max_voffset_)
  BY BuilderFields
<1>2. v.scratch \in Nat /\ v.reserved \in Nat /\ v.scratch <= v.reserved /\ v.mem \in Memory(v.reserved)
  BY <1>1, VectorFields
<1>3. FieldLocs(b_) = Locs(v, n)
  BY FieldLocsAre
<1> HIDE DEF v, n
<1>4. ASSUME NEW i \in 1 .. n
      PROVE  /\ FieldLocs(b_)[i].id \in VOffsets /\ FieldLocs(b_)[i].id <= b_.max_voffset_
             /\ FieldLocs(b_)[i].off \in Int
  <2> DEFINE p == v.scratch - (n - i + 1) * 8
  <2>1. p \in Nat /\ p + 4 <= v.reserved
    BY <1>1, <1>2 DEF LocsFit
  <2>2. Locs(v, n)[i].off = ReadScalar(v.mem, p, uoffset_t)
    BY DEF Locs
  <2>3. Locs(v, n)[i].id \in VOffsets /\ Locs(v, n)[i].id <= b_.max_voffset_
    BY <1>1 DEF LocsFit
  <2> HIDE DEF p
  <2>4. ReadScalar(v.mem, p, uoffset_t) \in Int
    BY <1>2, <2>1, ReadsOffset
  <2> QED BY <1>3, <2>2, <2>3, <2>4
<1>5. DOMAIN Locs(v, n) = 1 .. n
  BY DEF Locs
<1> QED BY <1>3, <1>4, <1>5 DEF n

(* The size of a vtable. *)
LEMMA VTableSizes ==
  ASSUME NEW d, NEW b_ \in Builders(d)
  PROVE  /\ VTableSize(b_) \in Nat /\ 4 <= VTableSize(b_) /\ VTableSize(b_) % 2 = 0
         /\ b_.max_voffset_ + 2 <= VTableSize(b_) /\ VTableSize(b_) \in Values(2)
<1> DEFINE max == b_.max_voffset_
<1>1. max \in Nat /\ max % 2 = 0 /\ max <= 65532
  <2>1. max \in {0} \union VOffsets
    BY BuilderFields
  <2>2. max = 0 \/ max \in VOffsets
    BY <2>1
  <2>3. CASE max = 0
    BY <2>3
  <2>4. CASE max \in VOffsets
    BY <2>4, VOffsetsAre
  <2> QED BY <2>2, <2>3, <2>4
<1>2. VTableSize(b_) = IF max + 2 >= 4 THEN max + 2 ELSE 4
  <2>1. (0 + 2) * 2 = 4
    OBVIOUS
  <2> QED BY <2>1 DEF VTableSize, Larger, FieldIndexToOffset, voffset_t, Scalar
<1> HIDE DEF max
<1> DEFINE n == VTableSize(b_)
<1>3. n \in Nat /\ 4 <= n /\ n % 2 = 0 /\ max + 2 <= n /\ n <= 65534
  BY SMT, <1>1, <1>2
<1> HIDE DEF n
<1>4. n \in Values(2)
  BY SMT, <1>3 DEF Values
<1> QED BY <1>3, <1>4 DEF max, n

(* The bytes of zero. *)
LEMMA ZeroBytes ==
  EndianScalar(0, 2)[1] = 0 /\ EndianScalar(0, 2)[2] = 0
<1>1. 2 \in Nat
  OBVIOUS
<1>2. EndianScalar(0, 2)[1] = 0 % 256 /\ EndianScalar(0, 2)[2] = (0 \div 256) % 256
  BY <1>1, LowerBytes
<1> QED BY <1>2

(* The vtable before any field was filled in: zeros, its size and that of  *)
(* the table.                                                              *)
LEMMA FillsHeader ==
  ASSUME NEW d, NEW v \in Vectors(d), NEW n \in Nat, n <= v.size, 4 <= n,
         Clean(v), Holds(v, v.size, [i \in 1 .. n |-> 0]), NEW length \in Int, NEW at, NEW locs
  PROVE  WriteScalar(WriteScalar(v.mem, v.cur + 0, n, 2), v.cur + 2, length, 2)
           \in Filled(v, n, locs, length, at, 0)
<1> DEFINE first == WriteScalar(v.mem, v.cur + 0, n, 2)
           both == WriteScalar(first, v.cur + 2, length, 2)
<1>1. /\ v.reserved \in Nat /\ v.cur \in Nat /\ v.size \in Nat /\ v.cur = v.reserved - v.size
      /\ v.mem \in Memory(v.reserved)
  BY VectorFields
<1>2. n \in Nat
  OBVIOUS
<1>3. ASSUME NEW a \in 0 .. n - 1 PROVE v.mem[v.cur + a] = 0
  <2>1. a + 1 \in 1 .. n /\ v.reserved - (v.size - (a + 1) + 1) = v.cur + a
    BY <1>1, <1>2
  <2>2. Len([i \in 1 .. n |-> 0]) = n
    BY <1>2
  <2>3. v.mem[v.reserved - (v.size - (a + 1) + 1)] = [i \in 1 .. n |-> 0][a + 1]
    BY <2>1, <2>2 DEF Holds
  <2> QED BY <2>1, <2>3
<1>4. v.mem \in Overwritten(v, n)
  <2>1. \A a \in 0 .. n - 1 : v.mem[v.cur + a] \in Byte
    <3>1. 0 \in Byte
      BY DEF Byte
    <3> QED BY <1>3, <3>1
  <2> QED BY <1>1, <2>1 DEF Overwritten
<1>5. ASSUME NEW f \in VOffsets, f + 2 <= n PROVE Slot(v, v.mem, f, 0) /\ f \in Nat /\ f % 2 = 0 /\ 4 <= f
  <2>1. f \in Nat /\ f % 2 = 0 /\ 4 <= f
    BY VOffsetsAre
  <2>2. v.mem[v.cur + f] = 0 /\ v.mem[v.cur + f + 1] = 0
    <3>1. f \in 0 .. n - 1 /\ f + 1 \in 0 .. n - 1 /\ v.cur + (f + 1) = v.cur + f + 1
      BY <1>1, <1>2, <1>5, <2>1
    <3> QED BY <1>3, <3>1
  <2>3. EndianScalar(0, 2)[1] = 0 /\ EndianScalar(0, 2)[2] = 0
    BY ZeroBytes
  <2> QED BY <2>1, <2>2, <2>3 DEF Slot
<1>6. /\ first \in Overwritten(v, n) /\ Slot(v, first, 0, n)
      /\ \A a \in Nat : \A y : a + 2 <= n /\ a % 2 = 0 /\ 0 % 2 = 0 /\ a # 0 /\ Slot(v, v.mem, a, y)
           => Slot(v, first, a, y)
  <2>1. 0 \in Nat /\ 0 + 2 <= n /\ n \in Int
    BY <1>2
  <2> QED BY <1>2, <1>4, <2>1, WritesOver
<1> HIDE DEF first
<1>7. /\ both \in Overwritten(v, n) /\ Slot(v, both, 2, length)
      /\ \A a \in Nat : \A y : a + 2 <= n /\ a % 2 = 0 /\ 2 % 2 = 0 /\ a # 2 /\ Slot(v, first, a, y)
           => Slot(v, both, a, y)
  <2>1. 2 \in Nat /\ 2 + 2 <= n
    BY <1>2
  <2> QED BY <1>2, <1>6, <2>1, WritesOver
<1> HIDE DEF both
<1>8. 0 \in Nat /\ 0 + 2 <= n /\ 0 % 2 = 0 /\ 2 % 2 = 0 /\ 0 # 2
  BY <1>2
<1>9. Slot(v, both, 0, n)
  BY <1>6, <1>7, <1>8
<1>10. ASSUME NEW f \in VOffsets, f + 2 <= n PROVE Slot(v, both, f, 0)
  <2>1. Slot(v, v.mem, f, 0) /\ f \in Nat /\ f % 2 = 0 /\ f # 0 /\ f # 2
    BY <1>5, <1>10
  <2> HIDE DEF Slot
  <2>2. Slot(v, first, f, 0)
    BY <1>6, <1>8, <1>10, <2>1
  <2> QED BY <1>7, <1>8, <1>10, <2>1, <2>2
<1>11. \A i \in 1 .. 0 : FALSE
  OBVIOUS
<1>12. both \in Filled(v, n, locs, length, at, 0)
  BY <1>7, <1>9, <1>10, <1>11 DEF Filled
<1> QED BY <1>12 DEF both, first

(* The slots that were filled in are the vtable. *)
LEMMA FilledIs ==
  ASSUME NEW d, NEW v \in Vectors(d), NEW w, w.size = v.size, w.reserved = v.reserved,
         NEW n \in Nat, 4 <= n, n <= v.size,
         NEW count \in Nat, NEW locs, DOMAIN locs = 1 .. count,
         \A i \in 1 .. count : locs[i].id \in VOffsets /\ locs[i].id + 2 <= n /\ locs[i].off \in Int,
         NEW length \in Int, NEW at \in Int,
         w.mem \in Filled(v, n, locs, length, at, count), Distinct(locs)
  PROVE  VTableIs(w, v.size, n, length, at, locs)
<1>1. /\ Slot(v, w.mem, 0, n) /\ Slot(v, w.mem, 2, length)
      /\ \A i \in 1 .. count : Slot(v, w.mem, locs[i].id, at - locs[i].off)
      /\ \A f \in VOffsets : f + 2 <= n /\ (\A i \in 1 .. count : locs[i].id # f) => Slot(v, w.mem, f, 0)
  BY DEF Filled, Distinct
<1>2. v.size \in Nat
  BY VectorFields
<1>3. Holds(w, v.size, EndianScalar(n, 2))
  <2>1. 0 \in Nat /\ 0 + 2 <= v.size /\ v.size - 0 = v.size /\ n \in Int
    BY <1>2
  <2> QED BY <1>1, <2>1, SlotHeld
<1>4. Holds(w, v.size - 2, EndianScalar(length, 2))
  <2>1. 2 \in Nat /\ 2 + 2 <= v.size
    BY <1>2
  <2> QED BY <1>1, <2>1, SlotHeld
<1>5. ASSUME NEW i \in 1 .. count
      PROVE  Holds(w, v.size - locs[i].id, EndianScalar(at - locs[i].off, 2))
  <2> DEFINE id == locs[i].id
             x == at - locs[i].off
  <2>1. id \in VOffsets /\ id + 2 <= n /\ x \in Int /\ Slot(v, w.mem, id, x)
    BY <1>1
  <2> HIDE DEF id, x
  <2>2. id \in Nat /\ id + 2 <= v.size
    <3>1. id \in Nat
      BY <2>1, VOffsetsAre
    <3> QED BY <1>2, <2>1, <3>1
  <2>3. Holds(w, v.size - id, EndianScalar(x, 2))
    BY <2>1, <2>2, SlotHeld
  <2> QED BY <2>3 DEF id, x
<1>6. ASSUME NEW f \in VOffsets, f + 2 <= n, \A i \in 1 .. count : locs[i].id # f
      PROVE  Holds(w, v.size - f, EndianScalar(0, 2))
  <2>1. f \in Nat
    BY VOffsetsAre
  <2>2. f + 2 <= v.size
    BY <1>2, <1>6, <2>1
  <2>3. Slot(v, w.mem, f, 0) /\ 0 \in Int
    BY <1>1, <1>6
  <2> QED BY <2>1, <2>2, <2>3, SlotHeld
<1>7. n <= v.size /\ v.size <= w.size
  BY <1>2
<1>8. \A i \in DOMAIN locs : Holds(w, v.size - locs[i].id, EndianScalar(at - locs[i].off, 2))
  BY <1>5
<1>9. \A f \in VOffsets :
        f + 2 <= n /\ (\A i \in DOMAIN locs : locs[i].id # f) => Holds(w, v.size - f, EndianScalar(0, 2))
  BY <1>6
<1> QED BY <1>3, <1>4, <1>7, <1>8, <1>9, Zenon DEF VTableIs

(* The vtable is filled in where room was made for it: every id read from  *)
(* the scratch pad lies inside of it.                                      *)
LEMMA FillsVTable ==
  ASSUME NEW d, NEW b_ \in Builders(d), NEW n, n = VTableSize(b_), n <= b_.buf.size,
         Holds(b_.buf, b_.buf.size, [i \in 1 .. n |-> 0]),
         NEW count \in Nat, NEW locs, DOMAIN locs = 1 .. count,
         \A i \in 1 .. count :
           locs[i].id \in VOffsets /\ locs[i].id <= b_.max_voffset_ /\ locs[i].off \in Int,
         NEW begin \in Int, NEW at \in Int
  PROVE  LET c == FillVTable(b_, locs, begin, at)
         IN /\ c \in Builders(d) /\ SameTable(b_, c) /\ SameFlags(b_, c) /\ c.minalign_ = b_.minalign_
            /\ SameScratch(b_.buf, c.buf) /\ c.buf.size = b_.buf.size
            /\ \A k \in 1 .. b_.buf.size - n :
                 c.buf.mem[c.buf.reserved - k] = b_.buf.mem[b_.buf.reserved - k]
            /\ c.ok => /\ at - begin < 65536 /\ Distinct(locs)
                       /\ VTableIs(c.buf, c.buf.size, n, at - begin, at, locs)
<1> DEFINE v == b_.buf
           put(m, a, x) == WriteScalar(m, v.cur + a, x, 2)
           field(m, loc) == put(m, loc.id, at - loc.off)
           length == at - begin
           base == put(put(v.mem, 0, n), 2, length)
           condition == /\ at - begin < 65536
                        /\ \A i, j \in DOMAIN locs : locs[i].id = locs[j].id => i = j
           a_ == Assert_(b_, condition)
           mem == FoldLeft(field, base, locs)
           c == OfMemory(a_, mem)
<1>1. v \in Vectors(d) /\ Clean(v) /\ v.size \in Nat
  BY BuilderFields, BuilderNumbers
<1>2. n \in Nat /\ 4 <= n /\ b_.max_voffset_ + 2 <= n /\ n \in Values(2)
  BY VTableSizes
<1>3. base \in Filled(v, n, locs, length, at, 0)
  <2>1. length \in Int
    OBVIOUS
  <2> HIDE DEF v, length
  <2> QED BY <1>1, <1>2, <2>1, FillsHeader DEF v
<1>4. \A i \in 1 .. count : locs[i].id \in VOffsets /\ locs[i].id + 2 <= n /\ locs[i].off \in Int
  <2>1. ASSUME NEW i \in 1 .. count PROVE locs[i].id + 2 <= n
    <3>1. locs[i].id \in Int /\ b_.max_voffset_ \in Nat
      BY VOffsetsAre, BuilderNumbers
    <3>2. locs[i].id <= b_.max_voffset_
      OBVIOUS
    <3> QED BY <1>2, <3>1, <3>2
  <2> QED BY <2>1
<1>5. mem \in Filled(v, n, locs, length, at, count)
  <2>1. n <= v.size
    OBVIOUS
  <2> HIDE DEF v, base, length
  <2> QED BY <1>1, <1>2, <1>3, <1>4, <2>1, FillsMemory
<1>6. mem \in Overwritten(v, n)
  <2> HIDE DEF mem, v, length
  <2> QED BY <1>5 DEF Filled
<1>7. /\ a_ \in Grown(b_, d) /\ a_ \in Builders(d) /\ a_.buf = v /\ a_.minalign_ = b_.minalign_
      /\ a_.ok => condition
  <2> HIDE DEF condition
  <2> QED BY Asserts DEF Grown
<1>8. FillVTable(b_, locs, begin, at) = c
  <2> DEFINE again == put(put(a_.buf.mem, 0, VTableSize(b_)), 2, at - begin)
  <2>1. FillVTable(b_, locs, begin, at) = [a_ EXCEPT !.buf.mem = FoldLeft(field, again, locs)]
    BY DEF FillVTable, voffset_t, Scalar
  <2>3. c = [a_ EXCEPT !.buf.mem = mem]
    BY DEF OfMemory
  <2>2. again = base
    <3> HIDE DEF a_, put
    <3> QED BY <1>7
  <2> HIDE DEF a_, again, base
  <2>4. [a_ EXCEPT !.buf.mem = FoldLeft(field, again, locs)] = [a_ EXCEPT !.buf.mem = mem]
    BY <2>2
  <2> QED BY <2>1, <2>3, <2>4, Zenon
<1> HIDE DEF a_, mem, condition
<1>9. /\ c \in Builders(d) /\ SameTable(a_, c) /\ SameFlags(a_, c) /\ SameMinAlign(a_, c)
      /\ SameScratch(v, c.buf)
      /\ c.buf.size = v.size /\ c.buf.reserved = v.reserved /\ c.buf.mem = mem
      /\ \A k \in 1 .. v.size - n : mem[v.reserved - k] = v.mem[v.reserved - k]
  <2>1. n <= a_.buf.size /\ mem \in Overwritten(a_.buf, n)
    BY <1>6, <1>7
  <2> HIDE DEF v
  <2>2. /\ c \in Builders(d) /\ SameTable(a_, c) /\ SameFlags(a_, c) /\ SameMinAlign(a_, c)
        /\ SameScratch(a_.buf, c.buf)
        /\ c.buf.size = a_.buf.size /\ c.buf.reserved = a_.buf.reserved /\ c.buf.mem = mem
        /\ \A k \in 1 .. a_.buf.size - n :
             mem[a_.buf.reserved - k] = a_.buf.mem[a_.buf.reserved - k]
    <3>1. c = OfMemory(a_, mem) /\ a_ \in Builders(d) /\ n \in Nat
      BY <1>2, <1>7
    <3> HIDE DEF c
    <3> QED BY <2>1, <3>1, WithMemory
  <2> HIDE DEF c
  <2> QED BY <1>7, <2>2
<1> HIDE DEF c
<1>10. ASSUME c.ok
       PROVE  /\ length < 65536 /\ Distinct(locs)
              /\ VTableIs(c.buf, c.buf.size, n, length, at, locs)
  <2>1. condition
    BY <1>7, <1>9, <1>10 DEF SameMinAlign
  <2>2. Distinct(locs)
    BY <2>1 DEF condition, Distinct
  <2>3. length \in Int /\ n <= v.size
    OBVIOUS
  <2>6. length < 65536
    BY <2>1 DEF condition
  <2> HIDE DEF length, v
  <2> DEFINE w == c.buf
  <2>4. w.size = v.size /\ w.reserved = v.reserved /\ w.mem \in Filled(v, n, locs, length, at, count)
    BY <1>5, <1>9
  <2> HIDE DEF w
  <2>5. VTableIs(w, v.size, n, length, at, locs)
    BY <1>1, <1>2, <1>4, <2>2, <2>3, <2>4, FilledIs
  <2> QED BY <1>9, <2>2, <2>5, <2>6 DEF w
<1>11. SameTable(b_, c) /\ SameFlags(b_, c) /\ c.minalign_ = b_.minalign_
  BY <1>7, <1>9 DEF SameTable, SameFlags, SameMinAlign, Grown
<1> QED BY <1>8, <1>9, <1>10, <1>11

(* WriteVTable makes the room that FillVTable writes. *)
LEMMA WritesVTable ==
  ASSUME NEW d \in 0 .. 3, NEW b_ \in Builders(d), NEW begin \in Int, NEW at \in Int
  PROVE  LET c == WriteVTable(b_, begin, at)
             n == VTableSize(b_)
         IN /\ c \in Grown(b_, d) /\ c.minalign_ = b_.minalign_ /\ c.buf.size = b_.buf.size + n
            /\ c.ok => /\ at - begin < 65536 /\ Distinct(FieldLocs(b_))
                       /\ VTableIs(c.buf, c.buf.size, n, at - begin, at, FieldLocs(b_))
<1> DEFINE n == VTableSize(b_)
           p == Pad(b_, n)
           locs == FieldLocs(b_)
           count == b_.num_field_loc
           c == FillVTable(p, locs, begin, at)
<1>1. n \in Nat /\ b_.buf.size \in Nat
  BY VTableSizes, BuilderNumbers
<1>2. WriteVTable(b_, begin, at) = c
  BY DEF WriteVTable
<1> HIDE DEF n
<1>3. /\ p \in Grown(b_, d) /\ p.buf.size = b_.buf.size + n
      /\ Holds(p.buf, p.buf.size, [i \in 1 .. n |-> 0]) /\ SameMinAlign(b_, p)
  BY <1>1, PadsBytes
<1>4. /\ DOMAIN locs = 1 .. count /\ count \in Nat
      /\ \A i \in 1 .. count :
           locs[i].id \in VOffsets /\ locs[i].id <= b_.max_voffset_ /\ locs[i].off \in Int
  BY LocsRead, BuilderFields
<1> HIDE DEF p, locs, count
<1>5. p \in Builders(d) /\ p.max_voffset_ = b_.max_voffset_ /\ n = VTableSize(p) /\ n <= p.buf.size
  <2>1. p \in Builders(d) /\ p.max_voffset_ = b_.max_voffset_
    BY <1>3 DEF Grown, SameTable
  <2>2. n = VTableSize(p)
    BY <2>1 DEF VTableSize, n
  <2>3. n <= p.buf.size
    BY <1>1, <1>3
  <2> QED BY <2>1, <2>2, <2>3
<1>6. /\ c \in Builders(d) /\ SameTable(p, c) /\ SameFlags(p, c) /\ c.minalign_ = p.minalign_
      /\ SameScratch(p.buf, c.buf) /\ c.buf.size = p.buf.size
      /\ \A k \in 1 .. p.buf.size - n :
           c.buf.mem[c.buf.reserved - k] = p.buf.mem[p.buf.reserved - k]
      /\ c.ok => /\ at - begin < 65536 /\ Distinct(locs)
                 /\ VTableIs(c.buf, c.buf.size, n, at - begin, at, locs)
  <2>1. \A i \in 1 .. count :
          locs[i].id \in VOffsets /\ locs[i].id <= p.max_voffset_ /\ locs[i].off \in Int
    BY <1>4, <1>5
  <2>2. Holds(p.buf, p.buf.size, [i \in 1 .. n |-> 0])
    BY <1>3
  <2> QED BY <1>4, <1>5, <2>1, <2>2, FillsVTable
<1> HIDE DEF c
<1>7. Stays(b_.buf, c.buf)
  <2>1. c.buf.size = b_.buf.size + n /\ p.buf.size - n = b_.buf.size
    BY <1>1, <1>3, <1>6
  <2>2. \A k \in 1 .. b_.buf.size : p.buf.mem[p.buf.reserved - k] = b_.buf.mem[b_.buf.reserved - k]
    BY <1>3 DEF Grown, Stays
  <2>3. \A k \in 1 .. b_.buf.size : c.buf.mem[c.buf.reserved - k] = p.buf.mem[p.buf.reserved - k]
    BY <1>6, <2>1
  <2>4. b_.buf.size <= c.buf.size
    BY <1>1, <2>1
  <2> QED BY <2>2, <2>3, <2>4 DEF Stays
<1>8. SameTable(b_, c) /\ SameFlags(b_, c) /\ c.minalign_ = b_.minalign_
  BY <1>3, <1>6 DEF SameTable, SameFlags, Grown, SameMinAlign
<1>9. SameScratch(b_.buf, c.buf)
  BY <1>3, <1>6 DEF Grown, SameScratch
<1>10. c \in Grown(b_, d)
  <2>1. b_.minalign_ <= c.minalign_
    BY <1>8, BuilderNumbers
  <2> QED BY <1>6, <1>7, <1>8, <1>9, <2>1 DEF Grown
<1> QED BY <1>1, <1>2, <1>3, <1>6, <1>8, <1>10 DEF n, locs

-----------------------------------------------------------------------------
(* The first bytes of the block are the same; all that is serialized but   *)
(* the four bytes that begin at the offset at is.                          *)
SameBelow(v, w, base) == \A a \in 0 .. base - 1 : w.mem[a] = v.mem[a]
SameBut(v, w, at) ==
  \A k \in 1 .. w.size : k <= at - 4 \/ at < k =>
    w.mem[w.reserved - k] = v.mem[v.reserved - k]

(* The builder c is b with a table at the offset at that points to a       *)
(* vtable, and with no table open.                                         *)
PointedTo(b_, c, d, at, use) ==
  /\ c \in Builders(d)
  /\ c.nested = FALSE /\ c.num_field_loc = b_.num_field_loc
  /\ c.max_voffset_ = b_.max_voffset_ /\ c.string_pool = b_.string_pool
  /\ SameFlags(b_, c) /\ SameMinAlign(b_, c) /\ SameScratch(b_.buf, c.buf)
  /\ c.buf.size = b_.buf.size
  /\ Holds(c.buf, at, EndianScalar(use - at, 4))
  /\ SameBut(b_.buf, c.buf, at)

(* A table points at a vtable from where it is, inside of the block; no    *)
(* other byte changes.                                                     *)
LEMMA PointsToVTable ==
  ASSUME NEW d, NEW b_ \in Builders(d), NEW at \in Int, 4 <= at, at <= b_.buf.size, NEW use \in Int
  PROVE  PointedTo(b_, PointToVTable(b_, at, use), d, at, use)
<1> DEFINE v == b_.buf
           n == [b_ EXCEPT !.nested = FALSE]
           bytes == EndianScalar(use - at, 4)
           p == v.reserved - at
           w == Put(v, p, bytes)
           c == PointToVTable(b_, at, use)
<1>1. v \in Vectors(d) /\ b_ = [f \in BuilderNames |-> b_[f]] /\ Clean(v)
  BY BuilderFields
<1>2. /\ v.cur \in Nat /\ v.reserved \in Nat /\ v.cur = v.reserved - v.size /\ v.size \in Nat
      /\ v.scratch <= v.cur /\ v.scratch \in Nat
  BY <1>1, VectorFields
<1>3. bytes \in Seq(Byte) /\ bytes \in Seq(Int) /\ Len(bytes) = 4 /\ \A i \in 1 .. 4 : bytes[i] \in Byte
  <2>1. use - at \in Int /\ 4 \in Nat
    OBVIOUS
  <2>2. bytes \in Seq(Byte) /\ Len(bytes) = 4
    BY <2>1, ScalarBytes
  <2> HIDE DEF bytes
  <2>3. \A i \in 1 .. Len(bytes) : bytes[i] \in Byte
    BY <2>2, LenProperties
  <2> QED BY <2>2, <2>3, BytesAreIntegers
<1>4. n \in Builders(d) /\ n.nested = FALSE /\ n.buf = v
      /\ n.num_field_loc = b_.num_field_loc /\ n.string_pool = b_.string_pool
      /\ n.max_voffset_ = b_.max_voffset_ /\ SameFlags(b_, n) /\ SameMinAlign(b_, n)
  BY Nests
<1>5. c = [n EXCEPT !.buf = w]
  BY <1>1 DEF PointToVTable, Address, data_at, soffset_t, Scalar, BuilderNames
<1> HIDE DEF v, n, bytes
<1>6. p \in Nat /\ p + Len(bytes) <= v.reserved /\ v.scratch <= p /\ p + 4 <= v.reserved
  BY SMTT(30), <1>2, <1>3 DEF v
<1> HIDE DEF p
<1>7. /\ w \in Vectors(d) /\ w.scratch = v.scratch /\ w.size = v.size /\ w.reserved = v.reserved
      /\ \A a \in 0 .. p - 1 : w.mem[a] = v.mem[a]
      /\ \A a \in p + Len(bytes) .. v.reserved - 1 : w.mem[a] = v.mem[a]
      /\ \A i \in 1 .. Len(bytes) : w.mem[p + i - 1] = bytes[i]
  <2>1. v \in Vectors(d) /\ bytes \in Seq(Int) /\ p \in Nat /\ p + Len(bytes) <= v.reserved
    BY <1>1, <1>3, <1>6
  <2>2. /\ w \in Vectors(d)
        /\ w.size = v.size /\ w.scratch = v.scratch /\ w.cur = v.cur
        /\ w.reserved = v.reserved
        /\ \A a \in 0 .. p - 1 : w.mem[a] = v.mem[a]
        /\ \A a \in p + Len(bytes) .. v.reserved - 1 : w.mem[a] = v.mem[a]
        /\ \A i \in 1 .. Len(bytes) : w.mem[p + i - 1] = bytes[i]
    BY <2>1, Puts
  <2> QED BY <2>2
<1> HIDE DEF w, c
<1>8. SameScratch(n.buf, w)
  <2>1. \A a \in 0 .. v.scratch - 1 : a \in 0 .. p - 1
    BY <1>2, <1>6
  <2> QED BY <1>4, <1>7, <2>1 DEF SameScratch
<1>9. ASSUME NEW k \in 1 .. v.size, k <= at - 4 \/ at < k
      PROVE  w.mem[w.reserved - k] = v.mem[v.reserved - k]
  <2>1. v.reserved - k \in 0 .. p - 1 \/ v.reserved - k \in p + 4 .. v.reserved - 1
    BY <1>2, <1>9 DEF p
  <2> QED BY <1>3, <1>7, <2>1
<1>10. Holds(w, at, bytes)
  <2>1. ASSUME NEW i \in 1 .. 4 PROVE w.mem[w.reserved - (at - i + 1)] = bytes[i]
    <3>1. v.reserved - (at - i + 1) = p + i - 1
      BY <1>2 DEF p
    <3> QED BY <1>3, <1>7, <3>1
  <2>2. 4 <= at /\ at <= w.size
    BY <1>7 DEF v
  <2> QED BY <1>3, <2>1, <2>2 DEF Holds
<1>11. Clean(w)
  <2>1. ASSUME NEW k \in 1 .. v.size PROVE w.mem[w.reserved - k] \in Byte
    <3>1. CASE k <= at - 4 \/ at < k
      BY <1>1, <1>9, <3>1 DEF Clean
    <3>2. CASE ~(k <= at - 4 \/ at < k)
      <4> DEFINE i == at - k + 1
      <4>1. i \in 1 .. 4 /\ k = at - i + 1
        BY <1>2, <3>2
      <4> HIDE DEF i
      <4>2. w.mem[w.reserved - (at - i + 1)] = bytes[i]
        BY <1>3, <1>10, <4>1 DEF Holds
      <4> QED BY <1>3, <4>1, <4>2
    <3> QED BY <3>1, <3>2
  <2> QED BY <1>7, <2>1 DEF Clean
<1>12. /\ c \in Builders(d) /\ c.buf = w /\ SameTable(n, c) /\ SameFlags(n, c) /\ SameMinAlign(n, c)
  BY <1>4, <1>5, <1>7, <1>8, <1>11, WithBuffer
<1>13. /\ c.nested = FALSE /\ c.num_field_loc = b_.num_field_loc
       /\ c.max_voffset_ = b_.max_voffset_ /\ c.string_pool = b_.string_pool
       /\ SameFlags(b_, c) /\ SameMinAlign(b_, c)
  BY <1>4, <1>12 DEF SameTable, SameFlags, SameMinAlign
<1>14. SameScratch(v, c.buf)
  BY <1>4, <1>8, <1>12
<1>15. SameBut(v, c.buf, at)
  BY <1>7, <1>9, <1>12 DEF SameBut
<1>16. PointedTo(b_, c, d, at, use)
  BY <1>7, <1>10, <1>12, <1>13, <1>14, <1>15 DEF v, bytes, PointedTo
<1> QED BY <1>16 DEF c

(* A builder without FieldLocs keeps one offset more in the scratch pad,   *)
(* where it is read back.                                                  *)
LEMMA KeepsOffset ==
  ASSUME NEW d \in 0 .. 3, NEW b_ \in Builders(d), b_.num_field_loc = 0, NEW off \in Int
  PROVE  LET c == [b_ EXCEPT !.buf = scratch_push_small(@, EndianScalar(off, 4))]
         IN /\ c \in Builders(d)
            /\ c.nested = b_.nested /\ c.num_field_loc = 0 /\ c.string_pool = b_.string_pool
            /\ c.max_voffset_ = b_.max_voffset_ /\ SameFlags(b_, c) /\ SameMinAlign(b_, c)
            /\ c.buf.size = b_.buf.size /\ c.buf.scratch = b_.buf.scratch + 4
            /\ Stays(b_.buf, c.buf)
            /\ SameBelow(b_.buf, c.buf, b_.buf.scratch)
            /\ off \in Values(4) => ReadScalar(c.buf.mem, b_.buf.scratch, uoffset_t) = off
<1> DEFINE v == b_.buf
           bytes == EndianScalar(off, 4)
           w == scratch_push_small(v, bytes)
           c == [b_ EXCEPT !.buf = w]
<1>1. /\ v \in Vectors(d) /\ b_ = [f \in BuilderNames |-> b_[f]] /\ Clean(v)
      /\ LocsFit(v, 0, b_.max_voffset_) /\ v.scratch \in Nat /\ v.size \in Nat
  BY BuilderFields, VectorFields
<1>2. bytes \in Seq(Int) /\ Len(bytes) = 4
  <2>1. 4 \in Nat
    OBVIOUS
  <2>2. bytes \in Seq(Byte) /\ Len(bytes) = 4
    BY <2>1, ScalarBytes
  <2> HIDE DEF bytes
  <2> QED BY <2>2, BytesAreIntegers
<1>3. c = [f \in BuilderNames |-> c[f]]
  BY <1>1
<1>4. /\ c.buf = w /\ c.num_field_loc = b_.num_field_loc /\ c.max_voffset_ = b_.max_voffset_
      /\ c.nested = b_.nested /\ c.finished = b_.finished /\ c.minalign_ = b_.minalign_
      /\ c.force_defaults_ = b_.force_defaults_ /\ c.dedup_vtables_ = b_.dedup_vtables_
      /\ c.string_pool = b_.string_pool /\ c.ok = b_.ok
  BY <1>1 DEF BuilderNames
<1> HIDE DEF c, v, bytes
<1>5. /\ w \in Vectors(d) /\ w.size = v.size /\ w.scratch = v.scratch + Len(bytes) /\ Stays(v, w)
      /\ \A a \in 0 .. v.scratch - 1 : w.mem[a] = v.mem[a]
      /\ \A i \in 1 .. Len(bytes) : w.mem[v.scratch + i - 1] = bytes[i]
  <2>1. v \in Vectors(d) /\ bytes \in Seq(Int)
    BY <1>1, <1>2
  <2> QED BY <2>1, PushesOnScratch
<1> HIDE DEF w
<1>6. LocsFit(w, 0, b_.max_voffset_)
  <2>1. v.scratch % 4 = 0
    <3>1. (v.scratch - 0 * 8) % 4 = 0 /\ v.scratch - 0 * 8 = v.scratch
      BY <1>1 DEF LocsFit
    <3> QED BY <3>1
  <2>2. (v.scratch + 4) % 4 = 0
    BY <1>1, <2>1
  <2>3. w.scratch \in Nat /\ w.scratch - 0 * 8 = w.scratch /\ w.scratch = v.scratch + 4
    BY <1>1, <1>2, <1>5
  <2>4. (w.scratch - 0 * 8) % 4 = 0
    BY <2>2, <2>3
  <2>5. \A i \in 1 .. 0 : FALSE
    OBVIOUS
  <2> QED BY <2>3, <2>4, <2>5 DEF LocsFit
<1>7. LocsFit(c.buf, c.num_field_loc, c.max_voffset_)
  BY <1>4, <1>6
<1>8. Clean(w)
  BY <1>1, <1>5, CleanSame
<1>9. c \in Builders(d)
  BY <1>3, <1>4, <1>5, <1>7, <1>8, BuilderFields, BuilderIs
<1>10. ASSUME off \in Values(4) PROVE ReadScalar(w.mem, v.scratch, uoffset_t) = off
  <2>1. BytesAt(w.mem, v.scratch, bytes)
    BY <1>5 DEF BytesAt
  <2>2. v.scratch \in Int /\ 4 \in {4, 8} /\ FALSE \in BOOLEAN
    BY <1>1
  <2> QED BY <1>10, <2>1, <2>2, ReadsLarge DEF uoffset_t, bytes
<1>11. SameFlags(b_, c) /\ SameMinAlign(b_, c)
  BY <1>4 DEF SameFlags, SameMinAlign
<1>12. SameBelow(v, c.buf, v.scratch)
  BY <1>4, <1>5 DEF SameBelow
<1> QED BY <1>2, <1>4, <1>5, <1>9, <1>10, <1>11, <1>12 DEF c, v, w, bytes

-----------------------------------------------------------------------------
(* The offsets of the vtables in the scratch pad up to base, and the bytes *)
(* of the vtable at one.                                                   *)
VTs(v, base) == [i \in 1 .. base \div 4 |-> ReadScalar(v.mem, (i - 1) * 4, uoffset_t)]
VBytes(v, vt) ==
  [i \in 1 .. ReadScalar(v.mem, v.reserved - vt, voffset_t) |-> v.mem[v.reserved - vt + i - 1]]

(* There is a vtable at each of them, which fits in two bytes and is even, *)
(* and if the builder is told so no two are the same.                      *)
VTableIn(v, vt) ==
  /\ vt \in Nat /\ vt % 2 = 0 /\ vt <= v.size
  /\ \E n \in Nat : 4 <= n /\ n <= vt /\ n \in Values(2) /\ Holds(v, vt, EndianScalar(n, 2))
VTablesIn(v, base, once) ==
  /\ \A i \in DOMAIN VTs(v, base) : VTableIn(v, VTs(v, base)[i])
  /\ once => \A i, j \in DOMAIN VTs(v, base) :
       VBytes(v, VTs(v, base)[i]) = VBytes(v, VTs(v, base)[j]) => i = j

(* They are those of the builder. *)
LEMMA VTablesAre ==
  ASSUME NEW b_
  PROVE  /\ VTables(b_) = VTs(b_.buf, b_.buf.scratch)
         /\ \A o : VTableAt(b_, o) = VBytes(b_.buf, o)
<1>1. VTables(b_) = VTs(b_.buf, b_.buf.scratch)
  BY DEF VTables, VTs, uoffset_t, Scalar
<1>2. ASSUME NEW o PROVE VTableAt(b_, o) = VBytes(b_.buf, o)
  BY DEF VTableAt, VBytes, Address, data_at
<1> QED BY <1>1, <1>2

(* The n bytes that begin at the offset p of v begin at the offset q of w. *)
SameBytes(v, p, w, q, n) ==
  /\ n <= q /\ q <= w.size
  /\ \A i \in 1 .. n : w.mem[w.reserved - (q - i + 1)] = v.mem[v.reserved - (p - i + 1)]

(* So do all bytes that are held there. *)
LEMMA PartSame ==
  ASSUME NEW v, NEW w, w.size \in Nat, NEW p \in Int, NEW q \in Int, NEW n \in Nat,
         SameBytes(v, p, w, q, n),
         NEW s, Len(s) \in Nat, NEW f \in Nat, f + Len(s) <= n, Holds(v, p - f, s)
  PROVE  Holds(w, q - f, s)
<1>1. n <= q /\ q <= w.size
  BY DEF SameBytes
<1>2. ASSUME NEW i \in 1 .. Len(s) PROVE w.mem[w.reserved - (q - f - i + 1)] = s[i]
  <2>1. f + i \in 1 .. n /\ q - (f + i) + 1 = q - f - i + 1 /\ p - (f + i) + 1 = p - f - i + 1
    OBVIOUS
  <2>2. w.mem[w.reserved - (q - (f + i) + 1)] = v.mem[v.reserved - (p - (f + i) + 1)]
    BY <2>1 DEF SameBytes
  <2>3. v.mem[v.reserved - (p - f - i + 1)] = s[i]
    BY DEF Holds
  <2> QED BY <2>1, <2>2, <2>3
<1>3. Len(s) <= q - f /\ q - f <= w.size
  BY <1>1
<1> QED BY <1>2, <1>3 DEF Holds

(* The vtable at vt is of the size it begins with. *)
LEMMA VBytesAre ==
  ASSUME NEW v, v.reserved \in Int, NEW vt \in Int, NEW n \in Nat, n \in Values(2),
         Holds(v, vt, EndianScalar(n, 2))
  PROVE  /\ ReadScalar(v.mem, v.reserved - vt, voffset_t) = n
         /\ VBytes(v, vt) = [i \in 1 .. n |-> v.mem[v.reserved - vt + i - 1]]
<1>1. ReadScalar(v.mem, v.reserved - vt, voffset_t) = n
  <2>1. 2 \in Sizes
    BY DEF Sizes
  <2> QED BY <2>1, ReadsHeld DEF voffset_t
<1> QED BY <1>1 DEF VBytes

(* A vtable whose bytes are the same is the same. *)
LEMMA VBytesSame ==
  ASSUME NEW v, NEW w, v.reserved \in Int, w.reserved \in Int, v.size \in Nat, w.size \in Nat,
         NEW p \in Int, NEW q \in Int, NEW n \in Nat, 4 <= n, n \in Values(2),
         Holds(v, p, EndianScalar(n, 2)), SameBytes(v, p, w, q, n)
  PROVE  VBytes(w, q) = VBytes(v, p) /\ Holds(w, q, EndianScalar(n, 2))
<1>1. Len(EndianScalar(n, 2)) = 2
  <2>1. n \in Int /\ 2 \in Nat
    OBVIOUS
  <2> QED BY <2>1, ScalarBytes
<1>2. Holds(w, q, EndianScalar(n, 2))
  <2> DEFINE s == EndianScalar(n, 2)
  <2>4. Len(s) = 2 /\ Holds(v, p, s)
    BY <1>1
  <2> HIDE DEF s
  <2>1. 0 \in Nat /\ 0 + Len(s) <= n /\ p - 0 = p /\ q - 0 = q /\ Len(s) \in Nat
    BY <2>4
  <2>2. Holds(v, p - 0, s)
    BY <2>1, <2>4
  <2>3. Holds(w, q - 0, s)
    BY <2>1, <2>2, PartSame
  <2> QED BY <2>1, <2>3 DEF s
<1>3. VBytes(v, p) = [i \in 1 .. n |-> v.mem[v.reserved - p + i - 1]]
  BY VBytesAre
<1>4. VBytes(w, q) = [i \in 1 .. n |-> w.mem[w.reserved - q + i - 1]]
  BY <1>2, VBytesAre
<1>5. ASSUME NEW i \in 1 .. n
      PROVE  w.mem[w.reserved - q + i - 1] = v.mem[v.reserved - p + i - 1]
  <2>1. /\ w.reserved - q + i - 1 = w.reserved - (q - i + 1)
        /\ v.reserved - p + i - 1 = v.reserved - (p - i + 1)
    OBVIOUS
  <2> QED BY <2>1 DEF SameBytes
<1> QED BY <1>2, <1>3, <1>4, <1>5

(* What stays is the same. *)
LEMMA StaysSame ==
  ASSUME NEW v, NEW w, v.size \in Nat, w.size \in Nat, Stays(v, w),
         NEW p \in Int, NEW n \in Nat, n <= p, p <= v.size
  PROVE  SameBytes(v, p, w, p, n)
<1>1. ASSUME NEW i \in 1 .. n
      PROVE  w.mem[w.reserved - (p - i + 1)] = v.mem[v.reserved - (p - i + 1)]
  <2>1. p - i + 1 \in 1 .. v.size
    OBVIOUS
  <2> QED BY <2>1 DEF Stays
<1>2. p <= w.size
  BY DEF Stays
<1> QED BY <1>1, <1>2 DEF SameBytes

-----------------------------------------------------------------------------
(* Vtables stay where they are when more is serialized. *)
LEMMA VTableStays ==
  ASSUME NEW d, NEW e, NEW v \in Vectors(d), NEW w \in Vectors(e), Stays(v, w),
         NEW vt, VTableIn(v, vt)
  PROVE  VTableIn(w, vt) /\ VBytes(w, vt) = VBytes(v, vt)
<1>1. v.size \in Nat /\ w.size \in Nat /\ v.reserved \in Int /\ w.reserved \in Int
  BY VectorFields
<1>2. vt \in Nat /\ vt % 2 = 0 /\ vt <= v.size
  BY DEF VTableIn
<1>3. PICK n \in Nat : 4 <= n /\ n <= vt /\ n \in Values(2) /\ Holds(v, vt, EndianScalar(n, 2))
  BY DEF VTableIn
<1>4. SameBytes(v, vt, w, vt, n)
  BY <1>1, <1>2, <1>3, StaysSame
<1>5. VBytes(w, vt) = VBytes(v, vt) /\ Holds(w, vt, EndianScalar(n, 2))
  BY <1>1, <1>2, <1>3, <1>4, VBytesSame
<1>6. vt <= w.size
  BY <1>1, <1>2 DEF Stays
<1> QED BY <1>2, <1>3, <1>5, <1>6 DEF VTableIn

(* The offsets of the vtables are the same where the scratch pad is. *)
LEMMA VTsSame ==
  ASSUME NEW v, NEW w, NEW base \in Nat, NEW base2 \in Nat, base <= base2, SameBelow(v, w, base)
  PROVE  \A i \in DOMAIN VTs(v, base) : i \in DOMAIN VTs(w, base2) /\ VTs(w, base2)[i] = VTs(v, base)[i]
<1>1. base \div 4 \in Nat /\ 4 * (base \div 4) <= base /\ base2 \div 4 \in Nat /\ base \div 4 <= base2 \div 4
  OBVIOUS
<1>2. ASSUME NEW i \in 1 .. base \div 4
      PROVE  ReadScalar(w.mem, (i - 1) * 4, uoffset_t) = ReadScalar(v.mem, (i - 1) * 4, uoffset_t)
  <2> DEFINE p == (i - 1) * 4
  <2>1. p \in 0 .. base - 1 /\ p + 1 \in 0 .. base - 1 /\ p + 2 \in 0 .. base - 1 /\ p + 3 \in 0 .. base - 1
    BY <1>1
  <2> HIDE DEF p
  <2>2. /\ w.mem[p] = v.mem[p] /\ w.mem[p + 1] = v.mem[p + 1]
        /\ w.mem[p + 2] = v.mem[p + 2] /\ w.mem[p + 3] = v.mem[p + 3] /\ p \in Int
    BY <2>1 DEF SameBelow
  <2>3. ReadScalar(w.mem, p, uoffset_t) = ReadScalar(v.mem, p, uoffset_t)
    BY <2>2, ReadsSame
  <2> QED BY <2>3 DEF p
<1> QED BY <1>1, <1>2 DEF VTs

(* The vtables of a builder stay when the scratch pad before the FieldLocs *)
(* does.                                                                   *)
LEMMA VTablesStay ==
  ASSUME NEW d, NEW e, NEW v \in Vectors(d), NEW w \in Vectors(e), Stays(v, w),
         NEW base \in Nat, SameBelow(v, w, base),
         NEW once, VTablesIn(v, base, once)
  PROVE  VTablesIn(w, base, once)
<1>1. \A i \in DOMAIN VTs(v, base) : VTs(w, base)[i] = VTs(v, base)[i]
  <2>1. base <= base
    OBVIOUS
  <2> QED BY <2>1, VTsSame
<1>2. DOMAIN VTs(w, base) = DOMAIN VTs(v, base)
  BY DEF VTs
<1>3. ASSUME NEW i \in DOMAIN VTs(w, base)
      PROVE  /\ VTableIn(w, VTs(w, base)[i])
             /\ VBytes(w, VTs(w, base)[i]) = VBytes(v, VTs(v, base)[i])
  <2>1. VTableIn(v, VTs(v, base)[i]) /\ VTs(w, base)[i] = VTs(v, base)[i]
    BY <1>1, <1>2 DEF VTablesIn
  <2> DEFINE vt == VTs(v, base)[i]
  <2> HIDE DEF vt
  <2>2. VTableIn(w, vt) /\ VBytes(w, vt) = VBytes(v, vt)
    BY <2>1, VTableStays DEF vt
  <2> QED BY <2>1, <2>2 DEF vt
<1> QED BY <1>2, <1>3 DEF VTablesIn

(* What stays but for the four bytes of a table: what was before the       *)
(* table, and what begins behind it.                                       *)
LEMMA StaysBut ==
  ASSUME NEW u, NEW v, NEW w, u.size \in Nat, v.size \in Nat, w.size \in Nat, Stays(u, v),
         NEW at \in Int, u.size + 4 <= at, at <= w.size, w.size <= v.size,
         SameBut(v, w, at)
  PROVE  Stays(u, w)
<1>1. ASSUME NEW k \in 1 .. u.size
      PROVE  w.mem[w.reserved - k] = u.mem[u.reserved - k]
  <2>1. k \in 1 .. w.size /\ k <= at - 4
    OBVIOUS
  <2>2. v.mem[v.reserved - k] = u.mem[u.reserved - k]
    BY DEF Stays
  <2>3. w.mem[w.reserved - k] = v.mem[v.reserved - k]
    BY <2>1 DEF SameBut
  <2> QED BY <2>2, <2>3
<1> QED BY <1>1 DEF Stays

(* A vtable of the same bytes as the one at the end of v is in w, of which *)
(* the end was popped off, the same vtable.                                *)
LEMMA ReusedVTable ==
  ASSUME NEW d, NEW u \in Vectors(d), NEW v \in Vectors(d), NEW w \in Vectors(d), Stays(u, v),
         NEW n \in Nat, 4 <= n, n \in Values(2), Holds(v, v.size, EndianScalar(n, 2)),
         NEW vt, VTableIn(u, vt), VBytes(v, vt) = VBytes(v, v.size),
         NEW at \in Int, NEW low \in Nat, low = u.size, low + 4 <= at,
         NEW high \in Nat, high = w.size, at <= high, SameBut(v, w, at)
  PROVE  SameBytes(v, v.size, w, vt, n)
<1>1. /\ u.size \in Nat /\ v.size \in Nat /\ w.size \in Nat
      /\ u.reserved \in Int /\ v.reserved \in Int /\ w.reserved \in Int
  BY VectorFields
<1>2. VTableIn(v, vt) /\ vt \in Nat /\ vt <= u.size
  BY VTableStays DEF VTableIn
<1>3. PICK l \in Nat : 4 <= l /\ l <= vt /\ l \in Values(2) /\ Holds(v, vt, EndianScalar(l, 2))
  BY <1>2 DEF VTableIn
<1>4. VBytes(v, vt) = [i \in 1 .. l |-> v.mem[v.reserved - vt + i - 1]]
  <2>1. v.reserved \in Int /\ vt \in Int
    BY <1>1, <1>2
  <2> QED BY <1>3, <2>1, VBytesAre, ZenonT(40)
<1>5. VBytes(v, v.size) = [i \in 1 .. n |-> v.mem[v.reserved - v.size + i - 1]]
  <2> DEFINE end == v.size
  <2>1. v.reserved \in Int /\ end \in Int /\ Holds(v, end, EndianScalar(n, 2))
          /\ n \in Nat /\ n \in Values(2)
    BY <1>1
  <2> HIDE DEF end
  <2>2. VBytes(v, end) = [i \in 1 .. n |-> v.mem[v.reserved - end + i - 1]]
    BY <2>1, VBytesAre, SMTT(30)
  <2> QED BY <2>2 DEF end
<1>6. l = n /\ \A i \in 1 .. n : v.mem[v.reserved - vt + i - 1] = v.mem[v.reserved - v.size + i - 1]
  <2> DEFINE f == [i \in 1 .. l |-> v.mem[v.reserved - vt + i - 1]]
             g == [i \in 1 .. n |-> v.mem[v.reserved - v.size + i - 1]]
  <2>1. DOMAIN f = 1 .. l /\ DOMAIN g = 1 .. n /\ f = g
    BY <1>4, <1>5
  <2>2. 1 .. l = 1 .. n
    BY <2>1
  <2>3. l = n
    <3>1. l \in 1 .. l /\ n \in 1 .. n
      BY <1>3
    <3>2. l \in 1 .. n /\ n \in 1 .. l
      BY <2>2, <3>1
    <3> QED BY <3>2
  <2>4. \A i \in 1 .. n : f[i] = g[i]
    BY <2>1
  <2> QED BY <2>3, <2>4
<1>7. n <= vt /\ vt <= w.size
  BY <1>1, <1>2, <1>3, <1>6
<1>8. ASSUME NEW i \in 1 .. n
      PROVE  w.mem[w.reserved - (vt - i + 1)] = v.mem[v.reserved - (v.size - i + 1)]
  <2>1. /\ vt - i + 1 \in 1 .. w.size /\ vt - i + 1 <= at - 4
        /\ v.reserved - vt + i - 1 = v.reserved - (vt - i + 1)
        /\ v.reserved - v.size + i - 1 = v.reserved - (v.size - i + 1)
    BY <1>1, <1>2, <1>7
  <2>2. w.mem[w.reserved - (vt - i + 1)] = v.mem[v.reserved - (vt - i + 1)]
    BY <2>1 DEF SameBut
  <2>3. v.mem[v.reserved - vt + i - 1] = v.mem[v.reserved - v.size + i - 1]
    BY <1>6
  <2> QED BY <2>1, <2>2, <2>3
<1> QED BY <1>7, <1>8 DEF SameBytes

(* A new vtable, behind those that are there and different from them all.  *)
LEMMA NewVTable ==
  ASSUME NEW d, NEW u \in Vectors(d), NEW w \in Vectors(d), Stays(u, w),
         NEW base \in Nat, base % 4 = 0, SameBelow(u, w, base),
         NEW once, VTablesIn(u, base, once),
         NEW s, VTableIn(w, s), ReadScalar(w.mem, base, uoffset_t) = s,
         once => \A i \in DOMAIN VTs(u, base) : VBytes(u, VTs(u, base)[i]) # VBytes(w, s)
  PROVE  VTablesIn(w, base + 4, once)
<1> DEFINE k == base \div 4
<1>1. k \in Nat /\ k * 4 = base /\ (base + 4) \div 4 = k + 1 /\ base + 4 \in Nat /\ base <= base + 4
  OBVIOUS
<1>2. DOMAIN VTs(u, base) = 1 .. k /\ DOMAIN VTs(w, base + 4) = 1 .. k + 1
  BY <1>1 DEF VTs
<1>3. \A i \in 1 .. k : VTs(w, base + 4)[i] = VTs(u, base)[i]
  BY <1>1, <1>2, VTsSame
<1>4. VTs(w, base + 4)[k + 1] = s
  <2>1. (k + 1 - 1) * 4 = base /\ k + 1 \in 1 .. (base + 4) \div 4
    BY <1>1
  <2> DEFINE j == k + 1
  <2>2. (j - 1) * 4 = base /\ j \in 1 .. (base + 4) \div 4
    BY <2>1
  <2> HIDE DEF j
  <2>3. VTs(w, base + 4)[j] = ReadScalar(w.mem, (j - 1) * 4, uoffset_t)
    BY <2>2 DEF VTs
  <2>4. VTs(w, base + 4)[j] = s
    BY <2>2, <2>3
  <2> QED BY <2>4 DEF j
<1> HIDE DEF k
<1>5. ASSUME NEW i \in 1 .. k
      PROVE  /\ VTableIn(w, VTs(w, base + 4)[i])
             /\ VBytes(w, VTs(w, base + 4)[i]) = VBytes(u, VTs(u, base)[i])
  <2> DEFINE vt == VTs(u, base)[i]
  <2>1. VTableIn(u, vt) /\ VTs(w, base + 4)[i] = vt
    BY <1>2, <1>3 DEF VTablesIn
  <2> HIDE DEF vt
  <2>2. VTableIn(w, vt) /\ VBytes(w, vt) = VBytes(u, vt)
    BY <2>1, VTableStays
  <2> QED BY <2>1, <2>2 DEF vt
<1>6. \A i \in 1 .. k + 1 : i \in 1 .. k \/ i = k + 1
  BY <1>1
<1>7. \A i \in 1 .. k + 1 : VTableIn(w, VTs(w, base + 4)[i])
  BY <1>4, <1>5, <1>6
<1>8. ASSUME once, NEW i \in 1 .. k + 1, NEW j \in 1 .. k + 1,
             VBytes(w, VTs(w, base + 4)[i]) = VBytes(w, VTs(w, base + 4)[j])
      PROVE  i = j
  <2>1. \A x \in 1 .. k : VBytes(u, VTs(u, base)[x]) # VBytes(w, s)
    BY <1>2, <1>8
  <2>2. CASE i \in 1 .. k /\ j \in 1 .. k
    <3>1. VBytes(u, VTs(u, base)[i]) = VBytes(u, VTs(u, base)[j])
      BY <1>5, <1>8, <2>2
    <3> QED BY <1>2, <1>8, <2>2, <3>1 DEF VTablesIn
  <2>3. CASE i \in 1 .. k /\ j = k + 1
    <3>1. VBytes(w, VTs(w, base + 4)[i]) = VBytes(u, VTs(u, base)[i])
      BY <1>5, <2>3
    <3> QED BY <1>4, <1>8, <2>1, <2>3, <3>1
  <2>4. CASE i = k + 1 /\ j \in 1 .. k
    <3>1. VBytes(w, VTs(w, base + 4)[j]) = VBytes(u, VTs(u, base)[j])
      BY <1>5, <2>4
    <3> QED BY <1>4, <1>8, <2>1, <2>4, <3>1
  <2> QED BY <1>6, <2>2, <2>3, <2>4
<1> QED BY <1>2, <1>7, <1>8 DEF VTablesIn

(* Which vtables are the same as the last. *)
LEMMA SameVTablesAre ==
  ASSUME NEW d, NEW b_ \in Builders(d)
  PROVE  LET s == SameVTables(b_, GetSize(b_))
             vts == VTs(b_.buf, b_.buf.scratch)
         IN /\ s = {i \in DOMAIN vts : VBytes(b_.buf, vts[i]) = VBytes(b_.buf, b_.buf.size)}
            /\ s # {} => Min(s) \in s
<1> DEFINE s == SameVTables(b_, GetSize(b_))
           vts == VTs(b_.buf, b_.buf.scratch)
<1>1. s = {i \in DOMAIN vts : VBytes(b_.buf, vts[i]) = VBytes(b_.buf, b_.buf.size)}
  <2>1. s = {i \in DOMAIN VTables(b_) :
               VTableAt(b_, VTables(b_)[i]) = VTableAt(b_, b_.buf.size)}
    BY DEF SameVTables, GetSize
  <2>2. VTables(b_) = vts /\ \A o : VTableAt(b_, o) = VBytes(b_.buf, o)
    BY VTablesAre
  <2> HIDE DEF s, vts
  <2> QED BY <2>1, <2>2
<1>2. DOMAIN vts \subseteq Nat
  BY DEF VTs
<1> HIDE DEF s, vts
<1>3. ASSUME s # {} PROVE Min(s) \in s
  <2>1. s \subseteq Nat
    BY <1>1, <1>2
  <2>2. \E m \in s : \A i \in s : m <= i
    BY <1>3, <2>1, LeastElement
  <2> QED BY <2>2 DEF Min
<1> QED BY <1>1, <1>3 DEF s, vts

(* What the offsets of the vtables are is a number. *)
LEMMA VTablesRead ==
  ASSUME NEW d, NEW v \in Vectors(d)
  PROVE  \A i \in DOMAIN VTs(v, v.scratch) : VTs(v, v.scratch)[i] \in Int
<1>1. v.scratch \in Nat /\ v.reserved \in Nat /\ v.scratch <= v.reserved /\ v.mem \in Memory(v.reserved)
  BY VectorFields
<1>2. ASSUME NEW i \in 1 .. v.scratch \div 4
      PROVE  ReadScalar(v.mem, (i - 1) * 4, uoffset_t) \in Int
  <2>1. (i - 1) * 4 \in Nat /\ (i - 1) * 4 + 4 <= v.reserved
    <3>1. v.scratch \div 4 \in Nat /\ 4 * (v.scratch \div 4) <= v.scratch
      BY <1>1
    <3> QED BY <1>1, <3>1
  <2> QED BY <1>1, <2>1, ReadsOffset
<1> QED BY <1>2 DEF VTs

(* pop takes off the builder what was pushed last. *)
LEMMA PopsTo ==
  ASSUME NEW d, NEW b_ \in Builders(d), NEW at \in 0 .. b_.buf.size
  PROVE  LET c == [b_ EXCEPT !.buf = pop(@, GetSize(b_) - at)]
         IN /\ c \in Builders(d) /\ SameTable(b_, c) /\ SameFlags(b_, c) /\ SameMinAlign(b_, c)
            /\ SameScratch(b_.buf, c.buf)
            /\ c.buf.size = at /\ c.buf.mem = b_.buf.mem /\ c.buf.reserved = b_.buf.reserved
<1> DEFINE w == pop(b_.buf, b_.buf.size - at)
           c == [b_ EXCEPT !.buf = pop(@, GetSize(b_) - at)]
<1>1. b_.buf \in Vectors(d) /\ b_.buf.size \in Nat /\ GetSize(b_) = b_.buf.size /\ Clean(b_.buf)
  BY BuilderFields, VectorFields DEF GetSize
<1>2. b_.buf.size - at \in 0 .. b_.buf.size
  BY <1>1
<1>3. /\ w \in Vectors(d) /\ w.size = b_.buf.size - (b_.buf.size - at) /\ SameScratch(b_.buf, w)
      /\ w.mem = b_.buf.mem /\ w.reserved = b_.buf.reserved
  BY <1>1, <1>2, Pops
<1>4. c = [b_ EXCEPT !.buf = w]
  BY <1>1
<1> HIDE DEF w, c
<1>5. w.size = at /\ w.size <= b_.buf.size /\ w.size \in Nat
  BY <1>1, <1>3
<1>6. Clean(w)
  BY <1>1, <1>3, <1>5, CleanPart
<1>7. c \in Builders(d) /\ c.buf = w /\ SameTable(b_, c) /\ SameFlags(b_, c) /\ SameMinAlign(b_, c)
  BY <1>3, <1>4, <1>6, WithBuffer
<1> QED BY <1>3, <1>5, <1>7 DEF c

(* The vtable that EndTable leaves the table at with: one of the same      *)
(* bytes as the one just written at the end of what is serialized, u being *)
(* the memory before the table was completed.                              *)
UsedIs(b_, c, at, n) ==
  \E vt \in Nat :
    /\ vt % 2 = 0 /\ vt <= c.buf.size
    /\ SameBytes(b_.buf, b_.buf.size, c.buf, vt, n)
    /\ Holds(c.buf, at, EndianScalar(vt - at, 4))
    /\ VTablesIn(c.buf, c.buf.scratch, c.dedup_vtables_)

(* The new vtable is removed for an old one. *)
LEMMA ReusesVTable ==
  ASSUME NEW d, NEW b_ \in Builders(d), b_.num_field_loc = 0,
         NEW u \in Vectors(d), Stays(u, b_.buf),
         SameBelow(u, b_.buf, b_.buf.scratch),
         NEW n \in Nat, 4 <= n, n \in Values(2),
         NEW low \in Nat, low = u.size, NEW s \in Nat, s = b_.buf.size,
         NEW at \in Int, low + 4 <= at, at + n = s,
         SameVTables(b_, GetSize(b_)) # {}
  PROVE  LET use == VTables(b_)[Min(SameVTables(b_, GetSize(b_)))]
             c == PointToVTable([b_ EXCEPT !.buf = pop(@, GetSize(b_) - at)], at, use)
         IN /\ c \in Builders(d)
            /\ c.nested = FALSE /\ c.num_field_loc = 0 /\ c.max_voffset_ = b_.max_voffset_
            /\ c.string_pool = b_.string_pool /\ SameFlags(b_, c) /\ SameMinAlign(b_, c)
            /\ at <= c.buf.size /\ Stays(u, c.buf)
            /\ Holds(b_.buf, b_.buf.size, EndianScalar(n, 2))
                 /\ VTablesIn(u, b_.buf.scratch, b_.dedup_vtables_) => UsedIs(b_, c, at, n)
<1> DEFINE p == [b_ EXCEPT !.buf = pop(@, GetSize(b_) - at)]
           use == VTables(b_)[Min(SameVTables(b_, GetSize(b_)))]
           c == PointToVTable(p, at, use)
           vts == VTs(b_.buf, b_.buf.scratch)
           same == SameVTables(b_, GetSize(b_))
           i == Min(same)
           base == b_.buf.scratch
           v == b_.buf
<1>1. /\ b_.buf \in Vectors(d) /\ b_.buf.size \in Nat /\ b_.buf.scratch \in Nat /\ u.size \in Nat
      /\ at \in 0 .. b_.buf.size
  BY BuilderFields, VectorFields
<1>2. /\ i \in DOMAIN vts /\ VBytes(b_.buf, vts[i]) = VBytes(b_.buf, b_.buf.size) /\ use = vts[i]
      /\ use \in Int
  <2>1. /\ same = {x \in DOMAIN vts : VBytes(b_.buf, vts[x]) = VBytes(b_.buf, b_.buf.size)}
        /\ same # {} => i \in same
    BY SameVTablesAre
  <2>2. use = vts[i]
    BY VTablesAre
  <2> HIDE DEF same, vts, i
  <2>3. i \in DOMAIN vts /\ VBytes(b_.buf, vts[i]) = VBytes(b_.buf, b_.buf.size)
    <3>1. same # {}
      BY DEF same
    <3> QED BY <2>1, <3>1
  <2>4. use \in Int
    BY <1>1, <2>2, <2>3, VTablesRead DEF vts
  <2> QED BY <2>2, <2>3, <2>4
<1> HIDE DEF i, same, use
<1>3. /\ p \in Builders(d) /\ SameTable(b_, p) /\ SameFlags(b_, p) /\ SameMinAlign(b_, p)
      /\ SameScratch(b_.buf, p.buf)
      /\ p.buf.size = at /\ p.buf.mem = b_.buf.mem /\ p.buf.reserved = b_.buf.reserved
  BY <1>1, PopsTo
<1> HIDE DEF p
<1>10. PointedTo(p, c, d, at, use)
  <2>1. 4 <= at /\ at <= p.buf.size /\ at \in Int /\ p \in Builders(d) /\ use \in Int
    BY <1>1, <1>2, <1>3
  <2> QED BY <2>1, PointsToVTable
<1>4. /\ c \in Builders(d) /\ c.nested = FALSE /\ c.num_field_loc = p.num_field_loc
      /\ c.max_voffset_ = p.max_voffset_ /\ c.string_pool = p.string_pool
      /\ SameFlags(p, c) /\ SameMinAlign(p, c) /\ SameScratch(p.buf, c.buf)
      /\ c.buf.size = p.buf.size /\ Holds(c.buf, at, EndianScalar(use - at, 4))
      /\ SameBut(p.buf, c.buf, at)
  BY <1>10, Zenon DEF PointedTo
<1> HIDE DEF c
<1>5. /\ c.buf \in Vectors(d) /\ c.buf.size = at /\ c.buf.scratch = base
      /\ SameBut(v, c.buf, at) /\ SameBelow(u, c.buf, base)
      /\ c.dedup_vtables_ = b_.dedup_vtables_
  <2>1. c.buf \in Vectors(d)
    BY <1>4, BuilderFields
  <2>2. c.buf.scratch = base /\ SameBelow(u, c.buf, base)
    BY <1>3, <1>4 DEF SameScratch, SameBelow
  <2>3. SameBut(v, c.buf, at)
    BY <1>3, <1>4 DEF SameBut
  <2>4. c.dedup_vtables_ = b_.dedup_vtables_
    BY <1>3, <1>4 DEF SameFlags
  <2> QED BY <1>3, <1>4, <2>1, <2>2, <2>3, <2>4
<1>6. Stays(u, c.buf)
  <2> DEFINE w == c.buf
  <2>1. /\ w.size \in Nat /\ at <= w.size /\ w.size <= v.size /\ v.size \in Nat
        /\ Stays(u, v)
    BY <1>1, <1>5
  <2>2. SameBut(v, w, at)
    BY <1>5
  <2> HIDE DEF w, v
  <2>3. Stays(u, w)
    BY <1>1, <2>1, <2>2, StaysBut
  <2> QED BY <2>3 DEF w
<1>7. ASSUME Holds(v, v.size, EndianScalar(n, 2)), VTablesIn(u, base, b_.dedup_vtables_)
      PROVE  UsedIs(b_, c, at, n)
  <2>1. vts[i] = VTs(u, base)[i] /\ i \in DOMAIN VTs(u, base)
    <3>1. DOMAIN VTs(u, base) = DOMAIN vts
      BY DEF VTs
    <3>2. base \in Nat /\ base <= base /\ SameBelow(u, v, base)
      BY <1>1
    <3>3. \A x \in DOMAIN VTs(u, base) : VTs(b_.buf, base)[x] = VTs(u, base)[x]
      <4> HIDE DEF v, base
      <4>1. \A x \in DOMAIN VTs(u, base) : VTs(v, base)[x] = VTs(u, base)[x]
        BY <3>2, VTsSame
      <4> QED BY <4>1 DEF v
    <3> QED BY <1>2, <3>1, <3>3
  <2>2. VTableIn(u, use)
    BY <1>2, <1>7, <2>1 DEF VTablesIn
  <2>3. use \in Nat /\ use % 2 = 0 /\ use <= u.size
    BY <2>2 DEF VTableIn
  <2>4. SameBytes(v, v.size, c.buf, use, n)
    <3>1. Stays(u, v) /\ VBytes(v, use) = VBytes(v, v.size) /\ Holds(v, v.size, EndianScalar(n, 2))
          /\ v \in Vectors(d)
      BY <1>1, <1>2, <1>7
    <3> DEFINE w == c.buf
    <3>2. w \in Vectors(d) /\ at <= w.size /\ SameBut(v, w, at)
      BY <1>5
    <3>4. w.size \in Nat
      BY <1>1, <1>5
    <3> HIDE DEF w, v
    <3>3. SameBytes(v, v.size, w, use, n)
      BY <2>2, <3>1, <3>2, <3>4, ReusedVTable
    <3> QED BY <3>3 DEF w
  <2>5. use <= c.buf.size
    BY <1>1, <1>5, <2>3
  <2>6. VTablesIn(c.buf, base, b_.dedup_vtables_)
    BY <1>1, <1>5, <1>6, <1>7, VTablesStay
  <2>7. VTablesIn(c.buf, c.buf.scratch, c.dedup_vtables_)
    BY <1>5, <2>6
  <2>8. Holds(c.buf, at, EndianScalar(use - at, 4))
    BY <1>4
  <2> QED BY <2>3, <2>4, <2>5, <2>7, <2>8 DEF UsedIs
<1>8. /\ c.num_field_loc = 0 /\ c.max_voffset_ = b_.max_voffset_
      /\ c.string_pool = b_.string_pool /\ SameFlags(b_, c) /\ SameMinAlign(b_, c)
  BY <1>3, <1>4 DEF SameTable, SameFlags, SameMinAlign
<1>9. at <= c.buf.size
  BY <1>1, <1>5
<1> QED BY <1>4, <1>6, <1>7, <1>8, <1>9, Zenon DEF c, p, v, base, use

(* An offset in the scratch pad reads the same where the bytes are. *)
LEMMA OffsetSame ==
  ASSUME NEW v, NEW w, NEW base \in Nat, SameBelow(v, w, base + 4)
  PROVE  ReadScalar(w.mem, base, uoffset_t) = ReadScalar(v.mem, base, uoffset_t)
<1>1. /\ base \in 0 .. base + 4 - 1 /\ base + 1 \in 0 .. base + 4 - 1
      /\ base + 2 \in 0 .. base + 4 - 1 /\ base + 3 \in 0 .. base + 4 - 1
  OBVIOUS
<1>2. /\ w.mem[base] = v.mem[base] /\ w.mem[base + 1] = v.mem[base + 1]
      /\ w.mem[base + 2] = v.mem[base + 2] /\ w.mem[base + 3] = v.mem[base + 3] /\ base \in Int
  BY <1>1 DEF SameBelow
<1> QED BY <1>2, ReadsSame

(* The new vtable is remembered. *)
LEMMA AddsVTable ==
  ASSUME NEW d \in 0 .. 3, NEW b_ \in Builders(d), b_.num_field_loc = 0,
         NEW u \in Vectors(d), Stays(u, b_.buf),
         SameBelow(u, b_.buf, b_.buf.scratch),
         NEW n \in Nat, 4 <= n, n % 2 = 0, n \in Values(2),
         NEW low \in Nat, low = u.size, NEW s \in Nat, s = b_.buf.size,
         NEW at \in Int, at % 2 = 0, low + 4 <= at, at + n = s,
         b_.dedup_vtables_ => SameVTables(b_, GetSize(b_)) = {}
  PROVE  LET c == PointToVTable([b_ EXCEPT !.buf = scratch_push_small(@, EndianScalar(s, 4))], at, s)
         IN /\ c \in Builders(d)
            /\ c.nested = FALSE /\ c.num_field_loc = 0 /\ c.max_voffset_ = b_.max_voffset_
            /\ c.string_pool = b_.string_pool /\ SameFlags(b_, c) /\ SameMinAlign(b_, c)
            /\ at <= c.buf.size /\ Stays(u, c.buf)
            /\ Holds(b_.buf, b_.buf.size, EndianScalar(n, 2))
                 /\ VTablesIn(u, b_.buf.scratch, b_.dedup_vtables_)
                 /\ c.buf.size <= FLATBUFFERS_MAX_BUFFER_SIZE => UsedIs(b_, c, at, n)
<1> DEFINE p == [b_ EXCEPT !.buf = scratch_push_small(@, EndianScalar(s, 4))]
           c == PointToVTable(p, at, s)
           base == b_.buf.scratch
           v == b_.buf
           w == c.buf
<1>1. /\ v \in Vectors(d) /\ v.size \in Nat /\ base \in Nat /\ u.size \in Nat /\ s \in Nat
      /\ base % 4 = 0
  <2>1. v \in Vectors(d) /\ v.size \in Nat /\ base \in Nat /\ u.size \in Nat
    BY BuilderFields, VectorFields
  <2>2. Base(b_) = base
    BY <2>1 DEF Base
  <2>3. base % 4 = 0
    BY <2>2, BaseIs
  <2> QED BY <2>1, <2>3
<1>2. /\ p \in Builders(d) /\ p.nested = b_.nested /\ p.num_field_loc = 0
      /\ p.string_pool = b_.string_pool /\ p.max_voffset_ = b_.max_voffset_
      /\ SameFlags(b_, p) /\ SameMinAlign(b_, p)
      /\ p.buf.size = v.size /\ p.buf.scratch = base + 4 /\ Stays(v, p.buf)
      /\ SameBelow(v, p.buf, base)
      /\ s \in Values(4) => ReadScalar(p.buf.mem, base, uoffset_t) = s
  <2>1. s \in Int /\ b_.num_field_loc = 0
    BY <1>1
  <2> QED BY <2>1, KeepsOffset
<1> HIDE DEF p
<1>12. PointedTo(p, c, d, at, s)
  <2>1. 4 <= at /\ at <= p.buf.size /\ at \in Int /\ p \in Builders(d) /\ s \in Int
    BY <1>1, <1>2
  <2> QED BY <2>1, PointsToVTable
<1>3. /\ c \in Builders(d) /\ c.nested = FALSE /\ c.num_field_loc = p.num_field_loc
      /\ c.max_voffset_ = p.max_voffset_ /\ c.string_pool = p.string_pool
      /\ SameFlags(p, c) /\ SameMinAlign(p, c) /\ SameScratch(p.buf, c.buf)
      /\ c.buf.size = p.buf.size /\ Holds(c.buf, at, EndianScalar(s - at, 4))
      /\ SameBut(p.buf, c.buf, at)
  BY <1>12, Zenon DEF PointedTo
<1> HIDE DEF c
<1>4. w \in Vectors(d) /\ w.size = v.size /\ w.scratch = base + 4 /\ w.size \in Nat /\ w.reserved \in Int
      /\ c.dedup_vtables_ = b_.dedup_vtables_ /\ v.reserved \in Int
  <2>1. w \in Vectors(d) /\ w.size \in Nat /\ w.reserved \in Int /\ v.reserved \in Int
    BY <1>1, <1>3, BuilderFields, VectorFields
  <2>2. w.scratch = base + 4
    BY <1>2, <1>3 DEF SameScratch
  <2>3. c.dedup_vtables_ = b_.dedup_vtables_
    BY <1>2, <1>3 DEF SameFlags
  <2> QED BY <1>2, <1>3, <2>1, <2>2, <2>3
<1>5. SameBelow(p.buf, w, base + 4)
  BY <1>2, <1>3 DEF SameScratch, SameBelow
<1>6. SameBut(v, w, at)
  <2>1. \A k \in 1 .. v.size : p.buf.mem[p.buf.reserved - k] = v.mem[v.reserved - k]
    BY <1>2 DEF Stays
  <2>2. SameBut(p.buf, w, at) /\ w.size = v.size
    BY <1>3, <1>4
  <2> HIDE DEF w, v
  <2> QED BY <2>1, <2>2 DEF SameBut
<1>7. Stays(u, w)
  <2>1. at <= w.size /\ w.size <= v.size /\ Stays(u, v)
    BY <1>1, <1>4
  <2> HIDE DEF w, v
  <2> QED BY <1>1, <1>4, <1>6, <2>1, StaysBut
<1>8. SameBytes(v, s, w, s, n)
  <2>1. ASSUME NEW i \in 1 .. n PROVE w.mem[w.reserved - (s - i + 1)] = v.mem[v.reserved - (s - i + 1)]
    <3>1. s - i + 1 \in 1 .. w.size /\ at < s - i + 1
      BY <1>1, <1>4
    <3> QED BY <1>6, <3>1 DEF SameBut
  <2>2. n <= s /\ s <= w.size
    BY <1>1, <1>4
  <2> QED BY <2>1, <2>2 DEF SameBytes
<1>9. ASSUME Holds(v, v.size, EndianScalar(n, 2)),
             VTablesIn(u, base, b_.dedup_vtables_), w.size <= FLATBUFFERS_MAX_BUFFER_SIZE
      PROVE  UsedIs(b_, c, at, n)
  <2>1. s \in Values(4)
    BY <1>1, <1>4, <1>9, SmallSizes
  <2>2. ReadScalar(w.mem, base, uoffset_t) = s
    <3>1. ReadScalar(p.buf.mem, base, uoffset_t) = s
      BY <1>2, <2>1
    <3>2. SameBelow(p.buf, w, base + 4) /\ base \in Nat
      BY <1>1, <1>5
    <3> DEFINE x == p.buf
    <3> HIDE DEF w, base, x
    <3>4. ReadScalar(w.mem, base, uoffset_t) = ReadScalar(x.mem, base, uoffset_t)
      BY <3>2, OffsetSame, Zenon DEF x
    <3> QED BY <3>1, <3>4 DEF x
  <2>3. VBytes(w, s) = VBytes(v, s) /\ Holds(w, s, EndianScalar(n, 2))
    <3>1. Holds(v, s, EndianScalar(n, 2)) /\ s \in Int
      BY <1>1, <1>9
    <3> HIDE DEF w, v
    <3> QED BY <1>1, <1>4, <1>8, <3>1, VBytesSame
  <2>4. s % 2 = 0
    BY <1>1
  <2>5. VTableIn(w, s)
    <3>1. s \in Nat /\ s <= w.size /\ n <= s
      BY <1>1, <1>4
    <3> HIDE DEF w
    <3> QED BY <2>3, <2>4, <3>1 DEF VTableIn
  <2>6. ASSUME b_.dedup_vtables_, NEW i \in DOMAIN VTs(u, base)
        PROVE  VBytes(u, VTs(u, base)[i]) # VBytes(w, s)
    <3> DEFINE vt == VTs(u, base)[i]
    <3>1. VTableIn(u, vt)
      BY <1>9 DEF VTablesIn
    <3>2. i \in DOMAIN VTs(v, base) /\ VTs(v, base)[i] = vt
      <4>1. base <= base /\ SameBelow(u, v, base)
        BY <1>1
      <4> HIDE DEF base, v
      <4> QED BY <1>1, <4>1, VTsSame
    <3> HIDE DEF vt
    <3>3. VBytes(v, vt) = VBytes(u, vt)
      <4>1. Stays(u, v)
        OBVIOUS
      <4> HIDE DEF v
      <4> QED BY <1>1, <3>1, <4>1, VTableStays
    <3>4. VBytes(v, vt) # VBytes(v, s)
      <4>1. SameVTables(b_, GetSize(b_)) = {}
        BY <2>6
      <4>2. ~(i \in DOMAIN VTs(v, base) /\ VBytes(v, VTs(v, base)[i]) = VBytes(v, v.size))
        BY <4>1, SameVTablesAre
      <4> QED BY <3>2, <4>2
    <3> QED BY <2>3, <3>3, <3>4 DEF vt
  <2>7. VTablesIn(w, base + 4, b_.dedup_vtables_)
    <3>1. SameBelow(u, w, base)
      <4>1. SameBelow(u, v, base) /\ base \in Nat
        BY <1>1
      <4> HIDE DEF w, v, base
      <4> QED BY <1>2, <1>5, <4>1 DEF SameBelow
    <3> HIDE DEF w, base, v
    <3> QED BY <1>1, <1>4, <1>7, <1>9, <2>2, <2>5, <2>6, <3>1, NewVTable
  <2>8. VTablesIn(w, w.scratch, c.dedup_vtables_)
    BY <1>4, <2>7
  <2>9. s <= w.size /\ Holds(w, at, EndianScalar(s - at, 4)) /\ SameBytes(v, v.size, w, s, n)
    BY <1>1, <1>3, <1>4, <1>8
  <2> QED BY <1>1, <2>4, <2>8, <2>9 DEF UsedIs
<1>10. /\ c.num_field_loc = 0 /\ c.max_voffset_ = b_.max_voffset_
       /\ c.string_pool = b_.string_pool /\ SameFlags(b_, c) /\ SameMinAlign(b_, c)
  BY <1>2, <1>3 DEF SameFlags, SameMinAlign
<1>11. at <= c.buf.size
  BY <1>1, <1>4
<1> QED BY <1>3, <1>7, <1>9, <1>10, <1>11 DEF c, p

(* Either way the table is left with a vtable of the same bytes.           *)
LEMMA UsesVTable ==
  ASSUME NEW d \in 0 .. 3, NEW b_ \in Builders(d), b_.num_field_loc = 0,
         NEW u \in Vectors(d), Stays(u, b_.buf),
         SameBelow(u, b_.buf, b_.buf.scratch),
         NEW n \in Nat, 4 <= n, n % 2 = 0, n \in Values(2),
         NEW low \in Nat, low = u.size, NEW s \in Nat, s = b_.buf.size,
         NEW at \in Int, at % 2 = 0, low + 4 <= at, at + n = s
  PROVE  LET c == UseVTable(b_, at)
         IN /\ c \in Builders(d)
            /\ c.nested = FALSE /\ c.num_field_loc = 0 /\ c.max_voffset_ = b_.max_voffset_
            /\ c.string_pool = b_.string_pool /\ SameFlags(b_, c) /\ SameMinAlign(b_, c)
            /\ at <= c.buf.size /\ Stays(u, c.buf)
            /\ Holds(b_.buf, b_.buf.size, EndianScalar(n, 2))
                 /\ VTablesIn(u, b_.buf.scratch, b_.dedup_vtables_)
                 /\ c.buf.size <= FLATBUFFERS_MAX_BUFFER_SIZE => UsedIs(b_, c, at, n)
<1> DEFINE same == SameVTables(b_, GetSize(b_))
           p == [b_ EXCEPT !.buf = pop(@, GetSize(b_) - at)]
           q == [b_ EXCEPT !.buf = scratch_push_small(@, EndianScalar(s, 4))]
           use == VTables(b_)[Min(same)]
           old == PointToVTable(p, at, use)
           new == PointToVTable(q, at, s)
<1>1. UseVTable(b_, at) = IF b_.dedup_vtables_ /\ same # {} THEN old ELSE new
  <2>1. GetSize(b_) = s
    BY DEF GetSize
  <2>2. UseVTable(b_, at) =
          LET x == IF b_.dedup_vtables_ THEN same ELSE {}
          IN IF x # {}
             THEN PointToVTable([b_ EXCEPT !.buf = pop(@, GetSize(b_) - at)], at, VTables(b_)[Min(x)])
             ELSE PointToVTable([b_ EXCEPT !.buf = scratch_push_small(@, EndianScalar(s, 4))], at, s)
    BY <2>1 DEF UseVTable, uoffset_t, Scalar
  <2>3. CASE b_.dedup_vtables_ /\ same # {}
    BY <2>2, <2>3
  <2>4. CASE ~(b_.dedup_vtables_ /\ same # {})
    BY <2>2, <2>4
  <2> QED BY <2>3, <2>4
<1>2. CASE b_.dedup_vtables_ /\ same # {}
  <2>1. SameVTables(b_, GetSize(b_)) # {}
    BY <1>2
  <2>2. /\ old \in Builders(d)
        /\ old.nested = FALSE /\ old.num_field_loc = 0 /\ old.max_voffset_ = b_.max_voffset_
        /\ old.string_pool = b_.string_pool /\ SameFlags(b_, old) /\ SameMinAlign(b_, old)
        /\ at <= old.buf.size /\ Stays(u, old.buf)
        /\ Holds(b_.buf, b_.buf.size, EndianScalar(n, 2))
             /\ VTablesIn(u, b_.buf.scratch, b_.dedup_vtables_) => UsedIs(b_, old, at, n)
    BY <2>1, ReusesVTable
  <2> HIDE DEF old, new, same
  <2> QED BY <1>1, <1>2, <2>2
<1>3. CASE ~(b_.dedup_vtables_ /\ same # {})
  <2>1. b_.dedup_vtables_ => SameVTables(b_, GetSize(b_)) = {}
    BY <1>3
  <2> HIDE DEF use
  <2>2. /\ new \in Builders(d)
        /\ new.nested = FALSE /\ new.num_field_loc = 0 /\ new.max_voffset_ = b_.max_voffset_
        /\ new.string_pool = b_.string_pool /\ SameFlags(b_, new) /\ SameMinAlign(b_, new)
        /\ at <= new.buf.size /\ Stays(u, new.buf)
        /\ Holds(b_.buf, b_.buf.size, EndianScalar(n, 2))
             /\ VTablesIn(u, b_.buf.scratch, b_.dedup_vtables_)
             /\ new.buf.size <= FLATBUFFERS_MAX_BUFFER_SIZE => UsedIs(b_, new, at, n)
    BY <2>1, AddsVTable
  <2> HIDE DEF old, new, same
  <2> QED BY <1>1, <1>3, <2>2
<1> QED BY <1>2, <1>3

(* The table that EndTable completes at o: it points to its vtable, which  *)
(* tells its fields apart, and the vtables of the builder are in order.    *)
Ended(b_, e, begin, o) ==
  /\ Distinct(FieldLocs(b_)) /\ o - begin < 65536
  /\ VTablesIn(e.buf, e.buf.scratch, e.dedup_vtables_)
  /\ \E vt \in Nat :
       /\ vt % 2 = 0 /\ Holds(e.buf, o, EndianScalar(vt - o, 4))
       /\ VTableIs(e.buf, vt, VTableSize(b_), o - begin, o, FieldLocs(b_))

(* A vtable is the same where its bytes are. *)
LEMMA VTableSame ==
  ASSUME NEW v, NEW w, w.size \in Nat, NEW p \in Int, NEW q \in Int, NEW n \in Nat, 4 <= n,
         SameBytes(v, p, w, q, n), NEW length \in Int, NEW at \in Int,
         NEW locs, \A i \in DOMAIN locs : locs[i].id \in VOffsets /\ locs[i].id + 2 <= n /\ locs[i].off \in Int,
         n \in Int, VTableIs(v, p, n, length, at, locs)
  PROVE  VTableIs(w, q, n, length, at, locs)
<1>1. ASSUME NEW f \in Nat, f + 2 <= n, NEW x \in Int, Holds(v, p - f, EndianScalar(x, 2))
      PROVE  Holds(w, q - f, EndianScalar(x, 2))
  <2> DEFINE s == EndianScalar(x, 2)
  <2>1. Len(s) = 2 /\ Holds(v, p - f, s)
    <3>1. 2 \in Nat
      OBVIOUS
    <3> QED BY <1>1, <3>1, ScalarBytes
  <2> HIDE DEF s
  <2>2. Len(s) \in Nat /\ f + Len(s) <= n
    BY <1>1, <2>1
  <2>3. Holds(w, q - f, s)
    BY <2>1, <2>2, PartSame
  <2> QED BY <2>3 DEF s
<1>2. Holds(w, q, EndianScalar(n, 2))
  <2>1. 0 \in Nat /\ 0 + 2 <= n /\ p - 0 = p /\ q - 0 = q
    OBVIOUS
  <2>2. Holds(v, p - 0, EndianScalar(n, 2))
    BY <2>1 DEF VTableIs
  <2>3. Holds(w, q - 0, EndianScalar(n, 2))
    BY <1>1, <2>1, <2>2
  <2> QED BY <2>1, <2>3
<1>3. Holds(w, q - 2, EndianScalar(length, 2))
  <2>1. 2 \in Nat /\ 2 + 2 <= n
    OBVIOUS
  <2>2. Holds(v, p - 2, EndianScalar(length, 2))
    BY DEF VTableIs
  <2> QED BY <1>1, <2>1, <2>2
<1>4. ASSUME NEW i \in DOMAIN locs PROVE Holds(w, q - locs[i].id, EndianScalar(at - locs[i].off, 2))
  <2>1. locs[i].id \in Nat /\ locs[i].id + 2 <= n /\ at - locs[i].off \in Int
    BY VOffsetsAre
  <2>2. Holds(v, p - locs[i].id, EndianScalar(at - locs[i].off, 2))
    BY DEF VTableIs
  <2> QED BY <1>1, <2>1, <2>2
<1>5. ASSUME NEW f \in VOffsets, f + 2 <= n, \A i \in DOMAIN locs : locs[i].id # f
      PROVE  Holds(w, q - f, EndianScalar(0, 2))
  <2>1. f \in Nat /\ 0 \in Int
    BY VOffsetsAre
  <2>2. Holds(v, p - f, EndianScalar(0, 2))
    BY <1>5 DEF VTableIs
  <2> QED BY <1>1, <1>5, <2>1, <2>2
<1>6. n <= q /\ q <= w.size
  BY DEF SameBytes
<1> QED BY <1>2, <1>3, <1>4, <1>5, <1>6 DEF VTableIs

-----------------------------------------------------------------------------
(* EndTable completes the table that was begun, with a vtable of the       *)
(* fields that were added.                                                 *)
LEMMA EndsTable ==
  ASSUME NEW d \in 0 .. 3, NEW b_ \in Builders(d), NEW begin \in Int
  PROVE  LET r == EndTable(b_, begin)
         IN /\ r.b \in Builders(d)
            /\ r.b.nested = FALSE /\ r.b.num_field_loc = 0 /\ r.b.max_voffset_ = 0
            /\ r.b.string_pool = b_.string_pool /\ SameFlags(b_, r.b)
            /\ b_.minalign_ <= r.b.minalign_ /\ 4 <= r.b.minalign_
            /\ Stays(b_.buf, r.b.buf)
            /\ r.o \in Nat /\ r.o % 4 = 0 /\ b_.buf.size + 4 <= r.o /\ r.o <= r.b.buf.size
            /\ r.b.ok => b_.nested
            /\ VTablesIn(b_.buf, Base(b_), b_.dedup_vtables_) /\ r.b.ok
                 /\ r.b.buf.size <= FLATBUFFERS_MAX_BUFFER_SIZE => Ended(b_, r.b, begin, r.o)
<1> DEFINE b1 == Assert_(b_, b_.nested)
           b2 == PushElement(b1, 0, 4)
           o == GetSize(b2)
           b3 == WriteVTable(b2, begin, o)
           b4 == ClearOffsets(b3)
           e == UseVTable(b4, o)
           n == VTableSize(b2)
           u == b_.buf
<1>0. EndTable(b_, begin).b = e /\ EndTable(b_, begin).o = o
  BY DEF EndTable, EndTableAt, soffset_t, Scalar
<1>1. b1 \in Grown(b_, d) /\ b1.buf = b_.buf /\ b1.minalign_ = b_.minalign_ /\ (b1.ok => b_.nested)
      /\ b1 \in Builders(d)
  BY Asserts DEF Grown
<1> HIDE DEF b1
<1>2. /\ b2 \in Grown(b1, d) /\ b2.ok = b1.ok
      /\ b2.buf.size = b1.buf.size + PaddingBytes(b1.buf.size, 4) + 4
      /\ b2.buf.size % 4 = 0 /\ 4 <= b2.minalign_
  <2>1. 0 \in Int /\ 4 \in Sizes
    BY DEF Sizes
  <2> QED BY <1>1, <2>1, PushesElement
<1> HIDE DEF b2
<1>3. b2 \in Grown(b_, d) /\ b2 \in Builders(d)
  BY <1>1, <1>2, GrownOn DEF Grown
<1>4. /\ u \in Vectors(d) /\ u.size \in Nat /\ b2.buf.size \in Nat /\ b2.buf \in Vectors(d)
      /\ u.size + 4 <= b2.buf.size
  <2>1. u \in Vectors(d) /\ u.size \in Nat /\ b2.buf.size \in Nat /\ b2.buf \in Vectors(d)
    BY <1>3, BuilderFields, VectorFields
  <2>2. PaddingBytes(u.size, 4) \in Nat
    BY <2>1, Padding
  <2> QED BY <1>1, <1>2, <2>1, <2>2
<1>5. o = b2.buf.size /\ o \in Nat /\ o % 4 = 0 /\ o % 2 = 0
  <2>1. o = b2.buf.size /\ o \in Nat /\ o % 4 = 0
    BY <1>2, <1>4 DEF GetSize
  <2> QED BY <2>1
<1> HIDE DEF o
<1>6. /\ b3 \in Grown(b2, d) /\ b3.minalign_ = b2.minalign_ /\ b3.buf.size = b2.buf.size + n
      /\ b3.ok => /\ o - begin < 65536 /\ Distinct(FieldLocs(b2))
                  /\ VTableIs(b3.buf, b3.buf.size, n, o - begin, o, FieldLocs(b2))
  <2>1. o \in Int /\ b2 \in Builders(d)
    BY <1>3, <1>5
  <2> QED BY <2>1, WritesVTable
<1> HIDE DEF b3
<1>7. b3 \in Grown(b_, d) /\ b3 \in Builders(d)
  BY <1>3, <1>6, GrownOn DEF Grown
<1>8. /\ b4 \in Builders(d) /\ b4.num_field_loc = 0 /\ b4.max_voffset_ = 0
      /\ b4.buf.size = b3.buf.size /\ b4.buf.mem = b3.buf.mem /\ b4.buf.reserved = b3.buf.reserved
      /\ b4.buf.scratch = Base(b3)
      /\ b4.string_pool = b3.string_pool /\ SameFlags(b3, b4) /\ SameMinAlign(b3, b4)
  <2>1. b4.max_voffset_ = 0
    BY <1>7, BuilderFields DEF ClearOffsets, BuilderNames
  <2> QED BY <1>7, <2>1, ClearsOffsets
<1> HIDE DEF b4
<1>9. /\ n \in Nat /\ 4 <= n /\ n % 2 = 0 /\ n \in Values(2) /\ n = VTableSize(b_)
      /\ FieldLocs(b2) = FieldLocs(b_) /\ DOMAIN FieldLocs(b_) = 1 .. b_.num_field_loc
      /\ \A i \in DOMAIN FieldLocs(b_) : /\ FieldLocs(b_)[i].id \in VOffsets
                                         /\ FieldLocs(b_)[i].id + 2 <= n
                                         /\ FieldLocs(b_)[i].off \in Int
  <2>1. FieldLocs(b2) = FieldLocs(b_)
    BY <1>3, FieldLocsStay
  <2>2. b2.max_voffset_ = b_.max_voffset_
    BY <1>3 DEF Grown, SameTable
  <2>3. n = VTableSize(b_)
    BY <2>2 DEF VTableSize
  <2>4. /\ n \in Nat /\ 4 <= n /\ n % 2 = 0 /\ n \in Values(2) /\ b_.max_voffset_ + 2 <= n
    BY <2>3, VTableSizes
  <2>5. /\ DOMAIN FieldLocs(b_) = 1 .. b_.num_field_loc
        /\ \A i \in 1 .. b_.num_field_loc :
             /\ FieldLocs(b_)[i].id \in VOffsets /\ FieldLocs(b_)[i].id <= b_.max_voffset_
             /\ FieldLocs(b_)[i].off \in Int
    BY LocsRead
  <2>6. ASSUME NEW i \in DOMAIN FieldLocs(b_)
        PROVE  /\ FieldLocs(b_)[i].id \in VOffsets /\ FieldLocs(b_)[i].id + 2 <= n
               /\ FieldLocs(b_)[i].off \in Int
    <3>1. b_.max_voffset_ \in Nat
      BY BuilderNumbers
    <3>2. /\ FieldLocs(b_)[i].id \in VOffsets /\ FieldLocs(b_)[i].id <= b_.max_voffset_
          /\ FieldLocs(b_)[i].off \in Int
      BY <2>5
    <3>3. FieldLocs(b_)[i].id \in Nat
      BY <3>2, VOffsetsAre
    <3> QED BY <2>4, <3>1, <3>2, <3>3
  <2> QED BY <2>1, <2>3, <2>4, <2>5, <2>6
<1> HIDE DEF n
<1>10. Stays(u, b4.buf) /\ SameBelow(u, b4.buf, b4.buf.scratch) /\ b4.buf.scratch = Base(b_)
  <2>1. Stays(u, b3.buf) /\ SameScratch(u, b3.buf)
    BY <1>7 DEF Grown
  <2>2. Stays(u, b4.buf)
    BY <1>8, <2>1 DEF Stays
  <2>3. Base(b3) = Base(b_)
    BY <1>7, <2>1 DEF Grown, SameTable, SameScratch, Base
  <2>4. Base(b_) \in Nat /\ Base(b_) <= u.scratch /\ u.scratch \in Nat
    BY BaseIs, BuilderNumbers
  <2>5. SameBelow(u, b4.buf, Base(b_))
    <3>1. \A a \in 0 .. Base(b_) - 1 : a \in 0 .. u.scratch - 1
      BY <2>4
    <3> QED BY <1>8, <2>1, <3>1 DEF SameScratch, SameBelow
  <2> QED BY <1>8, <2>2, <2>3, <2>5
<1>11. /\ e \in Builders(d)
       /\ e.nested = FALSE /\ e.num_field_loc = 0 /\ e.max_voffset_ = b4.max_voffset_
       /\ e.string_pool = b4.string_pool /\ SameFlags(b4, e) /\ SameMinAlign(b4, e)
       /\ o <= e.buf.size /\ Stays(u, e.buf)
       /\ Holds(b4.buf, b4.buf.size, EndianScalar(n, 2))
            /\ VTablesIn(u, b4.buf.scratch, b4.dedup_vtables_)
            /\ e.buf.size <= FLATBUFFERS_MAX_BUFFER_SIZE => UsedIs(b4, e, o, n)
  <2> DEFINE low == u.size
             s == b4.buf.size
  <2>1. low \in Nat /\ s \in Nat /\ o \in Int /\ low + 4 <= o /\ o + n = s
    BY <1>4, <1>5, <1>6, <1>8, <1>9
  <2>2. low = u.size /\ s = b4.buf.size
    OBVIOUS
  <2> HIDE DEF low, s, u, e
  <2>3. LET c == UseVTable(b4, o)
         IN /\ c \in Builders(d)
            /\ c.nested = FALSE /\ c.num_field_loc = 0 /\ c.max_voffset_ = b4.max_voffset_
            /\ c.string_pool = b4.string_pool /\ SameFlags(b4, c) /\ SameMinAlign(b4, c)
            /\ o <= c.buf.size /\ Stays(u, c.buf)
            /\ Holds(b4.buf, b4.buf.size, EndianScalar(n, 2))
                 /\ VTablesIn(u, b4.buf.scratch, b4.dedup_vtables_)
                 /\ c.buf.size <= FLATBUFFERS_MAX_BUFFER_SIZE => UsedIs(b4, c, o, n)
    <3>1. /\ b4 \in Builders(d) /\ b4.num_field_loc = 0 /\ u \in Vectors(d) /\ Stays(u, b4.buf)
          /\ SameBelow(u, b4.buf, b4.buf.scratch)
          /\ n \in Nat /\ 4 <= n /\ n % 2 = 0 /\ n \in Values(2)
          /\ low \in Nat /\ low = u.size /\ s \in Nat /\ s = b4.buf.size
          /\ o \in Int /\ o % 2 = 0 /\ low + 4 <= o /\ o + n = s
      BY <1>4, <1>5, <1>8, <1>9, <1>10, <2>1, <2>2
    <3> QED BY <3>1, UsesVTable, ZenonT(40)
  <2> QED BY <2>3 DEF e
<1> HIDE DEF e
<1>12. /\ e.max_voffset_ = 0 /\ e.string_pool = b_.string_pool /\ SameFlags(b_, e)
       /\ e.ok = b3.ok /\ e.minalign_ = b2.minalign_ /\ b_.minalign_ <= b2.minalign_
       /\ e.ok => b_.nested
  <2>1. e.string_pool = b_.string_pool /\ e.max_voffset_ = 0
    BY <1>7, <1>8, <1>11 DEF Grown, SameTable
  <2>2. SameFlags(b_, e)
    BY <1>7, <1>8, <1>11 DEF Grown, SameFlags
  <2>3. e.ok = b3.ok /\ e.minalign_ = b2.minalign_
    BY <1>6, <1>8, <1>11 DEF SameMinAlign
  <2>4. b_.minalign_ <= b2.minalign_
    BY <1>3 DEF Grown
  <2>5. e.ok => b_.nested
    <3>1. b3.ok => b2.ok
      BY <1>6 DEF Grown, SameFlags
    <3> QED BY <1>1, <1>2, <2>3, <3>1, Zenon
  <2> QED BY <2>1, <2>2, <2>3, <2>4, <2>5
<1>13. ASSUME VTablesIn(u, Base(b_), b_.dedup_vtables_), e.ok,
              e.buf.size <= FLATBUFFERS_MAX_BUFFER_SIZE
       PROVE  Ended(b_, e, begin, o)
  <2>1. /\ o - begin < 65536 /\ Distinct(FieldLocs(b_))
        /\ VTableIs(b3.buf, b3.buf.size, n, o - begin, o, FieldLocs(b_))
    BY <1>6, <1>9, <1>12, <1>13
  <2>2. VTableIs(b4.buf, b4.buf.size, n, o - begin, o, FieldLocs(b_))
    BY <1>8, <2>1 DEF VTableIs, Holds
  <2>3. Holds(b4.buf, b4.buf.size, EndianScalar(n, 2))
    BY <2>2 DEF VTableIs
  <2>4. b4.dedup_vtables_ = b_.dedup_vtables_
    BY <1>7, <1>8 DEF Grown, SameFlags
  <2>5. UsedIs(b4, e, o, n)
    BY <1>10, <1>11, <1>13, <2>3, <2>4
  <2>6. PICK vt \in Nat :
          /\ vt % 2 = 0 /\ vt <= e.buf.size
          /\ SameBytes(b4.buf, b4.buf.size, e.buf, vt, n)
          /\ Holds(e.buf, o, EndianScalar(vt - o, 4))
          /\ VTablesIn(e.buf, e.buf.scratch, e.dedup_vtables_)
    BY <2>5 DEF UsedIs
  <2>7. VTableIs(e.buf, vt, n, o - begin, o, FieldLocs(b_))
    <3> DEFINE p == b4.buf.size
               w == e.buf
               v == b4.buf
               locs == FieldLocs(b_)
               length == o - begin
    <3>1. /\ p \in Int /\ w.size \in Nat /\ vt \in Int /\ o \in Int /\ n \in Int /\ length \in Int
      BY <1>4, <1>5, <1>6, <1>8, <1>9, <1>11, BuilderNumbers, SMTT(40)
    <3>2. SameBytes(v, p, w, vt, n) /\ VTableIs(v, p, n, length, o, locs)
      BY <2>2, <2>6
    <3>3. \A i \in DOMAIN locs : locs[i].id \in VOffsets /\ locs[i].id + 2 <= n /\ locs[i].off \in Int
      BY <1>9
    <3>4. n \in Nat /\ 4 <= n
      BY <1>9
    <3> HIDE DEF p, w, v, locs, length
    <3>5. VTableIs(w, vt, n, length, o, locs)
      BY <3>1, <3>2, <3>3, <3>4, VTableSame
    <3> QED BY <3>5 DEF p, w, v, locs, length
  <2> QED BY <1>9, <2>1, <2>6, <2>7 DEF Ended
<1> QED BY <1>0, <1>2, <1>4, <1>5, <1>11, <1>12, <1>13

-----------------------------------------------------------------------------
(* Strings.  Objects are begun only by a builder that builds no table.     *)
Idlers(d) == {b_ \in Builders(d) : b_.num_field_loc = 0}

(* The builders that b becomes when whole objects are serialized: what was *)
(* there stays, and the scratch pad is the same again.                     *)
Follows(b_, d) ==
  {c \in Idlers(d) :
     /\ SameFlags(b_, c) /\ b_.minalign_ <= c.minalign_
     /\ SameScratch(b_.buf, c.buf) /\ Stays(b_.buf, c.buf)}

(* An idle builder that grows stays idle, its scratch pad as it is. *)
LEMMA GrownIdles ==
  ASSUME NEW d, NEW b_ \in Idlers(d), NEW c \in Grown(b_, d)
  PROVE  /\ c \in Idlers(d) /\ c \in Builders(d) /\ c \in Follows(b_, d)
         /\ c.buf.scratch = b_.buf.scratch /\ c.nested = b_.nested /\ c.string_pool = b_.string_pool
BY DEF Idlers, Grown, SameTable, SameScratch, Follows

(* What follows, follows on. *)
LEMMA FollowsOn ==
  ASSUME NEW d, NEW b_ \in Idlers(d), NEW c \in Follows(b_, d), NEW e \in Follows(c, d)
  PROVE  e \in Follows(b_, d)
<1>1. /\ b_ \in Builders(d) /\ c \in Builders(d) /\ e \in Builders(d) /\ e \in Idlers(d)
      /\ SameFlags(b_, c) /\ b_.minalign_ <= c.minalign_
      /\ SameScratch(b_.buf, c.buf) /\ Stays(b_.buf, c.buf)
      /\ SameFlags(c, e) /\ c.minalign_ <= e.minalign_
      /\ SameScratch(c.buf, e.buf) /\ Stays(c.buf, e.buf)
  BY DEF Follows, Idlers
<1>2. /\ b_.minalign_ \in Nat /\ c.minalign_ \in Nat /\ e.minalign_ \in Nat
      /\ b_.buf.size \in Nat /\ c.buf.size \in Nat /\ e.buf.size \in Nat
      /\ b_.buf.scratch \in Nat
  BY <1>1, BuilderNumbers
<1>3. Stays(b_.buf, e.buf)
  BY <1>1, <1>2, StaysOn
<1>4. SameScratch(b_.buf, e.buf)
  BY <1>1, <1>2 DEF SameScratch
<1>5. SameFlags(b_, e)
  BY <1>1 DEF SameFlags
<1>6. b_.minalign_ <= e.minalign_
  BY <1>1, <1>2
<1> QED BY <1>1, <1>3, <1>4, <1>5, <1>6 DEF Follows

(* What a builder holds is held on. *)
LEMMA HeldOn ==
  ASSUME NEW d, NEW e, NEW b_ \in Builders(d), NEW c \in Builders(e), Stays(b_.buf, c.buf),
         NEW o \in Int, NEW s, Len(s) \in Nat, Holds(b_.buf, o, s)
  PROVE  Holds(c.buf, o, s)
<1>1. b_.buf.size \in Nat /\ c.buf.size \in Nat
  BY BuilderNumbers
<1> QED BY <1>1, HoldsOn

(* The string s at the offset o: its length, its characters and the zero   *)
(* behind them.                                                            *)
TextAt(v, o, s) ==
  /\ Holds(v, o, EndianScalar(Len(s), 4))
  /\ Holds(v, o - 4, s)
  /\ Holds(v, o - 4 - Len(s), [i \in 1 .. 1 |-> 0])

(* A string stays one. *)
LEMMA TextStays ==
  ASSUME NEW v, NEW w, v.size \in Nat, w.size \in Nat, Stays(v, w),
         NEW o \in Int, NEW s \in Seq(Byte), TextAt(v, o, s)
  PROVE  TextAt(w, o, s)
<1>1. Len(s) \in Nat /\ Len(s) \in Int /\ 4 \in Nat
  OBVIOUS
<1>2. /\ Holds(v, o, EndianScalar(Len(s), 4)) /\ Holds(v, o - 4, s)
      /\ Holds(v, o - 4 - Len(s), [i \in 1 .. 1 |-> 0])
  BY DEF TextAt
<1>3. Len(EndianScalar(Len(s), 4)) \in Nat
  BY <1>1, ScalarBytes
<1>4. Holds(w, o, EndianScalar(Len(s), 4))
  BY <1>2, <1>3, HoldsOn
<1>5. Holds(w, o - 4, s)
  BY <1>1, <1>2, HoldsOn
<1>6. Holds(w, o - 4 - Len(s), [i \in 1 .. 1 |-> 0])
  <2> DEFINE z == [i \in 1 .. 1 |-> 0]
             p == o - 4 - Len(s)
  <2>1. Len(z) \in Nat /\ p \in Int /\ Holds(v, p, z)
    BY <1>1, <1>2
  <2> HIDE DEF z, p
  <2>2. Holds(w, p, z)
    BY <2>1, HoldsOn
  <2> QED BY <2>2 DEF z, p
<1> QED BY <1>4, <1>5, <1>6 DEF TextAt

(* CreateString only makes the builder grow, by the string. *)
LEMMA CreatesString ==
  ASSUME NEW d \in 0 .. 3, NEW b_ \in Builders(d), NEW s \in Seq(Byte)
  PROVE  LET r == CreateString(b_, s)
         IN /\ r = [b |-> r.b, o |-> r.o]
            /\ r.b \in Grown(b_, d) /\ r.o = r.b.buf.size /\ r.o \in Nat
            /\ r.o % 4 = 0 /\ 4 <= r.o /\ 4 <= r.b.minalign_
            /\ TextAt(r.b.buf, r.o, s)
<1> DEFINE k == NotNested(b_)
           p == PreAlign(k, Len(s) + 1, 4)
           z == Pad(p, 1)
           t == PushBytes(z, s)
           e == PushElement(t, Len(s), 4)
           zero == [i \in 1 .. 1 |-> 0]
           n == Len(s)
<1>1. s \in Seq(Byte) /\ n \in Nat /\ n \in Int /\ 4 \in Alignments /\ 4 \in Sizes /\ 4 \in Nat
  BY DEF Alignments, Sizes
<1>2. k \in Grown(b_, d) /\ k \in Builders(d)
  <2> DEFINE condition == ~b_.nested /\ b_.num_field_loc = 0
  <2>1. k = Assert_(b_, condition)
    BY DEF NotNested
  <2> HIDE DEF condition, k
  <2> QED BY <2>1, Asserts DEF Grown
<1>7. CreateString(b_, s) = [b |-> e, o |-> e.buf.size]
  BY DEF CreateString, With, GetSize, uoffset_t, Scalar, k, p, z, t
<1> HIDE DEF k, n
<1>3. p \in Grown(k, d) /\ p \in Builders(d) /\ (p.buf.size + (n + 1)) % 4 = 0
  <2>1. n + 1 \in Int /\ n + 1 # 0
    BY <1>1
  <2>2. p \in Grown(k, d) /\ (p.buf.size + (n + 1)) % 4 = 0
    BY <1>1, <1>2, <2>1, PreAligns DEF n
  <2> QED BY <2>2 DEF Grown
<1> HIDE DEF p
<1>4. /\ z \in Grown(p, d) /\ z \in Builders(d) /\ z.buf.size = p.buf.size + 1
      /\ Holds(z.buf, z.buf.size, zero)
  BY <1>3, PadsBytes DEF Grown
<1> HIDE DEF z
<1>5. /\ t \in Grown(z, d) /\ t \in Builders(d) /\ t.buf.size = z.buf.size + n
      /\ Holds(t.buf, t.buf.size, s)
  BY <1>1, <1>4, PushesBytes DEF Grown, n
<1> HIDE DEF t
<1>6. /\ e \in Grown(t, d) /\ e \in Builders(d)
      /\ e.buf.size = t.buf.size + PaddingBytes(t.buf.size, 4) + 4
      /\ e.buf.size % 4 = 0 /\ 4 <= e.minalign_
      /\ Holds(e.buf, e.buf.size, EndianScalar(n, 4))
  <2>1. Len(s) \in Int
    BY <1>1 DEF n
  <2> QED BY <1>1, <1>5, <2>1, PushesElement DEF Grown, n
<1> HIDE DEF e
<1>8. e \in Grown(b_, d)
  <2>1. p \in Grown(b_, d)
    BY <1>2, <1>3, GrownOn
  <2>2. z \in Grown(b_, d)
    BY <2>1, <1>4, GrownOn
  <2>3. t \in Grown(b_, d)
    BY <2>2, <1>5, GrownOn
  <2> QED BY <2>3, <1>6, GrownOn
<1>9. p.buf.size \in Nat /\ z.buf.size \in Nat /\ t.buf.size \in Nat /\ e.buf.size \in Nat
  BY <1>3, <1>4, <1>5, <1>6, BuilderNumbers
<1>10. e.buf.size = t.buf.size + 4
  <2> DEFINE q == t.buf.size
  <2>1. q \in Int /\ q % 4 = 0
    <3>1. q = p.buf.size + (n + 1) /\ q \in Int
      <4> DEFINE x == p.buf.size
                 y == z.buf.size
                 w == t.buf.size
      <4>1. n \in Nat /\ x \in Nat /\ y \in Nat /\ w \in Nat
        BY <1>1, <1>9
      <4>2. y = x + 1 /\ w = y + n
        BY <1>4, <1>5
      <4> HIDE DEF x, y, w
      <4>3. w = x + (n + 1) /\ w \in Int
        BY <4>1, <4>2
      <4> QED BY <4>3 DEF w, x
    <3> HIDE DEF q
    <3> QED BY <1>3, <3>1
  <2> HIDE DEF q
  <2>2. PaddingBytes(q, 4) = 0
    BY <1>1, <2>1, PaddingExact
  <2> QED BY <1>6, <1>9, <2>2 DEF q
<1>11. Stays(t.buf, e.buf) /\ Stays(z.buf, e.buf)
  <2>1. Stays(t.buf, e.buf) /\ Stays(z.buf, t.buf)
    BY <1>5, <1>6 DEF Grown
  <2> QED BY <1>9, <2>1, StaysOn
<1>12. Holds(e.buf, e.buf.size - 4, s)
  <2>1. e.buf.size - 4 = t.buf.size /\ t.buf.size \in Int
    BY <1>9, <1>10
  <2>2. Holds(e.buf, t.buf.size, s)
    <3>1. Len(s) \in Nat
      BY <1>1 DEF n
    <3> QED BY <1>5, <1>6, <1>11, <2>1, <3>1, HeldOn
  <2> QED BY <2>1, <2>2
<1>13. Holds(e.buf, e.buf.size - 4 - n, zero)
  <2>1. e.buf.size - 4 - n = z.buf.size /\ z.buf.size \in Int
    BY <1>1, <1>5, <1>9, <1>10
  <2>2. Len(zero) \in Nat
    OBVIOUS
  <2> HIDE DEF zero
  <2>3. Holds(e.buf, z.buf.size, zero)
    BY <1>4, <1>6, <1>11, <2>1, <2>2, HeldOn
  <2> QED BY <2>1, <2>3
<1>14. TextAt(e.buf, e.buf.size, s)
  BY <1>6, <1>12, <1>13 DEF TextAt, n
<1>15. e.buf.size \in Nat /\ 4 <= e.buf.size
  BY <1>9, <1>10
<1> QED BY <1>6, <1>7, <1>8, <1>14, <1>15

-----------------------------------------------------------------------------
(* The length that a string or vector at the offset o begins with.         *)
LEMMA LengthReads ==
  ASSUME NEW v, v.reserved \in Nat, v.size \in Nat, v.size <= FLATBUFFERS_MAX_BUFFER_SIZE,
         NEW o \in Int, NEW n \in Nat, n <= v.size, Holds(v, o, EndianScalar(n, 4))
  PROVE  size(v.mem, v.reserved - o) = n
<1>1. n \in Values(4) /\ 4 \in Sizes
  <2> DEFINE m == FLATBUFFERS_MAX_BUFFER_SIZE
  <2>1. m \in Nat /\ \A x \in Nat : x <= m => x \in Values(4)
    BY SmallSizes
  <2>2. v.size <= m
    OBVIOUS
  <2> HIDE DEF m
  <2>3. n <= m
    <3> DEFINE y == v.size
    <3>1. y \in Nat /\ n <= y /\ y <= m
      BY <2>2
    <3> HIDE DEF y
    <3> QED BY <2>1, <3>1
  <2>4. n \in Values(4)
    BY <2>1, <2>3
  <2> QED BY <2>4 DEF Sizes
<1>2. ReadScalar(v.mem, v.reserved - o, Scalar(4, FALSE)) = n
  <2>1. v.reserved \in Int
    OBVIOUS
  <2> QED BY <1>1, <2>1, ReadsHeld
<1> QED BY <1>2 DEF size, uoffset_t

(* A string reads back. *)
LEMMA TextReads ==
  ASSUME NEW v, v.reserved \in Nat, v.size \in Nat, v.size <= FLATBUFFERS_MAX_BUFFER_SIZE,
         NEW o \in Int, NEW s \in Seq(Byte), TextAt(v, o, s)
  PROVE  LET p == v.reserved - o
         IN /\ size(v.mem, p) = Len(s) /\ str(v.mem, p) = s
            /\ v.mem[Data(p) + Len(s)] = 0
<1> DEFINE p == v.reserved - o
           n == Len(s)
           r == v.reserved
<1>1. n \in Nat /\ s \in [1 .. n -> Byte] /\ r \in Nat
  BY LenProperties
<1>2. /\ Holds(v, o, EndianScalar(n, 4)) /\ Holds(v, o - 4, s)
      /\ Holds(v, o - 4 - n, [i \in 1 .. 1 |-> 0])
  BY DEF TextAt
<1>3. n <= v.size
  <2> DEFINE y == v.size
  <2>1. n <= o - 4 /\ o - 4 <= y /\ y \in Nat
    BY <1>2 DEF Holds
  <2> HIDE DEF n, y
  <2>2. n <= y
    BY <1>1, <2>1
  <2> QED BY <2>2 DEF y
<1>4. size(v.mem, p) = n
  BY <1>1, <1>2, <1>3, LengthReads
<1>5. ASSUME NEW k \in 1 .. n PROVE v.mem[Data(p) + k - 1] = s[k]
  <2>1. v.mem[r - ((o - 4) - k + 1)] = s[k]
    BY <1>2, <1>5 DEF Holds
  <2>2. Data(p) + k - 1 = r - ((o - 4) - k + 1)
    <3> HIDE DEF r, n
    <3>1. Data(r - o) = r - o + 4
      BY DEF Data, uoffset_t, Scalar
    <3> QED BY <1>1, <3>1 DEF p, r
  <2> QED BY <2>1, <2>2
<1>6. str(v.mem, p) = s
  <2> HIDE DEF p, n
  <2>1. str(v.mem, p) = [k \in 1 .. n |-> v.mem[Data(p) + k - 1]]
    BY <1>4 DEF str
  <2>2. s = [k \in 1 .. n |-> s[k]]
    BY <1>1
  <2> QED BY <1>5, <2>1, <2>2
<1>7. v.mem[Data(p) + n] = 0
  <2> DEFINE z == [i \in 1 .. 1 |-> 0]
  <2>1. Len(z) = 1 /\ z[1] = 0
    OBVIOUS
  <2>2. Holds(v, o - 4 - n, z)
    BY <1>2
  <2> HIDE DEF z, n, r
  <2>3. v.mem[r - ((o - 4 - n) - 1 + 1)] = 0
    BY <2>1, <2>2 DEF Holds, r
  <2>4. Data(p) + n = r - ((o - 4 - n) - 1 + 1)
    <3>1. Data(r - o) = r - o + 4
      BY DEF Data, uoffset_t, Scalar
    <3> QED BY <1>1, <3>1 DEF p, r
  <2> QED BY <2>3, <2>4
<1> QED BY <1>4, <1>6, <1>7

(* A string that is in the pool already is taken off again; another one    *)
(* joins the pool.                                                         *)
LEMMA CreatesSharedString ==
  ASSUME NEW d \in 0 .. 3, NEW b_ \in Idlers(d), NEW s \in Seq(Byte)
  PROVE  LET r == CreateSharedString(b_, s)
             same == Pooled(b_, s)
         IN /\ r.b \in Follows(b_, d) /\ r.b.nested = b_.nested /\ r.o \in Nat
            /\ same # {} =>
                 r.o \in same /\ r.b.string_pool = b_.string_pool /\ r.b.buf.size = b_.buf.size
            /\ same = {} =>
                 /\ r.b.string_pool = b_.string_pool \union {r.o}
                 /\ r.o % 4 = 0 /\ 4 <= r.o /\ r.o <= r.b.buf.size /\ 4 <= r.b.minalign_
                 /\ TextAt(r.b.buf, r.o, s)
<1> DEFINE new == CreateString(b_, s)
           e == new.b
           o == new.o
           same == Pooled(b_, s)
           before == GetSize(b_)
           r == CreateSharedString(b_, s)
<1>1. b_ \in Builders(d) /\ b_.string_pool \subseteq Nat
  BY BuilderFields DEF Idlers
<1>2. /\ e \in Grown(b_, d) /\ o = e.buf.size /\ o \in Nat
      /\ o % 4 = 0 /\ 4 <= o /\ 4 <= e.minalign_ /\ TextAt(e.buf, o, s)
      /\ new = [b |-> e, o |-> o]
  BY <1>1, CreatesString
<1>4. CreateSharedString(b_, s) =
        IF same # {}
        THEN [b |-> [e EXCEPT !.buf = pop(@, GetSize(e) - before)], o |-> CHOOSE x \in same : TRUE]
        ELSE [new EXCEPT !.b.string_pool = @ \union {new.o}]
  BY DEF CreateSharedString, Shared
<1> HIDE DEF new
<1>5. /\ e \in Idlers(d) /\ e \in Builders(d) /\ e \in Follows(b_, d) /\ e.num_field_loc = 0
      /\ e.nested = b_.nested /\ e.string_pool = b_.string_pool
      /\ SameFlags(b_, e) /\ b_.minalign_ <= e.minalign_
      /\ SameScratch(b_.buf, e.buf) /\ Stays(b_.buf, e.buf)
  BY <1>2, GrownIdles DEF Grown, Idlers
<1>6. b_.buf.size \in Nat /\ e.buf.size \in Nat /\ before = b_.buf.size /\ GetSize(e) = e.buf.size
  BY <1>1, <1>5, BuilderNumbers DEF GetSize
<1>7. CASE same # {}
  <2> DEFINE c == [e EXCEPT !.buf = pop(@, GetSize(e) - before)]
  <2>1. before \in 0 .. e.buf.size
    <3>1. b_.buf.size <= e.buf.size
      BY <1>5 DEF Stays
    <3> QED BY <1>6, <3>1
  <2>2. /\ c \in Builders(d) /\ SameTable(e, c) /\ SameFlags(e, c) /\ SameMinAlign(e, c)
        /\ SameScratch(e.buf, c.buf)
        /\ c.buf.size = before /\ c.buf.mem = e.buf.mem /\ c.buf.reserved = e.buf.reserved
    BY <1>5, <2>1, PopsTo
  <2> HIDE DEF c
  <2>3. r.o \in same /\ r.b = c
    <3>1. r.o = (CHOOSE x \in same : TRUE) /\ r.b = c
      BY <1>4, <1>7 DEF c
    <3> HIDE DEF same
    <3> QED BY <1>7, <3>1
  <2>4. same \subseteq Nat
    BY <1>1 DEF Pooled
  <2>5. c \in Follows(b_, d)
    <3>1. c \in Idlers(d)
      BY <1>5, <2>2 DEF Idlers, SameTable
    <3>2. SameFlags(b_, c)
      BY <1>5, <2>2 DEF SameFlags
    <3>3. b_.minalign_ <= c.minalign_
      BY <1>5, <2>2 DEF SameMinAlign
    <3>4. b_.buf.scratch \in Nat
      BY <1>1, BuilderNumbers
    <3>5. SameScratch(b_.buf, c.buf)
      BY <1>5, <2>2, <3>4 DEF SameScratch
    <3>6. Stays(b_.buf, c.buf)
      BY <1>5, <1>6, <2>2 DEF Stays
    <3> QED BY <3>1, <3>2, <3>3, <3>5, <3>6 DEF Follows
  <2>6. c.nested = b_.nested /\ c.string_pool = b_.string_pool
    BY <1>5, <2>2 DEF SameTable
  <2> HIDE DEF same, r
  <2>7. r.o \in Nat
    BY <2>3, <2>4
  <2> QED BY <1>6, <1>7, <2>2, <2>3, <2>5, <2>6, <2>7 DEF r, same
<1>8. CASE same = {}
  <2> DEFINE c == [e EXCEPT !.string_pool = @ \union {o}]
  <2>1. r = [b |-> c, o |-> o]
    <3>1. r = [new EXCEPT !.b.string_pool = @ \union {new.o}]
      BY <1>4, <1>8
    <3> HIDE DEF r, e, o, same
    <3>2. new = [b |-> e, o |-> o]
      BY <1>2
    <3>3. [new EXCEPT !.b.string_pool = @ \union {new.o}] = [new EXCEPT !.b = c]
      <4>1. [new EXCEPT !.b.string_pool = @ \union {new.o}]
              = [new EXCEPT !.b = [new.b EXCEPT !.string_pool = @ \union {new.o}]]
        BY <3>2
      <4>2. new.b = e /\ new.o = o
        BY <3>2
      <4> QED BY <4>1, <4>2
    <3> HIDE DEF c
    <3>4. [new EXCEPT !.b = c] = [b |-> c, o |-> o]
      BY <3>2
    <3> QED BY <3>1, <3>3, <3>4
  <2> HIDE DEF e, o
  <2>2. e = [f \in BuilderNames |-> e[f]]
    BY <1>5, BuilderFields
  <2>3. c = [f \in BuilderNames |-> c[f]]
    BY <2>2
  <2>4. /\ c.buf = e.buf /\ c.num_field_loc = e.num_field_loc /\ c.max_voffset_ = e.max_voffset_
        /\ c.nested = e.nested /\ c.finished = e.finished /\ c.minalign_ = e.minalign_
        /\ c.force_defaults_ = e.force_defaults_ /\ c.dedup_vtables_ = e.dedup_vtables_
        /\ c.string_pool = e.string_pool \union {o} /\ c.ok = e.ok
    BY <2>2 DEF BuilderNames
  <2> HIDE DEF c
  <2>5. c \in Builders(d)
    <3>1. c.string_pool \in SUBSET Nat
      BY <1>1, <1>2, <1>5, <2>4
    <3>2. LocsFit(c.buf, c.num_field_loc, c.max_voffset_) /\ Clean(c.buf)
      BY <1>5, <2>4, BuilderFields
    <3> QED BY <1>5, <2>3, <2>4, <3>1, <3>2, BuilderFields, BuilderIs
  <2>6. c \in Follows(b_, d)
    <3>1. c \in Idlers(d)
      BY <1>5, <2>4, <2>5 DEF Idlers
    <3>2. SameFlags(b_, c)
      BY <1>5, <2>4 DEF SameFlags
    <3>3. b_.minalign_ <= c.minalign_ /\ SameScratch(b_.buf, c.buf) /\ Stays(b_.buf, c.buf)
      BY <1>5, <2>4
    <3> QED BY <3>1, <3>2, <3>3 DEF Follows
  <2>7. /\ c.string_pool = b_.string_pool \union {o} /\ c.nested = b_.nested
        /\ o \in Nat /\ o % 4 = 0 /\ 4 <= o /\ o <= c.buf.size /\ 4 <= c.minalign_
        /\ TextAt(c.buf, o, s)
    BY <1>2, <1>5, <1>6, <2>4
  <2> HIDE DEF r, same
  <2>8. r.b = c /\ r.o = o
    BY <2>1
  <2> QED BY <1>8, <2>6, <2>7, <2>8 DEF r, same
<1> QED BY <1>7, <1>8

-----------------------------------------------------------------------------
(* Vectors *)

(* Multiples of a number. *)
LEMMA Products ==
  ASSUME NEW w \in Nat
  PROVE  /\ \A i \in Nat : i * w \in Nat /\ (i + 1) * w = i * w + w
         /\ \A i, j \in Nat : j <= i => j * w <= i * w
         /\ 0 * w = 0 /\ 1 * w = w
<1>1. ASSUME NEW i \in Nat PROVE i * w \in Nat /\ (i + 1) * w = i * w + w
  OBVIOUS
<1>2. ASSUME NEW i \in Nat, NEW j \in Nat, j <= i PROVE j * w <= i * w
  <2> DEFINE k == i - j
  <2>1. k \in Nat /\ i = j + k
    BY <1>2
  <2> HIDE DEF k
  <2>2. i * w = j * w + k * w
    BY <2>1
  <2>3. k * w >= 0 /\ j * w \in Int /\ k * w \in Int
    BY <2>1
  <2> QED BY <2>2, <2>3
<1> QED BY <1>1, <1>2

(* A multiple of a multiple of an alignment is one, *)
LEMMA ProductAligned ==
  ASSUME NEW n \in Int, NEW m \in Int, NEW k \in Alignments, m % k = 0
  PROVE  (n * m) % k = 0
<1> DEFINE q == m \div k
           x == n * q
<1>1. k \in {1, 2, 4, 8, 16, 32}
  BY DEF Alignments
<1>2. q \in Int /\ m = q * k
  <2>1. CASE k = 1
    BY <2>1
  <2>2. CASE k = 2
    BY <2>2
  <2>3. CASE k = 4
    BY <2>3
  <2>4. CASE k = 8
    BY <2>4
  <2>5. CASE k = 16
    BY <2>5
  <2>6. CASE k = 32
    BY <2>6
  <2> QED BY <1>1, <2>1, <2>2, <2>3, <2>4, <2>5, <2>6
<1> HIDE DEF q
<1>3. x \in Int /\ n * m = x * k
  <2>1. k \in Int
    BY <1>1
  <2> QED BY <1>2, <2>1
<1> HIDE DEF x
<1>4. (x * k) % k = 0
  <2>1. CASE k = 1
    BY <1>3, <2>1
  <2>2. CASE k = 2
    BY <1>3, <2>2
  <2>3. CASE k = 4
    BY <1>3, <2>3
  <2>4. CASE k = 8
    BY <1>3, <2>4
  <2>5. CASE k = 16
    BY <1>3, <2>5
  <2>6. CASE k = 32
    BY <1>3, <2>6
  <2> QED BY <1>1, <2>1, <2>2, <2>3, <2>4, <2>5, <2>6
<1> QED BY <1>3, <1>4

(* and what is at least an alignment holds it once. *)
LEMMA QuotientPositive ==
  ASSUME NEW x \in Nat, NEW k \in Alignments
  PROVE  x \div k \in Nat /\ (k <= x => x \div k >= 1)
<1>1. k \in {1, 2, 4, 8, 16, 32}
  BY DEF Alignments
<1>2. CASE k = 1
  BY <1>2
<1>3. CASE k = 2
  BY <1>3
<1>4. CASE k = 4
  BY <1>4
<1>5. CASE k = 8
  BY <1>5
<1>6. CASE k = 16
  BY <1>6
<1>7. CASE k = 32
  BY <1>7
<1> QED BY <1>1, <1>2, <1>3, <1>4, <1>5, <1>6, <1>7

-----------------------------------------------------------------------------
(* The first i of the sequences seqs, of w bytes each, one after the       *)
(* other.                                                                  *)
Flattened(s, seqs, i, w) ==
  /\ s \in Seq(Byte) /\ Len(s) = i * w
  /\ \A j \in 1 .. i : \A k \in 1 .. w : s[(j - 1) * w + k] = seqs[j][k]

(* One sequence more. *)
LEMMA AddsPart ==
  ASSUME NEW seqs, NEW w \in Nat, NEW i \in Nat, NEW x, Flattened(x, seqs, i, w),
         seqs[i + 1] \in Seq(Byte), Len(seqs[i + 1]) = w
  PROVE  Flattened(x \o seqs[i + 1], seqs, i + 1, w)
<1> DEFINE y == seqs[i + 1]
           t == x \o y
           a == i * w
<1>1. x \in Seq(Byte) /\ y \in Seq(Byte) /\ Len(x) = a /\ Len(y) = w /\ a \in Nat
  BY Products DEF Flattened
<1>2. \A j \in 1 .. i : \A k \in 1 .. w : x[(j - 1) * w + k] = seqs[j][k]
  BY DEF Flattened
<1> HIDE DEF y
<1>3. /\ t \in Seq(Byte) /\ Len(t) = a + w
      /\ \A p \in 1 .. a : t[p] = x[p]
      /\ \A k \in 1 .. w : t[a + k] = y[k]
  <2> HIDE DEF a
  <2>1. t \in Seq(Byte) /\ Len(t) = Len(x) + Len(y)
    BY <1>1, ConcatProperties
  <2>2. \A p \in 1 .. a + w : t[p] = IF p <= a THEN x[p] ELSE y[p - a]
    BY <1>1, ConcatProperties
  <2>3. ASSUME NEW k \in 1 .. w PROVE t[a + k] = y[k]
    <3> DEFINE c == a + k
    <3>1. c \in 1 .. a + w /\ ~(c <= a) /\ c - a = k
      BY <1>1
    <3> HIDE DEF c, t
    <3>2. t[c] = y[c - a]
      BY <2>2, <3>1
    <3>3. t[c] = y[k]
      BY <3>1, <3>2
    <3> QED BY <3>3 DEF c
  <2>4. ASSUME NEW p \in 1 .. a PROVE t[p] = x[p]
    <3>1. p \in 1 .. a + w /\ p <= a
      BY <1>1
    <3> QED BY <2>2, <3>1
  <2> QED BY <1>1, <2>1, <2>3, <2>4
<1> HIDE DEF t
<1>4. ASSUME NEW j \in 1 .. i + 1, NEW k \in 1 .. w PROVE t[(j - 1) * w + k] = seqs[j][k]
  <2>1. CASE j = i + 1
    <3>1. (j - 1) * w = a
      BY <2>1
    <3>2. seqs[j] = y
      BY <2>1 DEF y
    <3> HIDE DEF a
    <3> QED BY <1>3, <3>1, <3>2
  <2>2. CASE j # i + 1
    <3> DEFINE c == (j - 1) * w
    <3>1. j \in 1 .. i /\ j \in Nat /\ j - 1 \in Nat /\ j - 1 + 1 = j
      BY <2>2
    <3>2. c \in Nat /\ j * w = c + w /\ j * w <= a
      BY <3>1, Products
    <3>3. t[c + k] = x[c + k]
      <4> DEFINE e == j * w
      <4>1. e = c + w /\ e <= a
        BY <3>2
      <4> HIDE DEF a, c, e
      <4>2. c + k \in 1 .. a
        BY <1>1, <3>2, <4>1
      <4> QED BY <1>3, <4>2
    <3> QED BY <1>2, <3>1, <3>3
  <2> QED BY <2>1, <2>2
<1>5. (i + 1) * w = a + w
  BY Products
<1> QED BY <1>3, <1>4, <1>5 DEF Flattened, t, y

(* The elements of a vector, one after the other.                          *)
LEMMA Flattens ==
  ASSUME NEW seqs, NEW n \in Nat, Len(seqs) = n, seqs \in Seq(Seq(Byte)), NEW w \in Nat,
         \A i \in 1 .. n : Len(seqs[i]) = w
  PROVE  Flattened(FlattenSeq(seqs), seqs, n, w)
<1> DEFINE S == Seq(Byte)
           flatten == CHOOSE f : f = [i \in 1 .. Len(seqs) |->
                                        IF i = 1 THEN seqs[i] ELSE f[i - 1] \o seqs[i]]
           step == [i \in 1 .. n |-> [x \in S |-> IF i = 1 THEN seqs[i] ELSE x \o seqs[i]]]
<1>1. \A i \in 1 .. n : seqs[i] \in S
  BY LenProperties
<1>2. FlattenSeq(seqs) = IF n = 0 THEN seqs ELSE flatten[n]
  BY DEF FlattenSeq
<1>3. CASE n = 0
  <2>1. seqs = << >>
    BY <1>3
  <2>2. FlattenSeq(seqs) = << >>
    BY <1>2, <1>3, <2>1
  <2>3. << >> \in Seq(Byte) /\ Len(<< >>) = 0 /\ 0 * w = 0
    OBVIOUS
  <2> QED BY <1>3, <2>2, <2>3 DEF Flattened
<1>4. CASE n # 0
  <2>1. \A x, y \in S : x \o y \in S
    BY ConcatProperties
  <2>2. << >> \in S
    OBVIOUS
  <2> HIDE DEF S
  <2>3. step \in [1 .. n -> [S -> S]]
    BY <1>1, <2>1
  <2>4. PICK g : Recursion(g, S, << >>, n, step)
    <3> HIDE DEF step
    <3> QED BY <1>1, <2>2, <2>3, RecursionExists
  <2> DEFINE h == [i \in 1 .. n |-> g[i]]
  <2>5. ASSUME NEW i \in 1 .. n
        PROVE  g[i] \in S /\ g[i] = IF i = 1 THEN seqs[i] ELSE g[i - 1] \o seqs[i]
    <3>1. i \in 0 .. n /\ i - 1 \in 0 .. n /\ i # 0
      BY <1>1
    <3>2. g[i] \in S /\ g[i - 1] \in S /\ g[i] = step[i][g[i - 1]]
      BY <2>4, <3>1 DEF Recursion
    <3> QED BY <3>2
  <2>6. h = [i \in 1 .. n |-> IF i = 1 THEN seqs[i] ELSE h[i - 1] \o seqs[i]]
    <3>1. \A i \in 1 .. n : i # 1 => i - 1 \in 1 .. n /\ h[i - 1] = g[i - 1]
      BY <1>1
    <3> QED BY <2>5, <3>1
  <2> HIDE DEF h
  <2>7. flatten = [i \in 1 .. n |-> IF i = 1 THEN seqs[i] ELSE flatten[i - 1] \o seqs[i]]
    BY <2>6
  <2> HIDE DEF flatten
  <2> DEFINE T == {i \in Nat : i + 1 <= n => Flattened(flatten[i + 1], seqs, i + 1, w)}
  <2>8. 0 \in T
    <3>1. 1 \in 1 .. n
      BY <1>4
    <3>2. flatten[1] = seqs[1] /\ seqs[1] \in S /\ Len(seqs[1]) = w
      BY <1>1, <2>7, <3>1
    <3>3. \A j \in 1 .. 1 : \A k \in 1 .. w : seqs[1][(j - 1) * w + k] = seqs[j][k]
      <4> SUFFICES ASSUME NEW k \in 1 .. w PROVE seqs[1][(1 - 1) * w + k] = seqs[1][k]
        OBVIOUS
      <4>1. (1 - 1) * w = 0 /\ 0 + k = k
        OBVIOUS
      <4> QED BY <4>1
    <3>4. 1 * w = w
      OBVIOUS
    <3>5. Flattened(flatten[1], seqs, 1, w)
      BY <3>2, <3>3, <3>4 DEF Flattened, S
    <3>6. 0 + 1 = 1 /\ 0 \in Nat
      OBVIOUS
    <3> QED BY <3>5, <3>6
  <2>9. ASSUME NEW i \in Nat, i \in T PROVE i + 1 \in T
    <3> SUFFICES ASSUME i + 1 + 1 <= n PROVE Flattened(flatten[i + 1 + 1], seqs, i + 1 + 1, w)
      OBVIOUS
    <3> DEFINE j == i + 1
    <3>1. j \in Nat /\ j + 1 \in 1 .. n /\ j + 1 # 1 /\ j + 1 - 1 = j /\ j <= n
      BY <1>1
    <3>2. Flattened(flatten[j], seqs, j, w)
      BY <2>9, <3>1
    <3> HIDE DEF j, T
    <3>3. flatten[j + 1] = flatten[j] \o seqs[j + 1]
      <4> DEFINE p == j + 1
      <4>1. p \in 1 .. n /\ p # 1 /\ p - 1 = j
        BY <3>1
      <4> HIDE DEF p
      <4>2. flatten[p] = IF p = 1 THEN seqs[p] ELSE flatten[p - 1] \o seqs[p]
        BY <2>7, <4>1
      <4>3. flatten[p] = flatten[j] \o seqs[p]
        BY <4>1, <4>2
      <4> QED BY <4>3 DEF p
    <3>4. seqs[j + 1] \in Seq(Byte) /\ Len(seqs[j + 1]) = w
      BY <1>1, <3>1 DEF S
    <3>5. Flattened(flatten[j] \o seqs[j + 1], seqs, j + 1, w)
      BY <3>1, <3>2, <3>4, AddsPart
    <3> QED BY <3>3, <3>5 DEF j
  <2> HIDE DEF T
  <2>10. n - 1 \in T
    <3>1. n - 1 \in Nat
      BY <1>1, <1>4
    <3> QED BY <2>8, <2>9, <3>1, Induction
  <2>11. Flattened(flatten[n], seqs, n, w)
    <3>1. n - 1 + 1 = n /\ n <= n
      BY <1>1
    <3> QED BY <2>10, <3>1 DEF T
  <2> QED BY <1>2, <1>4, <2>11
<1> QED BY <1>3, <1>4

(* What holds sequences one after the other holds each of them. *)
LEMMA PartsHeld ==
  ASSUME NEW v, v.size \in Nat, NEW o \in Int, NEW s, NEW seqs, NEW n \in Nat, NEW w \in Nat,
         Flattened(s, seqs, n, w), Holds(v, o, s), NEW i \in 1 .. n, Len(seqs[i]) = w
  PROVE  Holds(v, o - w * (i - 1), seqs[i])
<1> DEFINE a == (i - 1) * w
           b_ == n * w
           t == seqs[i]
<1>1. /\ Len(s) = b_ /\ \A k \in 1 .. w : s[a + k] = t[k]
      /\ Len(s) <= o /\ o <= v.size
      /\ \A k \in 1 .. Len(s) : v.mem[v.reserved - (o - k + 1)] = s[k]
  BY DEF Flattened, Holds
<1>2. a \in Nat /\ b_ \in Nat /\ a + w <= b_ /\ w * (i - 1) = a
  <2>1. i - 1 \in Nat /\ i \in Nat /\ i <= n /\ i - 1 + 1 = i
    OBVIOUS
  <2>2. (i - 1) * w \in Nat /\ (i - 1 + 1) * w = (i - 1) * w + w /\ i * w <= n * w /\ n * w \in Nat
    BY <2>1, Products
  <2>3. w * (i - 1) = (i - 1) * w
    BY <2>1
  <2> QED BY <2>1, <2>2, <2>3
<1>3. Len(t) = w
  OBVIOUS
<1> HIDE DEF a, b_, t
<1> DEFINE y == v.size
           r == v.reserved
<1>4. y \in Nat /\ b_ <= o /\ o <= y
  BY <1>1
<1>5. ASSUME NEW k \in 1 .. w PROVE v.mem[r - ((o - a) - k + 1)] = t[k]
  <2>1. a + k \in 1 .. b_ /\ o - (a + k) + 1 = (o - a) - k + 1
    BY <1>2
  <2>2. v.mem[v.reserved - (o - (a + k) + 1)] = s[a + k]
    BY <1>1, <2>1
  <2> QED BY <1>1, <2>1, <2>2
<1> HIDE DEF y
<1>6. w <= o - a /\ o - a <= y
  BY <1>2, <1>4
<1>7. Holds(v, o - a, t)
  BY <1>3, <1>5, <1>6 DEF Holds, y
<1> QED BY <1>2, <1>7 DEF t

-----------------------------------------------------------------------------
(* An object has been written at r.o, behind what there was. *)
Written(b_, r, d) ==
  /\ r.b \in Follows(b_, d) /\ r.b.string_pool = b_.string_pool
  /\ b_.nested = FALSE => r.b.nested = FALSE
  /\ r.o \in Nat /\ r.o % 4 = 0 /\ 4 <= r.o /\ r.o <= r.b.buf.size /\ 4 <= r.b.minalign_

(* The nested flag of an idle builder. *)
LEMMA NestsIdler ==
  ASSUME NEW d, NEW b_ \in Idlers(d), NEW on \in BOOLEAN
  PROVE  LET c == [b_ EXCEPT !.nested = on]
         IN /\ c \in Follows(b_, d) /\ c \in Idlers(d) /\ c \in Builders(d)
            /\ c.nested = on /\ c.buf = b_.buf /\ c.string_pool = b_.string_pool
            /\ SameMinAlign(b_, c)
<1> DEFINE c == [b_ EXCEPT !.nested = on]
<1>1. b_ \in Builders(d) /\ b_.num_field_loc = 0
  BY DEF Idlers
<1>2. /\ c \in Builders(d) /\ c.nested = on /\ c.buf = b_.buf
      /\ c.num_field_loc = b_.num_field_loc
      /\ c.string_pool = b_.string_pool /\ SameFlags(b_, c) /\ SameMinAlign(b_, c)
  BY <1>1, Nests
<1> HIDE DEF c
<1>3. b_.buf.size \in Nat /\ b_.minalign_ \in Nat
  BY <1>1, BuilderNumbers
<1>4. SameScratch(b_.buf, c.buf) /\ Stays(b_.buf, c.buf)
  BY <1>2, <1>3, StaysSelf DEF SameScratch
<1>5. c \in Idlers(d)
  BY <1>1, <1>2 DEF Idlers
<1>6. b_.minalign_ <= c.minalign_
  BY <1>2, <1>3 DEF SameMinAlign
<1> QED BY <1>2, <1>4, <1>5, <1>6 DEF Follows, c

(* NotNested checks the builder and changes nothing else. *)
LEMMA ChecksIdler ==
  ASSUME NEW d, NEW b_ \in Idlers(d)
  PROVE  LET c == NotNested(b_)
         IN /\ c \in Follows(b_, d) /\ c \in Idlers(d) /\ c \in Builders(d)
            /\ c.buf = b_.buf /\ c.nested = b_.nested /\ c.string_pool = b_.string_pool
            /\ c.minalign_ = b_.minalign_
<1> DEFINE condition == ~b_.nested /\ b_.num_field_loc = 0
           c == NotNested(b_)
<1>1. b_ \in Builders(d) /\ c = Assert_(b_, condition)
  BY DEF Idlers, NotNested
<1> HIDE DEF condition, c
<1>2. c \in Grown(b_, d) /\ c.buf = b_.buf /\ c.minalign_ = b_.minalign_
  BY <1>1, Asserts
<1> QED BY <1>2, GrownIdles DEF c

(* StartVector aligns for the elements. *)
LEMMA StartsVector ==
  ASSUME NEW d \in 0 .. 3, NEW b_ \in Idlers(d),
         NEW len \in Int, NEW elemsize \in Int, NEW alignment \in Alignments
  PROVE  LET c == StartVector(b_, len, elemsize, alignment)
             x == len * elemsize
         IN /\ c \in Follows(b_, d) /\ c \in Idlers(d) /\ c \in Builders(d)
            /\ c.buf.scratch = b_.buf.scratch /\ c.string_pool = b_.string_pool
            /\ x # 0 => /\ (c.buf.size + x) % 4 = 0 /\ (c.buf.size + x) % alignment = 0
                        /\ alignment <= c.minalign_
<1> DEFINE k == NotNested(b_)
           n == [k EXCEPT !.nested = TRUE]
           x == len * elemsize
           p == PreAlign(n, x, 4)
           q == PreAlign(p, x, alignment)
<1>1. k \in Follows(b_, d) /\ k \in Idlers(d) /\ k.string_pool = b_.string_pool
  BY ChecksIdler
<1>2. StartVector(b_, len, elemsize, alignment) = q
  BY DEF StartVector, uoffset_t, Scalar
<1>3. x \in Int /\ 4 \in Alignments
  BY DEF Alignments
<1> HIDE DEF k, x
<1>4. /\ n \in Follows(k, d) /\ n \in Idlers(d) /\ n \in Builders(d)
      /\ n.string_pool = k.string_pool
  BY <1>1, NestsIdler
<1> HIDE DEF n
<1>5. p \in Grown(n, d) /\ (x # 0 => (p.buf.size + x) % 4 = 0)
  BY <1>3, <1>4, PreAligns
<1> HIDE DEF p
<1>6. /\ p \in Follows(n, d) /\ p \in Idlers(d) /\ p \in Builders(d)
      /\ p.string_pool = n.string_pool
  BY <1>4, <1>5, GrownIdles
<1>7. /\ q \in Grown(p, d)
      /\ x # 0 => alignment <= q.minalign_ /\ (q.buf.size + x) % alignment = 0
      /\ (p.buf.size + x) % alignment = 0 => q.buf.size = p.buf.size
  BY <1>3, <1>6, PreAligns
<1> HIDE DEF q
<1>8. /\ q \in Follows(p, d) /\ q \in Idlers(d) /\ q \in Builders(d)
      /\ q.string_pool = p.string_pool
  BY <1>6, <1>7, GrownIdles
<1>9. q \in Follows(b_, d)
  <2>1. n \in Follows(b_, d)
    BY <1>1, <1>4, FollowsOn
  <2>2. p \in Follows(b_, d)
    BY <1>6, <2>1, FollowsOn
  <2> QED BY <1>8, <2>2, FollowsOn
<1>10. q.buf.scratch = b_.buf.scratch
  BY <1>9 DEF Follows, SameScratch
<1>11. ASSUME x # 0 PROVE (q.buf.size + x) % 4 = 0
  <2> DEFINE y == p.buf.size
             z == q.buf.size
  <2>1. /\ y \in Nat /\ z \in Nat /\ (y + x) % 4 = 0 /\ (z + x) % alignment = 0
        /\ (y + x) % alignment = 0 => z = y
    BY <1>5, <1>6, <1>7, <1>8, <1>11, BuilderNumbers
  <2> HIDE DEF y, z
  <2>2. alignment \in {1, 2, 4, 8, 16, 32}
    BY DEF Alignments
  <2>3. (z + x) % 4 = 0
    <3>1. CASE alignment <= 4
      <4>1. y + x \in Int
        BY <1>3, <2>1
      <4>2. (y + x) % alignment = 0
        BY <1>3, <2>1, <3>1, <4>1, SmallerAlignment
      <4> QED BY <2>1, <4>2
    <3>2. CASE 4 <= alignment
      <4>1. z + x \in Int
        BY <1>3, <2>1
      <4> QED BY <1>3, <2>1, <3>2, <4>1, SmallerAlignment
    <3> QED BY <2>2, <3>1, <3>2
  <2> QED BY <2>3 DEF z
<1>12. q.string_pool = b_.string_pool
  BY <1>1, <1>4, <1>6, <1>8
<1> QED BY <1>2, <1>7, <1>8, <1>9, <1>10, <1>11, <1>12 DEF x

(* EndVector writes the length. *)
LEMMA EndsVector ==
  ASSUME NEW d \in 0 .. 3, NEW b_ \in Idlers(d), NEW len \in Int
  PROVE  LET r == EndVector(b_, len)
         IN /\ Written(b_, r, d) /\ r.b.nested = FALSE
            /\ b_.buf.size + 4 <= r.o /\ (b_.buf.size % 4 = 0 => r.o = b_.buf.size + 4)
            /\ Holds(r.b.buf, r.o, EndianScalar(len, 4))
<1> DEFINE k == Assert_(b_, b_.nested)
           n == [k EXCEPT !.nested = FALSE]
           e == PushElement(n, len, 4)
           r == EndVector(b_, len)
<1>0. b_ \in Builders(d) /\ 4 \in Sizes /\ 4 \in Alignments
  BY DEF Idlers, Sizes, Alignments
<1>1. k \in Grown(b_, d) /\ k.buf = b_.buf
  BY <1>0, Asserts
<1>5. r = [b |-> e, o |-> e.buf.size]
  BY DEF EndVector, With, GetSize, uoffset_t, Scalar
<1> HIDE DEF k
<1>2. k \in Idlers(d) /\ k \in Follows(b_, d) /\ k.string_pool = b_.string_pool
  BY <1>1, GrownIdles
<1>3. /\ n \in Idlers(d) /\ n \in Builders(d) /\ n \in Follows(k, d)
      /\ n.nested = FALSE /\ n.buf = k.buf /\ n.string_pool = k.string_pool
  BY <1>2, NestsIdler
<1> HIDE DEF n
<1>4. /\ e \in Grown(n, d)
      /\ e.buf.size = n.buf.size + PaddingBytes(n.buf.size, 4) + 4
      /\ e.buf.size % 4 = 0 /\ 4 <= e.minalign_
      /\ Holds(e.buf, e.buf.size, EndianScalar(len, 4))
  BY <1>0, <1>3, PushesElement
<1> HIDE DEF e
<1>6. /\ e \in Follows(n, d) /\ e \in Builders(d) /\ e.nested = n.nested
      /\ e.string_pool = n.string_pool
  BY <1>3, <1>4, GrownIdles
<1>7. e \in Follows(b_, d)
  <2>1. n \in Follows(b_, d)
    BY <1>2, <1>3, FollowsOn
  <2> QED BY <1>6, <2>1, FollowsOn
<1> DEFINE x == b_.buf.size
           y == e.buf.size
<1>8. x \in Nat /\ y \in Nat /\ x + 4 <= y /\ (x % 4 = 0 => y = x + 4) /\ y % 4 = 0
  <2>1. x \in Nat /\ y \in Nat /\ y = x + PaddingBytes(x, 4) + 4 /\ y % 4 = 0
    BY <1>0, <1>1, <1>3, <1>4, <1>6, BuilderNumbers
  <2> HIDE DEF x, y
  <2> DEFINE q == PaddingBytes(x, 4)
  <2>2. q \in 0 .. 4 - 1 /\ (x % 4 = 0 => q = 0)
    <3>1. x \in Int
      BY <2>1
    <3> QED BY <1>0, <3>1, PaddingExact
  <2> HIDE DEF q
  <2>3. y = x + q + 4
    BY <2>1 DEF q
  <2> QED BY <2>1, <2>2, <2>3
<1>9. r.b = e /\ r.o = y
  BY <1>5
<1> HIDE DEF x, y, r
<1>10. 4 <= y /\ y <= e.buf.size
  BY <1>8 DEF y
<1>11. Written(b_, r, d)
  BY <1>2, <1>3, <1>4, <1>6, <1>7, <1>8, <1>9, <1>10 DEF Written
<1> QED BY <1>3, <1>4, <1>6, <1>8, <1>9, <1>11 DEF x, y, r

(* The numbers by which a vector is aligned: s is the size before the      *)
(* elements, x the bytes it was aligned for, n those of the elements, y    *)
(* the offset of the vector.                                               *)
LEMMA VectorAligned ==
  ASSUME NEW s \in Int, NEW x \in Int, NEW n \in Int, NEW y \in Int, NEW k \in Alignments,
         (s + x) % 4 = 0, (s + x) % k = 0, y % 4 = 0, (s + n) % 4 = 0 => y = s + n + 4
  PROVE  /\ (x - n) % 4 = 0 => y - 4 = s + n
         /\ x % k = 0 /\ n % k = 0 => (y - 4) % k = 0
<1>1. k \in {1, 2, 4, 8, 16, 32}
  BY DEF Alignments
<1>2. (x - n) % 4 = 0 => y - 4 = s + n
  OBVIOUS
<1>3. ASSUME x % k = 0, n % k = 0 PROVE (y - 4) % k = 0
  <2>1. CASE k = 1
    BY <2>1
  <2>2. CASE k = 2
    BY <2>2
  <2>3. CASE k = 4
    BY <2>3
  <2>4. CASE k = 8
    BY <1>3, <2>4
  <2>5. CASE k = 16
    BY <1>3, <2>5
  <2>6. CASE k = 32
    BY <1>3, <2>6
  <2> QED BY <1>1, <2>1, <2>2, <2>3, <2>4, <2>5, <2>6
<1> QED BY <1>2, <1>3

(* The vectors of which the elements are written as they are. *)
LEMMA PushesVector ==
  ASSUME NEW d \in 0 .. 3, NEW b_ \in Idlers(d),
         NEW len \in Int, NEW elemsize \in Int, NEW alignment \in Alignments,
         NEW bytes \in Seq(Byte), NEW n \in Int
  PROVE  LET r == EndVector(PushBytes(StartVector(b_, len, elemsize, alignment), bytes), n)
             x == len * elemsize
         IN /\ Written(b_, r, d) /\ Len(bytes) + 4 <= r.o
            /\ Holds(r.b.buf, r.o, EndianScalar(n, 4))
            /\ x # 0 /\ (x - Len(bytes)) % 4 = 0 => Holds(r.b.buf, r.o - 4, bytes)
            /\ x # 0 /\ x % alignment = 0 /\ Len(bytes) % alignment = 0 =>
                 (r.o - 4) % alignment = 0 /\ alignment <= r.b.minalign_
<1> DEFINE c == StartVector(b_, len, elemsize, alignment)
           e == PushBytes(c, bytes)
           r == EndVector(e, n)
           x == len * elemsize
           l == Len(bytes)
<1>0. x \in Int /\ l \in Nat
  OBVIOUS
<1>1. /\ c \in Follows(b_, d) /\ c \in Idlers(d) /\ c \in Builders(d) /\ c.string_pool = b_.string_pool
      /\ x # 0 => /\ (c.buf.size + x) % 4 = 0 /\ (c.buf.size + x) % alignment = 0
                  /\ alignment <= c.minalign_
  <2>1. LET c_ == StartVector(b_, len, elemsize, alignment)
            x_ == len * elemsize
        IN /\ c_ \in Follows(b_, d) /\ c_ \in Idlers(d) /\ c_ \in Builders(d)
           /\ c_.buf.scratch = b_.buf.scratch /\ c_.string_pool = b_.string_pool
           /\ x_ # 0 => /\ (c_.buf.size + x_) % 4 = 0 /\ (c_.buf.size + x_) % alignment = 0
                        /\ alignment <= c_.minalign_
    BY StartsVector
  <2> QED BY <2>1, Zenon
<1> HIDE DEF c, x
<1>2. e \in Grown(c, d) /\ e.buf.size = c.buf.size + l /\ Holds(e.buf, e.buf.size, bytes)
  BY <1>1, PushesBytes
<1> HIDE DEF e
<1>3. e \in Follows(c, d) /\ e \in Idlers(d) /\ e \in Builders(d) /\ e.string_pool = c.string_pool
  BY <1>1, <1>2, GrownIdles
<1>4. /\ Written(e, r, d) /\ r.b.nested = FALSE /\ e.buf.size + 4 <= r.o
      /\ e.buf.size % 4 = 0 => r.o = e.buf.size + 4
      /\ Holds(r.b.buf, r.o, EndianScalar(n, 4))
  BY <1>3, EndsVector
<1> HIDE DEF r, l
<1>5. /\ r.b \in Follows(e, d) /\ r.b.string_pool = e.string_pool
      /\ r.o \in Nat /\ r.o % 4 = 0 /\ 4 <= r.o /\ r.o <= r.b.buf.size /\ 4 <= r.b.minalign_
  BY <1>4 DEF Written
<1>6. e \in Follows(b_, d)
  BY <1>1, <1>3, FollowsOn
<1>7. r.b \in Follows(b_, d) /\ r.b \in Builders(d) /\ Stays(e.buf, r.b.buf)
  BY <1>5, <1>6, FollowsOn DEF Follows, Idlers
<1>8. Written(b_, r, d)
  BY <1>1, <1>3, <1>4, <1>5, <1>7 DEF Written
<1> DEFINE s == c.buf.size
           y == r.o
<1>9. /\ s \in Nat /\ y \in Nat /\ e.buf.size = s + l /\ e.buf.size \in Int /\ y % 4 = 0
      /\ (s + l) % 4 = 0 => y = s + l + 4
  BY <1>1, <1>2, <1>3, <1>4, <1>5, BuilderNumbers
<1>10. ASSUME x # 0
       PROVE  /\ (x - l) % 4 = 0 => y - 4 = s + l
              /\ x % alignment = 0 /\ l % alignment = 0 => (y - 4) % alignment = 0
  <2>1. (s + x) % 4 = 0 /\ (s + x) % alignment = 0
    BY <1>1, <1>10
  <2> HIDE DEF s, y
  <2>2. s \in Int /\ x \in Int /\ l \in Int /\ y \in Int
    BY <1>0, <1>9
  <2> QED BY <1>9, <2>1, <2>2, VectorAligned
<1>11. ASSUME x # 0, (x - l) % 4 = 0 PROVE Holds(r.b.buf, r.o - 4, bytes)
  <2>1. r.o - 4 = e.buf.size
    BY <1>9, <1>10, <1>11
  <2>2. Holds(r.b.buf, e.buf.size, bytes)
    <3>1. Len(bytes) \in Nat
      OBVIOUS
    <3> QED BY <1>2, <1>3, <1>7, <1>9, <3>1, HeldOn
  <2> QED BY <2>1, <2>2
<1>12. ASSUME x # 0 PROVE alignment <= r.b.minalign_
  <2> DEFINE u == c.minalign_
             v == e.minalign_
             w == r.b.minalign_
  <2>1. alignment <= u /\ u <= v /\ v <= w
    BY <1>1, <1>3, <1>5, <1>12 DEF Follows
  <2>2. u \in Nat /\ v \in Nat /\ w \in Nat /\ alignment \in Nat
    BY <1>1, <1>3, <1>7, BuilderNumbers DEF Alignments
  <2> HIDE DEF u, v, w
  <2>3. alignment <= w
    BY <2>1, <2>2
  <2> QED BY <2>3 DEF w
<1>13. l + 4 <= y
  <2> DEFINE z == e.buf.size
  <2>1. z = s + l /\ z + 4 <= y
    BY <1>4, <1>9
  <2> HIDE DEF s, y, z
  <2> QED BY <1>0, <1>9, <2>1
<1> QED BY <1>4, <1>8, <1>10, <1>11, <1>12, <1>13 DEF x, c, e, r, l, y

-----------------------------------------------------------------------------
(* The vector of the integers elements, of n bytes each, at the offset o.  *)
ScalarsAt(v, o, elements, n, minalign) ==
  /\ Len(elements) <= o /\ Holds(v, o, EndianScalar(Len(elements), 4))
  /\ \A i \in 1 .. Len(elements) : Holds(v, o - 4 - n * (i - 1), EndianScalar(elements[i], n))
  /\ Len(elements) # 0 => (o - 4) % n = 0 /\ n <= minalign

(* CreateVector of scalars. *)
LEMMA CreatesVector ==
  ASSUME NEW d \in 0 .. 3, NEW b_ \in Idlers(d), NEW size_ \in Sizes, NEW elements \in Seq(Int)
  PROVE  LET r == CreateVector(b_, elements, size_)
         IN Written(b_, r, d) /\ ScalarsAt(r.b.buf, r.o, elements, size_, r.b.minalign_)
<1> DEFINE n == Len(elements)
           parts == [i \in 1 .. n |-> EndianScalar(elements[i], size_)]
           bytes == FlattenSeq(parts)
           x == n * size_
           r == CreateVector(b_, elements, size_)
<1>1. /\ n \in Nat /\ n \in Int /\ size_ \in Nat /\ size_ \in Int /\ size_ \in Alignments
      /\ size_ >= 1 /\ DOMAIN elements = 1 .. n /\ \A i \in 1 .. n : elements[i] \in Int
  BY LenProperties DEF Sizes, Alignments
<1>2. \A i \in 1 .. n : EndianScalar(elements[i], size_) \in Seq(Byte)
                        /\ Len(EndianScalar(elements[i], size_)) = size_
  BY <1>1, ScalarBytes
<1>3. r = EndVector(PushBytes(StartVector(b_, n, size_, size_), bytes), n)
  BY <1>1 DEF CreateVector
<1> HIDE DEF r, n
<1>4. Flattened(bytes, parts, n, size_)
  <2>1. parts \in Seq(Seq(Byte)) /\ Len(parts) = n /\ \A i \in 1 .. n : Len(parts[i]) = size_
    BY <1>1, <1>2
  <2> HIDE DEF parts
  <2> QED BY <1>1, <2>1, Flattens
<1>5. bytes \in Seq(Byte) /\ Len(bytes) = x
  BY <1>4 DEF Flattened
<1>6. x \in Int /\ n <= x /\ (n # 0 => x # 0) /\ x % size_ = 0
  <2>1. size_ % size_ = 0
    BY DEF Sizes
  <2>2. x % size_ = 0
    BY <1>1, <2>1, ProductAligned
  <2>3. x \in Int /\ n <= x
    <3>1. size_ \in {1, 2, 4, 8}
      BY DEF Sizes
    <3> QED BY <1>1, <3>1
  <2> HIDE DEF x
  <2> QED BY <1>1, <2>2, <2>3
<1> HIDE DEF bytes
<1>7. /\ Written(b_, r, d) /\ Len(bytes) + 4 <= r.o
      /\ Holds(r.b.buf, r.o, EndianScalar(n, 4))
      /\ x # 0 /\ (x - Len(bytes)) % 4 = 0 => Holds(r.b.buf, r.o - 4, bytes)
      /\ x # 0 /\ x % size_ = 0 /\ Len(bytes) % size_ = 0 =>
           (r.o - 4) % size_ = 0 /\ size_ <= r.b.minalign_
  <2>1. LET r_ == EndVector(PushBytes(StartVector(b_, n, size_, size_), bytes), n)
            x_ == n * size_
        IN /\ Written(b_, r_, d) /\ Len(bytes) + 4 <= r_.o
           /\ Holds(r_.b.buf, r_.o, EndianScalar(n, 4))
           /\ x_ # 0 /\ (x_ - Len(bytes)) % 4 = 0 => Holds(r_.b.buf, r_.o - 4, bytes)
           /\ x_ # 0 /\ x_ % size_ = 0 /\ Len(bytes) % size_ = 0 =>
                (r_.o - 4) % size_ = 0 /\ size_ <= r_.b.minalign_
    BY <1>1, <1>5, PushesVector
  <2> QED BY <1>3, <2>1, Zenon
<1> HIDE DEF x
<1>8. x - x = 0 /\ 0 % 4 = 0
  BY <1>6
<1>9. r.o \in Nat /\ r.o - 4 \in Int /\ r.b.buf.size \in Nat
  <2>1. r.o \in Nat /\ r.b \in Builders(d)
    BY <1>7 DEF Written, Follows, Idlers
  <2> QED BY <2>1, BuilderNumbers
<1>10. n <= r.o
  <2> DEFINE y == r.o
  <2>1. y \in Nat /\ x + 4 <= y
    BY <1>5, <1>7, <1>9
  <2> HIDE DEF y
  <2>2. n <= y
    BY <1>1, <1>6, <2>1
  <2> QED BY <2>2 DEF y
<1>11. n # 0 => (r.o - 4) % size_ = 0 /\ size_ <= r.b.minalign_
  BY <1>5, <1>6, <1>7
<1>12. ASSUME NEW i \in 1 .. n
       PROVE  Holds(r.b.buf, r.o - 4 - size_ * (i - 1), EndianScalar(elements[i], size_))
  <2>1. n # 0
    BY <1>1
  <2>2. Holds(r.b.buf, r.o - 4, bytes)
    BY <1>5, <1>6, <1>7, <1>8, <2>1
  <2>3. parts[i] = EndianScalar(elements[i], size_) /\ Len(parts[i]) = size_
    BY <1>2
  <2> DEFINE o == r.o - 4
             v == r.b.buf
  <2>4. v.size \in Nat /\ o \in Int /\ Holds(v, o, bytes)
    BY <1>9, <2>2
  <2> HIDE DEF o, parts, v
  <2>5. Holds(v, o - size_ * (i - 1), parts[i])
    BY <1>1, <1>4, <2>3, <2>4, PartsHeld
  <2> QED BY <2>3, <2>5 DEF o, v
<1>13. ScalarsAt(r.b.buf, r.o, elements, size_, r.b.minalign_)
  BY <1>7, <1>10, <1>11, <1>12 DEF ScalarsAt, n
<1> QED BY <1>7, <1>13 DEF r

-----------------------------------------------------------------------------
(* A vector of structs is aligned for len \div alignment elements, len     *)
(* being the bytes of all (flatbuffer_builder.h:791), and not for all of   *)
(* them: the elements begin behind its length when both numbers of bytes   *)
(* are padded alike.                                                       *)
PaddedAlike(u) == LET n == Len(u[1]) * u[2] IN ((n \div u[3]) * u[2] - n) % 4 = 0

(* The vector of structs, of w bytes each, at the offset o. *)
StructsAt(v, o, structs, w, alignment, minalign) ==
  /\ Len(structs) <= o /\ Holds(v, o, EndianScalar(Len(structs), 4))
  /\ Len(structs) # 0 => (o - 4) % alignment = 0 /\ alignment <= minalign
  /\ PaddedAlike(<<structs, w, alignment>>) =>
       \A i \in 1 .. Len(structs) : Holds(v, o - 4 - w * (i - 1), structs[i])

(* CreateVectorOfStructs. *)
LEMMA CreatesVectorOfStructs ==
  ASSUME NEW d \in 0 .. 3, NEW b_ \in Idlers(d), NEW w \in Nat \ {0}, NEW alignment \in Alignments,
         w % alignment = 0, NEW structs \in Seq([1 .. w -> Byte])
  PROVE  LET r == CreateVectorOfStructs(b_, structs, w, alignment)
         IN Written(b_, r, d) /\ StructsAt(r.b.buf, r.o, structs, w, alignment, r.b.minalign_)
<1> DEFINE n == Len(structs)
           bytes == FlattenSeq(structs)
           l == n * w
           len == l \div alignment
           x == len * w
           r == CreateVectorOfStructs(b_, structs, w, alignment)
<1>1. n \in Nat /\ n \in Int /\ w \in Nat /\ w \in Int /\ \A i \in 1 .. n : structs[i] \in [1 .. w -> Byte]
  BY LenProperties
<1>2. \A i \in 1 .. n : structs[i] \in Seq(Byte) /\ Len(structs[i]) = w
  <2> SUFFICES ASSUME NEW i \in 1 .. n PROVE structs[i] \in Seq(Byte) /\ Len(structs[i]) = w
    OBVIOUS
  <2> DEFINE s == structs[i]
  <2>1. s \in [1 .. w -> Byte]
    BY <1>1
  <2> HIDE DEF s
  <2>2. s \in Seq(Byte) /\ Len(s) = w
    BY <1>1, <2>1
  <2> QED BY <2>2 DEF s
<1>3. r = EndVector(PushBytes(StartVector(b_, len, w, alignment), bytes), n)
  BY DEF CreateVectorOfStructs
<1>4. PaddedAlike(<<structs, w, alignment>>) <=> (x - l) % 4 = 0
  BY DEF PaddedAlike
<1> HIDE DEF r
<1>5. Flattened(bytes, structs, n, w)
  <2>1. structs \in Seq(Seq(Byte)) /\ Len(structs) = n
    BY <1>2, LenProperties
  <2> HIDE DEF n
  <2> QED BY <1>1, <1>2, <2>1, Flattens
<1> HIDE DEF n
<1>6. bytes \in Seq(Byte) /\ Len(bytes) = l
  BY <1>5 DEF Flattened
<1>7. l \in Nat /\ l % alignment = 0 /\ n <= l /\ (n # 0 => w <= l)
  <2>1. l % alignment = 0
    BY <1>1, ProductAligned
  <2>2. l \in Nat
    BY <1>1, Products
  <2>3. n <= l
    <3>1. n * w = n + n * (w - 1) /\ n * (w - 1) \in Nat
      <4>1. w - 1 \in Nat
        BY <1>1
      <4> QED BY <1>1, <4>1
    <3> DEFINE y == n * (w - 1)
    <3>2. l = n + y /\ y \in Nat
      BY <3>1
    <3> HIDE DEF y, l
    <3> QED BY <1>1, <3>2
  <2>4. ASSUME n # 0 PROVE w <= l
    <3>1. 1 \in Nat /\ 1 <= n
      BY <1>1, <2>4
    <3>2. 1 * w <= n * w /\ 1 * w = w
      BY <1>1, <3>1, Products
    <3> QED BY <3>2
  <2> QED BY <2>1, <2>2, <2>3, <2>4
<1> HIDE DEF l
<1>8. alignment <= w /\ alignment \in Nat
  <2>1. alignment \in {1, 2, 4, 8, 16, 32}
    BY DEF Alignments
  <2>2. CASE alignment = 1
    BY <1>1, <2>2
  <2>3. CASE alignment = 2
    BY <1>1, <2>3
  <2>4. CASE alignment = 4
    BY <1>1, <2>4
  <2>5. CASE alignment = 8
    BY <1>1, <2>5
  <2>6. CASE alignment = 16
    BY <1>1, <2>6
  <2>7. CASE alignment = 32
    BY <1>1, <2>7
  <2> QED BY <2>1, <2>2, <2>3, <2>4, <2>5, <2>6, <2>7
<1>9. len \in Nat /\ len \in Int /\ (n # 0 => len >= 1)
  <2>1. len \in Nat /\ (alignment <= l => len >= 1)
    BY <1>7, QuotientPositive
  <2>2. n # 0 => alignment <= l
    BY <1>1, <1>7, <1>8
  <2> HIDE DEF len
  <2> QED BY <2>1, <2>2
<1> HIDE DEF len
<1>10. x \in Int /\ x % alignment = 0 /\ (n # 0 => x # 0)
  <2>1. x % alignment = 0
    BY <1>1, <1>9, ProductAligned
  <2>2. ASSUME n # 0 PROVE x # 0
    <3>1. 1 \in Nat /\ 1 <= len
      BY <1>9, <2>2
    <3>2. 1 * w <= len * w /\ 1 * w = w
      BY <1>1, <1>9, <3>1, Products
    <3> HIDE DEF x
    <3>3. w <= x /\ w >= 1
      BY <1>1, <3>2 DEF x
    <3> QED BY <1>1, <3>3
  <2>3. x \in Int
    BY <1>1, <1>9
  <2> QED BY <2>1, <2>2, <2>3
<1> HIDE DEF bytes
<1>11. /\ Written(b_, r, d) /\ Len(bytes) + 4 <= r.o
       /\ Holds(r.b.buf, r.o, EndianScalar(n, 4))
       /\ x # 0 /\ (x - Len(bytes)) % 4 = 0 => Holds(r.b.buf, r.o - 4, bytes)
       /\ x # 0 /\ x % alignment = 0 /\ Len(bytes) % alignment = 0 =>
            (r.o - 4) % alignment = 0 /\ alignment <= r.b.minalign_
  <2>1. LET r_ == EndVector(PushBytes(StartVector(b_, len, w, alignment), bytes), n)
            x_ == len * w
        IN /\ Written(b_, r_, d) /\ Len(bytes) + 4 <= r_.o
           /\ Holds(r_.b.buf, r_.o, EndianScalar(n, 4))
           /\ x_ # 0 /\ (x_ - Len(bytes)) % 4 = 0 => Holds(r_.b.buf, r_.o - 4, bytes)
           /\ x_ # 0 /\ x_ % alignment = 0 /\ Len(bytes) % alignment = 0 =>
                (r_.o - 4) % alignment = 0 /\ alignment <= r_.b.minalign_
    BY <1>1, <1>6, <1>9, PushesVector
  <2> QED BY <1>3, <2>1, Zenon
<1> HIDE DEF x
<1>12. r.o \in Nat /\ r.o - 4 \in Int /\ r.b.buf.size \in Nat
  <2>1. r.o \in Nat /\ r.b \in Builders(d)
    BY <1>11 DEF Written, Follows, Idlers
  <2> QED BY <2>1, BuilderNumbers
<1>13. n <= r.o
  <2> DEFINE y == r.o
  <2>1. y \in Nat /\ l + 4 <= y
    BY <1>6, <1>11, <1>12
  <2> HIDE DEF y
  <2>2. n <= y
    BY <1>1, <1>7, <2>1
  <2> QED BY <2>2 DEF y
<1>14. n # 0 => (r.o - 4) % alignment = 0 /\ alignment <= r.b.minalign_
  BY <1>6, <1>7, <1>10, <1>11
<1>15. ASSUME (x - l) % 4 = 0, NEW i \in 1 .. n
       PROVE  Holds(r.b.buf, r.o - 4 - w * (i - 1), structs[i])
  <2>1. n # 0
    BY <1>1
  <2>2. Holds(r.b.buf, r.o - 4, bytes)
    BY <1>6, <1>10, <1>11, <1>15, <2>1
  <2> DEFINE o == r.o - 4
             v == r.b.buf
  <2>4. v.size \in Nat /\ o \in Int /\ Holds(v, o, bytes) /\ Len(structs[i]) = w
    BY <1>2, <1>12, <2>2
  <2> HIDE DEF o, v
  <2>5. Holds(v, o - w * (i - 1), structs[i])
    BY <1>1, <1>5, <2>4, PartsHeld
  <2> QED BY <2>5 DEF o, v
<1>16. StructsAt(r.b.buf, r.o, structs, w, alignment, r.b.minalign_)
  BY <1>4, <1>11, <1>13, <1>14, <1>15 DEF StructsAt, n
<1> QED BY <1>11, <1>16 DEF r

-----------------------------------------------------------------------------
(* The reference at e to what is at the offset off. *)
RefersAt(v, e, off) == Holds(v, e, EndianScalar(e - off, 4)) /\ off + 4 <= e

(* A reference stays one. *)
LEMMA RefersStays ==
  ASSUME NEW v, NEW w, v.size \in Nat, w.size \in Nat, Stays(v, w),
         NEW e \in Int, NEW off \in Int, RefersAt(v, e, off)
  PROVE  RefersAt(w, e, off)
<1>1. e - off \in Int /\ 4 \in Nat
  OBVIOUS
<1>2. Len(EndianScalar(e - off, 4)) \in Nat
  BY <1>1, ScalarBytes
<1>3. Holds(v, e, EndianScalar(e - off, 4)) /\ off + 4 <= e
  BY DEF RefersAt
<1>4. Holds(w, e, EndianScalar(e - off, 4))
  BY <1>2, <1>3, HoldsOn
<1> QED BY <1>3, <1>4 DEF RefersAt

(* The builders that b becomes when references to the first k of offs are  *)
(* written.                                                                *)
Referred(b_, d, offs, k) ==
  {c \in Grown(b_, d) :
     /\ k # 0 => 4 <= c.minalign_
     /\ b_.buf.size % 4 = 0 =>
          /\ c.buf.size = b_.buf.size + 4 * k
          /\ c.ok => \A j \in 1 .. k : RefersAt(c.buf, b_.buf.size + 4 * j, offs[j])}

(* One reference more is written. *)
LEMMA RefersOnce ==
  ASSUME NEW d \in 0 .. 3, NEW b_ \in Builders(d), NEW n \in Nat,
         NEW offs, \A i \in 1 .. n : offs[i] \in Int,
         NEW k \in 1 .. n, NEW c \in Referred(b_, d, offs, k - 1)
  PROVE  PushOffset(c, offs[k]) \in Referred(b_, d, offs, k)
<1> DEFINE off == offs[k]
           e == PushOffset(c, off)
           s == b_.buf.size
           t == c.buf.size
           u == e.buf.size
<1>1. c \in Grown(b_, d) /\ c \in Builders(d) /\ off \in Int
  BY DEF Referred, Grown
<1>2. s % 4 = 0 => /\ t = s + 4 * (k - 1)
                   /\ c.ok => \A j \in 1 .. k - 1 : RefersAt(c.buf, s + 4 * j, offs[j])
  BY DEF Referred
<1> HIDE DEF off
<1>3. /\ e \in Grown(c, d) /\ u = t + PaddingBytes(t, 4) + 4 /\ 4 <= e.minalign_
      /\ Holds(e.buf, u, EndianScalar(u - off, 4))
      /\ e.ok => off # 0 /\ off + 4 <= u
  <2>1. LET c_ == PushOffset(c, off)
        IN /\ c_ \in Grown(c, d)
           /\ c_.buf.size = c.buf.size + PaddingBytes(c.buf.size, 4) + 4
           /\ c_.buf.size % 4 = 0 /\ 4 <= c_.minalign_
           /\ 4 <= c.minalign_ => c_.minalign_ = c.minalign_
           /\ Holds(c_.buf, c_.buf.size, EndianScalar(c_.buf.size - off, 4))
           /\ c_.ok => off # 0 /\ off + 4 <= c_.buf.size
    BY <1>1, PushesOffset
  <2> QED BY <2>1, Zenon
<1> HIDE DEF e
<1>4. e \in Grown(b_, d)
  BY <1>1, <1>3, GrownOn
<1>5. e \in Builders(d) /\ SameFlags(c, e) /\ Stays(c.buf, e.buf)
  BY <1>3 DEF Grown
<1>6. s \in Nat /\ t \in Nat /\ u \in Nat
  BY <1>1, <1>5, BuilderNumbers
<1>7. ASSUME s % 4 = 0 PROVE u = s + 4 * k
  <2>1. t = s + 4 * (k - 1)
    BY <1>2, <1>7
  <2> HIDE DEF s, t, u
  <2>2. t % 4 = 0
    BY <1>6, <1>7, <2>1
  <2>3. PaddingBytes(t, 4) = 0
    <3>1. t \in Int /\ 4 \in Alignments
      BY <1>6 DEF Alignments
    <3> QED BY <2>2, <3>1, PaddingExact
  <2>4. u = t + 4
    BY <1>3, <1>6, <2>3
  <2> QED BY <1>6, <2>1, <2>4
<1>8. ASSUME s % 4 = 0, e.ok, NEW j \in 1 .. k PROVE RefersAt(e.buf, s + 4 * j, offs[j])
  <2>1. CASE j = k
    <3>1. Holds(e.buf, u, EndianScalar(u - off, 4)) /\ off + 4 <= u
      BY <1>3, <1>8
    <3>2. RefersAt(e.buf, u, off)
      BY <3>1 DEF RefersAt
    <3>3. u = s + 4 * j /\ off = offs[j]
      BY <1>7, <1>8, <2>1 DEF off
    <3> QED BY <3>2, <3>3
  <2>2. CASE j # k
    <3>1. j \in 1 .. k - 1 /\ c.ok
      BY <1>5, <1>8, <2>2 DEF SameFlags
    <3>2. RefersAt(c.buf, s + 4 * j, offs[j])
      BY <1>2, <1>8, <3>1
    <3> DEFINE p == s + 4 * j
               x == offs[j]
    <3>3. p \in Int /\ x \in Int /\ c.buf.size \in Nat /\ e.buf.size \in Nat /\ RefersAt(c.buf, p, x)
      BY <1>6, <3>2
    <3> HIDE DEF p, x, s, t, u
    <3>4. RefersAt(e.buf, p, x)
      BY <1>5, <3>3, RefersStays
    <3> QED BY <3>4 DEF p, x
  <2> QED BY <2>1, <2>2
<1> HIDE DEF u
<1>9. s % 4 = 0 => /\ e.buf.size = s + 4 * k
                   /\ e.ok => \A j \in 1 .. k : RefersAt(e.buf, s + 4 * j, offs[j])
  BY <1>7, <1>8 DEF u
<1> HIDE DEF s
<1>10. e \in Referred(b_, d, offs, k)
  BY <1>3, <1>4, <1>9 DEF Referred, s
<1> QED BY <1>10 DEF e, off

(* References written one after the other. *)
LEMMA FoldsReferences ==
  ASSUME NEW d \in 0 .. 3, NEW b_ \in Builders(d), NEW n \in Nat,
         NEW offs, \A i \in 1 .. n : offs[i] \in Int,
         NEW g, g[{}] = b_,
         \A s \in SUBSET (1 .. n) : s # {} /\ g[s \ {Max(s)}] \in Grown(b_, d)
                                      => g[s] = PushOffset(g[s \ {Max(s)}], offs[Max(s)])
  PROVE  g[1 .. n] \in Referred(b_, d, offs, n)
<1> DEFINE C == [k \in 0 .. n |-> Referred(b_, d, offs, k)]
<1>1. g[{}] \in C[0]
  <2>1. b_ \in Grown(b_, d) /\ b_.buf.size \in Nat
    BY Unchanged, BuilderNumbers
  <2>2. b_.buf.size = b_.buf.size + 4 * 0 /\ 0 \in 0 .. n /\ \A j \in 1 .. 0 : FALSE
    BY <2>1
  <2>3. b_ \in Referred(b_, d, offs, 0)
    BY <2>1, <2>2 DEF Referred
  <2> QED BY <2>2, <2>3
<1>2. ASSUME NEW s \in SUBSET (1 .. n), NEW k \in 1 .. n,
             s # {}, Max(s) = k, g[s \ {Max(s)}] \in C[k - 1]
      PROVE  g[s] \in C[k]
  <2>1. k - 1 \in 0 .. n /\ k \in 0 .. n
    OBVIOUS
  <2> DEFINE c == g[s \ {Max(s)}]
  <2>2. c \in Referred(b_, d, offs, k - 1)
    BY <1>2, <2>1
  <2>3. c \in Grown(b_, d)
    BY <2>2 DEF Referred
  <2>4. g[s] = PushOffset(c, offs[k])
    BY <1>2, <2>3
  <2> HIDE DEF c
  <2>5. PushOffset(c, offs[k]) \in Referred(b_, d, offs, k)
    BY <2>2, RefersOnce
  <2> QED BY <2>1, <2>4, <2>5
<1> HIDE DEF C
<1>3. g[1 .. n] \in C[n]
  BY <1>1, <1>2, FoldCounts
<1>4. n \in 0 .. n
  OBVIOUS
<1> QED BY <1>3, <1>4 DEF C

(* References to the offsets of a sequence. *)
LEMMA FoldsOffsets ==
  ASSUME NEW d \in 0 .. 3, NEW base \in Builders(d), NEW n \in Nat,
         NEW seq, DOMAIN seq = 1 .. n, \A i \in 1 .. n : seq[i] \in Int
  PROVE  FoldLeft(PushOffset, base, seq) \in Referred(base, d, seq, n)
<1> DEFINE B == Grown(base, d)
           refer(c, off) == PushOffset(c, off)
           iter == CHOOSE f : f = [s \in SUBSET (DOMAIN seq) |->
                     IF s = {} THEN base ELSE refer(f[s \ {Max(s)}], seq[Max(s)])]
           step == [i \in 1 .. n |-> [c \in B |-> refer(c, seq[i])]]
<1>1. FoldLeft(PushOffset, base, seq) = iter[DOMAIN seq]
  BY DEF FoldLeft, MapThenFoldSet
<1>2. ASSUME NEW i \in 1 .. n, NEW c \in B PROVE refer(c, seq[i]) \in B
  <2>1. c \in Builders(d) /\ seq[i] \in Int
    BY DEF Grown
  <2>2. refer(c, seq[i]) \in Grown(c, d)
    BY <2>1, PushesOffset
  <2> HIDE DEF refer
  <2> QED BY <2>2, GrownOn
<1>0. base \in B
  BY Unchanged
<1> HIDE DEF B, refer
<1>3. step \in [1 .. n -> [B -> B]]
  BY <1>2
<1>4. PICK g \in [SUBSET (1 .. n) -> B] : FoldOf(g, n, base, step)
  <2> HIDE DEF step
  <2> QED BY <1>0, <1>3, FoldExists
<1>5. g = [s \in SUBSET (DOMAIN seq) |->
             IF s = {} THEN base ELSE refer(g[s \ {Max(s)}], seq[Max(s)])]
  <2>1. ASSUME NEW s \in SUBSET (1 .. n), s # {}
        PROVE  step[Max(s)][g[s \ {Max(s)}]] = refer(g[s \ {Max(s)}], seq[Max(s)])
    <3>1. Max(s) \in 1 .. n /\ s \ {Max(s)} \in SUBSET (1 .. n)
      BY <2>1, LargestIndex
    <3>2. g[s \ {Max(s)}] \in B
      BY <3>1
    <3> QED BY <3>1, <3>2
  <2> HIDE DEF step
  <2> QED BY <1>4, <2>1 DEF FoldOf
<1> HIDE DEF step
<1>6. iter = [s \in SUBSET (DOMAIN seq) |->
                IF s = {} THEN base ELSE refer(iter[s \ {Max(s)}], seq[Max(s)])]
  BY <1>5
<1> HIDE DEF iter
<1>7. iter[{}] = base
  BY <1>6
<1>8. \A s \in SUBSET (1 .. n) : s # {} /\ iter[s \ {Max(s)}] \in Grown(base, d)
                                   => iter[s] = PushOffset(iter[s \ {Max(s)}], seq[Max(s)])
  BY <1>6 DEF refer
<1>9. iter[1 .. n] \in Referred(base, d, seq, n)
  BY <1>7, <1>8, FoldsReferences
<1> QED BY <1>1, <1>9

(* The vector of references to offs at the offset o. *)
OffsetsAt(v, o, offs, n) ==
  /\ n <= o /\ Holds(v, o, EndianScalar(n, 4))
  /\ \A i \in 1 .. n : RefersAt(v, o - 4 - 4 * (i - 1), offs[i])

(* The builder c is b with more serialized, whatever the scratch pad is.   *)
Behind(b_, c) ==
  SameFlags(b_, c) /\ b_.minalign_ <= c.minalign_ /\ Stays(b_.buf, c.buf)

(* What is behind is behind all that was before. *)
LEMMA BehindOn ==
  ASSUME NEW d, NEW b_ \in Builders(d), NEW c \in Builders(d), NEW e \in Builders(d),
         Behind(b_, c), Behind(c, e)
  PROVE  Behind(b_, e)
<1>1. SameFlags(b_, e)
  BY DEF Behind, SameFlags
<1>2. b_.minalign_ <= e.minalign_
  <2> DEFINE x == b_.minalign_
             y == c.minalign_
             z == e.minalign_
  <2>1. x \in Nat /\ y \in Nat /\ z \in Nat /\ x <= y /\ y <= z
    BY BuilderNumbers DEF Behind
  <2> HIDE DEF x, y, z
  <2>2. x <= z
    BY <2>1
  <2> QED BY <2>2 DEF x, z
<1>3. Stays(b_.buf, e.buf)
  <2>1. b_.buf.size \in Nat /\ c.buf.size \in Nat /\ e.buf.size \in Nat
    BY BuilderNumbers
  <2> QED BY <2>1, StaysOn DEF Behind
<1> QED BY <1>1, <1>2, <1>3 DEF Behind

(* EndVector behind references that were written from the last to the      *)
(* first.                                                                  *)
LEMMA EndsReferences ==
  ASSUME NEW d \in 0 .. 3, NEW b_ \in Idlers(d), NEW n \in Nat, NEW c \in Idlers(d),
         Behind(b_, c), c.string_pool = b_.string_pool, n # 0 => c.buf.size % 4 = 0,
         NEW offs, NEW seq, \A i \in 1 .. n : offs[i] \in Int /\ seq[n - i + 1] = offs[i],
         NEW e \in Referred(c, d, seq, n),
         NEW k \in Idlers(d), k.string_pool = e.string_pool, SameFlags(e, k), SameMinAlign(e, k),
         SameScratch(b_.buf, k.buf), Stays(e.buf, k.buf), k.buf.size = e.buf.size
  PROVE  LET r == EndVector(k, n)
         IN /\ Written(b_, r, d)
            /\ r.b.ok => OffsetsAt(r.b.buf, r.o, offs, n)
<1> DEFINE r == EndVector(k, n)
           s == c.buf.size
           t == k.buf.size
           o == r.o
<1>1. /\ Written(k, r, d) /\ r.b.nested = FALSE
      /\ t + 4 <= o /\ (t % 4 = 0 => o = t + 4)
      /\ Holds(r.b.buf, o, EndianScalar(n, 4))
  <2>1. n \in Int
    OBVIOUS
  <2> QED BY <2>1, EndsVector
<1> HIDE DEF r
<1>2. /\ e \in Grown(c, d)
      /\ s % 4 = 0 =>
          /\ e.buf.size = s + 4 * n
          /\ e.ok => \A j \in 1 .. n : RefersAt(e.buf, s + 4 * j, seq[j])
  BY DEF Referred
<1>3. /\ e \in Follows(c, d) /\ e \in Builders(d) /\ e \in Idlers(d) /\ c \in Builders(d)
      /\ e.string_pool = c.string_pool /\ b_ \in Builders(d) /\ k \in Builders(d)
  BY <1>2, GrownIdles DEF Idlers
<1>4. Behind(b_, e)
  <2>1. Behind(c, e)
    BY <1>3 DEF Follows, Behind
  <2> QED BY <1>3, <2>1, BehindOn
<1>5. /\ s \in Nat /\ t \in Nat /\ e.buf.size = t /\ b_.buf.size \in Nat
      /\ b_.minalign_ \in Nat /\ e.minalign_ \in Nat /\ k.minalign_ \in Nat
  BY <1>3, BuilderNumbers
<1>6. k \in Follows(b_, d)
  <2>1. SameFlags(b_, e) /\ b_.minalign_ <= e.minalign_ /\ Stays(b_.buf, e.buf)
    BY <1>4 DEF Behind
  <2>2. SameFlags(b_, k)
    BY <2>1 DEF SameFlags
  <2>3. b_.minalign_ <= k.minalign_
    BY <2>1 DEF SameMinAlign
  <2>4. Stays(b_.buf, k.buf)
    <3>1. b_.buf.size \in Nat /\ e.buf.size \in Nat /\ k.buf.size \in Nat
      BY <1>5
    <3> QED BY <2>1, <3>1, StaysOn
  <2> QED BY <2>2, <2>3, <2>4 DEF Follows
<1>7. /\ r.b \in Follows(k, d) /\ r.b \in Builders(d) /\ SameFlags(k, r.b) /\ Stays(k.buf, r.b.buf)
      /\ r.b.string_pool = k.string_pool /\ o \in Nat /\ o % 4 = 0
      /\ 4 <= o /\ o <= r.b.buf.size /\ 4 <= r.b.minalign_
  BY <1>1 DEF Written, Follows, Idlers
<1>8. Written(b_, r, d)
  <2>1. r.b \in Follows(b_, d)
    BY <1>6, <1>7, FollowsOn
  <2> QED BY <1>1, <1>3, <1>7, <2>1 DEF Written
<1>9. ASSUME r.b.ok PROVE OffsetsAt(r.b.buf, o, offs, n)
  <2>1. e.ok
    BY <1>7, <1>9 DEF SameFlags
  <2>2. CASE n = 0
    <3>1. n <= o /\ \A i \in 1 .. n : FALSE
      BY <1>7, <2>2
    <3> QED BY <1>1, <3>1 DEF OffsetsAt
  <2>3. CASE n # 0
    <3>1. t = s + 4 * n /\ s % 4 = 0 /\ \A j \in 1 .. n : RefersAt(e.buf, s + 4 * j, seq[j])
      BY <1>2, <1>5, <2>1, <2>3
    <3>2. o = t + 4 /\ n <= o
      <4> HIDE DEF s, t, o
      <4>1. t % 4 = 0
        BY <1>5, <3>1
      <4>2. o = t + 4
        BY <1>1, <4>1
      <4> QED BY <1>5, <3>1, <4>2
    <3>3. ASSUME NEW i \in 1 .. n PROVE RefersAt(r.b.buf, o - 4 - 4 * (i - 1), offs[i])
      <4> DEFINE j == n - i + 1
                 p == s + 4 * j
                 x == offs[i]
      <4>1. j \in 1 .. n /\ seq[j] = x /\ x \in Int
        OBVIOUS
      <4>2. RefersAt(e.buf, p, x)
        BY <3>1, <4>1
      <4>3. o - 4 - 4 * (i - 1) = p /\ p \in Int
        <5> HIDE DEF s, t, o
        <5> QED BY <1>5, <3>1, <3>2
      <4> HIDE DEF p, x, o
      <4>4. e.buf.size \in Nat /\ k.buf.size \in Nat /\ r.b.buf.size \in Nat
        BY <1>3, <1>7, BuilderNumbers
      <4>5. RefersAt(k.buf, p, x)
        BY <4>1, <4>2, <4>3, <4>4, RefersStays
      <4>6. RefersAt(r.b.buf, p, x)
        BY <1>7, <4>1, <4>3, <4>4, <4>5, RefersStays
      <4> QED BY <4>3, <4>6 DEF x
    <3> HIDE DEF o
    <3> QED BY <1>1, <3>2, <3>3 DEF OffsetsAt
  <2> QED BY <2>2, <2>3
<1> QED BY <1>8, <1>9 DEF r, o

(* CreateVector of offsets, written from the last to the first. *)
LEMMA CreatesVectorOfOffsets ==
  ASSUME NEW d \in 0 .. 3, NEW b_ \in Idlers(d), NEW offsets \in Seq(Nat)
  PROVE  LET r == CreateVectorOfOffsets(b_, offsets)
         IN /\ Written(b_, r, d)
            /\ r.b.ok => OffsetsAt(r.b.buf, r.o, offsets, Len(offsets))
<1> DEFINE n == Len(offsets)
           c == StartVector(b_, n, 4, 4)
           seq == Reverse(offsets)
           e == FoldLeft(PushOffset, c, seq)
<1>1. /\ n \in Nat /\ n \in Int /\ 4 \in Int /\ 4 \in Alignments
      /\ \A i \in 1 .. n : offsets[i] \in Nat
  BY LenProperties DEF Alignments
<1>2. /\ c \in Follows(b_, d) /\ c \in Idlers(d) /\ c \in Builders(d)
      /\ c.string_pool = b_.string_pool
      /\ n * 4 # 0 => (c.buf.size + n * 4) % 4 = 0
  <2> HIDE DEF n
  <2>1. LET c_ == StartVector(b_, n, 4, 4)
            x_ == n * 4
        IN /\ c_ \in Follows(b_, d) /\ c_ \in Idlers(d) /\ c_ \in Builders(d)
           /\ c_.buf.scratch = b_.buf.scratch /\ c_.string_pool = b_.string_pool
           /\ x_ # 0 => /\ (c_.buf.size + x_) % 4 = 0 /\ (c_.buf.size + x_) % 4 = 0
                        /\ 4 <= c_.minalign_
    BY <1>1, StartsVector
  <2> QED BY <2>1, Zenon
<1>3. /\ DOMAIN seq = 1 .. n /\ \A i \in 1 .. n : seq[i] \in Int
      /\ \A i \in 1 .. n : seq[n - i + 1] = offsets[i]
  <2>1. seq = [i \in 1 .. n |-> offsets[(n - i) + 1]]
    BY DEF Reverse
  <2>2. \A i \in 1 .. n : (n - i) + 1 \in 1 .. n
    BY <1>1
  <2>3. \A i \in 1 .. n : (n - (n - i + 1)) + 1 = i
    BY <1>1
  <2> HIDE DEF n, seq
  <2> QED BY <1>1, <2>1, <2>2, <2>3
<1>4. CreateVectorOfOffsets(b_, offsets) = EndVector(e, n)
  BY DEF CreateVectorOfOffsets, uoffset_t, Scalar
<1> HIDE DEF n, c, seq
<1>5. e \in Referred(c, d, seq, n)
  BY <1>1, <1>2, <1>3, FoldsOffsets
<1> HIDE DEF e
<1>6. /\ e \in Idlers(d) /\ e \in Follows(c, d) /\ e \in Builders(d)
      /\ e.string_pool = c.string_pool
  <2>1. e \in Grown(c, d)
    BY <1>5 DEF Referred
  <2> QED BY <1>2, <2>1, GrownIdles
<1>7. n # 0 => c.buf.size % 4 = 0
  <2> DEFINE s == c.buf.size
  <2>1. s \in Nat /\ (n * 4 # 0 => (s + n * 4) % 4 = 0)
    BY <1>2, BuilderNumbers
  <2> HIDE DEF s
  <2>2. n # 0 => s % 4 = 0
    BY <1>1, <2>1
  <2> QED BY <2>2 DEF s
<1>8. SameScratch(b_.buf, e.buf) /\ SameFlags(e, e) /\ SameMinAlign(e, e) /\ Stays(e.buf, e.buf)
  <2>1. e \in Follows(b_, d)
    BY <1>2, <1>6, FollowsOn
  <2>2. e.buf.size \in Nat
    BY <1>6, BuilderNumbers
  <2>3. Stays(e.buf, e.buf)
    BY <2>2, StaysSelf
  <2>4. SameScratch(b_.buf, e.buf)
    BY <2>1 DEF Follows
  <2> QED BY <2>3, <2>4 DEF SameFlags, SameMinAlign
<1>9. LET r == EndVector(e, n)
      IN Written(b_, r, d) /\ (r.b.ok => OffsetsAt(r.b.buf, r.o, offsets, n))
  <2>1. \A i \in 1 .. n : offsets[i] \in Int /\ seq[n - i + 1] = offsets[i]
    BY <1>1, <1>3
  <2>2. Behind(b_, c)
    BY <1>2 DEF Follows, Behind
  <2> QED BY <1>1, <1>2, <1>5, <1>6, <1>7, <1>8, <2>1, <2>2, EndsReferences
<1> QED BY <1>4, <1>9 DEF n

-----------------------------------------------------------------------------
(* The string s has been written, and the scratch pad holds its offset at  *)
(* the address a.                                                          *)
KeptAt(v, a, s) ==
  LET x == ReadScalar(v.mem, a, uoffset_t)
  IN x \in Nat /\ x % 4 = 0 /\ 4 <= x /\ TextAt(v, x, s)

(* It stays so while the scratch pad up to there does. *)
LEMMA KeptStays ==
  ASSUME NEW v, NEW w, v.size \in Nat, w.size \in Nat, Stays(v, w),
         NEW a \in Nat, NEW base \in Nat, a + 4 <= base, SameBelow(v, w, base),
         NEW s \in Seq(Byte), KeptAt(v, a, s)
  PROVE  KeptAt(w, a, s)
<1>1. SameBelow(v, w, a + 4)
  BY DEF SameBelow
<1>2. ReadScalar(w.mem, a, uoffset_t) = ReadScalar(v.mem, a, uoffset_t)
  BY <1>1, OffsetSame
<1> DEFINE x == ReadScalar(v.mem, a, uoffset_t)
<1>3. x \in Nat /\ x % 4 = 0 /\ 4 <= x /\ TextAt(v, x, s)
  BY DEF KeptAt
<1> HIDE DEF x
<1>4. TextAt(w, x, s)
  BY <1>3, TextStays
<1> QED BY <1>2, <1>3, <1>4 DEF KeptAt, x

(* The builders that b becomes when the first k of the strings are written *)
(* and their offsets kept.                                                 *)
Keeping(b_, d, strings, k) ==
  {c \in Idlers(d) :
     /\ Behind(b_, c) /\ c.nested = b_.nested /\ c.string_pool = b_.string_pool
     /\ c.buf.scratch = b_.buf.scratch + 4 * k
     /\ SameBelow(b_.buf, c.buf, b_.buf.scratch)
     /\ c.buf.size <= FLATBUFFERS_MAX_BUFFER_SIZE =>
          \A j \in 1 .. k : KeptAt(c.buf, b_.buf.scratch + 4 * (j - 1), strings[j])}

(* A string is written and its offset kept. *)
LEMMA KeepsString ==
  ASSUME NEW d \in 0 .. 3, NEW b_ \in Idlers(d), NEW n \in Nat,
         NEW strings, \A i \in 1 .. n : strings[i] \in Seq(Byte),
         NEW k \in 1 .. n, NEW c \in Keeping(b_, d, strings, k - 1)
  PROVE  KeepOffset(CreateString(c, strings[k])) \in Keeping(b_, d, strings, k)
<1> DEFINE s == strings[k]
           new == CreateString(c, s)
           e == new.b
           off == new.o
           f == [e EXCEPT !.buf = scratch_push_small(@, EndianScalar(off, 4))]
           low == b_.buf.scratch
           top == c.buf.scratch
<1>1. /\ c \in Idlers(d) /\ c \in Builders(d) /\ s \in Seq(Byte) /\ b_ \in Builders(d)
      /\ Behind(b_, c) /\ c.nested = b_.nested /\ c.string_pool = b_.string_pool
      /\ top = low + 4 * (k - 1) /\ SameBelow(b_.buf, c.buf, low)
      /\ c.buf.size <= FLATBUFFERS_MAX_BUFFER_SIZE =>
           \A j \in 1 .. k - 1 : KeptAt(c.buf, low + 4 * (j - 1), strings[j])
  BY DEF Keeping, Idlers
<1>2. /\ e \in Grown(c, d) /\ off = e.buf.size /\ off \in Nat
      /\ off % 4 = 0 /\ 4 <= off /\ TextAt(e.buf, off, s)
  <2> HIDE DEF s
  <2>1. LET r == CreateString(c, s)
        IN /\ r = [b |-> r.b, o |-> r.o]
           /\ r.b \in Grown(c, d) /\ r.o = r.b.buf.size /\ r.o \in Nat
           /\ r.o % 4 = 0 /\ 4 <= r.o /\ 4 <= r.b.minalign_
           /\ TextAt(r.b.buf, r.o, s)
    BY <1>1, CreatesString
  <2> QED BY <2>1, Zenon
<1>3. KeepOffset(new) = f
  BY DEF KeepOffset, uoffset_t, Scalar
<1> HIDE DEF new, e, off, s
<1>4. /\ e \in Idlers(d) /\ e \in Builders(d) /\ e \in Follows(c, d) /\ e.num_field_loc = 0
      /\ e.buf.scratch = top /\ e.nested = c.nested /\ e.string_pool = c.string_pool
  BY <1>1, <1>2, GrownIdles DEF Idlers
<1>5. /\ f \in Builders(d) /\ f.nested = e.nested /\ f.num_field_loc = 0
      /\ f.string_pool = e.string_pool /\ SameFlags(e, f) /\ SameMinAlign(e, f)
      /\ f.buf.size = e.buf.size /\ f.buf.scratch = e.buf.scratch + 4
      /\ Stays(e.buf, f.buf) /\ SameBelow(e.buf, f.buf, e.buf.scratch)
      /\ off \in Values(4) => ReadScalar(f.buf.mem, e.buf.scratch, uoffset_t) = off
  <2>1. off \in Int
    BY <1>2
  <2>2. LET c_ == [e EXCEPT !.buf = scratch_push_small(@, EndianScalar(off, 4))]
        IN /\ c_ \in Builders(d)
           /\ c_.nested = e.nested /\ c_.num_field_loc = 0 /\ c_.string_pool = e.string_pool
           /\ c_.max_voffset_ = e.max_voffset_ /\ SameFlags(e, c_) /\ SameMinAlign(e, c_)
           /\ c_.buf.size = e.buf.size /\ c_.buf.scratch = e.buf.scratch + 4
           /\ Stays(e.buf, c_.buf)
           /\ SameBelow(e.buf, c_.buf, e.buf.scratch)
           /\ off \in Values(4) => ReadScalar(c_.buf.mem, e.buf.scratch, uoffset_t) = off
    BY <1>4, <2>1, KeepsOffset
  <2> QED BY <2>2, Zenon
<1> HIDE DEF f
<1>6. f \in Idlers(d)
  BY <1>5 DEF Idlers
<1>7. /\ low \in Nat /\ top \in Nat /\ c.buf.size \in Nat /\ e.buf.size \in Nat /\ f.buf.size \in Nat
      /\ e.minalign_ \in Nat
  BY <1>1, <1>4, <1>5, BuilderNumbers
<1>8. Behind(c, e) /\ Behind(e, f)
  <2>1. Behind(c, e)
    BY <1>4 DEF Follows, Behind
  <2>2. Behind(e, f)
    BY <1>5, <1>7 DEF SameMinAlign, Behind
  <2> QED BY <2>1, <2>2
<1>9. Behind(b_, f)
  <2>1. Behind(b_, e)
    BY <1>1, <1>4, <1>8, BehindOn
  <2> QED BY <1>1, <1>4, <1>5, <1>8, <2>1, BehindOn
<1>10. SameBelow(c.buf, f.buf, top)
  <2>1. \A a \in 0 .. top - 1 : e.buf.mem[a] = c.buf.mem[a]
    BY <1>4 DEF Follows, SameScratch
  <2>2. \A a \in 0 .. top - 1 : f.buf.mem[a] = e.buf.mem[a]
    BY <1>4, <1>5 DEF SameBelow
  <2> QED BY <2>1, <2>2 DEF SameBelow
<1>11. SameBelow(b_.buf, f.buf, low) /\ f.buf.scratch = low + 4 * k
  <2> HIDE DEF low, top
  <2>1. low <= top
    BY <1>1, <1>7
  <2>2. \A a \in 0 .. low - 1 : a \in 0 .. top - 1
    BY <1>7, <2>1
  <2>3. f.buf.scratch = low + 4 * k
    BY <1>1, <1>4, <1>5, <1>7
  <2> QED BY <1>1, <1>10, <2>2, <2>3 DEF SameBelow
<1>12. ASSUME f.buf.size <= FLATBUFFERS_MAX_BUFFER_SIZE, NEW j \in 1 .. k
       PROVE  KeptAt(f.buf, low + 4 * (j - 1), strings[j])
  <2>1. CASE j = k
    <3>1. off \in Values(4)
      <4>1. off \in Nat /\ off <= FLATBUFFERS_MAX_BUFFER_SIZE
        BY <1>2, <1>5, <1>12
      <4> QED BY <4>1, SmallSizes
    <3>2. ReadScalar(f.buf.mem, top, uoffset_t) = off
      BY <1>4, <1>5, <3>1
    <3>3. TextAt(f.buf, off, s)
      <4>1. off \in Int
        BY <1>2
      <4> QED BY <1>1, <1>2, <1>5, <1>7, <4>1, TextStays
    <3>4. KeptAt(f.buf, top, s)
      BY <1>2, <3>2, <3>3 DEF KeptAt
    <3>5. top = low + 4 * (j - 1) /\ s = strings[j]
      BY <1>1, <2>1 DEF s
    <3> QED BY <3>4, <3>5
  <2>2. CASE j # k
    <3> DEFINE a == low + 4 * (j - 1)
               y == strings[j]
    <3>1. j \in 1 .. k - 1
      BY <2>2
    <3>2. a \in Nat /\ a + 4 <= top
      <4> HIDE DEF low, top
      <4> QED BY <1>1, <1>7, <3>1
    <3>3. c.buf.size <= FLATBUFFERS_MAX_BUFFER_SIZE
      <4> DEFINE p == c.buf.size
                 q == e.buf.size
                 M == FLATBUFFERS_MAX_BUFFER_SIZE
      <4>1. p <= q /\ q <= M /\ p \in Nat /\ q \in Nat /\ M \in Nat
        BY <1>5, <1>7, <1>8, <1>12, SmallSizes DEF Behind, Stays
      <4> HIDE DEF p, q, M
      <4>2. p <= M
        BY <4>1
      <4> QED BY <4>2 DEF p, M
    <3>4. KeptAt(c.buf, a, y) /\ y \in Seq(Byte)
      BY <1>1, <3>1, <3>3
    <3>5. Stays(c.buf, f.buf)
      BY <1>7, <1>8, StaysOn DEF Behind
    <3> HIDE DEF a, y, low, top
    <3>6. KeptAt(f.buf, a, y)
      BY <1>7, <1>10, <3>2, <3>4, <3>5, KeptStays
    <3> QED BY <3>6 DEF a, y
  <2> QED BY <2>1, <2>2
<1>13. f \in Keeping(b_, d, strings, k)
  <2>1. f.nested = b_.nested /\ f.string_pool = b_.string_pool
    BY <1>1, <1>4, <1>5
  <2> QED BY <1>6, <1>9, <1>11, <1>12, <2>1 DEF Keeping
<1> QED BY <1>3, <1>13 DEF s, new

(* All the strings of a vector, one after the other. *)
LEMMA FoldsStrings ==
  ASSUME NEW d \in 0 .. 3, NEW base \in Idlers(d), NEW n \in Nat,
         NEW strings, DOMAIN strings = 1 .. n, \A i \in 1 .. n : strings[i] \in Seq(Byte)
  PROVE  FoldLeft(LAMBDA x, s : KeepOffset(CreateString(x, s)), base, strings)
           \in Keeping(base, d, strings, n)
<1> DEFINE B == Idlers(d)
           keep(c, s) == KeepOffset(CreateString(c, s))
           iter == CHOOSE f : f = [s \in SUBSET (DOMAIN strings) |->
                     IF s = {} THEN base ELSE keep(f[s \ {Max(s)}], strings[Max(s)])]
           step == [i \in 1 .. n |-> [c \in B |-> keep(c, strings[i])]]
           C == [k \in 0 .. n |-> Keeping(base, d, strings, k)]
<1>1. FoldLeft(LAMBDA x, s : KeepOffset(CreateString(x, s)), base, strings) = iter[DOMAIN strings]
  BY DEF FoldLeft, MapThenFoldSet
<1>0. \A c \in B : c \in Keeping(c, d, strings, 0)
  <2>1. ASSUME NEW c \in Idlers(d) PROVE c \in Keeping(c, d, strings, 0)
    <3>1. c \in Builders(d)
      BY DEF Idlers
    <3>2. c.buf.size \in Nat /\ c.buf.scratch \in Nat /\ c.minalign_ \in Nat
      BY <3>1, BuilderNumbers
    <3>3. Behind(c, c)
      <4>1. Stays(c.buf, c.buf)
        BY <3>2, StaysSelf
      <4> QED BY <3>2, <4>1 DEF Behind, SameFlags
    <3>4. c.buf.scratch = c.buf.scratch + 4 * 0 /\ \A j \in 1 .. 0 : FALSE
      BY <3>2
    <3>5. SameBelow(c.buf, c.buf, c.buf.scratch)
      BY DEF SameBelow
    <3> QED BY <3>3, <3>4, <3>5 DEF Keeping
  <2> QED BY <2>1
<1>2. ASSUME NEW i \in 1 .. n, NEW c \in B PROVE keep(c, strings[i]) \in B
  <2> DEFINE one == [j \in 1 .. 1 |-> strings[i]]
  <2>1. c \in Keeping(c, d, one, 1 - 1)
    <3>1. c \in Keeping(c, d, strings, 0) /\ 1 - 1 = 0
      BY <1>0
    <3>2. \A j \in 1 .. 0 : FALSE
      OBVIOUS
    <3> HIDE DEF one
    <3> QED BY <3>1, <3>2 DEF Keeping
  <2>2. (\A j \in 1 .. 1 : one[j] \in Seq(Byte)) /\ one[1] = strings[i] /\ 1 \in 1 .. 1 /\ 1 \in Nat
    OBVIOUS
  <2> HIDE DEF one
  <2>3. KeepOffset(CreateString(c, one[1])) \in Keeping(c, d, one, 1)
    BY <2>1, <2>2, KeepsString
  <2> QED BY <2>2, <2>3 DEF Keeping
<1>3. base \in B /\ base \in Keeping(base, d, strings, 0)
  BY <1>0
<1> HIDE DEF B
<1>4. step \in [1 .. n -> [B -> B]]
  BY <1>2
<1>5. PICK g \in [SUBSET (1 .. n) -> B] : FoldOf(g, n, base, step)
  <2> HIDE DEF step
  <2> QED BY <1>3, <1>4, FoldExists
<1>6. g = [s \in SUBSET (DOMAIN strings) |->
             IF s = {} THEN base ELSE keep(g[s \ {Max(s)}], strings[Max(s)])]
  <2>1. ASSUME NEW s \in SUBSET (1 .. n), s # {}
        PROVE  step[Max(s)][g[s \ {Max(s)}]] = keep(g[s \ {Max(s)}], strings[Max(s)])
    <3>1. Max(s) \in 1 .. n /\ s \ {Max(s)} \in SUBSET (1 .. n)
      BY <2>1, LargestIndex
    <3>2. g[s \ {Max(s)}] \in B
      BY <3>1
    <3> HIDE DEF keep
    <3> QED BY <3>1, <3>2
  <2> HIDE DEF step, keep
  <2> QED BY <1>5, <2>1 DEF FoldOf
<1> HIDE DEF step
<1>7. iter = [s \in SUBSET (DOMAIN strings) |->
                IF s = {} THEN base ELSE keep(iter[s \ {Max(s)}], strings[Max(s)])]
  <2> HIDE DEF keep
  <2> QED BY <1>6
<1> HIDE DEF iter
<1>8. iter[1 .. n] \in C[n]
  <2>1. iter[{}] \in C[0]
    <3>1. iter[{}] = base /\ 0 \in 0 .. n
      BY <1>7
    <3> QED BY <1>3, <3>1
  <2>2. ASSUME NEW s \in SUBSET (1 .. n), NEW k \in 1 .. n,
               s # {}, Max(s) = k, iter[s \ {Max(s)}] \in C[k - 1]
        PROVE  iter[s] \in C[k]
    <3> DEFINE c == iter[s \ {Max(s)}]
    <3>1. iter[s] = keep(c, strings[k])
      BY <1>7, <2>2
    <3>2. c \in Keeping(base, d, strings, k - 1) /\ k \in 0 .. n
      <4>1. k - 1 \in 0 .. n /\ k \in 0 .. n
        OBVIOUS
      <4> QED BY <2>2, <4>1
    <3> HIDE DEF c
    <3>3. keep(c, strings[k]) \in Keeping(base, d, strings, k)
      BY <3>2, KeepsString
    <3> HIDE DEF keep
    <3> QED BY <3>1, <3>2, <3>3
  <2> HIDE DEF C
  <2> QED BY <2>1, <2>2, FoldCounts
<1>9. n \in 0 .. n
  OBVIOUS
<1> QED BY <1>1, <1>8, <1>9

(* The references to what the last n offsets of the scratch pad name.      *)
LEMMA FoldsKept ==
  ASSUME NEW d \in 0 .. 3, NEW base \in Builders(d), NEW n \in Nat, n * 4 <= base.buf.scratch,
         NEW seq, seq = [i \in 1 .. n |-> ReadScalar(base.buf.mem, base.buf.scratch - i * 4, uoffset_t)]
  PROVE  LET refer(c, i) == PushOffset(c, ReadScalar(c.buf.mem, c.buf.scratch - i * 4, uoffset_t))
         IN /\ \A i \in 1 .. n : seq[i] \in Int
            /\ FoldLeft(refer, base, [i \in 1 .. n |-> i]) \in Referred(base, d, seq, n)
<1> DEFINE B == Grown(base, d)
           idx == [i \in 1 .. n |-> i]
           refer(c, i) == PushOffset(c, ReadScalar(c.buf.mem, c.buf.scratch - i * 4, uoffset_t))
           iter == CHOOSE f : f = [s \in SUBSET (DOMAIN idx) |->
                     IF s = {} THEN base ELSE refer(f[s \ {Max(s)}], idx[Max(s)])]
           step == [i \in 1 .. n |-> [c \in B |-> refer(c, idx[i])]]
<1>1. FoldLeft(refer, base, idx) = iter[DOMAIN idx] /\ DOMAIN idx = 1 .. n
  BY DEF FoldLeft, MapThenFoldSet
<1>2. base.buf.scratch \in Nat /\ base.buf.reserved \in Nat /\ base.buf.mem \in Memory(base.buf.reserved)
      /\ base.buf.scratch <= base.buf.reserved
  <2>1. base.buf \in Vectors(d)
    BY BuilderFields
  <2> QED BY <2>1, VectorFields
<1>3. ASSUME NEW i \in 1 .. n
      PROVE  base.buf.scratch - i * 4 \in Nat /\ base.buf.scratch - i * 4 + 4 <= base.buf.scratch
  <2> DEFINE x == base.buf.scratch
  <2>1. x \in Nat /\ n * 4 <= x
    BY <1>2
  <2> HIDE DEF x
  <2>2. x - i * 4 \in Nat /\ x - i * 4 + 4 <= x
    BY <2>1
  <2> QED BY <2>2 DEF x
<1>4. \A i \in 1 .. n : seq[i] \in Int
  <2>1. ASSUME NEW i \in 1 .. n PROVE seq[i] \in Int
    <3> DEFINE p == base.buf.scratch - i * 4
               x == base.buf.scratch
               y == base.buf.reserved
    <3>1. p \in Nat /\ p + 4 <= x /\ x <= y /\ x \in Nat /\ y \in Nat
      BY <1>2, <1>3
    <3>2. p + 4 <= y
      <4> HIDE DEF p, x, y
      <4> QED BY <3>1
    <3>3. seq[i] = ReadScalar(base.buf.mem, p, uoffset_t)
      OBVIOUS
    <3> HIDE DEF p
    <3> QED BY <1>2, <3>1, <3>2, <3>3, ReadsOffset
  <2> QED BY <2>1
<1>5. ASSUME NEW i \in 1 .. n, NEW c \in B PROVE refer(c, idx[i]) = PushOffset(c, seq[i])
  <2> DEFINE p == base.buf.scratch - i * 4
             x == base.buf.scratch
  <2>1. c.buf.scratch = x /\ \A a \in 0 .. x - 1 : c.buf.mem[a] = base.buf.mem[a]
    BY DEF Grown, SameScratch
  <2>2. p \in Nat /\ p + 4 <= x /\ x \in Nat
    BY <1>2, <1>3
  <2>3. idx[i] = i /\ seq[i] = ReadScalar(base.buf.mem, p, uoffset_t) /\ c.buf.scratch - i * 4 = p
    BY <2>1
  <2> HIDE DEF p, x
  <2>4. SameBelow(base.buf, c.buf, p + 4)
    BY <2>1, <2>2 DEF SameBelow
  <2>5. ReadScalar(c.buf.mem, p, uoffset_t) = ReadScalar(base.buf.mem, p, uoffset_t)
    BY <2>2, <2>4, OffsetSame
  <2> HIDE DEF idx
  <2> QED BY <2>3, <2>5
<1>6. ASSUME NEW i \in 1 .. n, NEW c \in B PROVE refer(c, idx[i]) \in B
  <2>1. c \in Builders(d) /\ seq[i] \in Int
    BY <1>4 DEF Grown
  <2>2. PushOffset(c, seq[i]) \in Grown(c, d)
    BY <2>1, PushesOffset
  <2>3. PushOffset(c, seq[i]) \in Grown(base, d)
    BY <2>2, GrownOn
  <2> HIDE DEF refer, idx
  <2> QED BY <1>5, <2>3
<1>7. base \in B
  BY Unchanged
<1> HIDE DEF B, refer, idx
<1>8. step \in [1 .. n -> [B -> B]]
  BY <1>6
<1>9. PICK g \in [SUBSET (1 .. n) -> B] : FoldOf(g, n, base, step)
  <2> HIDE DEF step
  <2> QED BY <1>7, <1>8, FoldExists
<1>10. g = [s \in SUBSET (DOMAIN idx) |->
             IF s = {} THEN base ELSE refer(g[s \ {Max(s)}], idx[Max(s)])]
  <2>1. ASSUME NEW s \in SUBSET (1 .. n), s # {}
        PROVE  step[Max(s)][g[s \ {Max(s)}]] = refer(g[s \ {Max(s)}], idx[Max(s)])
    <3>1. Max(s) \in 1 .. n /\ s \ {Max(s)} \in SUBSET (1 .. n)
      BY <2>1, LargestIndex
    <3>2. g[s \ {Max(s)}] \in B
      BY <3>1
    <3> QED BY <3>1, <3>2
  <2> HIDE DEF step
  <2> QED BY <1>1, <1>9, <2>1 DEF FoldOf
<1> HIDE DEF step
<1>11. iter = [s \in SUBSET (DOMAIN idx) |->
                IF s = {} THEN base ELSE refer(iter[s \ {Max(s)}], idx[Max(s)])]
  BY <1>10
<1> HIDE DEF iter
<1>12. iter[1 .. n] \in Referred(base, d, seq, n)
  <2>1. iter[{}] = base
    BY <1>1, <1>11
  <2>2. ASSUME NEW s \in SUBSET (1 .. n), s # {}, iter[s \ {Max(s)}] \in Grown(base, d)
        PROVE  iter[s] = PushOffset(iter[s \ {Max(s)}], seq[Max(s)])
    <3>1. Max(s) \in 1 .. n
      BY <2>2, LargestIndex
    <3>2. iter[s] = refer(iter[s \ {Max(s)}], idx[Max(s)])
      BY <1>1, <1>11, <2>2
    <3> QED BY <1>5, <2>2, <3>1, <3>2 DEF B
  <2> QED BY <1>4, <2>1, <2>2, FoldsReferences
<1> QED BY <1>1, <1>4, <1>12 DEF refer, idx

(* Offsets taken off the scratch pad, as many as are there.                *)
LEMMA DropsOffsets ==
  ASSUME NEW d, NEW b_ \in Idlers(d), NEW n \in Nat, n * 4 <= b_.buf.scratch
  PROVE  LET k == [b_ EXCEPT !.buf = scratch_pop(@, n * 4)]
         IN /\ k \in Idlers(d) /\ k.string_pool = b_.string_pool
            /\ SameFlags(b_, k) /\ SameMinAlign(b_, k)
            /\ k.buf.size = b_.buf.size /\ k.buf.mem = b_.buf.mem
            /\ k.buf.scratch = b_.buf.scratch - n * 4 /\ Stays(b_.buf, k.buf)
<1> DEFINE v == b_.buf
           w == scratch_pop(v, n * 4)
           c == [b_ EXCEPT !.buf = w]
<1>1. /\ v \in Vectors(d) /\ b_ = [f \in BuilderNames |-> b_[f]] /\ b_ \in Builders(d)
      /\ LocsFit(v, 0, b_.max_voffset_) /\ v.scratch \in Nat /\ Clean(v) /\ v.size \in Nat
  BY BuilderFields, VectorFields DEF Idlers
<1>2. /\ w \in Vectors(d) /\ w.scratch = v.scratch - n * 4 /\ w.size = v.size /\ w.mem = v.mem
      /\ w.reserved = v.reserved /\ Stays(v, w)
  <2>1. n * 4 \in 0 .. v.scratch
    BY <1>1
  <2> HIDE DEF v
  <2> QED BY <1>1, <2>1, PopsScratch
<1>3. v.scratch % 4 = 0
  <2>1. (v.scratch - 0 * 8) % 4 = 0 /\ v.scratch - 0 * 8 = v.scratch
    BY <1>1 DEF LocsFit
  <2> QED BY <2>1
<1> HIDE DEF w
<1>4. c = [f \in BuilderNames |-> c[f]]
  BY <1>1
<1>5. /\ c.buf = w /\ c.num_field_loc = 0 /\ c.max_voffset_ = b_.max_voffset_
      /\ c.nested = b_.nested /\ c.finished = b_.finished /\ c.minalign_ = b_.minalign_
      /\ c.force_defaults_ = b_.force_defaults_ /\ c.dedup_vtables_ = b_.dedup_vtables_
      /\ c.string_pool = b_.string_pool /\ c.ok = b_.ok
  BY <1>1 DEF BuilderNames, Idlers
<1> HIDE DEF c, v
<1>6. LocsFit(w, 0, b_.max_voffset_)
  <2>1. (v.scratch - n * 4) % 4 = 0
    <3> DEFINE x == v.scratch
    <3>1. x \in Nat /\ x % 4 = 0
      BY <1>1, <1>3
    <3> HIDE DEF x
    <3>2. (x - n * 4) % 4 = 0
      BY <3>1
    <3> QED BY <3>2 DEF x
  <2>2. w.scratch \in Nat /\ w.scratch - 0 * 8 = w.scratch
    BY <1>2, VectorFields
  <2>3. (w.scratch - 0 * 8) % 4 = 0
    BY <1>2, <2>1, <2>2
  <2> QED BY <2>2, <2>3 DEF LocsFit
<1>7. LocsFit(c.buf, c.num_field_loc, c.max_voffset_)
  BY <1>5, <1>6
<1>8. Clean(w)
  BY <1>1, <1>2, CleanSame
<1>9. c \in Builders(d)
  <2>1. /\ c.buf \in Vectors(d) /\ c.num_field_loc \in Nat /\ Clean(c.buf)
        /\ c.max_voffset_ \in {0} \union VOffsets
        /\ c.nested \in BOOLEAN /\ c.finished \in BOOLEAN /\ c.minalign_ \in Alignments
        /\ c.force_defaults_ \in BOOLEAN /\ c.dedup_vtables_ \in BOOLEAN
        /\ c.string_pool \in SUBSET Nat /\ c.ok \in BOOLEAN
    BY <1>1, <1>2, <1>5, <1>8, BuilderFields
  <2> QED BY <1>4, <1>7, <2>1, BuilderIs
<1>10. SameFlags(b_, c) /\ SameMinAlign(b_, c)
  BY <1>5 DEF SameFlags, SameMinAlign
<1>11. c \in Idlers(d)
  BY <1>5, <1>9 DEF Idlers
<1>12. /\ c.buf.size = v.size /\ c.buf.mem = v.mem /\ c.buf.scratch = v.scratch - n * 4
       /\ Stays(v, c.buf) /\ c.string_pool = b_.string_pool
  BY <1>2, <1>5
<1> QED BY <1>10, <1>11, <1>12 DEF c, w, v

(* The vector of the strings texts at the offset o: it refers to each.     *)
TextsAt(v, o, texts) ==
  /\ Len(texts) <= o /\ Holds(v, o, EndianScalar(Len(texts), 4))
  /\ \A i \in 1 .. Len(texts) : \E off \in Nat :
       off % 4 = 0 /\ RefersAt(v, o - 4 - 4 * (i - 1), off) /\ TextAt(v, off, texts[i])

(* The vector that refers to the strings whose offsets the scratch pad     *)
(* ends with, which are then taken off.                                    *)
LEMMA RefersToKept ==
  ASSUME NEW d \in 0 .. 3, NEW b_ \in Idlers(d), NEW strings \in Seq(Seq(Byte)),
         NEW k \in Keeping(b_, d, strings, Len(strings))
  PROVE  LET r == VectorOfKept(k, Len(strings))
         IN /\ Written(b_, r, d)
            /\ r.b.ok /\ r.b.buf.size <= FLATBUFFERS_MAX_BUFFER_SIZE =>
                 TextsAt(r.b.buf, r.o, strings)
<1> DEFINE n == Len(strings)
           low == b_.buf.scratch
           c == StartVector(k, n, 4, 4)
           refer(x, i) == PushOffset(x, ReadScalar(x.buf.mem, x.buf.scratch - i * 4, uoffset_t))
           seq == [i \in 1 .. n |-> ReadScalar(c.buf.mem, c.buf.scratch - i * 4, uoffset_t)]
           offs == [i \in 1 .. n |-> ReadScalar(c.buf.mem, low + 4 * (i - 1), uoffset_t)]
           e == FoldLeft(refer, c, [i \in 1 .. n |-> i])
           f == [e EXCEPT !.buf = scratch_pop(@, n * 4)]
           r == EndVector(f, n)
<1>1. /\ n \in Nat /\ n \in Int /\ 4 \in Int /\ 4 \in Alignments
      /\ \A i \in 1 .. n : strings[i] \in Seq(Byte)
  BY LenProperties DEF Alignments
<1>2. VectorOfKept(k, n) = r
  BY DEF VectorOfKept, uoffset_t, Scalar
<1> HIDE DEF n
<1>3. /\ k \in Idlers(d) /\ k \in Builders(d) /\ b_ \in Builders(d)
      /\ Behind(b_, k) /\ k.nested = b_.nested /\ k.string_pool = b_.string_pool
      /\ k.buf.scratch = low + 4 * n /\ SameBelow(b_.buf, k.buf, low)
      /\ k.buf.size <= FLATBUFFERS_MAX_BUFFER_SIZE =>
           \A j \in 1 .. n : KeptAt(k.buf, low + 4 * (j - 1), strings[j])
  BY DEF Keeping, Idlers, n
<1>4. /\ c \in Follows(k, d) /\ c \in Idlers(d) /\ c \in Builders(d)
      /\ c.buf.scratch = k.buf.scratch /\ c.string_pool = k.string_pool
      /\ n * 4 # 0 => (c.buf.size + n * 4) % 4 = 0
  <2>1. LET c_ == StartVector(k, n, 4, 4)
            x_ == n * 4
        IN /\ c_ \in Follows(k, d) /\ c_ \in Idlers(d) /\ c_ \in Builders(d)
           /\ c_.buf.scratch = k.buf.scratch /\ c_.string_pool = k.string_pool
           /\ x_ # 0 => /\ (c_.buf.size + x_) % 4 = 0 /\ (c_.buf.size + x_) % 4 = 0
                        /\ 4 <= c_.minalign_
    BY <1>1, <1>3, StartsVector
  <2> QED BY <2>1, Zenon
<1> HIDE DEF c
<1>5. /\ low \in Nat /\ c.buf.size \in Nat /\ k.buf.size \in Nat
      /\ c.buf.scratch = low + 4 * n /\ n * 4 <= c.buf.scratch
  <2>1. low \in Nat /\ c.buf.size \in Nat /\ k.buf.size \in Nat
    BY <1>3, <1>4, BuilderNumbers
  <2> HIDE DEF low
  <2> QED BY <1>1, <1>3, <1>4, <2>1
<1>6. (\A i \in 1 .. n : seq[i] \in Int) /\ e \in Referred(c, d, seq, n)
  BY <1>1, <1>4, <1>5, FoldsKept
<1>7. \A i \in 1 .. n : offs[i] \in Int /\ seq[n - i + 1] = offs[i]
  <2>1. ASSUME NEW i \in 1 .. n PROVE offs[i] \in Int /\ seq[n - i + 1] = offs[i]
    <3> DEFINE j == n - i + 1
    <3>1. j \in 1 .. n
      BY <1>1
    <3>2. c.buf.scratch - j * 4 = low + 4 * (i - 1)
      <4> HIDE DEF low
      <4> QED BY <1>1, <1>5
    <3>3. seq[j] = ReadScalar(c.buf.mem, c.buf.scratch - j * 4, uoffset_t)
      BY <3>1
    <3> HIDE DEF j, low
    <3>4. seq[j] = offs[i]
      BY <3>2, <3>3
    <3> HIDE DEF seq, offs
    <3>5. offs[i] \in Int
      BY <1>6, <3>1, <3>4
    <3> QED BY <3>4, <3>5 DEF j
  <2> QED BY <2>1
<1> HIDE DEF e, seq
<1>8. /\ e \in Idlers(d) /\ e \in Builders(d) /\ e \in Follows(c, d)
      /\ e.string_pool = c.string_pool /\ e.buf.scratch = c.buf.scratch
  <2>1. e \in Grown(c, d)
    BY <1>6 DEF Referred
  <2> QED BY <1>4, <2>1, GrownIdles
<1>9. /\ f \in Idlers(d) /\ f.string_pool = e.string_pool
      /\ SameFlags(e, f) /\ SameMinAlign(e, f)
      /\ f.buf.size = e.buf.size /\ f.buf.mem = e.buf.mem
      /\ f.buf.scratch = e.buf.scratch - n * 4 /\ Stays(e.buf, f.buf)
  <2>1. n * 4 <= e.buf.scratch
    BY <1>5, <1>8
  <2>2. LET f_ == [e EXCEPT !.buf = scratch_pop(@, n * 4)]
        IN /\ f_ \in Idlers(d) /\ f_.string_pool = e.string_pool
           /\ SameFlags(e, f_) /\ SameMinAlign(e, f_)
           /\ f_.buf.size = e.buf.size /\ f_.buf.mem = e.buf.mem
           /\ f_.buf.scratch = e.buf.scratch - n * 4 /\ Stays(e.buf, f_.buf)
    BY <1>1, <1>8, <2>1, DropsOffsets
  <2> QED BY <2>2, Zenon
<1> HIDE DEF f
<1>10. \A a \in 0 .. (low + 4 * n) - 1 : c.buf.mem[a] = k.buf.mem[a] /\ f.buf.mem[a] = c.buf.mem[a]
  <2>1. SameScratch(k.buf, c.buf) /\ SameScratch(c.buf, e.buf)
    BY <1>4, <1>8 DEF Follows
  <2>2. k.buf.scratch = low + 4 * n /\ c.buf.scratch = low + 4 * n
    BY <1>3, <1>5
  <2>3. /\ \A a \in 0 .. k.buf.scratch - 1 : c.buf.mem[a] = k.buf.mem[a]
        /\ \A a \in 0 .. c.buf.scratch - 1 : e.buf.mem[a] = c.buf.mem[a]
    BY <2>1 DEF SameScratch
  <2> HIDE DEF low
  <2> DEFINE top == low + 4 * n
  <2>4. k.buf.scratch = top /\ c.buf.scratch = top
    BY <2>2
  <2> HIDE DEF top
  <2>5. \A a \in 0 .. top - 1 : c.buf.mem[a] = k.buf.mem[a] /\ e.buf.mem[a] = c.buf.mem[a]
    BY <2>3, <2>4
  <2>6. \A a \in 0 .. top - 1 : c.buf.mem[a] = k.buf.mem[a] /\ f.buf.mem[a] = c.buf.mem[a]
    BY <1>9, <2>5
  <2> QED BY <2>6, Zenon DEF top
<1>11. SameScratch(b_.buf, f.buf)
  <2>1. f.buf.scratch = low
    <3> HIDE DEF low
    <3> QED BY <1>1, <1>5, <1>8, <1>9
  <2>2. ASSUME NEW a \in 0 .. low - 1 PROVE f.buf.mem[a] = b_.buf.mem[a]
    <3>1. a \in 0 .. (low + 4 * n) - 1
      <4> HIDE DEF low
      <4> QED BY <1>1, <1>5
    <3>2. k.buf.mem[a] = b_.buf.mem[a]
      BY <1>3 DEF SameBelow
    <3> QED BY <1>10, <3>1, <3>2
  <2> QED BY <2>1, <2>2 DEF SameScratch
<1>12. Behind(b_, c)
  <2>1. Behind(k, c)
    BY <1>4 DEF Follows, Behind
  <2> QED BY <1>3, <1>4, <2>1, BehindOn
<1>13. n # 0 => c.buf.size % 4 = 0
  <2> DEFINE s == c.buf.size
  <2>1. s \in Nat /\ (n * 4 # 0 => (s + n * 4) % 4 = 0)
    BY <1>4, <1>5
  <2> HIDE DEF s
  <2>2. n # 0 => s % 4 = 0
    BY <1>1, <2>1
  <2> QED BY <2>2 DEF s
<1>14. /\ Written(b_, r, d)
       /\ r.b.ok => OffsetsAt(r.b.buf, r.o, offs, n)
  <2>1. c.string_pool = b_.string_pool
    BY <1>3, <1>4
  <2> HIDE DEF offs
  <2>2. LET r_ == EndVector(f, n)
        IN /\ Written(b_, r_, d)
           /\ r_.b.ok => OffsetsAt(r_.b.buf, r_.o, offs, n)
    BY <1>1, <1>4, <1>6, <1>7, <1>9, <1>11, <1>12, <1>13, <2>1, EndsReferences
  <2> QED BY <2>2, Zenon
<1>15. Stays(f.buf, r.b.buf) /\ r.b \in Builders(d) /\ f \in Builders(d)
  <2>1. Written(f, EndVector(f, n), d)
    BY <1>1, <1>9, EndsVector
  <2> HIDE DEF r
  <2>2. Written(f, r, d)
    BY <2>1 DEF r
  <2> QED BY <1>9, <2>2 DEF Written, Follows, Idlers
<1> HIDE DEF r
<1>16. Stays(k.buf, r.b.buf)
  <2>1. e.buf.size \in Nat /\ f.buf.size \in Nat /\ r.b.buf.size \in Nat
    BY <1>8, <1>15, BuilderNumbers
  <2>2. Stays(k.buf, c.buf) /\ Stays(c.buf, e.buf)
    BY <1>4, <1>8 DEF Follows
  <2>3. Stays(k.buf, e.buf)
    BY <1>5, <2>1, <2>2, StaysOn
  <2>4. Stays(k.buf, f.buf)
    BY <1>5, <1>9, <2>1, <2>3, StaysOn
  <2> QED BY <1>5, <1>15, <2>1, <2>4, StaysOn
<1>17. ASSUME r.b.ok, r.b.buf.size <= FLATBUFFERS_MAX_BUFFER_SIZE
       PROVE  TextsAt(r.b.buf, r.o, strings)
  <2>1. k.buf.size <= FLATBUFFERS_MAX_BUFFER_SIZE
    <3> DEFINE p == k.buf.size
               q == r.b.buf.size
               M == FLATBUFFERS_MAX_BUFFER_SIZE
    <3>1. p <= q /\ q <= M /\ p \in Nat /\ q \in Nat /\ M \in Nat
      BY <1>5, <1>15, <1>16, <1>17, SmallSizes, BuilderNumbers DEF Stays
    <3> HIDE DEF p, q, M
    <3>2. p <= M
      BY <3>1
    <3> QED BY <3>2 DEF p, M
  <2>2. ASSUME NEW i \in 1 .. n
        PROVE  offs[i] \in Nat /\ offs[i] % 4 = 0 /\ TextAt(r.b.buf, offs[i], strings[i])
    <3> DEFINE a == low + 4 * (i - 1)
               x == ReadScalar(k.buf.mem, a, uoffset_t)
               s == strings[i]
    <3>1. KeptAt(k.buf, a, s)
      BY <1>3, <2>1
    <3>2. x \in Nat /\ x % 4 = 0 /\ TextAt(k.buf, x, s) /\ s \in Seq(Byte)
      BY <1>1, <3>1 DEF KeptAt
    <3>3. offs[i] = ReadScalar(c.buf.mem, a, uoffset_t)
      OBVIOUS
    <3>4. a \in Nat /\ SameBelow(k.buf, c.buf, a + 4)
      <4> HIDE DEF low
      <4>1. a \in Nat /\ a + 4 <= low + 4 * n /\ low + 4 * n \in Nat
        BY <1>1, <1>5
      <4> HIDE DEF a
      <4>2. \A y \in 0 .. a + 4 - 1 : y \in 0 .. (low + 4 * n) - 1
        BY <1>1, <1>5, <4>1
      <4> QED BY <1>10, <4>1, <4>2 DEF SameBelow
    <3> HIDE DEF a, offs, s
    <3>5. offs[i] = x
      BY <3>3, <3>4, OffsetSame
    <3> HIDE DEF x
    <3>6. r.b.buf.size \in Nat /\ x \in Int
      BY <1>15, <3>2, BuilderNumbers
    <3>7. TextAt(r.b.buf, x, s)
      BY <1>5, <1>16, <3>2, <3>6, TextStays
    <3> QED BY <3>2, <3>5, <3>7 DEF s
  <2>3. OffsetsAt(r.b.buf, r.o, offs, n)
    BY <1>14, <1>17 DEF r
  <2> HIDE DEF offs
  <2>4. /\ n <= r.o /\ Holds(r.b.buf, r.o, EndianScalar(n, 4))
        /\ \A i \in 1 .. n : RefersAt(r.b.buf, r.o - 4 - 4 * (i - 1), offs[i])
    BY <2>3 DEF OffsetsAt
  <2> QED BY <2>2, <2>4 DEF TextsAt, n
<1> QED BY <1>2, <1>14, <1>17 DEF r, n

(* CreateVectorOfStrings: the room for the offsets, the strings, the       *)
(* vector.                                                                 *)
LEMMA CreatesVectorOfStrings ==
  ASSUME NEW d \in 0 .. 3, NEW b_ \in Idlers(d), NEW strings \in Seq(Seq(Byte))
  PROVE  LET r == CreateVectorOfStrings(b_, strings)
         IN /\ Written(b_, r, d)
            /\ r.b.ok /\ r.b.buf.size <= FLATBUFFERS_MAX_BUFFER_SIZE =>
                 TextsAt(r.b.buf, r.o, strings)
<1> DEFINE n == Len(strings)
           w == ensure_space(b_.buf, n * 4)
           c == [b_ EXCEPT !.buf = w]
           e == FoldLeft(LAMBDA x, s : KeepOffset(CreateString(x, s)), c, strings)
           r == VectorOfKept(e, n)
<1>1. n \in Nat /\ DOMAIN strings = 1 .. n /\ \A i \in 1 .. n : strings[i] \in Seq(Byte)
  BY LenProperties
<1>2. CreateVectorOfStrings(b_, strings) = r
  BY DEF CreateVectorOfStrings, uoffset_t, Scalar
<1>3. /\ b_ \in Builders(d) /\ b_.buf \in Vectors(d) /\ b_.buf.size \in Nat /\ n * 4 \in Nat
      /\ Clean(b_.buf)
  BY <1>1, BuilderFields, VectorFields DEF Idlers
<1>4. /\ w \in Vectors(d) /\ w.size = b_.buf.size /\ SameScratch(b_.buf, w) /\ Stays(b_.buf, w)
      /\ Clean(w)
  <2> HIDE DEF n
  <2>1. w \in Vectors(d) /\ w.size = b_.buf.size /\ SameScratch(b_.buf, w) /\ Stays(b_.buf, w)
    BY <1>3, EnsuresSpace
  <2> HIDE DEF w
  <2> QED BY <1>3, <2>1, CleanSame
<1> HIDE DEF w
<1>5. c \in Grown(b_, d)
  BY <1>3, <1>4, WithGrown
<1> HIDE DEF c
<1>6. /\ c \in Idlers(d) /\ c \in Follows(b_, d) /\ c.string_pool = b_.string_pool
      /\ c.nested = b_.nested
  BY <1>5, GrownIdles
<1>7. e \in Keeping(c, d, strings, n)
  BY <1>1, <1>6, FoldsStrings
<1> HIDE DEF e, r
<1>8. /\ Written(c, r, d)
      /\ r.b.ok /\ r.b.buf.size <= FLATBUFFERS_MAX_BUFFER_SIZE => TextsAt(r.b.buf, r.o, strings)
  <2>1. LET r_ == VectorOfKept(e, Len(strings))
        IN /\ Written(c, r_, d)
           /\ r_.b.ok /\ r_.b.buf.size <= FLATBUFFERS_MAX_BUFFER_SIZE =>
                TextsAt(r_.b.buf, r_.o, strings)
    BY <1>6, <1>7, RefersToKept DEF n
  <2> QED BY <2>1, Zenon DEF r, n
<1>9. Written(b_, r, d)
  <2>1. r.b \in Follows(c, d)
    BY <1>8 DEF Written
  <2>2. r.b \in Follows(b_, d)
    BY <1>6, <2>1, FollowsOn
  <2> QED BY <1>6, <1>8, <2>2 DEF Written
<1> QED BY <1>2, <1>8, <1>9

-----------------------------------------------------------------------------
(* The whole buffer *)

(* StartTable sets the nested flag of an idle builder. *)
LEMMA StartsTable ==
  ASSUME NEW d \in 0 .. 3, NEW b_ \in Idlers(d)
  PROVE  LET c == StartTable(b_)
         IN /\ c \in Follows(b_, d) /\ c \in Idlers(d) /\ c \in Builders(d)
            /\ c.nested = TRUE /\ c.buf = b_.buf /\ c.string_pool = b_.string_pool
            /\ c.minalign_ = b_.minalign_
<1> DEFINE k == NotNested(b_)
           c == [k EXCEPT !.nested = TRUE]
<1>1. /\ k \in Follows(b_, d) /\ k \in Idlers(d) /\ k.buf = b_.buf
      /\ k.string_pool = b_.string_pool /\ k.minalign_ = b_.minalign_
  BY ChecksIdler
<1> HIDE DEF k
<1>2. /\ c \in Follows(k, d) /\ c \in Idlers(d) /\ c \in Builders(d)
      /\ c.nested = TRUE /\ c.buf = k.buf /\ c.string_pool = k.string_pool
      /\ c.minalign_ = k.minalign_
  BY <1>1, NestsIdler DEF SameMinAlign
<1>3. StartTable(b_) = c
  BY DEF StartTable, k
<1> HIDE DEF c
<1>4. c \in Follows(b_, d)
  BY <1>1, <1>2, FollowsOn
<1> QED BY <1>1, <1>2, <1>3, <1>4

(* A builder in which nothing has been written yet. *)
Emptied(d) ==
  {b_ \in Idlers(d) :
     /\ b_.nested = FALSE /\ b_.finished = FALSE /\ b_.string_pool = {}
     /\ b_.buf.size = 0 /\ b_.buf.scratch = 0}

(* An empty block is clean, and has room for no FieldLoc. *)
LEMMA EmptyIsEmptied ==
  ASSUME NEW d, NEW b_,
         b_ = [f \in BuilderNames |-> b_[f]],
         b_.buf \in Vectors(d), b_.buf.size = 0, b_.buf.scratch = 0,
         b_.num_field_loc = 0, b_.max_voffset_ = 0,
         b_.nested = FALSE, b_.finished = FALSE, b_.minalign_ = 1,
         b_.force_defaults_ \in BOOLEAN, b_.dedup_vtables_ \in BOOLEAN,
         b_.string_pool = {}, b_.ok \in BOOLEAN
  PROVE  b_ \in Emptied(d)
<1>1. LocsFit(b_.buf, b_.num_field_loc, b_.max_voffset_)
  BY DEF LocsFit
<1>2. Clean(b_.buf)
  BY DEF Clean
<1>3. /\ b_.num_field_loc \in Nat /\ b_.max_voffset_ \in {0} \union VOffsets
      /\ b_.minalign_ \in Alignments /\ b_.string_pool \in SUBSET Nat
  BY DEF Alignments
<1>4. b_.nested \in BOOLEAN /\ b_.finished \in BOOLEAN
  OBVIOUS
<1>5. b_ \in Builders(d)
  BY <1>1, <1>2, <1>3, <1>4, BuilderIs
<1> QED BY <1>5 DEF Emptied, Idlers

(* Clear forgets the table being built and everything in the block,        *)
(* whatever the scratch pad held.                                          *)
LEMMA ClearsBuilder ==
  ASSUME NEW d, NEW b_ \in BuilderType(d)
  PROVE  Clear(b_) \in Emptied(d)
<1> DEFINE v == b_.buf
           n == b_.num_field_loc * SizeOfFieldLoc
           w == clear(scratch_pop(v, n))
           c == Clear(b_)
<1>1. b_ = [f \in BuilderNames |-> b_[f]] /\ v \in Vectors(d)
  BY DEF BuilderType, BuilderNames
<1>2. w \in Vectors(d) /\ w.scratch = 0 /\ w.size = 0
  <2> HIDE DEF v, n
  <2> QED BY <1>1, ClearsAll
<1>3. c = [b_ EXCEPT !.buf = w, !.num_field_loc = 0, !.max_voffset_ = 0, !.nested = FALSE,
                     !.finished = FALSE, !.minalign_ = 1, !.string_pool = {}]
  BY <1>1 DEF Clear, ClearOffsets, BuilderNames
<1> HIDE DEF w, c, v
<1>4. c = [f \in BuilderNames |-> c[f]]
  BY <1>1, <1>3
<1>5. /\ c.buf = w /\ c.num_field_loc = 0 /\ c.max_voffset_ = 0
      /\ c.nested = FALSE /\ c.finished = FALSE /\ c.minalign_ = 1
      /\ c.force_defaults_ = b_.force_defaults_ /\ c.dedup_vtables_ = b_.dedup_vtables_
      /\ c.string_pool = {} /\ c.ok = b_.ok
  BY <1>1, <1>3 DEF BuilderNames
<1>6. /\ b_.force_defaults_ \in BOOLEAN /\ b_.dedup_vtables_ \in BOOLEAN /\ b_.ok \in BOOLEAN
  BY DEF BuilderType
<1>7. c.force_defaults_ \in BOOLEAN /\ c.dedup_vtables_ \in BOOLEAN /\ c.ok \in BOOLEAN
  BY <1>5, <1>6
<1>8. c.buf \in Vectors(d) /\ c.buf.size = 0 /\ c.buf.scratch = 0
  BY <1>2, <1>5
<1> QED BY <1>4, <1>5, <1>7, <1>8, EmptyIsEmptied DEF c

(* Reset also frees the block. *)
LEMMA ResetsBuilder ==
  ASSUME NEW d, NEW b_ \in BuilderType(d)
  PROVE  Reset(b_) \in Emptied(d)
<1> DEFINE k == Clear(b_)
           w == reset(k.buf)
           c == [k EXCEPT !.buf = w]
<1>1. k \in Emptied(d)
  BY ClearsBuilder
<1>2. Reset(b_) = c
  BY DEF Reset
<1> HIDE DEF k
<1>3. k = [f \in BuilderNames |-> k[f]] /\ k.buf \in Vectors(d) /\ k \in Builders(d)
  BY <1>1, BuilderFields DEF Emptied, Idlers
<1>4. w \in Vectors(d) /\ w.scratch = 0 /\ w.size = 0
  BY <1>3, Resets
<1> HIDE DEF w
<1>5. c = [f \in BuilderNames |-> c[f]]
  BY <1>3
<1>6. /\ c.buf = w /\ c.num_field_loc = k.num_field_loc /\ c.max_voffset_ = k.max_voffset_
      /\ c.nested = k.nested /\ c.finished = k.finished /\ c.minalign_ = k.minalign_
      /\ c.force_defaults_ = k.force_defaults_ /\ c.dedup_vtables_ = k.dedup_vtables_
      /\ c.string_pool = k.string_pool /\ c.ok = k.ok
  BY <1>3 DEF BuilderNames
<1> HIDE DEF c
<1>7. c.num_field_loc = 0 /\ LocsFit(c.buf, c.num_field_loc, c.max_voffset_) /\ Clean(c.buf)
  BY <1>1, <1>4, <1>6 DEF LocsFit, Clean, Emptied, Idlers
<1>8. c \in Builders(d)
  <2>1. /\ c.buf \in Vectors(d) /\ c.num_field_loc \in Nat /\ c.max_voffset_ \in {0} \union VOffsets
        /\ c.nested \in BOOLEAN /\ c.finished \in BOOLEAN /\ c.minalign_ \in Alignments
        /\ c.force_defaults_ \in BOOLEAN /\ c.dedup_vtables_ \in BOOLEAN
        /\ c.string_pool \in SUBSET Nat /\ c.ok \in BOOLEAN
    BY <1>3, <1>4, <1>6, BuilderFields
  <2> QED BY <1>5, <1>7, <2>1, BuilderIs
<1>9. /\ c.nested = FALSE /\ c.finished = FALSE /\ c.string_pool = {}
      /\ c.buf.size = 0 /\ c.buf.scratch = 0
  BY <1>1, <1>4, <1>6 DEF Emptied
<1> QED BY <1>2, <1>7, <1>8, <1>9 DEF Emptied, Idlers

(* Release and the Clear after it: the block is the DetachedBuffer's.      *)
LEMMA ReleasesBuilder ==
  ASSUME NEW b_ \in Builders(0)
  PROVE  /\ Release(b_).detached \in 0 .. 3
         /\ Clear(Release(b_).b) \in Emptied(Release(b_).detached)
<1> DEFINE r == release(b_.buf)
           d == r.detached
           w == r.vector
           c == [b_ EXCEPT !.buf = w]
<1>1. b_ \in BuilderType(0) /\ b_.buf \in Vectors(0)
  BY DEF Builders, BuilderType
<1>2. d \in 0 .. 3 /\ w \in Vectors(d)
  BY <1>1, Releases
<1>3. Release(b_).b = c /\ Release(b_).detached = d
  BY DEF Release
<1> HIDE DEF r, d, w
<1>4. c \in BuilderType(d)
  BY <1>1, <1>2 DEF BuilderType
<1> HIDE DEF c
<1>5. Clear(c) \in Emptied(d)
  BY <1>4, ClearsBuilder
<1> QED BY <1>2, <1>3, <1>5

(* A new builder *)
LEMMA NewBuilders ==
  ASSUME NEW n \in Nat \ {0}, NEW force \in BOOLEAN, NEW dedup \in BOOLEAN
  PROVE  NewBuilder(n, 8, force, dedup) \in Emptied(0)
<1> DEFINE c == NewBuilder(n, 8, force, dedup)
           v == NewVector(n, 8)
<1>1. v \in Vectors(0) /\ v.scratch = 0 /\ v.size = 0
  BY NewVectors
<1>2. c = [buf |-> v, num_field_loc |-> 0, max_voffset_ |-> 0, nested |-> FALSE,
           finished |-> FALSE, minalign_ |-> 1, force_defaults_ |-> force,
           dedup_vtables_ |-> dedup, string_pool |-> {}, ok |-> TRUE]
  BY DEF NewBuilder
<1> HIDE DEF v, c
<1>3. c = [f \in BuilderNames |-> c[f]]
  BY <1>2 DEF BuilderNames
<1>4. /\ c.buf = v /\ c.num_field_loc = 0 /\ c.max_voffset_ = 0
      /\ c.minalign_ = 1 /\ c.string_pool = {}
  BY <1>2
<1>5. /\ c.nested = FALSE /\ c.finished = FALSE
      /\ c.force_defaults_ \in BOOLEAN /\ c.dedup_vtables_ \in BOOLEAN /\ c.ok \in BOOLEAN
  BY <1>2
<1> QED BY <1>1, <1>3, <1>4, <1>5, EmptyIsEmptied DEF c

(* Freeing the DetachedBuffer leaves the builder's own block alone.        *)
LEMMA DestroysDetached ==
  ASSUME NEW d, d # 0, NEW b_ \in Builders(d)
  PROVE  LET c == [b_ EXCEPT !.buf = Destroyed(@, d)]
         IN /\ c \in Builders(0) /\ SameTable(b_, c) /\ SameFlags(b_, c) /\ SameMinAlign(b_, c)
            /\ SameScratch(b_.buf, c.buf) /\ Stays(b_.buf, c.buf) /\ c.buf.size = b_.buf.size
<1> DEFINE w == Destroyed(b_.buf, d)
           c == [b_ EXCEPT !.buf = w]
<1>1. b_.buf \in Vectors(d) /\ Clean(b_.buf) /\ b_.buf.size \in Nat
  BY BuilderFields, BuilderNumbers
<1>2. /\ w \in Vectors(0) /\ SameScratch(b_.buf, w)
      /\ w.size = b_.buf.size /\ w.mem = b_.buf.mem /\ w.reserved = b_.buf.reserved
  BY <1>1, Destroys DEF SameScratch
<1> HIDE DEF w
<1>3. Stays(b_.buf, w) /\ Clean(w)
  <2>1. Stays(b_.buf, w)
    BY <1>1, <1>2, StaysSelf
  <2> QED BY <1>1, <1>2, <2>1, CleanSame
<1>4. c \in Builders(0) /\ c.buf = w /\ SameTable(b_, c) /\ SameFlags(b_, c) /\ SameMinAlign(b_, c)
  BY <1>2, <1>3, WithBuffer
<1> HIDE DEF c
<1> QED BY <1>2, <1>3, <1>4 DEF c, w

-----------------------------------------------------------------------------
(* Finish clears the scratch pad, which leaves the vtables where they are  *)
(* and takes no part in what is serialized.                                *)
LEMMA ClearsPad ==
  ASSUME NEW d, NEW b_ \in Idlers(d)
  PROVE  LET c == [b_ EXCEPT !.buf = clear_scratch(@)]
         IN /\ c \in Idlers(d) /\ c \in Builders(d) /\ SameFlags(b_, c) /\ SameMinAlign(b_, c)
            /\ c.nested = b_.nested /\ c.string_pool = b_.string_pool
            /\ Stays(b_.buf, c.buf) /\ c.buf.scratch = 0 /\ c.buf.size = b_.buf.size
<1> DEFINE w == clear_scratch(b_.buf)
           c == [b_ EXCEPT !.buf = w]
<1>1. /\ b_ \in Builders(d) /\ b_ = [f \in BuilderNames |-> b_[f]] /\ b_.buf \in Vectors(d)
      /\ Clean(b_.buf)
  BY BuilderFields DEF Idlers
<1>2. w \in Vectors(d) /\ w.scratch = 0 /\ w.size = b_.buf.size /\ Stays(b_.buf, w)
  BY <1>1, ClearsScratch
<1> HIDE DEF w
<1>3. c = [f \in BuilderNames |-> c[f]]
  BY <1>1
<1>4. /\ c.buf = w /\ c.num_field_loc = 0 /\ c.max_voffset_ = b_.max_voffset_
      /\ c.nested = b_.nested /\ c.finished = b_.finished /\ c.minalign_ = b_.minalign_
      /\ c.force_defaults_ = b_.force_defaults_ /\ c.dedup_vtables_ = b_.dedup_vtables_
      /\ c.string_pool = b_.string_pool /\ c.ok = b_.ok
  BY <1>1 DEF BuilderNames, Idlers
<1> HIDE DEF c
<1>5. LocsFit(c.buf, c.num_field_loc, c.max_voffset_)
  BY <1>2, <1>4 DEF LocsFit
<1>6. Clean(w)
  BY <1>1, <1>2, CleanSame
<1>7. c \in Builders(d)
  <2>1. /\ c.buf \in Vectors(d) /\ c.num_field_loc \in Nat /\ c.max_voffset_ \in {0} \union VOffsets
        /\ c.nested \in BOOLEAN /\ c.finished \in BOOLEAN /\ c.minalign_ \in Alignments
        /\ c.force_defaults_ \in BOOLEAN /\ c.dedup_vtables_ \in BOOLEAN
        /\ c.string_pool \in SUBSET Nat /\ c.ok \in BOOLEAN /\ Clean(c.buf)
    BY <1>1, <1>2, <1>4, <1>6, BuilderFields
  <2> QED BY <1>3, <1>5, <2>1, BuilderIs
<1>8. SameFlags(b_, c) /\ SameMinAlign(b_, c)
  BY <1>4 DEF SameFlags, SameMinAlign
<1>9. c \in Idlers(d)
  BY <1>4, <1>7 DEF Idlers
<1> QED BY <1>2, <1>4, <1>7, <1>8, <1>9 DEF c, w

(* The finished flag. *)
LEMMA Marks ==
  ASSUME NEW d, NEW b_ \in Idlers(d)
  PROVE  LET c == [b_ EXCEPT !.finished = TRUE]
         IN /\ c \in Idlers(d) /\ c.buf = b_.buf /\ c.nested = b_.nested
            /\ c.finished = TRUE /\ SameMinAlign(b_, c) /\ c.string_pool = b_.string_pool
            /\ c.force_defaults_ = b_.force_defaults_ /\ c.dedup_vtables_ = b_.dedup_vtables_
<1> DEFINE c == [b_ EXCEPT !.finished = TRUE]
<1>1. b_ \in Builders(d) /\ b_ = [f \in BuilderNames |-> b_[f]]
  BY BuilderFields DEF Idlers
<1>2. c = [f \in BuilderNames |-> c[f]]
  BY <1>1
<1>3. /\ c.buf = b_.buf /\ c.num_field_loc = b_.num_field_loc /\ c.max_voffset_ = b_.max_voffset_
      /\ c.nested = b_.nested /\ c.finished = TRUE /\ c.minalign_ = b_.minalign_
      /\ c.force_defaults_ = b_.force_defaults_ /\ c.dedup_vtables_ = b_.dedup_vtables_
      /\ c.string_pool = b_.string_pool /\ c.ok = b_.ok
  BY <1>1 DEF BuilderNames
<1> HIDE DEF c
<1>4. LocsFit(c.buf, c.num_field_loc, c.max_voffset_)
  BY <1>1, <1>3, BuilderFields
<1>5. c \in Builders(d)
  <2>1. /\ c.buf \in Vectors(d) /\ c.num_field_loc \in Nat /\ c.max_voffset_ \in {0} \union VOffsets
        /\ c.nested \in BOOLEAN /\ c.minalign_ \in Alignments
        /\ c.force_defaults_ \in BOOLEAN /\ c.dedup_vtables_ \in BOOLEAN
        /\ c.string_pool \in SUBSET Nat /\ c.ok \in BOOLEAN /\ Clean(c.buf)
    BY <1>1, <1>3, BuilderFields
  <2>2. c.finished \in BOOLEAN
    BY <1>3
  <2> QED BY <1>2, <1>4, <2>1, <2>2, BuilderIs
<1> QED BY <1>3, <1>5 DEF Idlers, SameMinAlign, c

(* A builder that is finished: what was written stays, and the whole       *)
(* buffer is as long as its largest alignment allows.                      *)
FinishedFrom(b_, d) ==
  {c \in Idlers(d) :
     /\ c.finished = TRUE /\ c.nested = b_.nested /\ c.string_pool = b_.string_pool
     /\ c.force_defaults_ = b_.force_defaults_ /\ c.dedup_vtables_ = b_.dedup_vtables_
     /\ c.ok => b_.ok
     /\ Stays(b_.buf, c.buf) /\ c.buf.scratch = 0
     /\ b_.minalign_ <= c.minalign_
     /\ 4 <= b_.minalign_ => c.minalign_ = b_.minalign_ /\ c.buf.size % c.minalign_ = 0}

(* The numbers by which a buffer is finished: x is where the header        *)
(* begins, i what comes before its references.                             *)
LEMMA HeaderAligned ==
  ASSUME NEW x \in Int, NEW m \in Alignments, 4 <= m, NEW l \in Int, NEW prefix \in {0, 4},
         (x + (prefix + 4 + l)) % m = 0
  PROVE  /\ (x + l) % 4 = 0 /\ PaddingBytes(x + l, 4) = 0
         /\ PaddingBytes(x + l + 4, 4) = 0
<1>1. 4 \in Alignments
  BY DEF Alignments
<1>2. (x + (prefix + 4 + l)) % 4 = 0
  <2> DEFINE n == x + (prefix + 4 + l)
  <2>1. n \in Int /\ n % m = 0
    OBVIOUS
  <2> HIDE DEF n
  <2>2. n % 4 = 0
    BY <1>1, <2>1, SmallerAlignment
  <2> QED BY <2>2 DEF n
<1>3. (x + l) % 4 = 0 /\ (x + l + 4) % 4 = 0 /\ x + l \in Int /\ x + l + 4 \in Int
  <2>1. CASE prefix = 0
    BY <1>2, <2>1
  <2>2. CASE prefix = 4
    BY <1>2, <2>2
  <2> QED BY <2>1, <2>2
<1> QED BY <1>1, <1>3, PaddingExact

(* Finish: the identifier, the root and the size prefix, on an empty       *)
(* scratch pad.                                                            *)
LEMMA Finishes ==
  ASSUME NEW d \in 0 .. 3, NEW b_ \in Idlers(d), NEW root \in Int,
         NEW identifier \in Seq(Byte), NEW prefixed \in BOOLEAN
  PROVE  Finish(b_, root, identifier, prefixed) \in FinishedFrom(b_, d)
<1> DEFINE prefix == IF prefixed THEN 4 ELSE 0
           l == Len(identifier)
           header == prefix + 4 + l
           m == b_.minalign_
           k == NotNested(b_)
           clean == [k EXCEPT !.buf = clear_scratch(@)]
           p == PreAlign(clean, header, m)
           i == PushBytes(p, identifier)
           r == PushOffset(i, root)
           e == PushElement(r, GetSize(r), 4)
           s == IF prefixed THEN e ELSE r
           f == [s EXCEPT !.finished = TRUE]
<1>1. /\ k \in Follows(b_, d) /\ k \in Idlers(d) /\ k \in Builders(d)
      /\ k.buf = b_.buf /\ k.nested = b_.nested /\ k.string_pool = b_.string_pool
      /\ k.minalign_ = m
  BY ChecksIdler
<1>2. Finish(b_, root, identifier, prefixed) = f
  BY DEF Finish, uoffset_t, Scalar
<1>3. header \in Int /\ l \in Nat /\ prefix \in {0, 4} /\ m \in Alignments /\ 4 \in Sizes
  <2>1. l \in Nat
    OBVIOUS
  <2>2. b_ \in Builders(d)
    BY DEF Idlers
  <2>3. m \in Alignments
    BY <2>2, BuilderFields
  <2> QED BY <2>1, <2>3 DEF Sizes
<1> HIDE DEF k, header
<1>4. /\ clean \in Idlers(d) /\ clean \in Builders(d) /\ SameFlags(k, clean) /\ SameMinAlign(k, clean)
      /\ clean.nested = k.nested /\ clean.string_pool = k.string_pool
      /\ Stays(k.buf, clean.buf) /\ clean.buf.scratch = 0 /\ clean.buf.size = k.buf.size
  BY <1>1, ClearsPad
<1> HIDE DEF clean, m
<1>5. clean.minalign_ = m
  BY <1>1, <1>4 DEF SameMinAlign
<1>6. /\ p \in Grown(clean, d)
      /\ header # 0 => (p.buf.size + header) % m = 0
      /\ p.minalign_ = m
  <2>1. LET c_ == PreAlign(clean, header, m)
        IN /\ c_ \in Grown(clean, d) /\ c_.ok = clean.ok
           /\ header = 0 => c_ = clean
           /\ header # 0 => m <= c_.minalign_ /\ (c_.buf.size + header) % m = 0
           /\ (clean.buf.size + header) % m = 0 => c_.buf.size = clean.buf.size
           /\ m <= clean.minalign_ => c_.minalign_ = clean.minalign_
    BY <1>3, <1>4, PreAligns
  <2>2. m <= clean.minalign_
    <3>1. m \in Int
      BY <1>3 DEF Alignments
    <3> QED BY <1>5, <3>1
  <2> HIDE DEF p
  <2>3. /\ p \in Grown(clean, d)
        /\ header # 0 => (p.buf.size + header) % m = 0
        /\ m <= clean.minalign_ => p.minalign_ = clean.minalign_
    BY <2>1, Zenon DEF p
  <2> QED BY <1>5, <2>2, <2>3
<1> HIDE DEF p
<1>7. p \in Idlers(d) /\ p \in Builders(d)
  BY <1>4, <1>6, GrownIdles
<1>8. i \in Grown(p, d) /\ i.buf.size = p.buf.size + l /\ i.minalign_ = m
  BY <1>6, <1>7, PushesBytes DEF SameMinAlign
<1> HIDE DEF i
<1>9. i \in Idlers(d) /\ i \in Builders(d)
  BY <1>7, <1>8, GrownIdles
<1>10. /\ r \in Grown(i, d) /\ r.buf.size = i.buf.size + PaddingBytes(i.buf.size, 4) + 4
       /\ 4 <= m => r.minalign_ = m
  <2>1. LET c_ == PushOffset(i, root)
        IN /\ c_ \in Grown(i, d)
           /\ c_.buf.size = i.buf.size + PaddingBytes(i.buf.size, 4) + 4
           /\ c_.buf.size % 4 = 0 /\ 4 <= c_.minalign_
           /\ 4 <= i.minalign_ => c_.minalign_ = i.minalign_
           /\ Holds(c_.buf, c_.buf.size, EndianScalar(c_.buf.size - root, 4))
           /\ c_.ok => root # 0 /\ root + 4 <= c_.buf.size
    BY <1>9, PushesOffset
  <2> HIDE DEF r
  <2>2. /\ r \in Grown(i, d) /\ r.buf.size = i.buf.size + PaddingBytes(i.buf.size, 4) + 4
        /\ 4 <= i.minalign_ => r.minalign_ = i.minalign_
    BY <2>1, Zenon DEF r
  <2> QED BY <1>8, <2>2
<1> HIDE DEF r
<1>11. r \in Idlers(d) /\ r \in Builders(d) /\ GetSize(r) \in Int /\ GetSize(r) = r.buf.size
  BY <1>9, <1>10, GrownIdles, BuilderNumbers DEF GetSize
<1>12. /\ e \in Grown(r, d) /\ e.buf.size = r.buf.size + PaddingBytes(r.buf.size, 4) + 4
       /\ 4 <= m => e.minalign_ = m
  <2>1. LET c_ == PushElement(r, GetSize(r), 4)
        IN /\ c_ \in Grown(r, d) /\ c_.ok = r.ok
           /\ c_.buf.size = r.buf.size + PaddingBytes(r.buf.size, 4) + 4
           /\ c_.buf.size % 4 = 0 /\ 4 <= c_.minalign_
           /\ 4 <= r.minalign_ => c_.minalign_ = r.minalign_
           /\ Holds(c_.buf, c_.buf.size, EndianScalar(GetSize(r), 4))
    BY <1>3, <1>11, PushesElement
  <2> HIDE DEF e
  <2>2. /\ e \in Grown(r, d) /\ e.buf.size = r.buf.size + PaddingBytes(r.buf.size, 4) + 4
        /\ 4 <= r.minalign_ => e.minalign_ = r.minalign_
    BY <2>1, Zenon DEF e
  <2> QED BY <1>10, <2>2
<1> HIDE DEF e
<1>13. s \in Grown(clean, d)
  <2>1. r \in Grown(clean, d)
    <3>1. i \in Grown(clean, d)
      BY <1>4, <1>6, <1>8, GrownOn
    <3> QED BY <1>4, <1>10, <3>1, GrownOn
  <2>2. e \in Grown(clean, d)
    BY <1>4, <1>12, <2>1, GrownOn
  <2> QED BY <2>1, <2>2
<1>14. ASSUME 4 <= m PROVE s.minalign_ = m /\ s.buf.size % m = 0
  <2> DEFINE x == p.buf.size
             t == r.buf.size
             u == e.buf.size
  <2>1. x \in Int /\ t \in Int /\ (x + header) % m = 0
    <3>1. header # 0
      BY <1>3 DEF header
    <3>2. x \in Nat /\ t \in Nat
      BY <1>7, <1>11, BuilderNumbers
    <3> QED BY <1>6, <3>1, <3>2
  <2>2. /\ PaddingBytes(x + l, 4) = 0 /\ PaddingBytes(x + l + 4, 4) = 0
    <3> HIDE DEF x, prefix, l
    <3>1. (x + (prefix + 4 + l)) % m = 0
      BY <2>1 DEF header
    <3>2. l \in Int
      BY <1>3
    <3> QED BY <1>3, <1>14, <2>1, <3>1, <3>2, HeaderAligned
  <2>3. i.buf.size = x + l /\ t = i.buf.size + PaddingBytes(i.buf.size, 4) + 4
        /\ u = t + PaddingBytes(t, 4) + 4
    BY <1>8, <1>10, <1>12
  <2> HIDE DEF x, t, u, l
  <2>4. t = x + l + 4
    <3>1. t = (x + l) + 0 + 4
      BY <2>2, <2>3
    <3> QED BY <1>3, <2>1, <3>1
  <2>5. u = x + l + 8
    <3>1. u = (x + l + 4) + 0 + 4
      BY <2>2, <2>3, <2>4
    <3> QED BY <1>3, <2>1, <3>1
  <2>6. CASE prefixed
    <3>1. u = x + header
      BY <1>3, <2>1, <2>5, <2>6 DEF header
    <3>2. s = e /\ e.buf.size = u /\ e.minalign_ = m
      BY <1>12, <1>14, <2>6 DEF u
    <3> HIDE DEF s
    <3> QED BY <2>1, <3>1, <3>2
  <2>7. CASE ~prefixed
    <3>1. t = x + header
      BY <1>3, <2>1, <2>4, <2>7 DEF header
    <3>2. s = r /\ r.buf.size = t /\ r.minalign_ = m
      BY <1>10, <1>14, <2>7 DEF t
    <3> HIDE DEF s
    <3> QED BY <2>1, <3>1, <3>2
  <2> QED BY <2>6, <2>7
<1> HIDE DEF s
<1>15. /\ s \in Idlers(d) /\ s \in Builders(d) /\ s \in Follows(clean, d)
       /\ s.buf.scratch = 0 /\ s.nested = clean.nested /\ s.string_pool = clean.string_pool
  BY <1>4, <1>13, GrownIdles
<1>16. /\ f \in Idlers(d) /\ f.buf = s.buf /\ f.nested = s.nested
       /\ f.finished = TRUE /\ SameMinAlign(s, f) /\ f.string_pool = s.string_pool
       /\ f.force_defaults_ = s.force_defaults_ /\ f.dedup_vtables_ = s.dedup_vtables_
  BY <1>15, Marks
<1> HIDE DEF f
<1>17. Stays(b_.buf, f.buf)
  <2>1. Stays(b_.buf, clean.buf) /\ Stays(clean.buf, s.buf)
    BY <1>1, <1>4, <1>15 DEF Follows
  <2>2. b_.buf.size \in Nat /\ clean.buf.size \in Nat /\ s.buf.size \in Nat
    BY <1>1, <1>4, <1>15, BuilderNumbers
  <2>3. Stays(b_.buf, s.buf)
    BY <2>1, <2>2, StaysOn
  <2> QED BY <1>16, <2>3
<1>18. /\ f.force_defaults_ = b_.force_defaults_ /\ f.dedup_vtables_ = b_.dedup_vtables_
       /\ f.ok => b_.ok
       /\ f.nested = b_.nested /\ f.string_pool = b_.string_pool /\ f.buf.scratch = 0
  <2>1. SameFlags(b_, k) /\ SameFlags(k, clean) /\ SameFlags(clean, s)
    BY <1>1, <1>4, <1>15 DEF Follows
  <2> QED BY <1>1, <1>4, <1>15, <1>16, <2>1 DEF SameFlags, SameMinAlign
<1>19. f.minalign_ = s.minalign_ /\ m <= s.minalign_
  <2>1. clean.minalign_ <= s.minalign_
    BY <1>15 DEF Follows
  <2> QED BY <1>5, <1>16, <2>1 DEF SameMinAlign
<1>20. f \in FinishedFrom(b_, d)
  <2>1. m <= f.minalign_ /\ (4 <= m => f.minalign_ = m /\ f.buf.size % f.minalign_ = 0)
    BY <1>14, <1>16, <1>19
  <2> QED BY <1>16, <1>17, <1>18, <2>1 DEF FinishedFrom, m
<1> QED BY <1>2, <1>20

-----------------------------------------------------------------------------
(* The value of a field at the offset e: a number, a reference or a        *)
(* struct, in its place in a buffer that is aligned by minalign.           *)
NumberAt(v, e, value, minalign) ==
  /\ value = [number |-> value.number, bytes |-> value.bytes]
  /\ value.bytes \in Sizes /\ value.number \in Values(value.bytes)
  /\ Holds(v, e, EndianScalar(value.number, value.bytes))
  /\ e % value.bytes = 0 /\ value.bytes <= minalign
ReferenceAt(v, e, value, minalign) ==
  /\ value = [offset |-> value.offset] /\ value.offset \in Nat
  /\ RefersAt(v, e, value.offset) /\ e % 4 = 0 /\ 4 <= minalign
StructAt(v, e, value, minalign) ==
  /\ value = [struct |-> value.struct, alignment |-> value.alignment]
  /\ value.struct \in Seq(Byte) /\ value.alignment \in Alignments
  /\ Holds(v, e, value.struct)
  /\ e % value.alignment = 0 /\ value.alignment <= minalign
FieldAt(v, e, value, minalign) ==
  \/ NumberAt(v, e, value, minalign)
  \/ ReferenceAt(v, e, value, minalign)
  \/ StructAt(v, e, value, minalign)

(* It stays there. *)
LEMMA FieldStays ==
  ASSUME NEW v, NEW w, v.size \in Nat, w.size \in Nat, Stays(v, w),
         NEW e \in Int, NEW value, NEW low \in Nat, NEW high \in Nat, low <= high,
         FieldAt(v, e, value, low)
  PROVE  FieldAt(w, e, value, high)
<1>1. CASE NumberAt(v, e, value, low)
  <2> DEFINE n == value.number
             k == value.bytes
  <2>1. /\ k \in Sizes /\ n \in Values(k) /\ Holds(v, e, EndianScalar(n, k))
        /\ e % k = 0 /\ k <= low /\ value = [number |-> n, bytes |-> k]
    BY <1>1 DEF NumberAt
  <2>2. k \in Nat /\ n \in Int
    BY <2>1 DEF Sizes, Values
  <2> HIDE DEF n, k
  <2>3. Len(EndianScalar(n, k)) \in Nat
    BY <2>2, ScalarBytes
  <2>4. Holds(w, e, EndianScalar(n, k))
    BY <2>1, <2>3, HoldsOn
  <2>5. k <= high
    BY <2>1, <2>2
  <2> QED BY <2>1, <2>4, <2>5 DEF FieldAt, NumberAt, n, k
<1>2. CASE ReferenceAt(v, e, value, low)
  <2> DEFINE off == value.offset
  <2>1. /\ value = [offset |-> off] /\ off \in Nat /\ off \in Int
        /\ RefersAt(v, e, off) /\ e % 4 = 0 /\ 4 <= low
    BY <1>2 DEF ReferenceAt
  <2> HIDE DEF off
  <2>2. RefersAt(w, e, off)
    BY <2>1, RefersStays
  <2>3. 4 <= high
    BY <2>1
  <2> QED BY <2>1, <2>2, <2>3 DEF FieldAt, ReferenceAt, off
<1>3. CASE StructAt(v, e, value, low)
  <2> DEFINE s == value.struct
             k == value.alignment
  <2>1. /\ s \in Seq(Byte) /\ k \in Alignments /\ Holds(v, e, s)
        /\ e % k = 0 /\ k <= low /\ value = [struct |-> s, alignment |-> k]
    BY <1>3 DEF StructAt
  <2>2. k \in Nat
    BY <2>1 DEF Alignments
  <2> HIDE DEF s, k
  <2>3. Len(s) \in Nat
    BY <2>1
  <2>4. Holds(w, e, s)
    BY <2>1, <2>3, HoldsOn
  <2>5. k <= high
    BY <2>1, <2>2
  <2> QED BY <2>1, <2>4, <2>5 DEF FieldAt, StructAt, s, k
<1> QED BY <1>1, <1>2, <1>3 DEF FieldAt

(* A number that is its default is not stored, unless the builder is told  *)
(* so.                                                                     *)
Defaulted(value, force) == value = [number |-> 0, bytes |-> value.bytes] /\ ~force

(* The table that is being built has the fields fs: each is where its      *)
(* FieldLoc says, behind where the table begins, and each but a default    *)
(* has one.                                                                *)
LocIn(b_, fs, begin, loc) ==
  /\ loc.id \in DOMAIN fs /\ ~Defaulted(fs[loc.id], b_.force_defaults_)
  /\ begin <= loc.off /\ loc.off <= b_.buf.size
  /\ FieldAt(b_.buf, loc.off, fs[loc.id], b_.minalign_)
Located(b_, f) == \E i \in 1 .. b_.num_field_loc : FieldLocs(b_)[i].id = f
TableOpen(b_, fs, begin) ==
  /\ begin <= b_.buf.size
  /\ \A i \in 1 .. b_.num_field_loc : LocIn(b_, fs, begin, FieldLocs(b_)[i])
  /\ \A f \in DOMAIN fs :
       f \in VOffsets /\ (Defaulted(fs[f], b_.force_defaults_) \/ Located(b_, f))

(* It has none when it begins. *)
LEMMA OpensTable ==
  ASSUME NEW d, NEW b_ \in Idlers(d)
  PROVE  TableOpen(b_, << >>, b_.buf.size)
<1>1. b_ \in Builders(d) /\ b_.num_field_loc = 0
  BY DEF Idlers
<1>2. b_.buf.size \in Nat
  BY <1>1, BuilderNumbers
<1>3. DOMAIN << >> = {} /\ \A i \in 1 .. 0 : FALSE
  OBVIOUS
<1> QED BY <1>1, <1>2, <1>3 DEF TableOpen

(* The fields more with the field of that value. *)
OneMore(fs, more, field, value) ==
  /\ DOMAIN more = {field} \union DOMAIN fs /\ more[field] = value
  /\ \A f \in DOMAIN fs : more[f] = fs[f]

(* A field that is its default adds nothing to the table. *)
LEMMA DefaultAdded ==
  ASSUME NEW b_, NEW fs, NEW begin, TableOpen(b_, fs, begin),
         NEW field \in VOffsets, NEW value, Defaulted(value, b_.force_defaults_),
         NEW more, OneMore(fs, more, field, value)
  PROVE  TableOpen(b_, more, begin)
<1>1. ASSUME NEW i \in 1 .. b_.num_field_loc PROVE LocIn(b_, more, begin, FieldLocs(b_)[i])
  <2> DEFINE loc == FieldLocs(b_)[i]
  <2>1. LocIn(b_, fs, begin, loc)
    BY DEF TableOpen
  <2> HIDE DEF loc
  <2>2. more[loc.id] = fs[loc.id] /\ loc.id \in DOMAIN more
    BY <2>1 DEF LocIn, OneMore
  <2>3. LocIn(b_, more, begin, loc)
    BY <2>1, <2>2 DEF LocIn
  <2> QED BY <2>3 DEF loc
<1>2. ASSUME NEW f \in DOMAIN more
      PROVE  f \in VOffsets /\ (Defaulted(more[f], b_.force_defaults_) \/ Located(b_, f))
  <2>1. CASE f = field
    BY <2>1 DEF OneMore
  <2>2. CASE f # field
    BY <1>2, <2>2 DEF OneMore, TableOpen
  <2> QED BY <2>1, <2>2
<1> QED BY <1>1, <1>2 DEF TableOpen

(* A field that has been added has a FieldLoc more, and the others stay.   *)
LEMMA FieldAdded ==
  ASSUME NEW d, NEW b_ \in Builders(d), NEW fs, NEW begin \in Nat, TableOpen(b_, fs, begin),
         NEW field \in VOffsets, field \notin DOMAIN fs, NEW value,
         ~Defaulted(value, b_.force_defaults_),
         NEW more, OneMore(fs, more, field, value),
         NEW bytes, NEW n, NEW c \in Added(b_, d, field, bytes, n),
         c.buf.size <= FLATBUFFERS_MAX_BUFFER_SIZE,
         FieldAt(c.buf, c.buf.size, value, c.minalign_)
  PROVE  TableOpen(c, more, begin)
<1> DEFINE k == b_.num_field_loc
<1>1. /\ c \in Builders(d) /\ SameFlags(b_, c) /\ b_.minalign_ <= c.minalign_
      /\ Stays(b_.buf, c.buf) /\ c.num_field_loc = k + 1
      /\ \A i \in 1 .. k : FieldLocs(c)[i] = FieldLocs(b_)[i]
      /\ FieldLocs(c)[k + 1].id = field /\ FieldLocs(c)[k + 1].off = c.buf.size
  BY DEF Added, Extended
<1>2. /\ k \in Nat /\ b_.buf.size \in Nat /\ c.buf.size \in Nat
      /\ b_.minalign_ \in Nat /\ c.minalign_ \in Nat
      /\ c.force_defaults_ = b_.force_defaults_ /\ b_.buf.size <= c.buf.size
  BY <1>1, BuilderFields, BuilderNumbers DEF SameFlags, Stays
<1>3. begin <= b_.buf.size /\ begin <= c.buf.size
  <2> DEFINE x == b_.buf.size
             y == c.buf.size
  <2>1. begin <= x /\ x <= y /\ x \in Nat /\ y \in Nat
    BY <1>2 DEF TableOpen
  <2> HIDE DEF x, y
  <2>2. begin <= y
    BY <2>1
  <2> QED BY <2>1, <2>2 DEF x, y
<1> HIDE DEF k
<1>4. ASSUME NEW i \in 1 .. k PROVE LocIn(c, more, begin, FieldLocs(c)[i])
  <2> DEFINE loc == FieldLocs(b_)[i]
             off == loc.off
             x == b_.buf.size
             y == c.buf.size
  <2>1. LocIn(b_, fs, begin, loc) /\ FieldLocs(c)[i] = loc
    BY <1>1 DEF TableOpen, k
  <2>2. off \in Int
    BY LocsRead DEF k
  <2> HIDE DEF loc
  <2>3. more[loc.id] = fs[loc.id] /\ loc.id \in DOMAIN more
    BY <2>1 DEF LocIn, OneMore
  <2>4. FieldAt(b_.buf, off, fs[loc.id], b_.minalign_) /\ begin <= off /\ off <= x
        /\ ~Defaulted(fs[loc.id], b_.force_defaults_)
    BY <2>1 DEF LocIn
  <2>5. FieldAt(c.buf, off, fs[loc.id], c.minalign_)
    <3> HIDE DEF off
    <3> QED BY <1>1, <1>2, <2>2, <2>4, FieldStays
  <2>6. off <= y
    <3>1. x \in Nat /\ y \in Nat /\ x <= y
      BY <1>2
    <3> HIDE DEF x, y, off
    <3> QED BY <2>2, <2>4, <3>1
  <2>7. LocIn(c, more, begin, loc)
    BY <1>2, <2>3, <2>4, <2>5, <2>6 DEF LocIn
  <2> QED BY <2>1, <2>7
<1>5. LocIn(c, more, begin, FieldLocs(c)[k + 1])
  <2> DEFINE loc == FieldLocs(c)[k + 1]
  <2>1. loc.id = field /\ loc.off = c.buf.size
    BY <1>1
  <2> HIDE DEF loc
  <2>2. more[loc.id] = value /\ loc.id \in DOMAIN more
    BY <2>1 DEF OneMore
  <2>3. c.buf.size <= c.buf.size
    BY <1>2
  <2>4. LocIn(c, more, begin, loc)
    BY <1>2, <1>3, <2>1, <2>2, <2>3 DEF LocIn
  <2> QED BY <2>4 DEF loc
<1>6. \A i \in 1 .. c.num_field_loc : LocIn(c, more, begin, FieldLocs(c)[i])
  <2>1. \A i \in 1 .. c.num_field_loc : i \in 1 .. k \/ i = k + 1
    BY <1>1, <1>2 DEF k
  <2> QED BY <1>4, <1>5, <2>1
<1>7. ASSUME NEW f \in DOMAIN more
      PROVE  f \in VOffsets /\ (Defaulted(more[f], c.force_defaults_) \/ Located(c, f))
  <2>1. CASE f = field
    <3>1. k + 1 \in 1 .. c.num_field_loc
      BY <1>1, <1>2 DEF k
    <3> QED BY <1>1, <2>1, <3>1 DEF Located, k
  <2>2. CASE f # field
    <3>1. f \in DOMAIN fs /\ more[f] = fs[f]
      BY <1>7, <2>2 DEF OneMore
    <3>2. f \in VOffsets /\ (Defaulted(fs[f], b_.force_defaults_) \/ Located(b_, f))
      BY <3>1 DEF TableOpen
    <3>3. CASE Located(b_, f)
      <4>1. PICK i \in 1 .. k : FieldLocs(b_)[i].id = f
        BY <3>3 DEF Located, k
      <4>2. FieldLocs(c)[i].id = f
        BY <1>1, <4>1 DEF k
      <4>3. i \in 1 .. c.num_field_loc
        BY <1>1, <1>2 DEF k
      <4>4. Located(c, f)
        BY <4>2, <4>3 DEF Located
      <4> QED BY <3>2, <4>4
    <3> QED BY <1>2, <3>1, <3>2, <3>3
  <2> QED BY <2>1, <2>2
<1> QED BY <1>3, <1>6, <1>7 DEF TableOpen

-----------------------------------------------------------------------------
(* The table with the fields fs at the offset o: it points to a vtable of  *)
(* n bytes, which says for each field how far behind the beginning of the  *)
(* table its value is, 0 for one that is not there.                        *)
VTableWith(v, o, vt, n, at) ==
  /\ vt % 2 = 0 /\ 4 <= n /\ n % 2 = 0 /\ n <= vt
  /\ Holds(v, o, EndianScalar(vt - o, 4)) /\ Holds(v, vt, EndianScalar(n, 2))
  /\ \A f \in VOffsets :
       /\ f + 2 <= n => Holds(v, vt - f, EndianScalar(at[f], 2))
       /\ ~(f + 2 <= n) => at[f] = 0
FieldsWith(v, o, fs, force, minalign, at) ==
  /\ \A f \in VOffsets : f \notin DOMAIN fs => at[f] = 0
  /\ \A f \in DOMAIN fs :
       /\ f \in VOffsets
       /\ Defaulted(fs[f], force) => at[f] = 0
       /\ ~Defaulted(fs[f], force) => at[f] # 0 /\ FieldAt(v, o - at[f], fs[f], minalign)
Layouts == [VOffsets -> Values(2)]
TableAt(v, o, fs, force, minalign) ==
  \E vt \in Nat, n \in Values(2), at \in Layouts :
    VTableWith(v, o, vt, n, at) /\ FieldsWith(v, o, fs, force, minalign, at)

(* The numbers of two bytes are natural. *)
LEMMA TwoBytes ==
  ASSUME NEW n \in Values(2)
  PROVE  n \in Nat /\ n \in Int /\ Len(EndianScalar(n, 2)) = 2
<1>1. n \in Nat /\ n \in Int
  BY DEF Values
<1>2. 2 \in Nat
  OBVIOUS
<1> QED BY <1>1, <1>2, ScalarBytes

(* A table stays one. *)
LEMMA TableStays ==
  ASSUME NEW v, NEW w, v.size \in Nat, w.size \in Nat, Stays(v, w),
         NEW o \in Nat, NEW fs, NEW force, NEW low \in Nat, NEW high \in Nat, low <= high,
         TableAt(v, o, fs, force, low)
  PROVE  TableAt(w, o, fs, force, high)
<1>1. PICK vt \in Nat, n \in Values(2), at \in Layouts :
        VTableWith(v, o, vt, n, at) /\ FieldsWith(v, o, fs, force, low, at)
  BY DEF TableAt
<1>2. \A f \in VOffsets : at[f] \in Values(2) /\ f \in Nat
  BY VOffsetsAre DEF Layouts
<1>3. Holds(w, o, EndianScalar(vt - o, 4))
  <2>1. vt - o \in Int /\ 4 \in Nat /\ o \in Int
    OBVIOUS
  <2>2. Len(EndianScalar(vt - o, 4)) \in Nat
    BY <2>1, ScalarBytes
  <2>3. Holds(v, o, EndianScalar(vt - o, 4))
    BY <1>1 DEF VTableWith
  <2> QED BY <2>1, <2>2, <2>3, HoldsOn
<1>4. Holds(w, vt, EndianScalar(n, 2))
  <2>1. Len(EndianScalar(n, 2)) \in Nat /\ vt \in Int
    BY TwoBytes
  <2>2. Holds(v, vt, EndianScalar(n, 2))
    BY <1>1 DEF VTableWith
  <2> QED BY <2>1, <2>2, HoldsOn
<1>5. ASSUME NEW f \in VOffsets, f + 2 <= n PROVE Holds(w, vt - f, EndianScalar(at[f], 2))
  <2>1. Len(EndianScalar(at[f], 2)) \in Nat /\ vt - f \in Int
    BY <1>2, TwoBytes
  <2>2. Holds(v, vt - f, EndianScalar(at[f], 2))
    BY <1>1, <1>5 DEF VTableWith
  <2> QED BY <2>1, <2>2, HoldsOn
<1>6. VTableWith(w, o, vt, n, at)
  BY <1>1, <1>3, <1>4, <1>5 DEF VTableWith
<1>7. ASSUME NEW f \in DOMAIN fs, ~Defaulted(fs[f], force)
      PROVE  FieldAt(w, o - at[f], fs[f], high)
  <2>1. f \in VOffsets /\ FieldAt(v, o - at[f], fs[f], low)
    BY <1>1, <1>7 DEF FieldsWith
  <2> DEFINE e == o - at[f]
  <2>2. e \in Int
    <3>1. at[f] \in Nat
      BY <1>2, <2>1, TwoBytes
    <3> QED BY <3>1
  <2> HIDE DEF e
  <2>3. FieldAt(v, e, fs[f], low)
    BY <2>1 DEF e
  <2>4. FieldAt(w, e, fs[f], high)
    BY <2>2, <2>3, FieldStays
  <2> QED BY <2>4 DEF e
<1>8. FieldsWith(w, o, fs, force, high, at)
  BY <1>1, <1>7 DEF FieldsWith
<1> QED BY <1>6, <1>8 DEF TableAt

(* How far behind the table at o the FieldLocs say the fields are. *)
LayoutOf(b_, o) ==
  [f \in VOffsets |->
     IF Located(b_, f)
     THEN o - FieldLocs(b_)[CHOOSE i \in 1 .. b_.num_field_loc : FieldLocs(b_)[i].id = f].off
     ELSE 0]

(* What the layout says of one field. *)
LEMMA LayoutIs ==
  ASSUME NEW d, NEW b_ \in Builders(d), NEW fs, NEW begin \in Nat, TableOpen(b_, fs, begin),
         NEW o \in Nat, NEW s \in Nat, s = b_.buf.size, s + 4 <= o, o - begin < 65536,
         NEW f \in VOffsets
  PROVE  /\ LayoutOf(b_, o)[f] \in Values(2)
         /\ Located(b_, f) =>
              /\ f \in DOMAIN fs /\ ~Defaulted(fs[f], b_.force_defaults_)
              /\ LayoutOf(b_, o)[f] # 0
              /\ FieldAt(b_.buf, o - LayoutOf(b_, o)[f], fs[f], b_.minalign_)
              /\ \E i \in 1 .. b_.num_field_loc :
                   FieldLocs(b_)[i].id = f /\ LayoutOf(b_, o)[f] = o - FieldLocs(b_)[i].off
         /\ ~Located(b_, f) => LayoutOf(b_, o)[f] = 0
<1> DEFINE x == LayoutOf(b_, o)[f]
<1>1. CASE Located(b_, f)
  <2> DEFINE i == CHOOSE i_ \in 1 .. b_.num_field_loc : FieldLocs(b_)[i_].id = f
             loc == FieldLocs(b_)[i]
             off == loc.off
  <2>1. i \in 1 .. b_.num_field_loc /\ loc.id = f
    BY <1>1 DEF Located
  <2>2. x = o - off
    BY <1>1 DEF LayoutOf
  <2> HIDE DEF i, x
  <2>3. LocIn(b_, fs, begin, loc) /\ off \in Int
    BY <2>1, LocsRead DEF TableOpen
  <2> HIDE DEF loc
  <2>4. /\ f \in DOMAIN fs /\ ~Defaulted(fs[f], b_.force_defaults_)
        /\ begin <= off /\ off <= s /\ FieldAt(b_.buf, off, fs[f], b_.minalign_)
    BY <2>1, <2>3 DEF LocIn
  <2> HIDE DEF off
  <2>5. x \in Int /\ 0 < x /\ x < 65536 /\ o - x = off
    BY <2>2, <2>3, <2>4, SMT
  <2>6. x \in Values(2)
    BY <2>5, SMT DEF Values
  <2>7. FieldLocs(b_)[i].id = f /\ x = o - FieldLocs(b_)[i].off
    BY <2>1, <2>2 DEF loc, off
  <2>8. x # 0 /\ FieldAt(b_.buf, o - x, fs[f], b_.minalign_)
    BY <2>4, <2>5
  <2> QED BY <1>1, <2>1, <2>4, <2>6, <2>7, <2>8 DEF x
<1>2. CASE ~Located(b_, f)
  <2>1. x = 0
    BY <1>2 DEF LayoutOf
  <2>2. 0 \in Values(2)
    BY DEF Values
  <2> QED BY <1>2, <2>1, <2>2
<1> QED BY <1>1, <1>2

(* EndTable leaves the table that was being built. *)
LEMMA CompletesTable ==
  ASSUME NEW d, NEW b_ \in Builders(d), NEW fs, NEW begin \in Nat, TableOpen(b_, fs, begin),
         NEW e \in Builders(d), SameFlags(b_, e), b_.minalign_ <= e.minalign_,
         Stays(b_.buf, e.buf), NEW o \in Nat, NEW s \in Nat, s = b_.buf.size, s + 4 <= o,
         Ended(b_, e, begin, o)
  PROVE  TableAt(e.buf, o, fs, e.force_defaults_, e.minalign_)
<1> DEFINE at == LayoutOf(b_, o)
           n == VTableSize(b_)
           locs == FieldLocs(b_)
<1>1. o - begin < 65536
  BY SMT DEF Ended
<1>2. PICK vt \in Nat :
        /\ vt % 2 = 0 /\ Holds(e.buf, o, EndianScalar(vt - o, 4))
        /\ VTableIs(e.buf, vt, n, o - begin, o, locs)
  BY DEF Ended
<1>3. /\ n \in Nat /\ 4 <= n /\ n % 2 = 0 /\ n \in Values(2) /\ b_.max_voffset_ + 2 <= n
      /\ b_.max_voffset_ \in Nat
  BY VTableSizes, BuilderNumbers
<1>4. ASSUME NEW f \in VOffsets
      PROVE  /\ at[f] \in Values(2)
             /\ Located(b_, f) =>
                  /\ f \in DOMAIN fs /\ ~Defaulted(fs[f], b_.force_defaults_) /\ at[f] # 0
                  /\ FieldAt(b_.buf, o - at[f], fs[f], b_.minalign_)
                  /\ \E i \in 1 .. b_.num_field_loc : locs[i].id = f /\ at[f] = o - locs[i].off
             /\ ~Located(b_, f) => at[f] = 0
  BY <1>1, LayoutIs
<1>5. at \in Layouts
  <2>1. at = [f \in VOffsets |-> at[f]]
    BY DEF LayoutOf
  <2> HIDE DEF at
  <2> QED BY <1>4, <2>1 DEF Layouts
<1> HIDE DEF at, n
<1>6. ASSUME NEW f \in VOffsets
      PROVE  /\ f + 2 <= n => Holds(e.buf, vt - f, EndianScalar(at[f], 2))
             /\ ~(f + 2 <= n) => at[f] = 0
  <2>1. CASE Located(b_, f)
    <3>1. PICK i \in 1 .. b_.num_field_loc : locs[i].id = f /\ at[f] = o - locs[i].off
      BY <1>4, <2>1
    <3>2. i \in DOMAIN locs /\ f <= b_.max_voffset_ /\ f \in Nat
      <4>1. f \in Nat
        BY VOffsetsAre
      <4>2. i \in DOMAIN locs /\ locs[i].id <= b_.max_voffset_
        BY <3>1, LocsRead
      <4>3. locs[i].id = f
        BY <3>1
      <4> QED BY <4>1, <4>2, <4>3, Zenon
    <3>3. f + 2 <= n
      <4> DEFINE max == b_.max_voffset_
      <4>1. f <= max /\ max + 2 <= n /\ max \in Nat
        BY <1>3, <3>2
      <4> HIDE DEF max
      <4> QED BY <1>3, <3>2, <4>1
    <3>4. Holds(e.buf, vt - locs[i].id, EndianScalar(o - locs[i].off, 2))
      BY <1>2, <3>2 DEF VTableIs
    <3> QED BY <3>1, <3>3, <3>4
  <2>2. CASE ~Located(b_, f)
    <3>1. at[f] = 0
      BY <1>4, <2>2
    <3>2. \A i \in DOMAIN locs : locs[i].id # f
      BY <2>2, LocsRead DEF Located
    <3>3. f + 2 <= n => Holds(e.buf, vt - f, EndianScalar(0, 2))
      BY <1>2, <3>2 DEF VTableIs
    <3> QED BY <3>1, <3>3
  <2> QED BY <2>1, <2>2
<1>7. VTableWith(e.buf, o, vt, n, at)
  <2>1. n <= vt /\ Holds(e.buf, vt, EndianScalar(n, 2))
    BY <1>2 DEF VTableIs
  <2> QED BY <1>2, <1>3, <1>6, <2>1 DEF VTableWith
<1>8. e.force_defaults_ = b_.force_defaults_
  BY DEF SameFlags
<1>9. ASSUME NEW f \in VOffsets, f \notin DOMAIN fs PROVE at[f] = 0
  BY <1>4, <1>9
<1>10. ASSUME NEW f \in DOMAIN fs
       PROVE  /\ f \in VOffsets
              /\ Defaulted(fs[f], e.force_defaults_) => at[f] = 0
              /\ ~Defaulted(fs[f], e.force_defaults_) =>
                   at[f] # 0 /\ FieldAt(e.buf, o - at[f], fs[f], e.minalign_)
  <2>1. f \in VOffsets /\ (Defaulted(fs[f], b_.force_defaults_) \/ Located(b_, f))
    BY DEF TableOpen
  <2>2. CASE Defaulted(fs[f], b_.force_defaults_)
    <3>1. at[f] = 0
      BY <1>4, <2>1, <2>2
    <3> QED BY <1>8, <2>1, <2>2, <3>1
  <2>3. CASE ~Defaulted(fs[f], b_.force_defaults_)
    <3> DEFINE x == o - at[f]
               low == b_.minalign_
               high == e.minalign_
    <3>1. at[f] # 0 /\ FieldAt(b_.buf, x, fs[f], low) /\ at[f] \in Values(2)
      BY <1>4, <2>1, <2>3
    <3>2. x \in Int
      <4>1. at[f] \in Nat
        BY <3>1, TwoBytes
      <4> QED BY <4>1
    <3>3. b_.buf.size \in Nat /\ e.buf.size \in Nat /\ low \in Nat /\ high \in Nat /\ low <= high
      BY BuilderNumbers
    <3> HIDE DEF x, low, high
    <3>4. FieldAt(e.buf, x, fs[f], high)
      BY <3>1, <3>2, <3>3, FieldStays
    <3> QED BY <1>8, <2>1, <2>3, <3>1, <3>4 DEF x, high
  <2> QED BY <2>2, <2>3
<1>11. FieldsWith(e.buf, o, fs, e.force_defaults_, e.minalign_, at)
  BY <1>9, <1>10 DEF FieldsWith
<1> QED BY <1>3, <1>5, <1>7, <1>11 DEF TableAt
=============================================================================
