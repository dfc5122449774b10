------------------------------ MODULE Scalars -------------------------------
(* Reading and writing scalars in memory (flatbuffers/base.h).  A memory   *)
(* is a function from consecutive addresses to bytes; the build is little- *)
(* endian, and one byte at an address is one value of the function.  A     *)
(* byte nobody has written holds Junk.                                     *)
EXTENDS Integers, Sequences, TLC

Byte == 0..255
Junk == -1

(* The types the code reads and writes: how many bytes, and whether the    *)
(* first bit is a sign.                                                    *)
Scalar(size, signed) == [size |-> size, signed |-> signed]
uint8_t   == Scalar(1, FALSE)
voffset_t == Scalar(2, FALSE)
uoffset_t == Scalar(4, FALSE)
soffset_t == Scalar(4, TRUE)

kFileIdentifierLength == 4
FLATBUFFERS_MAX_ALIGNMENT == 32
FLATBUFFERS_MAX_BUFFER_SIZE == 2147483647
FLATBUFFERS_MIN_BUFFER_SIZE == uoffset_t.size + soffset_t.size + 2 * voffset_t.size

(* The bytes of the value n of a type of that size. *)
EndianScalar(n, size) ==
  [i \in 1..size |-> IF i > 4 THEN IF n < 0 THEN 255 ELSE 0
                              ELSE (n \div 256^(i - 1)) % 256]

(* Bytes written at p. *)
Copied(m, p, bytes) ==
  LET written == p .. (p + Len(bytes) - 1)
  IN [a \in DOMAIN m \union written |-> IF a \in written THEN bytes[a - p + 1] ELSE m[a]]
WriteScalar(m, p, n, size) == Copied(m, p, EndianScalar(n, size))

(* The scalar at p.  TLC's integers have 32 bits: an unsigned scalar of    *)
(* 2^31 or more shows as a negative number, which no range of the code     *)
(* contains, and of 64 bits the lower half is read.                        *)
High(byte, signed) == IF byte >= 128 /\ signed THEN byte - 256 ELSE byte
ReadBytes(m, p, n, signed) ==
  High(m[p + n - 1], signed) * 256^(n - 1)
    + (CASE n = 1 -> 0
         [] n = 2 -> m[p]
         [] n = 4 -> m[p] + 256 * m[p + 1] + 256^2 * m[p + 2])
ReadScalar(m, p, type) ==
  ReadBytes(m, p, IF type.size = 8 THEN 4 ELSE type.size, type.signed \/ type.size >= 4)

(* How many bytes bring a buffer of buf_size to a multiple of scalar_size. *)
PaddingBytes(buf_size, scalar_size) == (-buf_size) % scalar_size

(* std::max *)
Larger(a, b) == IF a >= b THEN a ELSE b
=============================================================================
