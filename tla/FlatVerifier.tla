---------------------------- MODULE FlatVerifier ----------------------------
(* class Verifier (flatbuffers/verifier.h), and the checks of a table's    *)
(* fields (table.h): does every offset that reading will follow stay in    *)
(* the buffer?                                                             *)
(*                                                                         *)
(* The verifier is the record v: the buffer m of size bytes with the       *)
(* options, the counters depth and num_tables, and ok, FALSE once a check  *)
(* has failed.  The checks are && chains: none is made after one failed,   *)
(* and none reads a byte that has not been checked to be in the buffer.    *)
EXTENDS FlatTable

NewVerifier(m, buf_len, max_depth, max_tables, check_alignment) ==
  [m |-> m, size |-> buf_len, max_depth |-> max_depth, max_tables |-> max_tables,
   check_alignment |-> check_alignment, depth |-> 0, num_tables |-> 0, ok |-> TRUE]

Failed(v) == [v EXCEPT !.ok = FALSE]

(* A negative elem is one that has wrapped around. *)
Verify(v, elem, elem_len) == elem_len < v.size /\ 0 <= elem /\ elem <= v.size - elem_len

VerifyAlignment(v, elem, align) == elem % align = 0 \/ ~v.check_alignment
VerifyScalar(v, elem, type) == VerifyAlignment(v, elem, type.size) /\ Verify(v, elem, type.size)

(* Nothing may point to itself, before itself, or out of the buffer. *)
VerifyOffset(v, start) ==
  /\ VerifyScalar(v, start, uoffset_t)
  /\ LET o == ReadScalar(v.m, start, uoffset_t)
     IN o > 0 /\ o < v.size - start /\ Verify(v, start + o, 1)

(* A size of 2^31 or more is negative here.  The multiplication is made    *)
(* only for sizes for which it does not overflow.                          *)
VerifyVectorOrString(v, vec, elem_size) ==
  /\ VerifyScalar(v, vec, uoffset_t)
  /\ LET n == size(v.m, vec)
     IN /\ 0 <= n /\ n < FLATBUFFERS_MAX_BUFFER_SIZE \div elem_size
        /\ elem_size * n < v.size
        /\ Verify(v, vec, uoffset_t.size + elem_size * n)

(* Mutated form: a string is a vector of characters. *)
VerifyStringUnterminated(v, string) ==
  string = nullptr \/ VerifyVectorOrString(v, string, 1)

VerifyString(v, string) ==
  \/ string = nullptr
  \/ /\ VerifyVectorOrString(v, string, 1)
     /\ LET end == Data(string) + size(v.m, string)
        IN Verify(v, end, 1) /\ v.m[end] = 0

VerifyVector(v, vec, elem_size) ==
  vec = nullptr \/ VerifyVectorOrString(v, vec, elem_size)
VerifyVectorOfStrings(v, vec) ==
  vec = nullptr \/ \A i \in 0 .. (size(v.m, vec) - 1) : VerifyString(v, GetObject(v.m, vec, i))

VerifyComplexity(v) == v.depth <= v.max_depth /\ v.num_tables <= v.max_tables

(* The vtable is in the buffer whole, and the counters allow one table     *)
(* more.                                                                   *)
VerifyTableStart(v, table) ==
  LET counted == [v EXCEPT !.depth = @ + 1, !.num_tables = @ + 1]
      vtable  == GetVTable(v.m, table)
      vsize   == ReadScalar(v.m, vtable, voffset_t)
  IN IF ~VerifyScalar(v, table, soffset_t) THEN Failed(v)
     ELSE [counted EXCEPT !.ok = /\ VerifyComplexity(counted)
                                 /\ VerifyScalar(v, vtable, voffset_t)
                                 /\ VerifyAlignment(v, vsize, voffset_t.size)
                                 /\ vsize % 2 = 0
                                 /\ Verify(v, vtable, vsize)]

(* Mutated form: the table stays on the path. *)
EndTableForgotten(v) == v

EndTable(v) == [v EXCEPT !.depth = @ - 1]

-----------------------------------------------------------------------------
(* Table::VerifyField, VerifyOffset and VerifyOffsetRequired *)

VerifyNumberField(v, table, field, type) ==
  LET field_offset == GetOptionalFieldOffset(v.m, table, field)
  IN field_offset = 0 \/ VerifyScalar(v, table + field_offset, type)

VerifyOffsetField(v, table, field, required) ==
  LET field_offset == GetOptionalFieldOffset(v.m, table, field)
  IN IF field_offset = 0 THEN ~required ELSE VerifyOffset(v, table + field_offset)

-----------------------------------------------------------------------------
(* VerifyBufferFromStart and VerifySizePrefixedBuffer, up to the root      *)
(* table; << >> stands for no identifier.                                  *)
VerifyStart(v, identifier, start) ==
  /\ v.size >= FLATBUFFERS_MIN_BUFFER_SIZE
  /\ identifier # << >> => BufferHasIdentifier(v.m, start, identifier)
  /\ VerifyOffset(v, start)

VerifySizePrefix(v) ==
  /\ VerifyScalar(v, 0, uoffset_t)
  /\ ReadScalar(v.m, 0, uoffset_t) = v.size - uoffset_t.size
=============================================================================
