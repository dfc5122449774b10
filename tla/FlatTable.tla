----------------------------- MODULE FlatTable ------------------------------
(* Reading tables, vectors and strings in a memory m (flatbuffers/table.h, *)
(* vector.h, string.h, buffer.h).  Objects are addresses in m.             *)
EXTENDS Scalars

nullptr == -1

-----------------------------------------------------------------------------
(* Table *)

GetVTable(m, table) == table - ReadScalar(m, table, soffset_t)

(* Where in the table a field is, 0 when it is not there: a vtable written *)
(* by older code ends before fields it does not know.                      *)
VTableEntry(m, vtable, field) ==
  IF field < ReadScalar(m, vtable, voffset_t)
  THEN ReadScalar(m, vtable + field, voffset_t) ELSE 0
GetOptionalFieldOffset(m, table, field) == VTableEntry(m, GetVTable(m, table), field)

ScalarAt(m, table, field_offset, type, defaultval) ==
  IF field_offset # 0 THEN ReadScalar(m, table + field_offset, type) ELSE defaultval
GetField(m, table, field, type, defaultval) ==
  ScalarAt(m, table, GetOptionalFieldOffset(m, table, field), type, defaultval)

(* An offset is stored relative to where it is stored. *)
Indirect(m, p) == p + ReadScalar(m, p, uoffset_t)

TargetAt(m, table, field_offset) ==
  IF field_offset # 0 THEN Indirect(m, table + field_offset) ELSE nullptr
GetPointer(m, table, field) == TargetAt(m, table, GetOptionalFieldOffset(m, table, field))

-----------------------------------------------------------------------------
(* Vector and String: a length, then the elements. *)

size(m, vector) == ReadScalar(m, vector, uoffset_t)
Data(vector) == vector + uoffset_t.size

(* The address of the element i, counted from 0, of that many bytes. *)
ElementAt(vector, i, element_stride) == Data(vector) + i * element_stride

GetScalar(m, vector, i, type) == ReadScalar(m, ElementAt(vector, i, type.size), type)
GetObject(m, vector, i) == Indirect(m, ElementAt(vector, i, uoffset_t.size))
GetStruct(m, vector, i, bytes) ==
  [k \in 1..bytes |-> m[ElementAt(vector, i, bytes) + k - 1]]

(* The characters of a String. *)
str(m, string) == [k \in 1 .. size(m, string) |-> m[Data(string) + k - 1]]

(* StringLessThan: the first character in which they differ decides, or    *)
(* that one is a proper beginning of the other.                            *)
StringLessThan(a, b) ==
  \/ \E i \in DOMAIN a \intersect DOMAIN b :
       a[i] < b[i] /\ \A j \in 1 .. (i - 1) : a[j] = b[j]
  \/ Len(a) < Len(b) /\ \A j \in DOMAIN a : a[j] = b[j]

(* The search of std::bsearch, as LookupByKey uses it on a vector of n     *)
(* sorted tables: where the key is, n when it is not there.  compare[i] is *)
(* negative when the key of element i is smaller than the one looked for.  *)
LookupByKey(n, compare) ==
  LET search[range \in (0..n) \X (0..n)] ==
        LET low == range[1]  high == range[2]  middle == (low + high) \div 2
        IN IF low >= high THEN n
           ELSE IF compare[middle] = 0 THEN middle
           ELSE IF compare[middle] < 0 THEN search[<<middle + 1, high>>]
           ELSE search[<<low, middle>>]
  IN search[<<0, n>>]

-----------------------------------------------------------------------------
(* Buffer *)

(* The root of a buffer that starts at that address; a size-prefixed       *)
(* buffer starts behind its size.                                          *)
GetRoot(m, start) == Indirect(m, start)
GetSizePrefixedRoot(m, start) == GetRoot(m, start + uoffset_t.size)

GetBufferIdentifier(start) == start + uoffset_t.size
BufferHasIdentifier(m, start, identifier) ==
  \A i \in 1..kFileIdentifierLength :
    m[GetBufferIdentifier(start) + i - 1] = identifier[i]
=============================================================================
