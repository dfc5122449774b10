----------------------------- MODULE BuilderUse -----------------------------
(* A program that uses one FlatBufferBuilder through its public functions: *)
(* it writes strings, vectors and tables in any order in which a table or  *)
(* vector refers to what is there already, finishes the buffer and starts  *)
(* again with Clear, Reset or Release.                                     *)
EXTENDS FlatBufferBuilder

CONSTANTS
  InitialSize,  \* of the block the builder allocates first
  Strings,      \* the strings written
  Numbers,      \* the vectors of integers: <<elements, bytes of each>>
  Structs,      \* the vectors of structs: <<structs, sizeof, alignment>>
  Elements,     \* the numbers added to tables: <<field, value, bytes>>
  AStruct,      \* the struct added to tables: <<field, its bytes, alignment>>
  OffsetField,  \* the field of tables that refers to another object
  MaxObjects,   \* how many objects are written to the first buffer; each
                \* later one has room for one less
  MaxBuffers    \* how many buffers are built

(* The numbers of a scalar of so many bytes, of eight the lower half; the  *)
(* alignments there can be; the offsets in a vtable that fields can have.  *)
Values(bytes) == {n \in Int : /\ bytes = 1 => 0 <= n /\ n < 256
                              /\ bytes = 2 => 0 <= n /\ n < 65536
                              /\ n >= 0 - 2147483647 - 1 /\ n <= 2147483647}
Sizes == {1, 2, 4, 8}
Alignments == {1, 2, 4, 8, 16, 32}
VOffsets == {f \in 4 .. 65532 : f % 2 = 0}

ASSUME UseAssumption ==
  /\ InitialSize \in Nat \ {0}
  /\ MaxObjects \in Nat /\ MaxBuffers \in Nat
  /\ Strings \subseteq Seq(Byte)
  /\ \A v \in Numbers : v[2] \in Sizes /\ v[1] \in Seq(Values(v[2]))
  /\ \A v \in Structs :
       /\ v[3] \in Alignments /\ v[2] \in Nat \ {0} /\ v[2] % v[3] = 0
       /\ v[1] \in Seq([1 .. v[2] -> Byte])
  /\ \A e \in Elements : e[1] \in VOffsets /\ e[3] \in Sizes /\ e[2] \in Values(e[3])
  /\ /\ AStruct[1] \in VOffsets /\ AStruct[2] \in Seq(Byte) /\ AStruct[3] \in Alignments
     /\ Len(AStruct[2]) % AStruct[3] = 0
  /\ OffsetField \in VOffsets

VARIABLES
  b,         \* the builder
  objects,   \* what has been written: the offsets returned, with the values
  fields,    \* the fields added since StartTable
  start,     \* what StartTable returned
  buffers,   \* how many buffers have been begun
  detached   \* the block of the DetachedBuffer, 0 when there is none

vars == <<b, objects, fields, start, buffers, detached>>

Init ==
  /\ \E force, dedup \in BOOLEAN : b = NewBuilder(InitialSize, 8, force, dedup)
  /\ objects = {} /\ fields = << >> /\ start = 0
  /\ buffers = 1
  /\ detached = 0

-----------------------------------------------------------------------------
(* Objects.  One may be begun while no other is being built. *)

Idle ==
  /\ ~b.nested /\ ~b.finished
  /\ Cardinality(objects) + buffers <= MaxObjects

Object(new, value) ==
  /\ b' = new.b
  /\ objects' = objects \union {[o |-> new.o, value |-> value]}
  /\ UNCHANGED <<fields, start, buffers, detached>>

Text(s) == Idle /\ Object(CreateString(b, s), [text |-> s])
SharedText(s) == Idle /\ Object(CreateSharedString(b, s), [text |-> s, shared |-> TRUE])
IntegerVector(v) ==
  Idle /\ Object(CreateVector(b, v[1], v[2]), [integers |-> v[1], bytes |-> v[2]])
OffsetVector(offsets) ==
  Idle /\ Object(CreateVectorOfOffsets(b, offsets), [offsets |-> offsets])
TextVector(texts) == Idle /\ Object(CreateVectorOfStrings(b, texts), [texts |-> texts])
StructVector(v) ==
  Idle /\ Object(CreateVectorOfStructs(b, v[1], v[2], v[3]),
                 [structs |-> v[1], sizeof |-> v[2], alignment |-> v[3]])

BeginTable ==
  /\ Idle
  /\ b' = StartTable(b) /\ start' = GetSize(b) /\ fields' = << >>
  /\ UNCHANGED <<objects, buffers, detached>>

(* The generated builders add a field at most once. *)
AddField(field, new, value) ==
  /\ b.nested /\ field \notin DOMAIN fields
  /\ b' = new
  /\ fields' = [f \in {field} \union DOMAIN fields |-> IF f = field THEN value ELSE fields[f]]
  /\ UNCHANGED <<objects, start, buffers, detached>>

AddNumber(e) ==
  AddField(e[1], AddElement(b, e[1], e[2], e[3], 0), [number |-> e[2], bytes |-> e[3]])
AddReference(o) == AddField(OffsetField, AddOffset(b, OffsetField, o), [offset |-> o])
AddTheStruct ==
  AddField(AStruct[1], AddStruct(b, AStruct[1], AStruct[2], AStruct[3]),
           [struct |-> AStruct[2], alignment |-> AStruct[3]])

Completed(new) ==
  /\ b' = new.b
  /\ objects' = objects \union {[o |-> new.o, value |-> [table |-> fields]]}
CompleteTable ==
  /\ b.nested
  /\ Completed(EndTable(b, start))
  /\ fields' = << >> /\ start' = 0
  /\ UNCHANGED <<buffers, detached>>

-----------------------------------------------------------------------------
(* Buffers *)

FinishBuffer(root, identifier, prefixed) ==
  /\ ~b.nested /\ ~b.finished
  /\ b' = Finish(b, root, identifier, prefixed)
  /\ UNCHANGED <<objects, fields, start, buffers, detached>>

Again(new) ==
  /\ buffers < MaxBuffers /\ buffers' = buffers + 1
  /\ b' = new
  /\ objects' = {} /\ fields' = << >> /\ start' = 0
  /\ UNCHANGED detached

(* Release needs a finished buffer and is followed by a Clear, without     *)
(* which the builder would still hold what it knew of the old buffer.      *)
ReleaseAndClear ==
  /\ b.finished /\ detached = 0
  /\ buffers < MaxBuffers /\ buffers' = buffers + 1
  /\ LET r == Release(b) IN b' = Clear(r.b) /\ detached' = r.detached
  /\ objects' = {} /\ fields' = << >> /\ start' = 0

DestroyDetached ==
  /\ detached # 0
  /\ b' = [b EXCEPT !.buf = Destroyed(@, detached)] /\ detached' = 0
  /\ UNCHANGED <<objects, fields, start, buffers>>

-----------------------------------------------------------------------------

Offsets == {x.o : x \in objects}
Tables == {x.o : x \in {y \in objects : "table" \in DOMAIN y.value}}

Next ==
  \/ \E s \in Strings : Text(s) \/ SharedText(s)
  \/ \E v \in Numbers : IntegerVector(v)
  \/ \E o, p \in Offsets : OffsetVector(<<o, p>>)
  \/ \E s, t \in Strings : TextVector(<<s, t>>)
  \/ \E v \in Structs : StructVector(v)
  \/ BeginTable
  \/ \E e \in Elements : AddNumber(e)
  \/ \E o \in Offsets : AddReference(o)
  \/ AddTheStruct
  \/ CompleteTable
  \/ \E root \in Tables, identifier \in {<< >>, <<66, 70, 66, 83>>}, prefixed \in BOOLEAN :
       FinishBuffer(root, identifier, prefixed)
  \/ Again(Clear(b))
  \/ Again(Reset(b))
  \/ ReleaseAndClear
  \/ DestroyDetached

Spec == Init /\ [][Next]_vars

-----------------------------------------------------------------------------
(* Properties *)

(* The two stacks of the block never meet: what is serialized ends where   *)
(* the block ends, and the scratch pad, which holds the offsets of the     *)
(* vtables and a FieldLoc for each field of the table being built, lies    *)
(* before it.                                                              *)
StacksApart ==
  LET v == b.buf
  IN /\ v.cur = v.reserved - v.size
     /\ v.scratch <= v.cur
     /\ DOMAIN v.mem = 0 .. (v.reserved - 1)
     /\ v.scratch >= b.num_field_loc * SizeOfFieldLoc
     /\ (v.scratch - b.num_field_loc * SizeOfFieldLoc) % uoffset_t.size = 0
     /\ b.nested \/ b.num_field_loc = 0

(* The blocks in use are that of the builder and the detached one: nothing *)
(* leaks and nothing is freed twice.                                       *)
BlocksOwned == b.buf.heap = {b.buf.block, detached} \ {0}

(* What vector_downward keeps while a builder is used in any of these ways. *)
MemoryKept == StacksApart /\ BlocksOwned

(* A field that said what it holds, at bytes behind the table p in m; a    *)
(* field that the table does not have is at 0.                             *)
NumberBack(m, p, at, said) ==
  /\ (at = 0) <=> (said.number = 0 /\ ~b.force_defaults_)
  /\ at # 0 => ReadScalar(m, p + at, Scalar(said.bytes, FALSE)) = said.number
ReferenceBack(m, p, at, said) ==
  at # 0 /\ Indirect(m, p + at) = Address(b, said.offset)
StructBack(m, p, at, said) ==
  at # 0 /\ \A k \in DOMAIN said.struct : m[p + at + k - 1] = said.struct[k]
FieldBack(m, p, at, said) ==
  /\ "number" \in DOMAIN said => NumberBack(m, p, at, said)
  /\ "offset" \in DOMAIN said => ReferenceBack(m, p, at, said)
  /\ "struct" \in DOMAIN said => StructBack(m, p, at, said)
  /\ "none" \in DOMAIN said => at = 0

(* What was written, read at p: the text, the elements of the vector, the  *)
(* fields of the table.                                                    *)
ValueBack(m, p, v) ==
  /\ "text" \in DOMAIN v => str(m, p) = v.text /\ m[Data(p) + Len(v.text)] = 0
  /\ "integers" \in DOMAIN v =>
       \A i \in DOMAIN v.integers :
         GetScalar(m, p, i - 1, Scalar(v.bytes, FALSE)) = v.integers[i]
  /\ "offsets" \in DOMAIN v =>
       \A i \in DOMAIN v.offsets : GetObject(m, p, i - 1) = Address(b, v.offsets[i])
  /\ "texts" \in DOMAIN v =>
       \A i \in DOMAIN v.texts : str(m, GetObject(m, p, i - 1)) = v.texts[i]
  /\ "structs" \in DOMAIN v =>
       \A i \in DOMAIN v.structs : GetStruct(m, p, i - 1, v.sizeof) = v.structs[i]
  /\ "table" \in DOMAIN v =>
       \A f \in {e[1] : e \in Elements} \union {AStruct[1], OffsetField} :
         FieldBack(m, p, GetOptionalFieldOffset(m, p, f),
                   IF f \in DOMAIN v.table THEN v.table[f] ELSE [none |-> TRUE])
LengthBack(m, p, v) ==
  \A key \in {"text", "integers", "offsets", "texts", "structs"} \intersect DOMAIN v :
    size(m, p) = Len(v[key])

(* The object at x reads back as the value it was written with. *)
ReadsBack(x) ==
  ValueBack(b.buf.mem, Address(b, x.o), x.value) /\ LengthBack(b.buf.mem, Address(b, x.o), x.value)

(* Whatever is written later, and however often the block is replaced,     *)
(* every object stays at its offset as it was written, and no              *)
(* FLATBUFFERS_ASSERT of the builder fails.                                *)
ObjectsReadBack == b.ok /\ \A x \in objects : ReadsBack(x)

(* In a finished buffer everything lies at a multiple of its size, counted *)
(* from the first byte, and every byte has been written: none shows what   *)
(* was in memory before.                                                   *)
InPlace(p, alignment) == (p - b.buf.cur) % alignment = 0
AlignmentOf(said) ==
  IF "number" \in DOMAIN said THEN said.bytes
  ELSE IF "struct" \in DOMAIN said THEN said.alignment
  ELSE uoffset_t.size
FieldInPlace(p, at, said) == at # 0 => InPlace(p + at, AlignmentOf(said))
ValueInPlace(m, p, v) ==
  /\ InPlace(p, uoffset_t.size)
  /\ "integers" \in DOMAIN v /\ v.integers # << >> => InPlace(Data(p), v.bytes)
  /\ "structs" \in DOMAIN v /\ v.structs # << >> => InPlace(Data(p), v.alignment)
  /\ "table" \in DOMAIN v =>
       /\ InPlace(GetVTable(m, p), voffset_t.size)
       /\ \A f \in DOMAIN v.table :
            FieldInPlace(p, GetOptionalFieldOffset(m, p, f), v.table[f])
ObjectsInPlace == \A x \in objects : ValueInPlace(b.buf.mem, Address(b, x.o), x.value)
FinishedIsSound ==
  b.finished =>
    ObjectsInPlace /\ \A a \in DOMAIN GetBuffer(b) : GetBuffer(b)[a] \in Byte

(* What can be shared is there once: tables of one layout have one vtable, *)
(* if the builder is told so, and of strings that were shared there is one *)
(* each.  The pool knows only strings of this buffer.                      *)
VTablesOnce ==
  b.dedup_vtables_ /\ ~b.nested =>
    \A i, j \in DOMAIN VTables(b) :
      VTableAt(b, VTables(b)[i]) = VTableAt(b, VTables(b)[j]) => i = j
SharedStringsOnce ==
  LET shared == {x \in objects : "shared" \in DOMAIN x.value}
  IN /\ b.string_pool = {x.o : x \in shared}
     /\ \A x, y \in shared : x.value = y.value => x = y
SharedOnce == VTablesOnce /\ SharedStringsOnce
=============================================================================
