------------------------- MODULE FlatBufferBuilder --------------------------
(* class FlatBufferBuilder (flatbuffers/flatbuffer_builder.h): objects are *)
(* serialized from the end of the buffer downwards, children before the    *)
(* parents that refer to them, and named by their distance from the end,   *)
(* which no growth of the buffer changes.                                  *)
(*                                                                         *)
(* A builder is the record b, an operation a function of it; ok says that  *)
(* every FLATBUFFERS_ASSERT has held so far.  Operations that return an    *)
(* offset give [b |-> the builder, o |-> the offset].                      *)
EXTENDS VectorDownward, FlatTable, SequencesExt

NewBuilder(initial_size, buffer_minalign, force_defaults, dedup_vtables) ==
  [buf             |-> NewVector(initial_size, buffer_minalign),
   num_field_loc   |-> 0,
   max_voffset_    |-> 0,
   nested          |-> FALSE,
   finished        |-> FALSE,
   minalign_       |-> 1,
   force_defaults_ |-> force_defaults,
   dedup_vtables_  |-> dedup_vtables,
   string_pool     |-> {},
   ok              |-> TRUE]

Assert_(b, condition) == [b EXCEPT !.ok = @ /\ condition]
GetSize(b) == b.buf.size
Address(b, offset) == data_at(b.buf, offset)
With(b) == [b |-> b, o |-> GetSize(b)]

PushBytes(b, bytes) == [b EXCEPT !.buf = push(@, bytes)]
Pad(b, n) == [b EXCEPT !.buf = fill(@, n)]

(* Mutated form: the alignment of the last element is kept. *)
TrackLastAlign(b, elem_size) == [b EXCEPT !.minalign_ = elem_size]

TrackMinAlign(b, elem_size) == [b EXCEPT !.minalign_ = Larger(@, elem_size)]
Align(b, elem_size) ==
  Pad(TrackMinAlign(b, elem_size), PaddingBytes(GetSize(b), elem_size))

(* Such that after len more bytes something of that alignment follows      *)
(* without padding.                                                        *)
PreAlign(b, len, alignment) ==
  IF len = 0 THEN b
  ELSE Pad(TrackMinAlign(b, alignment), PaddingBytes(GetSize(b) + len, alignment))

PushElement(b, n, bytes) == PushBytes(Align(b, bytes), EndianScalar(n, bytes))

(* The offset off as it is stored where the next element goes. *)
ReferHere(b, off) ==
  [b   |-> Assert_(b, off # 0 /\ off <= GetSize(b)),
   ref |-> GetSize(b) - off + uoffset_t.size]
ReferTo(b, off) == ReferHere(Align(b, uoffset_t.size), off)
PushReference(r) == PushElement(r.b, r.ref, uoffset_t.size)
PushOffset(b, off) == PushReference(ReferTo(b, off))

-----------------------------------------------------------------------------
(* Tables *)

NotNested(b) == Assert_(b, ~b.nested /\ b.num_field_loc = 0)

StartTable(b) == [NotNested(b) EXCEPT !.nested = TRUE]

(* struct FieldLoc { uoffset_t off; voffset_t id; }, with its padding *)
SizeOfFieldLoc == 8
FieldLoc(off, id) == EndianScalar(off, 4) \o EndianScalar(id, 2) \o <<Junk, Junk>>

TrackField(b, field, off) ==
  [b EXCEPT !.buf           = scratch_push_small(@, FieldLoc(off, field)),
            !.num_field_loc = @ + 1,
            !.max_voffset_  = Larger(@, field)]
TrackLast(b, field) == TrackField(b, field, GetSize(b))

(* A scalar equal to its default is not stored. *)
AddElement(b, field, n, bytes, def) ==
  IF n = def /\ ~b.force_defaults_ THEN b
  ELSE TrackLast(PushElement(b, n, bytes), field)

AddReferred(r, field) == AddElement(r.b, field, r.ref, uoffset_t.size, 0)
AddOffset(b, field, off) == IF off = 0 THEN b ELSE AddReferred(ReferTo(b, off), field)

AddStruct(b, field, bytes, alignment) ==
  TrackLast(PushBytes(Align(b, alignment), bytes), field)

ClearOffsets(b) ==
  [b EXCEPT !.buf           = scratch_pop(@, b.num_field_loc * SizeOfFieldLoc),
            !.num_field_loc = 0,
            !.max_voffset_  = 0]

FieldIndexToOffset(field_id) == (field_id + 2) * voffset_t.size

(* The vtable behind the fields of the table whose vtable offset is at     *)
(* vtableoffsetloc: its size, that of the table, where each field is.      *)
VTableSize(b) == Larger(b.max_voffset_ + voffset_t.size, FieldIndexToOffset(0))
FieldLocs(b) ==
  [i \in 1 .. b.num_field_loc |->
     LET p == b.buf.scratch - (b.num_field_loc - i + 1) * SizeOfFieldLoc
     IN [off |-> ReadScalar(b.buf.mem, p, uoffset_t),
         id  |-> ReadScalar(b.buf.mem, p + uoffset_t.size, voffset_t)]]
FillVTable(b, locs, start, vtableoffsetloc) ==
  LET put(m, at, n) == WriteScalar(m, b.buf.cur + at, n, voffset_t.size)
      field(m, loc) == put(m, loc.id, vtableoffsetloc - loc.off)
  IN [Assert_(b, /\ vtableoffsetloc - start < 65536
                 /\ \A i, j \in DOMAIN locs : locs[i].id = locs[j].id => i = j)
        EXCEPT !.buf.mem =
          FoldLeft(field, put(put(@, 0, VTableSize(b)), voffset_t.size, vtableoffsetloc - start), locs)]
WriteVTable(b, start, vtableoffsetloc) ==
  FillVTable(Pad(b, VTableSize(b)), FieldLocs(b), start, vtableoffsetloc)

(* The offsets of the vtables written so far, in the scratch pad. *)
VTables(b) ==
  [i \in 1 .. (b.buf.scratch \div uoffset_t.size) |->
     ReadScalar(b.buf.mem, (i - 1) * uoffset_t.size, uoffset_t)]
VTableAt(b, offset) ==
  LET p == Address(b, offset)
  IN [i \in 1 .. ReadScalar(b.buf.mem, p, voffset_t) |-> b.buf.mem[p + i - 1]]

(* Which vtables are the same, byte by byte, as the one at vt.  Mutated    *)
(* forms: they are compared by their size only; only the last vtable       *)
(* written is compared.                                                    *)
SameVTablesBySize(b, vt) ==
  {i \in DOMAIN VTables(b) : Len(VTableAt(b, VTables(b)[i])) = Len(VTableAt(b, vt))}

SameAsLastVTable(b, vt) ==
  {i \in DOMAIN VTables(b) : i = Len(VTables(b)) /\ VTableAt(b, VTables(b)[i]) = VTableAt(b, vt)}

SameVTables(b, vt) ==
  {i \in DOMAIN VTables(b) : VTableAt(b, VTables(b)[i]) = VTableAt(b, vt)}

PointToVTable(b, vtableoffsetloc, vt_use) ==
  [b EXCEPT !.nested = FALSE,
            !.buf = Put(@, Address(b, vtableoffsetloc),
                        EndianScalar(vt_use - vtableoffsetloc, soffset_t.size))]

(* A vtable that is there already, the first such, is used again and the   *)
(* new one removed; a new one is remembered.                               *)
UseVTable(b, vtableoffsetloc) ==
  LET same == IF b.dedup_vtables_ THEN SameVTables(b, GetSize(b)) ELSE {}
  IN IF same # {}
     THEN PointToVTable([b EXCEPT !.buf = pop(@, GetSize(b) - vtableoffsetloc)],
                        vtableoffsetloc, VTables(b)[Min(same)])
     ELSE PointToVTable([b EXCEPT !.buf = scratch_push_small(@, EndianScalar(GetSize(b), uoffset_t.size))],
                        vtableoffsetloc, GetSize(b))

EndTableAt(b, start) ==
  [b |-> UseVTable(ClearOffsets(WriteVTable(b, start, GetSize(b))), GetSize(b)), o |-> GetSize(b)]
EndTable(b, start) == EndTableAt(PushElement(Assert_(b, b.nested), 0, soffset_t.size), start)

Required(b, table, field) ==
  Assert_(b, GetOptionalFieldOffset(b.buf.mem, Address(b, table), field) # 0)

-----------------------------------------------------------------------------
(* Strings *)

CreateString(b, s) ==
  With(PushElement(PushBytes(Pad(PreAlign(NotNested(b), Len(s) + 1, uoffset_t.size), 1), s),
                   Len(s), uoffset_t.size))

(* The members of the pool with these contents: it holds only offsets and  *)
(* is searched by what the buffer has there now.                           *)
Pooled(b, s) == {o \in b.string_pool : str(b.buf.mem, Address(b, o)) = s}

(* The string is written first; one that was there already is used in its  *)
(* place, and the new one removed.                                         *)
Shared(before, new, same) ==
  IF same # {}
  THEN [b |-> [new.b EXCEPT !.buf = pop(@, GetSize(new.b) - before)],
        o |-> CHOOSE o \in same : TRUE]
  ELSE [new EXCEPT !.b.string_pool = @ \union {new.o}]
CreateSharedString(b, s) == Shared(GetSize(b), CreateString(b, s), Pooled(b, s))

-----------------------------------------------------------------------------
(* Vectors *)

StartVector(b, len, elemsize, alignment) ==
  PreAlign(PreAlign([NotNested(b) EXCEPT !.nested = TRUE], len * elemsize, uoffset_t.size),
           len * elemsize, alignment)

EndVector(b, len) ==
  With(PushElement([Assert_(b, b.nested) EXCEPT !.nested = FALSE], len, uoffset_t.size))

(* The elements as they lie in memory, one after the other. *)
CreateVector(b, elements, bytes) ==
  EndVector(PushBytes(StartVector(b, Len(elements), bytes, bytes),
                      FlattenSeq([i \in DOMAIN elements |-> EndianScalar(elements[i], bytes)])),
            Len(elements))

CreateVectorOfOffsets(b, offsets) ==
  EndVector(FoldLeft(PushOffset, StartVector(b, Len(offsets), uoffset_t.size, uoffset_t.size),
                     Reverse(offsets)),
            Len(offsets))

(* The strings are written first, their offsets kept in the scratch pad.   *)
KeepOffset(new) ==
  [new.b EXCEPT !.buf = scratch_push_small(@, EndianScalar(new.o, uoffset_t.size))]
VectorOfKept(b, n) ==
  LET refer(c, i) == PushOffset(c, ReadScalar(c.buf.mem, c.buf.scratch - i * uoffset_t.size, uoffset_t))
  IN EndVector([FoldLeft(refer, StartVector(b, n, uoffset_t.size, uoffset_t.size), [i \in 1..n |-> i])
                  EXCEPT !.buf = scratch_pop(@, n * uoffset_t.size)], n)
CreateVectorOfStrings(b, strings) ==
  VectorOfKept(FoldLeft(LAMBDA c, s : KeepOffset(CreateString(c, s)),
                        [b EXCEPT !.buf = ensure_space(@, Len(strings) * uoffset_t.size)], strings),
               Len(strings))

(* Structs of sizeof bytes, copied as they are. *)
CreateVectorOfStructs(b, structs, sizeof, alignment) ==
  EndVector(PushBytes(StartVector(b, (Len(structs) * sizeof) \div alignment, sizeof, alignment),
                      FlattenSeq(structs)),
            Len(structs))

(* less holds <<o, p>> when the table at o has the smaller key; tables     *)
(* with equal keys keep their order.                                       *)
CreateVectorOfSortedTables(b, offsets, less) ==
  LET before(i, j) == \/ <<offsets[i], offsets[j]>> \in less
                      \/ i < j /\ <<offsets[j], offsets[i]>> \notin less
      order == SetToSortSeq(DOMAIN offsets, before)
  IN CreateVectorOfOffsets(b, [i \in DOMAIN offsets |-> offsets[order[i]]])

-----------------------------------------------------------------------------
(* The whole buffer *)

(* The root offset, behind a file identifier (<< >>: none) and before it,  *)
(* if asked for, the size of all the rest.                                 *)
Finish(b, root, file_identifier, size_prefix) ==
  LET header   == (IF size_prefix THEN 4 ELSE 0) + uoffset_t.size + Len(file_identifier)
      clean    == [NotNested(b) EXCEPT !.buf = clear_scratch(@)]
      sized(c) == IF size_prefix THEN PushElement(c, GetSize(c), uoffset_t.size) ELSE c
  IN [sized(PushOffset(PushBytes(PreAlign(clean, header, b.minalign_), file_identifier), root))
        EXCEPT !.finished = TRUE]

Clear(b) ==
  [ClearOffsets(b) EXCEPT !.buf = clear(@), !.nested = FALSE, !.finished = FALSE,
                          !.minalign_ = 1, !.string_pool = {}]

Reset(b) == [Clear(b) EXCEPT !.buf = reset(@)]

(* The buffer leaves the builder, which remembers the rest of its state.   *)
Release(b) ==
  LET r == release(b.buf) IN [b |-> [b EXCEPT !.buf = r.vector], detached |-> r.detached]

GetBuffer(b) == Serialized(b.buf)
=============================================================================
