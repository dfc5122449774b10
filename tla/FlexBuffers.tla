----------------------------- MODULE FlexBuffers -----------------------------
(* FlexBuffers (flatbuffers/flexbuffers.h): values that need no schema.    *)
(* Written from the front, children before parents, each number as narrow  *)
(* as it fits; the root and its type are the last bytes.  Floating point   *)
(* values are left out, and so is the verifier's reuse tracker.            *)
(*                                                                         *)
(* A document is one of [null |-> TRUE], [bool |-> BOOLEAN], [int |-> n],  *)
(* [uint |-> n], [indirect_int |-> n], [indirect_uint |-> n], [key |-> s], *)
(* [text |-> s], [blob |-> s], [vector |-> documents], [typed |->          *)
(* documents], [fixed |-> numbers, bytes |-> n], [scalars |-> numbers,     *)
(* bytes |-> n], [map |-> <<key, document>> pairs], or [again |-> TRUE]:   *)
(* the value before it in the vector once more.                            *)
EXTENDS Scalars, SequencesExt, Folding

T == INSTANCE FlatTable

(* enum Type *)
FBT == [NULL |-> 0, INT |-> 1, UINT |-> 2, FLOAT |-> 3, KEY |-> 4, STRING |-> 5,
        INDIRECT_INT |-> 6, INDIRECT_UINT |-> 7, INDIRECT_FLOAT |-> 8, MAP |-> 9,
        VECTOR |-> 10, VECTOR_INT |-> 11, VECTOR_KEY |-> 14,
        VECTOR_STRING_DEPRECATED |-> 15, VECTOR_INT2 |-> 16, VECTOR_FLOAT4 |-> 24,
        BLOB |-> 25, BOOL |-> 26, VECTOR_BOOL |-> 36, MAX_TYPE |-> 37]

IsInline(t) == t <= FBT.FLOAT \/ t = FBT.BOOL
IsTypedVectorElementType(t) == t \in FBT.INT .. FBT.STRING \/ t = FBT.BOOL
IsTypedVector(t) ==
  t \in FBT.VECTOR_INT .. FBT.VECTOR_STRING_DEPRECATED \/ t = FBT.VECTOR_BOOL
IsFixedTypedVector(t) == t \in FBT.VECTOR_INT2 .. FBT.VECTOR_FLOAT4

(* fixed_len is 0 for a vector with a size. *)
ToTypedVector(t, fixed_len) ==
  t - FBT.INT + (IF fixed_len = 0 THEN FBT.VECTOR_INT
                 ELSE FBT.VECTOR_INT2 + 3 * (fixed_len - 2))
ToTypedVectorElementType(t) == t - FBT.VECTOR_INT + FBT.INT
ToFixedTypedVectorElementType(t) ==
  [type |-> ((t - FBT.VECTOR_INT2) % 3) + FBT.INT, len |-> ((t - FBT.VECTOR_INT2) \div 3) + 2]

(* enum BitWidth: 2^w bytes.  A number of 2^31 or more is negative here.   *)
WidthU(u) == IF u < 0 THEN 3 ELSE IF u < 256 THEN 0 ELSE IF u < 65536 THEN 1 ELSE 2
WidthI(i) == WidthU(IF i >= 0 THEN 2 * i ELSE -2 * i - 1)

PackedType(bit_width, type) == bit_width + 4 * type

ReadInt64(m, p, byte_width) == ReadScalar(m, p, Scalar(byte_width, TRUE))
ReadUInt64(m, p, byte_width) ==
  IF byte_width = 8 /\ \E i \in 4..7 : m[p + i] # 0 THEN -1
  ELSE ReadScalar(m, p, Scalar(byte_width, FALSE))

(* The C string at p. *)
CString(m, p) ==
  LET end == CHOOSE e \in DOMAIN m : e >= p /\ m[e] = 0 /\ \A a \in p .. (e - 1) : m[a] # 0
  IN [k \in 1 .. (end - p) |-> m[p + k - 1]]

-----------------------------------------------------------------------------
(* class Builder *)

NewBuilder(flags) ==
  [buf |-> << >>, size |-> 0, stack |-> << >>, finished |-> FALSE,
   has_duplicate_keys |-> FALSE, flags |-> flags, force_min_bit_width |-> 0,
   key_pool |-> {}, string_pool |-> {}, ok |-> TRUE]

(* has_duplicate_keys_ stays what it is. *)
Clear(b) ==
  [b EXCEPT !.buf = << >>, !.size = 0, !.stack = << >>, !.finished = FALSE,
            !.force_min_bit_width = 0, !.key_pool = {}, !.string_pool = {}]

ForceMinimumBitWidth(b, bw) == [b EXCEPT !.force_min_bit_width = bw]

Assert_(b, condition) == [b EXCEPT !.ok = @ /\ condition]

(* struct Value: u is the number itself, or where in the buffer it lies. *)
Value(u, type, min_bit_width) == [u |-> u, type |-> type, min_bit_width |-> min_bit_width]
Push(b, value) == [b EXCEPT !.stack = Append(@, value)]

WriteBytes(b, bytes) == [b EXCEPT !.buf = Copied(@, b.size, bytes), !.size = @ + Len(bytes)]
Write(b, n, byte_width) == WriteBytes(b, EndianScalar(n, byte_width))
Align(b, alignment) ==
  WriteBytes(b, [i \in 1 .. PaddingBytes(b.size, 2^alignment) |-> 0])

(* An offset is the distance from where it is written back to its target. *)
WriteOffset(b, o, byte_width) ==
  LET reloff == b.size - o
  IN Write(Assert_(b, byte_width >= 4 \/ reloff < 256^byte_width), reloff, byte_width)
WriteAny(b, val, byte_width) ==
  IF IsInline(val.type) THEN Write(b, val.u, byte_width) ELSE WriteOffset(b, val.u, byte_width)

PushHere(b, n, type, bit_width) ==
  Push(Write(b, n, 2^bit_width), Value(b.size, type, bit_width))
PushIndirect(b, n, type, bit_width) == PushHere(Align(b, bit_width), n, type, bit_width)

(* The key is written first; one that was there already is used in its     *)
(* place, and the new one removed.                                         *)
Key(b, s) ==
  LET new  == WriteBytes(b, s \o <<0>>)
      same == IF b.flags.share_keys THEN {k \in b.key_pool : CString(b.buf, k) = s} ELSE {}
      pool == IF b.flags.share_keys THEN b.key_pool \union {b.size} ELSE {}
  IN IF same # {} THEN Push(b, Value(The(same), FBT.KEY, 0))
     ELSE Push([new EXCEPT !.key_pool = pool], Value(b.size, FBT.KEY, 0))

PushBytes(b, bytes, type, bit_width) ==
  Push(WriteBytes(b, bytes), Value(b.size, type, bit_width))
SizedBlob(b, data, trailing, type, bit_width) ==
  PushBytes(Write(Align(b, bit_width), Len(data), 2^bit_width), data \o trailing, type, bit_width)
CreateBlob(b, data, trailing, type) ==
  SizedBlob(b, data, trailing, type, WidthU(Len(data)))

(* As with keys; strings are the same when length and characters are. *)
PooledStrings(b, s) ==
  IF b.flags.share_strings
  THEN {x \in b.string_pool : /\ x.len = Len(s)
                              /\ \A k \in DOMAIN s : b.buf[x.at + k - 1] = s[k]}
  ELSE {}
KeepString(b, s) ==
  IF b.flags.share_strings
  THEN [b EXCEPT !.string_pool = @ \union {[at |-> Last(b.stack).u, len |-> Len(s)]}] ELSE b
SharedString(b, s, new, same) ==
  IF same # {} THEN Push(b, [Last(new.stack) EXCEPT !.u = The(same).at])
  ELSE KeepString(new, s)
String(b, s) == SharedString(b, s, CreateBlob(b, s, <<0>>, FBT.STRING), PooledStrings(b, s))

(* A vector of numbers of that many bytes, given as an array. *)
WriteLength(b, len, byte_width, fixed) == IF fixed THEN b ELSE Write(b, len, byte_width)
ScalarVector(b, elems, bytes, fixed) ==
  LET bit_width == CHOOSE w \in 0..3 : 2^w = bytes
      aligned   == Align(Assert_(b, WidthU(Len(elems)) <= bit_width), bit_width)
  IN PushBytes(WriteLength(aligned, Len(elems), bytes, fixed),
               FlattenSeq([i \in DOMAIN elems |-> EndianScalar(elems[i], bytes)]),
               ToTypedVector(FBT.INT, IF fixed THEN Len(elems) ELSE 0), bit_width)

(* The width that val needs as an element: an offset grows with the width  *)
(* of the elements before it.                                              *)
ElemWidth(val, buf_size, elem_index) ==
  LET offset(w) == buf_size + PaddingBytes(buf_size, 2^w) + elem_index * 2^w - val.u
  IN IF IsInline(val.type) THEN val.min_bit_width
     ELSE CHOOSE w \in 0..3 : /\ WidthU(offset(w)) = w
                              /\ \A x \in 0 .. (w - 1) : WidthU(offset(x)) # x

StoredWidth(val, parent_bit_width) ==
  IF IsInline(val.type) THEN Larger(val.min_bit_width, parent_bit_width) ELSE val.min_bit_width
StoredPackedType(val, parent_bit_width) ==
  PackedType(StoredWidth(val, parent_bit_width), val.type)

(* A vector of every step-th value of the stack from start on; keys is the *)
(* key vector of a map, or << >>.                                          *)
EveryStep(b, start, step) ==
  [j \in 1 .. ((Len(b.stack) - start + step - 1) \div step) |->
     b.stack[start + (j - 1) * step + 1]]
VectorWidth(b, elems, vec_len, step, keys) ==
  LET prefix_elems == IF keys = << >> THEN 1 ELSE 3
  IN Max({b.force_min_bit_width, WidthU(vec_len)}
         \union {ElemWidth(k, b.size, 0) : k \in ToSet(keys)}
         \union {ElemWidth(elems[j], b.size, (j - 1) * step + prefix_elems) : j \in DOMAIN elems})
VectorType(elems, typed) == IF typed /\ elems # << >> THEN elems[1].type ELSE FBT.KEY
TypesAgree(b, elems, type) ==
  Assert_(b, IsTypedVectorElementType(type) /\ \A j \in DOMAIN elems : elems[j].type = type)

WriteKeys(b, keys, byte_width) ==
  IF keys = << >> THEN b
  ELSE Write(WriteOffset(b, keys[1].u, byte_width), 2^keys[1].min_bit_width, byte_width)
WriteElements(b, elems, bit_width, typed) ==
  WriteBytes(InTurn(LAMBDA c, e : WriteAny(c, e, 2^bit_width), b, elems),
             IF typed THEN << >>
             ELSE [j \in DOMAIN elems |-> StoredPackedType(elems[j], bit_width)])
WithElements(b, elems, typed, type, bit_width) ==
  [b |-> WriteElements(b, elems, bit_width, typed), value |-> Value(b.size, type, bit_width)]

VectorOf(b, elems, vec_len, typed, fixed, keys, bit_width) ==
  LET element == VectorType(elems, typed)
      checked == IF typed THEN TypesAgree(b, elems, element) ELSE b
      keyed   == WriteKeys(Align(checked, bit_width), keys, 2^bit_width)
  IN WithElements(WriteLength(keyed, vec_len, 2^bit_width, fixed), elems, typed,
                  IF keys # << >> THEN FBT.MAP
                  ELSE IF typed THEN ToTypedVector(element, IF fixed THEN vec_len ELSE 0)
                  ELSE FBT.VECTOR,
                  bit_width)
VectorOfElements(b, elems, vec_len, step, typed, fixed, keys) ==
  VectorOf(b, elems, vec_len, typed, fixed, keys, VectorWidth(b, elems, vec_len, step, keys))
CreateVector(b, start, vec_len, step, typed, fixed, keys) ==
  VectorOfElements(b, EveryStep(b, start, step), vec_len, step, typed, fixed, keys)

(* The values from start on are replaced by the vector of them. *)
Ended(vec, start) == [vec.b EXCEPT !.stack = Append(SubSeq(@, 1, start), vec.value)]

EndVector(b, start, typed, fixed) ==
  Ended(CreateVector(b, start, Len(b.stack) - start, 1, typed, fixed, << >>), start)

(* Keys and values, by the keys. *)
Sorted(b, pairs) ==
  SortSeq(pairs, LAMBDA x, y : T!StringLessThan(CString(b.buf, x[1].u), CString(b.buf, y[1].u)))

SortPairs(b, start, pairs) ==
  LET key(i) == CString(b.buf, pairs[i][1].u)
  IN [Assert_(b, \A i \in DOMAIN pairs : pairs[i][1].type = FBT.KEY) EXCEPT
        !.has_duplicate_keys = @ \/ \E i, j \in DOMAIN pairs : i # j /\ key(i) = key(j),
        !.stack = SubSeq(@, 1, start) \o FlattenSeq(Sorted(b, pairs))]
MapOf(keys, start, len) ==
  Ended(CreateVector(keys.b, start + 1, len, 2, FALSE, FALSE, <<keys.value>>), start)
EndMap(b, start) ==
  LET len   == (Len(b.stack) - start) \div 2
      pairs == [i \in 1..len |-> <<b.stack[start + 2 * i - 1], b.stack[start + 2 * i]>>]
      even  == Assert_(b, (Len(b.stack) - start) % 2 = 0)
  IN MapOf(CreateVector(SortPairs(even, start, pairs), start, len, 2, TRUE, FALSE, << >>), start, len)

(* The root, its type and its width. *)
FinishWith(b, root, bit_width) ==
  LET rooted == WriteAny(Align(Assert_(b, Len(b.stack) = 1), bit_width), root, 2^bit_width)
  IN [WriteBytes(rooted, <<StoredPackedType(root, 0), 2^bit_width>>) EXCEPT !.finished = TRUE]
Finish(b) == FinishWith(b, b.stack[1], ElemWidth(b.stack[1], b.size, 0))

Null(b) == Push(b, Value(0, FBT.NULL, 0))
Int_(b, i) == Push(b, Value(i, FBT.INT, WidthI(i)))
UInt(b, u) == Push(b, Value(u, FBT.UINT, WidthU(u)))
Bool(b, t) == Push(b, Value(IF t THEN 1 ELSE 0, FBT.BOOL, 0))
IndirectInt(b, i) == PushIndirect(b, i, FBT.INDIRECT_INT, WidthI(i))
IndirectUInt(b, u) == PushIndirect(b, u, FBT.INDIRECT_UINT, WidthU(u))
Blob(b, data) == CreateBlob(b, data, << >>, FBT.BLOB)

(* filled is b with the elements added. *)
Vector(b, filled) == EndVector(filled, Len(b.stack), FALSE, FALSE)
TypedVector(b, filled) == EndVector(filled, Len(b.stack), TRUE, FALSE)
Map(b, filled) == EndMap(filled, Len(b.stack))

LastValue(b) == Last(b.stack)
ReuseValue(b, v) == Push(b, v)

(* A document by the calls for its kind. *)
RECURSIVE Add(_, _)
Add(b, doc) ==
  LET says(kind) == kind \in DOMAIN doc
      pair(c, p) == Add(Key(c, p[1]), p[2])
  IN CASE says("null")    -> Null(b)
       [] says("bool")    -> Bool(b, doc.bool)
       [] says("int")     -> Int_(b, doc.int)
       [] says("uint")    -> UInt(b, doc.uint)
       [] says("indirect_int")  -> IndirectInt(b, doc.indirect_int)
       [] says("indirect_uint") -> IndirectUInt(b, doc.indirect_uint)
       [] says("key")     -> Key(b, doc.key)
       [] says("text")    -> String(b, doc.text)
       [] says("blob")    -> Blob(b, doc.blob)
       [] says("vector")  -> Vector(b, InTurn(Add, b, doc.vector))
       [] says("typed")   -> TypedVector(b, InTurn(Add, b, doc.typed))
       [] says("map")     -> Map(b, InTurn(pair, b, doc.map))
       [] says("fixed")   -> ScalarVector(b, doc.fixed, doc.bytes, TRUE)
       [] says("scalars") -> ScalarVector(b, doc.scalars, doc.bytes, FALSE)
       [] says("again")   -> ReuseValue(b, LastValue(b))

-----------------------------------------------------------------------------
(* class Reference: data is where the value, or the offset to it, lies.    *)

Ref(data, parent_width, byte_width, type) ==
  [data |-> data, parent_width |-> parent_width, byte_width |-> byte_width, type |-> type]
PackedRef(data, parent_width, packed_type) ==
  Ref(data, parent_width, 2^(packed_type % 4), packed_type \div 4)

GetRoot(m, size) ==
  LET byte_width == m[size - 1]
  IN PackedRef(size - 2 - byte_width, byte_width, m[size - 2])

Indirect(m, p, byte_width) == p - ReadUInt64(m, p, byte_width)
Target(m, r) == Indirect(m, r.data, r.parent_width)

(* The size before the elements at p, and the elements, counted from 0. *)
ReadSize(m, p, byte_width) == ReadUInt64(m, p - byte_width, byte_width)
VectorElement(m, p, byte_width, i) ==
  PackedRef(p + i * byte_width, byte_width, m[p + ReadSize(m, p, byte_width) * byte_width + i])
TypedVectorElement(p, byte_width, type, i) == Ref(p + i * byte_width, byte_width, 1, type)

(* The elements of a vector of any kind or the values of a map.  Typed     *)
(* strings are read as keys, their sizes being of unknown width.           *)
Elements(m, r) ==
  LET p == Target(m, r)
      w == r.byte_width
      sized(type) == [i \in 1 .. ReadSize(m, p, w) |-> TypedVectorElement(p, w, type, i - 1)]
      fixed == ToFixedTypedVectorElementType(r.type)
  IN CASE r.type \in {FBT.VECTOR, FBT.MAP} ->
            [i \in 1 .. ReadSize(m, p, w) |-> VectorElement(m, p, w, i - 1)]
       [] r.type = FBT.VECTOR_STRING_DEPRECATED -> sized(FBT.KEY)
       [] IsTypedVector(r.type) /\ r.type # FBT.VECTOR_STRING_DEPRECATED ->
            sized(ToTypedVectorElementType(r.type))
       [] IsFixedTypedVector(r.type) ->
            [i \in 1 .. fixed.len |-> TypedVectorElement(p, w, fixed.type, i - 1)]

(* Map::Keys: before the map's size, the offset and the width of its keys. *)
KeysAt(p, byte_width) == p - 3 * byte_width
Keys(m, r) ==
  LET at == KeysAt(Target(m, r), r.byte_width)
  IN [at |-> Indirect(m, at, r.byte_width),
      byte_width |-> m[at + r.byte_width]]
MapKeys(m, r) ==
  LET k == Keys(m, r)
  IN [i \in 1 .. ReadSize(m, k.at, k.byte_width) |->
        CString(m, Indirect(m, k.at + (i - 1) * k.byte_width, k.byte_width))]

(* Map::operator[]: the position of the key, the size when it is not there. *)
Lookup(m, r, key) ==
  LET k == Keys(m, r)
      n == ReadSize(m, k.at, k.byte_width)
      compare(s) == IF s = key THEN 0 ELSE IF T!StringLessThan(s, key) THEN -1 ELSE 1
  IN T!LookupByKey(n, [i \in 0 .. (n - 1) |-> compare(MapKeys(m, r)[i + 1])])

(* A number, read as one with a sign and as one without; text is not     *)
(* parsed.                                                                 *)
AsInt64(m, r) ==
  CASE r.type \in {FBT.INT, FBT.BOOL} -> ReadInt64(m, r.data, r.parent_width)
    [] r.type = FBT.INDIRECT_INT  -> ReadInt64(m, Target(m, r), r.byte_width)
    [] r.type = FBT.UINT          -> ReadUInt64(m, r.data, r.parent_width)
    [] r.type = FBT.INDIRECT_UINT -> ReadUInt64(m, Target(m, r), r.byte_width)
    [] r.type = FBT.VECTOR        -> ReadSize(m, Target(m, r), r.byte_width)
    [] OTHER -> 0
AsUInt64(m, r) ==
  IF r.type = FBT.BOOL THEN ReadUInt64(m, r.data, r.parent_width) ELSE AsInt64(m, r)

AsBool(m, r) == AsUInt64(m, r) # 0

AsKey(m, r) == CString(m, Target(m, r))
AsBytes(m, r) ==
  LET p == Target(m, r) IN [k \in 1 .. ReadSize(m, p, r.byte_width) |-> m[p + k - 1]]
AsString(m, r) == IF r.type = FBT.KEY THEN AsKey(m, r) ELSE AsBytes(m, r)
AsBlob(m, r) == AsBytes(m, r)

(* All that the accessors of a reference give, each for its type. *)
RECURSIVE Contents(_, _)
Contents(m, r) ==
  LET each(refs) == [i \in DOMAIN refs |-> Contents(m, refs[i])]
      named(keys, values) == [s \in ToSet(keys) |-> values[CHOOSE i \in DOMAIN keys : keys[i] = s]]
      all == each(Elements(m, r))
  IN CASE r.type = FBT.NULL -> [null |-> TRUE]
       [] r.type = FBT.BOOL -> [bool |-> AsBool(m, r)]
       [] r.type = FBT.INT  -> [int |-> AsInt64(m, r)]
       [] r.type = FBT.UINT -> [uint |-> AsUInt64(m, r)]
       [] r.type = FBT.INDIRECT_INT  -> [indirect_int |-> AsInt64(m, r)]
       [] r.type = FBT.INDIRECT_UINT -> [indirect_uint |-> AsUInt64(m, r)]
       [] r.type = FBT.KEY    -> [key |-> AsString(m, r)]
       [] r.type = FBT.STRING -> [text |-> AsString(m, r)]
       [] r.type = FBT.BLOB   -> [blob |-> AsBlob(m, r)]
       [] r.type = FBT.VECTOR -> [vector |-> all]
       [] r.type = FBT.MAP    -> [map |-> named(MapKeys(m, r), all)]
       [] IsTypedVector(r.type)      -> [typed |-> all]
       [] IsFixedTypedVector(r.type) -> [fixed |-> all]

(* Mutate: the new number is written in place, if it fits. *)
MutateFits(m, dest, n, byte_width, value_width) ==
  LET fits == 2^value_width <= byte_width
  IN [done |-> fits, m |-> IF fits THEN WriteScalar(m, dest, n, byte_width) ELSE m]

MutateInt(m, r, n) ==
  CASE r.type = FBT.INT  -> MutateFits(m, r.data, n, r.parent_width, WidthI(n))
    [] r.type = FBT.UINT -> MutateFits(m, r.data, n, r.parent_width, WidthU(n))
    [] r.type = FBT.INDIRECT_INT  -> MutateFits(m, Target(m, r), n, r.byte_width, WidthI(n))
    [] r.type = FBT.INDIRECT_UINT -> MutateFits(m, Target(m, r), n, r.byte_width, WidthU(n))
    [] OTHER -> [done |-> FALSE, m |-> m]

(* What reading gives of a document: a map by its keys, typed strings as    *)
(* keys, a repeated value once more.                                       *)
RECURSIVE Said(_)
Said(doc) ==
  LET ints(numbers) == [i \in DOMAIN numbers |-> [int |-> numbers[i]]]
      all(docs) ==
        LET meant(i) == docs[Max({j \in 1..i : "again" \notin DOMAIN docs[j]})]
        IN [i \in DOMAIN docs |-> Said(meant(i))]
      asKey(d)  == IF "text" \in DOMAIN d THEN [key |-> d.text] ELSE d
      says(kind) == kind \in DOMAIN doc
  IN CASE says("vector")  -> [vector |-> all(doc.vector)]
       [] says("typed")   -> [typed |-> LET d == all(doc.typed) IN [i \in DOMAIN d |-> asKey(d[i])]]
       [] says("fixed")   -> [fixed |-> ints(doc.fixed)]
       [] says("scalars") -> [typed |-> ints(doc.scalars)]
       [] says("map")     ->
            [map |-> [s \in {p[1] : p \in ToSet(doc.map)} |->
                        Said((CHOOSE p \in ToSet(doc.map) : p[1] = s)[2])]]
       [] OTHER -> doc

-----------------------------------------------------------------------------
(* class Verifier, as the record v; it fails as FlatVerifier does. *)

NewVerifier(m, buf_len, max_depth) ==
  [m |-> m, size |-> buf_len, max_depth |-> max_depth, depth |-> 0, num_vectors |-> 0,
   ok |-> TRUE]

Checked(v, condition) == [v EXCEPT !.ok = @ /\ condition]

VerifyFrom(v, elem, elem_len) == elem_len < v.size /\ elem <= v.size - elem_len
VerifyBefore(elem, elem_len) == elem_len <= elem
VerifyByteWidth(width) == width \in {1, 2, 4, 8}
VerifyOffset(v, off, p) == 0 <= off /\ off <= v.size /\ off <= p

(* Any byte but zero at or behind p. *)
VerifyKey(v, p) == \E a \in p .. (v.size - 1) : v.m[a] # 0

(* A vector counts as one more level for its elements; a string or blob is *)
(* a vector too.  A size larger than the buffer fails before it is         *)
(* multiplied.                                                             *)
RECURSIVE VerifyRef(_, _)
VerifyVector(v, r, p, elem_type) ==
  LET counted == [v EXCEPT !.depth = @ + 1, !.num_vectors = @ + 1]
      n       == ReadSize(v.m, p, r.byte_width)
      bytes   == n * (IF r.type \in {FBT.STRING, FBT.BLOB} THEN 1 ELSE r.byte_width)
      fits    == /\ counted.depth <= v.max_depth
                 /\ counted.num_vectors <= v.size
                 /\ VerifyBefore(p, r.byte_width)
                 /\ n \in 0 .. v.size
                 /\ VerifyFrom(v, p, bytes)
                 /\ elem_type = FBT.NULL => VerifyFrom(v, p + bytes, n)
      elems   == CASE elem_type = FBT.NULL -> [i \in 1..n |-> VectorElement(v.m, p, r.byte_width, i - 1)]
                   [] elem_type = FBT.KEY  -> [i \in 1..n |-> TypedVectorElement(p, r.byte_width, FBT.KEY, i - 1)]
                   [] OTHER -> << >>
      verify(w, e) == IF w.ok THEN VerifyRef(w, e) ELSE w
  IN IF fits THEN [InTurn(verify, counted, elems) EXCEPT !.depth = v.depth]
     ELSE Checked(counted, FALSE)

VerifyKeys(v, p, byte_width) ==
  LET at    == KeysAt(p, byte_width)
      off   == ReadUInt64(v.m, at, byte_width)
      width == v.m[at + byte_width]
  IN IF /\ VerifyBefore(p, 3 * byte_width)
        /\ VerifyOffset(v, off, at)
        /\ VerifyByteWidth(width)
     THEN VerifyVector(v, Ref(at, byte_width, width, FBT.VECTOR_KEY), at - off, FBT.KEY)
     ELSE Checked(v, FALSE)

VerifyRef(v, r) ==
  LET off == ReadUInt64(v.m, r.data, r.parent_width)
      p   == r.data - off
      vector(elem_type) == VerifyVector(v, r, p, elem_type)
      target ==
        CASE r.type \in FBT.INDIRECT_INT .. FBT.INDIRECT_FLOAT ->
               Checked(v, VerifyFrom(v, p, r.byte_width))
          [] r.type = FBT.KEY -> Checked(v, VerifyKey(v, p))
          [] r.type = FBT.MAP ->
               Then(vector(FBT.NULL), LAMBDA w : IF w.ok THEN VerifyKeys(w, p, r.byte_width) ELSE w)
          [] r.type = FBT.VECTOR -> vector(FBT.NULL)
          [] r.type \in {FBT.VECTOR_KEY, FBT.VECTOR_STRING_DEPRECATED} -> vector(FBT.KEY)
          [] \/ r.type \in FBT.VECTOR_INT .. (FBT.VECTOR_KEY - 1)
             \/ r.type \in {FBT.VECTOR_BOOL, FBT.BLOB} -> vector(FBT.UINT)
          [] r.type = FBT.STRING ->
               Then(vector(FBT.UINT), LAMBDA w :
                 IF w.ok THEN Checked(w, VerifyFrom(w, p, ReadSize(w.m, p, r.byte_width) + 1)) ELSE w)
          [] IsFixedTypedVector(r.type) ->
               Checked(v, VerifyFrom(v, p, r.byte_width * ToFixedTypedVectorElementType(r.type).len))
          [] OTHER -> Checked(v, FALSE)
  IN IF r.type < FBT.MAX_TYPE /\ IsInline(r.type) THEN v
     ELSE IF /\ r.type < FBT.MAX_TYPE
             /\ VerifyOffset(v, off, r.data)
             /\ p % r.byte_width = 0
     THEN target ELSE Checked(v, FALSE)

VerifyBuffer(v) ==
  /\ v.size >= 3
  /\ LET byte_width == v.m[v.size - 1]
     IN /\ VerifyByteWidth(byte_width)
        /\ v.size - 2 >= byte_width
        /\ VerifyRef(v, GetRoot(v.m, v.size)).ok
=============================================================================
