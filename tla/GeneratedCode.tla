---------------------------- MODULE GeneratedCode ---------------------------
(* What the functions generated for a table do: Create and CreateDirect,   *)
(* the accessors with the search by key, and Verify.  The generated        *)
(* headers spell it out for each table; here it is one definition for      *)
(* every type in TableTypes.                                               *)
(*                                                                         *)
(* What a table says is a document, a function of the names of the fields  *)
(* that are there: [int |-> n], [text |-> s], [texts |-> <<s, ...>>],      *)
(* [table |-> document] or [tables |-> <<document, ...>>].                 *)
EXTENDS FlatBufferBuilder, Messages, Reflection, Folding

V == INSTANCE FlatVerifier

TableTypes == MessageTypes @@ ReflectionTypes
Fields(type) == TableTypes[type].fields
FieldNamed(type, name) == The({f \in ToSet(Fields(type)) : f.name = name})

(* The type of the table that a table or union field refers to; there is   *)
(* none for a union whose tag names no table.                              *)
Referred(f, tag) ==
  CASE f.kind = "table" -> {f.of}
    [] f.kind = "union" -> IF tag \in DOMAIN f.branches THEN {f.branches[tag]} ELSE {}

-----------------------------------------------------------------------------
(* Keys *)

KeyField(type) == FieldNamed(type, TableTypes[type].key)

(* The key of a table in memory m, as key() or the other accessor of the   *)
(* key field gives it.                                                     *)
KeyIn(m, f, table) ==
  IF f.kind = "text" THEN str(m, GetPointer(m, table, f.vt))
  ELSE GetField(m, table, f.vt, f.type, f.def)
KeyOf(m, type, table) == KeyIn(m, KeyField(type), table)

(* KeyCompareLessThan *)
KeyLess(kind, k, key) == IF kind = "text" THEN StringLessThan(k, key) ELSE k < key
KeyCompareLessThan(m, type, table, other) ==
  KeyLess(KeyField(type).kind, KeyOf(m, type, table), KeyOf(m, type, other))

(* KeyCompareWithValue: strcmp for strings, which here have no zero        *)
(* character inside.                                                       *)
KeyCompare(kind, k, key) == IF k = key THEN 0 ELSE IF KeyLess(kind, k, key) THEN -1 ELSE 1
KeyCompareWithValue(m, type, table, key) ==
  KeyCompare(KeyField(type).kind, KeyOf(m, type, table), key)

-----------------------------------------------------------------------------
(* Create and CreateDirect.  at gives the offset of each string, vector    *)
(* and table written so far.                                               *)

Written(c, f, new) == [b |-> new.b, at |-> (f.name :> new.o) @@ c.at]

(* XBuilder: the fields are added in the order of Create, absent ones are  *)
(* passed as their defaults.                                               *)
AddMember(b, f, doc, at) ==
  IF f.kind = "number"
  THEN AddElement(b, f.vt, IF f.name \in DOMAIN doc THEN doc[f.name].int ELSE f.def,
                  f.type.size, f.def)
  ELSE AddOffset(b, f.vt, IF f.name \in DOMAIN at THEN at[f.name] ELSE 0)
RequiredPresent(new, type) ==
  [new EXCEPT !.b = InTurn(LAMBDA b, f : IF f.required THEN Required(b, new.o, f.vt) ELSE b,
                           @, Fields(type))]
Create(c, type, doc) ==
  RequiredPresent(
    EndTable(InTurn(LAMBDA b, name : AddMember(b, FieldNamed(type, name), doc, c.at),
                    StartTable(c.b), TableTypes[type].created),
             GetSize(c.b)),
    type)

(* Mutated form: the tables stay in the order they are given in. *)
SortedTablesAsGiven(b, type, offsets) == CreateVectorOfOffsets(b, offsets)

SortedTables(b, type, offsets) ==
  CreateVectorOfSortedTables(b, offsets,
    {pair \in ToSet(offsets) \X ToSet(offsets) :
       KeyCompareLessThan(b.buf.mem, type, Address(b, pair[1]), Address(b, pair[2]))})

(* A string or vector that CreateDirect writes itself; of a vector's       *)
(* elements it is given the offsets.                                       *)
Write(c, f, doc) ==
  CASE f.kind = "text"   -> Written(c, f, CreateString(c.b, doc[f.name].text))
    [] f.kind = "texts"  -> Written(c, f, CreateVectorOfOffsets(c.b, c.at[f.name]))
    [] f.kind = "tables" -> Written(c, f, SortedTables(c.b, f.of, c.at[f.name]))
    [] OTHER -> c

(* Mutated form: an empty string is taken for a null pointer. *)
ArgumentsUnlessEmpty(type, doc) ==
  SelectSeq(Fields(type), LAMBDA f : f.name \in DOMAIN doc
                                     /\ (f.kind = "text" => doc[f.name].text # << >>))

(* The arguments that are not null, as declared. *)
Arguments(type, doc) == SelectSeq(Fields(type), LAMBDA f : f.name \in DOMAIN doc)

CreateDirect(c, type, doc) ==
  Then(InTurn(LAMBDA d, f : Write(d, f, doc), c, Arguments(type, doc)),
       LAMBDA d : Create(d, type, doc))

DocTag(f, doc) == IF f.kind = "union" THEN doc[f.tag].int ELSE 0

(* A document: the caller writes the tables it refers to, and the strings  *)
(* in its vectors, first, then calls CreateDirect.                         *)
RECURSIVE Build(_, _, _)
Build(b, type, doc) ==
  LET several(c, elements, create(_, _)) ==
        InTurn(LAMBDA e, x : LET new == create(e.b, x)
                             IN [b |-> new.b, o |-> Append(e.o, new.o)],
               [b |-> c.b, o |-> << >>], elements)
      prepare(c, f) ==
        CASE f.kind = "tables" ->
               Written(c, f, several(c, doc[f.name].tables, LAMBDA d, x : Build(d, f.of, x)))
          [] f.kind = "texts"  -> Written(c, f, several(c, doc[f.name].texts, CreateString))
          [] f.kind \in {"table", "union"} ->
               Written(c, f, Build(c.b, The(Referred(f, DocTag(f, doc))), doc[f.name].table))
          [] OTHER -> c
  IN Then(InTurn(prepare, [b |-> b, at |-> << >>],
                 SelectSeq(Fields(type), LAMBDA f : f.name \in DOMAIN doc)),
          LAMBDA c : CreateDirect(c, type, doc))

-----------------------------------------------------------------------------
(* Verify *)

TagOf(m, type, table, f) ==
  IF f.kind # "union" THEN 0
  ELSE LET t == FieldNamed(type, f.tag) IN GetField(m, table, t.vt, t.type, t.def)
PointerAt(m, table, f) == GetPointer(m, table, f.vt)

RECURSIVE VerifyTable(_, _, _)
VerifyTable(v, type, table) ==
  LET m == v.m
      all(w, of, tables) ==
        InTurn(LAMBDA x, t : IF x.ok THEN VerifyTable(x, of, t) ELSE x, w, tables)
      branch(w, types, p) == IF types = {} THEN w ELSE all(w, The(types), <<p>>)
      target(w, f, p) ==
        CASE p = nullptr         -> w
          [] f.kind = "text"     -> [w EXCEPT !.ok = V!VerifyString(w, p)]
          [] f.kind = "texts"    -> [w EXCEPT !.ok = /\ V!VerifyVector(w, p, uoffset_t.size)
                                                     /\ V!VerifyVectorOfStrings(w, p)]
          [] f.kind = "tables"   -> IF ~V!VerifyVector(w, p, uoffset_t.size) THEN V!Failed(w)
                                    ELSE all(w, f.of, [i \in 1 .. size(m, p) |-> GetObject(m, p, i - 1)])
          [] OTHER               -> branch(w, Referred(f, TagOf(m, type, table, f)), p)
      check(w, f) ==
        IF ~w.ok THEN w
        ELSE IF f.kind = "number"
             THEN [w EXCEPT !.ok = V!VerifyNumberField(w, table, f.vt, f.type)]
             ELSE IF ~V!VerifyOffsetField(w, table, f.vt, f.required) THEN V!Failed(w)
             ELSE target(w, f, PointerAt(m, table, f))
  IN Then(InTurn(check, V!VerifyTableStart(v, table), Fields(type)),
          LAMBDA w : IF w.ok THEN V!EndTable(w) ELSE w)

(* VerifyBuffer, and VerifySizePrefixedBuffer when prefixed. *)
VerifyBuffer(v, type, identifier, prefixed) ==
  LET start == IF prefixed THEN uoffset_t.size ELSE 0
  IN /\ prefixed => V!VerifySizePrefix(v)
     /\ V!VerifyStart(v, identifier, start)
     /\ VerifyTable(v, type, GetRoot(v.m, start)).ok

-----------------------------------------------------------------------------
(* Reading: the accessors of every field.  A number that equals its        *)
(* default is left out, and a vector of tables is what is in it.           *)

RECURSIVE Read(_, _, _)
Read(m, type, table) ==
  LET of(f)      == Referred(f, TagOf(m, type, table, f))
      number(f)  == GetField(m, table, f.vt, f.type, f.def)
      there(f)   == CASE f.kind = "number" -> number(f) # f.def
                      [] f.kind = "union"  -> of(f) # {} /\ PointerAt(m, table, f) # nullptr
                      [] OTHER             -> PointerAt(m, table, f) # nullptr
      value(f, p) == CASE f.kind = "number" -> [int |-> number(f)]
                       [] f.kind = "text"   -> [text |-> str(m, p)]
                       [] f.kind = "texts"  -> [texts |-> [i \in 1 .. size(m, p) |-> str(m, GetObject(m, p, i - 1))]]
                       [] f.kind = "tables" -> [tables |-> {Read(m, f.of, GetObject(m, p, i)) : i \in 0 .. (size(m, p) - 1)}]
                       [] OTHER             -> [table |-> Read(m, The(of(f)), p)]
      named(f) == value(f, PointerAt(m, table, f))
  IN [name \in {f.name : f \in {g \in ToSet(Fields(type)) : there(g)}} |->
        named(FieldNamed(type, name))]

(* LookupByKey on a vector of tables: the position found, the number of    *)
(* tables when none has that key.                                          *)
Lookup(m, of, vector, key) ==
  LookupByKey(size(m, vector),
              [i \in 0 .. (size(m, vector) - 1) |->
                 KeyCompareWithValue(m, of, GetObject(m, vector, i), key)])

(* GetBufferStartFromRootPointer: the nearest word below root and vtable   *)
(* that refers to root, nullptr when none does.                            *)
PossibleRoots == FLATBUFFERS_MAX_ALIGNMENT \div uoffset_t.size + 1
GetBufferStartFromRootPointer(m, root) ==
  LET vtable == GetVTable(m, root)
      lower  == IF vtable < root THEN vtable ELSE root
      words  == {lower - (lower % uoffset_t.size) - i * uoffset_t.size : i \in 1 .. PossibleRoots}
      starts == {a \in words \intersect DOMAIN m : Indirect(m, a) = root}
  IN IF starts = {} THEN nullptr ELSE Max(starts)

(* The document as Read gives it. *)
RECURSIVE Said(_, _)
Said(type, doc) ==
  LET value(f) == CASE f.kind = "tables" ->
                         [tables |-> {Said(f.of, d) : d \in ToSet(doc[f.name].tables)}]
                    [] f.kind \in {"table", "union"} ->
                         [table |-> Said(The(Referred(f, DocTag(f, doc))), doc[f.name].table)]
                    [] OTHER -> doc[f.name]
      said(f)  == f.name \in DOMAIN doc /\ (f.kind = "number" => doc[f.name].int # f.def)
  IN [name \in {f.name : f \in {g \in ToSet(Fields(type)) : said(g)}} |->
        value(FieldNamed(type, name))]
=============================================================================
