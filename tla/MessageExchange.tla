--------------------------- MODULE MessageExchange --------------------------
(* Buffers that one side builds with the generated code and another side   *)
(* verifies and reads: the dialogue of the example client and server, and  *)
(* a schema that is saved and loaded as a buffer, and FlexBuffers, whose   *)
(* numbers may be changed in place.  On the way a buffer may lose its end  *)
(* or have a byte changed.                                                 *)
(*                                                                         *)
(* What is in a message is modelled here; how its bytes travel is the      *)
(* subject of ClientSocket, ServerSession and the session modules.         *)
EXTENDS GeneratedCode

F == INSTANCE FlexBuffers

CONSTANTS
  Strings,     \* what users type as id and password
  SchemaDocs,  \* the schemas that are saved, as documents of the type Schema
  FlexDocs,    \* the documents that are saved as FlexBuffers
  FlexUses,    \* how their builders are used: [flags, width]
  NewNumbers,  \* what numbers in them are changed to
  Bytes,       \* the values a damaged byte takes
  Options      \* the Verifier::Options tried: [max_depth, max_tables]

ASSUME ExchangeAssumption ==
  /\ Strings \subseteq Seq(1..127)
  /\ Bytes \subseteq Byte
  /\ Options \subseteq [max_depth : Nat, max_tables : Nat]

VARIABLES
  buffer,    \* the buffer on its way, or Nothing
  expected,  \* the result the client waits for; "start" before, "end" after
  crashed    \* a handler has followed a null pointer

vars == <<buffer, expected, crashed>>

Nothing == [reader |-> "nobody"]
DefaultOptions == [max_depth |-> 64, max_tables |-> 1000000]

Init ==
  /\ buffer = Nothing
  /\ expected = "start"
  /\ crashed = FALSE

-----------------------------------------------------------------------------
(* A buffer built from doc and finished, as the reader gets it. *)
Carried(b, header) == [m |-> GetBuffer(b), size |-> GetSize(b), ok |-> b.ok, damaged |-> FALSE] @@ header
Finished(new, header) == Carried(Finish(new.b, new.o, header.identifier, header.prefixed), header)
Sent(reader, type, doc, identifier, prefixed) ==
  Finished(Build(NewBuilder(1024, 8, FALSE, TRUE), type, doc),
           [reader |-> reader, type |-> type, doc |-> doc, identifier |-> identifier,
            prefixed |-> prefixed])

(* The same for a FlexBuffer, from a builder that has or has not written   *)
(* and cleared the document before.                                        *)
FlexCarried(b, doc) ==
  [reader |-> "flex", doc |-> F!Said(doc), prefixed |-> FALSE, m |-> b.buf, size |-> b.size,
   ok |-> b.ok, damaged |-> FALSE, changed |-> FALSE]
FlexFinished(b, doc) == F!Finish(F!Add(b, doc))
Flexible(doc, use, before) ==
  Then(IF before THEN F!Clear(FlexFinished(F!NewBuilder(use.flags), doc)) ELSE F!NewBuilder(use.flags),
       LAMBDA b : FlexCarried(FlexFinished(F!ForceMinimumBitWidth(b, use.width), doc), doc))
IsFlex(w) == w.reader = "flex"
FlexRoot(w) == F!GetRoot(w.m, w.size)

Packet(type, tag, table) == [type_type |-> [int |-> tag], type |-> [table |-> table]]
ToServer(tag, table) ==
  Sent("server", "ClientPacket", Packet("ClientPacket", tag, table), << >>, FALSE)
ToClient(tag, table) ==
  Sent("client", "ServerPacket", Packet("ServerPacket", tag, table), << >>, FALSE)

Accepts(w, options) ==
  IF IsFlex(w) THEN F!VerifyBuffer(F!NewVerifier(w.m, w.size, options.max_depth)) ELSE
  VerifyBuffer(V!NewVerifier(w.m, w.size, options.max_depth, options.max_tables, TRUE),
               w.type, w.identifier, w.prefixed)

Root(w) == IF w.prefixed THEN GetSizePrefixedRoot(w.m, 0) ELSE GetRoot(w.m, 0)
Contents(w) == IF IsFlex(w) THEN F!Contents(w.m, FlexRoot(w)) ELSE Read(w.m, w.type, Root(w))

-----------------------------------------------------------------------------
(* The client *)

SendLoginRequest(id, password) ==
  /\ expected = "start" /\ buffer = Nothing
  /\ buffer' = ToServer(1, [id |-> [text |-> id], password |-> [text |-> password]])
  /\ expected' = "LoginResult"
  /\ UNCHANGED crashed

Ignore == buffer' = Nothing /\ UNCHANGED <<expected, crashed>>
Crash == buffer' = Nothing /\ crashed' = TRUE /\ UNCHANGED expected

(* The handlers of the results.  They take their table by a reference that *)
(* is null when there is none.                                             *)
_LoginResult(p) ==
  IF "type" \notin DOMAIN p THEN Crash
  ELSE IF "error" \in DOMAIN p.type.table THEN Ignore
  ELSE /\ buffer' = ToServer(3, [server_id |-> [int |-> 1]])
       /\ expected' = "ConnectServerResult"
       /\ UNCHANGED crashed
_ConnectServerResult(p) ==
  IF "type" \notin DOMAIN p THEN Crash
  ELSE buffer' = ToServer(2, << >>) /\ expected' = "LogoutResult" /\ UNCHANGED crashed
_LogoutResult == buffer' = Nothing /\ expected' = "end" /\ UNCHANGED crashed

TypeType(p) == IF "type_type" \in DOMAIN p THEN p.type_type.int ELSE 0

ClientTakes(p) ==
  CASE TypeType(p) = 1 -> _LoginResult(p)
    [] TypeType(p) = 2 -> _LogoutResult
    [] TypeType(p) = 3 -> _ConnectServerResult(p)
    [] OTHER -> Ignore

ClientOnPacket ==
  /\ buffer.reader = "client"
  /\ IF ~Accepts(buffer, DefaultOptions) THEN Ignore
     ELSE ClientTakes(Contents(buffer))

-----------------------------------------------------------------------------
(* The server: each handler reads what was asked for and answers. *)

Answer(tag) == buffer' = ToClient(tag, << >>) /\ UNCHANGED <<expected, crashed>>

_LoginRequest(p) ==
  IF "type" \in DOMAIN p /\ {"id", "password"} \subseteq DOMAIN p.type.table
  THEN Answer(1) ELSE Crash
_LogoutRequest == Answer(2)
_ConnectServerRequest(p) == IF "type" \in DOMAIN p THEN Answer(3) ELSE Crash

ServerTakes(p) ==
  CASE TypeType(p) = 1 -> _LoginRequest(p)
    [] TypeType(p) = 2 -> _LogoutRequest
    [] TypeType(p) = 3 -> _ConnectServerRequest(p)
    [] OTHER -> Ignore

ServerOnPacket ==
  /\ buffer.reader = "server"
  /\ IF ~Accepts(buffer, DefaultOptions) THEN Ignore
     ELSE ServerTakes(Contents(buffer))

-----------------------------------------------------------------------------
(* A user of reflection_generated.h. *)

SaveSchema(doc, prefixed) ==
  /\ expected = "start" /\ buffer = Nothing
  /\ buffer' = Sent("loader", "Schema", doc, SchemaIdentifier, prefixed)
  /\ UNCHANGED <<expected, crashed>>

LoadSchema == buffer.reader = "loader" /\ Ignore

-----------------------------------------------------------------------------
(* A user of flexbuffers.h. *)

SaveFlex(doc, use, before) ==
  /\ expected = "start" /\ buffer = Nothing
  /\ buffer' = Flexible(doc, use, before)
  /\ UNCHANGED <<expected, crashed>>

LoadFlex == IsFlex(buffer) /\ Ignore

Undamaged == buffer # Nothing /\ ~buffer.damaged

Changed(kind, i, n, new) ==
  [buffer EXCEPT !.changed = TRUE, !.m = new.m,
                 !.doc[kind][i] = IF new.done THEN [number \in DOMAIN @ |-> n] ELSE @]

(* MutateInt on the element i of the vector that is the root; a value that *)
(* lies in the vector more than once is left alone.                        *)
ChangeNumber(i, n) ==
  /\ Undamaged /\ IsFlex(buffer) /\ ~buffer.changed
  /\ \E kind \in DOMAIN buffer.doc \intersect {"vector", "typed", "fixed"} :
       LET values == buffer.doc[kind]
       IN /\ i \in DOMAIN values
          /\ \A j \in DOMAIN values : values[j] = values[i] => j = i
          /\ buffer' = Changed(kind, i, n,
                               F!MutateInt(buffer.m, F!Elements(buffer.m, FlexRoot(buffer))[i], n))
  /\ UNCHANGED <<expected, crashed>>

-----------------------------------------------------------------------------
(* The way: at most one thing goes wrong with a buffer. *)

Cut(n) ==
  /\ Undamaged /\ n < buffer.size
  /\ buffer' = [buffer EXCEPT !.m = [a \in 0 .. (n - 1) |-> @[a]], !.size = n, !.damaged = TRUE]
  /\ UNCHANGED <<expected, crashed>>

Change(a, byte) ==
  /\ Undamaged /\ a < buffer.size /\ buffer.m[a] # byte
  /\ buffer' = [buffer EXCEPT !.m[a] = byte, !.damaged = TRUE]
  /\ UNCHANGED <<expected, crashed>>

Damage ==
  \E a \in (IF buffer = Nothing THEN {} ELSE DOMAIN buffer.m) :
    Cut(a) \/ \E byte \in Bytes : Change(a, byte)

Receive == ClientOnPacket \/ ServerOnPacket \/ LoadSchema \/ LoadFlex

Next ==
  /\ ~crashed
  /\ \/ \E id, password \in Strings : SendLoginRequest(id, password)
     \/ \E doc \in SchemaDocs, prefixed \in BOOLEAN : SaveSchema(doc, prefixed)
     \/ \E doc \in FlexDocs, use \in FlexUses, before \in BOOLEAN : SaveFlex(doc, use, before)
     \/ \E i \in 1..8, n \in NewNumbers : ChangeNumber(i, n)
     \/ Receive
     \/ Damage

Spec == Init /\ [][Next]_vars

-----------------------------------------------------------------------------
(* Properties *)

(* From its root alone the beginning of a buffer can be found, behind the  *)
(* size when it has one: no other word is taken for the root offset.       *)
StartIsFound(w) ==
  GetBufferStartFromRootPointer(w.m, Root(w)) = (IF w.prefixed THEN uoffset_t.size ELSE 0)

(* What is built reads back: a buffer that arrives as it was sent is       *)
(* accepted, its start can be told from its root, and the accessors give   *)
(* what the sender put in, defaults that were not stored and vectors that  *)
(* were sorted included.  Of a FlexBuffer they give that whatever width    *)
(* its numbers and offsets have, and after one of its numbers has been     *)
(* changed.  No assertion of a builder fails.                              *)
RoundTrip ==
  Undamaged =>
    /\ buffer.ok
    /\ Accepts(buffer, DefaultOptions)
    /\ IF IsFlex(buffer) THEN Contents(buffer) = buffer.doc
       ELSE Contents(buffer) = Said(buffer.type, buffer.doc) /\ StartIsFound(buffer)

(* The tables directly in a document, and how deep and how many they are   *)
(* in all.  Depth counts tables only, and passes over the vectors that     *)
(* they lie in.                                                            *)
SubTables(type, doc) ==
  FlattenSeq([i \in DOMAIN Fields(type) |->
    LET f == Fields(type)[i]
    IN CASE f.name \notin DOMAIN doc -> << >>
         [] f.kind = "tables" -> [j \in DOMAIN doc[f.name].tables |-> <<f.of, doc[f.name].tables[j]>>]
         [] f.kind \in {"table", "union"} -> <<<<The(Referred(f, DocTag(f, doc))), doc[f.name].table>>>>
         [] OTHER -> << >>])
RECURSIVE Depth(_, _)
Depth(type, doc) == 1 + Max({0} \union {Depth(t[1], t[2]) : t \in ToSet(SubTables(type, doc))})
RECURSIVE Count(_, _)
Count(type, doc) ==
  LET sub == SubTables(type, doc)
  IN 1 + FoldLeft(LAMBDA n, t : n + Count(t[1], t[2]), 0, sub)

(* The levels of a FlexBuffer: vectors with a size, blobs and strings are  *)
(* one.                                                                    *)
RECURSIVE FlexDepth(_)
FlexDepth(doc) ==
  LET above(docs) == 1 + Max({0} \union {FlexDepth(d) : d \in docs})
  IN CASE "vector" \in DOMAIN doc -> above(ToSet(doc.vector))
       [] "map"    \in DOMAIN doc -> above({doc.map[k] : k \in DOMAIN doc.map})
       [] OTHER -> IF DOMAIN doc \subseteq {"typed", "text", "blob"} THEN 1 ELSE 0

(* What the limits of the verifiers count, over every way that tables      *)
(* share a buffer and follow each other: an intact buffer is rejected just *)
(* when more tables lie inside of each other than max_depth, whatever      *)
(* vectors are between them, or there are more than max_tables in all; a   *)
(* FlexBuffer when more vectors do, maps, strings and blobs among them.    *)
(* The comment at verifier.h:29 speaks of the nesting of tables and        *)
(* vectors: that is not what the verifier counts, nor what is claimed.     *)
LimitsAreExact ==
  Undamaged =>
    \A o \in Options :
      Accepts(buffer, o) <=>
        IF IsFlex(buffer) THEN FlexDepth(buffer.doc) <= o.max_depth
        ELSE /\ Depth(buffer.type, buffer.doc) <= o.max_depth
             /\ Count(buffer.type, buffer.doc) <= o.max_tables

(* Every read the accessors make, down to the zero behind each string,     *)
(* stays in the buffer.                                                    *)
Inside(w, p, n) == 0 <= p /\ 0 <= n /\ n <= w.size /\ p <= w.size - n

VectorInside(w, p, bytes) ==
  /\ Inside(w, p, uoffset_t.size)
  /\ size(w.m, p) <= w.size
  /\ Inside(w, Data(p), size(w.m, p) * bytes)
StringInside(w, p) == VectorInside(w, p, 1) /\ Inside(w, Data(p), size(w.m, p) + 1)

RECURSIVE TableInside(_, _, _)
TableInside(w, type, table) ==
  LET vtable == GetVTable(w.m, table)
      objects(p) == {GetObject(w.m, p, i) : i \in 0 .. (size(w.m, p) - 1)}
      target(f, p) ==
        CASE f.kind = "text"   -> StringInside(w, p)
          [] f.kind = "texts"  -> VectorInside(w, p, 4) /\ \A o \in objects(p) : StringInside(w, o)
          [] f.kind = "tables" -> VectorInside(w, p, 4) /\ \A o \in objects(p) : TableInside(w, f.of, o)
          [] OTHER -> \A t \in Referred(f, TagOf(w.m, type, table, f)) : TableInside(w, t, p)
      field(f) ==
        LET offset == GetOptionalFieldOffset(w.m, table, f.vt)
        IN /\ f.vt < ReadScalar(w.m, vtable, voffset_t) => Inside(w, vtable + f.vt, voffset_t.size)
           /\ offset # 0 =>
                IF f.kind = "number" THEN Inside(w, table + offset, f.type.size)
                ELSE /\ Inside(w, table + offset, uoffset_t.size)
                     /\ target(f, Indirect(w.m, table + offset))
  IN /\ Inside(w, table, soffset_t.size)
     /\ Inside(w, vtable, voffset_t.size)
     /\ \A i \in DOMAIN Fields(type) : field(Fields(type)[i])

(* The same for a value of a FlexBuffer, except that a key is only known   *)
(* to begin in the buffer: its verifier does not look for the zero behind. *)
RECURSIVE FlexInside(_, _)
FlexInside(w, r) ==
  LET p        == F!Target(w.m, r)
      width    == r.byte_width
      elements == ToSet(F!Elements(w.m, r))
      sized(at, bytes, element_bytes) ==
        /\ Inside(w, at - bytes, bytes)
        /\ F!ReadSize(w.m, at, bytes) \in 0 .. w.size
        /\ Inside(w, at, F!ReadSize(w.m, at, bytes) * element_bytes)
      vector(extra) == sized(p, width, width + extra) /\ \A e \in elements : FlexInside(w, e)
      keys == F!Keys(w.m, r)
  IN /\ Inside(w, r.data, r.parent_width)
     /\ CASE F!IsInline(r.type) -> TRUE
          [] r.type \in F!FBT.INDIRECT_INT .. F!FBT.INDIRECT_FLOAT -> Inside(w, p, width)
          [] r.type = F!FBT.KEY    -> Inside(w, p, 1)
          [] r.type = F!FBT.BLOB   -> sized(p, width, 1)
          [] r.type = F!FBT.STRING ->
               sized(p, width, 1) /\ Inside(w, p, F!ReadSize(w.m, p, width) + 1)
          [] r.type = F!FBT.VECTOR -> vector(1)
          [] r.type = F!FBT.MAP    ->
               /\ vector(1)
               /\ Inside(w, F!KeysAt(p, width), 3 * width)
               /\ sized(keys.at, keys.byte_width, keys.byte_width)
          [] F!IsTypedVector(r.type) -> vector(0)
          [] F!IsFixedTypedVector(r.type) -> \A e \in elements : FlexInside(w, e)

(* What the verifier accepts can be read, whatever happened on the way.    *)
AcceptedIsInside ==
  buffer # Nothing /\ Accepts(buffer, DefaultOptions) =>
    IF IsFlex(buffer) THEN FlexInside(buffer, FlexRoot(buffer)) ELSE
    /\ Inside(buffer, IF buffer.prefixed THEN uoffset_t.size ELSE 0, uoffset_t.size)
    /\ TableInside(buffer, buffer.type, Root(buffer))

(* LookupByKey finds every table of a sorted vector under its own key, in  *)
(* whatever order the tables were given, and so does a map its values.     *)
RECURSIVE LookupsSucceed(_, _, _)
LookupsSucceed(m, type, table) ==
  \A i \in DOMAIN Fields(type) :
    LET f == Fields(type)[i]
        p == PointerAt(m, table, f)
    IN f.kind = "tables" /\ p # nullptr =>
         \A j \in 0 .. (size(m, p) - 1) :
           LET t == GetObject(m, p, j)
           IN Lookup(m, f.of, p, KeyOf(m, f.of, t)) = j /\ LookupsSucceed(m, f.of, t)
RECURSIVE FlexLookupsSucceed(_, _)
FlexLookupsSucceed(m, r) ==
  r.type \in {F!FBT.VECTOR, F!FBT.MAP} =>
    /\ \A e \in ToSet(F!Elements(m, r)) : FlexLookupsSucceed(m, e)
    /\ r.type = F!FBT.MAP =>
         \A i \in DOMAIN F!MapKeys(m, r) : F!Lookup(m, r, F!MapKeys(m, r)[i]) = i - 1
KeysAreFound ==
  Undamaged => IF IsFlex(buffer) THEN FlexLookupsSucceed(buffer.m, FlexRoot(buffer))
               ELSE LookupsSucceed(buffer.m, buffer.type, Root(buffer))

(* A dialogue goes on: whoever takes an intact message sends the next one, *)
(* up to the last, which ends the dialogue.  No handler meets a null       *)
(* pointer, whatever strings the user typed.                               *)
IntactMessage == Undamaged /\ buffer.reader \in {"client", "server"}
DialogueGoesOn ==
  [][IntactMessage => buffer' # Nothing \/ (expected = "LogoutResult" /\ expected' = "end")]_vars
=============================================================================
