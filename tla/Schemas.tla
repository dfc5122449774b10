------------------------------ MODULE Schemas -------------------------------
(* What flatc generates code for.  The code generated for a table differs  *)
(* from that of another only in the table's fields: a table type is the    *)
(* list of its fields as they are declared, which is the order its Verify  *)
(* and its Create...Direct go through them, the order in which its Create  *)
(* adds them, and its key.                                                 *)
EXTENDS Scalars

int8    == Scalar(1, TRUE)
int16   == Scalar(2, TRUE)
int32   == Scalar(4, TRUE)
int64   == Scalar(8, TRUE)
uint16  == Scalar(2, FALSE)
uint32  == Scalar(4, FALSE)
uint64  == Scalar(8, FALSE)
double  == Scalar(8, TRUE)

Number(name, vt, type, def) ==
  [kind |-> "number", name |-> name, vt |-> vt, type |-> type, def |-> def,
   required |-> FALSE]
Text(name, vt) ==
  [kind |-> "text", name |-> name, vt |-> vt, required |-> FALSE]
Texts(name, vt) ==
  [kind |-> "texts", name |-> name, vt |-> vt, required |-> FALSE]
Table(name, vt, of) ==
  [kind |-> "table", name |-> name, vt |-> vt, of |-> of, required |-> FALSE]
Tables(name, vt, of) ==
  [kind |-> "tables", name |-> name, vt |-> vt, of |-> of, required |-> FALSE]

(* branches gives the table type for each value of the field tag. *)
Union(name, vt, tag, branches) ==
  [kind |-> "union", name |-> name, vt |-> vt, tag |-> tag,
   branches |-> branches, required |-> FALSE]

Mandatory(field) == [field EXCEPT !.required = TRUE]

NoKey == ""
TableType(fields, created, key) ==
  [fields |-> fields, created |-> created, key |-> key]
=============================================================================
