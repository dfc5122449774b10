------------------------------ MODULE Folding --------------------------------
(* Folds over states that are expensive to compute.  TLC passes arguments  *)
(* by name; here an operation gets the value its predecessor computed.     *)
EXTENDS Integers, Sequences

The(s) == CHOOSE x \in s : TRUE

(* op(x), where TLC computes x first. *)
Then(x, op(_)) == The({op(v) : v \in {x}})

(* FoldLeft, where TLC computes each result before the next operation and  *)
(* does not recurse as deep as s is long.                                  *)
InTurn(op(_, _), base, s) ==
  LET RECURSIVE span(_, _, _)
      span(acc, i, j) ==
        LET middle == (i + j) \div 2
        IN CASE i > j -> acc
             [] i = j -> op(acc, s[i])
             [] i < j -> Then(span(acc, i, middle), LAMBDA x : span(x, middle + 1, j))
  IN span(base, 1, Len(s))
=============================================================================
