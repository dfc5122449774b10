-------------------------- MODULE MCMessageExchange -------------------------
(* A small instance of MessageExchange for TLC: strings whose lengths need *)
(* different padding, schemas that nest, refer to tables of every type of  *)
(* reflection_generated.h and give their tables out of order.              *)
EXTENDS MessageExchange

MCStrings == {<< >>, <<2, 1, 3, 1>>}

T(base) == [base_type |-> [int |-> base], index |-> [int |-> 2], base_size |-> [int |-> 1]]
KV(key) == [key |-> [text |-> key], value |-> [text |-> <<9>>]]
Attributes == [tables |-> <<KV(<<2>>), KV(<<1, 7>>), KV(<<1>>)>>]

AField(name) ==
  [name |-> [text |-> name], type |-> [table |-> T(3)], id |-> [int |-> 300],
   default_integer |-> [int |-> 7], optional |-> [int |-> 1]]
AnObject(name) ==
  [name |-> [text |-> name], minalign |-> [int |-> 1],
   fields |-> [tables |-> <<AField(<<5>>), AField(<<4>>)>>]]
AValue(n) == [name |-> [text |-> <<n>>], value |-> [int |-> n]]
AnEnum ==
  [name |-> [text |-> <<1>>], underlying_type |-> [table |-> T(4)],
   values |-> [tables |-> <<AValue(2), AValue(1), AValue(0)>>],
   documentation |-> [texts |-> <<<<1, 2, 3>>, << >>>>]]
ACall ==
  [name |-> [text |-> <<1>>], request |-> [table |-> AnObject(<<1>>)],
   response |-> [table |-> AnObject(<<2>>)], attributes |-> Attributes]
AService == [name |-> [text |-> <<6>>], calls |-> [tables |-> <<ACall>>]]
AFile == [filename |-> [text |-> <<1>>], included_filenames |-> [texts |-> <<<<2>>>>]]

Empty == [objects |-> [tables |-> << >>], enums |-> [tables |-> << >>]]
MCSchemaDocs ==
  {Empty,
   [objects |-> [tables |-> <<AnObject(<<2>>), AnObject(<<1>>)>>],
    enums |-> [tables |-> << >>], root_table |-> [table |-> AnObject(<<1>>)],
    file_ext |-> [text |-> <<1>>]],
   [objects |-> [tables |-> << >>], enums |-> [tables |-> <<AnEnum>>],
    fbs_files |-> [tables |-> <<AFile>>]],
   [objects |-> [tables |-> << >>], enums |-> [tables |-> << >>],
    services |-> [tables |-> <<AService>>], advanced_features |-> [int |-> 1]]}

(* Offsets that just do or do not fit one byte, and all kinds of values. *)
Filler(n) == [blob |-> [i \in 1..n |-> 9]]
AMap ==
  [map |-> <<<<<<2>>, [int |-> 300]>>,
             <<<<1>>, [vector |-> <<[text |-> <<1, 2>>], [null |-> TRUE], [bool |-> TRUE],
                                    [indirect_int |-> -70000], [again |-> TRUE]>>]>>,
             <<<<1, 1>>, [map |-> <<<<<<1>>, [uint |-> 5]>>>>]>>>>]
MCFlexDocs ==
  {[int |-> -129], AMap, [map |-> << >>],
   [vector |-> <<[int |-> 5], [uint |-> 300], [indirect_uint |-> 7], [indirect_int |-> 1]>>],
   [vector |-> <<[typed |-> <<[key |-> <<4>>], [key |-> << >>], [key |-> <<4>>]>>],
                 [typed |-> <<[text |-> <<4>>], [text |-> <<5>>]>>],
                 [fixed |-> <<1, -2, 3>>, bytes |-> 2], [scalars |-> <<10, 20>>, bytes |-> 4]>>],
   [fixed |-> <<1, 2, 3>>, bytes |-> 2]}
  \union {[vector |-> <<[text |-> <<1>>], Filler(n), [text |-> <<1>>], [map |-> <<<<<<7>>, AMap>>>>]>>] :
            n \in {200, 243, 250}}
  \union {[map |-> <<<<<<1>>, Filler(n)>>, <<<<2>>, [key |-> <<1>>]>>>>] : n \in 240 .. 247}
MCFlexUses ==
  [flags : [share_keys : {TRUE}, share_strings : BOOLEAN], width : {0, 2}]
  \union {[flags |-> [share_keys |-> FALSE, share_strings |-> FALSE], width |-> 3]}
MCNewNumbers == {-1, 6, 300, 70000}

MCBytes == {0, 1, 4, 127, 255}
MCOptions == [max_depth : 1..5, max_tables : {2, 6, 14, 15, 16, 64}]
=============================================================================
