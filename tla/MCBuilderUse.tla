---------------------------- MODULE MCBuilderUse ----------------------------
(* A small instance of BuilderUse for TLC: numbers of one, two and eight   *)
(* bytes, so that every kind of padding occurs, and a first block that is  *)
(* replaced several times.                                                 *)
EXTENDS BuilderUse

MCStrings == {<< >>, <<1, 2, 3, 4>>}
MCIntegers == {<<<<7>>, 8>>}
MCStructs == {<<<<<<1, 2, 3, 4>>, <<5, 6, 7, 8>>>>, 4, 2>>}
MCElements == {<<4, 0, 1>>, <<4, 5, 1>>, <<6, 300, 2>>}
MCAStruct == <<6, <<1, 2, 3, 4, 5, 6, 7, 8>>, 8>>
=============================================================================
