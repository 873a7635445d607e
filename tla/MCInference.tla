---------------------------- MODULE MCInference -----------------------------
(* Inference of small functions, with a generic struct, a generic variant, *)
(* one that has a single case and one that has none, and functions that    *)
(* fix, pass on, compare, add and make up types.                           *)
EXTENDS FunctionInference

T == Generic(1)
OptT == Custom("Opt", <<T>>)
Never == Custom("Never", << >>)
OptI32 == Custom("Opt", <<I32>>)

SomeStructs == [Box |-> [generics |-> 1, fields |-> <<T>>]]
SomeVariants == [Opt |-> [generics |-> 1, cases |-> <<T, None>>],
                 Unit |-> [generics |-> 1, cases |-> <<None>>],
                 Never |-> [generics |-> 0, cases |-> << >>]]

Sig(generics, parameters, returns) ==
  [generics |-> generics, parameters |-> parameters, returns |-> returns,
   allowed |-> {}, adds |-> FALSE]

SomeFunctions ==
  [drop |-> Sig(1, <<T>>, << >>),
   uninit |-> Sig(1, << >>, <<T>>),
   id |-> Sig(1, <<T>>, <<T>>),
   eq |-> Sig(1, <<T, T>>, <<Bool>>),
   add |-> [Sig(1, <<T, T>>, <<T>>) EXCEPT !.allowed = {I32, I64, Ptr(I32)}, !.adds = TRUE],
   never |-> Sig(0, << >>, <<Never>>),
   takes |-> Sig(0, <<OptI32>>, << >>)]

SomeLocals == <<None, Ptr(I32)>>
SomeGlobals == [flag |-> Bool, boxed |-> Custom("Box", <<I32>>)]
SomePaths == {<< >>, <<1>>}
SomeAnnotations == {I32, OptI32}

(* Few kinds of words at a time, those that bear on each other.            *)
Vocabulary(left, kinds) ==
  [kinds |-> [kind \in kinds |-> left], left |-> left, height |-> 3]

(* Enough words for two ifs without a type whose results are dropped.      *)
TwoIfs ==
  [kinds |-> [kind \in {"uninit", "flag", "if", "drop"} |->
                IF kind = "uninit" THEN 4 ELSE 2],
   left |-> 10, height |-> 1]
SomeVocabularies ==
  {TwoIfs,
   Vocabulary(4, {"number", "drop", "uninit", "Opt", "Unit", "match", "flag"}),
   Vocabulary(5, {"number", "drop", "uninit", "id", "Unit", "match"}),
   Vocabulary(4, {"uninit", "get", "set", "Opt", "match", "if", "flag"}),
   Vocabulary(5, {"uninit", "flag", "if", "takes", "set"}),
   Vocabulary(4, {"number", "string", "get", "set", "store", "load", "add"}),
   Vocabulary(4, {"number", "get", "set", "Box", "boxed", "field", "drop"}),
   Vocabulary(4, {"number", "get", "set", "funref", "indirect", "id", "drop"}),
   Vocabulary(5, {"number", "uninit", "eq", "id", "block", "loop", "break"}),
   Vocabulary(5, {"number", "uninit", "eq", "id", "if", "flag"}),
   Vocabulary(4, {"number", "cast", "annotation", "takes", "Opt", "never", "match void"})}
=============================================================================
