-------------------------- MODULE MCCodeGeneration --------------------------
(***************************************************************************)
(* Six functions to compile: one of every kind of word but short, and      *)
(* longer ones about literals of structs, variants, pointers, calls, and   *)
(* structs of single bytes or of none.                                     *)
(***************************************************************************)
EXTENDS CodeGeneration

Pair == Struct(<< I32, I32 >>)
Big == Struct(<< I32, I8, I64 >>)
Nest == Struct(<< Pair, Ptr(Pair) >>)
Opt == Variant(<< Unit, I32 >>)
Either == Variant(<< Pair, Big >>)
Bytes == Struct(<< I8, I8 >>)
Four == Struct(<< Bytes, Bytes >>)
Mixed == Struct(<< I8, I32 >>)
Empty == Struct(<< >>)
Hollow == Struct(<< Empty >>)
Flag == Variant(<< Unit, Unit >>)

Variable(t, kind, reffed) == [type |-> t, kind |-> kind, reffed |-> reffed]

AllWords ==
  {"Number", "FunRef", "Uninit", "Drop", "Flip", "GetLocal", "InitLocal", "SetLocal",
   "RefLocal", "StoreLocal", "GetField", "Load", "Store", "MakeStruct", "MakeStructNamed",
   "MakeVariant", "Match", "If", "Cast", "Binary", "Call"}

Anything ==
  [vars |-> << Variable(Pair, "global", TRUE), Variable(Nest, "parameter", FALSE),
               Variable(Big, "local", TRUE), Variable(I64, "global", FALSE) >>,
   structs |-> {Pair, Big}, variants |-> {Opt, Either, Flag}, casts |-> {I8, I32, I64},
   signatures |-> { [takes |-> << I32 >>, returns |-> << I32, Big >>] },
   others |-> {0, 12}, spaces |-> {0, 36}, uses |-> AllWords, words |-> 3]

Literals ==
  [vars |-> << Variable(Pair, "parameter", FALSE), Variable(Big, "parameter", FALSE) >>,
   structs |-> {Pair, Struct(<< Big, I64 >>)}, variants |-> {}, casts |-> {I64}, signatures |-> {}, others |-> {},
   spaces |-> {8, 24, 40}, uses |-> {"Number", "MakeStructNamed", "GetLocal", "GetField", "Cast"}, words |-> 6]

Matches ==
  [vars |-> << Variable(Either, "local", TRUE), Variable(Opt, "local", TRUE), Variable(Big, "parameter", FALSE),
               Variable(Bool, "parameter", FALSE) >>,
   structs |-> {}, variants |-> {Opt, Either}, casts |-> {}, signatures |-> {}, others |-> {0, 12},
   spaces |-> {20, 36, 56}, uses |-> {"Number", "MakeVariant", "Match", "GetLocal", "InitLocal", "RefLocal", "Load", "Store", "If"},
   words |-> 5]

Pointers ==
  [vars |-> << Variable(Pair, "parameter", TRUE), Variable(Nest, "global", TRUE),
               Variable(Ptr(Nest), "parameter", FALSE), Variable(Pair, "global", TRUE) >>,
   structs |-> {}, variants |-> {}, casts |-> {}, signatures |-> {}, others |-> {},
   spaces |-> {12}, uses |-> {"Number", "GetLocal", "SetLocal", "RefLocal", "StoreLocal", "GetField", "Store", "Load"},
   words |-> 4]

Calls ==
  [vars |-> << Variable(Big, "local", FALSE), Variable(Pair, "local", TRUE),
               Variable(I32, "parameter", TRUE) >>,
   structs |-> {Big}, variants |-> {}, casts |-> {},
   signatures |-> { [takes |-> << I32 >>, returns |-> << I32, Big >>],
                    [takes |-> << Big >>, returns |-> << Pair, I64, Big >>] },
   others |-> {}, spaces |-> {0, 16, 32}, uses |-> {"Number", "FunRef", "Call", "InitLocal", "GetLocal", "Flip", "GetField",
                             "Drop"},
   words |-> 5]

Small ==
  [vars |-> << Variable(Four, "parameter", FALSE), Variable(Mixed, "parameter", FALSE),
               Variable(Bytes, "local", FALSE) >>,
   structs |-> {Four, Bytes, Empty, Hollow}, variants |-> {}, casts |-> {}, signatures |-> {}, others |-> {},
   spaces |-> {4},
   uses |-> {"MakeStruct", "MakeStructNamed", "GetLocal", "SetLocal", "InitLocal", "GetField"},
   words |-> 5]

MCFunctions == {Anything, Literals, Matches, Pointers, Calls, Small}
=============================================================================
