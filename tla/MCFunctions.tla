---------------------------- MODULE MCFunctions ----------------------------
(***************************************************************************)
(* Model checking what becomes of functions behind inference.  A behaviour *)
(* is about one of two things:                                             *)
(*                                                                         *)
(*   "instances"  the functions and types of a program are given instances *)
(*                (Monomorphization): two modules with three functions     *)
(*                each, of up to four items in all;                        *)
(*   "locals"     the locals of a function are merged (LocalMerging):      *)
(*                functions of up to six scopes and four locals, some of   *)
(*                which must live in memory.                               *)
(***************************************************************************)
EXTENDS LocalMerging, MonomorphicTypes

CONSTANTS Functions, Definitions, Uses, Arguments, Globals, CallsExported,
          MaxItems, MaxFrames                        (* of Monomorphization *)

VARIABLES
  part,
  bodies, tables, instances, functionTable, frames, module, turn, phase

Instances == INSTANCE Monomorphization

instanceVars ==
  <<bodies, tables, instances, functionTable, frames, module, turn, phase>>
allVars == <<part, vars, instanceVars>>

-----------------------------------------------------------------------------
(* Values: Box and Cell look alike but for their kind, a List refers to    *)
(* itself through a pointer and a Box.                                     *)
T == Generic(1)
I32 == Primitive("i32")
Box(type) == Custom("Box", <<type>>)
Cell(type) == Custom("Cell", <<type>>)
List(type) == Custom("List", <<type>>)

MCDefinitions ==
  [d \in {"Box", "Cell", "List"} |->
    CASE d = "List" -> [kind |-> "variant", parts |-> <<None, Ptr(Box(List(T)))>>]
      [] d = "Cell" -> [kind |-> "variant", parts |-> <<T>>]
      [] d = "Box" -> [kind |-> "struct", parts |-> <<T>>]]

Function(m, kind, generics, referred) ==
  [module |-> m, kind |-> kind, generics |-> generics, referred |-> referred]

MCAllFunctions ==
  <<Function(1, "local", 1, FALSE),
    Function(1, "extern", 0, TRUE) @@ [types |-> <<Ptr(Box(I32)), Ptr(Box(I32))>>],
    Function(1, "exported", 0, TRUE),
    Function(2, "exported", 0, TRUE),
    Function(2, "local", 1, TRUE),
    Function(2, "exported", 0, FALSE)>>

(* By the number of type parameters of the function they stand in.         *)
MCUses ==
  0 :> {Ptr(List(I32))} @@
  1 :> {List(T), Fun(<<T>>, <<Cell(T)>>)}
MCArguments ==
  0 :> {<< >>, <<I32>>, <<Box(I32)>>} @@
  1 :> {<< >>, <<T>>, <<Ptr(I32)>>, <<Ptr(T)>>}

MCGlobals == {Cell(Ptr(I32))}

-----------------------------------------------------------------------------
(* What a behaviour is not about stands still where it starts.             *)
AllInit == part \in {"instances", "locals"} /\ Instances!Init /\ Init

AllNext ==
  \/ part = "instances" /\ Instances!Next /\ UNCHANGED <<part, vars>>
  \/ part = "locals" /\ Next /\ UNCHANGED <<part, instanceVars>>

AllSpec == AllInit /\ [][AllNext]_allVars

(* Monomorphization: types and calls in an instance are what its type      *)
(* arguments make of its function's (monomizer.py:592-628, 866-877).       *)
InstancesFaithful == Instances!InstancesFaithful

(* Monomorphization: types that share a definition, or are known before    *)
(* they have one, have the right one (monomizer.py:630-662).               *)
DefinitionsFaithful == Instances!DefinitionsFaithful

(* Monomorphization: no instance is made twice, nor within its own making  *)
(* (monomizer.py:541-554, 617-628).                                        *)
MadeOnce == Instances!MadeOnce

(* "assert generic_arguments not in instances" (monomizer.py:550).         *)
NoAssertionFails == Instances!NoAssertionFails
=============================================================================
