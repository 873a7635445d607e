------------------------------ MODULE MCArenas ------------------------------
(***************************************************************************)
(* Model checking the two sides of arena allocation.  A behaviour is about *)
(* one of them:                                                            *)
(*                                                                         *)
(*   "arenas"   what an arena does (Arena): two arenas over pages of three *)
(*              bytes of which one is the header;                          *)
(*   "scratch"  how functions use arenas (ScratchArenas): call chains of   *)
(*              up to four functions.                                      *)
(***************************************************************************)
EXTENDS ScratchArenas, Arena, TLC

CONSTANTS a1, a2    (* arenas *)

VARIABLE part

allVars == <<part, vars, arenaVars>>

AllInit == part \in {"arenas", "scratch"} /\ Init /\ ArenaInit

AllNext ==
  \/ part = "arenas" /\ ArenaNext /\ UNCHANGED <<part, vars>>
  \/ part = "scratch" /\ Next /\ UNCHANGED <<part, arenaVars>>

AllSpec == AllInit /\ [][AllNext]_allVars

Symmetry == Permutations({a1, a2})
=============================================================================
