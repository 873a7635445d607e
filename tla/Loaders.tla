------------------------------ MODULE Loaders ------------------------------
(***************************************************************************)
(* Both compilers load and order the same program: first the native one    *)
(* (ModuleLoading), then the other (BootstrapLoading), which finds the     *)
(* same in the files.                                                      *)
(***************************************************************************)
EXTENDS ModuleLoading, BootstrapLoading

loadersVars == <<loadingVars, bootVars>>

(* The native loader is through with the program.                          *)
Over == phase \in {"done", "trap", "exit 1", "exit 2"}

(* The other loader finds the same in the files: those it reads the native *)
(* one has read, with the same imports, and those it cannot read the       *)
(* native one has not.                                                     *)
SameFiles ==
  /\ bootPhase' = "failed" => BootCall.path \notin Loaded
  /\ \A f \in DOMAIN imports' :
       \E k \in Ids : modules[k].path = f /\ modules[k].imports = imports'[f]

LoadersInit == LoadingInit /\ BootInit

LoadersNext ==
  \/ LoadingNext /\ UNCHANGED bootVars
  \/ Over /\ BootNext /\ SameFiles /\ UNCHANGED loadingVars

LoadersSpec == LoadersInit /\ [][LoadersNext]_loadersVars

(* The two compilers agree about a program, which is how the one can be    *)
(* compiled by the other: one orders its modules exactly if the other      *)
(* does, in the same order; a cycle that the one reports makes the other   *)
(* trap, unless it comes to a file it cannot read first; and they cannot   *)
(* read the same files (main.watim:823-982, bootstrap/__main__.py:36-81).  *)
LoadersAgree ==
  /\ bootPhase = "done" =>
       phase = "done" /\ bootOrdered = [k \in 1..Len(ordered) |-> modules[ordered[k]].path]
  /\ bootPhase = "cycle" => phase # "done"
  /\ bootPhase = "failed" => phase \in {"exit 1", "exit 2"}
=============================================================================
