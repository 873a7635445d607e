-------------------------- MODULE BootstrapLoading --------------------------
(***************************************************************************)
(* Loading and ordering in the bootstrap compiler: load_recursive and      *)
(* determine_compilation_order of bootstrap/__main__.py.  The native       *)
(* compiler's way is ModuleLoading, whose names these differ from by Boot. *)
(* Here the loader looks for cycles, in the import_stack that it hands     *)
(* down, and the ordering does not.                                        *)
(***************************************************************************)
EXTENDS SourceFiles

VARIABLES
  bootCalls,        (* load_recursive in progress, outermost first         *)
  bootModules,      (* paths of the modules, in the order they were loaded *)
  imports,          (* what each of them imports                           *)
  bootUnprocessed,  (* the modules not ordered yet                         *)
  bootOrdered,      (* the modules in compilation order                    *)
  bootI,            (* position in unprocessed                             *)
  bootPhase

bootLoadVars == <<bootCalls, bootModules, imports>>
bootOrderVars == <<bootUnprocessed, bootOrdered, bootI>>
bootVars == <<bootCalls, bootModules, imports, bootUnprocessed, bootOrdered,
              bootI, bootPhase>>

BootCall == Last(bootCalls)
BootLoaded == ToSet(bootModules)

(* A slip: the module itself is left out.                                  *)
StackBelow == {bootCalls[k].path : k \in 2..(Len(bootCalls) - 1)}

(* A slip: every module loaded before.                                     *)
AllLoaded == BootLoaded \ {Main}

(* import_stack: the modules being loaded, without the main one.           *)
ImportStack == {bootCalls[k].path : k \in 2..Len(bootCalls)}

BootInit ==
  /\ bootCalls = << [path |-> Main, next |-> 0] >>
  /\ bootModules = << >>
  /\ imports = [f \in {} |-> << >>]
  /\ bootUnprocessed = << >> /\ bootOrdered = << >> /\ bootI = 1
  /\ bootPhase = "loading"

-----------------------------------------------------------------------------
(* Loading.  A call that has not read its file yet has next = 0.           *)

BootEntering == bootPhase = "loading" /\ bootCalls # << >> /\ BootCall.next = 0

BootInsert(list) ==
  /\ BootEntering
  /\ bootModules' = Append(bootModules, BootCall.path)
  /\ imports' = [f \in DOMAIN imports \cup {BootCall.path} |->
                   IF f = BootCall.path THEN list ELSE imports[f]]
  /\ bootCalls' = [bootCalls EXCEPT ![Len(bootCalls)].next = 1]
  /\ UNCHANGED <<bootOrderVars, bootPhase>>

(* The file is not there or does not parse: a ParseException.              *)
LoadFails ==
  /\ BootEntering
  /\ bootPhase' = "failed"
  /\ UNCHANGED <<bootLoadVars, bootOrderVars>>

AtImport ==
  /\ bootPhase = "loading" /\ bootCalls # << >> /\ BootCall.next > 0
  /\ BootCall.next <= Len(imports[BootCall.path])
Imported == imports[BootCall.path][BootCall.next]

ReportCycle ==
  /\ AtImport /\ Imported \in ImportStack
  /\ bootPhase' = "cycle"
  /\ UNCHANGED <<bootLoadVars, bootOrderVars>>

NextImport == [bootCalls EXCEPT ![Len(bootCalls)].next = @ + 1]

SkipLoaded ==
  /\ AtImport /\ Imported \notin ImportStack /\ Imported \in BootLoaded
  /\ bootCalls' = NextImport
  /\ UNCHANGED <<bootModules, imports, bootOrderVars, bootPhase>>

BootLoadImport ==
  /\ AtImport /\ Imported \notin ImportStack /\ Imported \notin BootLoaded
  /\ bootCalls' = Append(NextImport, [path |-> Imported, next |-> 0])
  /\ UNCHANGED <<bootModules, imports, bootOrderVars, bootPhase>>

BootImportsLoaded ==
  /\ bootPhase = "loading" /\ bootCalls # << >> /\ BootCall.next > 0
  /\ BootCall.next > Len(imports[BootCall.path])
  /\ bootCalls' = Front(bootCalls)
  /\ UNCHANGED <<bootModules, imports, bootOrderVars, bootPhase>>

-----------------------------------------------------------------------------
(* Ordering.                                                               *)

BootStartOrdering ==
  /\ bootPhase = "loading" /\ bootCalls = << >>
  /\ bootPhase' = "ordering"
  /\ bootUnprocessed' = bootModules /\ bootOrdered' = << >> /\ bootI' = 1
  /\ UNCHANGED bootLoadVars

BootReady(f) == ToSet(imports[f]) \subseteq ToSet(bootOrdered)

BootVisiting == bootPhase = "ordering" /\ bootI <= Len(bootUnprocessed)

(* A slip: the position moves on although the list has moved up.           *)
BootOrderAndSkip ==
  /\ BootVisiting /\ BootReady(bootUnprocessed[bootI])
  /\ bootOrdered' = Append(bootOrdered, bootUnprocessed[bootI])
  /\ bootUnprocessed' = RemoveAt(bootUnprocessed, bootI)
  /\ bootI' = bootI + 1
  /\ UNCHANGED <<bootLoadVars, bootPhase>>

BootOrder ==
  /\ BootVisiting /\ BootReady(bootUnprocessed[bootI])
  /\ bootOrdered' = Append(bootOrdered, bootUnprocessed[bootI])
  /\ bootUnprocessed' = RemoveAt(bootUnprocessed, bootI)
  /\ UNCHANGED <<bootLoadVars, bootI, bootPhase>>

BootPostpone ==
  /\ BootVisiting /\ ~BootReady(bootUnprocessed[bootI])
  /\ bootI' = bootI + 1
  /\ UNCHANGED <<bootLoadVars, bootUnprocessed, bootOrdered, bootPhase>>

(* A slip: one round is all there is.                                      *)
LastRound ==
  /\ bootPhase = "ordering" /\ bootI > Len(bootUnprocessed)
  /\ bootPhase' = "done"
  /\ bootI' = 1
  /\ UNCHANGED <<bootLoadVars, bootUnprocessed, bootOrdered>>

(* The end of a round; the next one begins whether or not anything was     *)
(* ordered in this one.                                                    *)
BootRoundEnds ==
  /\ bootPhase = "ordering" /\ bootI > Len(bootUnprocessed)
  /\ bootPhase' = IF bootUnprocessed = << >> THEN "done" ELSE "ordering"
  /\ bootI' = 1
  /\ UNCHANGED <<bootLoadVars, bootUnprocessed, bootOrdered>>

BootNext ==
  \/ \E list \in ImportLists : BootInsert(list)
  \/ LoadFails \/ ReportCycle \/ SkipLoaded \/ BootLoadImport
  \/ BootImportsLoaded
  \/ BootStartOrdering \/ BootOrder \/ BootPostpone \/ BootRoundEnds

(* The compiler is one process that runs on.                               *)
BootSpec == BootInit /\ [][BootNext]_bootVars
FairBootSpec == BootSpec /\ WF_bootVars(BootNext)

-----------------------------------------------------------------------------
BootTypeOK ==
  /\ bootCalls \in Seq([path : Files, next : Nat])
  /\ bootModules \in Seq(Files)
  /\ imports \in [BootLoaded -> Seq(Files)]
  /\ bootUnprocessed \in Seq(Files) /\ bootOrdered \in Seq(Files)
  /\ bootI \in 1..(Len(bootUnprocessed) + 1)
  /\ bootPhase \in {"loading", "ordering", "done", "cycle", "failed"}

(* Some loaded modules import one another in a circle.                     *)
Cyclic ==
  \E C \in SUBSET BootLoaded :
    C # {} /\ \A f \in C : \E g \in C : g \in ToSet(imports[f])

(* A cycle is reported only where there is one, since a module imported    *)
(* along two ways is not one; and none gets as far as the ordering but one *)
(* through the main module (bootstrap/__main__.py:46-50).                  *)
ReportsCycles ==
  /\ bootPhase = "cycle" => Cyclic
  /\ bootPhase = "ordering" /\ Cyclic =>
       \E f \in BootLoaded : Main \in ToSet(imports[f])

(* Modules are resolved in an order in which the imports of each come      *)
(* before it, the main module last, none twice and none left out.          *)
CompilesInOrder ==
  bootPhase = "done" =>
    /\ Len(bootOrdered) = Cardinality(BootLoaded)
    /\ ToSet(bootOrdered) = BootLoaded
    /\ Last(bootOrdered) = Main
    /\ \A k \in 1..Len(bootOrdered) :
         ToSet(imports[bootOrdered[k]])
           \subseteq ToSet(SubSeq(bootOrdered, 1, k - 1))

(* Loading and ordering come to an end, unless some module imports the     *)
(* main one: then the ordering goes round for ever.                        *)
BootTerminates ==
  <>(\/ bootPhase \in {"done", "cycle", "failed"}
     \/ \E f \in BootLoaded : Main \in ToSet(imports[f]))

(* "Module import cycle detected" (bootstrap/__main__.py:46-50): modules   *)
(* that import one another are reported before any order is looked for.    *)
CyclesAreDetected == bootPhase = "ordering" => ~Cyclic
=============================================================================
