--------------------------- MODULE ModuleLoading ---------------------------
(***************************************************************************)
(* Loading a program's modules and choosing the order to compile them in:  *)
(* load-modules-recursively and determine-compilation-order of             *)
(* native/main.watim.                                                      *)
(*                                                                         *)
(* A file stands for a normalised path.  What a file holds is chosen when  *)
(* it is read: it is missing, or does not parse, or is a module with a     *)
(* list of imports.  An import stands for the path that both functions     *)
(* compute in the same way from the importing module's directory and the   *)
(* import's text.                                                          *)
(***************************************************************************)
EXTENDS SourceFiles

VARIABLES
  calls,        (* load-modules-recursively in progress, outermost first   *)
  modules,      (* the map of modules, in the order they were inserted     *)
  unprocessed,  (* numbers of the modules not ordered yet                  *)
  ordered,      (* numbers of the modules in compilation order             *)
  i,            (* position in unprocessed                                 *)
  stuck,        (* no module was ordered in this round                     *)
  phase

loadVars == <<calls, modules>>
orderVars == <<unprocessed, ordered, i, stuck>>
loadingVars == <<calls, modules, unprocessed, ordered, i, stuck, phase>>

Loaded == {modules[m].path : m \in 1 .. Len(modules)}
Ids == 1 .. Len(modules)

Call == calls[Len(calls)]
Callers == SubSeq(calls, 1, Len(calls) - 1)

LoadingInit ==
  /\ calls = << [path |-> Main, imports |-> << >>, next |-> 0] >>
  /\ modules = << >>
  /\ unprocessed = << >> /\ ordered = << >> /\ i = 1 /\ stuck = TRUE
  /\ phase = "loading"

-----------------------------------------------------------------------------
(* Loading.  A call that has not looked at the file yet has next = 0.      *)

Entering == phase = "loading" /\ calls # << >> /\ Call.next = 0

(* `modules[path]` is None: the file is not loaded yet.                    *)
IsNew(f) == f \notin Loaded

AlreadyLoaded ==
  /\ Entering /\ ~IsNew(Call.path)
  /\ calls' = Callers
  /\ UNCHANGED <<modules, orderVars, phase>>

(* read-file-or-stdin exits with 1; a parse error makes the caller exit    *)
(* with 2.                                                                 *)
ReadFails ==
  /\ Entering /\ IsNew(Call.path)
  /\ phase' = "exit 1"
  /\ UNCHANGED <<loadVars, orderVars>>

ParseFails ==
  /\ Entering /\ IsNew(Call.path)
  /\ phase' = "exit 2"
  /\ UNCHANGED <<loadVars, orderVars>>

(* The module goes into the map before its imports are loaded.  Inserting  *)
(* a path a second time divides by zero.                                   *)
Insert(imports) ==
  /\ Entering /\ IsNew(Call.path)
  /\ modules' = Append(modules, [path |-> Call.path, imports |-> imports])
  /\ calls' = [calls EXCEPT ![Len(calls)].imports = imports,
                            ![Len(calls)].next = 1]
  /\ phase' = IF Call.path \in Loaded THEN "trap" ELSE phase
  /\ UNCHANGED orderVars

Importing == phase = "loading" /\ calls # << >> /\ Call.next > 0

LoadImport ==
  /\ Importing /\ Call.next <= Len(Call.imports)
  /\ calls' = Append([calls EXCEPT ![Len(calls)].next = @ + 1],
                [path |-> Call.imports[Call.next], imports |-> << >>, next |-> 0])
  /\ UNCHANGED <<modules, orderVars, phase>>

ImportsLoaded ==
  /\ Importing /\ Call.next > Len(Call.imports)
  /\ calls' = Callers
  /\ UNCHANGED <<modules, orderVars, phase>>

-----------------------------------------------------------------------------
(* Ordering.                                                               *)

StartOrdering ==
  /\ phase = "loading" /\ calls = << >>
  /\ phase' = "ordering"
  /\ unprocessed' = [k \in Ids |-> k]
  /\ ordered' = << >> /\ i' = 1 /\ stuck' = TRUE
  /\ UNCHANGED loadVars

Importable == {modules[ordered[k]].path : k \in 1 .. Len(ordered)}

(* A slip: one ordered import is enough.                                   *)
SomeImportOrdered(m) ==
  modules[m].imports = << >> \/ \E k \in 1 .. Len(modules[m].imports) :
                                   modules[m].imports[k] \in Importable

(* Every import is one of the ordered modules.                             *)
Ready(m) ==
  \A k \in 1 .. Len(modules[m].imports) : modules[m].imports[k] \in Importable

Visiting == phase = "ordering" /\ i <= Len(unprocessed)

(* A slip: the position moves on although the list has moved up.           *)
OrderAndSkip ==
  /\ Visiting /\ Ready(unprocessed[i])
  /\ ordered' = Append(ordered, unprocessed[i])
  /\ unprocessed' = RemoveAt(unprocessed, i)
  /\ stuck' = FALSE
  /\ i' = i + 1
  /\ UNCHANGED <<loadVars, phase>>

(* A slip: stuck is left alone.                                            *)
OrderStillStuck ==
  /\ Visiting /\ Ready(unprocessed[i])
  /\ ordered' = Append(ordered, unprocessed[i])
  /\ unprocessed' = RemoveAt(unprocessed, i)
  /\ UNCHANGED <<loadVars, i, stuck, phase>>

Order ==
  /\ Visiting /\ Ready(unprocessed[i])
  /\ ordered' = Append(ordered, unprocessed[i])
  /\ unprocessed' = RemoveAt(unprocessed, i)
  /\ stuck' = FALSE
  /\ UNCHANGED <<loadVars, i, phase>>

Postpone ==
  /\ Visiting /\ ~Ready(unprocessed[i])
  /\ i' = i + 1
  /\ UNCHANGED <<loadVars, unprocessed, ordered, stuck, phase>>

(* A slip: a round without progress goes unnoticed.                        *)
RoundEndsUnchecked ==
  /\ phase = "ordering" /\ i > Len(unprocessed)
  /\ phase' = IF unprocessed = << >> THEN "done" ELSE "ordering"
  /\ i' = 1 /\ stuck' = TRUE
  /\ UNCHANGED <<loadVars, unprocessed, ordered>>

(* The end of a round over the unprocessed; a round that ordered nothing   *)
(* divides by zero.                                                        *)
RoundEnds ==
  /\ phase = "ordering" /\ i > Len(unprocessed)
  /\ phase' = IF stuck THEN "trap"
              ELSE IF unprocessed = << >> THEN "done" ELSE "ordering"
  /\ i' = 1 /\ stuck' = TRUE
  /\ UNCHANGED <<loadVars, unprocessed, ordered>>

Load ==
  \/ AlreadyLoaded \/ ReadFails \/ ParseFails
  \/ \E imports \in ImportLists : Insert(imports)
  \/ LoadImport \/ ImportsLoaded

LoadingNext == Load \/ StartOrdering \/ Order \/ Postpone \/ RoundEnds

(* The compiler is one process that runs on: it neither waits nor stops.   *)
LoadingSpec == LoadingInit /\ [][LoadingNext]_loadingVars
FairLoadingSpec == LoadingSpec /\ WF_loadingVars(LoadingNext)

-----------------------------------------------------------------------------
(* What must hold.                                                         *)

LoadingTypeOK ==
  /\ calls \in Seq([path : Files, imports : Seq(Files), next : Nat])
  /\ modules \in Seq([path : Files, imports : Seq(Files)])
  /\ unprocessed \in Seq(Ids) /\ ordered \in Seq(Ids)
  /\ i \in 1 .. Len(unprocessed) + 1
  /\ stuck \in BOOLEAN
  /\ phase \in {"loading", "ordering", "done", "trap", "exit 1", "exit 2"}

ImportsOf(m) == {modules[m].imports[k] : k \in 1 .. Len(modules[m].imports)}

(* The last module of the order is the main one: the commands unstack,     *)
(* graph and infer take the last module for the one named on the command   *)
(* line (main.watim:462, 489, 519-520).                                    *)
MainComesLast ==
  phase = "done" => modules[ordered[Len(ordered)]].path = Main

(* Loading and ordering come to an end, whatever imports what.             *)
Terminates == <>(phase \in {"done", "trap", "exit 1", "exit 2"})

(* What the two functions do together is a compilation plan.               *)
Plan == INSTANCE CompilationPlan WITH
  known <- {[path |-> modules[m].path, imports |-> ImportsOf(m)] : m \in Ids},
  plan <- [k \in 1 .. Len(ordered) |-> modules[ordered[k]].path],
  outcome <- CASE phase \in {"loading", "ordering"} -> "open"
               [] phase \in {"exit 1", "exit 2"} -> "failed"
               [] phase = "done" -> "planned"
               [] phase = "trap" -> "no plan"

(* Modules are loaded once, when they are needed, none but all of them are *)
(* listed, and giving up means that no order exists.                       *)
PlanSpec == Plan!PlanSpec
=============================================================================
