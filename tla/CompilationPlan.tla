-------------------------- MODULE CompilationPlan --------------------------
(***************************************************************************)
(* What loading and ordering the modules of a program promise, whatever    *)
(* the order they are read and listed in: load what the main module needs, *)
(* each file once; then list every module after those it imports, or find  *)
(* that this cannot be done.                                               *)
(***************************************************************************)
EXTENDS Sequences

CONSTANTS Files, Main

VARIABLES
  known,   (* the modules loaded: their paths and what they import         *)
  plan,    (* paths in the order to compile them in                        *)
  outcome

planVars == <<known, plan, outcome>>

Paths == {k.path : k \in known}
Listed == {plan[n] : n \in DOMAIN plan}
Needed == {Main} \cup UNION {k.imports : k \in known}

Listable(k) == k.path \notin Listed /\ k.imports \subseteq Listed

PlanInit == known = {} /\ plan = << >> /\ outcome = "open"

LoadModule(f, imports) ==
  /\ outcome = "open" /\ plan = << >>
  /\ f \in Needed \ Paths
  /\ known' = known \cup {[path |-> f, imports |-> imports]}
  /\ UNCHANGED <<plan, outcome>>

(* A file that is needed cannot be read or parsed.                         *)
FailToLoad ==
  /\ outcome = "open" /\ plan = << >>
  /\ Needed \ Paths # {}
  /\ outcome' = "failed"
  /\ UNCHANGED <<known, plan>>

List(k) ==
  /\ outcome = "open" /\ Needed = Paths
  /\ Listable(k)
  /\ plan' = Append(plan, k.path)
  /\ UNCHANGED <<known, outcome>>

Finish ==
  /\ outcome = "open" /\ Needed = Paths /\ Listed = Paths
  /\ outcome' = "planned"
  /\ UNCHANGED <<known, plan>>

GiveUp ==
  /\ outcome = "open" /\ Needed = Paths /\ Listed # Paths
  /\ \A k \in known : ~Listable(k)
  /\ outcome' = "no plan"
  /\ UNCHANGED <<known, plan>>

PlanNext ==
  \/ \E f \in Files, imports \in SUBSET Files : LoadModule(f, imports)
  \/ FailToLoad
  \/ \E k \in known : List(k)
  \/ Finish
  \/ GiveUp

PlanSpec == PlanInit /\ [][PlanNext]_planVars
=============================================================================
