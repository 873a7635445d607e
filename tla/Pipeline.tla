------------------------------ MODULE Pipeline ------------------------------
(***************************************************************************)
(* The driver of the native compiler, native/main.watim: every command     *)
(* runs the stages up to the one it is about, prints what that stage made, *)
(* gives its arenas back and ends through `exit', whose status is 0 only   *)
(* when no arena holds memory any more.  Stages share memory: what one     *)
(* makes refers to arenas of the stages before, and the long commands give *)
(* those back half-way.                                                    *)
(*                                                                         *)
(* A command is the sequence of the driver's calls (Calls), the actions    *)
(* are what a call does.  Arena:new is left out, as it allocates nothing.  *)
(* What is wrong with the input, if anything, is chosen at the start: no   *)
(* stage follows one that failed, so one fault is enough.                  *)
(***************************************************************************)
EXTENDS Integers, Sequences

VARIABLES
  command,     (* the command given on the command line                    *)
  fault,       (* what is wrong with the input                             *)
  extern,      (* the function the command names is an extern              *)
  next,        (* the next call                                            *)
  held,        (* the arenas that hold memory                              *)
  signatures,  (* INTRINSIC_DESCRIPTIONS_INITIALIZED                       *)
  status,      (* how the process ended, once it has                       *)
  dangling     (* ghost: the arenas read when they held nothing            *)

vars == <<command, fault, extern, next, held, signatures, status, dangling>>

SingleFile == {"Lex", "Parse", "Pretty"}
NamesFunction == {"Unstack", "Graph", "Infer"}
ProjectWide == {"Resolve", "Check", "Monomize", "Optimize", "Compile"}
                 \union NamesFunction

Faults == {"none", "missing file", "unreadable file", "parse error",
           "import cycle", "resolve error", "recursive type",
           "unknown function", "type error"}

Init ==
  /\ command \in SingleFile \union ProjectWide
  /\ fault \in Faults
  /\ extern \in BOOLEAN
  /\ next = 1
  /\ held = {"Setup"}
  /\ signatures = FALSE
  /\ status = "running"
  /\ dangling = {}

-----------------------------------------------------------------------------
(* The stages: what each reads and the arena it allocates from, the arenas *)
(* what it makes has references into, and the faults it comes upon.        *)
Stage(reads, fills, reaches, meets) ==
  [reads |-> reads, fills |-> fills, reaches |-> reaches, meets |-> meets]

Stages ==
  [args      |-> Stage({}, "Setup", {"Setup"}, {}),
   code      |-> Stage({"args"}, "Files", {"Files"},
                       {"missing file", "unreadable file"}),
   tokens    |-> Stage({"code"}, "Tokens", {"Tokens"}, {}),
   syntax    |-> Stage({"tokens"}, "Main", {"Main", "Tokens"}, {}),
   modules   |-> Stage({"args"}, "Main", {"Main"},
                       {"missing file", "unreadable file", "parse error"}),
   ordered   |-> Stage({"modules"}, "Main", {"Main"}, {"import cycle"}),
   resolved  |-> Stage({"ordered"}, "Resolving", {"Main", "Resolving"},
                       {"resolve error"}),
   function  |-> Stage({"args", "resolved"}, "Main", {"Main", "Resolving"},
                       {"unknown function"}),
   unstacked |-> Stage({"function"}, "Main",
                       {"Main", "Resolving", "Intrinsics"}, {}),
   checked   |-> Stage({"unstacked", "resolved"}, "Inference",
                       {"Main", "Resolving", "Inference"}, {"type error"}),
   inferred  |-> Stage({"resolved"}, "Inference",
                       {"Main", "Resolving", "Inference"}, {"type error"}),
   monomized |-> Stage({"inferred"}, "Monomizing",
                       {"Main", "Monomizing"}, {})]

(* These look intrinsics up, and trap unless their signatures are there.   *)
UseSignatures == {"unstacked", "checked", "inferred"}

(* Core:exit with 1, with 2 when a module does not parse, or a failed      *)
(* assertion.                                                              *)
EndOn(f) ==
  IF f \in {"unreadable file", "import cycle", "unknown function"}
  THEN "trapped"
  ELSE IF f = "parse error" THEN "exit 2" ELSE "exit 1"

-----------------------------------------------------------------------------
(* The driver's calls.                                                     *)
Make(s) == << [call |-> "make", of |-> s] >>
Emit(s) == << [call |-> "emit", of |-> s] >>    (* buffered, in the arena *)
Show(s) == << [call |-> "show", of |-> s] >>    (* not buffered           *)
Free(arena) == << [call |-> "free", of |-> arena] >>

(* A slip: the signatures are never set up.                               *)
NoSignatures == << >>

InitSignatures == << [call |-> "init signatures", of |-> "Intrinsics"] >>

UninitSignatures == << [call |-> "uninit signatures", of |-> "Intrinsics"] >>
ForbidRecursiveTypes == << [call |-> "forbid recursion", of |-> "resolved"] >>
When(condition, calls) == IF condition THEN calls ELSE << >>

(* run-single-file-command.  The exit on a parse error is the one at the   *)
(* end of main, reached while the arena of main is in use.                 *)
SingleFileCalls ==
  Make("code") \o Make("tokens") \o Free("Files")
    \o (IF command = "Lex" THEN Show("tokens")
        ELSE When(fault # "parse error", Make("syntax") \o Show("syntax")))
    \o Free("Tokens") \o Free("Main")
    \o When(command = "Lex" \/ fault # "parse error", Free("Setup"))

(* A slip: the stage before is not given back.                             *)
OneFunctionKeepsResolving(calls) ==
  Make("function")
    \o When(~extern, calls)
    \o UninitSignatures \o Free("Main") \o Free("Setup")

(* A command about one function prints nothing when it is an extern.       *)
OneFunction(calls) ==
  Make("function")
    \o When(~extern, calls)
    \o UninitSignatures \o Free("Resolving")
    \o When(command = "Infer", Free("Inference"))
    \o Free("Main") \o Free("Setup")

(* A slip: the arenas go before the stage that still reads them.           *)
BackEndFreeingEarly ==
  UninitSignatures \o Free("Resolving") \o Free("Inference")
    \o Make("monomized") \o Emit("monomized")
    \o Free("Monomizing") \o Free("Main") \o Free("Setup")

(* From the checked program on.  Merging locals changes the monomized      *)
(* program in place.                                                       *)
BackEnd ==
  Make("monomized")
    \o UninitSignatures \o Free("Resolving") \o Free("Inference")
    \o Emit("monomized")
    \o Free("Monomizing") \o Free("Main") \o Free("Setup")

(* run-project-wide-command.                                               *)
ProjectWideCalls ==
  Make("modules") \o Make("ordered") \o Make("resolved")
    \o IF command = "Resolve"
       THEN Emit("resolved") \o Free("Resolving") \o Free("Main")
              \o Free("Setup")
       ELSE ForbidRecursiveTypes \o InitSignatures
              \o CASE command \in {"Unstack", "Graph"} ->
                        OneFunction(Make("unstacked") \o Emit("unstacked"))
                   [] command = "Infer" ->
                        OneFunction(Make("unstacked") \o Make("checked")
                                      \o Emit("checked"))
                   [] command = "Check" ->
                        Make("inferred") \o UninitSignatures
                          \o Emit("inferred") \o Free("Resolving")
                          \o Free("Inference") \o Free("Main")
                          \o Free("Setup")
                   [] OTHER -> Make("inferred") \o BackEnd

Calls == IF command \in SingleFile THEN SingleFileCalls ELSE ProjectWideCalls

-----------------------------------------------------------------------------
Doing(call) ==
  /\ status = "running" /\ next <= Len(Calls) /\ Calls[next].call = call
Of == Calls[next].of

(* A slip: a call is passed over.                                         *)
GoOnSkipping == next' = next + 2 /\ UNCHANGED <<command, fault, extern, status>>

GoOn == next' = next + 1 /\ UNCHANGED <<command, fault, extern, status>>

End(how) ==
  /\ status' = how
  /\ UNCHANGED <<command, fault, extern, next, held, signatures>>

(* Reading what the stages made: all it has references into must be there. *)
Read(stages) ==
  dangling' = dangling \union
                (UNION {Stages[s].reaches : s \in stages} \ held)

(* A stage that does its work.                                             *)
RunStage ==
  /\ Doing("make")
  /\ fault \notin Stages[Of].meets
  /\ Of \in UseSignatures => signatures
  /\ Read(Stages[Of].reads)
  /\ held' = held \union {Stages[Of].fills}
  /\ GoOn /\ UNCHANGED signatures

(* A stage that stops the compiler.                                        *)
StageFails ==
  /\ Doing("make")
  /\ fault \in Stages[Of].meets \/ (Of \in UseSignatures /\ ~signatures)
  /\ Read(Stages[Of].reads)
  /\ End(IF fault \in Stages[Of].meets THEN EndOn(fault) ELSE "trapped")

EmitStage ==
  /\ Doing("emit")
  /\ Read({Of})
  /\ held' = held \union {"Main"}
  /\ GoOn /\ UNCHANGED signatures

ShowStage ==
  /\ Doing("show")
  /\ Read({Of})
  /\ GoOn /\ UNCHANGED <<held, signatures>>

(* Arena:shred and Arena:clear.                                            *)
GiveBack ==
  /\ Doing("free")
  /\ held' = held \ {Of}
  /\ GoOn /\ UNCHANGED <<signatures, dangling>>

(* forbid-directly-recursive-types.                                        *)
CheckRecursion ==
  /\ Doing("forbid recursion")
  /\ Read({Of})
  /\ IF fault = "recursive type"
     THEN End(EndOn(fault))
     ELSE GoOn /\ UNCHANGED <<held, signatures>>

(* init-intrinsic-signatures; it traps when called twice.                  *)
InitIntrinsicSignatures ==
  /\ Doing("init signatures")
  /\ UNCHANGED dangling
  /\ IF signatures
     THEN End("trapped")
     ELSE /\ signatures' = TRUE
          /\ held' = held \union {"Intrinsics"}
          /\ GoOn

(* uninit-intrinsic-signatures; it traps when nothing was initialised.     *)
UninitIntrinsicSignatures ==
  /\ Doing("uninit signatures")
  /\ UNCHANGED dangling
  /\ IF ~signatures
     THEN End("trapped")
     ELSE /\ signatures' = FALSE
          /\ held' = held \ {"Intrinsics"}
          /\ GoOn

(* exit: with 0 exactly when ACTIVE_MEMORY is 0.                           *)
Exit ==
  /\ status = "running" /\ next > Len(Calls)
  /\ End(IF held = {} THEN "exit 0" ELSE "exit 1")
  /\ UNCHANGED dangling

Next ==
  \/ RunStage \/ StageFails \/ EmitStage \/ ShowStage \/ GiveBack
  \/ CheckRecursion \/ InitIntrinsicSignatures \/ UninitIntrinsicSignatures
  \/ Exit

Spec == Init /\ [][Next]_vars

-----------------------------------------------------------------------------
Arenas == {Stages[s].fills : s \in DOMAIN Stages} \union {"Intrinsics"}

TypeOK ==
  /\ command \in SingleFile \union ProjectWide
  /\ fault \in Faults /\ extern \in BOOLEAN
  /\ next \in 1..(Len(Calls) + 1)
  /\ held \subseteq Arenas /\ signatures \in BOOLEAN
  /\ status \in {"running", "trapped", "exit 0", "exit 1", "exit 2"}
  /\ dangling \subseteq Arenas

(* No stage, and no printing of what a stage made, reads memory that was   *)
(* given back: tokens outlive the file, syntax the tokens it points into,  *)
(* monomized code the resolved and the checked program.                    *)
NothingDangling == dangling = {}

(* The faults a command comes upon.                                        *)
Concerns(f) ==
  CASE f = "none" -> FALSE
    [] f \in {"missing file", "unreadable file"} -> TRUE
    [] f = "parse error" -> command # "Lex"
    [] f \in {"import cycle", "resolve error"} -> command \in ProjectWide
    [] f = "recursive type" -> command \in ProjectWide \ {"Resolve"}
    [] f = "unknown function" -> command \in NamesFunction
    [] f = "type error" ->
         /\ command \in ProjectWide \ {"Resolve", "Unstack", "Graph"}
         /\ command = "Infer" => ~extern

(* The process succeeds exactly when nothing the command looks at is       *)
(* wrong.  The status is computed from the memory still in use, so this    *)
(* needs every path through the driver to give back all it allocated, and  *)
(* the path of a parse error not to.                                       *)
ExitStatusDeserved ==
  status # "running" => ((status = "exit 0") <=> ~Concerns(fault))

(* A trap is the answer to an unreadable file, a cycle of imports or an    *)
(* unknown function only: the intrinsics' signatures are there whenever a  *)
(* stage looks them up, and set up and torn down once.                     *)
TrapsAsMeant ==
  status = "trapped" =>
    fault \in {"unreadable file", "import cycle", "unknown function"}
=============================================================================
