----------------------------- MODULE MCDrivers -----------------------------
(***************************************************************************)
(* Model checking what surrounds the compilation of a module.  A behaviour *)
(* is about one of four things:                                            *)
(*                                                                         *)
(*   "loading"   both compilers load and order the same program (Loaders): *)
(*               programs of up to four files that import at most two      *)
(*               each, with cycles, diamonds, a file imported twice and    *)
(*               one that cannot be read;                                  *)
(*   "paths"     a chain of imports (ImportPaths): every import of up to   *)
(*               three segments before the file, in which no "." and ""    *)
(*               stand together or at an end;                              *)
(*   "commands"  a command of the native compiler on a fault (Pipeline);   *)
(*   "tests"     the test script (TestHarness): three tests, of which the  *)
(*               first and the last share a file name, and two threads.    *)
(***************************************************************************)
EXTENDS TestHarness, Loaders, ImportPaths

CONSTANTS m, a, b, c,                         (* files *)
          w1, w2                              (* threads *)

VARIABLES
  part,
  command, fault, extern, next, held, signatures, commandStatus, dangling

Commands == INSTANCE Pipeline WITH status <- commandStatus

commandVars ==
  <<command, fault, extern, next, held, signatures, commandStatus, dangling>>
allVars == <<part, loadingVars, bootVars, pathVars, commandVars, vars>>

-----------------------------------------------------------------------------
(* Values.                                                                 *)

Lists ==
  {<< >>, <<a, a>>} \union {<<f>> : f \in Files}
    \union {<<a, b>>, <<a, c>>, <<b, c>>}

Before == BoundedSeq({"", ".", "..", "d", "e"}, 3)
Tame(s) ==
  /\ s # << >> => s[1] # ""
  /\ \A k \in 1..(Len(s) - 1) : ~({s[k], s[k + 1]} \subseteq {"", "."})
MCImports == {s \o <<"x">> : s \in {t \in Before : Tame(t)}}
MCMains == {<<"m">>, <<".", "m">>, <<"d", "m">>, <<".", "d", "m">>,
            <<"..", "m">>, <<"d", "..", "m">>}

MCWat(t) == IF t = 2 THEN "if.wat" ELSE "call.wat"

-----------------------------------------------------------------------------
(* The parts that a behaviour is not about stand still where they start.   *)
AtRest ==
  /\ part # "paths" => file = <<"m">> /\ native = file
  /\ part # "commands" => command = "Lex" /\ fault = "none" /\ ~extern
  /\ part # "tests" => \A t \in AllTests : kind[t] = "runs"

AllInit ==
  /\ part \in {"loading", "paths", "commands", "tests"}
  /\ LoadersInit /\ PathsInit /\ Commands!Init /\ Init
  /\ AtRest

Loading ==
  /\ part = "loading" /\ LoadersNext
  /\ UNCHANGED <<part, pathVars, commandVars, vars>>

FollowingImports ==
  /\ part = "paths" /\ PathsNext
  /\ UNCHANGED <<part, loadingVars, bootVars, commandVars, vars>>

Running ==
  /\ part = "commands" /\ Commands!Next
  /\ UNCHANGED <<part, loadingVars, bootVars, pathVars, vars>>

Testing(step) ==
  /\ part = "tests" /\ step
  /\ UNCHANGED <<part, loadingVars, bootVars, pathVars, commandVars>>

AllNext == Loading \/ FollowingImports \/ Running \/ Testing(Next)

(* Each compiler is one process that runs on: it neither waits nor stops.  *)
(* So do the threads of the test script and its main thread (TestHarness). *)
AllSpec ==
  /\ AllInit /\ [][AllNext]_allVars
  /\ WF_allVars(Loading)
  /\ \A w \in Threads : WF_allVars(Testing(Thread(w)))
  /\ WF_allVars(Testing(Await \/ Exit))

-----------------------------------------------------------------------------
(* ModuleLoading: loading and ordering come to an end in the    *)
(* native compiler (main.watim:805-982).                                   *)
LoadingEnds == part = "loading" => Terminates

(* BootstrapLoading: loading and ordering end, unless a module imports the *)
(* main one (bootstrap/__main__.py:64-81).                                 *)
EndsUnlessMainImported == part = "loading" => BootTerminates

(* Pipeline: no stage and no printing reads memory given back              *)
(* (main.watim:414-618).                                                   *)
NothingDangling == Commands!NothingDangling

(* Pipeline: the exit status is 0 exactly when nothing the command looks   *)
(* at is wrong (main.watim:398-411).                                       *)
StatusDeserved == Commands!ExitStatusDeserved

(* Pipeline: the compiler traps on an unreadable file, a cycle of imports  *)
(* or an unknown function only (main.watim:451-523).                       *)
TrapsAsMeant == Commands!TrapsAsMeant

(* TestHarness: no way out of a test keeps the lock (test.py:234-235).     *)
ScriptEnds == part = "tests" => Ends
=============================================================================
