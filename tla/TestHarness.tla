----------------------------- MODULE TestHarness -----------------------------
(***************************************************************************)
(* test.py: the tests are handed to a pool of threads.  A thread reads a   *)
(* test, compiles its program, and under the printing lock compares what   *)
(* the compiler said, writes the code to a file and runs it.  The files    *)
(* are named after the test's file without its directories, so that tests  *)
(* in different directories may share one.                                 *)
(*                                                                         *)
(* Left out are --interactive, the command accept, and what is printed.    *)
(***************************************************************************)
EXTENDS Integers, FiniteSets

CONSTANTS
  Threads,      (* the executor's threads                                  *)
  Tests,        (* how many tests there are; they are numbered from 1, in  *)
                (* the order they are submitted                            *)
  Wat(_)        (* the name of the file a test's code is written to        *)

None == "none"

ASSUME HarnessAssumption == Tests \in Nat /\ None \notin Threads

VARIABLES
  kind,         (* what is wrong with each test, if anything               *)
  submitted,    (* number of the next test a thread will take              *)
  doing,        (* what each thread is about to do                         *)
  test,         (* the test each thread is about to do it for, or 0        *)
  holder,       (* the thread that holds printing_lock, or none            *)
  content,      (* the tests whose code is in the files                    *)
  result,       (* the futures                                             *)
  awaited,      (* the future the main thread looks at next                *)
  failed,       (* `failed' in the main thread                             *)
  status        (* exit status, once the script ended                      *)

vars == <<kind, submitted, doing, test, holder, content, result, awaited,
          failed, status>>

AllTests == 1..Tests
Names == {Wat(t) : t \in AllTests}

(* The test file is not one; the compiler answers something else than      *)
(* expected; it answers as expected and there is nothing to run; the       *)
(* program does; it does not do what is expected.                          *)
Kinds == {"malformed", "compiler differs", "compiles", "runs",
          "program differs"}

Init ==
  /\ kind \in [AllTests -> Kinds]
  /\ submitted = 1
  /\ doing = [w \in Threads |-> "idle"]
  /\ test = [w \in Threads |-> 0]
  /\ holder = None
  /\ content = [n \in Names |-> 0]
  /\ result = [t \in AllTests |-> "pending"]
  /\ awaited = 1 /\ failed = FALSE /\ status = "running"

mainVars == <<awaited, failed, status>>
threadVars == <<kind, submitted, doing, test, holder, content, result>>

-----------------------------------------------------------------------------
(* run_test.                                                               *)
GoTo(w, step) == doing' = [doing EXCEPT ![w] = step]
Return(w, passed) ==
  /\ result' = [result EXCEPT ![test[w]] = IF passed THEN "passed" ELSE "failed"]
  /\ GoTo(w, "idle")

Take(w) ==
  /\ doing[w] = "idle" /\ submitted <= Tests
  /\ submitted' = submitted + 1
  /\ test' = [test EXCEPT ![w] = submitted]
  /\ GoTo(w, "reading")
  /\ UNCHANGED <<kind, holder, content, result, mainVars>>

ReadTest(w) ==
  /\ doing[w] = "reading"
  /\ IF kind[test[w]] = "malformed"
     THEN Return(w, FALSE)
     ELSE GoTo(w, "compiling") /\ UNCHANGED result
  /\ UNCHANGED <<kind, submitted, test, holder, content, mainVars>>

Compile(w) ==
  /\ doing[w] = "compiling"
  /\ GoTo(w, "acquiring")
  /\ UNCHANGED <<kind, submitted, test, holder, content, result, mainVars>>

Acquire(w) ==
  /\ doing[w] = "acquiring" /\ holder = None
  /\ holder' = w
  /\ GoTo(w, "comparing")
  /\ UNCHANGED <<kind, submitted, test, content, result, mainVars>>

(* A slip: the lock is not given back when the compiler differs.           *)
CompareKeepingLock(w) ==
  /\ doing[w] = "comparing"
  /\ IF kind[test[w]] = "compiler differs"
     THEN Return(w, FALSE)
     ELSE GoTo(w, "writing") /\ UNCHANGED result
  /\ UNCHANGED <<kind, submitted, test, holder, content, mainVars>>

(* A slip: the lock is for printing only.                                  *)
CompareAndRelease(w) ==
  /\ doing[w] = "comparing"
  /\ holder' = None
  /\ IF kind[test[w]] = "compiler differs"
     THEN Return(w, FALSE)
     ELSE GoTo(w, "writing") /\ UNCHANGED result
  /\ UNCHANGED <<kind, submitted, test, content, mainVars>>

(* On every way out from here the lock is released.                        *)
CompareCompiler(w) ==
  /\ doing[w] = "comparing"
  /\ IF kind[test[w]] = "compiler differs"
     THEN Return(w, FALSE) /\ holder' = None
     ELSE GoTo(w, "writing") /\ UNCHANGED <<result, holder>>
  /\ UNCHANGED <<kind, submitted, test, content, mainVars>>

WriteCode(w) ==
  /\ doing[w] = "writing"
  /\ content' = [content EXCEPT ![Wat(test[w])] = test[w]]
  /\ GoTo(w, "running")
  /\ UNCHANGED <<kind, submitted, test, holder, result, mainVars>>

(* Another program than the test's own does not do what is expected.       *)
RunProgram(w) ==
  /\ doing[w] = "running"
  /\ Return(w, \/ kind[test[w]] = "compiles"
               \/ kind[test[w]] = "runs" /\ content[Wat(test[w])] = test[w])
  /\ holder' = None
  /\ UNCHANGED <<kind, submitted, test, content, mainVars>>

Thread(w) ==
  \/ Take(w) \/ ReadTest(w) \/ Compile(w) \/ Acquire(w) \/ CompareCompiler(w)
  \/ WriteCode(w) \/ RunProgram(w)

-----------------------------------------------------------------------------
(* The main thread: `all' looks at the futures in turn up to one that is   *)
(* False, and the with-statement waits for the threads.                    *)
(* A slip: the last future decides.                                        *)
AwaitAny ==
  /\ status = "running" /\ awaited <= Tests
  /\ result[awaited] # "pending"
  /\ failed' = (result[awaited] = "failed")
  /\ awaited' = awaited + 1
  /\ UNCHANGED <<threadVars, status>>

Await ==
  /\ status = "running" /\ ~failed /\ awaited <= Tests
  /\ result[awaited] # "pending"
  /\ failed' = (result[awaited] = "failed")
  /\ awaited' = awaited + 1
  /\ UNCHANGED <<threadVars, status>>

(* The executor is shut down, then the directory of the files removed.     *)
Exit ==
  /\ status = "running" /\ (failed \/ awaited > Tests)
  /\ submitted > Tests /\ \A w \in Threads : doing[w] = "idle"
  /\ status' = IF failed THEN "exit 1" ELSE "exit 0"
  /\ UNCHANGED <<threadVars, awaited, failed>>

Next == (\E w \in Threads : Thread(w)) \/ Await \/ Exit

(* Every thread runs on.  The lock need not be fair: the tests that        *)
(* overtake a waiting one come to an end.                                  *)
Fairness ==
  /\ \A w \in Threads : WF_vars(Thread(w))
  /\ WF_vars(Await \/ Exit)

Spec == Init /\ [][Next]_vars /\ Fairness

-----------------------------------------------------------------------------
Steps == {"idle", "reading", "compiling", "acquiring", "comparing",
          "writing", "running"}

TypeOK ==
  /\ kind \in [AllTests -> Kinds]
  /\ submitted \in 1..(Tests + 1) /\ awaited \in 1..(Tests + 1)
  /\ doing \in [Threads -> Steps] /\ test \in [Threads -> 0..Tests]
  /\ holder \in Threads \union {None}
  /\ content \in [Names -> 0..Tests]
  /\ result \in [AllTests -> {"pending", "passed", "failed"}]
  /\ failed \in BOOLEAN /\ status \in {"running", "exit 0", "exit 1"}

Good(t) == kind[t] \in {"compiles", "runs"}

(* A test passes or fails for what it is: the file its code is in is not   *)
(* written by another test of the same name between writing and running,   *)
(* though only the printing lock prevents that (test.py:187, 207-211).     *)
VerdictsDeserved ==
  \A t \in AllTests : result[t] # "pending" => (result[t] = "passed" <=> Good(t))

(* The script succeeds exactly when every test is good, although it stops  *)
(* looking at the first that failed (test.py:242-245).                     *)
ExitStatusDeserved ==
  status # "running" => (status = "exit 0" <=> \A t \in AllTests : Good(t))

(* The directory of the files is not removed under a thread, and nothing   *)
(* is left to do (test.py:238).                                            *)
NobodyAtWorkAfterExit ==
  status # "running" =>
    /\ \A t \in AllTests : result[t] # "pending"
    /\ holder = None /\ \A w \in Threads : doing[w] = "idle"

(* The script ends: no way out of a test keeps the lock (test.py:234-235). *)
Ends == <>(status # "running")
=============================================================================
