-------------------------- MODULE TestHarnessProofs --------------------------
(***************************************************************************)
(* For any number of tests and threads and any sharing of file names: a    *)
(* test is judged by its own program, and the script's exit status tells   *)
(* whether one failed.                                                     *)
(***************************************************************************)
EXTENDS TestHarness, TLAPS

Critical == {"comparing", "writing", "running"}

(* The lock is held by the thread, if any, that is past acquiring it.      *)
LockHeld == \A w \in Threads : doing[w] \in Critical <=> holder = w

(* What a thread has left behind of its test was as expected.              *)
GotThisFar ==
  \A w \in Threads :
    /\ doing[w] # "idle" => test[w] \in AllTests
    /\ doing[w] \notin {"idle", "reading"} => kind[test[w]] # "malformed"
    /\ doing[w] \in {"writing", "running"} => kind[test[w]] # "compiler differs"

(* The file a thread is about to run holds the code of its test.           *)
OwnCode ==
  \A w \in Threads : doing[w] = "running" => content[Wat(test[w])] = test[w]

(* A test that was taken is judged or being worked on.                     *)
Accounted ==
  \A t \in AllTests : t < submitted =>
    \/ result[t] # "pending"
    \/ \E w \in Threads : doing[w] # "idle" /\ test[w] = t

(* What the main thread knows.                                             *)
MainKnows ==
  /\ failed => \E t \in AllTests : result[t] = "failed"
  /\ ~failed => \A t \in AllTests : t < awaited => result[t] = "passed"

Ended ==
  status # "running" =>
    /\ failed \/ awaited > Tests
    /\ submitted > Tests /\ \A w \in Threads : doing[w] = "idle"
    /\ status = "exit 1" <=> failed

IInv ==
  /\ TypeOK /\ LockHeld /\ GotThisFar /\ OwnCode /\ Accounted
  /\ VerdictsDeserved /\ MainKnows /\ Ended

-----------------------------------------------------------------------------
LEMMA InitIInv == Init => IInv
<1> SUFFICES ASSUME Init PROVE IInv
  OBVIOUS
<1> USE HarnessAssumption
<1>1. TypeOK
  <2>1. kind \in [AllTests -> Kinds]
        /\ result \in [AllTests -> {"pending", "passed", "failed"}]
    BY DEF Init
  <2>2. submitted \in 1..(Tests + 1) /\ awaited \in 1..(Tests + 1)
    BY DEF Init
  <2>3. test \in [Threads -> 0..Tests] /\ content \in [Names -> 0..Tests]
    <3>1. 0 \in 0..Tests
      OBVIOUS
    <3> QED
      BY <3>1 DEF Init
  <2>4. doing \in [Threads -> Steps]
    BY DEF Init, Steps
  <2>5. holder \in Threads \union {None} /\ failed \in BOOLEAN
        /\ status \in {"running", "exit 0", "exit 1"}
    BY DEF Init
  <2> QED
    BY <2>1, <2>2, <2>3, <2>4, <2>5 DEF TypeOK
<1>2. LockHeld
  BY DEF Init, LockHeld, Critical
<1>3. GotThisFar /\ OwnCode /\ VerdictsDeserved
  BY DEF Init, GotThisFar, OwnCode, VerdictsDeserved
<1>4. Accounted /\ MainKnows /\ Ended
  BY DEF Init, Accounted, MainKnows, Ended, AllTests
<1> QED
  BY <1>1, <1>2, <1>3, <1>4 DEF IInv

-----------------------------------------------------------------------------
(* Each action of a thread keeps the invariant.                            *)

LEMMA TakeKeeps ==
  ASSUME IInv, NEW w \in Threads, Take(w) PROVE IInv'
<1> USE HarnessAssumption
<1> USE DEF IInv
<1>0. submitted <= Tests /\ submitted' = submitted + 1
      /\ doing' = [doing EXCEPT ![w] = "reading"]
      /\ test' = [test EXCEPT ![w] = submitted]
      /\ doing[w] = "idle"
      /\ UNCHANGED <<kind, holder, content, result, awaited, failed, status>>
  BY DEF Take, GoTo, mainVars
<1>a. submitted \in 1..Tests /\ submitted \in Int /\ submitted \in 0..Tests
      /\ submitted' \in 1..(Tests + 1)
  <2>1. submitted \in 1..(Tests + 1)
    BY DEF TypeOK
  <2> QED
    BY <2>1, <1>0
<1>b. submitted \in AllTests
  BY <1>a DEF AllTests
<1>1. TypeOK'
  <2>1. test' \in [Threads -> 0..Tests] /\ doing' \in [Threads -> Steps]
    BY <1>0, <1>a DEF TypeOK, Steps
  <2> QED
    BY <2>1, <1>0, <1>a DEF TypeOK
<1>2. LockHeld'
  BY <1>0 DEF LockHeld, Critical, TypeOK
<1>3. GotThisFar'
  BY <1>0, <1>b DEF GotThisFar, TypeOK
<1>4. OwnCode'
  BY <1>0 DEF OwnCode, TypeOK
<1>5. Accounted'
  <2> SUFFICES ASSUME NEW t \in AllTests, t < submitted', result'[t] = "pending"
               PROVE  \E v \in Threads : doing'[v] # "idle" /\ test'[v] = t
    BY DEF Accounted
  <2>1. CASE t = submitted
    BY <1>0, <2>1 DEF TypeOK
  <2>2. CASE t # submitted
    <3>1. t < submitted
      BY <1>0, <1>a, <2>2 DEF AllTests
    <3>2. PICK v \in Threads : doing[v] # "idle" /\ test[v] = t
      BY <3>1, <1>0 DEF Accounted
    <3> QED
      BY <3>2, <1>0 DEF TypeOK
  <2> QED
    BY <2>1, <2>2
<1>6. VerdictsDeserved' /\ MainKnows'
  BY <1>0 DEF VerdictsDeserved, MainKnows, Good
<1>7. Ended'
  <2>1. ~(submitted > Tests)
    BY <1>a
  <2>2. status = "running"
    BY <2>1 DEF Ended
  <2> QED
    BY <2>2, <1>0 DEF Ended
<1> QED
  BY <1>1, <1>2, <1>3, <1>4, <1>5, <1>6, <1>7

(* A thread goes on to the next step of its test.                          *)
LEMMA StepKeeps ==
  ASSUME IInv, NEW w \in Threads, NEW step \in Steps \ {"idle", "reading"},
         doing[w] # "idle",
         doing' = [doing EXCEPT ![w] = step],
         holder' \in Threads \union {None},
         UNCHANGED <<kind, submitted, test, result, awaited, failed, status>>,
         content' \in [Names -> 0..Tests],
         LockHeld', OwnCode',
         kind[test[w]] # "malformed",
         step \in {"writing", "running"} => kind[test[w]] # "compiler differs"
  PROVE  IInv'
<1> USE DEF IInv
<1>1. TypeOK'
  BY DEF TypeOK
<1>2. GotThisFar'
  BY DEF GotThisFar, TypeOK
<1>3. Accounted'
  <2> SUFFICES ASSUME NEW t \in AllTests, t < submitted, result[t] = "pending"
               PROVE  \E v \in Threads : doing'[v] # "idle" /\ test[v] = t
    BY DEF Accounted
  <2>1. PICK v \in Threads : doing[v] # "idle" /\ test[v] = t
    BY DEF Accounted
  <2> QED
    BY <2>1 DEF TypeOK
<1>4. VerdictsDeserved' /\ MainKnows'
  BY DEF VerdictsDeserved, MainKnows, Good
<1>5. Ended'
  BY DEF Ended
<1> QED
  BY <1>1, <1>2, <1>3, <1>4, <1>5

(* A thread is done with its test, and its answer is right.                *)
LEMMA ReturnKeeps ==
  ASSUME IInv, NEW w \in Threads, NEW passed \in BOOLEAN,
         doing[w] # "idle", Return(w, passed),
         passed <=> Good(test[w]),
         UNCHANGED <<kind, submitted, test, content, awaited, failed, status>>,
         holder' = IF doing[w] \in Critical THEN None ELSE holder
  PROVE  IInv'
<1> USE HarnessAssumption
<1> USE DEF IInv
<1>0. doing' = [doing EXCEPT ![w] = "idle"] /\ test[w] \in AllTests
      /\ result' = [result EXCEPT ![test[w]] =
                      IF passed THEN "passed" ELSE "failed"]
  BY DEF Return, GoTo, GotThisFar
<1>1. TypeOK'
  BY <1>0 DEF TypeOK, Steps
<1>2. LockHeld'
  <2>1. ASSUME NEW v \in Threads PROVE doing'[v] \in Critical <=> holder' = v
    <3>1. CASE v = w
      BY <3>1, <1>0 DEF LockHeld, TypeOK, Critical
    <3>2. CASE v # w
      BY <3>2, <1>0 DEF LockHeld, TypeOK, Critical
    <3> QED
      BY <3>1, <3>2
  <2> QED
    BY <2>1 DEF LockHeld
<1>3. GotThisFar' /\ OwnCode'
  BY <1>0 DEF GotThisFar, OwnCode, TypeOK
<1>4. Accounted'
  <2> SUFFICES ASSUME NEW t \in AllTests, t < submitted, result'[t] = "pending"
               PROVE  \E v \in Threads : doing'[v] # "idle" /\ test[v] = t
    BY DEF Accounted
  <2>1. t # test[w] /\ result[t] = "pending"
    BY <1>0 DEF TypeOK
  <2>2. PICK v \in Threads : doing[v] # "idle" /\ test[v] = t
    BY <2>1 DEF Accounted
  <2> QED
    BY <2>1, <2>2, <1>0 DEF TypeOK
<1>5. VerdictsDeserved'
  BY <1>0 DEF VerdictsDeserved, TypeOK, Good
<1>6. \A t \in AllTests : result[t] # "pending" => result'[t] = result[t]
  <2> SUFFICES ASSUME NEW t \in AllTests, result[t] # "pending"
               PROVE  result'[t] = result[t]
    OBVIOUS
  <2>1. result[t] \in {"passed", "failed"} /\ (result[t] = "passed" <=> Good(t))
    BY DEF VerdictsDeserved, TypeOK
  <2> QED
    BY <2>1, <1>0 DEF TypeOK
<1>7. MainKnows'
  BY <1>6 DEF MainKnows
<1>8. Ended'
  BY DEF Ended
<1> QED
  BY <1>1, <1>2, <1>3, <1>4, <1>5, <1>7, <1>8

LEMMA ThreadKeeps ==
  ASSUME IInv, NEW w \in Threads, Thread(w) PROVE IInv'
<1> USE HarnessAssumption
<1> USE DEF IInv
<1>1. CASE Take(w)
  BY <1>1, TakeKeeps
<1>2. CASE ReadTest(w)
  <2>1. CASE kind[test[w]] = "malformed"
    <3>1. Return(w, FALSE) /\ ~Good(test[w]) /\ doing[w] = "reading"
      BY <1>2, <2>1 DEF ReadTest, Good
    <3> QED
      BY <3>1, <1>2, ReturnKeeps DEF ReadTest, mainVars, Critical
  <2>2. CASE kind[test[w]] # "malformed"
    <3>1. doing' = [doing EXCEPT ![w] = "compiling"] /\ doing[w] = "reading"
          /\ UNCHANGED <<kind, submitted, test, holder, content, result,
                         awaited, failed, status>>
      BY <1>2, <2>2 DEF ReadTest, GoTo, mainVars
    <3>2. LockHeld' /\ OwnCode'
      BY <3>1 DEF LockHeld, OwnCode, Critical, TypeOK
    <3> QED
      BY <3>1, <3>2, <2>2, StepKeeps DEF TypeOK, Steps
  <2> QED
    BY <2>1, <2>2
<1>3. CASE Compile(w)
  <2>1. doing' = [doing EXCEPT ![w] = "acquiring"] /\ doing[w] = "compiling"
        /\ UNCHANGED <<kind, submitted, test, holder, content, result,
                       awaited, failed, status>>
    BY <1>3 DEF Compile, GoTo, mainVars
  <2>2. LockHeld' /\ OwnCode' /\ kind[test[w]] # "malformed"
    BY <2>1 DEF LockHeld, OwnCode, Critical, TypeOK, GotThisFar
  <2> QED
    BY <2>1, <2>2, StepKeeps DEF TypeOK, Steps
<1>4. CASE Acquire(w)
  <2>1. doing' = [doing EXCEPT ![w] = "comparing"] /\ doing[w] = "acquiring"
        /\ holder = None /\ holder' = w
        /\ UNCHANGED <<kind, submitted, test, content, result,
                       awaited, failed, status>>
    BY <1>4 DEF Acquire, GoTo, mainVars
  <2>2. LockHeld'
    BY <2>1 DEF LockHeld, Critical, TypeOK
  <2>3. OwnCode' /\ kind[test[w]] # "malformed"
    BY <2>1 DEF OwnCode, TypeOK, GotThisFar
  <2> QED
    BY <2>1, <2>2, <2>3, StepKeeps DEF TypeOK, Steps
<1>5. CASE CompareCompiler(w)
  <2>1. CASE kind[test[w]] = "compiler differs"
    <3>1. Return(w, FALSE) /\ ~Good(test[w]) /\ doing[w] = "comparing"
          /\ holder' = None
      BY <1>5, <2>1 DEF CompareCompiler, Good
    <3> QED
      BY <3>1, <1>5, ReturnKeeps DEF CompareCompiler, mainVars, Critical
  <2>2. CASE kind[test[w]] # "compiler differs"
    <3>1. doing' = [doing EXCEPT ![w] = "writing"] /\ doing[w] = "comparing"
          /\ UNCHANGED <<kind, submitted, test, holder, content, result,
                         awaited, failed, status>>
      BY <1>5, <2>2 DEF CompareCompiler, GoTo, mainVars
    <3>2. LockHeld' /\ OwnCode' /\ kind[test[w]] # "malformed"
      BY <3>1 DEF LockHeld, OwnCode, Critical, TypeOK, GotThisFar
    <3> QED
      BY <3>1, <3>2, <2>2, StepKeeps DEF TypeOK, Steps
  <2> QED
    BY <2>1, <2>2
<1>6. CASE WriteCode(w)
  <2>1. doing' = [doing EXCEPT ![w] = "running"] /\ doing[w] = "writing"
        /\ content' = [content EXCEPT ![Wat(test[w])] = test[w]]
        /\ UNCHANGED <<kind, submitted, test, holder, result,
                       awaited, failed, status>>
    BY <1>6 DEF WriteCode, GoTo, mainVars
  <2>2. test[w] \in AllTests /\ Wat(test[w]) \in Names
        /\ kind[test[w]] # "malformed" /\ kind[test[w]] # "compiler differs"
    BY <2>1 DEF GotThisFar, Names
  <2>3. LockHeld'
    BY <2>1 DEF LockHeld, Critical, TypeOK
  <2>4. OwnCode'
    <3> SUFFICES ASSUME NEW v \in Threads, doing'[v] = "running"
                 PROVE  content'[Wat(test[v])] = test[v]
      BY <2>1 DEF OwnCode
    <3>1. v = w
      BY <2>1 DEF LockHeld, Critical, TypeOK
    <3> QED
      BY <3>1, <2>1, <2>2 DEF TypeOK
  <2>5. content' \in [Names -> 0..Tests]
    BY <2>1, <2>2 DEF TypeOK, AllTests
  <2> QED
    BY <2>1, <2>2, <2>3, <2>4, <2>5, StepKeeps DEF TypeOK, Steps
<1>7. CASE RunProgram(w)
  <2>1. doing[w] = "running" /\ test[w] \in AllTests
        /\ content[Wat(test[w])] = test[w]
    BY <1>7 DEF RunProgram, OwnCode, GotThisFar
  <2>2. Return(w, Good(test[w])) /\ holder' = None
    <3>1. CASE Good(test[w])
      BY <3>1, <1>7, <2>1 DEF RunProgram, Return, Good
    <3>2. CASE ~Good(test[w])
      BY <3>2, <1>7, <2>1 DEF RunProgram, Return, Good
    <3> QED
      BY <3>1, <3>2
  <2>3. Good(test[w]) \in BOOLEAN
    BY DEF Good
  <2> QED
    BY <1>7, <2>1, <2>2, <2>3, ReturnKeeps DEF RunProgram, mainVars, Critical
<1> QED
  BY <1>1, <1>2, <1>3, <1>4, <1>5, <1>6, <1>7 DEF Thread

-----------------------------------------------------------------------------
(* The main thread.                                                        *)

LEMMA MainKeeps ==
  ASSUME IInv, Await \/ Exit PROVE IInv'
<1> USE HarnessAssumption
<1> USE DEF IInv
<1>1. CASE Await
  <2>1. awaited <= Tests /\ awaited' = awaited + 1 /\ ~failed
        /\ result[awaited] # "pending"
        /\ failed' = (result[awaited] = "failed")
        /\ status = "running"
        /\ UNCHANGED <<kind, submitted, doing, test, holder, content, result,
                       status>>
    BY <1>1 DEF Await, threadVars
  <2>2. awaited \in 1..Tests /\ awaited \in Int /\ awaited' \in 1..(Tests + 1)
    <3>1. awaited \in 1..(Tests + 1)
      BY DEF TypeOK
    <3> QED
      BY <3>1, <2>1
  <2>3. awaited \in AllTests
    BY <2>2 DEF AllTests
  <2>4. TypeOK'
    <3>1. failed' \in BOOLEAN
      BY <2>1
    <3> QED
      BY <2>1, <2>2, <3>1 DEF TypeOK
  <2>5. LockHeld' /\ GotThisFar' /\ OwnCode' /\ Accounted' /\ VerdictsDeserved'
    BY <2>1 DEF LockHeld, GotThisFar, OwnCode, Accounted, VerdictsDeserved, Good
  <2>6. MainKnows'
    <3>1. CASE result[awaited] = "failed"
      BY <3>1, <2>1, <2>3 DEF MainKnows
    <3>2. CASE result[awaited] # "failed"
      <4>1. result[awaited] = "passed" /\ ~failed'
        BY <3>2, <2>1, <2>3 DEF TypeOK
      <4>2. ASSUME NEW t \in AllTests, t < awaited' PROVE result[t] = "passed"
        <5>1. t = awaited \/ t < awaited
          BY <4>2, <2>1, <2>2 DEF AllTests
        <5> QED
          BY <5>1, <4>1, <2>1 DEF MainKnows
      <4> QED
        BY <4>1, <4>2, <2>1 DEF MainKnows
    <3> QED
      BY <3>1, <3>2
  <2>7. Ended'
    BY <2>1 DEF Ended
  <2> QED
    BY <2>4, <2>5, <2>6, <2>7
<1>2. CASE Exit
  <2>1. /\ failed \/ awaited > Tests
        /\ submitted > Tests
        /\ \A w \in Threads : doing[w] = "idle"
    BY <1>2 DEF Exit
  <2>a. /\ status' = IF failed THEN "exit 1" ELSE "exit 0"
        /\ UNCHANGED <<kind, submitted, doing, test, holder, content, result,
                       awaited, failed>>
    BY <1>2 DEF Exit, threadVars
  <2>b. /\ status' \in {"exit 0", "exit 1"}
        /\ status' = "exit 1" <=> failed
    BY <2>a
  <2>2. TypeOK'
    BY <2>a, <2>b DEF TypeOK
  <2>3. LockHeld' /\ GotThisFar' /\ OwnCode' /\ Accounted' /\ VerdictsDeserved'
        /\ MainKnows'
    BY <2>a DEF LockHeld, GotThisFar, OwnCode, Accounted, VerdictsDeserved,
                Good, MainKnows
  <2>4. Ended'
    BY <2>1, <2>a, <2>b DEF Ended
  <2> QED
    BY <2>2, <2>3, <2>4
<1> QED
  BY <1>1, <1>2

LEMMA StutterKeeps == ASSUME IInv, UNCHANGED vars PROVE IInv'
  BY DEF IInv, vars, TypeOK, LockHeld, GotThisFar, OwnCode, Accounted,
         VerdictsDeserved, Good, MainKnows, Ended

LEMMA Inductive == Spec => []IInv
<1>1. IInv /\ [Next]_vars => IInv'
  BY ThreadKeeps, MainKeeps, StutterKeeps DEF Next
<1> QED
  BY InitIInv, <1>1, PTL DEF Spec

-----------------------------------------------------------------------------
(* The state of threads, files and futures keeps its types.                *)
THEOREM WellTyped == Spec => []TypeOK
<1>1. IInv => TypeOK
  BY DEF IInv
<1> QED
  BY Inductive, <1>1, PTL

(* However many tests and threads there are and however many tests share a *)
(* file name, a test is judged by running its own program.                 *)
THEOREM JudgedByItsOwnProgram == Spec => []VerdictsDeserved
<1>1. IInv => VerdictsDeserved
  BY DEF IInv
<1> QED
  BY Inductive, <1>1, PTL

(* When the script ends nothing is left to do.                             *)
THEOREM AllDoneAtExit == Spec => []NobodyAtWorkAfterExit
<1>1. ASSUME IInv, status # "running" PROVE NobodyAtWorkAfterExit
  <2> USE HarnessAssumption
  <2> USE DEF IInv
  <2>1. submitted > Tests /\ \A w \in Threads : doing[w] = "idle"
    BY <1>1 DEF Ended
  <2>2. ASSUME NEW t \in AllTests PROVE result[t] # "pending"
    <3>0. submitted \in 1..(Tests + 1) /\ t \in 1..Tests
      BY <2>2, <1>1 DEF AllTests, TypeOK
    <3>1. t < submitted
      BY <3>0, <2>1
    <3> QED
      BY <3>1, <2>1, <1>1 DEF Accounted
  <2>3. holder = None
    BY <2>1, <1>1 DEF LockHeld, TypeOK, Critical
  <2> QED
    BY <2>1, <2>2, <2>3 DEF NobodyAtWorkAfterExit
<1>2. IInv => NobodyAtWorkAfterExit
  BY <1>1 DEF NobodyAtWorkAfterExit
<1> QED
  BY Inductive, <1>2, PTL

(* The script's exit status tells whether all tests are good.              *)
THEOREM StatusTellsTheTruth == Spec => []ExitStatusDeserved
<1>1. ASSUME IInv, status # "running" PROVE ExitStatusDeserved
  <2> USE HarnessAssumption
  <2> USE DEF IInv
  <2>1. CASE failed
    <3>1. PICK t \in AllTests : result[t] = "failed"
      BY <2>1, <1>1 DEF MainKnows
    <3>2. ~Good(t)
      BY <3>1, <1>1 DEF VerdictsDeserved
    <3> QED
      BY <3>2, <2>1, <1>1 DEF ExitStatusDeserved, Ended
  <2>2. CASE ~failed
    <3>1. awaited > Tests /\ status # "exit 1"
      BY <2>2, <1>1 DEF Ended
    <3>2. ASSUME NEW t \in AllTests PROVE Good(t)
      <4>0. awaited \in 1..(Tests + 1) /\ t \in 1..Tests
        BY <3>2, <1>1 DEF AllTests, TypeOK
      <4>a. awaited > Tests
        BY <3>1
      <4>1. t < awaited
        BY <4>0, <4>a
      <4>2. result[t] = "passed"
        BY <4>1, <2>2, <1>1 DEF MainKnows
      <4> QED
        BY <4>2, <1>1 DEF VerdictsDeserved
    <3>3. status = "exit 0"
      BY <3>1, <1>1 DEF TypeOK
    <3> QED
      BY <3>2, <3>3 DEF ExitStatusDeserved
  <2> QED
    BY <2>1, <2>2
<1>2. IInv => ExitStatusDeserved
  BY <1>1 DEF ExitStatusDeserved
<1> QED
  BY Inductive, <1>2, PTL
=============================================================================
