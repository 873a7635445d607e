--------------------------- MODULE LoadersProofs ---------------------------
(***************************************************************************)
(* The loaders of the two compilers, for any set of files and whatever     *)
(* they import.                                                            *)
(*                                                                         *)
(* First, the native compiler loads each module once and none that is not  *)
(* needed, orders all of them after what they import, the main one last,   *)
(* and gives up only when there is no such order.                          *)
(*                                                                         *)
(* Second, the bootstrap compiler reports an import cycle only where there *)
(* is one, gets past loading only where there is none or one through the   *)
(* main module, and the order it ends with is one of compilation.          *)
(*                                                                         *)
(* Third, the two compilers load the modules of a program in the same      *)
(* order and compile them in the same order, although their loaders stop   *)
(* at different places: the native one has no import stack, the bootstrap  *)
(* compiler's ordering no last round.  Both orders are described by        *)
(* operators on the table of modules M: what is loaded next is determined  *)
(* by what was loaded before (ComesNext), and what is listed next by what  *)
(* was listed before (ListedNext).                                         *)
(*                                                                         *)
(* Last, the keys by which they know the modules: the three ways to make a *)
(* path the shortest one to its file agree.                                *)
(***************************************************************************)
EXTENDS Loaders, ImportPaths, FiniteSetTheorems, SequenceTheorems, WellFoundedInduction, TLAPS

Frame == [path : Files, imports : Seq(Files), next : Nat]
Module == [path : Files, imports : Seq(Files)]

(* The map of modules has a path once.                                     *)
PathsDistinct ==
  \A m, n \in Ids : modules[m].path = modules[n].path => m = n

(* The first call is for the main module, any other for the import its     *)
(* caller has just passed.  A call that has read its file has put the      *)
(* module into the map, and only the last one may not have.                *)
CallsChain ==
  /\ calls # << >> => calls[1].path = Main
  /\ \A k \in 1 .. Len(calls) :
       /\ calls[k].next = 0 => k = Len(calls)
       /\ calls[k].next > 0 =>
            \E m \in Ids : /\ modules[m].path = calls[k].path
                           /\ modules[m].imports = calls[k].imports
       /\ k > 1 => /\ calls[k - 1].next - 1 \in 1 .. Len(calls[k - 1].imports)
                   /\ calls[k].path = calls[k - 1].imports[calls[k - 1].next - 1]

(* The file that is looked at now.                                         *)
Pending(f) == calls # << >> /\ Call.next = 0 /\ Call.path = f

(* Every import of a loaded module is loaded, or being loaded, or the call *)
(* that loads this module's imports has yet to come to it.                 *)
ImportsAttended ==
  \A m \in Ids : \A j \in 1 .. Len(modules[m].imports) :
    \/ modules[m].imports[j] \in Loaded
    \/ Pending(modules[m].imports[j])
    \/ \E k \in 1 .. Len(calls) : /\ calls[k].path = modules[m].path
                                  /\ calls[k].next \in 1 .. j

(* The main module is loaded unless it is looked at now, and any other was *)
(* loaded because one imports it.                                          *)
ModulesNeeded ==
  /\ Main \in Loaded \/ (calls # << >> /\ calls[1].next = 0)
  /\ \A m \in Ids :
       \/ modules[m].path = Main
       \/ \E n \in Ids : modules[m].path \in ImportsOf(n)

LoadInv == PathsDistinct /\ CallsChain /\ ImportsAttended /\ ModulesNeeded

(* A module is either unprocessed or ordered, and stands in its list once. *)
Partition ==
  /\ \A k, l \in 1 .. Len(unprocessed) : unprocessed[k] = unprocessed[l] => k = l
  /\ \A k, l \in 1 .. Len(ordered) : ordered[k] = ordered[l] => k = l
  /\ \A k \in 1 .. Len(unprocessed), l \in 1 .. Len(ordered) :
       unprocessed[k] # ordered[l]
  /\ \A m \in Ids : \/ \E k \in 1 .. Len(unprocessed) : unprocessed[k] = m
                    \/ \E k \in 1 .. Len(ordered) : ordered[k] = m

(* What an ordered module imports is ordered before it.                    *)
ImportsFirst ==
  \A k \in 1 .. Len(ordered) : \A j \in 1 .. Len(modules[ordered[k]].imports) :
    \E l \in 1 .. k - 1 : modules[ordered[l]].path = modules[ordered[k]].imports[j]

Begun == phase \in {"ordering", "done", "trap"}

(* Once ordering has begun nothing is being loaded.  As long as a round    *)
(* has ordered none, none of the modules it has visited can be ordered.    *)
OrderInv ==
  /\ ~Begun => unprocessed = << >> /\ ordered = << >>
  /\ Begun => calls = << >> /\ Partition /\ ImportsFirst
  /\ phase = "ordering" /\ stuck =>
       unprocessed # << >> /\ \A k \in 1 .. i - 1 : ~Ready(unprocessed[k])
  /\ phase = "done" => unprocessed = << >>
  /\ phase = "trap" =>
       unprocessed # << >> /\ \A k \in 1 .. Len(unprocessed) : ~Ready(unprocessed[k])

IInv == LoadingTypeOK /\ LoadInv /\ OrderInv

-----------------------------------------------------------------------------
(* Sequences.                                                              *)

(* What is left when the element at n is taken out and the rest moves up.  *)
LEMMA ElementRemoved ==
  ASSUME NEW S, NEW s \in Seq(S), NEW n \in 1 .. Len(s)
  PROVE  LET r == SubSeq(s, 1, n - 1) \o SubSeq(s, n + 1, Len(s)) IN
         /\ r \in Seq(S)
         /\ Len(r) = Len(s) - 1
         /\ \A k \in 1 .. Len(r) : r[k] = IF k < n THEN s[k] ELSE s[k + 1]
<1> DEFINE before == SubSeq(s, 1, n - 1)
           after == SubSeq(s, n + 1, Len(s))
<1>1. /\ before \in Seq(S) /\ Len(before) = n - 1
      /\ \A k \in 1 .. n - 1 : before[k] = s[k]
  OBVIOUS
<1>2. /\ after \in Seq(S) /\ Len(after) = Len(s) - n
      /\ \A k \in 1 .. Len(s) - n : after[k] = s[k + n]
  OBVIOUS
<1>3. /\ Len(s) \in Nat /\ n \in Nat /\ 1 <= n /\ n <= Len(s)
  OBVIOUS
<1> HIDE DEF before, after
<1>4. /\ before \o after \in Seq(S)
      /\ Len(before \o after) = Len(before) + Len(after)
      /\ \A k \in 1 .. Len(before) + Len(after) :
           (before \o after)[k] = IF k <= Len(before) THEN before[k]
                                  ELSE after[k - Len(before)]
  BY <1>1, <1>2, ConcatProperties
<1>5. Len(before \o after) = Len(s) - 1
  BY <1>1, <1>2, <1>3, <1>4
<1>6. ASSUME NEW k \in 1 .. Len(s) - 1
      PROVE  (before \o after)[k] = IF k < n THEN s[k] ELSE s[k + 1]
  <2>1. /\ k \in Nat
        /\ (before \o after)[k] = IF k <= n - 1 THEN before[k] ELSE after[k - (n - 1)]
    <3>1. k \in Nat /\ k \in 1 .. Len(before) + Len(after)
      BY <1>1, <1>2, <1>3
    <3>2. (before \o after)[k] = IF k <= Len(before) THEN before[k] ELSE after[k - Len(before)]
      BY <1>4, <3>1
    <3>3. Len(before) = n - 1
      BY <1>1
    <3> QED
      BY <3>1, <3>2, <3>3
  <2>2. CASE k < n
    BY <1>1, <1>3, <2>1, <2>2
  <2>3. CASE ~(k < n)
    <3>1. k - (n - 1) \in 1 .. Len(s) - n /\ k - (n - 1) + n = k + 1
      BY <1>3, <2>1, <2>3
    <3> QED
      BY <1>2, <1>3, <2>1, <2>3, <3>1
  <2> QED
    BY <2>2, <2>3
<1> QED
  BY <1>4, <1>5, <1>6 DEF before, after

(* A sequence without its last element.                                    *)
LEMMA LastRemoved ==
  ASSUME NEW S, NEW s \in Seq(S), s # << >>
  PROVE  LET r == SubSeq(s, 1, Len(s) - 1) IN
         /\ r \in Seq(S)
         /\ Len(r) = Len(s) - 1
         /\ \A k \in 1 .. Len(s) - 1 : r[k] = s[k]
<1> DEFINE n == Len(s) - 1
           r == SubSeq(s, 1, n)
<1>1. n \in Nat /\ \A k \in 1 .. n : s[k] \in S
  OBVIOUS
<1> HIDE DEF n
<1>2. /\ r \in Seq(S)
      /\ Len(r) = IF 1 <= n THEN n - 1 + 1 ELSE 0
      /\ \A k \in 1 .. n - 1 + 1 : r[k] = s[1 + k - 1]
  BY <1>1, SubSeqProperties
<1> HIDE DEF r
<1>3. Len(r) = n
  BY <1>1, <1>2
<1>4. ASSUME NEW k \in 1 .. n
      PROVE  r[k] = s[k]
  <2>1. k \in 1 .. n - 1 + 1 /\ 1 + k - 1 = k
    BY <1>1
  <2> QED
    BY <1>2, <2>1
<1> QED
  BY <1>2, <1>3, <1>4 DEF r, n

-----------------------------------------------------------------------------
(* The parts of a well-typed state, and how to put them together again.    *)
LEMMA Typed ==
  ASSUME LoadingTypeOK
  PROVE  /\ modules \in Seq(Module) /\ Len(modules) \in Nat /\ Ids = 1 .. Len(modules)
         /\ \A m \in Ids : modules[m] \in Module
         /\ unprocessed \in Seq(Ids) /\ Len(unprocessed) \in Nat
         /\ ordered \in Seq(Ids) /\ Len(ordered) \in Nat
         /\ i \in 1 .. Len(unprocessed) + 1 /\ i \in Nat
<1>1. modules \in Seq(Module) /\ unprocessed \in Seq(Ids) /\ ordered \in Seq(Ids)
  BY DEF LoadingTypeOK, Module
<1>2. Len(modules) \in Nat /\ Len(unprocessed) \in Nat /\ Len(ordered) \in Nat
  BY <1>1
<1>3. Ids = 1 .. Len(modules)
  BY DEF Ids
<1>4. i \in 1 .. Len(unprocessed) + 1
  BY DEF LoadingTypeOK
<1> QED
  BY <1>1, <1>2, <1>3, <1>4

-----------------------------------------------------------------------------
(* Loading.                                                                *)

(* The call in progress.                                                   *)
LEMMA CallFacts ==
  ASSUME LoadingTypeOK, calls # << >>
  PROVE  /\ Len(calls) \in Nat \ {0} /\ Call \in Frame /\ Call = calls[Len(calls)]
         /\ \A k \in 1 .. Len(calls) : calls[k] \in Frame
         /\ Callers \in Seq(Frame) /\ Len(Callers) = Len(calls) - 1
         /\ \A k \in 1 .. Len(calls) - 1 : Callers[k] = calls[k]
<1>1. calls \in Seq(Frame)
  BY DEF LoadingTypeOK, Frame
<1>2. Len(calls) \in Nat \ {0}
  BY <1>1
<1>3. \A k \in 1 .. Len(calls) : calls[k] \in Frame
  BY <1>1
<1>4. /\ Callers \in Seq(Frame) /\ Len(Callers) = Len(calls) - 1
      /\ \A k \in 1 .. Len(calls) - 1 : Callers[k] = calls[k]
  BY <1>1, LastRemoved DEF Callers
<1> QED
  BY <1>2, <1>3, <1>4 DEF Call

(* A call that has begun on its imports has read its file.                 *)
LEMMA CallRead ==
  ASSUME CallsChain, NEW k \in 1 .. Len(calls), calls[k].next > 0
  PROVE  \E m \in Ids : /\ modules[m].path = calls[k].path
                        /\ modules[m].imports = calls[k].imports
BY DEF CallsChain

(* The main file is looked at first.                                       *)
LEMMA InitInv == LoadingInit => IInv
<1> SUFFICES ASSUME LoadingInit PROVE IInv
  OBVIOUS
<1>1. /\ calls = << [path |-> Main, imports |-> << >>, next |-> 0] >>
      /\ modules = << >> /\ unprocessed = << >> /\ ordered = << >>
      /\ i = 1 /\ stuck = TRUE /\ phase = "loading"
  BY DEF LoadingInit
<1>2. /\ calls \in Seq(Frame) /\ Len(calls) = 1 /\ calls # << >>
      /\ calls[1] = [path |-> Main, imports |-> << >>, next |-> 0]
  BY <1>1, LoadingAssumption DEF Frame
<1>3. LoadingTypeOK
  BY <1>1, <1>2 DEF LoadingTypeOK, Frame
<1>4. Ids = {}
  BY <1>1 DEF Ids
<1>5. LoadInv
  BY <1>2, <1>4 DEF LoadInv, PathsDistinct, CallsChain, ImportsAttended, ModulesNeeded
<1>6. OrderInv
  BY <1>1 DEF OrderInv, Begun
<1> QED
  BY <1>3, <1>5, <1>6 DEF IInv

(* A call returns when its file was loaded before, or when it has come to  *)
(* the end of its imports (main.watim:829-842).                            *)
LEMMA ReturnKeeps ==
  ASSUME LoadingTypeOK, LoadInv, calls # << >>,
         \/ Call.next = 0 /\ Call.path \in Loaded
         \/ Call.next > Len(Call.imports),
         calls' = Callers, modules' = modules
  PROVE  LoadInv'
<1> DEFINE n == Len(calls)
<1>1. /\ n \in Nat \ {0} /\ Call = calls[n] /\ Call \in Frame
      /\ \A k \in 1 .. n : calls[k] \in Frame
      /\ Len(calls') = n - 1
      /\ \A k \in 1 .. n - 1 : calls'[k] = calls[k]
  BY CallFacts
<1>2. /\ modules' = modules /\ Ids' = Ids /\ Loaded' = Loaded
      /\ \A m : ImportsOf(m)' = ImportsOf(m)
  BY DEF Ids, Loaded, ImportsOf
<1>3. PathsDistinct'
  BY <1>2 DEF LoadInv, PathsDistinct
<1>4. CallsChain'
  <2>1. calls' # << >> => calls'[1].path = Main
    <3> SUFFICES ASSUME calls' # << >> PROVE calls'[1].path = Main
      OBVIOUS
    <3>1. 1 \in 1 .. n - 1
      BY <1>1, CallFacts
    <3> QED
      BY <1>1, <3>1 DEF LoadInv, CallsChain
  <2>2. ASSUME NEW k \in 1 .. n - 1
        PROVE  /\ calls'[k].next # 0
               /\ calls'[k].next > 0 =>
                    \E m \in Ids : /\ modules[m].path = calls'[k].path
                                   /\ modules[m].imports = calls'[k].imports
               /\ k > 1 => /\ calls'[k - 1].next - 1 \in 1 .. Len(calls'[k - 1].imports)
                           /\ calls'[k].path = calls'[k - 1].imports[calls'[k - 1].next - 1]
    <3>1. k \in 1 .. n /\ k # n /\ (k > 1 => k - 1 \in 1 .. n - 1)
      BY <1>1
    <3> QED
      BY <1>1, <3>1 DEF LoadInv, CallsChain
  <2>3. ASSUME NEW k \in 1 .. Len(calls')
        PROVE  /\ calls'[k].next = 0 => k = Len(calls')
               /\ calls'[k].next > 0 =>
                    \E m \in Ids' : /\ modules'[m].path = calls'[k].path
                                    /\ modules'[m].imports = calls'[k].imports
               /\ k > 1 => /\ calls'[k - 1].next - 1 \in 1 .. Len(calls'[k - 1].imports)
                           /\ calls'[k].path = calls'[k - 1].imports[calls'[k - 1].next - 1]
    <3>1. k \in 1 .. n - 1
      BY <1>1
    <3> QED
      BY <1>2, <2>2, <3>1
  <2> QED
    BY <2>1, <2>3 DEF CallsChain
<1>5. ImportsAttended'
  <2> SUFFICES ASSUME NEW m \in Ids, NEW j \in 1 .. Len(modules[m].imports)
               PROVE  \/ modules[m].imports[j] \in Loaded
                      \/ \E k \in 1 .. n - 1 : /\ calls'[k].path = modules[m].path
                                               /\ calls'[k].next \in 1 .. j
    BY <1>1, <1>2 DEF ImportsAttended
  <2> DEFINE f == modules[m].imports[j]
  <2>1. \/ f \in Loaded \/ Pending(f)
        \/ \E k \in 1 .. n : calls[k].path = modules[m].path /\ calls[k].next \in 1 .. j
    BY DEF LoadInv, ImportsAttended
  <2>2. CASE Pending(f)
    <3>1. Call.next = 0 /\ Call.path = f
      BY <2>2 DEF Pending
    <3>2. Len(Call.imports) \in Nat
      BY <1>1 DEF Frame
    <3> QED
      BY <3>1, <3>2
  <2>3. ASSUME NEW k \in 1 .. n, calls[k].path = modules[m].path,
               calls[k].next \in 1 .. j
        PROVE  k # n
    <3> SUFFICES ASSUME k = n PROVE FALSE
      OBVIOUS
    <3>1. Call.next > 0 /\ Call.next > Len(Call.imports)
      BY <1>1, <2>3
    <3>2. PICK l \in Ids : modules[l].path = Call.path /\ modules[l].imports = Call.imports
      BY <1>1, <3>1 DEF LoadInv, CallsChain
    <3>3. l = m
      BY <1>1, <2>3, <3>2 DEF LoadInv, PathsDistinct
    <3>4. Call.next <= j /\ j <= Len(Call.imports) /\ Len(Call.imports) \in Nat
      BY <1>1, <2>3, <3>2, <3>3 DEF Frame
    <3> QED
      BY <1>1, <3>1, <3>4 DEF Frame
  <2>4. \A k \in 1 .. n : k # n => k \in 1 .. n - 1 /\ calls'[k] = calls[k]
    BY <1>1
  <2> QED
    BY <2>1, <2>2, <2>3, <2>4
<1>6. ModulesNeeded'
  <2>1. Main \in Loaded \/ (calls' # << >> /\ calls'[1].next = 0)
    <3>1. CASE Main \in Loaded
      BY <3>1
    <3>2. CASE calls[1].next = 0
      <4>1. 1 = n /\ Call.path = Main
        BY <1>1, <3>2 DEF LoadInv, CallsChain
      <4>2. Len(Call.imports) \in Nat
        BY <1>1 DEF Frame
      <4> QED
        BY <1>1, <3>2, <4>1, <4>2
    <3> QED
      BY <3>1, <3>2 DEF LoadInv, ModulesNeeded
  <2> QED
    BY <1>2, <2>1 DEF LoadInv, ModulesNeeded
<1> QED
  BY <1>3, <1>4, <1>5, <1>6 DEF LoadInv

(* What reading a file changes (main.watim:843-861).                       *)
LEMMA Inserted ==
  ASSUME LoadingTypeOK, NEW found \in ImportLists, Insert(found)
  PROVE  /\ phase = "loading" /\ phase' = phase
         /\ calls # << >> /\ Call.next = 0 /\ Call.path \notin Loaded
         /\ modules' \in Seq(Module) /\ Len(modules') = Len(modules) + 1
         /\ \A m \in Ids : modules'[m] = modules[m]
         /\ modules'[Len(modules) + 1] = [path |-> Call.path, imports |-> found]
         /\ Ids' = 1 .. Len(modules) + 1
         /\ calls' \in Seq(Frame) /\ Len(calls') = Len(calls) /\ calls' # << >>
         /\ \A k \in 1 .. Len(calls) - 1 : calls'[k] = calls[k]
         /\ calls'[Len(calls)] = [path |-> Call.path, imports |-> found, next |-> 1]
<1> DEFINE n == Len(calls)
           L == Len(modules)
           f == Call.path
           new == [path |-> f, imports |-> found]
           read == [path |-> f, imports |-> found, next |-> 1]
<1>1. /\ phase = "loading" /\ calls # << >> /\ Call.next = 0 /\ f \notin Loaded
      /\ modules' = Append(modules, new)
      /\ calls' = [calls EXCEPT ![n].imports = found, ![n].next = 1]
      /\ phase' = phase
  BY DEF Insert, Entering, IsNew
<1>2. /\ n = Len(calls) /\ L = Len(modules)
      /\ n \in Nat \ {0} /\ n \in 1 .. n /\ Call = calls[n] /\ Call \in Frame
      /\ \A k \in 1 .. n : calls[k] \in Frame
  BY <1>1, CallFacts
<1>3. new \in Module /\ read \in Frame /\ f \in Files
  BY <1>2, LoadingAssumption DEF Module, Frame
<1>4. /\ modules' \in Seq(Module) /\ L \in Nat /\ Len(modules') = L + 1
      /\ \A m \in Ids : modules'[m] = modules[m]
      /\ modules'[L + 1] = new
      /\ Ids' = 1 .. L + 1 /\ Ids = 1 .. L
  <2>1. modules \in Seq(Module)
    BY DEF LoadingTypeOK, Module
  <2>2. /\ Append(modules, new) \in Seq(Module) /\ Len(Append(modules, new)) = L + 1
        /\ \A m \in 1 .. L : Append(modules, new)[m] = modules[m]
        /\ Append(modules, new)[L + 1] = new
    BY <1>3, <2>1, AppendProperties
  <2> QED
    BY <1>1, <2>1, <2>2 DEF Ids
<1>5. /\ calls' \in Seq(Frame) /\ Len(calls') = n /\ calls' # << >>
      /\ \A k \in 1 .. n - 1 : calls'[k] = calls[k]
      /\ calls'[n] = read
  <2>1. calls \in Seq(Frame)
    BY DEF LoadingTypeOK, Frame
  <2>0. calls' = [calls EXCEPT ![n].imports = found, ![n].next = 1] /\ calls[n] \in Frame
    BY <1>1, <1>2
  <2>3. DOMAIN calls = 1 .. n /\ DOMAIN calls' = 1 .. n
    BY <1>2, <2>0, <2>1
  <2>4. \A k \in 1 .. n : k # n => calls'[k] = calls[k]
    BY <1>2, <2>0, <2>3
  <2>5. calls'[n] = [[calls[n] EXCEPT !.imports = found] EXCEPT !.next = 1]
    BY <1>2, <2>0, <2>3
  <2>6. calls'[n] = read
    BY <1>2, <2>5 DEF Frame
  <2> HIDE DEF n, read
  <2>2. calls' = [calls EXCEPT ![n] = read]
    <3>1. calls' = [k \in 1 .. n |-> calls'[k]]
      BY <1>1, <2>3
    <3> QED
      BY <1>2, <2>1, <2>3, <2>4, <2>6, <3>1
  <2> QED
    BY <1>2, <1>3, <2>1, <2>2
<1> QED
  BY <1>1, <1>4, <1>5

(* A module that was not in the map is put there, and its call turns to    *)
(* its imports; the map has room for it, so nothing divides by zero        *)
(* (main.watim:843-861).                                                   *)
LEMMA InsertKeeps ==
  ASSUME LoadingTypeOK, LoadInv,
         NEW found \in ImportLists, Insert(found)
  PROVE  /\ LoadInv' /\ phase' = phase
         /\ calls' \in Seq(Frame) /\ modules' \in Seq(Module)
<1> DEFINE n == Len(calls)
           L == Len(modules)
           f == Call.path
           new == [path |-> f, imports |-> found]
           read == [path |-> f, imports |-> found, next |-> 1]
<1>1. /\ calls # << >> /\ Call.next = 0 /\ f \notin Loaded /\ phase' = phase
  BY Inserted
<1>2. /\ n = Len(calls) /\ L = Len(modules)
      /\ n \in Nat \ {0} /\ n \in 1 .. n /\ Call = calls[n] /\ Call \in Frame
      /\ \A k \in 1 .. n : calls[k] \in Frame
  BY <1>1, CallFacts
<1>3. new \in Module /\ read \in Frame /\ f \in Files
  BY <1>2, LoadingAssumption DEF Module, Frame
<1>4. /\ modules' \in Seq(Module) /\ L \in Nat /\ Len(modules') = L + 1
      /\ \A m \in Ids : modules'[m] = modules[m]
      /\ modules'[L + 1] = new
      /\ Ids' = 1 .. L + 1 /\ Ids = 1 .. L
  BY Inserted, Typed
<1>5. /\ calls' \in Seq(Frame) /\ Len(calls') = n /\ calls' # << >>
      /\ \A k \in 1 .. n - 1 : calls'[k] = calls[k]
      /\ calls'[n] = read
  BY Inserted
<1>0. /\ new.path = f /\ new.imports = found
      /\ read.path = f /\ read.imports = found /\ read.next = 1
  OBVIOUS
<1> HIDE DEF n, L, f, new, read
<1>6. Loaded' = Loaded \cup {f}
  BY <1>0, <1>4 DEF Loaded, Ids
<1>7. /\ \A m \in Ids : m \in Ids'
      /\ \A m \in Ids' : m \in Ids \/ m = L + 1
      /\ L + 1 \in Ids'
  BY <1>4
<1>8. PathsDistinct'
  <2>1. \A m \in Ids : modules'[m].path # f
    BY <1>1, <1>4 DEF Loaded, Ids
  <2>2. modules'[L + 1].path = f
    BY <1>0, <1>4
  <2> QED
    BY <1>4, <1>7, <2>1, <2>2 DEF LoadInv, PathsDistinct
<1>9. CallsChain'
  <2>1. calls' # << >> /\ calls'[1].path = Main
    <3>1. calls[1].path = Main
      BY <1>1 DEF LoadInv, CallsChain
    <3>2. CASE n = 1
      BY <1>0, <1>2, <1>5, <3>1, <3>2 DEF f
    <3>3. CASE n # 1
      BY <1>0, <1>2, <1>5, <3>1, <3>3
    <3> QED
      BY <3>2, <3>3
  <2> SUFFICES ASSUME NEW k \in 1 .. n
               PROVE  /\ calls'[k].next = 0 => k = n
                      /\ calls'[k].next > 0 =>
                           \E m \in Ids' : /\ modules'[m].path = calls'[k].path
                                           /\ modules'[m].imports = calls'[k].imports
                      /\ k > 1 => /\ calls'[k - 1].next - 1 \in 1 .. Len(calls'[k - 1].imports)
                                  /\ calls'[k].path = calls'[k - 1].imports[calls'[k - 1].next - 1]
    BY <1>5, <2>1 DEF CallsChain
  <2>2. k > 1 => k - 1 \in 1 .. n - 1 /\ calls'[k - 1] = calls[k - 1]
    BY <1>2, <1>5
  <2>3. k = n \/ (k \in 1 .. n - 1 /\ calls'[k] = calls[k])
    BY <1>2, <1>5
  <2>6. calls'[k].path = calls[k].path
    BY <1>0, <1>2, <1>5, <2>3 DEF f
  <2>4. CASE k = n
    <3>1. calls'[k].next = 1 /\ calls'[k].imports = found /\ calls'[k].path = f
      BY <1>0, <1>5, <2>4
    <3>2. /\ modules'[L + 1].path = calls'[k].path
          /\ modules'[L + 1].imports = calls'[k].imports
      BY <1>0, <1>4, <3>1
    <3>3. k > 1 => /\ calls'[k - 1].next - 1 \in 1 .. Len(calls'[k - 1].imports)
                   /\ calls'[k].path = calls'[k - 1].imports[calls'[k - 1].next - 1]
      BY <1>2, <2>2, <2>6 DEF LoadInv, CallsChain
    <3> QED
      BY <1>7, <2>4, <3>1, <3>2, <3>3
  <2>5. CASE k # n
    <3>1. k \in 1 .. n - 1 /\ calls'[k] = calls[k]
      BY <2>3, <2>5
    <3>2. /\ calls[k].next = 0 => k = n
          /\ calls[k].next > 0 =>
               \E m \in Ids : /\ modules[m].path = calls[k].path
                              /\ modules[m].imports = calls[k].imports
          /\ k > 1 => /\ calls[k - 1].next - 1 \in 1 .. Len(calls[k - 1].imports)
                      /\ calls[k].path = calls[k - 1].imports[calls[k - 1].next - 1]
      BY <1>2 DEF LoadInv, CallsChain
    <3>3. calls'[k].next > 0 =>
            \E m \in Ids' : /\ modules'[m].path = calls'[k].path
                            /\ modules'[m].imports = calls'[k].imports
      BY <1>4, <1>7, <3>1, <3>2
    <3> QED
      BY <2>2, <3>1, <3>2, <3>3
  <2> QED
    BY <2>4, <2>5
<1>10. ImportsAttended'
  <2> SUFFICES ASSUME NEW m \in Ids', NEW j \in 1 .. Len(modules'[m].imports)
               PROVE  \/ modules'[m].imports[j] \in Loaded'
                      \/ \E k \in 1 .. n : /\ calls'[k].path = modules'[m].path
                                            /\ calls'[k].next \in 1 .. j
    BY <1>5 DEF ImportsAttended
  <2>1. CASE m = L + 1
    <3>1. calls'[n].path = modules'[m].path /\ calls'[n].next = 1
      BY <1>0, <1>4, <1>5, <2>1
    <3>2. 1 \in 1 .. j
      BY <1>3, <1>4, <2>1 DEF Module
    <3> QED
      BY <1>2, <3>1, <3>2
  <2>2. CASE m \in Ids
    <3>1. modules'[m] = modules[m]
      BY <1>4, <2>2
    <3>2. CASE modules[m].imports[j] \in Loaded \/ Pending(modules[m].imports[j])
      BY <1>6, <3>1, <3>2 DEF Pending, f
    <3>3. ASSUME NEW k \in 1 .. n, calls[k].path = modules[m].path,
                 calls[k].next \in 1 .. j
          PROVE  calls'[k] = calls[k]
      <4>1. k # n
        BY <1>1, <1>2, <3>3
      <4> QED
        BY <1>2, <1>5, <4>1
    <3> QED
      BY <1>2, <2>2, <3>1, <3>2, <3>3 DEF LoadInv, ImportsAttended
  <2> QED
    BY <1>7, <2>1, <2>2
<1>11. ModulesNeeded'
  <2>1. Main \in Loaded'
    BY <1>1, <1>2, <1>6 DEF LoadInv, ModulesNeeded, CallsChain, f
  <2>2. ASSUME NEW m \in Ids'
        PROVE  modules'[m].path = Main \/ \E l \in Ids' : modules'[m].path \in ImportsOf(l)'
    <3>1. \A l \in Ids : ImportsOf(l)' = ImportsOf(l)
      BY <1>4 DEF ImportsOf
    <3>2. CASE m \in Ids
      BY <1>4, <1>7, <3>1, <3>2 DEF LoadInv, ModulesNeeded
    <3>3. CASE m = L + 1 /\ n = 1
      BY <1>0, <1>1, <1>2, <1>4, <3>3 DEF LoadInv, CallsChain, f
    <3>4. CASE m = L + 1 /\ n # 1
      <4>1. n - 1 \in 1 .. n /\ n > 1 /\ n - 1 # n
        BY <1>2, <3>4
      <4>2. /\ calls[n - 1].next - 1 \in 1 .. Len(calls[n - 1].imports)
            /\ f = calls[n - 1].imports[calls[n - 1].next - 1]
            /\ calls[n - 1].next # 0 /\ calls[n - 1].next \in Nat
        BY <1>2, <4>1 DEF LoadInv, CallsChain, Frame, f
      <4>3. PICK l \in Ids : modules[l].imports = calls[n - 1].imports
        <5>1. CallsChain /\ n - 1 \in 1 .. Len(calls) /\ calls[n - 1].next > 0
          BY <1>2, <4>1, <4>2 DEF LoadInv
        <5> QED
          BY ONLY <5>1, CallRead
      <4>4. f \in ImportsOf(l)
        BY <4>2, <4>3 DEF ImportsOf
      <4> QED
        BY <1>0, <1>4, <1>7, <3>1, <3>4, <4>4
    <3> QED
      BY <1>7, <3>2, <3>3, <3>4
  <2> QED
    BY <2>1, <2>2 DEF ModulesNeeded
<1> QED
  BY <1>1, <1>4, <1>5, <1>8, <1>9, <1>10, <1>11 DEF LoadInv

(* What calling for an import changes.                                     *)
LEMMA ImportCalled ==
  ASSUME LoadingTypeOK, LoadImport
  PROVE  /\ calls # << >> /\ Call.next > 0 /\ Call.next <= Len(Call.imports)
         /\ modules' = modules /\ phase' = phase
         /\ calls' \in Seq(Frame) /\ Len(calls') = Len(calls) + 1 /\ calls' # << >>
         /\ \A k \in 1 .. Len(calls) - 1 : calls'[k] = calls[k]
         /\ calls'[Len(calls)] = [Call EXCEPT !.next = Call.next + 1]
         /\ calls'[Len(calls) + 1] =
              [path |-> Call.imports[Call.next], imports |-> << >>, next |-> 0]
<1> DEFINE n == Len(calls)
           f == Call.imports[Call.next]
           passed == [Call EXCEPT !.next = Call.next + 1]
           entered == [path |-> f, imports |-> << >>, next |-> 0]
<1>1. /\ calls # << >> /\ Call.next > 0 /\ Call.next <= Len(Call.imports)
      /\ calls' = Append([calls EXCEPT ![n].next = Call.next + 1], entered)
      /\ modules' = modules /\ phase' = phase
  BY DEF LoadImport, Importing, Call
<1>2. /\ n = Len(calls) /\ n \in Nat \ {0} /\ n \in 1 .. n /\ Call = calls[n] /\ Call \in Frame
      /\ \A k \in 1 .. n : calls[k] \in Frame
  BY <1>1, CallFacts
<1>3. passed \in Frame /\ entered \in Frame
  BY <1>1, <1>2 DEF Frame
<1>4. /\ calls' \in Seq(Frame) /\ Len(calls') = n + 1 /\ calls' # << >>
      /\ \A k \in 1 .. n - 1 : calls'[k] = calls[k]
      /\ calls'[n] = passed /\ calls'[n + 1] = entered
  <2>1. calls \in Seq(Frame)
    BY DEF LoadingTypeOK, Frame
  <2>2. [calls EXCEPT ![n].next = Call.next + 1] = [calls EXCEPT ![n] = passed]
    BY <1>2, <2>1
  <2>3. calls' = Append([calls EXCEPT ![n] = passed], entered)
    BY <1>1, <2>2
  <2> QED
    BY <1>2, <1>3, <2>1, <2>3
<1> QED
  BY <1>1, <1>4

(* The call passes one import and calls itself for it (main.watim:862-).   *)
LEMMA LoadImportKeeps ==
  ASSUME LoadingTypeOK, LoadInv, LoadImport
  PROVE  LoadInv' /\ calls' \in Seq(Frame)
<1> DEFINE n == Len(calls)
           f == Call.imports[Call.next]
           passed == [Call EXCEPT !.next = Call.next + 1]
           entered == [path |-> f, imports |-> << >>, next |-> 0]
<1>1. /\ calls # << >> /\ Call.next > 0 /\ Call.next <= Len(Call.imports)
      /\ modules' = modules
  BY ImportCalled
<1>2. /\ n = Len(calls) /\ n \in Nat \ {0} /\ n \in 1 .. n /\ Call = calls[n] /\ Call \in Frame
      /\ \A k \in 1 .. n : calls[k] \in Frame
  BY <1>1, CallFacts
<1>4. /\ calls' \in Seq(Frame) /\ Len(calls') = n + 1 /\ calls' # << >>
      /\ \A k \in 1 .. n - 1 : calls'[k] = calls[k]
      /\ calls'[n] = passed /\ calls'[n + 1] = entered
  BY ImportCalled
<1>5. /\ Ids' = Ids /\ Loaded' = Loaded
      /\ \A m : ImportsOf(m)' = ImportsOf(m)
  BY <1>1 DEF Ids, Loaded, ImportsOf
<1>6. /\ passed.path = Call.path /\ passed.imports = Call.imports
      /\ passed.next = Call.next + 1 /\ Call.next \in Nat
      /\ passed.next - 1 \in 1 .. Len(passed.imports)
      /\ f = passed.imports[passed.next - 1]
  BY <1>1, <1>2 DEF Frame
<1>0. entered.path = f /\ entered.next = 0
  OBVIOUS
<1> HIDE DEF n, f, passed, entered
<1>7. PathsDistinct'
  BY <1>1, <1>5 DEF LoadInv, PathsDistinct
<1>8. CallsChain'
  <2>1. calls' # << >> /\ calls'[1].path = Main
    <3>1. calls[1].path = Main
      BY <1>1 DEF LoadInv, CallsChain
    <3>2. CASE n = 1
      BY <1>2, <1>4, <1>6, <3>1, <3>2
    <3>3. CASE n # 1
      BY <1>2, <1>4, <3>1, <3>3
    <3> QED
      BY <3>2, <3>3
  <2> SUFFICES ASSUME NEW k \in 1 .. n + 1
               PROVE  /\ calls'[k].next = 0 => k = n + 1
                      /\ calls'[k].next > 0 =>
                           \E m \in Ids : /\ modules[m].path = calls'[k].path
                                          /\ modules[m].imports = calls'[k].imports
                      /\ k > 1 => /\ calls'[k - 1].next - 1 \in 1 .. Len(calls'[k - 1].imports)
                                  /\ calls'[k].path = calls'[k - 1].imports[calls'[k - 1].next - 1]
    BY <1>1, <1>4, <1>5, <2>1 DEF CallsChain
  <2>2. CASE k = n + 1
    <3>1. k - 1 = n
      BY <1>2, <2>2
    <3>2. calls'[k] = entered /\ calls'[k - 1] = passed
      BY <1>4, <2>2, <3>1
    <3>3. ~ (calls'[k].next > 0)
      BY <1>0, <3>2
    <3>4. /\ calls'[k - 1].next - 1 \in 1 .. Len(calls'[k - 1].imports)
          /\ calls'[k].path = calls'[k - 1].imports[calls'[k - 1].next - 1]
      BY <1>0, <1>6, <3>2
    <3> QED
      BY <2>2, <3>3, <3>4, Zenon
  <2>3. CASE k # n + 1
    <3>1. k \in 1 .. n /\ (k > 1 => k - 1 \in 1 .. n - 1 /\ calls'[k - 1] = calls[k - 1])
      BY <1>2, <1>4, <2>3
    <3>2. calls'[k].path = calls[k].path /\ calls'[k].imports = calls[k].imports
      BY <1>2, <1>4, <1>6, <3>1
    <3>0. calls[k].next \in Nat /\ (calls[k].next = 0 => k = n)
      BY <1>2, <3>1 DEF LoadInv, CallsChain, Frame
    <3>3. calls[k].next # 0 /\ calls[k].next \in Nat /\ calls'[k].next # 0
      <4>1. CASE k = n
        BY <1>1, <1>2, <1>4, <1>6, <3>0, <4>1
      <4>2. CASE k # n
        <5>1. k \in 1 .. n - 1 /\ calls'[k] = calls[k]
          BY <1>2, <1>4, <3>1, <4>2
        <5> QED
          BY <3>0, <4>2, <5>1
      <4> QED
        BY <4>1, <4>2
    <3>4. \E m \in Ids : /\ modules[m].path = calls[k].path
                          /\ modules[m].imports = calls[k].imports
      <4>1. CallsChain /\ k \in 1 .. Len(calls) /\ calls[k].next > 0
        BY <1>2, <3>1, <3>3 DEF LoadInv
      <4> QED
        BY ONLY <4>1, CallRead
    <3>5. k > 1 => /\ calls[k - 1].next - 1 \in 1 .. Len(calls[k - 1].imports)
                   /\ calls[k].path = calls[k - 1].imports[calls[k - 1].next - 1]
      BY <1>2, <3>1 DEF LoadInv, CallsChain
    <3> QED
      BY <3>1, <3>2, <3>3, <3>4, <3>5
  <2> QED
    BY <2>2, <2>3
<1>9. ImportsAttended'
  <2> SUFFICES ASSUME NEW m \in Ids, NEW j \in 1 .. Len(modules[m].imports)
               PROVE  \/ modules[m].imports[j] \in Loaded
                      \/ Pending(modules[m].imports[j])'
                      \/ \E k \in 1 .. n + 1 : /\ calls'[k].path = modules[m].path
                                                /\ calls'[k].next \in 1 .. j
    BY <1>1, <1>4, <1>5 DEF ImportsAttended, Pending, Call
  <2>1. ~ Pending(modules[m].imports[j])
    BY <1>1 DEF Pending
  <2>2. ASSUME modules[m].imports[j] = f
        PROVE  Pending(modules[m].imports[j])'
    <3>1. calls' # << >> /\ calls'[Len(calls')] = entered
      BY <1>2, <1>4
    <3>2. Call' = entered
      BY <3>1 DEF Call
    <3>3. modules'[m].imports[j] = f
      BY <1>1, <2>2
    <3> QED
      BY <1>0, <3>1, <3>2, <3>3 DEF Pending
  <2>3. ASSUME NEW k \in 1 .. n, calls[k].path = modules[m].path,
               calls[k].next \in 1 .. j, k = n
        PROVE  modules[m].imports[j] = f \/ calls'[k].next \in 1 .. j
    <3>1. PICK l \in Ids : modules[l].path = Call.path /\ modules[l].imports = Call.imports
      BY <1>1, <1>2 DEF LoadInv, CallsChain
    <3>2. l = m
      BY <1>2, <2>3, <3>1 DEF LoadInv, PathsDistinct
    <3>3. j = Call.next \/ Call.next + 1 \in 1 .. j
      <4>0. modules \in Seq(Module)
        BY DEF LoadingTypeOK, Module
      <4>1. modules[m] \in Module
        BY <4>0 DEF Ids
      <4>2. j \in Nat /\ Call.next \in 1 .. j
        BY <1>2, <2>3, <4>1 DEF Module
      <4> QED
        BY <1>6, <4>2
    <3> QED
      BY <1>4, <1>6, <2>3, <3>1, <3>2, <3>3 DEF f
  <2>4. ASSUME NEW k \in 1 .. n, k # n
        PROVE  calls'[k] = calls[k] /\ k \in 1 .. n + 1
    BY <1>2, <1>4, <2>4
  <2>5. n \in 1 .. n + 1 /\ calls'[n].path = calls[n].path
    BY <1>2, <1>4, <1>6
  <2> QED
    BY <1>2, <2>1, <2>2, <2>3, <2>4, <2>5 DEF LoadInv, ImportsAttended
<1>10. ModulesNeeded'
  <2>1. Main \in Loaded
    BY <1>1, <1>2 DEF LoadInv, ModulesNeeded, CallsChain
  <2> QED
    BY <1>1, <1>5, <2>1 DEF LoadInv, ModulesNeeded
<1> QED
  BY <1>4, <1>7, <1>8, <1>9, <1>10 DEF LoadInv

(* Nothing is listed while modules are loaded.                             *)
LEMMA WhileLoading ==
  ASSUME LoadingTypeOK, OrderInv, phase = "loading",
         phase' \in {"loading", "exit 1", "exit 2"}, UNCHANGED orderVars,
         calls' \in Seq(Frame), modules' \in Seq(Module)
  PROVE  LoadingTypeOK' /\ OrderInv'
<1>1. /\ unprocessed = << >> /\ ordered = << >> /\ i' = i /\ stuck' = stuck
      /\ unprocessed' = << >> /\ ordered' = << >>
  BY DEF OrderInv, Begun, orderVars
<1>2. LoadingTypeOK'
  <2>1. unprocessed' \in Seq(Ids') /\ ordered' \in Seq(Ids')
    BY <1>1, EmptySeq
  <2>2. i' \in 1 .. Len(unprocessed') + 1 /\ stuck' \in BOOLEAN
    BY <1>1 DEF LoadingTypeOK
  <2>3. phase' \in {"loading", "ordering", "done", "trap", "exit 1", "exit 2"}
    OBVIOUS
  <2> QED
    BY <2>1, <2>2, <2>3 DEF LoadingTypeOK, Frame, Module
<1>3. OrderInv'
  BY <1>1 DEF OrderInv, Begun
<1> QED
  BY <1>2, <1>3

-----------------------------------------------------------------------------
(* Ordering.                                                               *)

(* What is known of the loaded modules stays known while they are ordered. *)
LEMMA LoadedStays ==
  ASSUME LoadInv, UNCHANGED loadVars
  PROVE  /\ LoadInv' /\ calls' = calls /\ modules' = modules /\ Ids' = Ids
         /\ \A m : ImportsOf(m)' = ImportsOf(m)
<1>1. calls' = calls /\ modules' = modules
  BY DEF loadVars
<1>2. Ids' = Ids /\ Loaded' = Loaded /\ \A m : ImportsOf(m)' = ImportsOf(m)
  BY <1>1 DEF Ids, Loaded, ImportsOf
<1>3. \A f : Pending(f)' <=> Pending(f)
  BY <1>1 DEF Pending, Call
<1>4. PathsDistinct'
  BY <1>1, <1>2 DEF LoadInv, PathsDistinct
<1>5. CallsChain'
  BY <1>1, <1>2 DEF LoadInv, CallsChain
<1>6. ImportsAttended'
  BY <1>1, <1>2, <1>3 DEF LoadInv, ImportsAttended
<1>7. ModulesNeeded'
  BY <1>1, <1>2 DEF LoadInv, ModulesNeeded
<1> QED
  BY <1>1, <1>2, <1>4, <1>5, <1>6, <1>7 DEF LoadInv

(* All modules are unprocessed at first, the main one among them           *)
(* (main.watim:893-908).                                                   *)
LEMMA StartKeeps ==
  ASSUME IInv, StartOrdering
  PROVE  IInv'
<1>1. /\ calls = << >> /\ phase' = "ordering"
      /\ unprocessed' = [k \in Ids |-> k]
      /\ ordered' = << >> /\ i' = 1 /\ stuck' = TRUE
  BY DEF StartOrdering
<1>2. LoadInv' /\ calls' = calls /\ modules' = modules /\ Ids' = Ids
  BY LoadedStays DEF IInv, StartOrdering
<1>3. Len(modules) \in Nat /\ Ids = 1 .. Len(modules)
  BY Typed DEF IInv
<1>4. /\ unprocessed' \in Seq(Ids) /\ Len(unprocessed') = Len(modules)
      /\ \A k \in Ids : unprocessed'[k] = k
  BY <1>1, <1>3
<1>5. unprocessed' # << >>
  <2>1. Main \in Loaded
    BY <1>1 DEF IInv, LoadInv, ModulesNeeded
  <2>2. Len(modules) # 0
    BY <1>3, <2>1 DEF Loaded
  <2> QED
    BY <1>4, <2>2
<1>6. LoadingTypeOK'
  <2>1. ordered' \in Seq(Ids') /\ i' \in 1 .. Len(unprocessed') + 1 /\ stuck' \in BOOLEAN
    BY <1>1, <1>3, <1>4
  <2> QED
    BY <1>1, <1>2, <1>4, <2>1 DEF IInv, LoadingTypeOK
<1>7. Partition' /\ ImportsFirst'
  BY <1>1, <1>2, <1>3, <1>4 DEF Partition, ImportsFirst
<1>8. OrderInv'
  BY <1>1, <1>2, <1>5, <1>7 DEF OrderInv, Begun
<1> QED
  BY <1>2, <1>6, <1>8 DEF IInv

(* A module all of whose imports are ordered moves from the one list to    *)
(* the end of the other (main.watim:947-951).                              *)
LEMMA OrderKeeps ==
  ASSUME IInv, Order
  PROVE  IInv'
<1> DEFINE U == Len(unprocessed)
           R == Len(ordered)
           m0 == unprocessed[i]
<1>1. /\ phase = "ordering" /\ phase' = "ordering" /\ i <= U /\ Ready(m0)
      /\ ordered' = Append(ordered, m0)
      /\ unprocessed' = RemoveAt(unprocessed, i)
      /\ stuck' = FALSE /\ i' = i
  BY DEF Order, Visiting
<1>2. LoadInv' /\ calls' = calls /\ modules' = modules /\ Ids' = Ids
      /\ \A m : ImportsOf(m)' = ImportsOf(m)
  BY LoadedStays DEF IInv, Order
<1>3. /\ unprocessed \in Seq(Ids) /\ ordered \in Seq(Ids)
      /\ U \in Nat /\ R \in Nat /\ i \in 1 .. U /\ m0 \in Ids
  <2>1. /\ unprocessed \in Seq(Ids) /\ ordered \in Seq(Ids) /\ i \in 1 .. U + 1
    BY DEF IInv, LoadingTypeOK
  <2>2. U \in Nat /\ R \in Nat /\ i \in 1 .. U
    BY <1>1, <2>1
  <2> QED
    BY <2>1, <2>2
<1>4. calls = << >> /\ Partition /\ ImportsFirst
  BY <1>1 DEF IInv, OrderInv, Begun
<1>5. /\ unprocessed' \in Seq(Ids) /\ Len(unprocessed') = U - 1
      /\ \A k \in 1 .. U - 1 :
           unprocessed'[k] = IF k < i THEN unprocessed[k] ELSE unprocessed[k + 1]
  BY <1>1, <1>3, ElementRemoved DEF RemoveAt
<1>6. /\ ordered' \in Seq(Ids) /\ Len(ordered') = R + 1
      /\ \A k \in 1 .. R : ordered'[k] = ordered[k]
      /\ ordered'[R + 1] = m0
  BY <1>1, <1>3, AppendProperties
<1>7. LoadingTypeOK'
  <2>1. i' \in 1 .. Len(unprocessed') + 1
    BY <1>1, <1>3, <1>5
  <2> QED
    BY <1>1, <1>2, <1>5, <1>6, <2>1 DEF IInv, LoadingTypeOK
<1>0. U = Len(unprocessed) /\ R = Len(ordered) /\ m0 = unprocessed[i]
  OBVIOUS
<1> HIDE DEF U, R, m0
<1>8. ASSUME NEW k \in 1 .. U - 1
      PROVE  \E l \in 1 .. U : /\ unprocessed'[k] = unprocessed[l] /\ l # i
                               /\ l = IF k < i THEN k ELSE k + 1
  BY <1>3, <1>5
<1>9. \A k \in 1 .. R + 1 : k \in 1 .. R \/ k = R + 1
  BY <1>3
<1>10. Partition'
  <2>1. ASSUME NEW k \in 1 .. U - 1, NEW l \in 1 .. U - 1,
               unprocessed'[k] = unprocessed'[l]
        PROVE  k = l
    <3>1. PICK x \in 1 .. U : /\ unprocessed'[k] = unprocessed[x]
                              /\ x = IF k < i THEN k ELSE k + 1
      BY <1>8
    <3>2. PICK y \in 1 .. U : /\ unprocessed'[l] = unprocessed[y]
                              /\ y = IF l < i THEN l ELSE l + 1
      BY <1>8
    <3>3. x = y
      BY <1>0, <1>4, <2>1, <3>1, <3>2 DEF Partition
    <3> QED
      BY <1>3, <3>1, <3>2, <3>3
  <2>2. ASSUME NEW k \in 1 .. R + 1, NEW l \in 1 .. R + 1,
               ordered'[k] = ordered'[l]
        PROVE  k = l
    <3>1. \A x \in 1 .. R : ordered[x] # m0
      BY <1>0, <1>3, <1>4 DEF Partition
    <3> QED
      BY <1>0, <1>4, <1>6, <1>9, <2>2, <3>1 DEF Partition
  <2>3. ASSUME NEW k \in 1 .. U - 1, NEW l \in 1 .. R + 1
        PROVE  unprocessed'[k] # ordered'[l]
    <3>1. PICK x \in 1 .. U : unprocessed'[k] = unprocessed[x] /\ x # i
      BY <1>8
    <3>2. unprocessed[x] # m0
      BY <1>0, <1>3, <1>4, <3>1 DEF Partition
    <3> QED
      BY <1>0, <1>4, <1>6, <1>9, <3>1, <3>2 DEF Partition
  <2>4. ASSUME NEW m \in Ids
        PROVE  \/ \E k \in 1 .. U - 1 : unprocessed'[k] = m
               \/ \E k \in 1 .. R + 1 : ordered'[k] = m
    <3>1. CASE m = m0
      <4>1. R + 1 \in 1 .. R + 1
        BY <1>3
      <4> QED
        BY <1>6, <3>1, <4>1
    <3>2. ASSUME NEW k \in 1 .. R, ordered[k] = m
          PROVE  \E l \in 1 .. R + 1 : ordered'[l] = m
      <4>1. k \in 1 .. R + 1
        BY <1>3
      <4> QED
        BY <1>6, <3>2, <4>1
    <3>3. ASSUME NEW k \in 1 .. U, unprocessed[k] = m, m # m0
          PROVE  \E l \in 1 .. U - 1 : unprocessed'[l] = m
      <4>1. k # i
        BY <1>0, <3>3
      <4>2. CASE k < i
        <5>1. k \in 1 .. U - 1
          BY <1>3, <4>2
        <5> QED
          BY <1>5, <3>3, <4>2, <5>1
      <4>3. CASE ~ (k < i)
        <5>1. k - 1 \in 1 .. U - 1 /\ ~ (k - 1 < i) /\ k - 1 + 1 = k
          BY <1>3, <4>1, <4>3
        <5> QED
          BY <1>5, <3>3, <5>1
      <4> QED
        BY <4>2, <4>3
    <3> QED
      BY <1>0, <1>4, <3>1, <3>2, <3>3 DEF Partition
  <2> QED
    BY <1>2, <1>5, <1>6, <2>1, <2>2, <2>3, <2>4 DEF Partition
<1>11. ImportsFirst'
  <2> SUFFICES ASSUME NEW k \in 1 .. R + 1,
                      NEW j \in 1 .. Len(modules[ordered'[k]].imports)
               PROVE  \E l \in 1 .. k - 1 :
                        modules[ordered'[l]].path = modules[ordered'[k]].imports[j]
    BY <1>2, <1>6 DEF ImportsFirst
  <2> DEFINE f == modules[ordered'[k]].imports[j]
  <2>1. CASE k \in 1 .. R
    <3>0. PICK o : o = ordered[k]
      OBVIOUS
    <3>4. ordered'[k] = o
      BY <1>6, <2>1, <3>0
    <3>5. k \in 1 .. Len(ordered) /\ j \in 1 .. Len(modules[ordered[k]].imports)
      BY <1>0, <2>1, <3>0, <3>4
    <3>6. \E l \in 1 .. k - 1 : modules[ordered[l]].path = modules[ordered[k]].imports[j]
      BY ONLY <1>4, <3>5 DEF ImportsFirst
    <3>1. PICK l \in 1 .. k - 1 : modules[ordered[l]].path = f
      BY <3>0, <3>4, <3>6
    <3>2. l \in 1 .. R
      BY <1>3, <2>1
    <3> QED
      BY <1>6, <3>1, <3>2
  <2>2. CASE k = R + 1
    <3>1. j \in 1 .. Len(modules[m0].imports) /\ f = modules[m0].imports[j]
      BY <1>6, <2>2
    <3>2. PICK l \in 1 .. R : modules[ordered[l]].path = f
      BY <1>0, <1>1, <3>1 DEF Ready, Importable
    <3>3. l \in 1 .. k - 1
      BY <1>3, <2>2
    <3> QED
      BY <1>6, <3>2, <3>3
  <2> QED
    BY <1>9, <2>1, <2>2
<1>12. OrderInv'
  BY <1>1, <1>2, <1>4, <1>10, <1>11 DEF OrderInv, Begun
<1> QED
  BY <1>2, <1>7, <1>12 DEF IInv

(* A module that needs one not ordered yet is passed over                  *)
(* (main.watim:952).                                                       *)
LEMMA PostponeKeeps ==
  ASSUME IInv, Postpone
  PROVE  IInv'
<1>1. /\ phase = "ordering" /\ phase' = "ordering" /\ i <= Len(unprocessed)
      /\ ~ Ready(unprocessed[i])
      /\ i' = i + 1
      /\ unprocessed' = unprocessed /\ ordered' = ordered /\ stuck' = stuck
  BY DEF Postpone, Visiting
<1>2. LoadInv' /\ calls' = calls /\ modules' = modules /\ Ids' = Ids
  BY LoadedStays DEF IInv, Postpone
<1>3. Len(unprocessed) \in Nat /\ i \in 1 .. Len(unprocessed) + 1 /\ i \in Nat
  BY Typed DEF IInv
<1>4. LoadingTypeOK'
  <2>1. i' \in 1 .. Len(unprocessed') + 1
    BY <1>1, <1>3
  <2> QED
    BY <1>1, <1>2, <2>1 DEF IInv, LoadingTypeOK
<1>5. Partition' /\ ImportsFirst'
  BY <1>1, <1>2 DEF IInv, OrderInv, Begun, Partition, ImportsFirst
<1>6. \A m : Ready(m)' <=> Ready(m)
  BY <1>1, <1>2 DEF Ready, Importable
<1>7. ASSUME stuck, NEW k \in 1 .. i' - 1
      PROVE  ~ Ready(unprocessed[k])
  <2>1. k \in 1 .. i - 1 \/ k = i
    BY <1>1, <1>3
  <2> QED
    BY <1>1, <1>7, <2>1 DEF IInv, OrderInv
<1>8. OrderInv'
  BY <1>1, <1>2, <1>5, <1>6, <1>7 DEF IInv, OrderInv, Begun
<1> QED
  BY <1>2, <1>4, <1>8 DEF IInv

(* After a round in which none was ordered, none can be; otherwise either  *)
(* all are or another round begins (main.watim:910-912, 954).              *)
LEMMA RoundEndsKeeps ==
  ASSUME IInv, RoundEnds
  PROVE  IInv'
<1>1. /\ phase = "ordering" /\ i > Len(unprocessed)
      /\ phase' = IF stuck THEN "trap"
                  ELSE IF unprocessed = << >> THEN "done" ELSE "ordering"
      /\ i' = 1 /\ stuck' = TRUE
      /\ unprocessed' = unprocessed /\ ordered' = ordered
  BY DEF RoundEnds
<1>2. LoadInv' /\ calls' = calls /\ modules' = modules /\ Ids' = Ids
  BY LoadedStays DEF IInv, RoundEnds
<1>3. Len(unprocessed) \in Nat /\ i \in 1 .. Len(unprocessed) + 1 /\ i \in Nat
  BY Typed DEF IInv
<1>4. LoadingTypeOK'
  <2>1. i' \in 1 .. Len(unprocessed') + 1
    BY <1>1, <1>3
  <2> QED
    BY <1>1, <1>2, <2>1 DEF IInv, LoadingTypeOK
<1>5. Partition' /\ ImportsFirst'
  BY <1>1, <1>2 DEF IInv, OrderInv, Begun, Partition, ImportsFirst
<1>6. \A m : Ready(m)' <=> Ready(m)
  BY <1>1, <1>2 DEF Ready, Importable
<1>7. ASSUME stuck
      PROVE  unprocessed # << >> /\ \A k \in 1 .. Len(unprocessed) : ~ Ready(unprocessed[k])
  <2>1. i - 1 = Len(unprocessed)
    BY <1>1, <1>3
  <2> QED
    BY <1>1, <1>7, <2>1 DEF IInv, OrderInv
<1>8. \A k \in 1 .. i' - 1 : FALSE
  BY <1>1
<1>9. OrderInv'
  BY <1>1, <1>2, <1>5, <1>6, <1>7, <1>8 DEF IInv, OrderInv, Begun
<1> QED
  BY <1>2, <1>4, <1>9 DEF IInv

-----------------------------------------------------------------------------
(* No step of the two functions breaks the invariant.                      *)
LEMMA NextInv == IInv /\ [LoadingNext]_loadingVars => IInv'
<1> SUFFICES ASSUME IInv, [LoadingNext]_loadingVars PROVE IInv'
  OBVIOUS
<1>0. /\ LoadingTypeOK /\ LoadInv /\ OrderInv
      /\ modules \in Seq(Module) /\ calls \in Seq(Frame)
  BY Typed DEF IInv, LoadingTypeOK, Frame
<1>1. CASE AlreadyLoaded
  <2>1. /\ phase = "loading" /\ calls # << >> /\ Call.next = 0 /\ Call.path \in Loaded
        /\ calls' = Callers /\ modules' = modules /\ UNCHANGED orderVars /\ phase' = phase
    BY <1>1 DEF AlreadyLoaded, Entering, IsNew
  <2> QED
    BY <1>0, <2>1, CallFacts, ReturnKeeps, WhileLoading DEF IInv
<1>2. CASE ReadFails
  <2>1. /\ phase = "loading" /\ phase' = "exit 1"
        /\ UNCHANGED loadVars /\ UNCHANGED orderVars
    BY <1>2 DEF ReadFails, Entering
  <2> QED
    BY <1>0, <2>1, LoadedStays, WhileLoading DEF IInv
<1>3. CASE ParseFails
  <2>1. /\ phase = "loading" /\ phase' = "exit 2"
        /\ UNCHANGED loadVars /\ UNCHANGED orderVars
    BY <1>3 DEF ParseFails, Entering
  <2> QED
    BY <1>0, <2>1, LoadedStays, WhileLoading DEF IInv
<1>4. ASSUME NEW found \in ImportLists, Insert(found)
      PROVE  IInv'
  <2>1. phase = "loading" /\ UNCHANGED orderVars
    BY <1>4 DEF Insert, Entering
  <2> QED
    BY <1>0, <1>4, <2>1, InsertKeeps, WhileLoading DEF IInv
<1>5. CASE LoadImport
  <2>1. phase = "loading" /\ modules' = modules /\ UNCHANGED orderVars /\ phase' = phase
    BY <1>5 DEF LoadImport, Importing
  <2> QED
    BY <1>0, <1>5, <2>1, LoadImportKeeps, WhileLoading DEF IInv
<1>6. CASE ImportsLoaded
  <2>1. /\ phase = "loading" /\ calls # << >> /\ Call.next > Len(Call.imports)
        /\ calls' = Callers /\ modules' = modules /\ UNCHANGED orderVars /\ phase' = phase
    BY <1>6 DEF ImportsLoaded, Importing
  <2> QED
    BY <1>0, <2>1, CallFacts, ReturnKeeps, WhileLoading DEF IInv
<1>7. CASE StartOrdering
  BY <1>7, StartKeeps
<1>8. CASE Order
  BY <1>8, OrderKeeps
<1>9. CASE Postpone
  BY <1>9, PostponeKeeps
<1>10. CASE RoundEnds
  BY <1>10, RoundEndsKeeps
<1>11. CASE UNCHANGED loadingVars
  <2>1. UNCHANGED loadVars /\ UNCHANGED orderVars /\ phase' = phase
    BY <1>11 DEF loadingVars, loadVars, orderVars
  <2>2. /\ calls' = calls /\ modules' = modules /\ unprocessed' = unprocessed
        /\ ordered' = ordered /\ i' = i /\ stuck' = stuck /\ Ids' = Ids
    BY <2>1 DEF loadVars, orderVars, Ids
  <2>3. \A m : Ready(m)' <=> Ready(m)
    BY <2>2 DEF Ready, Importable
  <2>4. LoadingTypeOK' /\ LoadInv'
    BY <1>0, <2>1, <2>2, LoadedStays DEF LoadingTypeOK
  <2>5. OrderInv'
    BY <1>0, <2>1, <2>2, <2>3 DEF OrderInv, Begun, Partition, ImportsFirst
  <2> QED
    BY <2>4, <2>5 DEF IInv
<1> QED
  BY <1>1, <1>2, <1>3, <1>4, <1>5, <1>6, <1>7, <1>8, <1>9, <1>10, <1>11 DEF LoadingNext, Load

(* The invariant holds throughout.                                         *)
THEOREM Invariance == LoadingSpec => []IInv
<1>1. LoadingInit => IInv
  BY InitInv
<1>2. IInv /\ [LoadingNext]_loadingVars => IInv'
  BY NextInv
<1> QED
  BY <1>1, <1>2, PTL DEF LoadingSpec

(* Every state is well typed: positions and module numbers stay in range.  *)
THEOREM WellTyped == LoadingSpec => []LoadingTypeOK
<1>1. IInv => LoadingTypeOK
  BY DEF IInv
<1> QED
  BY <1>1, Invariance, PTL

(* The module named on the command line is the last of the order, where    *)
(* unstack, graph and infer look for it (main.watim:462, 489, 519-520):    *)
(* were another one last, the module that imports it would come later.     *)
THEOREM MainIsLast == LoadingSpec => []MainComesLast
<1>1. IInv => MainComesLast
  <2> SUFFICES ASSUME IInv, phase = "done"
               PROVE  modules[ordered[Len(ordered)]].path = Main
    BY DEF MainComesLast
  <2> DEFINE R == Len(ordered)
  <2>1. /\ Partition /\ ImportsFirst /\ unprocessed = << >> /\ calls = << >>
        /\ LoadInv /\ LoadingTypeOK
    BY DEF IInv, OrderInv, Begun
  <2>2. R \in Nat /\ ordered \in Seq(Ids)
    BY <2>1, Typed
  <2>3. \A m \in Ids : \E k \in 1 .. R : ordered[k] = m
    BY <2>1 DEF Partition
  <2>4. R \in 1 .. R /\ ordered[R] \in Ids
    <3>1. PICK m \in Ids : modules[m].path = Main
      BY <2>1 DEF LoadInv, ModulesNeeded, Loaded, Ids
    <3>2. PICK k \in 1 .. R : ordered[k] = m
      BY <2>3
    <3> QED
      BY <2>2, <3>2
  <2>5. ASSUME NEW n \in Ids, modules[ordered[R]].path \in ImportsOf(n)
        PROVE  FALSE
    <3>1. PICK k \in 1 .. R : ordered[k] = n
      BY <2>3
    <3>2. PICK j \in 1 .. Len(modules[n].imports) :
            modules[ordered[R]].path = modules[n].imports[j]
      BY <2>5 DEF ImportsOf
    <3>3. PICK l \in 1 .. k - 1 : modules[ordered[l]].path = modules[n].imports[j]
      BY <2>1, <3>1 DEF ImportsFirst
    <3>4. l \in 1 .. R /\ l # R
      BY <2>2
    <3>5. ordered[l] \in Ids /\ ordered[l] = ordered[R]
      BY <2>1, <2>2, <2>4, <3>2, <3>3, <3>4 DEF LoadInv, PathsDistinct
    <3> QED
      BY <2>1, <2>4, <3>4, <3>5 DEF Partition
  <2> QED
    BY <2>1, <2>4, <2>5 DEF LoadInv, ModulesNeeded
<1> QED
  BY <1>1, Invariance, PTL
-----------------------------------------------------------------------------
(* The two functions make a compilation plan.                              *)

(* What the plan's operators are of the loaded and ordered modules.        *)
LEMMA PlanView ==
  /\ Plan!Paths = Loaded
  /\ Plan!Needed = {Main} \cup UNION {ImportsOf(m) : m \in Ids}
  /\ ordered \in Seq(Ids) => Plan!Listed = Importable
<1> DEFINE entry(m) == [path |-> modules[m].path, imports |-> ImportsOf(m)]
           known == {entry(m) : m \in Ids}
<1>0. \A m : entry(m).path = modules[m].path /\ entry(m).imports = ImportsOf(m)
  OBVIOUS
<1>1. Plan!Paths = {k.path : k \in known} /\ Plan!Needed = {Main} \cup UNION {k.imports : k \in known}
  BY DEF Plan!Paths, Plan!Needed
<1> HIDE DEF entry
<1>2. {k.path : k \in known} = Loaded
  <2>1. {k.path : k \in known} = {entry(m).path : m \in Ids}
    OBVIOUS
  <2> QED
    BY <1>0, <2>1 DEF Loaded, Ids
<1>3. {k.imports : k \in known} = {ImportsOf(m) : m \in Ids}
  <2>1. {k.imports : k \in known} = {entry(m).imports : m \in Ids}
    OBVIOUS
  <2> QED
    BY <1>0, <2>1
<1>4. ASSUME ordered \in Seq(Ids)
      PROVE  Plan!Listed = Importable
  <2>1. Len(ordered) \in Nat
    BY <1>4
  <2> QED
    BY <2>1 DEF Plan!Listed, Importable
<1> QED
  BY <1>1, <1>2, <1>3, <1>4

(* A file that is looked at is needed.                                     *)
LEMMA CallNeeded ==
  ASSUME LoadingTypeOK, LoadInv, calls # << >>
  PROVE  Call.path \in Plan!Needed
<1> DEFINE n == Len(calls)
<1>1. n \in Nat \ {0} /\ Call = calls[n] /\ \A k \in 1 .. n : calls[k] \in Frame
  BY CallFacts
<1>2. CASE n = 1
  BY <1>1, <1>2, PlanView DEF LoadInv, CallsChain
<1>3. CASE n # 1
  <2> HIDE DEF n
  <2>1. n - 1 \in 1 .. n /\ n > 1 /\ n - 1 # n
    BY <1>1, <1>3
  <2> USE DEF n
  <2>2. /\ calls[n - 1].next - 1 \in 1 .. Len(calls[n - 1].imports)
        /\ Call.path = calls[n - 1].imports[calls[n - 1].next - 1]
        /\ calls[n - 1].next # 0 /\ calls[n - 1].next \in Nat
    BY <1>1, <2>1 DEF LoadInv, CallsChain, Frame
  <2>3. PICK l \in Ids : modules[l].imports = calls[n - 1].imports
    BY <2>1, <2>2 DEF LoadInv, CallsChain
  <2>4. Call.path \in ImportsOf(l)
    BY <2>2, <2>3 DEF ImportsOf
  <2> QED
    BY <2>4, PlanView
<1> QED
  BY <1>2, <1>3

(* Once ordering has begun, what is needed is loaded.                      *)
LEMMA AllNeededLoaded ==
  ASSUME LoadInv, calls = << >>, Len(calls) = 0
  PROVE  Plan!Needed = Plan!Paths
<1>1. Main \in Loaded
  BY DEF LoadInv, ModulesNeeded
<1>2. ASSUME NEW m \in Ids, NEW f \in ImportsOf(m)
      PROVE  f \in Loaded
  <2>1. PICK j \in 1 .. Len(modules[m].imports) : f = modules[m].imports[j]
    BY DEF ImportsOf
  <2>2. ~ Pending(f) /\ 1 .. Len(calls) = {}
    BY DEF Pending
  <2> QED
    BY <2>1, <2>2 DEF LoadInv, ImportsAttended
<1>3. ASSUME NEW m \in Ids
      PROVE  modules[m].path \in {Main} \cup UNION {ImportsOf(l) : l \in Ids}
  BY DEF LoadInv, ModulesNeeded
<1> QED
  BY <1>1, <1>2, <1>3, PlanView DEF Loaded, Ids

(* What Plan calls known, plan and outcome.                                *)
Known == {[path |-> modules[m].path, imports |-> ImportsOf(m)] : m \in Ids}
PlanOf == [k \in 1 .. Len(ordered) |-> modules[ordered[k]].path]
Outcome == CASE phase \in {"loading", "ordering"} -> "open"
             [] phase \in {"exit 1", "exit 2"} -> "failed"
             [] phase = "done" -> "planned"
             [] phase = "trap" -> "no plan"

(* The steps of a plan in these terms.                                     *)
LEMMA PlanSteps ==
  /\ Plan!PlanInit <=> Known = {} /\ PlanOf = << >> /\ Outcome = "open"
  /\ \A f, found :
       Plan!LoadModule(f, found) <=>
         /\ Outcome = "open" /\ PlanOf = << >>
         /\ f \in Plan!Needed \ Plan!Paths
         /\ Known' = Known \cup {[path |-> f, imports |-> found]}
         /\ PlanOf' = PlanOf /\ Outcome' = Outcome
  /\ Plan!FailToLoad <=>
       /\ Outcome = "open" /\ PlanOf = << >>
       /\ Plan!Needed \ Plan!Paths # {}
       /\ Outcome' = "failed"
       /\ Known' = Known /\ PlanOf' = PlanOf
  /\ \A k : Plan!List(k) <=>
       /\ Outcome = "open" /\ Plan!Needed = Plan!Paths
       /\ k.path \notin Plan!Listed /\ k.imports \subseteq Plan!Listed
       /\ PlanOf' = Append(PlanOf, k.path)
       /\ Known' = Known /\ Outcome' = Outcome
  /\ Plan!Finish <=>
       /\ Outcome = "open" /\ Plan!Needed = Plan!Paths /\ Plan!Listed = Plan!Paths
       /\ Outcome' = "planned"
       /\ Known' = Known /\ PlanOf' = PlanOf
  /\ Plan!GiveUp <=>
       /\ Outcome = "open" /\ Plan!Needed = Plan!Paths /\ Plan!Listed # Plan!Paths
       /\ \A k \in Known : ~ (k.path \notin Plan!Listed /\ k.imports \subseteq Plan!Listed)
       /\ Outcome' = "no plan"
       /\ Known' = Known /\ PlanOf' = PlanOf
  /\ (UNCHANGED Plan!planVars) <=>
       Known' = Known /\ PlanOf' = PlanOf /\ Outcome' = Outcome
  /\ Plan!PlanNext <=>
       \/ \E f \in Files, found \in SUBSET Files : Plan!LoadModule(f, found)
       \/ Plan!FailToLoad
       \/ \E k \in Known : Plan!List(k)
       \/ Plan!Finish
       \/ Plan!GiveUp
  BY DEF Known, PlanOf, Outcome, Plan!PlanInit, Plan!LoadModule, Plan!FailToLoad,
         Plan!List, Plan!Listable, Plan!Finish, Plan!GiveUp, Plan!planVars, Plan!PlanNext

(* Known is what is loaded, Outcome what the phase says.                   *)
LEMMA PlanStays ==
  /\ modules' = modules => Known' = Known
  /\ modules' = modules /\ ordered' = ordered => PlanOf' = PlanOf
  /\ phase' = phase => Outcome' = Outcome
  /\ ordered = << >> => PlanOf = << >>
  /\ phase \in {"loading", "ordering"} => Outcome = "open"
<1>1. modules' = modules => Known' = Known
  BY DEF Known, Ids, ImportsOf
<1>2. modules' = modules /\ ordered' = ordered => PlanOf' = PlanOf
  BY DEF PlanOf
<1>3. phase' = phase => Outcome' = Outcome
  BY DEF Outcome
<1>4. ordered = << >> => PlanOf = << >>
  BY DEF PlanOf
<1>5. phase \in {"loading", "ordering"} => Outcome = "open"
  BY DEF Outcome
<1> QED
  BY <1>1, <1>2, <1>3, <1>4, <1>5

(* Reading a file loads a module that is needed and was not loaded.        *)
LEMMA InsertLoadsModule ==
  ASSUME IInv, NEW found \in ImportLists, Insert(found)
  PROVE  Plan!PlanNext
<1> DEFINE f == Call.path
           S == {found[k] : k \in 1 .. Len(found)}
           new == [path |-> f, imports |-> found]
           L == Len(modules)
<1>1. /\ phase = "loading" /\ calls # << >> /\ f \notin Loaded
      /\ modules' = Append(modules, new) /\ ordered' = ordered
  BY DEF Insert, Entering, IsNew, orderVars
<1>2. phase' = phase
  BY InsertKeeps DEF IInv
<1>3. /\ Outcome = "open" /\ Outcome' = Outcome /\ PlanOf = << >> /\ PlanOf' = PlanOf
  <2>1. ordered = << >> /\ ordered' = << >>
    BY <1>1 DEF IInv, OrderInv, Begun
  <2>2. PlanOf = << >> /\ PlanOf' = << >>
    BY <2>1 DEF PlanOf
  <2> QED
    BY <1>1, <1>2, <2>2, PlanStays
<1>4. f \in Plan!Needed \ Plan!Paths
  BY <1>1, CallNeeded, PlanView DEF IInv
<1>5. f \in Files /\ S \in SUBSET Files /\ new \in Module
  BY <1>1, CallFacts, LoadingAssumption DEF IInv, Frame, Module
<1>6. Known' = Known \cup {[path |-> f, imports |-> S]}
  <2>1. modules \in Seq(Module) /\ L \in Nat /\ Ids = 1 .. L
    BY Typed DEF IInv
  <2>2. /\ Len(modules') = L + 1
        /\ \A m \in Ids : modules'[m] = modules[m]
        /\ modules'[L + 1] = new
    BY <1>1, <1>5, <2>1, AppendProperties
  <2> HIDE DEF L, new, f
  <2>3. Ids' = Ids \cup {L + 1}
    BY <2>1, <2>2 DEF Ids
  <2>4. \A m \in Ids : ImportsOf(m)' = ImportsOf(m)
    BY <2>2 DEF ImportsOf
  <2>5. PICK l \in Nat : l = L + 1
    BY <2>1
  <2>6. new.path = f /\ new.imports = found
    BY DEF new
  <2>7. ImportsOf(l)' = S /\ modules'[l].path = f
    BY <2>2, <2>5, <2>6 DEF ImportsOf
  <2>8. Known' = {[path |-> modules'[m].path, imports |-> ImportsOf(m)'] : m \in Ids'}
    BY DEF Known
  <2> QED
    BY <2>2, <2>3, <2>4, <2>5, <2>7, <2>8 DEF Known
<1>7. Plan!LoadModule(f, S)
  BY <1>3, <1>4, <1>6, PlanSteps
<1> QED
  BY <1>5, <1>7, PlanSteps

(* Ordering a module lists it, after all that it imports.                  *)
LEMMA OrderLists ==
  ASSUME IInv, Order
  PROVE  Plan!PlanNext
<1> DEFINE m0 == unprocessed[i]
           R == Len(ordered)
           k0 == [path |-> modules[m0].path, imports |-> ImportsOf(m0)]
<1>1. /\ phase = "ordering" /\ phase' = phase /\ i <= Len(unprocessed) /\ Ready(m0)
      /\ ordered' = Append(ordered, m0) /\ modules' = modules
  BY DEF Order, Visiting, loadVars
<1>2. /\ modules \in Seq(Module) /\ unprocessed \in Seq(Ids) /\ ordered \in Seq(Ids)
      /\ R \in Nat /\ R = Len(ordered) /\ i \in 1 .. Len(unprocessed) /\ m0 \in Ids
      /\ \A m \in Ids : modules[m].path \in Files
  <2>1. /\ modules \in Seq(Module) /\ unprocessed \in Seq(Ids) /\ ordered \in Seq(Ids)
        /\ R \in Nat /\ i \in Nat /\ i \in 1 .. Len(unprocessed) + 1
        /\ Len(unprocessed) \in Nat
        /\ \A m \in Ids : modules[m] \in Module
    BY Typed DEF IInv
  <2>2. i \in 1 .. Len(unprocessed)
    BY <1>1, <2>1
  <2> QED
    BY <2>1, <2>2 DEF Module
<1>3. Outcome = "open" /\ Outcome' = Outcome /\ Known' = Known
  BY <1>1, PlanStays
<1>4. calls = << >> /\ Partition /\ LoadInv
  BY <1>1 DEF IInv, OrderInv, Begun
<1>5. Plan!Needed = Plan!Paths /\ Plan!Listed = Importable
  BY <1>2, <1>4, AllNeededLoaded, PlanView
<1>6. k0 \in Known /\ k0.path = modules[m0].path /\ k0.imports = ImportsOf(m0)
  BY <1>2 DEF Known
<1>7. k0.path \notin Importable
  <2> SUFFICES ASSUME NEW k \in 1 .. R, modules[ordered[k]].path = modules[m0].path
               PROVE  FALSE
    BY <1>6 DEF Importable
  <2>1. ordered[k] \in Ids /\ ordered[k] # m0
    BY <1>2, <1>4 DEF Partition
  <2> QED
    BY <1>2, <1>4, <2>1 DEF LoadInv, PathsDistinct
<1>8. k0.imports \subseteq Importable
  BY <1>1, <1>6 DEF Ready, ImportsOf
<1>9. PlanOf' = Append(PlanOf, k0.path)
  <2>1. /\ Len(ordered') = R + 1 /\ \A k \in 1 .. R : ordered'[k] = ordered[k]
        /\ ordered'[R + 1] = m0
    BY <1>1, <1>2, AppendProperties
  <2>2. PlanOf \in Seq(Files) /\ Len(PlanOf) = R /\ \A k \in 1 .. R : PlanOf[k] = modules[ordered[k]].path
    BY <1>2 DEF PlanOf
  <2>3. /\ Append(PlanOf, k0.path) \in Seq(Files)
        /\ Len(Append(PlanOf, k0.path)) = R + 1
        /\ \A k \in 1 .. R : Append(PlanOf, k0.path)[k] = modules[ordered[k]].path
        /\ Append(PlanOf, k0.path)[R + 1] = modules[m0].path
    BY <1>2, <1>6, <2>2, AppendProperties
  <2> HIDE DEF R, m0, k0
  <2>4. \A k \in 1 .. R + 1 : k \in 1 .. R \/ k = R + 1
    BY <1>2
  <2>5. PlanOf' = [k \in 1 .. R + 1 |-> modules[ordered'[k]].path]
    BY <1>1, <2>1 DEF PlanOf
  <2>6. \A k \in 1 .. R + 1 : PlanOf'[k] = Append(PlanOf, k0.path)[k]
    BY <2>1, <2>3, <2>4, <2>5
  <2>7. \A k \in 1 .. R + 1 : modules[ordered'[k]].path \in Files
    <3>1. \A k \in 1 .. R : ordered[k] \in Ids
      BY <1>2
    <3> QED
      BY <1>2, <2>1, <2>4, <3>1
  <2>8. PlanOf' \in Seq(Files) /\ Len(PlanOf') = R + 1
    <3>1. R + 1 \in Nat
      BY <1>2
    <3> QED
      BY <2>5, <2>7, <3>1
  <2> QED
    BY <2>3, <2>6, <2>8, SeqEqual
<1>10. PICK k \in Known : k = k0
  BY <1>6
<1> HIDE DEF m0, R, k0
<1>11. Plan!List(k)
  BY <1>3, <1>5, <1>7, <1>8, <1>9, <1>10, PlanSteps
<1> QED
  BY <1>11, PlanSteps

(* The end of a round leaves the plan as it is, finishes it when all are   *)
(* listed, and gives up when none can be.                                  *)
LEMMA RoundEndsPlan ==
  ASSUME IInv, RoundEnds
  PROVE  Plan!PlanNext \/ UNCHANGED Plan!planVars
<1>1. /\ phase = "ordering" /\ i > Len(unprocessed)
      /\ phase' = IF stuck THEN "trap"
                  ELSE IF unprocessed = << >> THEN "done" ELSE "ordering"
      /\ ordered' = ordered /\ unprocessed' = unprocessed /\ modules' = modules
  BY DEF RoundEnds, loadVars
<1>2. /\ calls = << >> /\ Partition /\ LoadInv
      /\ ordered \in Seq(Ids) /\ unprocessed \in Seq(Ids) /\ Len(unprocessed) \in Nat
  BY <1>1, Typed DEF IInv, OrderInv, Begun
<1>3. /\ Outcome = "open" /\ Known' = Known /\ PlanOf' = PlanOf
  BY <1>1, PlanStays
<1>4. /\ Plan!Needed = Plan!Paths /\ Plan!Listed = Importable /\ Plan!Paths = Loaded
  BY <1>2, AllNeededLoaded, PlanView
<1>5. CASE stuck
  <2>1. unprocessed # << >>
    BY <1>1, <1>5 DEF IInv, OrderInv
  <2>0. \A k \in 1 .. Len(unprocessed) : ~ Ready(unprocessed[k])
    <3>1. i - 1 = Len(unprocessed)
      BY <1>1, <1>2, Typed DEF IInv
    <3> QED
      BY <1>1, <1>5, <3>1 DEF IInv, OrderInv
  <2>2. ASSUME NEW k \in 1 .. Len(unprocessed)
        PROVE  modules[unprocessed[k]].path \in Loaded \ Importable
    <3>1. unprocessed[k] \in Ids
      BY <1>2
    <3>2. ASSUME NEW l \in 1 .. Len(ordered), modules[ordered[l]].path = modules[unprocessed[k]].path
          PROVE  FALSE
      <4>1. ordered[l] \in Ids /\ ordered[l] # unprocessed[k]
        BY <1>2 DEF Partition
      <4> QED
        BY <1>2, <3>1, <3>2, <4>1 DEF LoadInv, PathsDistinct
    <3> QED
      BY <3>1, <3>2 DEF Loaded, Ids, Importable
  <2>3. Plan!Listed # Plan!Paths
    <3>1. 1 \in 1 .. Len(unprocessed)
      BY <1>2, <2>1
    <3> QED
      BY <1>4, <2>2, <3>1
  <2>4. ASSUME NEW k \in Known, k.path \notin Importable
        PROVE  ~ (k.imports \subseteq Importable)
    <3>1. PICK m \in Ids : k = [path |-> modules[m].path, imports |-> ImportsOf(m)]
      BY DEF Known
    <3>2. k.path = modules[m].path /\ k.imports = ImportsOf(m)
      BY <3>1
    <3>3. \A l \in 1 .. Len(ordered) : ordered[l] # m
      BY <2>4, <3>2 DEF Importable
    <3>4. PICK l \in 1 .. Len(unprocessed) : unprocessed[l] = m
      BY <1>2, <3>3 DEF Partition
    <3>5. ~ Ready(m)
      BY <2>0, <3>4
    <3> QED
      BY <3>2, <3>5 DEF Ready, ImportsOf
  <2>5. Outcome' = "no plan"
    BY <1>1, <1>5 DEF Outcome
  <2> QED
    BY <1>3, <1>4, <2>3, <2>4, <2>5, PlanSteps
<1>6. CASE ~ stuck /\ unprocessed = << >>
  <2>1. Outcome' = "planned"
    BY <1>1, <1>6 DEF Outcome
  <2>2. Loaded \subseteq Importable
    <3> SUFFICES ASSUME NEW m \in Ids PROVE modules[m].path \in Importable
      BY DEF Loaded, Ids
    <3>1. PICK k \in 1 .. Len(ordered) : ordered[k] = m
      BY <1>2, <1>6 DEF Partition
    <3> QED
      BY <3>1 DEF Importable
  <2>3. Importable \subseteq Loaded
    <3>1. \A k \in 1 .. Len(ordered) : ordered[k] \in Ids
      BY <1>2
    <3> QED
      BY <3>1 DEF Importable, Loaded, Ids
  <2> QED
    BY <1>3, <1>4, <2>1, <2>2, <2>3, PlanSteps
<1>7. CASE ~ stuck /\ unprocessed # << >>
  <2>1. Outcome' = Outcome
    BY <1>1, <1>7, PlanStays
  <2> QED
    BY <1>3, <2>1, PlanSteps
<1> QED
  BY <1>5, <1>6, <1>7

(* Loading and ordering implement CompilationPlan (main.watim:805-982): a  *)
(* module is loaded once and only if it is needed, listed once and after   *)
(* what it imports, and the compiler gives up only if none can be listed.  *)
THEOREM ImplementsPlan == LoadingSpec => PlanSpec
<1>1. LoadingInit => Plan!PlanInit
  <2> SUFFICES ASSUME LoadingInit PROVE Plan!PlanInit
    OBVIOUS
  <2>1. modules = << >> /\ ordered = << >> /\ phase = "loading"
    BY DEF LoadingInit
  <2>2. Ids = {}
    BY <2>1 DEF Ids
  <2>3. Known = {}
    BY <2>2 DEF Known
  <2> QED
    BY <2>1, <2>3, PlanStays, PlanSteps
<1>2. IInv /\ [LoadingNext]_loadingVars => [Plan!PlanNext]_(Plan!planVars)
  <2> SUFFICES ASSUME IInv, [LoadingNext]_loadingVars
               PROVE  Plan!PlanNext \/ UNCHANGED Plan!planVars
    OBVIOUS
  <2>1. ASSUME modules' = modules, ordered' = ordered, phase' = phase
        PROVE  UNCHANGED Plan!planVars
    BY <2>1, PlanStays, PlanSteps
  <2>2. CASE AlreadyLoaded \/ LoadImport \/ ImportsLoaded
    BY <2>1, <2>2 DEF AlreadyLoaded, LoadImport, ImportsLoaded, orderVars
  <2>3. CASE ReadFails \/ ParseFails
    <3>1. /\ phase = "loading" /\ calls # << >> /\ Call.path \notin Loaded
          /\ phase' \in {"exit 1", "exit 2"} /\ modules' = modules /\ ordered' = ordered
      BY <2>3 DEF ReadFails, ParseFails, Entering, IsNew, loadVars, orderVars
    <3>2. Outcome' = "failed"
      BY <3>1 DEF Outcome
    <3>3. ordered = << >>
      BY <3>1 DEF IInv, OrderInv, Begun
    <3>4. Call.path \in Plan!Needed \ Plan!Paths
      BY <3>1, CallNeeded, PlanView DEF IInv
    <3>5. Known' = Known /\ PlanOf' = PlanOf /\ PlanOf = << >> /\ Outcome = "open"
      BY <3>1, <3>3, PlanStays
    <3> QED
      BY <3>2, <3>4, <3>5, PlanSteps
  <2>4. ASSUME NEW found \in ImportLists, Insert(found)
        PROVE  Plan!PlanNext
    BY <2>4, InsertLoadsModule
  <2>5. CASE StartOrdering
    <3>1. /\ phase = "loading" /\ phase' = "ordering"
          /\ ordered' = << >> /\ modules' = modules
      BY <2>5 DEF StartOrdering, loadVars
    <3>2. ordered = << >>
      BY <3>1 DEF IInv, OrderInv, Begun
    <3>3. Outcome' = "open" /\ Outcome = "open"
      BY <3>1 DEF Outcome
    <3> QED
      BY <3>1, <3>2, <3>3, PlanStays, PlanSteps
  <2>6. CASE Order
    BY <2>6, OrderLists
  <2>7. CASE Postpone
    BY <2>1, <2>7 DEF Postpone, loadVars
  <2>8. CASE RoundEnds
    BY <2>8, RoundEndsPlan
  <2>9. CASE UNCHANGED loadingVars
    BY <2>1, <2>9 DEF loadingVars
  <2> QED
    BY <2>2, <2>3, <2>4, <2>5, <2>6, <2>7, <2>8, <2>9 DEF LoadingNext, Load
<1> QED
  BY <1>1, <1>2, Invariance, PTL DEF LoadingSpec, PlanSpec, Plan!PlanSpec

-----------------------------------------------------------------------------
BootFrame == [path : Files, next : Nat]

(* Modules some call is loading, and those it has loaded with all that     *)
(* they import.                                                            *)
InProgress == {bootCalls[k].path : k \in 1 .. Len(bootCalls)}
Finished == BootLoaded \ InProgress

ImportsIt(f, g) == \E j \in 1 .. Len(imports[f]) : imports[f][j] = g
MainImported == \E f \in BootLoaded : ImportsIt(f, Main)

(* The first call is for the main module, any other for the import its     *)
(* caller has just passed, and no two for the same.  Only the last may not *)
(* have read its file yet.                                                 *)
BootCallsChain ==
  /\ bootCalls # << >> => bootCalls[1].path = Main
  /\ \A k \in 1 .. Len(bootCalls) :
       /\ bootCalls[k].next = 0 => k = Len(bootCalls) /\ bootCalls[k].path \notin BootLoaded
       /\ bootCalls[k].next > 0 => bootCalls[k].path \in BootLoaded
       /\ k > 1 => /\ bootCalls[k - 1].next - 1 \in 1 .. Len(imports[bootCalls[k - 1].path])
                   /\ bootCalls[k].path = imports[bootCalls[k - 1].path][bootCalls[k - 1].next - 1]
  /\ \A k, l \in 1 .. Len(bootCalls) : bootCalls[k].path = bootCalls[l].path => k = l

(* The imports a call has passed are finished, but for the main module and *)
(* the one that the next call is loading.                                  *)
PassedFinished ==
  \A k \in 1 .. Len(bootCalls) : bootCalls[k].next > 0 =>
    \A j \in 1 .. Len(imports[bootCalls[k].path]) : j < bootCalls[k].next =>
      \/ imports[bootCalls[k].path][j] \in Finished \cup {Main}
      \/ k < Len(bootCalls) /\ j = bootCalls[k].next - 1

(* So are those of a finished module.                                      *)
FinishedClosed ==
  \A f \in Finished : \A j \in 1 .. Len(imports[f]) :
    imports[f][j] \in Finished \cup {Main}

(* No finished modules import one another in a circle.                     *)
NoFinishedCycle ==
  \/ MainImported
  \/ \A C \in SUBSET Finished : (\A f \in C : \E g \in C : ImportsIt(f, g)) => C = {}

(* The main module is loaded unless its file is read now, any other was    *)
(* loaded because one imports it, and each was loaded once.                *)
BootModulesNeeded ==
  /\ Main \in BootLoaded \/ (bootCalls # << >> /\ bootCalls[1].next = 0)
  /\ \A f \in BootLoaded : f = Main \/ \E g \in BootLoaded : ImportsIt(g, f)
  /\ \A k, l \in 1 .. Len(bootModules) : bootModules[k] = bootModules[l] => k = l

BootLoadInv ==
  BootCallsChain /\ PassedFinished /\ FinishedClosed /\ NoFinishedCycle /\ BootModulesNeeded

(* A module is either unprocessed or ordered, and stands in its list once. *)
BootPartition ==
  /\ \A k, l \in 1 .. Len(bootUnprocessed) : bootUnprocessed[k] = bootUnprocessed[l] => k = l
  /\ \A k, l \in 1 .. Len(bootOrdered) : bootOrdered[k] = bootOrdered[l] => k = l
  /\ \A k \in 1 .. Len(bootUnprocessed), l \in 1 .. Len(bootOrdered) :
       bootUnprocessed[k] # bootOrdered[l]
  /\ \A f \in BootLoaded : \/ \E k \in 1 .. Len(bootUnprocessed) : bootUnprocessed[k] = f
                       \/ \E k \in 1 .. Len(bootOrdered) : bootOrdered[k] = f
  /\ \A k \in 1 .. Len(bootUnprocessed) : bootUnprocessed[k] \in BootLoaded
  /\ \A k \in 1 .. Len(bootOrdered) : bootOrdered[k] \in BootLoaded

(* What an ordered module imports is ordered before it.                    *)
BootImportsFirst ==
  \A k \in 1 .. Len(bootOrdered) : \A j \in 1 .. Len(imports[bootOrdered[k]]) :
    \E l \in 1 .. k - 1 : bootOrdered[l] = imports[bootOrdered[k]][j]

BootOrderInv ==
  /\ bootPhase \in {"ordering", "done"} => bootCalls = << >> /\ BootPartition /\ BootImportsFirst
  /\ bootPhase = "done" => bootUnprocessed = << >>

BootIInv == BootTypeOK /\ BootLoadInv /\ BootOrderInv /\ (bootPhase = "cycle" => Cyclic)

-----------------------------------------------------------------------------
(* The modules of a well-typed state, and what each imports.               *)
LEMMA BootTyped ==
  ASSUME BootTypeOK
  PROVE  /\ bootModules \in Seq(Files) /\ Len(bootModules) \in Nat
         /\ BootLoaded = {bootModules[k] : k \in 1 .. Len(bootModules)} /\ BootLoaded \subseteq Files
         /\ DOMAIN imports = BootLoaded
         /\ \A f \in BootLoaded :
              /\ imports[f] \in Seq(Files) /\ Len(imports[f]) \in Nat
              /\ ToSet(imports[f]) = {imports[f][j] : j \in 1 .. Len(imports[f])}
              /\ \A g : g \in ToSet(imports[f]) <=> ImportsIt(f, g)
<1>1. bootModules \in Seq(Files) /\ imports \in [BootLoaded -> Seq(Files)]
  BY DEF BootTypeOK
<1>2. /\ Len(bootModules) \in Nat /\ DOMAIN bootModules = 1 .. Len(bootModules)
      /\ \A k \in 1 .. Len(bootModules) : bootModules[k] \in Files
  BY <1>1
<1>3. BootLoaded = {bootModules[k] : k \in 1 .. Len(bootModules)} /\ BootLoaded \subseteq Files
  BY <1>2 DEF BootLoaded, ToSet
<1>4. ASSUME NEW f \in BootLoaded
      PROVE  /\ imports[f] \in Seq(Files) /\ Len(imports[f]) \in Nat
             /\ ToSet(imports[f]) = {imports[f][j] : j \in 1 .. Len(imports[f])}
             /\ \A g : g \in ToSet(imports[f]) <=> ImportsIt(f, g)
  <2>1. imports[f] \in Seq(Files)
    BY <1>1
  <2>2. Len(imports[f]) \in Nat /\ DOMAIN imports[f] = 1 .. Len(imports[f])
    BY <2>1
  <2> QED
    BY <2>1, <2>2 DEF ToSet, ImportsIt
<1>5. DOMAIN imports = BootLoaded
  BY <1>1
<1> QED
  BY <1>1, <1>2, <1>3, <1>4, <1>5

-----------------------------------------------------------------------------
(* Loading.                                                                *)

(* The call in progress.                                                   *)
LEMMA BootCallFacts ==
  ASSUME BootTypeOK, bootCalls # << >>
  PROVE  /\ bootCalls \in Seq(BootFrame)
         /\ Len(bootCalls) \in Nat \ {0} /\ BootCall \in BootFrame /\ BootCall = bootCalls[Len(bootCalls)]
         /\ \A k \in 1 .. Len(bootCalls) : bootCalls[k] \in BootFrame
         /\ Front(bootCalls) \in Seq(BootFrame) /\ Len(Front(bootCalls)) = Len(bootCalls) - 1
         /\ \A k \in 1 .. Len(bootCalls) - 1 : Front(bootCalls)[k] = bootCalls[k]
<1>1. bootCalls \in Seq(BootFrame)
  BY DEF BootTypeOK, BootFrame
<1>2. Len(bootCalls) \in Nat \ {0}
  BY <1>1
<1>3. \A k \in 1 .. Len(bootCalls) : bootCalls[k] \in BootFrame
  BY <1>1
<1>4. /\ Front(bootCalls) \in Seq(BootFrame) /\ Len(Front(bootCalls)) = Len(bootCalls) - 1
      /\ \A k \in 1 .. Len(bootCalls) - 1 : Front(bootCalls)[k] = bootCalls[k]
  BY <1>1, LastRemoved DEF Front
<1> QED
  BY <1>1, <1>2, <1>3, <1>4 DEF BootCall, Last

(* A call that imports a module has read its own file, and so have all the *)
(* calls below it.                                                         *)
LEMMA AllRead ==
  ASSUME BootTypeOK, BootCallsChain, bootCalls # << >>, BootCall.next > 0
  PROVE  \A k \in 1 .. Len(bootCalls) : bootCalls[k].next > 0 /\ bootCalls[k].path \in BootLoaded
<1> SUFFICES ASSUME NEW k \in 1 .. Len(bootCalls)
             PROVE  bootCalls[k].next > 0 /\ bootCalls[k].path \in BootLoaded
  OBVIOUS
<1>1. BootCall = bootCalls[Len(bootCalls)] /\ bootCalls[k] \in BootFrame
  BY BootCallFacts
<1>2. bootCalls[k].next # 0
  BY <1>1 DEF BootCallsChain
<1> QED
  BY <1>1, <1>2 DEF BootCallsChain, BootFrame

(* The compiler starts by loading the main module.                         *)
LEMMA BootInitInv == BootInit => BootIInv
<1> SUFFICES ASSUME BootInit PROVE BootIInv
  OBVIOUS
<1>1. /\ bootCalls = << [path |-> Main, next |-> 0] >>
      /\ bootModules = << >> /\ imports = [f \in {} |-> << >>]
      /\ bootUnprocessed = << >> /\ bootOrdered = << >> /\ bootI = 1 /\ bootPhase = "loading"
  BY DEF BootInit
<1>2. /\ bootCalls \in Seq(BootFrame) /\ Len(bootCalls) = 1 /\ bootCalls # << >>
      /\ bootCalls[1] = [path |-> Main, next |-> 0]
  BY <1>1, LoadingAssumption DEF BootFrame
<1>3. bootModules \in Seq(Files) /\ Len(bootModules) = 0 /\ BootLoaded = {}
  BY <1>1 DEF BootLoaded, ToSet
<1>4. BootTypeOK
  <2>1. imports \in [BootLoaded -> Seq(Files)]
    BY <1>1, <1>3
  <2> QED
    BY <1>1, <1>2, <1>3, <2>1 DEF BootTypeOK, BootFrame
<1>5. Finished = {}
  BY <1>3 DEF Finished
<1>6. BootCallsChain
  BY <1>2, <1>3 DEF BootCallsChain
<1>7. PassedFinished
  BY <1>2 DEF PassedFinished
<1>8. FinishedClosed /\ NoFinishedCycle /\ BootModulesNeeded
  BY <1>2, <1>3, <1>5 DEF FinishedClosed, NoFinishedCycle, BootModulesNeeded
<1>9. BootOrderInv
  BY <1>1 DEF BootOrderInv
<1> QED
  BY <1>1, <1>4, <1>6, <1>7, <1>8, <1>9 DEF BootIInv, BootLoadInv

(* What reading a file changes (bootstrap/__main__.py:28-41).              *)
LEMMA BootInserted ==
  ASSUME BootTypeOK, BootLoadInv, NEW list \in ImportLists, BootInsert(list)
  PROVE  /\ bootCalls # << >> /\ BootCall.next = 0
         /\ BootCall.path \in Files \ BootLoaded
         /\ bootModules' \in Seq(Files) /\ Len(bootModules') = Len(bootModules) + 1
         /\ \A k \in 1 .. Len(bootModules) : bootModules'[k] = bootModules[k]
         /\ bootModules'[Len(bootModules) + 1] = BootCall.path
         /\ bootCalls' \in Seq(BootFrame) /\ Len(bootCalls') = Len(bootCalls)
         /\ bootCalls' # << >>
         /\ \A k \in 1 .. Len(bootCalls) - 1 : bootCalls'[k] = bootCalls[k]
         /\ bootCalls'[Len(bootCalls)] = [path |-> BootCall.path, next |-> 1]
         /\ BootLoaded' = BootLoaded \cup {BootCall.path}
         /\ imports' \in [BootLoaded' -> Seq(Files)]
         /\ \A g \in BootLoaded : imports'[g] = imports[g]
         /\ imports'[BootCall.path] = list /\ list \in Seq(Files) /\ Len(list) \in Nat
<1> DEFINE n == Len(bootCalls)
           L == Len(bootModules)
           f == BootCall.path
           read == [path |-> f, next |-> 1]
<1>1. /\ bootCalls # << >> /\ BootCall.next = 0
      /\ bootModules' = Append(bootModules, f)
      /\ imports' = [g \in DOMAIN imports \cup {f} |->
                       IF g = f THEN list ELSE imports[g]]
      /\ bootCalls' = [bootCalls EXCEPT ![n].next = 1]
  BY DEF BootInsert, BootEntering
<1>2. /\ n = Len(bootCalls) /\ n \in Nat \ {0} /\ n \in 1 .. n /\ bootCalls \in Seq(BootFrame)
      /\ bootCalls[n] = BootCall /\ BootCall \in BootFrame
      /\ \A k \in 1 .. n : bootCalls[k] \in BootFrame
  BY <1>1, BootCallFacts
<1>3. read \in BootFrame /\ f \in Files /\ read.path = f /\ read.next = 1
  BY <1>2 DEF BootFrame
<1>4. f \notin BootLoaded
  BY <1>1, <1>2 DEF BootLoadInv, BootCallsChain
<1>5. /\ bootModules' \in Seq(Files) /\ L \in Nat /\ Len(bootModules') = L + 1 /\ L = Len(bootModules)
      /\ \A k \in 1 .. L : bootModules'[k] = bootModules[k]
      /\ bootModules'[L + 1] = f
  BY <1>1, <1>3, BootTyped, AppendProperties
<1>6. /\ bootCalls' \in Seq(BootFrame) /\ Len(bootCalls') = n /\ bootCalls' # << >>
      /\ \A k \in 1 .. n - 1 : bootCalls'[k] = bootCalls[k]
      /\ bootCalls'[n] = read
  <2>1. [BootCall EXCEPT !.next = 1] = read
    BY <1>2 DEF BootFrame
  <2>2. bootCalls' = [bootCalls EXCEPT ![n] = read]
    BY <1>1, <1>2, <2>1
  <2> QED
    BY <1>2, <1>3, <2>2
<1>0. f = bootCalls[n].path
  BY <1>2
<1> HIDE DEF n, L, f, read
<1>7. BootLoaded' = BootLoaded \cup {f}
  <2>1. BootLoaded' = {bootModules'[k] : k \in 1 .. L + 1}
    BY <1>5 DEF BootLoaded, ToSet
  <2>2. 1 .. L + 1 = (1 .. L) \cup {L + 1}
    BY <1>5
  <2> QED
    BY <1>5, <2>1, <2>2, BootTyped
<1>8. /\ imports' \in [BootLoaded' -> Seq(Files)]
      /\ \A g \in BootLoaded : imports'[g] = imports[g]
      /\ imports'[f] = list /\ list \in Seq(Files) /\ Len(list) \in Nat
  <2>1. list \in Seq(Files)
    BY LoadingAssumption
  <2>2. \A g \in BootLoaded : g # f /\ imports[g] \in Seq(Files)
    BY <1>4, BootTyped
  <2>3. DOMAIN imports = BootLoaded
    BY BootTyped
  <2> QED
    BY <1>1, <1>7, <2>1, <2>2, <2>3
<1> QED
  BY <1>1, <1>3, <1>4, <1>5, <1>6, <1>7, <1>8 DEF n, L, f, read

(* A file that was read goes into the list of modules, and its call turns  *)
(* to what it imports (bootstrap/__main__.py:28-41).                       *)
LEMMA BootInsertKeeps ==
  ASSUME BootTypeOK, BootLoadInv,
         NEW list \in ImportLists, BootInsert(list)
  PROVE  /\ BootLoadInv' /\ bootCalls' \in Seq(BootFrame)
         /\ bootModules' \in Seq(Files) /\ imports' \in [BootLoaded' -> Seq(Files)]
<1> DEFINE n == Len(bootCalls)
           L == Len(bootModules)
           f == BootCall.path
           read == [path |-> f, next |-> 1]
<1>1. bootCalls # << >> /\ BootCall.next = 0
  BY BootInserted
<1>2. /\ n = Len(bootCalls) /\ n \in Nat \ {0} /\ n \in 1 .. n /\ bootCalls \in Seq(BootFrame)
      /\ bootCalls[n] = BootCall /\ BootCall \in BootFrame
      /\ \A k \in 1 .. n : bootCalls[k] \in BootFrame
  BY <1>1, BootCallFacts
<1>3. read \in BootFrame /\ f \in Files /\ read.path = f /\ read.next = 1
  BY <1>2 DEF BootFrame
<1>4. f \notin BootLoaded
  BY BootInserted
<1>5. /\ bootModules' \in Seq(Files) /\ L \in Nat /\ Len(bootModules') = L + 1 /\ L = Len(bootModules)
      /\ \A k \in 1 .. L : bootModules'[k] = bootModules[k]
      /\ bootModules'[L + 1] = f
  BY BootInserted, BootTyped
<1>6. /\ bootCalls' \in Seq(BootFrame) /\ Len(bootCalls') = n /\ bootCalls' # << >>
      /\ \A k \in 1 .. n - 1 : bootCalls'[k] = bootCalls[k]
      /\ bootCalls'[n] = read
  BY BootInserted
<1>0. f = bootCalls[n].path
  BY <1>2
<1>7. BootLoaded' = BootLoaded \cup {f}
  BY BootInserted
<1>8. /\ imports' \in [BootLoaded' -> Seq(Files)]
      /\ \A g \in BootLoaded : imports'[g] = imports[g]
      /\ imports'[f] = list /\ list \in Seq(Files) /\ Len(list) \in Nat
  BY BootInserted
<1> HIDE DEF n, L, f, read
<1>9. \A k \in 1 .. n : k = n \/ (k \in 1 .. n - 1 /\ bootCalls'[k] = bootCalls[k])
  BY <1>2, <1>6
<1>10. \A k \in 1 .. n : bootCalls'[k].path = bootCalls[k].path
  BY <1>0, <1>3, <1>6, <1>9
<1>11. Finished' = Finished
  <2>1. InProgress' = InProgress
    BY <1>2, <1>6, <1>10 DEF InProgress
  <2>2. f \in InProgress
    BY <1>0, <1>2 DEF InProgress
  <2> QED
    BY <1>7, <2>1, <2>2 DEF Finished
<1>12. BootCallsChain'
  <2>1. bootCalls'[1].path = Main
    <3>1. 1 \in 1 .. n
      BY <1>2
    <3> QED
      BY <1>1, <1>10, <3>1 DEF BootLoadInv, BootCallsChain
  <2>2. \A k, l \in 1 .. n : bootCalls'[k].path = bootCalls'[l].path => k = l
    BY <1>2, <1>10 DEF BootLoadInv, BootCallsChain
  <2> SUFFICES ASSUME NEW k \in 1 .. n
               PROVE  /\ bootCalls'[k].next = 0 => FALSE
                      /\ bootCalls'[k].next > 0 => bootCalls'[k].path \in BootLoaded'
                      /\ k > 1 => /\ bootCalls'[k - 1].next - 1 \in 1 .. Len(imports'[bootCalls'[k - 1].path])
                                  /\ bootCalls'[k].path = imports'[bootCalls'[k - 1].path][bootCalls'[k - 1].next - 1]
    BY <1>6, <2>1, <2>2 DEF BootCallsChain
  <2>3. ASSUME NEW l \in 1 .. n - 1
        PROVE  bootCalls[l].next > 0 /\ bootCalls[l].path \in BootLoaded
    <3>1. l \in 1 .. n /\ l # n
      BY <1>2
    <3>2. bootCalls[l].next \in Nat
      BY <1>2, <3>1 DEF BootFrame
    <3> QED
      BY <1>2, <3>1, <3>2 DEF BootLoadInv, BootCallsChain
  <2>4. k > 1 => /\ bootCalls'[k - 1].next - 1 \in 1 .. Len(imports'[bootCalls'[k - 1].path])
                 /\ bootCalls'[k].path = imports'[bootCalls'[k - 1].path][bootCalls'[k - 1].next - 1]
    <3> SUFFICES ASSUME k > 1
                 PROVE  /\ bootCalls'[k - 1].next - 1 \in 1 .. Len(imports'[bootCalls'[k - 1].path])
                        /\ bootCalls'[k].path = imports'[bootCalls'[k - 1].path][bootCalls'[k - 1].next - 1]
      OBVIOUS
    <3>1. k - 1 \in 1 .. n - 1
      BY <1>2
    <3>2. /\ bootCalls'[k - 1] = bootCalls[k - 1] /\ bootCalls[k - 1].path \in BootLoaded
          /\ imports'[bootCalls[k - 1].path] = imports[bootCalls[k - 1].path]
      BY <1>6, <1>8, <2>3, <3>1
    <3> QED
      BY <1>2, <1>10, <3>2 DEF BootLoadInv, BootCallsChain
  <2>5. CASE k = n
    BY <1>3, <1>6, <1>7, <2>5, <2>4
  <2>6. CASE k \in 1 .. n - 1
    <3>1. bootCalls'[k] = bootCalls[k] /\ bootCalls[k].next > 0 /\ bootCalls[k].path \in BootLoaded /\ bootCalls[k].next \in Nat
      BY <1>2, <1>6, <2>3, <2>6 DEF BootFrame
    <3> QED
      BY <1>7, <3>1, <2>4
  <2> QED
    BY <1>9, <2>5, <2>4, <2>6
<1>13. PassedFinished'
  <2> SUFFICES ASSUME NEW k \in 1 .. n, bootCalls'[k].next > 0,
                      NEW j \in 1 .. Len(imports'[bootCalls'[k].path]), j < bootCalls'[k].next
               PROVE  \/ imports'[bootCalls'[k].path][j] \in Finished \cup {Main}
                      \/ k < n /\ j = bootCalls'[k].next - 1
    BY <1>6, <1>11 DEF PassedFinished
  <2>1. k # n
    BY <1>3, <1>6, <1>8
  <2>2. bootCalls'[k] = bootCalls[k]
    BY <1>9, <2>1
  <2>3. bootCalls[k].path \in BootLoaded
    BY <1>2, <2>2 DEF BootLoadInv, BootCallsChain
  <2>4. imports'[bootCalls[k].path] = imports[bootCalls[k].path]
    BY <1>8, <2>3
  <2> QED
    BY <1>2, <2>2, <2>4 DEF BootLoadInv, PassedFinished
<1>14. \A g \in Finished : imports'[g] = imports[g]
  BY <1>8 DEF Finished
<1>15. FinishedClosed'
  BY <1>11, <1>14 DEF BootLoadInv, FinishedClosed
<1>16. \A g \in BootLoaded : \A h : ImportsIt(g, h)' <=> ImportsIt(g, h)
  BY <1>8 DEF ImportsIt
<1>17. NoFinishedCycle'
  <2>1. CASE MainImported
    BY <1>7, <1>8, <2>1 DEF NoFinishedCycle, MainImported, ImportsIt
  <2>2. CASE \A C \in SUBSET Finished : (\A g \in C : \E h \in C : ImportsIt(g, h)) => C = {}
    <3> SUFFICES ASSUME NEW C \in SUBSET Finished,
                        \A g \in C : \E h \in C : ImportsIt(g, h)'
                 PROVE  C = {}
      BY <1>11, <1>14 DEF NoFinishedCycle, ImportsIt
    <3>1. \A g \in C : g \in BootLoaded
      BY DEF Finished
    <3> QED
      BY <1>16, <2>2, <3>1
  <2> QED
    BY <2>1, <2>2 DEF BootLoadInv, NoFinishedCycle
<1>18. BootModulesNeeded'
  <2>1. Main \in BootLoaded'
    <3>1. CASE bootCalls[1].next = 0
      <4>1. 1 = n
        BY <1>2, <3>1 DEF BootLoadInv, BootCallsChain
      <4> QED
        BY <1>0, <1>1, <1>7, <4>1 DEF BootLoadInv, BootCallsChain
    <3> QED
      BY <1>7, <3>1 DEF BootLoadInv, BootModulesNeeded
  <2>2. ASSUME NEW g \in BootLoaded
        PROVE  g = Main \/ \E h \in BootLoaded' : ImportsIt(h, g)'
    <3>1. g = Main \/ \E h \in BootLoaded : ImportsIt(h, g)
      BY DEF BootLoadInv, BootModulesNeeded
    <3>2. \A h \in BootLoaded : h \in BootLoaded' /\ (ImportsIt(h, g) => ImportsIt(h, g)')
      BY <1>7, <1>8 DEF ImportsIt
    <3> QED
      BY <3>1, <3>2
  <2>3. f = Main \/ \E h \in BootLoaded' : \E j \in 1 .. Len(imports'[h]) : imports'[h][j] = f
    <3>1. CASE n = 1
      BY <1>0, <1>1, <3>1 DEF BootLoadInv, BootCallsChain
    <3>2. CASE n # 1
      <4>1. n - 1 \in 1 .. n /\ n - 1 # n /\ n > 1
        BY <1>2, <3>2
      <4>2. bootCalls[n - 1].next \in Nat
        BY <1>2, <4>1 DEF BootFrame
      <4>3. PICK h \in BootLoaded : h = bootCalls[n - 1].path
        BY <1>2, <4>1, <4>2 DEF BootLoadInv, BootCallsChain
      <4>4. /\ bootCalls[n - 1].next - 1 \in 1 .. Len(imports[h])
            /\ f = imports[h][bootCalls[n - 1].next - 1]
        BY <1>0, <1>2, <4>1, <4>3 DEF BootLoadInv, BootCallsChain
      <4>5. imports'[h] = imports[h] /\ h \in BootLoaded'
        BY <1>7, <1>8
      <4>6. \E j \in 1 .. Len(imports'[h]) : imports'[h][j] = f
        BY <4>4, <4>5
      <4> QED
        BY <4>5, <4>6
    <3> QED
      BY <3>1, <3>2
  <2>4. ASSUME NEW k \in 1 .. L + 1, NEW l \in 1 .. L + 1, bootModules'[k] = bootModules'[l]
        PROVE  k = l
    <3>1. \A m \in 1 .. L : bootModules[m] # f
      BY <1>4, <1>5, BootTyped
    <3>2. \A m \in 1 .. L + 1 : m \in 1 .. L \/ m = L + 1
      BY <1>5
    <3> QED
      BY <1>5, <2>4, <3>1, <3>2 DEF BootLoadInv, BootModulesNeeded
  <2> QED
    BY <1>5, <1>7, <2>1, <2>2, <2>3, <2>4 DEF BootModulesNeeded, ImportsIt
<1> QED
  BY <1>5, <1>6, <1>8, <1>12, <1>13, <1>15, <1>17, <1>18 DEF BootLoadInv

(* What a call that is at an import looks at, and where it goes next.      *)
LEMMA ImportFacts ==
  ASSUME BootTypeOK, BootLoadInv, AtImport
  PROVE  /\ bootCalls # << >> /\ BootCall.path \in BootLoaded /\ BootCall.next > 0
         /\ BootCall.next \in 1 .. Len(imports[BootCall.path])
         /\ Imported = imports[BootCall.path][BootCall.next] /\ Imported \in Files
         /\ NextImport \in Seq(BootFrame) /\ Len(NextImport) = Len(bootCalls)
         /\ \A k \in 1 .. Len(bootCalls) - 1 : NextImport[k] = bootCalls[k]
         /\ NextImport[Len(bootCalls)] = [path |-> BootCall.path, next |-> BootCall.next + 1]
<1> DEFINE n == Len(bootCalls)
           passed == [path |-> BootCall.path, next |-> BootCall.next + 1]
<1>1. bootCalls # << >> /\ BootCall.next > 0 /\ BootCall.next <= Len(imports[BootCall.path])
  BY DEF AtImport
<1>2. /\ bootCalls \in Seq(BootFrame) /\ n \in Nat \ {0} /\ n \in 1 .. n
      /\ bootCalls[n] = BootCall /\ BootCall \in BootFrame
  BY <1>1, BootCallFacts
<1>3. BootCall.path \in BootLoaded
  BY <1>1, <1>2, AllRead DEF BootLoadInv
<1>4. BootCall.next \in 1 .. Len(imports[BootCall.path])
  BY <1>1, <1>2, <1>3, BootTyped DEF BootFrame
<1>5. Imported \in Files
  BY <1>3, <1>4, BootTyped DEF Imported
<1>6. [BootCall EXCEPT !.next = @ + 1] = passed /\ passed \in BootFrame
  BY <1>2 DEF BootFrame
<1>7. NextImport = [bootCalls EXCEPT ![n] = passed]
  BY <1>2, <1>6 DEF NextImport
<1> HIDE DEF passed
<1>8. /\ NextImport \in Seq(BootFrame) /\ Len(NextImport) = n
      /\ \A k \in 1 .. n - 1 : NextImport[k] = bootCalls[k]
      /\ NextImport[n] = passed
  BY <1>2, <1>6, <1>7
<1> QED
  BY <1>1, <1>3, <1>4, <1>5, <1>8 DEF Imported, passed

(* Nothing but the calls changes, and no call is begun or ended by it.     *)
LEMMA OnlyCalls ==
  ASSUME bootModules' = bootModules, imports' = imports, Finished' = Finished, BootModulesNeeded,
         FinishedClosed, NoFinishedCycle, Main \in BootLoaded
  PROVE  FinishedClosed' /\ NoFinishedCycle' /\ BootModulesNeeded'
<1>1. BootLoaded' = BootLoaded
  BY DEF BootLoaded
<1>2. \A f, g : ImportsIt(f, g)' <=> ImportsIt(f, g)
  BY DEF ImportsIt
<1>3. FinishedClosed'
  BY DEF FinishedClosed
<1>4. NoFinishedCycle'
  BY <1>1, <1>2 DEF NoFinishedCycle, MainImported
<1>5. BootModulesNeeded'
  BY <1>1, <1>2 DEF BootModulesNeeded
<1> QED
  BY <1>3, <1>4, <1>5

(* An import that is loaded and not being loaded, or the main module below *)
(* a call, is passed over (bootstrap/__main__.py:41-52).                   *)
LEMMA SkipKeeps ==
  ASSUME BootTypeOK, BootLoadInv, SkipLoaded
  PROVE  BootLoadInv' /\ bootCalls' \in Seq(BootFrame)
<1> DEFINE n == Len(bootCalls)
           f == BootCall.path
           N == BootCall.next
<1>1. /\ AtImport /\ Imported \notin ImportStack /\ Imported \in BootLoaded
      /\ bootCalls' = NextImport /\ bootModules' = bootModules /\ imports' = imports
  BY DEF SkipLoaded
<1>2. /\ bootCalls # << >> /\ f \in BootLoaded /\ N > 0 /\ N \in 1 .. Len(imports[f])
      /\ Imported = imports[f][N]
      /\ bootCalls' \in Seq(BootFrame) /\ Len(bootCalls') = n
      /\ \A k \in 1 .. n - 1 : bootCalls'[k] = bootCalls[k]
      /\ bootCalls'[n] = [path |-> f, next |-> N + 1]
  BY <1>1, ImportFacts
<1>3. /\ n \in Nat \ {0} /\ n \in 1 .. n /\ bootCalls[n] = BootCall /\ N \in Nat /\ n = Len(bootCalls)
      /\ f = bootCalls[n].path /\ N = bootCalls[n].next
      /\ \A k \in 1 .. n : bootCalls[k] \in BootFrame
  BY <1>2, BootCallFacts DEF BootFrame
<1>4. \A k \in 1 .. n : bootCalls[k].next > 0 /\ bootCalls[k].path \in BootLoaded
  BY <1>2, AllRead DEF BootLoadInv
<1>5. bootCalls'[n].path = f /\ bootCalls'[n].next = N + 1 /\ BootLoaded' = BootLoaded
  BY <1>1, <1>2 DEF BootLoaded
<1> HIDE DEF n, f, N
<1>6. \A k \in 1 .. n : k = n \/ (k \in 1 .. n - 1 /\ bootCalls'[k] = bootCalls[k])
  BY <1>2, <1>3
<1>7. \A k \in 1 .. n : bootCalls'[k].path = bootCalls[k].path
  BY <1>3, <1>5, <1>6
<1>8. Finished' = Finished
  <2>1. Len(bootCalls') = n /\ n = Len(bootCalls)
    BY <1>2, <1>3
  <2>2. {bootCalls'[k].path : k \in 1 .. n} = {bootCalls[k].path : k \in 1 .. n}
    BY <1>7
  <2>3. InProgress' = InProgress
    BY <2>1, <2>2 DEF InProgress
  <2> QED
    BY <1>5, <2>3 DEF Finished
<1>9. BootCallsChain'
  <2>1. bootCalls'[1].path = Main /\ \A k, l \in 1 .. n : bootCalls'[k].path = bootCalls'[l].path => k = l
    <3>1. 1 \in 1 .. n
      BY <1>3
    <3> QED
      BY <1>2, <1>3, <1>7, <3>1 DEF BootLoadInv, BootCallsChain
  <2>2. ASSUME NEW k \in 1 .. n
        PROVE  /\ bootCalls'[k].next # 0 /\ bootCalls'[k].path \in BootLoaded
               /\ k > 1 => /\ bootCalls'[k - 1].next - 1 \in 1 .. Len(imports[bootCalls'[k - 1].path])
                           /\ bootCalls'[k].path = imports[bootCalls'[k - 1].path][bootCalls'[k - 1].next - 1]
    <3>1. bootCalls'[k].next # 0 /\ bootCalls'[k].path \in BootLoaded
      <4>1. bootCalls[k].next \in Nat
        BY <1>3 DEF BootFrame
      <4> QED
        BY <1>2, <1>3, <1>4, <1>5, <1>6, <4>1
    <3>2. k > 1 => k - 1 \in 1 .. n - 1 /\ bootCalls'[k - 1] = bootCalls[k - 1]
      BY <1>2, <1>3
    <3> QED
      BY <1>3, <1>7, <3>1, <3>2 DEF BootLoadInv, BootCallsChain
  <2> QED
    BY <1>1, <1>2, <1>5, <2>1, <2>2 DEF BootCallsChain
<1>10. Imported \in Finished \cup {Main}
  <2> SUFFICES ASSUME NEW k \in 1 .. n, Imported = bootCalls[k].path
               PROVE  Imported = Main
    BY <1>1, <1>3 DEF Finished, InProgress
  <2>1. ~ (k \in 2 .. n)
    BY <1>1, <1>3 DEF ImportStack
  <2>2. k = 1
    BY <1>3, <2>1
  <2> QED
    BY <1>2, <2>2 DEF BootLoadInv, BootCallsChain
<1>11. PassedFinished'
  <2> SUFFICES ASSUME NEW k \in 1 .. n, bootCalls'[k].next > 0,
                      NEW j \in 1 .. Len(imports[bootCalls'[k].path]), j < bootCalls'[k].next
               PROVE  \/ imports[bootCalls'[k].path][j] \in Finished \cup {Main}
                      \/ k < n /\ j = bootCalls'[k].next - 1
    BY <1>1, <1>2, <1>8 DEF PassedFinished
  <2>1. CASE k = n
    <3>1. j = N \/ j < N
      BY <1>3, <1>5, <2>1
    <3>2. CASE j = N
      BY <1>2, <1>5, <1>10, <2>1, <3>2
    <3>3. CASE j < N
      <4>1. /\ n \in 1 .. Len(bootCalls) /\ ~ (n < Len(bootCalls)) /\ bootCalls[n].next > 0
            /\ bootCalls'[k].path = bootCalls[n].path
            /\ j \in 1 .. Len(imports[bootCalls[n].path]) /\ j < bootCalls[n].next
        BY <1>3, <1>4, <1>5, <2>1, <3>3
      <4>2. PassedFinished
        BY <1>2 DEF BootLoadInv
      <4>3. imports[bootCalls[n].path][j] \in Finished \cup {Main}
        BY ONLY <4>1, <4>2 DEF PassedFinished
      <4> QED
        BY ONLY <4>1, <4>3
    <3> QED
      BY <3>1, <3>2, <3>3
  <2>2. CASE bootCalls'[k] = bootCalls[k]
    BY <1>3, <2>2 DEF BootLoadInv, PassedFinished
  <2> QED
    BY <1>6, <2>1, <2>2
<1>12. Main \in BootLoaded
  <2>1. 1 \in 1 .. n
    BY <1>3
  <2> QED
    BY <1>2, <1>4, <2>1 DEF BootLoadInv, BootCallsChain
<1>13. FinishedClosed' /\ NoFinishedCycle' /\ BootModulesNeeded'
  BY <1>1, <1>8, <1>12, OnlyCalls DEF BootLoadInv
<1> QED
  BY <1>2, <1>9, <1>11, <1>13 DEF BootLoadInv

(* An import that is not loaded gets a call of its own                     *)
(* (bootstrap/__main__.py:53-59).                                          *)
LEMMA BootLoadImportKeeps ==
  ASSUME BootTypeOK, BootLoadInv, BootLoadImport
  PROVE  BootLoadInv' /\ bootCalls' \in Seq(BootFrame)
<1> DEFINE n == Len(bootCalls)
           f == BootCall.path
           N == BootCall.next
           g == Imported
           frame == [path |-> g, next |-> 0]
<1>1. /\ AtImport /\ Imported \notin BootLoaded
      /\ bootCalls' = Append(NextImport, frame) /\ bootModules' = bootModules /\ imports' = imports
  BY DEF BootLoadImport
<1>2. /\ bootCalls # << >> /\ f \in BootLoaded /\ N > 0 /\ N \in 1 .. Len(imports[f])
      /\ g = imports[f][N] /\ g \in Files
      /\ NextImport \in Seq(BootFrame) /\ Len(NextImport) = n
      /\ \A k \in 1 .. n - 1 : NextImport[k] = bootCalls[k]
      /\ NextImport[n] = [path |-> f, next |-> N + 1]
  BY <1>1, ImportFacts
<1>3. /\ n \in Nat \ {0} /\ n \in 1 .. n /\ bootCalls[n] = BootCall /\ N \in Nat /\ n = Len(bootCalls)
      /\ f = bootCalls[n].path /\ N = bootCalls[n].next
      /\ \A k \in 1 .. n : bootCalls[k] \in BootFrame
  BY <1>2, BootCallFacts DEF BootFrame
<1>4. \A k \in 1 .. n : bootCalls[k].next > 0 /\ bootCalls[k].path \in BootLoaded
  BY <1>2, AllRead DEF BootLoadInv
<1>5. frame \in BootFrame /\ frame.path = g /\ frame.next = 0 /\ g \notin BootLoaded
  BY <1>1, <1>2 DEF BootFrame
<1>6. /\ bootCalls' \in Seq(BootFrame) /\ Len(bootCalls') = n + 1
      /\ \A k \in 1 .. n : bootCalls'[k] = NextImport[k]
      /\ bootCalls'[n + 1] = frame
  BY <1>1, <1>2, <1>5, AppendProperties
<1>7. /\ \A k \in 1 .. n - 1 : bootCalls'[k] = bootCalls[k]
      /\ bootCalls'[n].path = f /\ bootCalls'[n].next = N + 1
      /\ bootCalls'[n + 1].path = g /\ bootCalls'[n + 1].next = 0
      /\ BootLoaded' = BootLoaded
  BY <1>1, <1>2, <1>3, <1>5, <1>6 DEF BootLoaded
<1> HIDE DEF n, f, N, g, frame
<1>8. /\ \A k \in 1 .. n + 1 : k \in 1 .. n - 1 \/ k = n \/ k = n + 1
      /\ 1 .. n + 1 = (1 .. n) \cup {n + 1}
  BY <1>3
<1>9. \A k \in 1 .. n : bootCalls'[k].path = bootCalls[k].path
  BY <1>3, <1>7
<1>10. Finished' = Finished
  <2>1. InProgress' = {bootCalls'[k].path : k \in 1 .. n + 1}
    BY <1>6 DEF InProgress
  <2>0. InProgress = {bootCalls[k].path : k \in 1 .. n}
    BY <1>3 DEF InProgress
  <2>2. InProgress' = InProgress \cup {g}
    <3>1. InProgress' = {bootCalls'[k].path : k \in 1 .. n} \cup {bootCalls'[n + 1].path}
      BY <1>8, <2>1
    <3>2. {bootCalls'[k].path : k \in 1 .. n} = {bootCalls[k].path : k \in 1 .. n}
      BY <1>9
    <3> QED
      BY <1>7, <2>0, <3>1, <3>2
  <2> QED
    BY <1>5, <1>7, <2>2 DEF Finished
<1>11. bootCalls'[1].path = Main /\ Main \in BootLoaded
  <2>1. 1 \in 1 .. n
    BY <1>3
  <2> QED
    BY <1>2, <1>4, <1>9, <2>1 DEF BootLoadInv, BootCallsChain
<1>12. BootCallsChain'
  <2>1. ASSUME NEW k \in 1 .. n + 1, NEW l \in 1 .. n + 1, bootCalls'[k].path = bootCalls'[l].path
        PROVE  k = l
    <3>1. \A m \in 1 .. n : bootCalls'[m].path # g
      BY <1>4, <1>5, <1>9
    <3>2. (k \in 1 .. n \/ k = n + 1) /\ (l \in 1 .. n \/ l = n + 1)
      BY <1>8
    <3> QED
      BY <1>3, <1>7, <1>9, <2>1, <3>1, <3>2 DEF BootLoadInv, BootCallsChain
  <2>2. ASSUME NEW k \in 1 .. n
        PROVE  /\ bootCalls'[k].next # 0 /\ bootCalls'[k].path \in BootLoaded
               /\ k > 1 => /\ bootCalls'[k - 1].next - 1 \in 1 .. Len(imports[bootCalls'[k - 1].path])
                           /\ bootCalls'[k].path = imports[bootCalls'[k - 1].path][bootCalls'[k - 1].next - 1]
    <3>1. bootCalls'[k].next # 0 /\ bootCalls'[k].path \in BootLoaded
      <4>1. k = n \/ k \in 1 .. n - 1
        BY <1>3
      <4>2. bootCalls[k].next \in Nat
        BY <1>3 DEF BootFrame
      <4>3. bootCalls[k].next > 0 /\ bootCalls[k].path \in BootLoaded
        BY <1>4
      <4>4. bootCalls'[k].path \in BootLoaded
        BY <1>9, <4>3
      <4>5. CASE k = n
        BY <1>3, <1>7, <4>4, <4>5
      <4>6. CASE k \in 1 .. n - 1
        BY <1>7, <4>2, <4>3, <4>4, <4>6
      <4> QED
        BY <4>1, <4>5, <4>6
    <3>2. k > 1 => k - 1 \in 1 .. n - 1 /\ bootCalls'[k - 1] = bootCalls[k - 1]
      BY <1>3, <1>7
    <3> QED
      BY <1>3, <1>9, <3>1, <3>2 DEF BootLoadInv, BootCallsChain
  <2>3. ASSUME NEW k \in 1 .. n + 1, k = n + 1
        PROVE  /\ bootCalls'[k - 1].next - 1 \in 1 .. Len(imports[bootCalls'[k - 1].path])
               /\ bootCalls'[k].path = imports[bootCalls'[k - 1].path][bootCalls'[k - 1].next - 1]
    <3>1. k - 1 = n
      BY <1>3, <2>3
    <3>2. bootCalls'[k - 1].path = f /\ bootCalls'[k - 1].next - 1 = N
      <4>1. bootCalls'[n].path = f /\ bootCalls'[n].next = N + 1
        BY <1>7
      <4>2. bootCalls'[k - 1] = bootCalls'[n]
        BY <3>1
      <4>3. N \in Nat
        BY <1>3
      <4> QED
        BY <4>1, <4>2, <4>3
    <3>3. bootCalls'[k].path = imports[f][N] /\ N \in 1 .. Len(imports[f])
      BY <1>2, <1>7, <2>3
    <3> QED
      BY <3>2, <3>3
  <2>4. ASSUME NEW k \in 1 .. n + 1
        PROVE  /\ bootCalls'[k].next = 0 => k = n + 1 /\ bootCalls'[k].path \notin BootLoaded
               /\ bootCalls'[k].next > 0 => bootCalls'[k].path \in BootLoaded
               /\ k > 1 => /\ bootCalls'[k - 1].next - 1 \in 1 .. Len(imports[bootCalls'[k - 1].path])
                           /\ bootCalls'[k].path = imports[bootCalls'[k - 1].path][bootCalls'[k - 1].next - 1]
    <3>1. CASE k \in 1 .. n
      BY <2>2, <3>1
    <3>2. CASE k = n + 1
      BY <1>5, <1>7, <2>3, <3>2
    <3> QED
      BY <1>8, <3>1, <3>2
  <2> QED
    BY <1>1, <1>6, <1>7, <1>11, <2>1, <2>4 DEF BootCallsChain
<1>13. PassedFinished'
  <2> SUFFICES ASSUME NEW k \in 1 .. n + 1, bootCalls'[k].next > 0,
                      NEW j \in 1 .. Len(imports[bootCalls'[k].path]), j < bootCalls'[k].next
               PROVE  \/ imports[bootCalls'[k].path][j] \in Finished \cup {Main}
                      \/ k < n + 1 /\ j = bootCalls'[k].next - 1
    <3>1. Len(bootCalls') = n + 1 /\ imports' = imports /\ Finished' = Finished
      BY <1>1, <1>6, <1>10
    <3> QED
      BY <3>1 DEF PassedFinished
  <2>1. CASE k = n
    <3>0. j < N + 1 /\ j \in Nat /\ N \in Nat
      BY <1>3, <1>7, <2>1
    <3>1. j = N \/ j < N
      BY <3>0
    <3>2. CASE j = N
      <4>1. bootCalls'[k].next = N + 1 /\ n \in Nat
        BY <1>3, <1>7, <2>1
      <4> QED
        BY <2>1, <3>0, <3>2, <4>1
    <3>3. CASE j < N
      BY <1>2, <1>3, <1>7, <2>1, <3>3 DEF BootLoadInv, PassedFinished
    <3> QED
      BY <3>1, <3>2, <3>3
  <2>2. CASE k \in 1 .. n - 1
    <3>1. bootCalls'[k] = bootCalls[k] /\ k \in 1 .. n /\ k < n + 1
      BY <1>3, <1>7, <2>2
    <3> QED
      BY <1>3, <3>1 DEF BootLoadInv, PassedFinished
  <2>3. CASE k = n + 1
    BY <1>7, <2>3
  <2> QED
    BY <1>8, <2>1, <2>2, <2>3
<1>14. FinishedClosed' /\ NoFinishedCycle' /\ BootModulesNeeded'
  BY <1>1, <1>10, <1>11, OnlyCalls DEF BootLoadInv
<1> QED
  BY <1>6, <1>12, <1>13, <1>14 DEF BootLoadInv

(* A call whose imports are all loaded returns (bootstrap/__main__.py:     *)
(* 41-59).  A circle of finished modules it could close would have to go   *)
(* through its own module, which none of the finished ones imports.        *)
LEMMA BootReturnKeeps ==
  ASSUME BootTypeOK, BootLoadInv, BootImportsLoaded
  PROVE  BootLoadInv' /\ bootCalls' \in Seq(BootFrame)
<1> DEFINE n == Len(bootCalls)
           f == BootCall.path
           N == BootCall.next
<1>1. /\ bootCalls # << >> /\ N > 0 /\ N > Len(imports[f])
      /\ bootCalls' = Front(bootCalls) /\ bootModules' = bootModules /\ imports' = imports
  BY DEF BootImportsLoaded
<1>2. /\ bootCalls' \in Seq(BootFrame) /\ Len(bootCalls') = n - 1 /\ n = Len(bootCalls)
      /\ \A k \in 1 .. n - 1 : bootCalls'[k] = bootCalls[k]
      /\ n \in Nat \ {0} /\ n \in 1 .. n /\ N \in Nat
      /\ f = bootCalls[n].path /\ N = bootCalls[n].next
      /\ \A k \in 1 .. n : bootCalls[k] \in BootFrame
  BY <1>1, BootCallFacts DEF BootFrame
<1>3. \A k \in 1 .. n : bootCalls[k].next > 0 /\ bootCalls[k].path \in BootLoaded
  BY <1>1, AllRead DEF BootLoadInv
<1>4. f \in BootLoaded /\ BootLoaded' = BootLoaded /\ Len(imports[f]) \in Nat
  BY <1>1, <1>2, <1>3, BootTyped DEF BootLoaded
<1>5. Main \in BootLoaded
  <2>1. 1 \in 1 .. n
    BY <1>2
  <2> QED
    BY <1>1, <1>3, <2>1 DEF BootLoadInv, BootCallsChain
<1>6. PICK F \in BootLoaded : F = f
  BY <1>4
<1> HIDE DEF n, f, N
<1>7. Finished' = Finished \cup {F} /\ F \notin Finished /\ F \in BootLoaded
  <2>1. \A k \in 1 .. n : bootCalls[k].path = f => k = n
    BY <1>2 DEF BootLoadInv, BootCallsChain
  <2>2. \A k \in 1 .. n : k = n \/ k \in 1 .. n - 1
    BY <1>2
  <2>3. InProgress' = {bootCalls'[k].path : k \in 1 .. n - 1}
    BY <1>2 DEF InProgress
  <2>4. \A k \in 1 .. n - 1 : k \in 1 .. n /\ k # n
    BY <1>2
  <2>5. InProgress = {bootCalls[k].path : k \in 1 .. n}
    BY <1>2 DEF InProgress
  <2>6. InProgress' = InProgress \ {f} /\ f \in InProgress
    <3>1. {bootCalls'[k].path : k \in 1 .. n - 1} = {bootCalls[k].path : k \in 1 .. n - 1}
      BY <1>2
    <3>2. {bootCalls[k].path : k \in 1 .. n - 1} = InProgress \ {f}
      BY <1>2, <2>1, <2>2, <2>4, <2>5
    <3>3. f \in InProgress
      BY <1>2, <2>5
    <3> QED
      BY <2>3, <3>1, <3>2, <3>3
  <2> QED
    BY <1>4, <1>6, <2>6 DEF Finished
<1>8. BootCallsChain'
  <2>1. bootCalls' # << >> => bootCalls'[1].path = Main
    <3> SUFFICES ASSUME bootCalls' # << >> PROVE bootCalls'[1].path = Main
      OBVIOUS
    <3>1. 1 \in 1 .. n - 1
      BY <1>2
    <3> QED
      BY <1>1, <1>2, <3>1 DEF BootLoadInv, BootCallsChain
  <2>2. ASSUME NEW k \in 1 .. n - 1
        PROVE  /\ bootCalls'[k] = bootCalls[k] /\ k \in 1 .. n
               /\ bootCalls[k].next # 0 /\ bootCalls[k].path \in BootLoaded
               /\ k > 1 => k - 1 \in 1 .. n - 1 /\ bootCalls'[k - 1] = bootCalls[k - 1]
    <3>1. k \in 1 .. n
      BY <1>2
    <3>2. bootCalls[k].next \in Nat /\ bootCalls[k].next > 0 /\ bootCalls[k].path \in BootLoaded
      BY <1>2, <1>3, <3>1 DEF BootFrame
    <3> QED
      BY <1>2, <3>1, <3>2
  <2>3. ASSUME NEW k \in 1 .. n - 1
        PROVE  k > 1 => /\ bootCalls'[k - 1].next - 1 \in 1 .. Len(imports[bootCalls'[k - 1].path])
                        /\ bootCalls'[k].path = imports[bootCalls'[k - 1].path][bootCalls'[k - 1].next - 1]
    BY <1>2, <2>2 DEF BootLoadInv, BootCallsChain
  <2>4. \A k, l \in 1 .. n - 1 : bootCalls'[k].path = bootCalls'[l].path => k = l
    BY <1>2, <2>2 DEF BootLoadInv, BootCallsChain
  <2> QED
    BY <1>1, <1>2, <1>4, <2>1, <2>2, <2>3, <2>4 DEF BootCallsChain
<1>9. PassedFinished'
  <2> SUFFICES ASSUME NEW k \in 1 .. n - 1, bootCalls'[k].next > 0,
                      NEW j \in 1 .. Len(imports[bootCalls'[k].path]), j < bootCalls'[k].next
               PROVE  \/ imports[bootCalls'[k].path][j] \in Finished \cup {F} \cup {Main}
                      \/ k < n - 1 /\ j = bootCalls'[k].next - 1
    <3>1. Len(bootCalls') = n - 1 /\ imports' = imports /\ Finished' = Finished \cup {F}
      BY <1>1, <1>2, <1>7
    <3> QED
      BY <3>1 DEF PassedFinished
  <2>1. bootCalls'[k] = bootCalls[k] /\ k \in 1 .. n
    BY <1>2
  <2>2. \/ imports[bootCalls[k].path][j] \in Finished \cup {Main}
        \/ k < n /\ j = bootCalls[k].next - 1
    BY <1>2, <2>1 DEF BootLoadInv, PassedFinished
  <2>3. CASE k = n - 1 /\ j = bootCalls[k].next - 1
    <3>1. n > 1 /\ k = n - 1
      BY <1>2, <2>3
    <3>2. f = imports[bootCalls[n - 1].path][bootCalls[n - 1].next - 1]
      BY <1>2, <3>1 DEF BootLoadInv, BootCallsChain
    <3> QED
      BY <1>6, <2>1, <2>3, <3>2
  <2> QED
    BY <1>2, <2>1, <2>2, <2>3
<1>10. \A j \in 1 .. Len(imports[F]) : imports[F][j] \in Finished \cup {Main}
  <2> SUFFICES ASSUME NEW j \in 1 .. Len(imports[F])
               PROVE  imports[F][j] \in Finished \cup {Main}
    OBVIOUS
  <2>1. j < N
    BY <1>1, <1>2, <1>4, <1>6
  <2>2. ~ (n < n)
    BY <1>2
  <2> QED
    BY <1>1, <1>2, <1>6, <2>1, <2>2 DEF BootLoadInv, PassedFinished
<1>11. FinishedClosed'
  <2>1. \A g \in Finished : \A j \in 1 .. Len(imports[g]) : imports[g][j] \in Finished \cup {Main}
    BY DEF BootLoadInv, FinishedClosed
  <2>2. \A g \in Finished \cup {F} : \A j \in 1 .. Len(imports[g]) :
          imports[g][j] \in Finished \cup {F} \cup {Main}
    BY <1>10, <2>1
  <2> QED
    BY <1>1, <1>7, <2>2 DEF FinishedClosed
<1>12. \A g, h : ImportsIt(g, h)' <=> ImportsIt(g, h)
  BY <1>1 DEF ImportsIt
<1>13. NoFinishedCycle'
  <2>1. MainImported' <=> MainImported
    BY <1>4, <1>12 DEF MainImported
  <2> SUFFICES ASSUME ~ MainImported, NEW C \in SUBSET (Finished \cup {F}),
                      \A g \in C : \E h \in C : ImportsIt(g, h)
               PROVE  C = {}
    BY <1>7, <1>12, <2>1 DEF NoFinishedCycle
  <2>2. ASSUME NEW g \in Finished \cup {F}
        PROVE  ~ ImportsIt(g, F)
    <3> SUFFICES ASSUME ImportsIt(g, F) PROVE FALSE
      OBVIOUS
    <3>1. PICK j \in 1 .. Len(imports[g]) : imports[g][j] = F
      BY DEF ImportsIt
    <3>2. F \in Finished \cup {Main}
      BY <1>10, <3>1 DEF BootLoadInv, FinishedClosed
    <3>3. F = Main /\ g \in BootLoaded
      BY <1>7, <3>2 DEF Finished
    <3> QED
      BY <3>3 DEF MainImported
  <2> DEFINE D == C \ {F}
  <2>3. D \in SUBSET Finished /\ \A g \in D : \E h \in D : ImportsIt(g, h)
    BY <2>2
  <2>4. D = {}
    BY <2>3 DEF BootLoadInv, NoFinishedCycle
  <2> QED
    BY <2>2, <2>4
<1>14. BootModulesNeeded'
  <2>1. \A g \in BootLoaded : g = Main \/ \E h \in BootLoaded : ImportsIt(h, g)'
    BY <1>12 DEF BootLoadInv, BootModulesNeeded
  <2> QED
    BY <1>1, <1>4, <1>5, <2>1 DEF BootLoadInv, BootModulesNeeded
<1> QED
  BY <1>2, <1>8, <1>9, <1>11, <1>13, <1>14 DEF BootLoadInv

(* An import that is being loaded imports, by way of the calls above its   *)
(* own, itself (bootstrap/__main__.py:46-50).                              *)
LEMMA ReportedIsCycle ==
  ASSUME BootTypeOK, BootLoadInv, ReportCycle
  PROVE  Cyclic
<1> DEFINE n == Len(bootCalls)
<1>1. AtImport /\ Imported \in ImportStack
  BY DEF ReportCycle
<1>2. /\ bootCalls # << >> /\ BootCall.next > 0 /\ BootCall.next \in 1 .. Len(imports[BootCall.path])
      /\ Imported = imports[BootCall.path][BootCall.next]
  BY <1>1, ImportFacts
<1>3. n \in Nat \ {0} /\ BootCall = bootCalls[n] /\ n = Len(bootCalls)
  BY <1>2, BootCallFacts
<1>4. \A k \in 1 .. n : bootCalls[k].path \in BootLoaded
  BY <1>2, AllRead DEF BootLoadInv
<1> HIDE DEF n
<1>5. PICK m \in 2 .. n : Imported = bootCalls[m].path
  BY <1>1, <1>3 DEF ImportStack
<1> DEFINE C == {bootCalls[k].path : k \in m .. n}
<1>6. C \in SUBSET BootLoaded
  BY <1>3, <1>4, <1>5
<1>7. bootCalls[m].path \in C
  BY <1>3, <1>5
<1>8. ASSUME NEW k \in m .. n
      PROVE  \E g \in C : ImportsIt(bootCalls[k].path, g)
  <2>1. CASE k = n
    BY <1>2, <1>3, <1>5, <1>7, <2>1 DEF ImportsIt
  <2>2. CASE k # n
    <3>1. k + 1 \in 1 .. n /\ k + 1 \in m .. n /\ k + 1 > 1 /\ k + 1 - 1 = k
      BY <1>3, <1>5, <2>2
    <3>2. /\ bootCalls[k].next - 1 \in 1 .. Len(imports[bootCalls[k].path])
          /\ bootCalls[k + 1].path = imports[bootCalls[k].path][bootCalls[k].next - 1]
      BY <1>3, <3>1 DEF BootLoadInv, BootCallsChain
    <3> QED
      BY <3>1, <3>2 DEF ImportsIt
  <2> QED
    BY <2>1, <2>2
<1>9. \A f \in C : \E g \in C : g \in ToSet(imports[f])
  BY <1>6, <1>8, BootTyped
<1> QED
  BY <1>6, <1>7, <1>9 DEF Cyclic

(* The ordering is not touched while modules are loaded.                   *)
LEMMA BootWhileLoading ==
  ASSUME BootTypeOK, bootPhase \notin {"ordering", "done"}, UNCHANGED bootOrderVars,
         bootPhase' \in {"loading", "failed", "cycle"}, bootPhase' = "cycle" => Cyclic',
         BootLoadInv', bootCalls' \in Seq(BootFrame),
         bootModules' \in Seq(Files), imports' \in [BootLoaded' -> Seq(Files)]
  PROVE  BootIInv'
<1>1. bootUnprocessed' = bootUnprocessed /\ bootOrdered' = bootOrdered /\ bootI' = bootI
  BY DEF bootOrderVars
<1>2. BootTypeOK'
  BY <1>1 DEF BootTypeOK, BootFrame
<1>3. BootOrderInv'
  BY DEF BootOrderInv
<1> QED
  BY <1>2, <1>3 DEF BootIInv

-----------------------------------------------------------------------------
(* Ordering.                                                               *)

(* What is known of the loaded modules stays known while they are ordered. *)
LEMMA BootLoadedStays ==
  ASSUME BootTypeOK, BootLoadInv, UNCHANGED bootLoadVars
  PROVE  /\ BootLoadInv' /\ bootCalls' = bootCalls /\ bootModules' = bootModules /\ imports' = imports
         /\ BootLoaded' = BootLoaded /\ (Cyclic => Cyclic')
         /\ bootCalls' \in Seq(BootFrame) /\ bootModules' \in Seq(Files)
         /\ imports' \in [BootLoaded' -> Seq(Files)]
<1>1. bootCalls' = bootCalls /\ bootModules' = bootModules /\ imports' = imports
  BY DEF bootLoadVars
<1>2. BootLoaded' = BootLoaded
  BY <1>1 DEF BootLoaded
<1>3. Finished' = Finished
  BY <1>1, <1>2 DEF Finished, InProgress
<1>4. \A f, g : ImportsIt(f, g)' <=> ImportsIt(f, g)
  BY <1>1 DEF ImportsIt
<1>5. BootCallsChain'
  BY <1>1, <1>2 DEF BootLoadInv, BootCallsChain
<1>6. PassedFinished' /\ FinishedClosed'
  BY <1>1, <1>3 DEF BootLoadInv, PassedFinished, FinishedClosed
<1>7. NoFinishedCycle'
  BY <1>2, <1>3, <1>4 DEF BootLoadInv, NoFinishedCycle, MainImported
<1>8. BootModulesNeeded'
  BY <1>1, <1>2, <1>4 DEF BootLoadInv, BootModulesNeeded
<1>9. Cyclic => Cyclic'
  BY <1>1, <1>2 DEF Cyclic
<1>10. /\ bootCalls' \in Seq(BootFrame) /\ bootModules' \in Seq(Files)
       /\ imports' \in [BootLoaded' -> Seq(Files)]
  BY <1>1, <1>2 DEF BootTypeOK, BootFrame
<1> QED
  BY <1>1, <1>2, <1>5, <1>6, <1>7, <1>8, <1>9, <1>10 DEF BootLoadInv

(* All modules are unprocessed at first (bootstrap/__main__.py:61-63).     *)
LEMMA BootStartKeeps ==
  ASSUME BootIInv, BootStartOrdering
  PROVE  BootIInv'
<1>1. /\ bootCalls = << >> /\ bootPhase' = "ordering"
      /\ bootUnprocessed' = bootModules /\ bootOrdered' = << >> /\ bootI' = 1
  BY DEF BootStartOrdering
<1>2. /\ BootLoadInv' /\ bootCalls' = bootCalls /\ bootModules' = bootModules /\ imports' = imports
      /\ BootLoaded' = BootLoaded /\ bootCalls' \in Seq(BootFrame) /\ bootModules' \in Seq(Files)
      /\ imports' \in [BootLoaded' -> Seq(Files)]
  BY BootLoadedStays DEF BootIInv, BootStartOrdering
<1>3. /\ bootModules \in Seq(Files) /\ Len(bootModules) \in Nat
      /\ BootLoaded = {bootModules[k] : k \in 1 .. Len(bootModules)}
  BY BootTyped DEF BootIInv
<1>4. BootTypeOK'
  BY <1>1, <1>2, <1>3 DEF BootTypeOK, BootFrame
<1>5. Len(bootOrdered') = 0
  BY <1>1
<1>6. BootPartition'
  BY <1>1, <1>2, <1>3, <1>5 DEF BootIInv, BootLoadInv, BootModulesNeeded, BootPartition
<1>7. BootImportsFirst'
  BY <1>5 DEF BootImportsFirst
<1> QED
  BY <1>1, <1>2, <1>4, <1>6, <1>7 DEF BootIInv, BootOrderInv

(* A module all of whose imports are ordered moves from the one list to    *)
(* the end of the other (bootstrap/__main__.py:67-81).                     *)
LEMMA BootOrderKeeps ==
  ASSUME BootIInv, BootOrder
  PROVE  BootIInv'
<1> DEFINE U == Len(bootUnprocessed)
           R == Len(bootOrdered)
           m0 == bootUnprocessed[bootI]
<1>1. /\ bootPhase = "ordering" /\ bootPhase' = "ordering" /\ bootI <= U /\ BootReady(m0)
      /\ bootOrdered' = Append(bootOrdered, m0)
      /\ bootUnprocessed' = RemoveAt(bootUnprocessed, bootI) /\ bootI' = bootI
  BY DEF BootOrder, BootVisiting
<1>2. /\ BootLoadInv' /\ bootCalls' = bootCalls /\ bootModules' = bootModules /\ imports' = imports
      /\ BootLoaded' = BootLoaded /\ bootCalls' \in Seq(BootFrame) /\ bootModules' \in Seq(Files)
      /\ imports' \in [BootLoaded' -> Seq(Files)]
  BY BootLoadedStays DEF BootIInv, BootOrder, BootVisiting
<1>3. /\ bootUnprocessed \in Seq(Files) /\ bootOrdered \in Seq(Files)
      /\ U \in Nat /\ R \in Nat /\ bootI \in 1 .. U /\ m0 \in Files
  <2>1. bootUnprocessed \in Seq(Files) /\ bootOrdered \in Seq(Files) /\ bootI \in 1 .. U + 1
    BY DEF BootIInv, BootTypeOK
  <2>2. U \in Nat /\ R \in Nat /\ bootI \in 1 .. U
    BY <1>1, <2>1
  <2> QED
    BY <2>1, <2>2
<1>4. bootCalls = << >> /\ BootPartition /\ BootImportsFirst
  BY <1>1 DEF BootIInv, BootOrderInv
<1>5. /\ bootUnprocessed' \in Seq(Files) /\ Len(bootUnprocessed') = U - 1
      /\ \A k \in 1 .. U - 1 :
           bootUnprocessed'[k] = IF k < bootI THEN bootUnprocessed[k] ELSE bootUnprocessed[k + 1]
  BY <1>1, <1>3, ElementRemoved DEF RemoveAt
<1>6. /\ bootOrdered' \in Seq(Files) /\ Len(bootOrdered') = R + 1
      /\ \A k \in 1 .. R : bootOrdered'[k] = bootOrdered[k]
      /\ bootOrdered'[R + 1] = m0
  BY <1>1, <1>3, AppendProperties
<1>7. BootTypeOK'
  <2>1. bootI' \in 1 .. Len(bootUnprocessed') + 1
    BY <1>1, <1>3, <1>5
  <2> QED
    BY <1>1, <1>2, <1>5, <1>6, <2>1 DEF BootTypeOK, BootFrame
<1>0. U = Len(bootUnprocessed) /\ R = Len(bootOrdered) /\ m0 = bootUnprocessed[bootI] /\ m0 \in BootLoaded
  BY <1>3, <1>4 DEF BootPartition
<1> HIDE DEF U, R, m0
<1>8. ASSUME NEW k \in 1 .. U - 1
      PROVE  \E l \in 1 .. U : /\ bootUnprocessed'[k] = bootUnprocessed[l] /\ l # bootI
                               /\ l = IF k < bootI THEN k ELSE k + 1
  <2>1. CASE k < bootI
    <3>1. k \in 1 .. U /\ k # bootI /\ bootUnprocessed'[k] = bootUnprocessed[k]
      BY <1>3, <1>5, <2>1
    <3> QED
      BY <2>1, <3>1
  <2>2. CASE ~ (k < bootI)
    <3>1. k + 1 \in 1 .. U /\ k + 1 # bootI /\ bootUnprocessed'[k] = bootUnprocessed[k + 1]
      BY <1>3, <1>5, <2>2
    <3> QED
      BY <2>2, <3>1
  <2> QED
    BY <2>1, <2>2
<1>9. \A k \in 1 .. R + 1 : k \in 1 .. R \/ k = R + 1
  BY <1>3
<1>10. BootPartition'
  <2>1. ASSUME NEW k \in 1 .. U - 1, NEW l \in 1 .. U - 1,
               bootUnprocessed'[k] = bootUnprocessed'[l]
        PROVE  k = l
    <3>1. PICK x \in 1 .. U : /\ bootUnprocessed'[k] = bootUnprocessed[x]
                              /\ x = IF k < bootI THEN k ELSE k + 1
      BY <1>8
    <3>2. PICK y \in 1 .. U : /\ bootUnprocessed'[l] = bootUnprocessed[y]
                              /\ y = IF l < bootI THEN l ELSE l + 1
      BY <1>8
    <3>3. x = y
      <4>1. \A v, z \in 1 .. U : bootUnprocessed[v] = bootUnprocessed[z] => v = z
        BY <1>0, <1>4 DEF BootPartition
      <4> QED
        BY <2>1, <3>1, <3>2, <4>1
    <3> QED
      BY <1>3, <3>1, <3>2, <3>3
  <2>2. ASSUME NEW k \in 1 .. R + 1, NEW l \in 1 .. R + 1,
               bootOrdered'[k] = bootOrdered'[l]
        PROVE  k = l
    <3>1. \A x \in 1 .. R : bootOrdered[x] # m0
      BY <1>0, <1>3, <1>4 DEF BootPartition
    <3> QED
      BY <1>0, <1>4, <1>6, <1>9, <2>2, <3>1 DEF BootPartition
  <2>3. ASSUME NEW k \in 1 .. U - 1, NEW l \in 1 .. R + 1
        PROVE  bootUnprocessed'[k] # bootOrdered'[l]
    <3>1. PICK x \in 1 .. U : bootUnprocessed'[k] = bootUnprocessed[x] /\ x # bootI
      BY <1>8
    <3>2. bootUnprocessed[x] # m0
      BY <1>0, <1>3, <1>4, <3>1 DEF BootPartition
    <3> QED
      BY <1>0, <1>4, <1>6, <1>9, <3>1, <3>2 DEF BootPartition
  <2>4. ASSUME NEW m \in BootLoaded
        PROVE  \/ \E k \in 1 .. U - 1 : bootUnprocessed'[k] = m
               \/ \E k \in 1 .. R + 1 : bootOrdered'[k] = m
    <3>1. CASE m = m0
      <4>1. R + 1 \in 1 .. R + 1
        BY <1>3
      <4> QED
        BY <1>6, <3>1, <4>1
    <3>2. ASSUME NEW k \in 1 .. R, bootOrdered[k] = m
          PROVE  \E l \in 1 .. R + 1 : bootOrdered'[l] = m
      <4>1. k \in 1 .. R + 1
        BY <1>3
      <4> QED
        BY <1>6, <3>2, <4>1
    <3>3. ASSUME NEW k \in 1 .. U, bootUnprocessed[k] = m, m # m0
          PROVE  \E l \in 1 .. U - 1 : bootUnprocessed'[l] = m
      <4>1. k # bootI
        BY <1>0, <3>3
      <4>2. CASE k < bootI
        <5>1. k \in 1 .. U - 1
          BY <1>3, <4>2
        <5> QED
          BY <1>5, <3>3, <4>2, <5>1
      <4>3. CASE ~ (k < bootI)
        <5>1. k - 1 \in 1 .. U - 1 /\ ~ (k - 1 < bootI) /\ k - 1 + 1 = k
          BY <1>3, <4>1, <4>3
        <5> QED
          BY <1>5, <3>3, <5>1
      <4> QED
        BY <4>2, <4>3
    <3> QED
      BY <1>0, <1>4, <3>1, <3>2, <3>3 DEF BootPartition
  <2>5. \A k \in 1 .. U - 1 : bootUnprocessed'[k] \in BootLoaded
    BY <1>0, <1>4, <1>8 DEF BootPartition
  <2>6. \A k \in 1 .. R + 1 : bootOrdered'[k] \in BootLoaded
    BY <1>0, <1>4, <1>6, <1>9 DEF BootPartition
  <2> QED
    BY <1>2, <1>5, <1>6, <2>1, <2>2, <2>3, <2>4, <2>5, <2>6 DEF BootPartition
<1>11. BootImportsFirst'
  <2> SUFFICES ASSUME NEW k \in 1 .. R + 1, NEW j \in 1 .. Len(imports[bootOrdered'[k]])
               PROVE  \E l \in 1 .. k - 1 : bootOrdered'[l] = imports[bootOrdered'[k]][j]
    BY <1>2, <1>6 DEF BootImportsFirst
  <2>1. CASE k \in 1 .. R
    <3>0. bootOrdered'[k] = bootOrdered[k] /\ j \in 1 .. Len(imports[bootOrdered[k]])
      BY <1>6, <2>1
    <3>1. PICK l \in 1 .. k - 1 : bootOrdered[l] = imports[bootOrdered'[k]][j]
      BY <1>0, <1>4, <2>1, <3>0 DEF BootImportsFirst
    <3>2. l \in 1 .. R
      BY <1>3, <2>1
    <3> QED
      BY <1>6, <3>1, <3>2
  <2>2. CASE k = R + 1
    <3>1. imports[m0][j] \in ToSet(imports[m0])
      BY <1>0, <1>6, <2>2, BootTyped DEF BootIInv
    <3>2. imports[m0][j] \in ToSet(bootOrdered)
      BY <1>1, <3>1 DEF BootReady
    <3>3. ToSet(bootOrdered) = {bootOrdered[l] : l \in 1 .. R}
      BY <1>0, <1>3 DEF ToSet
    <3>4. PICK l \in 1 .. R : bootOrdered[l] = imports[m0][j]
      BY <3>2, <3>3
    <3>5. l \in 1 .. k - 1
      BY <1>3, <2>2
    <3> QED
      BY <1>6, <2>2, <3>4, <3>5
  <2> QED
    BY <1>9, <2>1, <2>2
<1> QED
  BY <1>1, <1>2, <1>4, <1>7, <1>10, <1>11 DEF BootIInv, BootOrderInv

(* A module that needs one not ordered yet is passed over, and a round     *)
(* ends at the end of the list (bootstrap/__main__.py:64-66, 77-79).       *)
LEMMA RoundKeeps ==
  ASSUME BootIInv, BootPostpone \/ BootRoundEnds
  PROVE  BootIInv'
<1>1. /\ bootPhase = "ordering" /\ bootPhase' \in {"ordering", "done"}
      /\ bootPhase' = "done" => bootUnprocessed = << >>
      /\ bootUnprocessed' = bootUnprocessed /\ bootOrdered' = bootOrdered /\ UNCHANGED bootLoadVars
      /\ (bootI <= Len(bootUnprocessed) /\ bootI' = bootI + 1) \/ bootI' = 1
  BY DEF BootPostpone, BootVisiting, BootRoundEnds
<1>2. /\ BootLoadInv' /\ bootCalls' = bootCalls /\ bootModules' = bootModules /\ imports' = imports
      /\ BootLoaded' = BootLoaded /\ bootCalls' \in Seq(BootFrame) /\ bootModules' \in Seq(Files)
      /\ imports' \in [BootLoaded' -> Seq(Files)]
  BY <1>1, BootLoadedStays DEF BootIInv
<1>3. BootTypeOK'
  <2>1. /\ bootUnprocessed \in Seq(Files) /\ bootOrdered \in Seq(Files)
        /\ bootI \in 1 .. Len(bootUnprocessed) + 1
    BY DEF BootIInv, BootTypeOK
  <2>2. Len(bootUnprocessed) \in Nat
    BY <2>1
  <2>3. bootI' \in 1 .. Len(bootUnprocessed') + 1
    BY <1>1, <2>1, <2>2
  <2>4. bootPhase' \in {"loading", "ordering", "done", "cycle", "failed"}
    BY <1>1
  <2> QED
    BY <1>1, <1>2, <2>1, <2>3, <2>4 DEF BootTypeOK, BootFrame
<1>4. bootCalls = << >> /\ BootPartition /\ BootImportsFirst
  BY <1>1 DEF BootIInv, BootOrderInv
<1>5. BootPartition' /\ BootImportsFirst'
  BY <1>1, <1>2, <1>4 DEF BootPartition, BootImportsFirst
<1>6. BootOrderInv'
  BY <1>1, <1>2, <1>4, <1>5 DEF BootOrderInv
<1> QED
  BY <1>1, <1>2, <1>3, <1>6 DEF BootIInv

-----------------------------------------------------------------------------
(* No step of the two functions breaks the invariant.                      *)
LEMMA BootNextInv == BootIInv /\ [BootNext]_bootVars => BootIInv'
<1> SUFFICES ASSUME BootIInv, [BootNext]_bootVars PROVE BootIInv'
  OBVIOUS
<1>0. /\ BootTypeOK /\ BootLoadInv /\ BootOrderInv
      /\ bootModules \in Seq(Files) /\ imports \in [BootLoaded -> Seq(Files)]
  BY DEF BootIInv, BootTypeOK
<1>1. ASSUME NEW list \in ImportLists, BootInsert(list)
      PROVE  BootIInv'
  <2>1. bootPhase = "loading" /\ bootPhase' = bootPhase /\ UNCHANGED bootOrderVars
    BY <1>1 DEF BootInsert, BootEntering
  <2> QED
    BY <1>0, <1>1, <2>1, BootInsertKeeps, BootWhileLoading
<1>2. CASE LoadFails
  <2>1. /\ bootPhase = "loading" /\ bootPhase' = "failed"
        /\ UNCHANGED bootLoadVars /\ UNCHANGED bootOrderVars
    BY <1>2 DEF LoadFails, BootEntering
  <2> QED
    BY <1>0, <2>1, BootLoadedStays, BootWhileLoading
<1>3. CASE ReportCycle
  <2>1. /\ bootPhase = "loading" /\ bootPhase' = "cycle"
        /\ UNCHANGED bootLoadVars /\ UNCHANGED bootOrderVars
    BY <1>3 DEF ReportCycle, AtImport
  <2> QED
    BY <1>0, <1>3, <2>1, ReportedIsCycle, BootLoadedStays, BootWhileLoading
<1>4. CASE SkipLoaded \/ BootLoadImport \/ BootImportsLoaded
  <2>1. /\ bootPhase = "loading" /\ bootPhase' = bootPhase /\ UNCHANGED bootOrderVars
        /\ bootModules' = bootModules /\ imports' = imports
    BY <1>4 DEF SkipLoaded, BootLoadImport, BootImportsLoaded, AtImport
  <2>2. bootModules' \in Seq(Files) /\ imports' \in [BootLoaded' -> Seq(Files)]
    BY <1>0, <2>1 DEF BootLoaded
  <2>3. BootLoadInv' /\ bootCalls' \in Seq(BootFrame)
    BY <1>0, <1>4, SkipKeeps, BootLoadImportKeeps, BootReturnKeeps
  <2> QED
    BY <1>0, <2>1, <2>2, <2>3, BootWhileLoading
<1>5. CASE BootStartOrdering
  BY <1>5, BootStartKeeps
<1>6. CASE BootOrder
  BY <1>6, BootOrderKeeps
<1>7. CASE BootPostpone \/ BootRoundEnds
  BY <1>7, RoundKeeps
<1>8. CASE UNCHANGED bootVars
  <2>1. UNCHANGED bootLoadVars /\ UNCHANGED bootOrderVars /\ bootPhase' = bootPhase
    BY <1>8 DEF bootVars, bootLoadVars, bootOrderVars
  <2>2. bootUnprocessed' = bootUnprocessed /\ bootOrdered' = bootOrdered /\ bootI' = bootI
    BY <2>1 DEF bootOrderVars
  <2>3. /\ BootLoadInv' /\ bootCalls' = bootCalls /\ imports' = imports /\ BootLoaded' = BootLoaded
        /\ bootCalls' \in Seq(BootFrame) /\ bootModules' \in Seq(Files)
        /\ imports' \in [BootLoaded' -> Seq(Files)] /\ (Cyclic => Cyclic')
    BY <1>0, <2>1, BootLoadedStays
  <2>4. BootTypeOK'
    BY <1>0, <2>1, <2>2, <2>3 DEF BootTypeOK, BootFrame
  <2>5. BootOrderInv'
    BY <1>0, <2>1, <2>2, <2>3 DEF BootOrderInv, BootPartition, BootImportsFirst
  <2> QED
    BY <2>1, <2>3, <2>4, <2>5 DEF BootIInv
<1> QED
  BY <1>1, <1>2, <1>3, <1>4, <1>5, <1>6, <1>7, <1>8 DEF BootNext

(* The invariant holds throughout.                                         *)
THEOREM BootInvariance == BootSpec => []BootIInv
<1>1. BootInit => BootIInv
  BY BootInitInv
<1>2. BootIInv /\ [BootNext]_bootVars => BootIInv'
  BY BootNextInv
<1> QED
  BY <1>1, <1>2, PTL DEF BootSpec

(* Every state is well typed: each loaded module has its imports, and the  *)
(* position stays in the list that shrinks under it.                       *)
THEOREM BootWellTyped == BootSpec => []BootTypeOK
<1>1. BootIInv => BootTypeOK
  BY DEF BootIInv
<1> QED
  BY <1>1, BootInvariance, PTL

(* A cycle is reported only where there is one, and none gets as far as    *)
(* the ordering but one through the main module (bootstrap/__main__.py:    *)
(* 46-50): when nothing is being loaded all modules are finished.          *)
THEOREM CyclesReported == BootSpec => []ReportsCycles
<1>1. BootIInv => ReportsCycles
  <2> SUFFICES ASSUME BootIInv, bootPhase = "ordering", Cyclic
               PROVE  \E f \in BootLoaded : Main \in ToSet(imports[f])
    BY DEF BootIInv, ReportsCycles
  <2>1. bootCalls = << >> /\ BootTypeOK /\ BootLoadInv
    BY DEF BootIInv, BootOrderInv
  <2>2. Len(bootCalls) = 0
    BY <2>1
  <2>3. Finished = BootLoaded
    BY <2>2 DEF Finished, InProgress
  <2>4. PICK C \in SUBSET BootLoaded :
          C # {} /\ \A f \in C : \E g \in C : g \in ToSet(imports[f])
    BY DEF Cyclic
  <2>5. \A f \in C : \E g \in C : ImportsIt(f, g)
    BY <2>1, <2>4, BootTyped
  <2>6. MainImported
    BY <2>1, <2>3, <2>4, <2>5 DEF BootLoadInv, NoFinishedCycle
  <2> QED
    BY <2>1, <2>6, BootTyped DEF MainImported
<1> QED
  BY <1>1, BootInvariance, PTL

(* A sequence without repetitions is as long as the set of its elements.   *)
LEMMA LengthOfDistinct ==
  ASSUME NEW S, NEW s \in Seq(S),
         \A k, l \in 1 .. Len(s) : s[k] = s[l] => k = l
  PROVE  LET R == {s[k] : k \in 1 .. Len(s)} IN
         IsFiniteSet(R) /\ Cardinality(R) = Len(s)
<1> DEFINE D == 1 .. Len(s)
           R == {s[k] : k \in D}
<1>1. Len(s) \in Nat /\ s \in [D -> R]
  OBVIOUS
<1>2. IsFiniteSet(D) /\ Cardinality(D) = Len(s)
  <2>1. 1 \in Int /\ Len(s) \in Int
    BY <1>1
  <2>2. IsFiniteSet(D) /\ Cardinality(D) = IF 1 > Len(s) THEN 0 ELSE Len(s) - 1 + 1
    BY <2>1, FS_Interval
  <2> QED
    BY <1>1, <2>2
<1>3. s \in Bijection(D, R)
  BY <1>1 DEF Bijection, Injection, Surjection, IsInjective
<1> QED
  BY <1>2, <1>3, FS_Bijection DEF ExistsBijection

(* The order that the compiler ends with has every module once, what each  *)
(* imports before it, and the main one last (bootstrap/__main__.py:61-82): *)
(* were another one last, the module that imports it would come later.     *)
THEOREM InOrder == BootSpec => []CompilesInOrder
<1>1. BootIInv => CompilesInOrder
  <2> SUFFICES ASSUME BootIInv, bootPhase = "done"
               PROVE  /\ Len(bootOrdered) = Cardinality(BootLoaded) /\ ToSet(bootOrdered) = BootLoaded
                      /\ Last(bootOrdered) = Main
                      /\ \A k \in 1 .. Len(bootOrdered) :
                           ToSet(imports[bootOrdered[k]]) \subseteq ToSet(SubSeq(bootOrdered, 1, k - 1))
    BY DEF CompilesInOrder
  <2> DEFINE R == Len(bootOrdered)
  <2>1. /\ BootPartition /\ BootImportsFirst /\ bootUnprocessed = << >> /\ bootCalls = << >>
        /\ BootLoadInv /\ BootTypeOK
    BY DEF BootIInv, BootOrderInv
  <2>2. bootOrdered \in Seq(Files) /\ R \in Nat /\ DOMAIN bootOrdered = 1 .. R
    BY <2>1 DEF BootTypeOK
  <2>3. \A f \in BootLoaded : \E k \in 1 .. R : bootOrdered[k] = f
    BY <2>1 DEF BootPartition
  <2>4. BootLoaded = {bootOrdered[k] : k \in 1 .. R}
    BY <2>1, <2>3 DEF BootPartition
  <2>5. Len(bootOrdered) = Cardinality(BootLoaded) /\ ToSet(bootOrdered) = BootLoaded
    <3>1. Cardinality({bootOrdered[k] : k \in 1 .. R}) = R
      BY <2>1, <2>2, LengthOfDistinct DEF BootPartition
    <3> QED
      BY <2>2, <2>4, <3>1 DEF ToSet
  <2>6. R \in 1 .. R /\ bootOrdered[R] \in BootLoaded
    <3>1. Main \in BootLoaded
      BY <2>1 DEF BootLoadInv, BootModulesNeeded
    <3>2. PICK k \in 1 .. R : bootOrdered[k] = Main
      BY <2>3, <3>1
    <3> QED
      BY <2>2, <2>4
  <2>7. bootOrdered[R] = Main
    <3> SUFFICES ASSUME NEW g \in BootLoaded, ImportsIt(g, bootOrdered[R])
                 PROVE  FALSE
      BY <2>1, <2>6 DEF BootLoadInv, BootModulesNeeded
    <3>1. PICK k \in 1 .. R : bootOrdered[k] = g
      BY <2>3
    <3>2. PICK j \in 1 .. Len(imports[g]) : imports[g][j] = bootOrdered[R]
      BY DEF ImportsIt
    <3>3. PICK l \in 1 .. k - 1 : bootOrdered[l] = imports[g][j]
      BY <2>1, <3>1 DEF BootImportsFirst
    <3>4. l \in 1 .. R /\ l # R
      <4>1. R \in Nat
        BY <2>2
      <4> HIDE DEF R
      <4> QED
        BY <4>1
    <3> QED
      BY <2>1, <2>6, <3>2, <3>3, <3>4 DEF BootPartition
  <2>8. ASSUME NEW k \in 1 .. R
        PROVE  ToSet(imports[bootOrdered[k]]) \subseteq ToSet(SubSeq(bootOrdered, 1, k - 1))
    <3>1. bootOrdered[k] \in BootLoaded
      BY <2>4
    <3> SUFFICES ASSUME NEW j \in 1 .. Len(imports[bootOrdered[k]])
                 PROVE  imports[bootOrdered[k]][j] \in ToSet(SubSeq(bootOrdered, 1, k - 1))
      BY <2>1, <3>1, BootTyped
    <3>2. PICK l \in 1 .. k - 1 : bootOrdered[l] = imports[bootOrdered[k]][j]
      BY <2>1 DEF BootImportsFirst
    <3>3. k - 1 \in 0 .. R
      BY <2>2
    <3>4. /\ DOMAIN SubSeq(bootOrdered, 1, k - 1) = 1 .. k - 1
          /\ SubSeq(bootOrdered, 1, k - 1)[l] = bootOrdered[l]
      BY <2>2, <3>3
    <3> QED
      BY <3>2, <3>4 DEF ToSet
  <2> QED
    BY <2>5, <2>7, <2>8 DEF Last
<1> QED
  BY <1>1, BootInvariance, PTL

-----------------------------------------------------------------------------
PathsUpTo(M, q) == {M[p].path : p \in 1 .. q}

(* Of the first q modules none behind the one at p, and no import of that  *)
(* one before the one at j, leaves anything to load.                       *)
NothingLater(M, q, p, j) ==
  /\ \A h \in 1 .. j - 1 : M[p].imports[h] \in PathsUpTo(M, q)
  /\ \A e \in p + 1 .. q : \A h \in 1 .. Len(M[e].imports) :
       M[e].imports[h] \in PathsUpTo(M, q)

(* After the first q modules, the next is the first import that is not     *)
(* loaded of the latest of them that has one.                              *)
ComesNext(M, q, f) ==
  IF q = 0 THEN f = Main
  ELSE \E p \in 1 .. q : \E j \in 1 .. Len(M[p].imports) :
         f = M[p].imports[j] /\ NothingLater(M, q, p, j)

DepthFirst(M) == \A q \in 1 .. Len(M) : ComesNext(M, q - 1, M[q].path)

-----------------------------------------------------------------------------
(* The order of loading.                                                   *)

(* Only one file comes next.                                               *)
LEMMA OneComesNext ==
  ASSUME NEW M \in Seq(Module), NEW q \in Nat, q <= Len(M), NEW f, NEW g,
         ComesNext(M, q, f), f \notin PathsUpTo(M, q),
         ComesNext(M, q, g), g \notin PathsUpTo(M, q)
  PROVE  f = g
<1>1. CASE q = 0
  BY <1>1 DEF ComesNext
<1>2. CASE q # 0
  <2>1. PICK p \in 1 .. q : \E j \in 1 .. Len(M[p].imports) :
          f = M[p].imports[j] /\ NothingLater(M, q, p, j)
    BY <1>2 DEF ComesNext
  <2>2. PICK j \in 1 .. Len(M[p].imports) : f = M[p].imports[j] /\ NothingLater(M, q, p, j)
    BY <2>1
  <2>3. PICK r \in 1 .. q : \E k \in 1 .. Len(M[r].imports) :
          g = M[r].imports[k] /\ NothingLater(M, q, r, k)
    BY <1>2 DEF ComesNext
  <2>4. PICK k \in 1 .. Len(M[r].imports) : g = M[r].imports[k] /\ NothingLater(M, q, r, k)
    BY <2>3
  <2>5. Len(M[p].imports) \in Nat /\ Len(M[r].imports) \in Nat
    BY DEF Module
  <2>6. ~ p < r
    <3> SUFFICES ASSUME p < r PROVE FALSE
      OBVIOUS
    <3>1. r \in p + 1 .. q
      OBVIOUS
    <3> QED
      BY <2>2, <2>4, <3>1 DEF NothingLater
  <2>7. ~ r < p
    <3> SUFFICES ASSUME r < p PROVE FALSE
      OBVIOUS
    <3>1. p \in r + 1 .. q
      OBVIOUS
    <3> QED
      BY <2>2, <2>4, <3>1 DEF NothingLater
  <2>8. p = r
    BY <2>6, <2>7
  <2>9. ~ j < k
    <3> SUFFICES ASSUME j < k PROVE FALSE
      OBVIOUS
    <3>1. j \in 1 .. k - 1
      BY <2>5
    <3> QED
      BY <2>2, <2>4, <2>8, <3>1 DEF NothingLater
  <2>10. ~ k < j
    <3> SUFFICES ASSUME k < j PROVE FALSE
      OBVIOUS
    <3>1. k \in 1 .. j - 1
      BY <2>5
    <3> QED
      BY <2>2, <2>4, <2>8, <3>1 DEF NothingLater
  <2>11. j = k
    BY <2>5, <2>9, <2>10
  <2> QED
    BY <2>2, <2>4, <2>8, <2>11
<1> QED
  BY <1>1, <1>2

(* What comes next depends on the modules before only.                     *)
LEMMA NextByPrefix ==
  ASSUME NEW M, NEW N, NEW q \in Nat, \A p \in 1 .. q : N[p] = M[p], NEW f
  PROVE  PathsUpTo(N, q) = PathsUpTo(M, q) /\ (ComesNext(M, q, f) => ComesNext(N, q, f))
<1>1. PathsUpTo(N, q) = PathsUpTo(M, q)
  BY DEF PathsUpTo
<1>2. ASSUME NEW p \in 1 .. q, NEW j \in 1 .. Len(M[p].imports), NothingLater(M, q, p, j)
      PROVE  NothingLater(N, q, p, j)
  <2>1. \A e \in p + 1 .. q : N[e] = M[e]
    OBVIOUS
  <2> QED
    BY <1>1, <1>2, <2>1 DEF NothingLater
<1>3. CASE q = 0
  BY <1>1, <1>3 DEF ComesNext
<1>4. CASE q # 0
  <2> SUFFICES ASSUME ComesNext(M, q, f) PROVE ComesNext(N, q, f)
    BY <1>1
  <2>1. PICK p \in 1 .. q : \E j \in 1 .. Len(M[p].imports) :
          f = M[p].imports[j] /\ NothingLater(M, q, p, j)
    BY <1>4 DEF ComesNext
  <2>2. PICK j \in 1 .. Len(M[p].imports) : f = M[p].imports[j] /\ NothingLater(M, q, p, j)
    BY <2>1
  <2>3. N[p] = M[p] /\ NothingLater(N, q, p, j)
    BY <1>2, <2>2
  <2> QED
    BY <1>4, <2>2, <2>3 DEF ComesNext
<1> QED
  BY <1>3, <1>4

(* A table that a module is added to, when it is the one that comes next.  *)
LEMMA DepthFirstGrows ==
  ASSUME NEW M, NEW N, Len(M) \in Nat, Len(N) = Len(M) + 1,
         \A p \in 1 .. Len(M) : N[p] = M[p],
         DepthFirst(M), ComesNext(M, Len(M), N[Len(N)].path)
  PROVE  DepthFirst(N)
<1> SUFFICES ASSUME NEW q \in 1 .. Len(N) PROVE ComesNext(N, q - 1, N[q].path)
  BY DEF DepthFirst
<1>1. CASE q \in 1 .. Len(M)
  <2>1. N[q] = M[q] /\ ComesNext(M, q - 1, M[q].path)
    BY <1>1 DEF DepthFirst
  <2>2. q - 1 \in Nat /\ \A p \in 1 .. q - 1 : N[p] = M[p]
    BY <1>1
  <2> QED
    BY <2>1, <2>2, NextByPrefix
<1>2. CASE q = Len(M) + 1
  <2>1. q - 1 = Len(M) /\ q = Len(N)
    BY <1>2
  <2>2. ComesNext(N, Len(M), N[Len(N)].path)
    BY NextByPrefix
  <2> QED
    BY <2>1, <2>2
<1> QED
  BY <1>1, <1>2

(* The calls in progress are for modules that were loaded one after the    *)
(* other.  M is the table, cs the calls; a call that has not read its file *)
(* has next = 0.                                                           *)
CallsInOrder(M, cs) ==
  \A k, l \in 1 .. Len(cs) : \A p, q \in 1 .. Len(M) :
    k < l /\ M[p].path = cs[k].path /\ M[q].path = cs[l].path /\ cs[l].next > 0 => p < q

(* An import that is not loaded is one the call for its module has yet to  *)
(* come to, or the one it has just passed and whose file is to be read.    *)
NoneForgotten(M, cs) ==
  \A m \in 1 .. Len(M) : \A j \in 1 .. Len(M[m].imports) :
    \/ M[m].imports[j] \in PathsUpTo(M, Len(M))
    \/ \E k \in 1 .. Len(cs) :
         /\ cs[k].path = M[m].path /\ cs[k].next > 0
         /\ \/ cs[k].next <= j
            \/ k + 1 = Len(cs) /\ cs[k + 1].next = 0 /\ cs[k].next = j + 1

(* The file that is read now is the one that comes next.                   *)
LEMMA ReadIsNext ==
  ASSUME NEW M \in Seq(Module), NEW cs, NEW n \in Nat, n = Len(cs),
         NEW f, f = cs[n].path, f \notin PathsUpTo(M, Len(M)), cs[n].next = 0,
         \A k \in 1 .. n : cs[k].next \in Nat,
         CallsInOrder(M, cs), NoneForgotten(M, cs),
         \/ f = Main /\ (Len(M) = 0 \/ M[1].path = Main)
         \/ n > 1 /\ \E p \in 1 .. Len(M) : \E j \in 1 .. Len(M[p].imports) :
              /\ M[p].path = cs[n - 1].path /\ cs[n - 1].next = j + 1
              /\ f = M[p].imports[j],
         \A p, q \in 1 .. Len(M) : M[p].path = M[q].path => p = q
  PROVE  ComesNext(M, Len(M), f)
<1> DEFINE L == Len(M)
<1>1. L \in Nat /\ L = Len(M)
  OBVIOUS
<1>2. CASE f = Main /\ (L = 0 \/ M[1].path = Main)
  <2>1. L # 0 => M[1].path \in PathsUpTo(M, L)
    BY <1>1 DEF PathsUpTo
  <2>2. L = 0
    BY <1>1, <1>2, <2>1
  <2> QED
    BY <1>2, <2>2 DEF ComesNext
<1>3. CASE n > 1 /\ \E p \in 1 .. L : \E j \in 1 .. Len(M[p].imports) :
              /\ M[p].path = cs[n - 1].path /\ cs[n - 1].next = j + 1
              /\ f = M[p].imports[j]
  <2>0. PICK p \in 1 .. L : \E j \in 1 .. Len(M[p].imports) :
          /\ M[p].path = cs[n - 1].path /\ cs[n - 1].next = j + 1
          /\ f = M[p].imports[j]
    BY <1>3
  <2>1. PICK j \in 1 .. Len(M[p].imports) :
          /\ M[p].path = cs[n - 1].path /\ cs[n - 1].next = j + 1
          /\ f = M[p].imports[j]
    BY <2>0
  <2>2. n - 1 \in 1 .. n /\ n - 1 < n /\ n \in 1 .. n
    <3>1. n > 1
      BY <1>3
    <3> QED
      BY ONLY n \in Nat, <3>1
  <2>3. \A e \in 1 .. L : Len(M[e].imports) \in Nat
    BY DEF Module
  <2>4. ASSUME NEW e \in 1 .. L, NEW h \in 1 .. Len(M[e].imports),
               M[e].imports[h] \notin PathsUpTo(M, L)
        PROVE  e < p \/ (e = p /\ j <= h)
    <3>1. PICK k \in 1 .. n :
            /\ cs[k].path = M[e].path /\ cs[k].next > 0
            /\ \/ cs[k].next <= h
               \/ k + 1 = n /\ cs[k + 1].next = 0 /\ cs[k].next = h + 1
      <4>1. \A m \in 1 .. L : \A b \in 1 .. Len(M[m].imports) :
              \/ M[m].imports[b] \in PathsUpTo(M, L)
              \/ \E k \in 1 .. n :
                   /\ cs[k].path = M[m].path /\ cs[k].next > 0
                   /\ \/ cs[k].next <= b
                      \/ k + 1 = n /\ cs[k + 1].next = 0 /\ cs[k].next = b + 1
        BY ONLY n = Len(cs), NoneForgotten(M, cs) DEF NoneForgotten
      <4>2. e \in 1 .. L /\ h \in 1 .. Len(M[e].imports) /\ ~(M[e].imports[h] \in PathsUpTo(M, L))
        BY <2>4
      <4> QED
        BY ONLY <4>1, <4>2
    <3>2. k # n
      BY <3>1
    <3>3. CASE k < n - 1
      <4>1. cs[n - 1].next > 0
        BY <2>1, <2>3
      <4>2. PICK l \in 1 .. n : l = n - 1
        BY <2>2
      <4>3. \A k1, l1 \in 1 .. n : \A e1, p1 \in 1 .. L :
              k1 < l1 /\ M[e1].path = cs[k1].path /\ M[p1].path = cs[l1].path /\ cs[l1].next > 0
                => e1 < p1
        BY ONLY n = Len(cs), CallsInOrder(M, cs) DEF CallsInOrder
      <4>4. M[p].path = cs[l].path /\ cs[l].next > 0
        BY ONLY <2>1, <4>1, <4>2
      <4>5. k < l /\ M[e].path = cs[k].path /\ M[p].path = cs[l].path /\ cs[l].next > 0
        <5>1. k < l
          BY ONLY n \in Nat, k \in 1 .. n, <3>3, <4>2
        <5> QED
          BY ONLY <3>1, <4>4, <5>1
      <4>6. e < p
        BY ONLY k \in 1 .. n, l \in 1 .. n, e \in 1 .. L, p \in 1 .. L, <4>3, <4>5
      <4> QED
        BY <4>6
    <3>4. CASE k = n - 1
      <4>1. e = p
        BY <1>1, <2>1, <3>1, <3>4
      <4>2. j + 1 <= h \/ j + 1 = h + 1
        BY <2>1, <3>1, <3>4
      <4> QED
        BY <2>3, <4>1, <4>2
    <3> QED
      BY <3>2, <3>3, <3>4
  <2>5. \A h \in 1 .. j - 1 : M[p].imports[h] \in PathsUpTo(M, L)
    <3> SUFFICES ASSUME NEW h \in 1 .. j - 1, M[p].imports[h] \notin PathsUpTo(M, L)
                 PROVE  FALSE
      OBVIOUS
    <3>1. h \in 1 .. Len(M[p].imports) /\ h < j /\ h \in Nat /\ j \in Nat
      BY <2>3
    <3>2. p < p \/ j <= h
      BY <2>4, <3>1
    <3> QED
      BY <3>1, <3>2
  <2>6. \A e \in p + 1 .. L : \A h \in 1 .. Len(M[e].imports) :
          M[e].imports[h] \in PathsUpTo(M, L)
    <3> SUFFICES ASSUME NEW e \in p + 1 .. L, NEW h \in 1 .. Len(M[e].imports),
                        M[e].imports[h] \notin PathsUpTo(M, L)
                 PROVE  FALSE
      OBVIOUS
    <3>1. e \in 1 .. L /\ p < e /\ e \in Nat /\ p \in Nat
      BY <1>1
    <3>2. e < p \/ (e = p /\ j <= h)
      BY <2>4, <3>1
    <3> QED
      BY <3>1, <3>2
  <2>7. NothingLater(M, L, p, j)
    BY <2>5, <2>6 DEF NothingLater
  <2>8. L # 0
    BY <1>1
  <2> QED
    BY <2>1, <2>7, <2>8 DEF ComesNext
<1> QED
  BY <1>2, <1>3

(* Calls that go on, return or begin keep the order.                       *)
LEMMA OrderKept ==
  ASSUME NEW M, NEW cs, NEW ds, Len(cs) \in Nat, Len(ds) \in Nat, CallsInOrder(M, cs),
         \A k \in 1 .. Len(ds) : ds[k].next > 0 => k <= Len(cs) /\ cs[k].next > 0,
         \A k \in 1 .. Len(ds) : k <= Len(cs) => ds[k].path = cs[k].path
  PROVE  CallsInOrder(M, ds)
<1> SUFFICES ASSUME NEW k \in 1 .. Len(ds), NEW l \in 1 .. Len(ds),
                    NEW p \in 1 .. Len(M), NEW q \in 1 .. Len(M), k < l,
                    M[p].path = ds[k].path, M[q].path = ds[l].path, ds[l].next > 0
             PROVE  p < q
  BY DEF CallsInOrder
<1>1. l <= Len(cs) /\ cs[l].next > 0
  OBVIOUS
<1>2. k \in 1 .. Len(cs) /\ l \in 1 .. Len(cs)
  BY <1>1
<1>3. cs[k].path = ds[k].path /\ cs[l].path = ds[l].path
  BY <1>2
<1> QED
  BY <1>1, <1>2, <1>3 DEF CallsInOrder

(* So does the last one when it has read its file, since the calls below   *)
(* it have read theirs.                                                    *)
LEMMA OrderWhenRead ==
  ASSUME NEW M, NEW N, NEW cs, NEW ds, NEW n \in Nat \ {0}, Len(cs) = n, Len(ds) = n,
         NEW L \in Nat, Len(M) = L, Len(N) = L + 1, \A p \in 1 .. L : N[p] = M[p],
         N[L + 1].path = cs[n].path, cs[n].path \notin PathsUpTo(M, L),
         \A k \in 1 .. n : ds[k].path = cs[k].path,
         \A k \in 1 .. n - 1 : ds[k].next = cs[k].next,
         \A k \in 1 .. n - 1 : cs[k].path \in PathsUpTo(M, L),
         CallsInOrder(M, cs)
  PROVE  CallsInOrder(N, ds)
<1> SUFFICES ASSUME NEW k \in 1 .. n, NEW l \in 1 .. n,
                    NEW p \in 1 .. L + 1, NEW q \in 1 .. L + 1, k < l,
                    N[p].path = ds[k].path, N[q].path = ds[l].path, ds[l].next > 0
             PROVE  p < q
  BY DEF CallsInOrder
<1>1. ASSUME NEW e \in 1 .. L + 1, e # L + 1
      PROVE  e \in 1 .. L /\ N[e] = M[e] /\ M[e].path \in PathsUpTo(M, L)
  <2>1. e \in 1 .. L
    BY <1>1
  <2> QED
    BY <2>1 DEF PathsUpTo
<1>2. k \in 1 .. n - 1 /\ ds[k].path = cs[k].path /\ ds[l].path = cs[l].path
  OBVIOUS
<1>3. p # L + 1
  BY <1>2
<1>4. p \in 1 .. L /\ M[p].path = cs[k].path
  BY <1>1, <1>2, <1>3
<1>5. CASE q = L + 1
  BY <1>4, <1>5
<1>6. CASE q # L + 1
  <2>1. q \in 1 .. L /\ M[q].path = cs[l].path /\ M[q].path \in PathsUpTo(M, L)
    BY <1>1, <1>2, <1>6
  <2>2. l # n
    BY <2>1
  <2>3. l \in 1 .. n - 1
    BY <2>2
  <2>4. cs[l].next > 0
    BY <2>3
  <2> QED
    BY <1>2, <1>4, <2>1, <2>4 DEF CallsInOrder
<1> QED
  BY <1>5, <1>6

-----------------------------------------------------------------------------
(* The native loader.                                                      *)

(* Modules are loaded depth first; and it exits over a file that is not    *)
(* loaded.                                                                 *)
WalkInv ==
  /\ CallsInOrder(modules, calls) /\ NoneForgotten(modules, calls)
  /\ DepthFirst(modules)
  /\ phase \in {"exit 1", "exit 2"} =>
       calls # << >> /\ Call.next = 0 /\ Call.path \notin Loaded

(* Loaded is all paths of the table.                                       *)
LEMMA LoadedPaths == Loaded = PathsUpTo(modules, Len(modules))
  BY DEF Loaded, PathsUpTo

(* A call that returns forgets no import.                                  *)
LEMMA ReturnWalks ==
  ASSUME LoadingTypeOK, LoadInv, WalkInv, calls # << >>,
         \/ Call.next = 0 /\ Call.path \in Loaded
         \/ Call.next > Len(Call.imports),
         calls' = Callers, modules' = modules, phase = "loading", phase' = phase
  PROVE  WalkInv'
<1>1. PICK n \in Nat \ {0} : n = Len(calls)
  BY CallFacts
<1>2. /\ Call = calls[n] /\ Call \in Frame
      /\ \A k \in 1 .. n : calls[k] \in Frame
      /\ Len(calls') = n - 1
      /\ \A k \in 1 .. n - 1 : calls'[k] = calls[k]
  BY <1>1, CallFacts
<1>3. CallsInOrder(modules, calls')
  <2>1. n - 1 \in Nat /\ n - 1 <= n
    OBVIOUS
  <2>2. CallsInOrder(modules, calls)
    BY DEF WalkInv
  <2> QED
    BY ONLY n \in Nat \ {0}, <1>1, <1>2, <2>1, <2>2, OrderKept
<1>4. NoneForgotten(modules, calls')
  <2> SUFFICES ASSUME NEW m \in Ids, NEW j \in 1 .. Len(modules[m].imports),
                      modules[m].imports[j] \notin Loaded
               PROVE  \E k \in 1 .. n - 1 : /\ calls'[k].path = modules[m].path
                                            /\ calls'[k].next > 0 /\ calls'[k].next <= j
    BY <1>2, LoadedPaths DEF NoneForgotten, Ids
  <2>1. PICK k \in 1 .. n :
          /\ calls[k].path = modules[m].path /\ calls[k].next > 0
          /\ \/ calls[k].next <= j
             \/ k + 1 = n /\ calls[k + 1].next = 0 /\ calls[k].next = j + 1
    BY <1>1, LoadedPaths DEF WalkInv, NoneForgotten, Ids
  <2>2. PICK e \in Ids : modules[e].path = calls[k].path /\ modules[e].imports = calls[k].imports
    BY <1>1, <2>1 DEF LoadInv, CallsChain
  <2>3. e = m
    BY <2>1, <2>2 DEF LoadInv, PathsDistinct
  <2>4. k # n
    <3> SUFFICES ASSUME k = n PROVE FALSE
      OBVIOUS
    <3>1. calls[k].next <= j /\ Call.next > Len(Call.imports)
      BY <1>2, <2>1
    <3>2. j <= Len(calls[k].imports) /\ j \in Nat /\ Len(calls[k].imports) \in Nat
      BY <1>2, <2>2, <2>3 DEF Frame
    <3> QED
      BY <1>2, <3>1, <3>2 DEF Frame
  <2>5. ~ (k + 1 = n /\ calls[k + 1].next = 0 /\ calls[k].next = j + 1)
    <3> SUFFICES ASSUME k + 1 = n, calls[k + 1].next = 0, calls[k].next = j + 1
                 PROVE  FALSE
      OBVIOUS
    <3>1. Call.next = 0 /\ Len(Call.imports) \in Nat
      BY <1>2 DEF Frame
    <3>2. Call.path \in Loaded
      BY <3>1
    <3>3. k = n - 1 /\ n > 1 /\ n \in 1 .. n /\ j \in Nat
      OBVIOUS
    <3>4. Call.path = calls[n - 1].imports[calls[n - 1].next - 1]
      BY <1>1, <1>2, <3>3 DEF LoadInv, CallsChain
    <3>5. calls[n - 1].next - 1 = j
      BY <3>3
    <3> QED
      BY <2>2, <2>3, <3>2, <3>3, <3>4, <3>5
  <2>6. k \in 1 .. n - 1
    BY <2>4
  <2> QED
    BY <1>2, <2>1, <2>5, <2>6
<1> QED
  BY <1>3, <1>4 DEF WalkInv

(* The module that is put into the map is the one that comes next.         *)
LEMMA InsertWalks ==
  ASSUME LoadingTypeOK, LoadInv, WalkInv, NEW list \in ImportLists, Insert(list)
  PROVE  WalkInv'
<1>1. PICK n \in Nat \ {0} : n = Len(calls)
  BY Inserted, CallFacts
<1>2. PICK f : f = Call.path
  OBVIOUS
<1>3. /\ phase = "loading" /\ phase' = phase /\ Call = calls[n] /\ Call.next = 0
      /\ f = calls[n].path /\ calls[n].next = 0
      /\ \A k \in 1 .. n : calls[k] \in Frame
  BY <1>1, <1>2, Inserted, CallFacts
<1>4. PICK L \in Nat : L = Len(modules)
  BY Typed
<1>5. /\ modules \in Seq(Module) /\ modules' \in Seq(Module) /\ Len(modules') = L + 1
      /\ Ids = 1 .. L /\ \A m \in 1 .. L : modules'[m] = modules[m]
      /\ modules'[L + 1].path = f /\ modules'[L + 1].imports = list
  <2>1. /\ modules' \in Seq(Module) /\ Len(modules') = L + 1
        /\ \A m \in Ids : modules'[m] = modules[m]
        /\ modules'[L + 1] = [path |-> f, imports |-> list]
    BY <1>2, <1>4, Inserted
  <2>2. modules \in Seq(Module) /\ Ids = 1 .. L
    BY <1>4, Typed
  <2> QED
    BY <2>1, <2>2
<1>6. /\ Len(calls') = n /\ \A k \in 1 .. n - 1 : calls'[k] = calls[k]
      /\ calls'[n].path = f /\ calls'[n].next = 1
  <2>1. /\ Len(calls') = n /\ \A k \in 1 .. n - 1 : calls'[k] = calls[k]
        /\ calls'[n] = [path |-> f, imports |-> list, next |-> 1]
    BY <1>1, <1>2, Inserted
  <2> QED
    BY <2>1
<1>7. f \notin PathsUpTo(modules, L)
  BY <1>2, <1>4, Inserted, LoadedPaths
<1>8. ASSUME NEW k \in 1 .. n - 1
      PROVE  calls[k].next > 0 /\ calls[k].path \in PathsUpTo(modules, L)
  <2>1. k \in 1 .. n /\ k # n /\ calls[k].next \in Nat
    BY <1>3 DEF Frame
  <2>2. calls[k].next > 0
    BY <1>1, <2>1 DEF LoadInv, CallsChain
  <2>3. PICK m \in Ids : modules[m].path = calls[k].path
    BY <1>1, <2>1, <2>2 DEF LoadInv, CallsChain
  <2> QED
    BY <1>5, <2>2, <2>3 DEF PathsUpTo
<1>9. CallsInOrder(modules, calls) /\ NoneForgotten(modules, calls) /\ DepthFirst(modules)
  BY DEF WalkInv
<1>10. ComesNext(modules, L, f)
  <2>1. \A p, q \in 1 .. L : modules[p].path = modules[q].path => p = q
    BY <1>5 DEF LoadInv, PathsDistinct
  <2>2. \A k \in 1 .. n : calls[k].next \in Nat
    BY <1>3 DEF Frame
  <2>3. \/ f = Main /\ (L = 0 \/ modules[1].path = Main)
        \/ n > 1 /\ \E p \in 1 .. L : \E j \in 1 .. Len(modules[p].imports) :
             /\ modules[p].path = calls[n - 1].path /\ calls[n - 1].next = j + 1
             /\ f = modules[p].imports[j]
    <3>1. CASE n = 1
      <4>1. f = Main
        BY <1>1, <1>3, <3>1, Inserted DEF LoadInv, CallsChain
      <4>2. L # 0 => ComesNext(modules, 0, modules[1].path)
        <5>1. L # 0 => 1 \in 1 .. L
          OBVIOUS
        <5>2. 1 - 1 = 0
          OBVIOUS
        <5> QED
          BY <1>4, <1>9, <5>1, <5>2 DEF DepthFirst
      <4> QED
        BY <4>1, <4>2 DEF ComesNext
    <3>2. CASE n # 1
      <4>1. n > 1 /\ n - 1 \in 1 .. n - 1 /\ n - 1 \in 1 .. n /\ n \in 1 .. n
        BY <3>2
      <4>2. calls[n - 1].next > 0 /\ calls[n - 1].next \in Nat
        BY <1>8, <2>2, <4>1
      <4>3. /\ calls[n - 1].next - 1 \in 1 .. Len(calls[n - 1].imports)
            /\ f = calls[n - 1].imports[calls[n - 1].next - 1]
        BY <1>1, <1>3, <4>1 DEF LoadInv, CallsChain
      <4>4. PICK p \in Ids : /\ modules[p].path = calls[n - 1].path
                             /\ modules[p].imports = calls[n - 1].imports
        BY <1>1, <4>1, <4>2 DEF LoadInv, CallsChain
      <4>5. PICK j \in 1 .. Len(modules[p].imports) : j = calls[n - 1].next - 1
        BY <4>3, <4>4
      <4>6. calls[n - 1].next = j + 1 /\ f = modules[p].imports[j] /\ p \in 1 .. L
        <5>1. PICK nx \in Nat : nx = calls[n - 1].next
          BY <4>2
        <5>2. nx - 1 = j /\ j \in Int
          BY <4>5, <5>1
        <5>3. nx = j + 1
          BY ONLY <5>1, <5>2
        <5>4. f = modules[p].imports[j]
          BY ONLY <4>3, <4>4, <4>5
        <5> QED
          BY <1>5, <5>1, <5>3, <5>4
      <4>7. \E jj \in 1 .. Len(modules[p].imports) :
              /\ modules[p].path = calls[n - 1].path /\ calls[n - 1].next = jj + 1
              /\ f = modules[p].imports[jj]
        <5> WITNESS j \in 1 .. Len(modules[p].imports)
        <5> QED
          BY <4>4, <4>6
      <4> QED
        BY ONLY <4>1, <4>6, <4>7
    <3> QED
      BY <3>1, <3>2
  <2> QED
    BY <1>1, <1>3, <1>4, <1>5, <1>7, <1>9, <2>1, <2>2, <2>3, ReadIsNext
<1>11. DepthFirst(modules')
  BY <1>4, <1>5, <1>9, <1>10, DepthFirstGrows
<1>12. CallsInOrder(modules', calls')
  <2>1. \A k \in 1 .. n : calls'[k].path = calls[k].path
    <3> SUFFICES ASSUME NEW k \in 1 .. n PROVE calls'[k].path = calls[k].path
      OBVIOUS
    <3>1. k = n \/ k \in 1 .. n - 1
      OBVIOUS
    <3> QED
      BY <1>3, <1>6, <3>1
  <2>2. \A k \in 1 .. n - 1 :
          calls'[k].next = calls[k].next /\ calls[k].path \in PathsUpTo(modules, L)
    BY <1>6, <1>8
  <2>3. PICK M : M = modules
    OBVIOUS
  <2>4. PICK cs : cs = calls
    OBVIOUS
  <2>7. PICK N : N = modules'
    OBVIOUS
  <2>8. PICK ds : ds = calls'
    OBVIOUS
  <2>9. PICK a : a = n
    OBVIOUS
  <2>10. PICK b : b = L
    OBVIOUS
  <2>5. /\ a \in Nat \ {0} /\ b \in Nat
        /\ Len(cs) = a /\ Len(ds) = a /\ Len(M) = b /\ Len(N) = b + 1
        /\ \A p \in 1 .. b : N[p] = M[p]
        /\ N[b + 1].path = cs[a].path /\ cs[a].path \notin PathsUpTo(M, b)
        /\ CallsInOrder(M, cs)
    BY <1>1, <1>3, <1>4, <1>5, <1>6, <1>7, <1>9, <2>3, <2>4, <2>7, <2>8, <2>9, <2>10
  <2>6. /\ \A k \in 1 .. a : ds[k].path = cs[k].path
        /\ \A k \in 1 .. a - 1 : ds[k].next = cs[k].next
        /\ \A k \in 1 .. a - 1 : cs[k].path \in PathsUpTo(M, b)
    BY <2>1, <2>2, <2>3, <2>4, <2>8, <2>9, <2>10
  <2>11. CallsInOrder(N, ds)
    BY ONLY <2>5, <2>6, OrderWhenRead
  <2> QED
    BY ONLY <2>7, <2>8, <2>11
<1>13. NoneForgotten(modules', calls')
  <2> SUFFICES ASSUME NEW m \in 1 .. L + 1, NEW j \in 1 .. Len(modules'[m].imports),
                      modules'[m].imports[j] \notin PathsUpTo(modules', L + 1)
               PROVE  \E k \in 1 .. n : /\ calls'[k].path = modules'[m].path
                                        /\ calls'[k].next > 0 /\ calls'[k].next <= j
    BY <1>5, <1>6 DEF NoneForgotten
  <2>1. CASE m = L + 1
    BY <1>5, <1>6, <2>1
  <2>2. CASE m # L + 1
    <3>1. m \in 1 .. L /\ modules'[m] = modules[m]
      BY <1>5, <2>2
    <3>2. PathsUpTo(modules, L) \subseteq PathsUpTo(modules', L + 1) /\ f \in PathsUpTo(modules', L + 1)
      <4>1. 1 .. L \subseteq 1 .. L + 1 /\ L + 1 \in 1 .. L + 1
        OBVIOUS
      <4> QED
        BY <1>5, <4>1 DEF PathsUpTo
    <3>3. PICK k \in 1 .. n :
            /\ calls[k].path = modules[m].path /\ calls[k].next > 0
            /\ \/ calls[k].next <= j
               \/ k + 1 = n /\ calls[k + 1].next = 0 /\ calls[k].next = j + 1
      BY <1>1, <1>4, <1>9, <3>1, <3>2 DEF NoneForgotten
    <3>4. k # n
      BY <1>3, <3>3
    <3>5. k \in 1 .. n - 1 /\ calls'[k] = calls[k]
      BY <1>6, <3>4
    <3>6. ~ (k + 1 = n /\ calls[k].next = j + 1)
      <4> SUFFICES ASSUME k + 1 = n, calls[k].next = j + 1 PROVE FALSE
        OBVIOUS
      <4>1. k = n - 1 /\ n > 1 /\ n \in 1 .. n /\ j \in Nat /\ j + 1 - 1 = j
        OBVIOUS
      <4>2. f = calls[n - 1].imports[calls[n - 1].next - 1]
        BY <1>1, <1>3, <4>1 DEF LoadInv, CallsChain
      <4>3. PICK e \in Ids : /\ modules[e].path = calls[k].path
                             /\ modules[e].imports = calls[k].imports
        BY <1>1, <3>3 DEF LoadInv, CallsChain
      <4>4. e = m
        BY <1>5, <3>1, <3>3, <4>3 DEF LoadInv, PathsDistinct
      <4>5. f = modules[m].imports[j]
        <5>1. calls[n - 1] = calls[k]
          BY <4>1
        <5>2. f = calls[k].imports[calls[k].next - 1]
          BY <4>2, <5>1
        <5>3. calls[k].next - 1 = j
          BY <4>1
        <5> QED
          BY <4>3, <4>4, <5>2, <5>3
      <4> QED
        BY <3>1, <3>2, <4>5
    <3> QED
      BY <3>1, <3>3, <3>5, <3>6
  <2> QED
    BY <2>1, <2>2
<1> QED
  BY <1>3, <1>11, <1>12, <1>13 DEF WalkInv

(* The import that the call passes is the one whose file is looked at.     *)
LEMMA ImportWalks ==
  ASSUME LoadingTypeOK, LoadInv, WalkInv, LoadImport
  PROVE  WalkInv'
<1>1. PICK n \in Nat \ {0} : n = Len(calls)
  BY ImportCalled, CallFacts
<1>2. /\ Call = calls[n] /\ calls[n].next > 0 /\ calls[n].next \in Nat
      /\ \A k \in 1 .. n : calls[k] \in Frame
      /\ modules' = modules /\ phase = "loading" /\ phase' = phase
  BY <1>1, ImportCalled, CallFacts DEF Frame, LoadImport, Importing
<1>3. /\ Len(calls') = n + 1 /\ \A k \in 1 .. n - 1 : calls'[k] = calls[k]
      /\ calls'[n].path = calls[n].path /\ calls'[n].next = calls[n].next + 1
      /\ calls'[n + 1].next = 0
  <2>1. Call \in Frame
    BY ImportCalled, CallFacts
  <2>2. calls'[n] = [Call EXCEPT !.next = Call.next + 1]
    BY <1>1, ImportCalled
  <2>3. calls'[n].path = Call.path /\ calls'[n].next = Call.next + 1
    BY <2>1, <2>2 DEF Frame
  <2>4. Len(calls') = n + 1 /\ \A k \in 1 .. n - 1 : calls'[k] = calls[k]
    BY <1>1, ImportCalled
  <2>5. calls'[n + 1].next = 0
    BY <1>1, ImportCalled
  <2> QED
    BY <1>2, <2>3, <2>4, <2>5
<1>4. CallsInOrder(modules, calls) /\ NoneForgotten(modules, calls) /\ DepthFirst(modules)
  BY DEF WalkInv
<1>5. ASSUME NEW k \in 1 .. n
      PROVE  calls'[k].path = calls[k].path /\ (k # n => calls'[k] = calls[k])
  <2>1. k = n \/ k \in 1 .. n - 1
    OBVIOUS
  <2> QED
    BY <1>3, <2>1
<1>6. CallsInOrder(modules, calls')
  <2>1. ASSUME NEW k \in 1 .. n + 1
        PROVE  /\ calls'[k].next > 0 => k <= n /\ calls[k].next > 0
               /\ k <= n => calls'[k].path = calls[k].path
    <3>1. k = n + 1 \/ k = n \/ (k \in 1 .. n /\ k # n)
      OBVIOUS
    <3> QED
      BY <1>2, <1>3, <1>5, <3>1
  <2> QED
    BY <1>1, <1>3, <1>4, <2>1, OrderKept
<1>7. NoneForgotten(modules, calls')
  <2> SUFFICES ASSUME NEW m \in 1 .. Len(modules), NEW j \in 1 .. Len(modules[m].imports),
                      modules[m].imports[j] \notin PathsUpTo(modules, Len(modules))
               PROVE  \E k \in 1 .. n + 1 :
                        /\ calls'[k].path = modules[m].path /\ calls'[k].next > 0
                        /\ \/ calls'[k].next <= j
                           \/ k + 1 = n + 1 /\ calls'[k + 1].next = 0 /\ calls'[k].next = j + 1
    BY <1>3 DEF NoneForgotten
  <2>1. PICK k \in 1 .. n :
          /\ calls[k].path = modules[m].path /\ calls[k].next > 0
          /\ \/ calls[k].next <= j
             \/ k + 1 = n /\ calls[k + 1].next = 0 /\ calls[k].next = j + 1
    BY <1>1, <1>4 DEF NoneForgotten
  <2>2. calls[k].next <= j
    <3>1. k + 1 = n => calls[k + 1].next > 0
      BY <1>2
    <3> QED
      BY <1>2, <2>1, <3>1
  <2>3. k \in 1 .. n + 1
    OBVIOUS
  <2>4. CASE k = n
    <3>1. calls[n].next + 1 <= j \/ calls[n].next + 1 = j + 1
      BY <1>2, <2>2, <2>4
    <3> QED
      BY <1>2, <1>3, <2>1, <2>3, <2>4, <3>1
  <2>5. CASE k # n
    BY <1>5, <2>1, <2>2, <2>3, <2>5
  <2> QED
    BY <2>4, <2>5
<1> QED
  BY <1>2, <1>4, <1>6, <1>7 DEF WalkInv

(* Modules are loaded depth first throughout.                              *)
LEMMA NextWalks == IInv /\ WalkInv /\ [LoadingNext]_loadingVars => WalkInv'
<1> SUFFICES ASSUME IInv, WalkInv, [LoadingNext]_loadingVars PROVE WalkInv'
  OBVIOUS
<1>0. LoadingTypeOK /\ LoadInv
  BY DEF IInv
<1>1. ASSUME calls' = calls, modules' = modules,
             phase' \in {"exit 1", "exit 2"} => phase' = phase \/
               (calls # << >> /\ Call.next = 0 /\ Call.path \notin Loaded)
      PROVE  WalkInv'
  BY <1>1 DEF WalkInv, Call, Loaded
<1>2. CASE AlreadyLoaded
  <2>1. /\ phase = "loading" /\ calls # << >> /\ Call.next = 0 /\ Call.path \in Loaded
        /\ calls' = Callers /\ modules' = modules /\ phase' = phase
    BY <1>2 DEF AlreadyLoaded, Entering, IsNew
  <2> QED
    BY <1>0, <2>1, ReturnWalks
<1>3. CASE ReadFails \/ ParseFails
  BY <1>1, <1>3 DEF ReadFails, ParseFails, Entering, IsNew, loadVars
<1>4. ASSUME NEW list \in ImportLists, Insert(list)
      PROVE  WalkInv'
  BY <1>0, <1>4, InsertWalks
<1>5. CASE LoadImport
  BY <1>0, <1>5, ImportWalks
<1>6. CASE ImportsLoaded
  <2>1. /\ phase = "loading" /\ calls # << >> /\ Call.next > Len(Call.imports)
        /\ calls' = Callers /\ modules' = modules /\ phase' = phase
    BY <1>6 DEF ImportsLoaded, Importing
  <2> QED
    BY <1>0, <2>1, ReturnWalks
<1>7. CASE StartOrdering \/ Order \/ Postpone \/ RoundEnds
  <2>1. calls' = calls /\ modules' = modules
    BY <1>7 DEF StartOrdering, Order, Postpone, RoundEnds, loadVars
  <2>2. phase' \notin {"exit 1", "exit 2"}
    BY <1>7 DEF StartOrdering, Order, Postpone, RoundEnds, Visiting
  <2> QED
    BY <1>1, <2>1, <2>2
<1>8. CASE UNCHANGED loadingVars
  BY <1>1, <1>8 DEF loadingVars
<1> QED
  BY <1>2, <1>3, <1>4, <1>5, <1>6, <1>7, <1>8 DEF LoadingNext, Load

-----------------------------------------------------------------------------
(* The order of listing.  O is the list of module numbers.                 *)

(* What x imports is among the first q of the list.                        *)
ReadyAfter(M, O, q, x) ==
  \A j \in 1 .. Len(M[x].imports) : \E l \in 1 .. q : M[O[l]].path = M[x].imports[j]

LastOf(O, q) == IF q = 0 THEN 0 ELSE O[q]

Unlisted(O, q, x) == \A l \in 1 .. q : O[l] # x

(* Going round from behind l, y is met before x.                           *)
Sooner(l, y, x) == IF x > l THEN l < y /\ y < x ELSE y > l \/ y < x

(* After the first q of the list, the next is the module that, going round *)
(* from behind the last of them, is the first to be met that can be listed.*)
ListedNext(M, O, q, x) ==
  /\ ReadyAfter(M, O, q, x)
  /\ \A y \in 1 .. Len(M) :
       Unlisted(O, q, y) /\ ReadyAfter(M, O, q, y) => ~ Sooner(LastOf(O, q), y, x)

RoundRobin(M, O) == \A q \in 1 .. Len(O) : ListedNext(M, O, q - 1, O[q])

Ascending(U) == \A k, h \in 1 .. Len(U) : k < h => U[k] < U[h]

(* At position n of those that are not listed, U, none of the modules that *)
(* were visited since the last one was listed can be: either n is behind   *)
(* that one, or a new round has begun since.                               *)
Scanned(M, U, O, q, n) ==
  /\ Ascending(U)
  /\ \/ \A k \in 1 .. Len(U) :
          IF k < n THEN U[k] > LastOf(O, q) => ~ ReadyAfter(M, O, q, U[k])
          ELSE U[k] > LastOf(O, q)
     \/ \A k \in 1 .. Len(U) :
          k < n \/ U[k] > LastOf(O, q) => ~ ReadyAfter(M, O, q, U[k])

(* Only one module is listed next.                                         *)
LEMMA OneListedNext ==
  ASSUME NEW M, NEW O, NEW q, Len(M) \in Nat, LastOf(O, q) \in Nat,
         NEW x \in 1 .. Len(M), ListedNext(M, O, q, x), Unlisted(O, q, x),
         NEW y \in 1 .. Len(M), ListedNext(M, O, q, y), Unlisted(O, q, y)
  PROVE  x = y
<1>1. ~ Sooner(LastOf(O, q), y, x) /\ ~ Sooner(LastOf(O, q), x, y)
  BY DEF ListedNext
<1> HIDE DEF LastOf
<1>2. PICK l \in Nat : l = LastOf(O, q)
  OBVIOUS
<1>3. ~ Sooner(l, y, x) /\ ~ Sooner(l, x, y) /\ x \in Nat /\ y \in Nat
  BY <1>1, <1>2
<1> QED
  BY <1>3 DEF Sooner

(* What is listed next depends on what is listed before only.              *)
LEMMA ListedByPrefix ==
  ASSUME NEW M, NEW O, NEW P, NEW q \in Nat, \A l \in 1 .. q : P[l] = O[l], NEW x
  PROVE  ListedNext(M, O, q, x) => ListedNext(M, P, q, x)
<1>1. LastOf(P, q) = LastOf(O, q)
  BY DEF LastOf
<1>2. \A y : ReadyAfter(M, P, q, y) <=> ReadyAfter(M, O, q, y)
  BY DEF ReadyAfter
<1>3. \A y : Unlisted(P, q, y) <=> Unlisted(O, q, y)
  BY DEF Unlisted
<1> QED
  BY <1>1, <1>2, <1>3 DEF ListedNext

(* The module at the position, if it can be listed, is the one that is     *)
(* listed next.                                                            *)
LEMMA ScanFinds ==
  ASSUME NEW M, NEW U, NEW O, NEW q, NEW n \in 1 .. Len(U), Len(U) \in Nat,
         Len(M) \in Nat, \A k \in 1 .. Len(U) : U[k] \in Nat, LastOf(O, q) \in Nat,
         Scanned(M, U, O, q, n), ReadyAfter(M, O, q, U[n]),
         \A y \in 1 .. Len(M) : Unlisted(O, q, y) => \E k \in 1 .. Len(U) : U[k] = y
  PROVE  ListedNext(M, O, q, U[n])
<1> SUFFICES ASSUME NEW y \in 1 .. Len(M), Unlisted(O, q, y), ReadyAfter(M, O, q, y),
                    Sooner(LastOf(O, q), y, U[n])
             PROVE  FALSE
  BY DEF ListedNext
<1>1. PICK k \in 1 .. Len(U) : U[k] = y
  OBVIOUS
<1>2. PICK l \in Nat : l = LastOf(O, q)
  OBVIOUS
<1>3. PICK x \in Nat : x = U[n]
  OBVIOUS
<1>4. Sooner(l, y, x) /\ y \in Nat
  BY <1>2, <1>3
<1>5. /\ k < n => y < x
      /\ n < k => x < y
      /\ k = n => x = y
  BY <1>1, <1>3 DEF Scanned, Ascending
<1>6. CASE \A h \in 1 .. Len(U) : IF h < n THEN U[h] > l => ~ ReadyAfter(M, O, q, U[h])
                                  ELSE U[h] > l
  <2>1. x > l /\ (k < n => ~ (y > l))
    BY <1>1, <1>3, <1>6
  <2>2. l < y /\ y < x
    BY <1>4, <2>1 DEF Sooner
  <2> QED
    BY <1>2, <1>3, <1>4, <1>5, <2>1, <2>2
<1>7. CASE \A h \in 1 .. Len(U) : h < n \/ U[h] > l => ~ ReadyAfter(M, O, q, U[h])
  <2>1. ~ (x > l) /\ ~ (k < n) /\ ~ (y > l)
    BY <1>1, <1>3, <1>7
  <2>2. y < x
    BY <1>4, <2>1 DEF Sooner
  <2> QED
    BY <1>2, <1>3, <1>4, <1>5, <2>1, <2>2
<1> QED
  BY <1>2, <1>6, <1>7 DEF Scanned

(* When it has been listed, nothing behind it has been visited.            *)
LEMMA ScanOrders ==
  ASSUME NEW M, NEW U, NEW V, NEW O, NEW P, NEW q \in Nat, NEW n \in 1 .. Len(U),
         Len(U) \in Nat, \A k \in 1 .. Len(U) : U[k] \in Nat, Ascending(U),
         Len(V) = Len(U) - 1,
         \A k \in 1 .. Len(V) : V[k] = IF k < n THEN U[k] ELSE U[k + 1],
         P[q + 1] = U[n]
  PROVE  Scanned(M, V, P, q + 1, n)
<1>1. LastOf(P, q + 1) = U[n]
  BY DEF LastOf
<1>2. Ascending(V)
  <2> SUFFICES ASSUME NEW k \in 1 .. Len(V), NEW h \in 1 .. Len(V), k < h
               PROVE  V[k] < V[h]
    BY DEF Ascending
  <2>1. /\ k \in 1 .. Len(U) /\ k + 1 \in 1 .. Len(U) /\ h \in 1 .. Len(U)
        /\ h + 1 \in 1 .. Len(U) /\ k < h + 1 /\ k + 1 < h + 1
    OBVIOUS
  <2>2. U[k] < U[h] /\ U[k] < U[h + 1] /\ U[k + 1] < U[h + 1]
    BY <2>1 DEF Ascending
  <2>3. h < n => k < n
    OBVIOUS
  <2> QED
    BY <2>2, <2>3
<1>3. ASSUME NEW k \in 1 .. Len(V)
      PROVE  IF k < n THEN ~ (V[k] > LastOf(P, q + 1)) ELSE V[k] > LastOf(P, q + 1)
  <2>2. CASE k < n
    <3>1. k \in 1 .. Len(U) /\ V[k] = U[k]
      BY <2>2
    <3>2. U[k] < U[n] /\ U[k] \in Nat /\ U[n] \in Nat
      BY <2>2, <3>1 DEF Ascending
    <3> QED
      BY <1>1, <2>2, <3>1, <3>2
  <2>3. CASE ~ (k < n)
    <3>1. k + 1 \in 1 .. Len(U) /\ V[k] = U[k + 1] /\ n < k + 1
      BY <2>3
    <3>2. U[n] < U[k + 1] /\ U[k + 1] \in Nat /\ U[n] \in Nat
      BY <3>1 DEF Ascending
    <3> QED
      BY <1>1, <2>3, <3>1, <3>2
  <2> QED
    BY <2>2, <2>3
<1> QED
  BY <1>2, <1>3 DEF Scanned

(* A module that cannot be listed is passed.                               *)
LEMMA ScanPasses ==
  ASSUME NEW M, NEW U, NEW O, NEW q, NEW n \in 1 .. Len(U), Len(U) \in Nat,
         Scanned(M, U, O, q, n), ~ ReadyAfter(M, O, q, U[n])
  PROVE  Scanned(M, U, O, q, n + 1)
<1>1. \A k \in 1 .. Len(U) : (k < n + 1 <=> k < n \/ k = n) /\ (~ (k < n + 1) => ~ (k < n))
  OBVIOUS
<1>2. Ascending(U)
  BY DEF Scanned
<1>3. CASE \A k \in 1 .. Len(U) :
             IF k < n THEN U[k] > LastOf(O, q) => ~ ReadyAfter(M, O, q, U[k])
             ELSE U[k] > LastOf(O, q)
  <2>1. \A k \in 1 .. Len(U) :
          IF k < n + 1 THEN U[k] > LastOf(O, q) => ~ ReadyAfter(M, O, q, U[k])
          ELSE U[k] > LastOf(O, q)
    BY <1>1, <1>3
  <2> QED
    BY <1>2, <2>1 DEF Scanned
<1>4. CASE \A k \in 1 .. Len(U) : k < n \/ U[k] > LastOf(O, q) => ~ ReadyAfter(M, O, q, U[k])
  <2>1. \A k \in 1 .. Len(U) : k < n + 1 \/ U[k] > LastOf(O, q) => ~ ReadyAfter(M, O, q, U[k])
    BY <1>1, <1>4
  <2> QED
    BY <1>2, <2>1 DEF Scanned
<1> QED
  BY <1>3, <1>4 DEF Scanned

(* A new round begins.                                                     *)
LEMMA ScanWraps ==
  ASSUME NEW M, NEW U, NEW O, NEW q, NEW n \in Nat, Len(U) \in Nat, n > Len(U),
         Scanned(M, U, O, q, n)
  PROVE  Scanned(M, U, O, q, 1)
<1>1. \A k \in 1 .. Len(U) : k < n /\ ~ (k < 1)
  OBVIOUS
<1>2. \A k \in 1 .. Len(U) : U[k] > LastOf(O, q) => ~ ReadyAfter(M, O, q, U[k])
  BY <1>1 DEF Scanned
<1> QED
  BY <1>1, <1>2 DEF Scanned

(* The native ordering lists the modules in this order.                    *)
ScanInv ==
  /\ RoundRobin(modules, ordered)
  /\ phase = "ordering" => Scanned(modules, unprocessed, ordered, Len(ordered), i)

(* Ready is the same in these terms.                                       *)
LEMMA ReadyIs == \A m : Ready(m) <=> ReadyAfter(modules, ordered, Len(ordered), m)
  BY DEF Ready, Importable, ReadyAfter

(* What is not listed is unprocessed.                                      *)
LEMMA UnlistedIs ==
  ASSUME IInv, Begun, NEW m \in Ids, Unlisted(ordered, Len(ordered), m)
  PROVE  \E k \in 1 .. Len(unprocessed) : unprocessed[k] = m
  BY DEF IInv, OrderInv, Partition, Unlisted

(* The number of a listed module, and of the last of them.                 *)
LEMMA ListedFacts ==
  ASSUME LoadingTypeOK
  PROVE  /\ \A k \in 1 .. Len(ordered) : ordered[k] \in 1 .. Len(modules)
         /\ \A q \in 0 .. Len(ordered) : LastOf(ordered, q) \in Nat
<1>1. /\ ordered \in Seq(Ids) /\ Len(ordered) \in Nat
      /\ Len(modules) \in Nat /\ Ids = 1 .. Len(modules)
  BY Typed
<1>2. \A k \in 1 .. Len(ordered) : ordered[k] \in 1 .. Len(modules)
  BY <1>1
<1>3. ASSUME NEW q \in 0 .. Len(ordered)
      PROVE  LastOf(ordered, q) \in Nat
  <2>1. q = 0 \/ q \in 1 .. Len(ordered)
    BY <1>1
  <2> QED
    BY <1>2, <2>1 DEF LastOf
<1> QED
  BY <1>2, <1>3

(* Listing goes on at the module that comes next.                          *)
LEMMA OrderScans ==
  ASSUME IInv, ScanInv, Order
  PROVE  ScanInv'
<1>1. PICK M : M = modules
  OBVIOUS
<1>2. PICK U : U = unprocessed
  OBVIOUS
<1>3. PICK O : O = ordered
  OBVIOUS
<1>4. PICK R \in Nat : R = Len(ordered)
  BY Typed DEF IInv
<1>5. PICK p \in Nat : p = i
  BY Typed DEF IInv
<1>6. /\ phase = "ordering" /\ p <= Len(U) /\ Ready(U[p]) /\ i' = p
      /\ ordered' = Append(O, U[p]) /\ unprocessed' = RemoveAt(U, p) /\ modules' = M
  BY <1>1, <1>2, <1>3, <1>5 DEF Order, Visiting, loadVars
<1>7. /\ U \in Seq(Ids) /\ O \in Seq(Ids) /\ Len(M) \in Nat /\ Ids = 1 .. Len(M)
      /\ Len(U) \in Nat /\ p \in 1 .. Len(U)
  <2>1. /\ U \in Seq(Ids) /\ O \in Seq(Ids) /\ Len(M) \in Nat /\ Ids = 1 .. Len(M)
        /\ Len(U) \in Nat /\ p \in 1 .. Len(U) + 1
    BY <1>1, <1>2, <1>3, <1>5, Typed DEF IInv
  <2> QED
    BY <1>6, <2>1
<1>8. \A k \in 1 .. Len(U) : U[k] \in 1 .. Len(M) /\ U[k] \in Nat
  BY <1>7
<1>9. /\ Len(ordered') = R + 1 /\ ordered'[R + 1] = U[p]
      /\ \A k \in 1 .. R : ordered'[k] = O[k]
  <2>1. U[p] \in Ids
    BY <1>7
  <2> QED
    BY <1>3, <1>4, <1>6, <1>7, <2>1, AppendProperties
<1>10. /\ Len(unprocessed') = Len(U) - 1
       /\ \A k \in 1 .. Len(unprocessed') : unprocessed'[k] = IF k < p THEN U[k] ELSE U[k + 1]
  BY <1>6, <1>7, ElementRemoved DEF RemoveAt
<1>11. RoundRobin(M, O) /\ Scanned(M, U, O, R, p)
  BY <1>1, <1>2, <1>3, <1>4, <1>5, <1>6 DEF ScanInv
<1>12. ListedNext(M, O, R, U[p])
  <2>1. ReadyAfter(M, O, R, U[p])
    BY <1>1, <1>3, <1>4, <1>6, ReadyIs
  <2>2. ASSUME NEW y \in 1 .. Len(M), Unlisted(O, R, y)
        PROVE  \E k \in 1 .. Len(U) : U[k] = y
    BY <1>2, <1>3, <1>4, <1>6, <1>7, <2>2, UnlistedIs DEF Begun
  <2>3. LastOf(O, R) \in Nat
    BY <1>3, <1>4, ListedFacts DEF IInv
  <2> QED
    BY <1>7, <1>8, <1>11, <2>1, <2>2, <2>3, ScanFinds
<1>13. RoundRobin(M, ordered')
  <2> SUFFICES ASSUME NEW q \in 1 .. R + 1
               PROVE  ListedNext(M, ordered', q - 1, ordered'[q])
    BY <1>9 DEF RoundRobin
  <2>1. q - 1 \in Nat /\ \A k \in 1 .. q - 1 : ordered'[k] = O[k]
    BY <1>9
  <2>2. CASE q \in 1 .. R
    <3>1. ListedNext(M, O, q - 1, O[q]) /\ ordered'[q] = O[q]
      BY <1>3, <1>4, <1>9, <1>11, <2>2 DEF RoundRobin
    <3> QED
      BY <2>1, <3>1, ListedByPrefix
  <2>3. CASE q = R + 1
    <3>1. ListedNext(M, ordered', R, U[p])
      BY <1>9, <1>12, ListedByPrefix
    <3>2. q - 1 = R /\ ordered'[q] = U[p]
      BY <1>9, <2>3
    <3> QED
      BY <3>1, <3>2
  <2> QED
    BY <2>2, <2>3
<1>14. Scanned(M, unprocessed', ordered', R + 1, p)
  BY <1>7, <1>8, <1>9, <1>10, <1>11, ScanOrders DEF Scanned
<1> QED
  BY <1>6, <1>9, <1>13, <1>14 DEF ScanInv

(* No step breaks the order of listing.                                    *)
LEMMA NextScans == IInv /\ ScanInv /\ [LoadingNext]_loadingVars => ScanInv'
<1> SUFFICES ASSUME IInv, ScanInv, [LoadingNext]_loadingVars PROVE ScanInv'
  OBVIOUS
<1>1. ASSUME ordered' = << >>, phase' # "ordering"
      PROVE  ScanInv'
  BY <1>1 DEF ScanInv, RoundRobin
<1>2. CASE AlreadyLoaded \/ ReadFails \/ ParseFails \/ LoadImport \/ ImportsLoaded
  <2>1. phase = "loading" /\ phase' # "ordering" /\ ordered' = ordered
    BY <1>2 DEF AlreadyLoaded, ReadFails, ParseFails, LoadImport, ImportsLoaded,
                Entering, Importing, orderVars
  <2> QED
    BY <1>1, <2>1 DEF IInv, OrderInv, Begun
<1>3. ASSUME NEW list \in ImportLists, Insert(list)
      PROVE  ScanInv'
  <2>1. phase = "loading" /\ phase' = phase
    BY <1>3, Inserted DEF IInv
  <2>2. ordered' = ordered
    BY <1>3 DEF Insert, orderVars
  <2> QED
    BY <1>1, <2>1, <2>2 DEF IInv, OrderInv, Begun
<1>4. CASE StartOrdering
  <2>1. /\ unprocessed' = [k \in Ids |-> k] /\ ordered' = << >> /\ i' = 1
        /\ modules' = modules
    BY <1>4 DEF StartOrdering, loadVars
  <2>2. Len(modules) \in Nat /\ Ids = 1 .. Len(modules)
    BY Typed DEF IInv
  <2>3. /\ Len(unprocessed') = Len(modules) /\ Len(ordered') = 0
        /\ \A k \in 1 .. Len(modules) : unprocessed'[k] = k
    BY <2>1, <2>2
  <2>4. Ascending(unprocessed')
    BY <2>2, <2>3 DEF Ascending
  <2>5. \A k \in 1 .. Len(unprocessed') :
          IF k < 1 THEN unprocessed'[k] > LastOf(ordered', 0)
                          => ~ ReadyAfter(modules', ordered', 0, unprocessed'[k])
          ELSE unprocessed'[k] > LastOf(ordered', 0)
    BY <2>2, <2>3 DEF LastOf
  <2>6. Scanned(modules', unprocessed', ordered', 0, 1)
    BY <2>4, <2>5 DEF Scanned
  <2> QED
    BY <2>1, <2>3, <2>6 DEF ScanInv, RoundRobin
<1>5. CASE Order
  BY <1>5, OrderScans
<1>6. CASE Postpone
  <2>1. /\ phase = "ordering" /\ i <= Len(unprocessed) /\ ~ Ready(unprocessed[i]) /\ i' = i + 1
        /\ unprocessed' = unprocessed /\ ordered' = ordered /\ modules' = modules
    BY <1>6 DEF Postpone, Visiting, loadVars
  <2>2. i \in 1 .. Len(unprocessed) /\ Len(unprocessed) \in Nat
    BY <2>1, Typed DEF IInv
  <2>3. ~ ReadyAfter(modules, ordered, Len(ordered), unprocessed[i])
    BY <2>1, ReadyIs
  <2>4. Scanned(modules, unprocessed, ordered, Len(ordered), i + 1)
    BY <2>1, <2>2, <2>3, ScanPasses DEF ScanInv
  <2> QED
    BY <2>1, <2>4 DEF ScanInv
<1>7. CASE RoundEnds
  <2>1. /\ phase = "ordering" /\ i > Len(unprocessed) /\ i' = 1
        /\ unprocessed' = unprocessed /\ ordered' = ordered /\ modules' = modules
    BY <1>7 DEF RoundEnds, loadVars
  <2>2. i \in Nat /\ Len(unprocessed) \in Nat
    BY Typed DEF IInv
  <2>3. Scanned(modules, unprocessed, ordered, Len(ordered), 1)
    BY <2>1, <2>2, ScanWraps DEF ScanInv
  <2> QED
    BY <2>1, <2>3 DEF ScanInv
<1>8. CASE UNCHANGED loadingVars
  BY <1>8 DEF loadingVars, ScanInv
<1> QED
  BY <1>2, <1>3, <1>4, <1>5, <1>6, <1>7, <1>8 DEF LoadingNext, Load

-----------------------------------------------------------------------------
(* The other loader.                                                       *)

(* Its table of modules.                                                   *)
BootTable ==
  [p \in 1 .. Len(bootModules) |->
     [path |-> bootModules[p], imports |-> imports[bootModules[p]]]]

(* What it has loaded the native one has loaded first, in the same order.  *)
SamePrefix ==
  /\ Len(bootModules) <= Len(modules)
  /\ \A p \in 1 .. Len(bootModules) :
       modules[p].path = bootModules[p] /\ modules[p].imports = imports[bootModules[p]]

(* While it lists them, the native one has listed all modules it could; it *)
(* goes through the numbers U of those that are not listed, and lists the  *)
(* same.                                                                   *)
ListsAgree ==
  bootPhase \in {"ordering", "done"} =>
    /\ phase \in {"done", "trap"} /\ Len(bootModules) = Len(modules)
    /\ Len(bootOrdered) <= Len(ordered)
    /\ \A k \in 1 .. Len(bootOrdered) : bootOrdered[k] = modules[ordered[k]].path
    /\ \E U \in Seq(Ids) :
         /\ Len(U) = Len(bootUnprocessed)
         /\ \A k \in 1 .. Len(U) : bootUnprocessed[k] = modules[U[k]].path
         /\ Scanned(modules, U, ordered, Len(bootOrdered), bootI)

AgreeInv ==
  /\ Over \/ BootInit
  /\ SamePrefix /\ CallsInOrder(BootTable, bootCalls)
  /\ bootPhase = "failed" => phase \in {"exit 1", "exit 2"}
  /\ ListsAgree

LoadersInv == IInv /\ WalkInv /\ ScanInv /\ BootIInv /\ AgreeInv

(* The other loader's table, module by module.                             *)
LEMMA BootTableFacts ==
  ASSUME BootTypeOK
  PROVE  /\ BootTable \in Seq(Module) /\ Len(BootTable) = Len(bootModules)
         /\ Len(bootModules) \in Nat
         /\ \A p \in 1 .. Len(bootModules) :
              /\ BootTable[p].path = bootModules[p]
              /\ BootTable[p].imports = imports[bootModules[p]]
              /\ bootModules[p] \in BootLoaded
         /\ PathsUpTo(BootTable, Len(bootModules)) = BootLoaded
<1>1. /\ Len(bootModules) \in Nat
      /\ BootLoaded = {bootModules[k] : k \in 1 .. Len(bootModules)}
      /\ BootLoaded \subseteq Files /\ \A f \in BootLoaded : imports[f] \in Seq(Files)
  BY BootTyped
<1>2. ASSUME NEW p \in 1 .. Len(bootModules)
      PROVE  [path |-> bootModules[p], imports |-> imports[bootModules[p]]] \in Module
  BY <1>1 DEF Module
<1>3. BootTable \in Seq(Module) /\ Len(BootTable) = Len(bootModules)
  BY <1>1, <1>2 DEF BootTable
<1>4. \A p \in 1 .. Len(bootModules) :
        /\ BootTable[p].path = bootModules[p]
        /\ BootTable[p].imports = imports[bootModules[p]]
        /\ bootModules[p] \in BootLoaded
  BY <1>1 DEF BootTable
<1>5. PathsUpTo(BootTable, Len(bootModules)) = BootLoaded
  BY <1>1, <1>4 DEF PathsUpTo
<1> QED
  BY <1>1, <1>3, <1>4, <1>5

(* It forgets no import either: what a call has passed is loaded, but for  *)
(* the one that the next call is to read.                                  *)
LEMMA BootForgetsNone ==
  ASSUME BootTypeOK, BootLoadInv, BootLoaded # {} => Main \in BootLoaded
  PROVE  NoneForgotten(BootTable, bootCalls)
<1> SUFFICES ASSUME NEW m \in 1 .. Len(bootModules), NEW g \in BootLoaded, g = bootModules[m],
                    NEW j \in 1 .. Len(imports[g]), imports[g][j] \notin BootLoaded
             PROVE  \E k \in 1 .. Len(bootCalls) :
                      /\ bootCalls[k].path = g /\ bootCalls[k].next > 0
                      /\ \/ bootCalls[k].next <= j
                         \/ /\ k + 1 = Len(bootCalls) /\ bootCalls[k + 1].next = 0
                            /\ bootCalls[k].next = j + 1
  BY BootTableFacts DEF NoneForgotten
<1>1. imports[g][j] \notin Finished \cup {Main}
  BY DEF Finished
<1>2. g \in InProgress
  BY <1>1 DEF BootLoadInv, FinishedClosed, Finished
<1>3. PICK k \in 1 .. Len(bootCalls) : bootCalls[k].path = g
  BY <1>2 DEF InProgress
<1>4. bootCalls # << >> /\ Len(bootCalls) \in Nat /\ bootCalls \in Seq(BootFrame)
  <2>1. bootCalls \in Seq(BootFrame)
    BY DEF BootTypeOK, BootFrame
  <2> QED
    BY <1>3, <2>1
<1>5. \A l \in 1 .. Len(bootCalls) : bootCalls[l].next \in Nat
  <2>1. \A l \in 1 .. Len(bootCalls) : bootCalls[l] \in BootFrame
    BY <1>4
  <2> QED
    BY <2>1 DEF BootFrame
<1>6. bootCalls[k].next > 0
  BY <1>3, <1>5 DEF BootLoadInv, BootCallsChain
<1>7. CASE bootCalls[k].next <= j
  BY <1>3, <1>6, <1>7
<1>8. CASE ~ (bootCalls[k].next <= j)
  <2>1. j < bootCalls[k].next /\ j \in Nat
    BY <1>5, <1>8, BootTyped
  <2>2. k < Len(bootCalls) /\ j = bootCalls[k].next - 1
    BY <1>1, <1>3, <1>6, <2>1 DEF BootLoadInv, PassedFinished
  <2>3. PICK l \in 1 .. Len(bootCalls) : l = k + 1
    BY <1>4, <2>2
  <2>4. l > 1 /\ l - 1 = k
    BY <2>3
  <2>5. bootCalls[l].path = imports[g][j]
    <3>1. bootCalls[l].path = imports[bootCalls[l - 1].path][bootCalls[l - 1].next - 1]
      BY <2>4 DEF BootLoadInv, BootCallsChain
    <3> QED
      BY <1>3, <2>2, <2>4, <3>1
  <2>6. bootCalls[l].next = 0
    BY <1>5, <2>5 DEF BootLoadInv, BootCallsChain
  <2>7. l = Len(bootCalls)
    BY <2>6 DEF BootLoadInv, BootCallsChain
  <2>8. bootCalls[k].next = j + 1
    BY <1>5, <2>1, <2>2
  <2> QED
    BY <1>3, <1>6, <2>3, <2>6, <2>7, <2>8
<1> QED
  BY <1>7, <1>8

(* So the file that it reads is the one that comes next.                   *)
LEMMA BootReadIsNext ==
  ASSUME BootTypeOK, BootLoadInv, CallsInOrder(BootTable, bootCalls),
         bootCalls # << >>, BootCall.next = 0,
         Len(bootModules) > 0 => bootModules[1] = Main
  PROVE  ComesNext(BootTable, Len(bootModules), BootCall.path)
<1>1. PICK n \in Nat \ {0} : n = Len(bootCalls)
  BY BootCallFacts
<1>2. PICK f : f = BootCall.path
  OBVIOUS
<1>3. PICK M : M = BootTable
  OBVIOUS
<1>4. PICK L \in Nat : L = Len(bootModules)
  BY BootTableFacts
<1>5. f = bootCalls[n].path /\ bootCalls[n].next = 0 /\ \A k \in 1 .. n : bootCalls[k].next \in Nat
  BY <1>1, <1>2, BootCallFacts DEF BootFrame
<1>6. /\ M \in Seq(Module) /\ Len(M) = L
      /\ \A p \in 1 .. L : /\ M[p].path = bootModules[p] /\ M[p].imports = imports[bootModules[p]]
                           /\ bootModules[p] \in BootLoaded
      /\ PathsUpTo(M, L) = BootLoaded
  BY <1>3, <1>4, BootTableFacts
<1>7. f \notin PathsUpTo(M, L)
  <2>1. n \in 1 .. n
    OBVIOUS
  <2> QED
    BY <1>1, <1>5, <1>6, <2>1 DEF BootLoadInv, BootCallsChain
<1>8. NoneForgotten(M, bootCalls)
  <2>1. BootLoaded # {} => Main \in BootLoaded
    <3>1. BootLoaded # {} => 1 \in 1 .. L /\ L > 0
      BY <1>6 DEF PathsUpTo
    <3> QED
      BY <1>4, <1>6, <3>1
  <2> QED
    BY <1>3, <2>1, BootForgetsNone
<1>9. \A p, q \in 1 .. L : M[p].path = M[q].path => p = q
  BY <1>4, <1>6 DEF BootLoadInv, BootModulesNeeded
<1>10. \/ f = Main /\ (L = 0 \/ M[1].path = Main)
       \/ n > 1 /\ \E p \in 1 .. L : \E j \in 1 .. Len(M[p].imports) :
            /\ M[p].path = bootCalls[n - 1].path /\ bootCalls[n - 1].next = j + 1
            /\ f = M[p].imports[j]
  <2>1. CASE n = 1
    <3>1. f = Main
      BY <1>1, <1>5, <2>1 DEF BootLoadInv, BootCallsChain
    <3>2. L # 0 => 1 \in 1 .. L /\ L > 0
      OBVIOUS
    <3> QED
      BY <1>4, <1>6, <3>1, <3>2
  <2>2. CASE n # 1
    <3>1. n > 1 /\ n - 1 \in 1 .. n /\ n - 1 # n /\ n \in 1 .. n
      BY <2>2
    <3>2. bootCalls[n - 1].next > 0 /\ bootCalls[n - 1].next \in Nat
      BY <1>1, <1>5, <3>1 DEF BootLoadInv, BootCallsChain
    <3>3. bootCalls[n - 1].path \in BootLoaded
      BY <1>1, <3>1, <3>2 DEF BootLoadInv, BootCallsChain
    <3>8. bootCalls[n - 1].path \in PathsUpTo(M, L)
      BY <1>6, <3>3
    <3>9. PICK p \in 1 .. L : M[p].path = bootCalls[n - 1].path
      BY <3>8 DEF PathsUpTo
    <3>4. bootModules[p] = bootCalls[n - 1].path
      BY <1>6, <3>9
    <3>5. /\ bootCalls[n - 1].next - 1 \in 1 .. Len(imports[bootCalls[n - 1].path])
          /\ f = imports[bootCalls[n - 1].path][bootCalls[n - 1].next - 1]
      BY <1>1, <1>5, <3>1 DEF BootLoadInv, BootCallsChain
    <3>10. M[p].imports = imports[bootCalls[n - 1].path]
      BY <1>6, <3>4
    <3>6. PICK j \in 1 .. Len(M[p].imports) : j = bootCalls[n - 1].next - 1
      BY <3>5, <3>10
    <3>11. f = M[p].imports[j]
      BY <3>5, <3>6, <3>10
    <3>12. bootCalls[n - 1].next = j + 1
      BY <3>2, <3>6
    <3>7. bootCalls[n - 1].next = j + 1 /\ f = M[p].imports[j] /\ M[p].path = bootCalls[n - 1].path
      BY <3>9, <3>11, <3>12
    <3> QED
      BY <3>1, <3>7
  <2> QED
    BY <2>1, <2>2
<1>11. ComesNext(M, Len(M), f)
  <2>1. PICK cs : cs = bootCalls
    OBVIOUS
  <2>2. /\ M \in Seq(Module) /\ n = Len(cs) /\ f = cs[n].path /\ cs[n].next = 0
        /\ f \notin PathsUpTo(M, Len(M)) /\ \A k \in 1 .. n : cs[k].next \in Nat
        /\ CallsInOrder(M, cs) /\ NoneForgotten(M, cs)
    BY <1>1, <1>3, <1>5, <1>6, <1>7, <1>8, <2>1
  <2>3. \A p, q \in 1 .. Len(M) : M[p].path = M[q].path => p = q
    BY <1>6, <1>9
  <2>4. \/ f = Main /\ (Len(M) = 0 \/ M[1].path = Main)
        \/ n > 1 /\ \E p \in 1 .. Len(M) : \E j \in 1 .. Len(M[p].imports) :
             /\ M[p].path = cs[n - 1].path /\ cs[n - 1].next = j + 1
             /\ f = M[p].imports[j]
    <3>1. Len(M) = L
      BY <1>6
    <3> QED
      BY <1>10, <2>1, <3>1, Zenon
  <2> QED
    BY ONLY n \in Nat, <2>2, <2>3, <2>4, ReadIsNext, ZenonT(60)
<1> QED
  BY <1>2, <1>3, <1>4, <1>6, <1>11

(* When the native loader has loaded the program, it has loaded all that   *)
(* its modules import.                                                     *)
LEMMA LoadedClosed ==
  ASSUME IInv, Begun
  PROVE  /\ Main \in Loaded
         /\ \A m \in Ids : \A j \in 1 .. Len(modules[m].imports) : modules[m].imports[j] \in Loaded
<1>1. calls = << >> /\ Len(calls) = 0 /\ LoadInv
  BY DEF IInv, OrderInv
<1>2. Main \in Loaded
  BY <1>1 DEF LoadInv, ModulesNeeded
<1>3. \A f : ~ Pending(f)
  BY <1>1 DEF Pending
<1>4. \A k \in 1 .. Len(calls) : FALSE
  BY <1>1
<1>5. \A m \in Ids : \A j \in 1 .. Len(modules[m].imports) : modules[m].imports[j] \in Loaded
  BY <1>1, <1>3, <1>4 DEF LoadInv, ImportsAttended
<1> QED
  BY <1>2, <1>5

(* What the other loader looks at is the main file or an import of a       *)
(* module that the native one has loaded too.                              *)
LEMMA BootCallNeeded ==
  ASSUME LoadingTypeOK, BootTypeOK, BootLoadInv, SamePrefix, bootCalls # << >>
  PROVE  \/ BootCall.path = Main
         \/ \E m \in Ids : \E j \in 1 .. Len(modules[m].imports) :
              BootCall.path = modules[m].imports[j]
<1>1. PICK n \in Nat \ {0} : n = Len(bootCalls)
  BY BootCallFacts
<1>2. BootCall = bootCalls[n] /\ \A k \in 1 .. n : bootCalls[k] \in BootFrame
  BY <1>1, BootCallFacts
<1>3. CASE n = 1
  BY <1>1, <1>2, <1>3 DEF BootLoadInv, BootCallsChain
<1>4. CASE n # 1
  <2>1. n > 1 /\ n - 1 \in 1 .. n /\ n - 1 # n /\ n \in 1 .. n
    BY <1>4
  <2>2. bootCalls[n - 1].next \in Nat
    BY <1>2, <2>1 DEF BootFrame
  <2>3. bootCalls[n - 1].path \in BootLoaded
    BY <1>1, <2>1, <2>2 DEF BootLoadInv, BootCallsChain
  <2>4. /\ bootCalls[n - 1].next - 1 \in 1 .. Len(imports[bootCalls[n - 1].path])
        /\ BootCall.path = imports[bootCalls[n - 1].path][bootCalls[n - 1].next - 1]
    BY <1>1, <1>2, <2>1 DEF BootLoadInv, BootCallsChain
  <2>5. PICK p \in 1 .. Len(bootModules) : bootModules[p] = bootCalls[n - 1].path
    BY <2>3, BootTyped
  <2>6. modules[p].imports = imports[bootCalls[n - 1].path] /\ p \in Ids
    <3>1. Len(bootModules) \in Nat /\ Len(modules) \in Nat /\ Ids = 1 .. Len(modules)
      BY Typed, BootTyped
    <3> QED
      BY <2>5, <3>1 DEF SamePrefix
  <2> QED
    BY <2>4, <2>6
<1> QED
  BY <1>3, <1>4

(* It fails only where the native one has exited.                          *)
LEMMA FailureAgrees ==
  ASSUME IInv, BootTypeOK, BootLoadInv, SamePrefix, Over, LoadFails, SameFiles
  PROVE  phase \in {"exit 1", "exit 2"}
<1> SUFFICES ASSUME Begun PROVE FALSE
  BY DEF Over, Begun
<1>1. bootCalls # << >> /\ BootCall.path \notin Loaded
  BY DEF LoadFails, BootEntering, SameFiles
<1> QED
  BY <1>1, LoadedClosed, BootCallNeeded DEF IInv

(* Calls that go on keep their order.                                      *)
LEMMA BootCallsOrdered ==
  ASSUME BootTypeOK, BootLoadInv, CallsInOrder(BootTable, bootCalls),
         SkipLoaded \/ BootLoadImport \/ BootImportsLoaded
  PROVE  CallsInOrder(BootTable', bootCalls')
<1>1. bootModules' = bootModules /\ imports' = imports /\ bootCalls # << >>
  BY DEF SkipLoaded, BootLoadImport, BootImportsLoaded, AtImport
<1>2. BootTable' = BootTable
  BY <1>1 DEF BootTable
<1>3. PICK M : M = BootTable
  OBVIOUS
<1>4. PICK n \in Nat \ {0} : n = Len(bootCalls)
  BY <1>1, BootCallFacts
<1>5. PICK cs : cs = bootCalls
  OBVIOUS
<1>6. ASSUME NEW ds \in Seq(BootFrame), Len(ds) = n, \A k \in 1 .. n - 1 : ds[k] = cs[k],
             ds[n].path = cs[n].path, cs[n].next > 0
      PROVE  \A k \in 1 .. n : ds[k].path = cs[k].path /\ (ds[k].next > 0 => cs[k].next > 0)
  <2>1. \A k \in 1 .. n : k = n \/ k \in 1 .. n - 1
    OBVIOUS
  <2> QED
    BY <1>6, <2>1
<1>7. ASSUME AtImport
      PROVE  /\ NextImport \in Seq(BootFrame) /\ Len(NextImport) = n
             /\ \A k \in 1 .. n :
                  NextImport[k].path = cs[k].path /\ (NextImport[k].next > 0 => cs[k].next > 0)
  <2>1. /\ NextImport \in Seq(BootFrame) /\ Len(NextImport) = n
        /\ \A k \in 1 .. n - 1 : NextImport[k] = cs[k]
        /\ NextImport[n] = [path |-> BootCall.path, next |-> BootCall.next + 1]
        /\ BootCall.next > 0
    BY <1>4, <1>5, <1>7, ImportFacts
  <2>2. BootCall = cs[n]
    BY <1>1, <1>4, <1>5, BootCallFacts
  <2>3. NextImport[n].path = cs[n].path /\ cs[n].next > 0
    BY <2>1, <2>2
  <2> QED
    BY <1>6, <2>1, <2>3
<1>8. /\ Len(bootCalls') \in Nat /\ Len(cs) = n /\ Len(cs) \in Nat
      /\ \A k \in 1 .. Len(bootCalls') : bootCalls'[k].next > 0 => k <= Len(cs) /\ cs[k].next > 0
      /\ \A k \in 1 .. Len(bootCalls') : k <= Len(cs) => bootCalls'[k].path = cs[k].path
  <2>1. CASE SkipLoaded
    <3>1. AtImport /\ bootCalls' = NextImport
      BY <2>1 DEF SkipLoaded
    <3> QED
      BY <1>4, <1>5, <1>7, <3>1
  <2>2. CASE BootLoadImport
    <3>1. /\ AtImport /\ bootCalls' = Append(NextImport, [path |-> Imported, next |-> 0])
          /\ [path |-> Imported, next |-> 0] \in BootFrame
      BY <2>2, ImportFacts DEF BootLoadImport, BootFrame
    <3>2. /\ Len(bootCalls') = n + 1 /\ \A k \in 1 .. n : bootCalls'[k] = NextImport[k]
          /\ bootCalls'[n + 1] = [path |-> Imported, next |-> 0]
      BY <1>7, <3>1, AppendProperties
    <3>3. ~ (bootCalls'[n + 1].next > 0)
      BY <3>2
    <3>4. \A k \in 1 .. n + 1 : k \in 1 .. n \/ (k = n + 1 /\ ~ (k <= n))
      OBVIOUS
    <3> QED
      BY <1>4, <1>5, <1>7, <3>1, <3>2, <3>3, <3>4
  <2>3. CASE BootImportsLoaded
    <3>1. bootCalls' = Front(bootCalls)
      BY <2>3 DEF BootImportsLoaded
    <3>2. Len(bootCalls') = n - 1 /\ \A k \in 1 .. n - 1 : bootCalls'[k] = cs[k]
      BY <1>1, <1>4, <1>5, <3>1, BootCallFacts
    <3> QED
      BY <1>4, <1>5, <3>2
  <2> QED
    BY <2>1, <2>2, <2>3
<1>9. CallsInOrder(M, cs)
  BY <1>3, <1>5
<1>10. CallsInOrder(M, bootCalls')
  BY <1>8, <1>9, OrderKept
<1> QED
  BY <1>2, <1>3, <1>10

(* The module that it adds to its table is the next in the native one.     *)
LEMMA InsertAgrees ==
  ASSUME IInv, WalkInv, BootTypeOK, BootLoadInv, SamePrefix, CallsInOrder(BootTable, bootCalls),
         NEW list \in ImportLists, BootInsert(list), SameFiles, modules' = modules
  PROVE  SamePrefix' /\ CallsInOrder(BootTable', bootCalls')
<1>1. PICK M : M = modules
  OBVIOUS
<1>2. PICK B : B = BootTable
  OBVIOUS
<1>3. PICK f : f = BootCall.path
  OBVIOUS
<1>4. PICK L \in Nat : L = Len(bootModules)
  BY BootTableFacts
<1>5. PICK K \in Nat : K = Len(modules)
  BY Typed DEF IInv
<1>6. /\ M \in Seq(Module) /\ Len(M) = K /\ Ids = 1 .. K /\ L <= K
      /\ \A p \in 1 .. L : M[p].path = bootModules[p] /\ M[p].imports = imports[bootModules[p]]
      /\ \A p, q \in 1 .. K : M[p].path = M[q].path => p = q
      /\ DepthFirst(M)
  <2>1. M \in Seq(Module) /\ Len(M) = K /\ Ids = 1 .. K
    BY <1>1, <1>5, Typed DEF IInv
  <2>2. L <= K /\ \A p \in 1 .. L : M[p].path = bootModules[p] /\ M[p].imports = imports[bootModules[p]]
    BY <1>1, <1>4, <1>5 DEF SamePrefix
  <2>3. \A p, q \in 1 .. K : M[p].path = M[q].path => p = q
    BY <1>1, <2>1 DEF IInv, LoadInv, PathsDistinct
  <2>4. DepthFirst(M)
    BY <1>1 DEF WalkInv
  <2> QED
    BY <2>1, <2>2, <2>3, <2>4
<1>7. /\ B \in Seq(Module) /\ Len(B) = L
      /\ \A p \in 1 .. L : /\ B[p].path = bootModules[p] /\ B[p].imports = imports[bootModules[p]]
                           /\ bootModules[p] \in BootLoaded
      /\ PathsUpTo(B, L) = BootLoaded
  BY <1>2, <1>4, BootTableFacts
<1>8. /\ bootCalls # << >> /\ BootCall.next = 0 /\ f \notin BootLoaded
      /\ Len(bootModules') = L + 1 /\ \A k \in 1 .. L : bootModules'[k] = bootModules[k]
      /\ bootModules'[L + 1] = f
      /\ \A g \in BootLoaded : imports'[g] = imports[g]
      /\ f \in DOMAIN imports'
  BY <1>3, <1>4, BootInserted
<1>9. \A p \in 1 .. L : M[p] = B[p]
  <2> SUFFICES ASSUME NEW p \in 1 .. L PROVE M[p] = B[p]
    OBVIOUS
  <2>1. M[p] \in Module /\ B[p] \in Module
    BY <1>6, <1>7
  <2>2. M[p].path = B[p].path /\ M[p].imports = B[p].imports
    BY <1>6, <1>7
  <2> QED
    BY <2>1, <2>2 DEF Module
<1>10. ComesNext(M, L, f) /\ PathsUpTo(M, L) = BootLoaded
  <2>1. L > 0 => bootModules[1] = Main
    <3> SUFFICES ASSUME L > 0 PROVE bootModules[1] = Main
      OBVIOUS
    <3>1. 1 \in 1 .. L /\ 1 \in 1 .. K /\ 1 - 1 = 0
      BY <1>6
    <3>2. ComesNext(M, 1 - 1, M[1].path)
      BY <1>6, <3>1 DEF DepthFirst
    <3>3. M[1].path = Main
      BY <3>1, <3>2 DEF ComesNext
    <3> QED
      BY <1>6, <3>1, <3>3
  <2>2. ComesNext(B, L, f)
    BY <1>2, <1>3, <1>4, <1>8, <2>1, BootReadIsNext
  <2> QED
    BY <1>7, <1>9, <2>2, NextByPrefix
<1>11. PICK k \in 1 .. K : M[k].path = f /\ M[k].imports = imports'[f]
  BY <1>1, <1>6, <1>8 DEF SameFiles
<1>12. ~ (k <= L)
  <2> SUFFICES ASSUME k <= L PROVE FALSE
    OBVIOUS
  <2>1. k \in 1 .. L
    OBVIOUS
  <2> QED
    BY <1>6, <1>7, <1>8, <1>11, <2>1
<1>13. L + 1 \in 1 .. K
  BY <1>12
<1>14. PICK g : g = M[L + 1].path
  OBVIOUS
<1>15. ComesNext(M, L, g) /\ g \notin PathsUpTo(M, L)
  <2>1. L + 1 - 1 = L
    OBVIOUS
  <2>2. ComesNext(M, L + 1 - 1, M[L + 1].path)
    BY <1>6, <1>13 DEF DepthFirst
  <2>3. ASSUME NEW p \in 1 .. L
        PROVE  M[p].path # g
    <3>1. p \in 1 .. K /\ p # L + 1
      BY <1>6
    <3> QED
      BY <1>6, <1>13, <1>14, <3>1
  <2> QED
    BY <1>14, <2>1, <2>2, <2>3 DEF PathsUpTo
<1>16. f = g
  BY <1>6, <1>8, <1>10, <1>15, OneComesNext
<1>17. k = L + 1
  BY <1>6, <1>11, <1>13, <1>14, <1>16
<1>18. SamePrefix'
  <2>1. L + 1 <= K
    BY <1>13
  <2>2. ASSUME NEW p \in 1 .. L + 1
        PROVE  M[p].path = bootModules'[p] /\ M[p].imports = imports'[bootModules'[p]]
    <3>1. p = L + 1 \/ p \in 1 .. L
      OBVIOUS
    <3>2. CASE p = L + 1
      BY <1>8, <1>11, <1>17, <3>2
    <3>3. CASE p \in 1 .. L
      BY <1>6, <1>7, <1>8, <3>3
    <3> QED
      BY <3>1, <3>2, <3>3
  <2> QED
    BY <1>1, <1>5, <1>8, <2>1, <2>2 DEF SamePrefix
<1>19. CallsInOrder(BootTable', bootCalls')
  <2>1. PICK n \in Nat \ {0} : n = Len(bootCalls)
    BY <1>8, BootCallFacts
  <2>2. PICK cs : cs = bootCalls
    OBVIOUS
  <2>3. f = cs[n].path /\ cs[n].next = 0 /\ \A k1 \in 1 .. n : cs[k1] \in BootFrame
    BY <1>3, <1>8, <2>1, <2>2, BootCallFacts
  <2>4. /\ Len(bootCalls') = n /\ \A k1 \in 1 .. n - 1 : bootCalls'[k1] = cs[k1]
        /\ bootCalls'[n] = [path |-> f, next |-> 1]
    BY <1>3, <2>1, <2>2, BootInserted
  <2>5. \A k1 \in 1 .. n : bootCalls'[k1].path = cs[k1].path
    <3>1. \A k1 \in 1 .. n : k1 = n \/ k1 \in 1 .. n - 1
      OBVIOUS
    <3> QED
      BY <2>3, <2>4, <3>1
  <2>6. ASSUME NEW k1 \in 1 .. n - 1
        PROVE  bootCalls'[k1].next = cs[k1].next /\ cs[k1].path \in PathsUpTo(B, L)
    <3>1. k1 \in 1 .. n /\ k1 # n
      OBVIOUS
    <3>2. cs[k1].next \in Nat
      BY <2>3, <3>1 DEF BootFrame
    <3>3. cs[k1].path \in BootLoaded
      BY <2>1, <2>2, <3>1, <3>2 DEF BootLoadInv, BootCallsChain
    <3> QED
      BY <1>7, <2>4, <3>3
  <2>7. /\ Len(BootTable') = L + 1 /\ \A p \in 1 .. L : BootTable'[p] = B[p]
        /\ BootTable'[L + 1].path = f
    <3>1. BootTable' = [p \in 1 .. L + 1 |-> [path |-> bootModules'[p], imports |-> imports'[bootModules'[p]]]]
      BY <1>8 DEF BootTable
    <3>2. B = [p \in 1 .. L |-> [path |-> bootModules[p], imports |-> imports[bootModules[p]]]]
      BY <1>2, <1>4 DEF BootTable
    <3>3. \A p \in 1 .. L : p \in 1 .. L + 1 /\ imports'[bootModules'[p]] = imports[bootModules[p]]
      BY <1>7, <1>8
    <3>4. L + 1 \in Nat /\ L + 1 \in 1 .. L + 1
      OBVIOUS
    <3> QED
      BY <1>8, <3>1, <3>2, <3>3, <3>4
  <2>8. CallsInOrder(B, cs) /\ cs[n].path \notin PathsUpTo(B, L) /\ Len(cs) = n
    BY <1>2, <1>7, <1>8, <2>1, <2>2, <2>3
  <2>9. /\ \A k1 \in 1 .. n - 1 : bootCalls'[k1].next = cs[k1].next
        /\ \A k1 \in 1 .. n - 1 : cs[k1].path \in PathsUpTo(B, L)
        /\ Len(bootCalls') = n /\ Len(B) = L /\ BootTable'[L + 1].path = cs[n].path
    <3>1. Len(B) = L
      BY <1>7
    <3>2. Len(bootCalls') = n
      BY <2>4
    <3>3. BootTable'[L + 1].path = cs[n].path
      BY <2>3, <2>7
    <3> QED
      BY <2>6, <3>1, <3>2, <3>3, Zenon
  <2>10. PICK ds : ds = bootCalls'
    OBVIOUS
  <2>11. PICK N : N = BootTable'
    OBVIOUS
  <2>12. /\ Len(ds) = n /\ \A k1 \in 1 .. n : ds[k1].path = cs[k1].path
         /\ \A k1 \in 1 .. n - 1 : ds[k1].next = cs[k1].next
         /\ Len(N) = L + 1 /\ \A p \in 1 .. L : N[p] = B[p]
         /\ N[L + 1].path = cs[n].path
    BY <2>5, <2>7, <2>9, <2>10, <2>11, Zenon
  <2>13. CallsInOrder(N, ds)
    <3>1. n \in Nat \ {0} /\ L \in Nat
      BY <1>2, <1>7, <2>2
    <3>2. Len(B) = L /\ \A k1 \in 1 .. n - 1 : cs[k1].path \in PathsUpTo(B, L)
      BY <2>9
    <3> QED
      BY ONLY <2>8, <2>12, <3>1, <3>2, OrderWhenRead
  <2> QED
    BY <2>10, <2>11, <2>13
<1> QED
  BY <1>18, <1>19

(* When it is through with loading, it has loaded all that its modules     *)
(* import.                                                                 *)
LEMMA BootLoadedClosed ==
  ASSUME BootTypeOK, BootLoadInv, bootCalls = << >>
  PROVE  /\ Main \in BootLoaded
         /\ \A f \in BootLoaded : \A j \in 1 .. Len(imports[f]) : imports[f][j] \in BootLoaded
<1>1. Main \in BootLoaded
  BY DEF BootLoadInv, BootModulesNeeded
<1>2. Finished = BootLoaded
  <2>1. Len(bootCalls) = 0
    OBVIOUS
  <2>2. InProgress = {}
    BY <2>1 DEF InProgress
  <2> QED
    BY <2>2 DEF Finished
<1> QED
  BY <1>1, <1>2 DEF BootLoadInv, FinishedClosed

(* Then the native one has loaded the program: no more modules, and it has *)
(* not exited over one.                                                    *)
LEMMA LoadedAlike ==
  ASSUME IInv, WalkInv, BootTypeOK, BootLoadInv, SamePrefix, bootCalls = << >>
  PROVE  Len(bootModules) = Len(modules) /\ phase \notin {"exit 1", "exit 2"}
<1>1. PICK M : M = modules
  OBVIOUS
<1>2. PICK L \in Nat : L = Len(bootModules)
  BY BootTyped
<1>3. PICK K \in Nat : K = Len(modules)
  BY Typed DEF IInv
<1>4. /\ Ids = 1 .. K /\ L <= K
      /\ \A p \in 1 .. L : /\ M[p].path = bootModules[p] /\ M[p].imports = imports[bootModules[p]]
                           /\ bootModules[p] \in BootLoaded
      /\ \A p, q \in 1 .. K : M[p].path = M[q].path => p = q
      /\ DepthFirst(M)
  <2>1. Ids = 1 .. K
    BY <1>3, Typed DEF IInv
  <2>2. L <= K /\ \A p \in 1 .. L : M[p].path = bootModules[p] /\ M[p].imports = imports[bootModules[p]]
    BY <1>1, <1>2, <1>3 DEF SamePrefix
  <2>3. \A p, q \in 1 .. K : M[p].path = M[q].path => p = q
    BY <1>1, <2>1 DEF IInv, LoadInv, PathsDistinct
  <2>4. DepthFirst(M)
    BY <1>1 DEF WalkInv
  <2>5. \A p \in 1 .. L : bootModules[p] \in BootLoaded
    BY <1>2, BootTyped
  <2> QED
    BY <2>1, <2>2, <2>3, <2>4, <2>5
<1>5. \A f \in BootLoaded : \E p \in 1 .. L : M[p].path = f
  <2>1. \A f \in BootLoaded : \E p \in 1 .. L : bootModules[p] = f
    BY <1>2, BootTyped
  <2> QED
    BY <1>4, <2>1
<1>6. Main \in BootLoaded /\ \A p \in 1 .. L : \A j \in 1 .. Len(M[p].imports) : M[p].imports[j] \in BootLoaded
  BY <1>4, BootLoadedClosed
<1>7. L = K
  <2> SUFFICES ASSUME L # K PROVE FALSE
    OBVIOUS
  <2>1. L + 1 \in 1 .. K /\ L + 1 - 1 = L
    BY <1>4
  <2>2. PICK f : f = M[L + 1].path
    OBVIOUS
  <2>3. ComesNext(M, L, f)
    <3>1. ComesNext(M, L + 1 - 1, M[L + 1].path)
      BY <1>3, <1>4, <1>1, <2>1 DEF DepthFirst
    <3> QED
      BY <2>1, <2>2, <3>1
  <2>4. f \in BootLoaded
    BY <1>6, <2>3 DEF ComesNext
  <2>5. PICK p \in 1 .. L : M[p].path = f
    BY <1>5, <2>4
  <2>6. p \in 1 .. K /\ p # L + 1
    BY <1>4
  <2> QED
    BY <1>4, <2>1, <2>2, <2>5, <2>6
<1>8. ASSUME calls # << >>, Call.next = 0, Call.path \notin Loaded
      PROVE  FALSE
  <2>1. calls # << >> /\ Call.next = 0 /\ Call.path \notin Loaded
    BY <1>8
  <2>2. PICK n \in Nat \ {0} : n = Len(calls)
    BY <2>1, CallFacts DEF IInv
  <2>3. Call = calls[n] /\ \A k \in 1 .. n : calls[k] \in Frame
    BY <2>1, <2>2, CallFacts DEF IInv
  <2>4. BootLoaded \subseteq Loaded
    BY <1>1, <1>3, <1>5, <1>7 DEF Loaded
  <2>5. Call.path \in BootLoaded
    <3>1. CASE n = 1
      BY <1>6, <2>1, <2>2, <2>3, <3>1 DEF IInv, LoadInv, CallsChain
    <3>2. CASE n # 1
      <4>1. n > 1 /\ n - 1 \in 1 .. n /\ n \in 1 .. n
        BY <3>2
      <4>2. /\ calls[n - 1].next - 1 \in 1 .. Len(calls[n - 1].imports)
            /\ Call.path = calls[n - 1].imports[calls[n - 1].next - 1]
        BY <2>2, <2>3, <4>1 DEF IInv, LoadInv, CallsChain
      <4>3. calls[n - 1].next \in Nat
        BY <2>3, <4>1 DEF Frame
      <4>4. calls[n - 1].next > 0
        BY <4>2, <4>3
      <4>5. PICK m \in Ids : modules[m].path = calls[n - 1].path /\ modules[m].imports = calls[n - 1].imports
        BY <2>2, <4>1, <4>4 DEF IInv, LoadInv, CallsChain
      <4> QED
        BY <1>1, <1>4, <1>6, <1>7, <4>2, <4>5
    <3> QED
      BY <3>1, <3>2
  <2> QED
    BY <2>1, <2>4, <2>5
<1>9. phase \notin {"exit 1", "exit 2"}
  BY <1>8, Zenon DEF WalkInv
<1> QED
  BY <1>2, <1>3, <1>7, <1>9

-----------------------------------------------------------------------------
(* The other ordering.                                                     *)

(* It begins with all modules.                                             *)
LEMMA StartAgrees ==
  ASSUME IInv, WalkInv, BootTypeOK, BootLoadInv, SamePrefix, Over,
         BootStartOrdering, UNCHANGED loadingVars
  PROVE  ListsAgree'
<1>1. PICK L \in Nat : L = Len(modules)
  BY Typed DEF IInv
<1>2. PICK M : M = modules
  OBVIOUS
<1>3. /\ bootCalls = << >> /\ bootUnprocessed' = bootModules /\ bootOrdered' = << >>
      /\ bootI' = 1 /\ bootModules' = bootModules
      /\ modules' = M /\ phase' = phase /\ ordered' = ordered
  BY <1>2 DEF BootStartOrdering, bootLoadVars, loadingVars
<1>4. Len(bootModules) = L /\ phase \in {"done", "trap"}
  BY <1>1, <1>3, LoadedAlike DEF Over
<1>5. PICK U : U = [k \in 1 .. L |-> k]
  OBVIOUS
<1>6. U \in Seq(1 .. L) /\ Len(U) = L /\ \A k \in 1 .. L : U[k] = k /\ U[k] \in Nat
  BY <1>5
<1>7. Ascending(U)
  BY <1>6 DEF Ascending
<1>8. Scanned(M, U, ordered, 0, 1)
  <2>1. \A k \in 1 .. Len(U) :
          IF k < 1 THEN U[k] > LastOf(ordered, 0) => ~ ReadyAfter(M, ordered, 0, U[k])
          ELSE U[k] > LastOf(ordered, 0)
    BY <1>6 DEF LastOf
  <2> QED
    BY <1>7, <2>1 DEF Scanned
<1>9. \A k \in 1 .. L : bootModules[k] = M[U[k]].path
  BY <1>2, <1>4, <1>6 DEF SamePrefix
<1>10. Ids' = 1 .. L /\ Len(bootOrdered') = 0 /\ Len(ordered) \in Nat
  BY <1>1, <1>2, <1>3, Typed DEF IInv, Ids
<1> QED
  BY <1>1, <1>2, <1>3, <1>4, <1>6, <1>8, <1>9, <1>10 DEF ListsAgree

(* While it lists the modules, they are those of the native compiler's     *)
(* table; the unprocessed are those that are not among the first of the    *)
(* native list; and those that it could list now it could have listed too. *)
LEMMA ListingFacts ==
  ASSUME IInv, BootIInv, SamePrefix, ListsAgree, bootPhase \in {"ordering", "done"},
         NEW q, q = Len(bootOrdered)
  PROVE  /\ q \in Nat /\ Len(ordered) \in Nat /\ q <= Len(ordered)
         /\ BootLoaded = {modules[y].path : y \in Ids}
         /\ \A y, z \in Ids : modules[y].path = modules[z].path => y = z
         /\ \A y \in Ids : Unlisted(ordered, q, y) <=>
              \E k \in 1 .. Len(bootUnprocessed) : bootUnprocessed[k] = modules[y].path
         /\ \A y \in Ids : BootReady(modules[y].path) <=> ReadyAfter(modules, ordered, q, y)
<1>1. PICK L \in Nat : L = Len(modules)
  BY Typed DEF IInv
<1>2. PICK M : M = modules
  OBVIOUS
<1>3. PICK O : O = ordered
  OBVIOUS
<1>4. /\ Ids = 1 .. L /\ Len(O) \in Nat /\ \A k \in 1 .. Len(O) : O[k] \in 1 .. L
  BY <1>1, <1>3, Typed DEF IInv
<1>5. /\ Len(bootModules) = L /\ q <= Len(O)
      /\ \A k \in 1 .. q : bootOrdered[k] = M[O[k]].path
  BY <1>1, <1>2, <1>3 DEF ListsAgree
<1>6. q \in Nat /\ DOMAIN bootOrdered = 1 .. q
  BY DEF BootIInv, BootTypeOK
<1>7. \A y \in 1 .. L : M[y].path = bootModules[y] /\ M[y].imports = imports[bootModules[y]]
  BY <1>2, <1>5 DEF SamePrefix
<1>8. BootLoaded = {M[y].path : y \in 1 .. L}
  <2>1. BootLoaded = {bootModules[y] : y \in 1 .. L}
    BY <1>5, BootTyped DEF BootIInv
  <2> QED
    BY <1>7, <2>1
<1>9. \A y, z \in 1 .. L : M[y].path = M[z].path => y = z
  BY <1>2, <1>4 DEF IInv, LoadInv, PathsDistinct
<1>10. BootPartition
  BY DEF BootIInv, BootOrderInv
<1>11. \A k \in 1 .. q : k \in 1 .. Len(O) /\ O[k] \in 1 .. L
  BY <1>4, <1>5, <1>6
<1>12. ASSUME NEW y \in 1 .. L
       PROVE  Unlisted(O, q, y) <=>
                \E k \in 1 .. Len(bootUnprocessed) : bootUnprocessed[k] = M[y].path
  <2>1. ASSUME Unlisted(O, q, y)
        PROVE  \E k \in 1 .. Len(bootUnprocessed) : bootUnprocessed[k] = M[y].path
    <3>1. M[y].path \in BootLoaded
      BY <1>8
    <3>2. ASSUME NEW l \in 1 .. q
          PROVE  bootOrdered[l] # M[y].path
      BY <1>5, <1>9, <1>11, <2>1 DEF Unlisted
    <3> QED
      BY <1>10, <3>1, <3>2 DEF BootPartition
  <2>2. ASSUME NEW k \in 1 .. Len(bootUnprocessed), bootUnprocessed[k] = M[y].path
        PROVE  Unlisted(O, q, y)
    <3>1. \A l \in 1 .. q : bootOrdered[l] # M[y].path
      BY <1>10, <2>2 DEF BootPartition
    <3> QED
      BY <1>5, <3>1 DEF Unlisted
  <2> QED
    BY <2>1, <2>2
<1>13. ASSUME NEW y \in 1 .. L
       PROVE  BootReady(M[y].path) <=> ReadyAfter(M, O, q, y)
  <2>1. /\ M[y].path \in BootLoaded /\ M[y].imports = imports[M[y].path]
    BY <1>7, <1>8
  <2>2. ToSet(imports[M[y].path]) = {M[y].imports[j] : j \in 1 .. Len(M[y].imports)}
    BY <2>1, BootTyped DEF BootIInv
  <2>3. ToSet(bootOrdered) = {M[O[l]].path : l \in 1 .. q}
    BY <1>5, <1>6 DEF ToSet
  <2>4. PICK I : I = M[y].imports
    OBVIOUS
  <2>5. BootReady(M[y].path) <=> \A j \in 1 .. Len(I) : I[j] \in ToSet(bootOrdered)
    BY <2>2, <2>4 DEF BootReady
  <2>6. \A j \in 1 .. Len(I) :
          I[j] \in ToSet(bootOrdered) <=> \E l \in 1 .. q : M[O[l]].path = I[j]
    BY <2>3
  <2>7. ReadyAfter(M, O, q, y) <=> \A j \in 1 .. Len(I) : \E l \in 1 .. q : M[O[l]].path = I[j]
    BY <2>4 DEF ReadyAfter
  <2> QED
    BY <2>5, <2>6, <2>7
<1> QED
  BY <1>2, <1>3, <1>4, <1>5, <1>6, <1>8, <1>9, <1>12, <1>13

(* The module that it lists is the next in the native list.                *)
LEMMA OrderAgrees ==
  ASSUME IInv, ScanInv, BootIInv, SamePrefix, ListsAgree,
         BootOrder, UNCHANGED loadingVars
  PROVE  ListsAgree'
<1>1. PICK L \in Nat : L = Len(modules)
  BY Typed DEF IInv
<1>2. PICK M : M = modules
  OBVIOUS
<1>3. PICK O : O = ordered
  OBVIOUS
<1>4. PICK q : q = Len(bootOrdered)
  OBVIOUS
<1>5. PICK p : p = bootI
  OBVIOUS
<1>6. PICK W : W = bootUnprocessed
  OBVIOUS
<1>7. /\ bootPhase = "ordering" /\ p <= Len(W) /\ BootReady(W[p]) /\ bootI' = p
      /\ bootOrdered' = Append(bootOrdered, W[p]) /\ bootUnprocessed' = RemoveAt(W, p)
      /\ bootModules' = bootModules /\ modules' = M /\ ordered' = O /\ phase' = phase
  BY <1>2, <1>3, <1>5, <1>6 DEF BootOrder, BootVisiting, bootLoadVars, loadingVars
<1>8. /\ phase \in {"done", "trap"} /\ Len(bootModules) = L
      /\ \A k \in 1 .. q : bootOrdered[k] = M[O[k]].path
  BY <1>1, <1>2, <1>3, <1>4, <1>7 DEF ListsAgree
<1>9. PICK U \in Seq(Ids) :
        /\ Len(U) = Len(W) /\ \A k \in 1 .. Len(U) : W[k] = M[U[k]].path
        /\ Scanned(M, U, O, q, p)
  BY <1>2, <1>3, <1>4, <1>5, <1>6, <1>7 DEF ListsAgree
<1>10. /\ q \in Nat /\ Len(O) \in Nat /\ q <= Len(O) /\ Ids = 1 .. L
       /\ \A y, z \in 1 .. L : M[y].path = M[z].path => y = z
       /\ \A y \in 1 .. L : Unlisted(O, q, y) <=> \E k \in 1 .. Len(W) : W[k] = M[y].path
       /\ \A y \in 1 .. L : BootReady(M[y].path) <=> ReadyAfter(M, O, q, y)
  <2>1. Ids = 1 .. L
    BY <1>1 DEF Ids
  <2> QED
    BY <1>2, <1>3, <1>4, <1>6, <1>7, <2>1, ListingFacts
<1>11. /\ W \in Seq(Files) /\ bootOrdered \in Seq(Files) /\ Len(W) \in Nat /\ p \in 1 .. Len(W)
  <2>1. W \in Seq(Files) /\ bootOrdered \in Seq(Files) /\ p \in 1 .. Len(W) + 1
    BY <1>5, <1>6 DEF BootIInv, BootTypeOK
  <2> QED
    BY <1>7, <2>1
<1>12. \A k \in 1 .. Len(U) : U[k] \in 1 .. L /\ U[k] \in Nat
  BY <1>10
<1>13. PICK x \in 1 .. L : x = U[p]
  BY <1>9, <1>11, <1>12
<1>14. W[p] = M[x].path
  BY <1>9, <1>11, <1>13
<1>15. Unlisted(O, q, x) /\ ReadyAfter(M, O, q, x)
  BY <1>7, <1>10, <1>11, <1>14
<1>16. q + 1 \in 1 .. Len(O)
  <2> SUFFICES ASSUME q = Len(O) PROVE FALSE
    BY <1>10
  <2>1. x \in Ids /\ Unlisted(ordered, Len(ordered), x) /\ Begun
    BY <1>3, <1>8, <1>10, <1>15 DEF Begun
  <2>2. PICK k \in 1 .. Len(unprocessed) : unprocessed[k] = x
    BY <2>1, UnlistedIs
  <2>3. unprocessed # << >>
    BY <2>2
  <2>4. phase = "trap"
    BY <1>8, <2>3 DEF IInv, OrderInv
  <2>5. ~ Ready(x)
    BY <2>2, <2>4 DEF IInv, OrderInv
  <2> QED
    BY <1>2, <1>3, <1>15, <2>5, ReadyIs
<1>17. LastOf(O, q) \in Nat
  BY <1>3, <1>10, ListedFacts DEF IInv
<1>18. ListedNext(M, O, q, x)
  <2>1. ASSUME NEW y \in 1 .. L, Unlisted(O, q, y)
        PROVE  \E k \in 1 .. Len(U) : U[k] = y
    <3>1. PICK k \in 1 .. Len(W) : W[k] = M[y].path
      BY <1>10, <2>1
    <3>2. k \in 1 .. Len(U) /\ M[U[k]].path = M[y].path
      BY <1>9, <3>1
    <3> QED
      BY <1>10, <1>12, <3>2
  <2>2. Len(M) = L /\ p \in 1 .. Len(U) /\ Len(U) \in Nat /\ ReadyAfter(M, O, q, U[p])
    BY <1>1, <1>2, <1>9, <1>11, <1>13, <1>15
  <2> QED
    BY <1>9, <1>12, <1>13, <1>17, <2>1, <2>2, ScanFinds
<1>19. PICK y \in 1 .. L : y = O[q + 1]
  BY <1>1, <1>3, <1>16, ListedFacts DEF IInv
<1>20. ListedNext(M, O, q, y)
  <2>3. RoundRobin(M, O)
    BY <1>2, <1>3 DEF ScanInv
  <2>1. PICK e \in 1 .. Len(O) : e = q + 1
    BY <1>16
  <2>2. ListedNext(M, O, e - 1, O[e])
    BY <2>3 DEF RoundRobin
  <2>4. e - 1 = q /\ O[e] = y
    BY <1>10, <1>19, <2>1
  <2> QED
    BY <2>2, <2>4
<1>21. Unlisted(O, q, y)
  <2>1. \A k, l \in 1 .. Len(O) : O[k] = O[l] => k = l
    BY <1>3, <1>8 DEF IInv, OrderInv, Begun, Partition
  <2>2. ASSUME NEW l \in 1 .. q
        PROVE  O[l] # y
    <3>1. l \in 1 .. Len(O) /\ l # q + 1
      BY <1>10
    <3> QED
      BY <1>16, <1>19, <2>1, <3>1
  <2> QED
    BY <2>2 DEF Unlisted
<1>22. x = y
  <2>1. Len(M) = L
    BY <1>1, <1>2
  <2> QED
    BY <1>15, <1>17, <1>18, <1>20, <1>21, <2>1, OneListedNext
<1>23. /\ Len(bootOrdered') = q + 1 /\ bootOrdered'[q + 1] = M[O[q + 1]].path
       /\ \A k \in 1 .. q : bootOrdered'[k] = M[O[k]].path
  <2>1. W[p] \in Files
    BY <1>11
  <2>2. /\ Len(bootOrdered') = q + 1 /\ bootOrdered'[q + 1] = W[p]
        /\ \A k \in 1 .. q : bootOrdered'[k] = bootOrdered[k]
    BY <1>4, <1>7, <1>11, <2>1, AppendProperties
  <2> QED
    BY <1>8, <1>14, <1>19, <1>22, <2>2
<1>24. \A k \in 1 .. q + 1 : bootOrdered'[k] = M[O[k]].path
  <2>1. \A k \in 1 .. q + 1 : k = q + 1 \/ k \in 1 .. q
    BY <1>10
  <2> QED
    BY <1>23, <2>1
<1>25. PICK V : V = SubSeq(U, 1, p - 1) \o SubSeq(U, p + 1, Len(U))
  OBVIOUS
<1>26. /\ V \in Seq(Ids) /\ Len(V) = Len(U) - 1
       /\ \A k \in 1 .. Len(V) : V[k] = IF k < p THEN U[k] ELSE U[k + 1]
  <2>1. U \in Seq(Ids) /\ p \in 1 .. Len(U)
    BY <1>9, <1>11
  <2> QED
    BY <1>25, <2>1, ElementRemoved
<1>27. /\ Len(bootUnprocessed') = Len(V)
       /\ \A k \in 1 .. Len(V) : bootUnprocessed'[k] = M[V[k]].path
  <2>1. /\ Len(bootUnprocessed') = Len(W) - 1
        /\ \A k \in 1 .. Len(W) - 1 : bootUnprocessed'[k] = IF k < p THEN W[k] ELSE W[k + 1]
    BY <1>7, <1>11, ElementRemoved DEF RemoveAt
  <2>2. ASSUME NEW k \in 1 .. Len(W) - 1
        PROVE  k \in 1 .. Len(U) /\ k + 1 \in 1 .. Len(U)
    BY <1>9, <1>11
  <2>3. Len(bootUnprocessed') = Len(V)
    BY <1>9, <1>26, <2>1
  <2>4. ASSUME NEW k \in 1 .. Len(W) - 1
        PROVE  bootUnprocessed'[k] = M[V[k]].path
    <3>1. W[k] = M[U[k]].path /\ W[k + 1] = M[U[k + 1]].path
      BY <1>9, <2>2
    <3>2. k \in 1 .. Len(V)
      BY <1>9, <1>26
    <3>3. V[k] = IF k < p THEN U[k] ELSE U[k + 1]
      BY <1>26, <3>2
    <3> QED
      BY <2>1, <3>1, <3>3
  <2> QED
    BY <2>1, <2>3, <2>4
<1>28. Scanned(M, V, O, q + 1, p)
  <2>1. /\ p \in 1 .. Len(U) /\ Len(U) \in Nat /\ Ascending(U) /\ O[q + 1] = U[p]
        /\ \A k \in 1 .. Len(U) : U[k] \in Nat
    BY <1>9, <1>11, <1>12, <1>13, <1>19, <1>22 DEF Scanned
  <2> QED
    BY <1>10, <1>26, <2>1, ScanOrders
<1>29. /\ phase' \in {"done", "trap"} /\ Len(bootModules') = Len(modules') /\ Ids' = Ids
       /\ q + 1 <= Len(ordered')
  BY <1>1, <1>2, <1>7, <1>8, <1>16 DEF Ids
<1>30. \E N \in Seq(Ids') :
         /\ Len(N) = Len(bootUnprocessed')
         /\ \A k \in 1 .. Len(N) : bootUnprocessed'[k] = modules'[N[k]].path
         /\ Scanned(modules', N, ordered', Len(bootOrdered'), bootI')
  BY <1>7, <1>23, <1>26, <1>27, <1>28, <1>29
<1>31. /\ Len(bootOrdered') <= Len(ordered')
       /\ \A k \in 1 .. Len(bootOrdered') : bootOrdered'[k] = modules'[ordered'[k]].path
  BY <1>7, <1>23, <1>24, <1>29
<1> QED
  BY <1>29, <1>30, <1>31 DEF ListsAgree

(* A module that it cannot list yet it passes.                             *)
LEMMA PostponeAgrees ==
  ASSUME IInv, BootIInv, SamePrefix, ListsAgree, BootPostpone, UNCHANGED loadingVars
  PROVE  ListsAgree'
<1>1. /\ bootPhase = "ordering" /\ bootPhase' = bootPhase /\ bootI <= Len(bootUnprocessed)
      /\ ~ BootReady(bootUnprocessed[bootI]) /\ bootI' = bootI + 1
      /\ bootUnprocessed' = bootUnprocessed /\ bootOrdered' = bootOrdered
      /\ bootModules' = bootModules
      /\ modules' = modules /\ ordered' = ordered /\ phase' = phase
  BY DEF BootPostpone, BootVisiting, bootLoadVars, loadingVars
<1>2. PICK U \in Seq(Ids) :
        /\ Len(U) = Len(bootUnprocessed)
        /\ \A k \in 1 .. Len(U) : bootUnprocessed[k] = modules[U[k]].path
        /\ Scanned(modules, U, ordered, Len(bootOrdered), bootI)
  BY <1>1 DEF ListsAgree
<1>3. Len(U) \in Nat /\ bootI \in 1 .. Len(U) /\ U[bootI] \in Ids
  <2>1. Len(U) \in Nat /\ bootI \in 1 .. Len(U)
    BY <1>1, <1>2 DEF BootIInv, BootTypeOK
  <2> QED
    BY <2>1
<1>4. ~ ReadyAfter(modules, ordered, Len(bootOrdered), U[bootI])
  BY <1>1, <1>2, <1>3, ListingFacts
<1>5. Scanned(modules, U, ordered, Len(bootOrdered), bootI + 1)
  BY <1>2, <1>3, <1>4, ScanPasses
<1>6. \E N \in Seq(Ids') :
        /\ Len(N) = Len(bootUnprocessed')
        /\ \A k \in 1 .. Len(N) : bootUnprocessed'[k] = modules'[N[k]].path
        /\ Scanned(modules', N, ordered', Len(bootOrdered'), bootI')
  <2>1. Ids' = Ids
    BY <1>1 DEF Ids
  <2> QED
    BY <1>1, <1>2, <1>5, <2>1
<1>7. /\ phase \in {"done", "trap"} /\ Len(bootModules) = Len(modules)
      /\ Len(bootOrdered) <= Len(ordered)
      /\ \A k \in 1 .. Len(bootOrdered) : bootOrdered[k] = modules[ordered[k]].path
  BY <1>1 DEF ListsAgree
<1> QED
  BY <1>1, <1>6, <1>7 DEF ListsAgree

(* At the end of a round it goes back to the first.                        *)
LEMMA RoundAgrees ==
  ASSUME BootIInv, ListsAgree, BootRoundEnds, UNCHANGED loadingVars
  PROVE  ListsAgree'
<1>1. /\ bootPhase = "ordering" /\ bootI > Len(bootUnprocessed) /\ bootI' = 1
      /\ bootUnprocessed' = bootUnprocessed /\ bootOrdered' = bootOrdered
      /\ bootModules' = bootModules
      /\ modules' = modules /\ ordered' = ordered /\ phase' = phase
  BY DEF BootRoundEnds, bootLoadVars, loadingVars
<1>2. PICK U \in Seq(Ids) :
        /\ Len(U) = Len(bootUnprocessed)
        /\ \A k \in 1 .. Len(U) : bootUnprocessed[k] = modules[U[k]].path
        /\ Scanned(modules, U, ordered, Len(bootOrdered), bootI)
  BY <1>1 DEF ListsAgree
<1>3. Len(U) \in Nat /\ bootI \in Nat /\ bootI > Len(U)
  BY <1>1, <1>2 DEF BootIInv, BootTypeOK
<1>4. Scanned(modules, U, ordered, Len(bootOrdered), 1)
  BY <1>2, <1>3, ScanWraps
<1>5. \E N \in Seq(Ids') :
        /\ Len(N) = Len(bootUnprocessed')
        /\ \A k \in 1 .. Len(N) : bootUnprocessed'[k] = modules'[N[k]].path
        /\ Scanned(modules', N, ordered', Len(bootOrdered'), bootI')
  <2>1. Ids' = Ids
    BY <1>1 DEF Ids
  <2> QED
    BY <1>1, <1>2, <1>4, <2>1
<1>6. /\ phase \in {"done", "trap"} /\ Len(bootModules) = Len(modules)
      /\ Len(bootOrdered) <= Len(ordered)
      /\ \A k \in 1 .. Len(bootOrdered) : bootOrdered[k] = modules[ordered[k]].path
  BY <1>1 DEF ListsAgree
<1> QED
  BY <1>1, <1>5, <1>6 DEF ListsAgree

(* Before the other loader begins, there is nothing to agree about.        *)
LEMMA BeginningAgrees == BootInit /\ LoadingTypeOK => AgreeInv
<1> SUFFICES ASSUME BootInit, LoadingTypeOK PROVE AgreeInv
  OBVIOUS
<1>1. Len(bootModules) = 0 /\ Len(bootCalls) = 1 /\ bootPhase = "loading"
  BY DEF BootInit
<1>2. SamePrefix
  BY <1>1, Typed DEF SamePrefix
<1>3. CallsInOrder(BootTable, bootCalls)
  BY <1>1 DEF CallsInOrder
<1> QED
  BY <1>1, <1>2, <1>3 DEF AgreeInv, ListsAgree

(* No step of the other loader breaks the agreement.                       *)
LEMMA BootStepAgrees ==
  ASSUME IInv, WalkInv, ScanInv, BootIInv, AgreeInv,
         Over, BootNext, SameFiles, UNCHANGED loadingVars
  PROVE  AgreeInv'
<1>1. modules' = modules /\ phase' = phase /\ Over'
  BY DEF loadingVars, Over
<1>2. /\ SamePrefix /\ CallsInOrder(BootTable, bootCalls) /\ ListsAgree
      /\ BootTypeOK /\ BootLoadInv
      /\ bootPhase = "failed" => phase \in {"exit 1", "exit 2"}
  BY DEF AgreeInv, BootIInv
<1>3. ASSUME UNCHANGED <<bootModules, imports, bootCalls>>
      PROVE  SamePrefix' /\ CallsInOrder(BootTable', bootCalls')
  <2>1. BootTable' = BootTable
    BY <1>3 DEF BootTable
  <2>2. SamePrefix'
    BY <1>1, <1>2, <1>3 DEF SamePrefix
  <2> QED
    BY <1>2, <1>3, <2>1, <2>2
<1>4. ASSUME UNCHANGED <<bootModules, imports>>
      PROVE  SamePrefix'
  BY <1>1, <1>2, <1>4 DEF SamePrefix
<1>5. ASSUME NEW list \in ImportLists, BootInsert(list)
      PROVE  AgreeInv'
  <2>1. bootPhase = "loading" /\ bootPhase' = "loading"
    BY <1>5 DEF BootInsert, BootEntering
  <2>2. SamePrefix' /\ CallsInOrder(BootTable', bootCalls')
    BY <1>1, <1>2, <1>5, InsertAgrees
  <2> QED
    BY <1>1, <2>1, <2>2 DEF AgreeInv, ListsAgree
<1>6. CASE LoadFails
  <2>1. bootPhase' = "failed" /\ UNCHANGED <<bootModules, imports, bootCalls>>
    BY <1>6 DEF LoadFails, bootLoadVars
  <2>2. phase \in {"exit 1", "exit 2"}
    BY <1>2, <1>6, FailureAgrees
  <2> QED
    BY <1>1, <1>3, <2>1, <2>2 DEF AgreeInv, ListsAgree
<1>7. CASE ReportCycle
  <2>1. bootPhase' = "cycle" /\ UNCHANGED <<bootModules, imports, bootCalls>>
    BY <1>7 DEF ReportCycle, bootLoadVars
  <2> QED
    BY <1>1, <1>3, <2>1 DEF AgreeInv, ListsAgree
<1>8. CASE SkipLoaded \/ BootLoadImport \/ BootImportsLoaded
  <2>1. bootPhase' = "loading" /\ UNCHANGED <<bootModules, imports>>
    BY <1>8 DEF SkipLoaded, BootLoadImport, BootImportsLoaded, AtImport
  <2>2. CallsInOrder(BootTable', bootCalls')
    BY <1>2, <1>8, BootCallsOrdered
  <2> QED
    BY <1>1, <1>4, <2>1, <2>2 DEF AgreeInv, ListsAgree
<1>9. CASE BootStartOrdering \/ BootOrder \/ BootPostpone \/ BootRoundEnds
  <2>1. bootPhase' \in {"ordering", "done"} /\ UNCHANGED <<bootModules, imports, bootCalls>>
    BY <1>9 DEF BootStartOrdering, BootOrder, BootPostpone, BootRoundEnds, BootVisiting, bootLoadVars
  <2>2. ListsAgree'
    BY <1>2, <1>9, StartAgrees, OrderAgrees, PostponeAgrees, RoundAgrees
  <2> QED
    BY <1>1, <1>3, <2>1, <2>2 DEF AgreeInv
<1> QED
  BY <1>5, <1>6, <1>7, <1>8, <1>9 DEF BootNext

(* The native loader is first; nothing the other does disturbs it.         *)
LEMMA LoadersNextInv == LoadersInv /\ [LoadersNext]_loadersVars => LoadersInv'
<1> SUFFICES ASSUME LoadersInv, [LoadersNext]_loadersVars PROVE LoadersInv'
  OBVIOUS
<1>1. IInv /\ WalkInv /\ ScanInv /\ BootIInv /\ AgreeInv
  BY DEF LoadersInv
<1>2. [LoadingNext]_loadingVars
  BY DEF LoadersNext, loadersVars, loadingVars
<1>3. [BootNext]_bootVars
  BY DEF LoadersNext, loadersVars, bootVars
<1>4. IInv' /\ WalkInv' /\ ScanInv' /\ BootIInv'
  BY <1>1, <1>2, <1>3, NextInv, NextWalks, NextScans, BootNextInv
<1>5. CASE LoadingNext /\ UNCHANGED bootVars
  <2>1. phase \in {"loading", "ordering"}
    BY <1>5 DEF LoadingNext, Load, AlreadyLoaded, ReadFails, ParseFails, Insert, LoadImport,
                ImportsLoaded, StartOrdering, Order, Postpone, RoundEnds, Entering, Importing,
                Visiting
  <2>2. ~ Over
    BY <2>1 DEF Over
  <2>3. BootInit
    BY <1>1, <2>2 DEF AgreeInv
  <2>4. BootInit'
    BY <1>5, <2>3 DEF BootInit, bootVars
  <2>5. LoadingTypeOK'
    BY <1>4 DEF IInv
  <2>6. BootInit' /\ LoadingTypeOK' => AgreeInv'
    BY BeginningAgrees, PTL
  <2> QED
    BY <1>4, <2>4, <2>5, <2>6 DEF LoadersInv
<1>6. CASE Over /\ BootNext /\ SameFiles /\ UNCHANGED loadingVars
  BY <1>1, <1>4, <1>6, BootStepAgrees DEF LoadersInv
<1>7. CASE UNCHANGED loadersVars
  <2>1. UNCHANGED <<modules, phase, ordered, bootCalls, bootModules, imports, bootUnprocessed,
                    bootOrdered, bootI, bootPhase>>
    BY <1>7 DEF loadersVars, loadingVars, bootVars
  <2>2. AgreeInv'
    BY <1>1, <2>1 DEF AgreeInv, Over, BootInit, SamePrefix, BootTable, ListsAgree, Ids
  <2> QED
    BY <1>4, <2>2 DEF LoadersInv
<1> QED
  BY <1>5, <1>6, <1>7 DEF LoadersNext

(* Both loaders start with the main file.                                  *)
LEMMA LoadersInitInv == LoadersInit => LoadersInv
<1> SUFFICES ASSUME LoadersInit PROVE LoadersInv
  OBVIOUS
<1>1. LoadingInit /\ BootInit
  BY DEF LoadersInit
<1>2. IInv /\ BootIInv
  BY <1>1, InitInv, BootInitInv
<1>3. AgreeInv
  BY <1>1, <1>2, BeginningAgrees DEF IInv
<1>4. Len(modules) = 0 /\ Len(calls) = 1 /\ ordered = << >> /\ phase = "loading"
  BY <1>1 DEF LoadingInit
<1>5. WalkInv
  BY <1>4 DEF WalkInv, CallsInOrder, NoneForgotten, DepthFirst
<1>6. ScanInv
  BY <1>4 DEF ScanInv, RoundRobin
<1> QED
  BY <1>2, <1>3, <1>5, <1>6 DEF LoadersInv

(* Where the other compiler has ordered all modules, so has the native     *)
(* one, and in the same order.                                             *)
LEMMA DoneAgrees ==
  ASSUME IInv, BootIInv, SamePrefix, ListsAgree, bootPhase = "done"
  PROVE  phase = "done" /\ bootOrdered = [k \in 1 .. Len(ordered) |-> modules[ordered[k]].path]
<1>1. PICK q : q = Len(bootOrdered)
  OBVIOUS
<1>2. PICK O : O = ordered
  OBVIOUS
<1>3. Len(bootUnprocessed) = 0
  BY DEF BootIInv, BootOrderInv
<1>4. /\ q \in Nat /\ Len(O) \in Nat /\ q <= Len(O)
      /\ \A y \in Ids : Unlisted(O, q, y) <=>
           \E k \in 1 .. Len(bootUnprocessed) : bootUnprocessed[k] = modules[y].path
  BY <1>1, <1>2, ListingFacts
<1>5. \A y \in Ids : \E l \in 1 .. q : O[l] = y
  BY <1>3, <1>4 DEF Unlisted
<1>6. phase \in {"done", "trap"}
  BY DEF ListsAgree
<1>7. /\ \A k, l \in 1 .. Len(O) : O[k] = O[l] => k = l
      /\ \A k \in 1 .. Len(unprocessed), l \in 1 .. Len(O) : unprocessed[k] # O[l]
  BY <1>2, <1>6 DEF IInv, OrderInv, Begun, Partition
<1>8. /\ \A k \in 1 .. Len(O) : O[k] \in Ids
      /\ \A k \in 1 .. Len(unprocessed) : unprocessed[k] \in Ids
      /\ Len(unprocessed) \in Nat /\ (unprocessed # << >> => Len(unprocessed) # 0)
  <2>1. O \in Seq(Ids) /\ unprocessed \in Seq(Ids)
    BY <1>2, Typed DEF IInv
  <2>2. \A k \in 1 .. Len(O) : O[k] \in Ids
    BY <2>1
  <2>3. \A k \in 1 .. Len(unprocessed) : unprocessed[k] \in Ids
    BY <2>1
  <2>4. Len(unprocessed) \in Nat /\ (unprocessed # << >> => Len(unprocessed) # 0)
    BY <2>1
  <2> QED
    BY <2>2, <2>3, <2>4
<1>9. phase = "done"
  <2> SUFFICES ASSUME unprocessed # << >> PROVE FALSE
    BY <1>6 DEF IInv, OrderInv
  <2>1. 1 \in 1 .. Len(unprocessed)
    BY <1>8
  <2>2. PICK l \in 1 .. q : O[l] = unprocessed[1]
    BY <1>5, <1>8, <2>1
  <2>3. l \in 1 .. Len(O)
    BY <1>4
  <2> QED
    BY <1>7, <2>1, <2>2, <2>3
<1>10. q = Len(O)
  <2> SUFFICES ASSUME q # Len(O) PROVE FALSE
    OBVIOUS
  <2>1. q + 1 \in 1 .. Len(O)
    BY <1>4
  <2>2. PICK l \in 1 .. q : O[l] = O[q + 1]
    BY <1>5, <1>8, <2>1
  <2>3. l \in 1 .. Len(O) /\ l # q + 1
    BY <1>4
  <2> QED
    BY <1>7, <2>1, <2>2, <2>3
<1>11. bootOrdered = [k \in 1 .. q |-> bootOrdered[k]]
  BY <1>1 DEF BootIInv, BootTypeOK
<1>12. \A k \in 1 .. q : bootOrdered[k] = modules[O[k]].path
  BY <1>1, <1>2 DEF ListsAgree
<1> QED
  BY <1>2, <1>9, <1>10, <1>11, <1>12

(* Modules that import one another keep the native one from ordering all:  *)
(* the first of them in its order would import one that comes before it.   *)
LEMMA CycleAgrees ==
  ASSUME IInv, BootIInv, SamePrefix, bootPhase = "cycle"
  PROVE  phase # "done"
<1> SUFFICES ASSUME phase = "done" PROVE FALSE
  OBVIOUS
<1>1. PICK M : M = modules
  OBVIOUS
<1>2. PICK O : O = ordered
  OBVIOUS
<1>3. PICK L \in Nat : L = Len(bootModules)
  BY BootTyped DEF BootIInv
<1>4. PICK C \in SUBSET BootLoaded :
        C # {} /\ \A f \in C : \E g \in C : g \in ToSet(imports[f])
  BY DEF BootIInv, Cyclic
<1>5. /\ \A p \in 1 .. L : p \in Ids /\ M[p].path = bootModules[p] /\ M[p].imports = imports[bootModules[p]]
      /\ \A f \in BootLoaded : \E p \in 1 .. L : bootModules[p] = f
      /\ \A y, z \in Ids : M[y].path = M[z].path => y = z
  <2>1. Ids = 1 .. Len(modules) /\ Len(modules) \in Nat
    BY Typed DEF IInv
  <2>2. \A p \in 1 .. L : p \in Ids /\ M[p].path = bootModules[p] /\ M[p].imports = imports[bootModules[p]]
    BY <1>1, <1>3, <2>1 DEF SamePrefix
  <2>3. \A f \in BootLoaded : \E p \in 1 .. L : bootModules[p] = f
    BY <1>3, BootTyped DEF BootIInv
  <2>4. \A y, z \in Ids : M[y].path = M[z].path => y = z
    BY <1>1 DEF IInv, LoadInv, PathsDistinct
  <2> QED
    BY <2>2, <2>3, <2>4
<1>6. /\ \A m \in Ids : \E k \in 1 .. Len(O) : O[k] = m
      /\ \A k \in 1 .. Len(O) : \A j \in 1 .. Len(M[O[k]].imports) :
           \E l \in 1 .. k - 1 : M[O[l]].path = M[O[k]].imports[j]
      /\ Len(O) \in Nat /\ \A k \in 1 .. Len(O) : O[k] \in Ids
  <2>1. unprocessed = << >> /\ Len(unprocessed) = 0
    BY DEF IInv, OrderInv
  <2>2. \A m \in Ids : \E k \in 1 .. Len(O) : O[k] = m
    BY <1>2, <2>1 DEF IInv, OrderInv, Begun, Partition
  <2>3. \A k \in 1 .. Len(O) : \A j \in 1 .. Len(M[O[k]].imports) :
           \E l \in 1 .. k - 1 : M[O[l]].path = M[O[k]].imports[j]
    BY <1>1, <1>2 DEF IInv, OrderInv, Begun, ImportsFirst
  <2> QED
    BY <1>2, <2>2, <2>3, Typed DEF IInv
<1>7. PICK T : T = {k \in 1 .. Len(O) : M[O[k]].path \in C}
  OBVIOUS
<1>8. T # {} /\ T \subseteq Nat
  <2>1. PICK f \in C : TRUE
    BY <1>4
  <2>2. PICK p \in 1 .. L : bootModules[p] = f
    BY <1>5, <2>1
  <2>3. PICK k \in 1 .. Len(O) : O[k] = p
    BY <1>5, <1>6
  <2>4. M[O[k]].path = f
    BY <1>5, <2>2, <2>3
  <2> QED
    BY <1>7, <2>1, <2>4
<1>9. PICK k \in T : \A l \in T : ~ (l < k)
  <2> DEFINE R == OpToRel(<, Nat)
  <2>1. IsWellFoundedOn(R, Nat)
    BY NatLessThanWellFounded
  <2>2. \A x, y \in Nat : y < x => <<y, x>> \in R
    BY DEF OpToRel
  <2> HIDE DEF R
  <2>3. PICK x \in T : \A y \in T : ~ (<<y, x>> \in R)
    BY <1>8, <2>1, WFMin
  <2> QED
    BY <1>8, <2>2, <2>3
<1>10. k \in 1 .. Len(O) /\ M[O[k]].path \in C
  BY <1>7
<1>11. PICK f \in C : f = M[O[k]].path
  BY <1>10
<1>12. PICK g \in C : g \in ToSet(imports[f])
  BY <1>4
<1>13. PICK j \in 1 .. Len(imports[f]) : imports[f][j] = g
  <2>1. f \in BootLoaded
    BY <1>4
  <2> QED
    BY <1>12, <2>1, BootTyped DEF BootIInv, ImportsIt
<1>14. M[O[k]].imports = imports[f]
  <2>1. PICK p \in 1 .. L : bootModules[p] = f
    BY <1>4, <1>5
  <2>2. p = O[k]
    BY <1>5, <1>6, <1>10, <1>11, <2>1
  <2> QED
    BY <1>5, <2>1, <2>2
<1>15. PICK l \in 1 .. k - 1 : M[O[l]].path = g
  <2>1. \A h \in 1 .. Len(M[O[k]].imports) :
          \E l \in 1 .. k - 1 : M[O[l]].path = M[O[k]].imports[h]
    BY <1>6, <1>10
  <2>2. j \in 1 .. Len(M[O[k]].imports) /\ M[O[k]].imports[j] = g
    BY <1>13, <1>14
  <2> QED
    BY <2>1, <2>2
<1>16. l \in T /\ l < k
  <2>1. l \in 1 .. Len(O) /\ l < k
    BY <1>6, <1>10
  <2> QED
    BY <1>7, <1>12, <1>15, <2>1
<1> QED
  BY <1>9, <1>16

(* The two compilers agree about every program: one orders its modules     *)
(* exactly if the other does, in the same order; a cycle that the one      *)
(* reports keeps the other from ordering them; and they cannot read the    *)
(* same files (main.watim:823-982, bootstrap/__main__.py:36-81).           *)
THEOREM LoadersSafe == LoadersSpec => []LoadersAgree
<1>1. LoadersSpec => []LoadersInv
  BY LoadersInitInv, LoadersNextInv, PTL DEF LoadersSpec
<1>2. LoadersInv => LoadersAgree
  <2> SUFFICES ASSUME LoadersInv PROVE LoadersAgree
    OBVIOUS
  <2>1. IInv /\ BootIInv /\ SamePrefix /\ ListsAgree
    BY DEF LoadersInv, AgreeInv
  <2>2. bootPhase = "failed" => phase \in {"exit 1", "exit 2"}
    BY DEF LoadersInv, AgreeInv
  <2> QED
    BY <2>1, <2>2, DoneAgrees, CycleAgrees DEF LoadersAgree
<1> QED
  BY <1>1, <1>2, PTL

-----------------------------------------------------------------------------
(***************************************************************************)
(* The keys of the modules (ImportPaths), for imports of any length and    *)
(* files at any depth.  NormPath enters the segments of a path one by one; *)
(* each thing FS:normalize and normalize_path do to a path is a loop over  *)
(* its segments, and what such a loop has made of the first k of them      *)
(* leads where the k segments lead (Between, Raised).  A round either      *)
(* shortens a path or finds it the shortest, so that as many rounds as     *)
(* there are segments end at the shortest path.                            *)
(***************************************************************************)

(* Induction: a set of numbers that has 0, and with a number the next one, *)
(* has them all.                                                           *)
LEMMA Induction ==
  ASSUME NEW T, 0 \in T, \A n \in Nat : n \in T => n + 1 \in T
  PROVE  \A n \in Nat : n \in T
<1> SUFFICES ASSUME NEW m \in Nat, m \notin T
             PROVE  FALSE
  OBVIOUS
<1> DEFINE D == {d \in Nat : d \notin T}
<1>1. D \subseteq Nat /\ D # {}
  OBVIOUS
<1>2. PICK d \in D : \A c \in D : ~ (<<c, d>> \in OpToRel(<, Nat))
  BY <1>1, WFMin, NatLessThanWellFounded
<1>3. d # 0 /\ d \in Nat /\ d \notin T
  OBVIOUS
<1>4. PICK c \in Nat : d = c + 1
  <2>1. d - 1 \in Nat /\ d = d - 1 + 1
    BY <1>3
  <2> QED
    BY <2>1
<1>5. c < d
  BY <1>4
<1>6. <<c, d>> \in OpToRel(<, Nat)
  BY <1>3, <1>4, <1>5 DEF OpToRel
<1>7. c \in T
  BY <1>2, <1>4, <1>6
<1> QED
  BY <1>3, <1>4, <1>7

(* The first n values of a function that is defined by recursion.          *)
Begins(g, n, S, a, F) ==
  g \in [0 .. n -> S] /\ g[0] = a /\ \A k \in 0 .. n - 1 : g[k + 1] = F[k][g[k]]

(* Two such beginnings agree as far as both go.                            *)
LEMMA BeginAlike ==
  ASSUME NEW S, NEW a, NEW F, NEW n \in Nat, NEW m \in Nat, NEW g, NEW h,
         Begins(g, n, S, a, F), Begins(h, m, S, a, F), n <= m
  PROVE  \A k \in 0 .. n : g[k] = h[k]
<1> DEFINE T == {k \in Nat : k <= n => g[k] = h[k]}
<1>1. 0 \in T
  BY DEF Begins
<1>2. ASSUME NEW k \in Nat, k \in T
      PROVE  k + 1 \in T
  <2> SUFFICES ASSUME k + 1 <= n
               PROVE  g[k + 1] = h[k + 1]
    OBVIOUS
  <2>1. k \in 0 .. n - 1 /\ k \in 0 .. m - 1 /\ k <= n
    OBVIOUS
  <2>2. g[k] = h[k]
    BY <1>2, <2>1
  <2> QED
    BY <2>1, <2>2 DEF Begins
<1>3. \A k \in Nat : k \in T
  <2> HIDE DEF T
  <2> QED
    BY <1>1, <1>2, Induction
<1> QED
  BY <1>3

(* A function on the numbers may be defined by recursion.                  *)
Recurs(f, S, a, F) ==
  /\ f \in [Nat -> S] /\ f[0] = a
  /\ \A k \in Nat : k # 0 => f[k] = F[k][f[k - 1]]

(* There is one: whatever a step does is defined for every number.         *)
LEMMA Recursion ==
  ASSUME NEW S, NEW a, NEW F, a \in S, F \in [Nat -> [S -> S]]
  PROVE  \E f : Recurs(f, S, a, F)
<1> DEFINE E == [k \in Nat |-> F[k + 1]]
           T == {n \in Nat : \E g : Begins(g, n, S, a, E)}
<1>0. E \in [Nat -> [S -> S]]
  OBVIOUS
<1> HIDE DEF E
<1>1. 0 \in T
  <2> DEFINE g == [j \in 0 .. 0 |-> a]
  <2>1. Begins(g, 0, S, a, E)
    BY DEF Begins
  <2> QED
    BY <2>1
<1>2. ASSUME NEW n \in Nat, n \in T
      PROVE  n + 1 \in T
  <2>1. PICK g : Begins(g, n, S, a, E)
    BY <1>2
  <2> DEFINE h == [j \in 0 .. n + 1 |-> IF j <= n THEN g[j] ELSE E[n][g[n]]]
  <2>2. g \in [0 .. n -> S] /\ g[0] = a /\ \A k \in 0 .. n - 1 : g[k + 1] = E[k][g[k]]
    BY <2>1 DEF Begins
  <2>3. E[n] \in [S -> S] /\ g[n] \in S /\ E[n][g[n]] \in S
    BY <1>0, <2>2
  <2>4. h \in [0 .. n + 1 -> S]
    BY <2>2, <2>3
  <2>5. h[0] = a
    BY <2>2
  <2>6. ASSUME NEW k \in 0 .. n
        PROVE  h[k + 1] = E[k][h[k]]
    <3>1. CASE k = n
      BY <3>1
    <3>2. CASE k # n
      <4>1. k \in 0 .. n - 1 /\ k + 1 <= n /\ k <= n /\ k + 1 \in 0 .. n + 1 /\ k \in 0 .. n + 1
        BY <3>2
      <4> QED
        BY <2>2, <4>1
    <3> QED
      BY <3>1, <3>2
  <2>7. Begins(h, n + 1, S, a, E)
    <3>1. n + 1 - 1 = n
      OBVIOUS
    <3> HIDE DEF h
    <3> QED
      BY <2>4, <2>5, <2>6, <3>1 DEF Begins
  <2> QED
    BY <2>7
<1>3. \A n \in Nat : \E g : Begins(g, n, S, a, E)
  <2>1. \A n \in Nat : n \in T
    <3> HIDE DEF T
    <3> QED
      BY <1>1, <1>2, Induction
  <2> QED
    BY <2>1
<1> DEFINE G(n) == CHOOSE g : Begins(g, n, S, a, E)
           f == [n \in Nat |-> G(n)[n]]
<1>4. \A n \in Nat : Begins(G(n), n, S, a, E)
  BY <1>3
<1> HIDE DEF G
<1>5. f \in [Nat -> S]
  BY <1>4 DEF Begins
<1>6. f[0] = a
  BY <1>4 DEF Begins
<1>7. ASSUME NEW k \in Nat
      PROVE  f[k + 1] = F[k + 1][f[k]]
  <2>1. Begins(G(k), k, S, a, E) /\ Begins(G(k + 1), k + 1, S, a, E)
    BY <1>4
  <2>2. \A j \in 0 .. k : G(k)[j] = G(k + 1)[j]
    BY <2>1, BeginAlike
  <2>3. G(k + 1)[k + 1] = E[k][G(k + 1)[k]]
    BY <2>1 DEF Begins
  <2>4. G(k + 1)[k + 1] = F[k + 1][G(k)[k]]
    BY <2>2, <2>3 DEF E
  <2> QED
    BY <2>4
<1>8. ASSUME NEW k \in Nat \ {0}
      PROVE  f[k] = F[k][f[k - 1]]
  <2>1. k - 1 \in Nat /\ k - 1 + 1 = k
    OBVIOUS
  <2> HIDE DEF f
  <2>2. f[k - 1 + 1] = F[k - 1 + 1][f[k - 1]]
    BY ONLY <1>7, <2>1
  <2> QED
    BY <2>1, <2>2
<1> HIDE DEF f
<1> QED
  BY <1>5, <1>6, <1>8 DEF Recurs

(* A loop over a path: n steps, F[k] being what the k-th does.             *)
Loops(g, n, S, a, F) ==
  g \in [0 .. n -> S] /\ g[0] = a /\ \A k \in 1 .. n : g[k] = F[k][g[k - 1]]

(* There is one.                                                           *)
LEMMA LoopThere ==
  ASSUME NEW S, NEW a, NEW F, a \in S, F \in [Nat -> [S -> S]], NEW n \in Nat
  PROVE  \E g : Loops(g, n, S, a, F)
<1>1. PICK f : Recurs(f, S, a, F)
  BY Recursion
<1> DEFINE g == [k \in 0 .. n |-> f[k]]
<1>2. g \in [0 .. n -> S] /\ g[0] = a
  BY <1>1 DEF Recurs
<1>3. \A k \in 1 .. n : g[k] = F[k][g[k - 1]]
  <2> SUFFICES ASSUME NEW k \in 1 .. n
               PROVE  g[k] = F[k][g[k - 1]]
    OBVIOUS
  <2>1. k \in Nat /\ k # 0 /\ k \in 0 .. n /\ k - 1 \in 0 .. n
    OBVIOUS
  <2> QED
    BY <1>1, <2>1 DEF Recurs
<1> QED
  BY <1>2, <1>3 DEF Loops

(* Whatever does so at each step is one.                                   *)
LEMMA LoopIs ==
  ASSUME NEW S, NEW a, NEW F, a \in S, F \in [Nat -> [S -> S]], NEW n \in Nat,
         NEW g, g = [k \in 0 .. n |-> g[k]], g[0] = a,
         \A k \in 1 .. n : g[k - 1] \in S => g[k] = F[k][g[k - 1]]
  PROVE  Loops(g, n, S, a, F)
<1> DEFINE T == {k \in Nat : k <= n => g[k] \in S}
<1>1. 0 \in T
  OBVIOUS
<1>2. ASSUME NEW k \in Nat, k \in T
      PROVE  k + 1 \in T
  <2> SUFFICES ASSUME k + 1 <= n
               PROVE  g[k + 1] \in S
    OBVIOUS
  <2>1. k + 1 \in 1 .. n /\ k + 1 \in Nat /\ k <= n /\ k + 1 - 1 = k
    OBVIOUS
  <2>2. g[k] \in S
    BY <1>2, <2>1
  <2>3. PICK m \in 1 .. n : m = k + 1 /\ m - 1 = k
    BY <2>1
  <2>4. g[m - 1] \in S => g[m] = F[m][g[m - 1]]
    OBVIOUS
  <2>5. g[m] = F[m][g[k]] /\ F[m] \in [S -> S]
    BY <2>2, <2>3, <2>4
  <2> QED
    BY <2>2, <2>3, <2>5
<1>3. \A k \in 0 .. n : g[k] \in S
  <2>1. \A k \in Nat : k \in T
    <3> HIDE DEF T
    <3> QED
      BY ONLY <1>1, <1>2, Induction
  <2> QED
    BY <2>1
<1>4. \A k \in 1 .. n : k - 1 \in 0 .. n
  OBVIOUS
<1> QED
  BY <1>3, <1>4 DEF Loops

(* A segment that means nothing, one that leads up, and what is neither.   *)
Idle(e) == e \in {"", "."}
Up(e) == e = ".."
Plain(e) == ~Idle(e) /\ ~Up(e)

(* What is known of the segments.                                          *)
LEMMA SegmentsHave == /\ "" \in Segments /\ "." \in Segments /\ ".." \in Segments /\ "-" \in Segments
                      /\ Idle("") /\ Idle(".") /\ Up("..") /\ Plain("-")
  BY DEF Segments, Idle, Up, Plain

(* Entering a directory leads to a path.                                   *)
LEMMA EnterIs ==
  ASSUME NEW q, q \in Seq(Segments), NEW e, e \in Segments
  PROVE  /\ Enter(q, e) \in Seq(Segments)
         /\ Idle(e) => Enter(q, e) = q
         /\ Plain(e) => Enter(q, e) = Append(q, e)
         /\ Up(e) /\ q # << >> /\ ~Up(Last(q)) => Enter(q, e) = Front(q)
         /\ Up(e) /\ (q = << >> \/ Up(Last(q))) => Enter(q, e) = Append(q, e)
<1>1. q # << >> => Front(q) \in Seq(Segments)
  <2> SUFFICES ASSUME q # << >>
               PROVE  Front(q) \in Seq(Segments)
    OBVIOUS
  <2>1. Front(q) = [k \in 1 .. Len(q) - 1 |-> q[k]]
    BY DEF Front
  <2>2. Len(q) - 1 \in Nat /\ \A k \in 1 .. Len(q) - 1 : q[k] \in Segments
    BY EmptySeq
  <2> QED
    BY <2>1, <2>2
<1>2. Append(q, e) \in Seq(Segments)
  OBVIOUS
<1>3. Enter(q, e) = IF Idle(e) THEN q
                    ELSE IF Up(e) /\ q # << >> /\ ~Up(Last(q)) THEN Front(q)
                    ELSE Append(q, e)
  BY DEF Enter, Idle, Up
<1>4. ~(Idle(e) /\ Up(e))
  BY DEF Idle, Up
<1> QED
  BY ONLY <1>1, <1>2, <1>3, <1>4, q \in Seq(Segments) DEF Plain

(* How NormPath comes to its result.                                       *)
NormSteps(g, p) ==
  /\ g \in [0 .. Len(p) -> Seq(Segments)] /\ g[0] = << >>
  /\ \A k \in 1 .. Len(p) : g[k] = Enter(g[k - 1], p[k])

(* There is such a loop, and its end is the result.                        *)
LEMMA NormLoop ==
  ASSUME NEW p \in Seq(Segments)
  PROVE  \E g : NormSteps(g, p) /\ NormPath(p) = g[Len(p)]
<1> DEFINE S == Seq(Segments)
           n == Len(p)
           E == [k \in Nat |-> [q \in S |-> IF k \in 1 .. n THEN Enter(q, p[k]) ELSE q]]
           IsIt(g) == g = [k \in 0 .. n |-> IF k = 0 THEN << >> ELSE Enter(g[k - 1], p[k])]
<1>1. << >> \in S /\ n \in Nat
  OBVIOUS
<1>2. \A k \in 1 .. n : p[k] \in Segments
  OBVIOUS
<1>3. E \in [Nat -> [S -> S]]
  BY <1>2, EnterIs
<1>4. \E f : Loops(f, n, S, << >>, E)
  <2> HIDE DEF E, S, n
  <2> QED
    BY ONLY <1>1, <1>3, LoopThere
<1>4a. PICK f : f \in [0 .. n -> S] /\ f[0] = << >> /\ \A k \in 1 .. n : f[k] = E[k][f[k - 1]]
  <2> HIDE DEF E, S, n
  <2> QED
    BY <1>4 DEF Loops
<1>5. \A k \in 1 .. n : f[k] = Enter(f[k - 1], p[k])
  <2> SUFFICES ASSUME NEW k \in 1 .. n
               PROVE  f[k] = Enter(f[k - 1], p[k])
    OBVIOUS
  <2>1. k \in Nat /\ k - 1 \in 0 .. n /\ f[k - 1] \in S
    BY <1>1, <1>4a
  <2> QED
    BY <1>4a, <2>1
<1>6. IsIt(f)
  <2> HIDE DEF S
  <2>1. \A k \in 0 .. n : f[k] = IF k = 0 THEN << >> ELSE Enter(f[k - 1], p[k])
    BY <1>1, <1>4a, <1>5
  <2> QED
    BY <1>4a, <2>1
<1>7. PICK g : IsIt(g) /\ NormPath(p) = g[n]
  <2> DEFINE g0 == CHOOSE g : IsIt(g)
  <2>1. IsIt(g0)
    BY <1>6
  <2>2. NormPath(p) = g0[n]
    BY DEF NormPath
  <2> QED
    BY <2>1, <2>2
<1>8. /\ g[0] = << >> /\ g = [k \in 0 .. n |-> g[k]]
      /\ \A k \in 1 .. n : g[k] = Enter(g[k - 1], p[k])
  <2>1. \A k \in 0 .. n : g[k] = IF k = 0 THEN << >> ELSE Enter(g[k - 1], p[k])
    BY <1>7
  <2>2. DOMAIN g = 0 .. n /\ 0 \in 0 .. n /\ \A k \in 1 .. n : k \in 0 .. n /\ k # 0
    BY <1>1, <1>7
  <2>3. g = [k \in 0 .. n |-> g[k]]
    BY <1>7
  <2> QED
    BY <2>1, <2>2, <2>3
<1>9. ASSUME NEW k \in 1 .. n, g[k - 1] \in S
      PROVE  g[k] = E[k][g[k - 1]]
  <2>1. k \in Nat
    OBVIOUS
  <2>2. E[k][g[k - 1]] = Enter(g[k - 1], p[k])
    BY <1>9, <2>1
  <2> QED
    BY <1>8, <2>2
<1>10. Loops(g, n, S, << >>, E)
  <2> HIDE DEF E, S, n
  <2> QED
    BY ONLY <1>1, <1>3, <1>8, <1>9, LoopIs
<1>11. g \in [0 .. n -> S]
  BY <1>10 DEF Loops
<1>12. NormSteps(g, p)
  BY <1>8, <1>11 DEF NormSteps
<1> QED
  BY <1>7, <1>12

(* A path normalizes to a path.                                            *)
LEMMA NormTyped ==
  ASSUME NEW p \in Seq(Segments)
  PROVE  NormPath(p) \in Seq(Segments)
  BY NormLoop DEF NormSteps

(* The empty path leads nowhere.                                           *)
LEMMA NormEmpty == NormPath(<< >>) = << >>
<1>1. << >> \in Seq(Segments)
  OBVIOUS
<1> QED
  BY <1>1, NormLoop DEF NormSteps

(* One segment more.                                                       *)
LEMMA NormAppend ==
  ASSUME NEW p \in Seq(Segments), NEW e \in Segments
  PROVE  NormPath(Append(p, e)) = Enter(NormPath(p), e)
<1> DEFINE q == Append(p, e)
           n == Len(p)
<1>1. q \in Seq(Segments) /\ Len(q) = n + 1 /\ n \in Nat /\ q[n + 1] = e
      /\ \A k \in 1 .. n : q[k] = p[k]
  OBVIOUS
<1> HIDE DEF q
<1>2. PICK g : NormSteps(g, p) /\ NormPath(p) = g[n]
  BY NormLoop
<1>3. PICK h : NormSteps(h, q) /\ NormPath(q) = h[n + 1]
  BY <1>1, NormLoop
<1>4. g[0] = << >> /\ \A k \in 1 .. n : g[k] = Enter(g[k - 1], p[k])
  BY <1>2 DEF NormSteps
<1>5. h[0] = << >> /\ \A k \in 1 .. n + 1 : h[k] = Enter(h[k - 1], q[k])
  BY <1>1, <1>3 DEF NormSteps
<1> DEFINE T == {k \in Nat : k <= n => h[k] = g[k]}
<1>6. 0 \in T
  BY <1>4, <1>5
<1>7. ASSUME NEW k \in Nat, k \in T
      PROVE  k + 1 \in T
  <2> SUFFICES ASSUME k + 1 <= n
               PROVE  h[k + 1] = g[k + 1]
    OBVIOUS
  <2>1. k + 1 \in 1 .. n /\ k + 1 \in 1 .. n + 1 /\ k <= n /\ k + 1 - 1 = k
    BY <1>1
  <2>2. h[k] = g[k]
    BY <1>7, <2>1
  <2> QED
    BY <1>1, <1>4, <1>5, <2>1, <2>2
<1>8. h[n] = g[n]
  <2>1. \A k \in Nat : k \in T
    <3> HIDE DEF T
    <3> QED
      BY ONLY <1>6, <1>7, Induction
  <2> QED
    BY <1>1, <2>1
<1>9. n + 1 \in 1 .. n + 1 /\ n + 1 - 1 = n
  BY <1>1
<1>10. NormPath(q) = Enter(NormPath(p), e)
  BY <1>1, <1>2, <1>3, <1>5, <1>8, <1>9
<1> QED
  BY <1>10 DEF q

(* The first k segments.                                                   *)
Pre(p, k) == SubSeq(p, 1, k)

(* The first segments of a path, one by one.                               *)
LEMMA PreIs ==
  ASSUME NEW S, NEW p \in Seq(S)
  PROVE  /\ Pre(p, 0) = << >> /\ Pre(p, Len(p)) = p
         /\ \A k \in 0 .. Len(p) : Pre(p, k) \in Seq(S) /\ Len(Pre(p, k)) = k
         /\ \A k \in 1 .. Len(p) : Pre(p, k) = Append(Pre(p, k - 1), p[k])
         /\ \A k \in Nat : k + 1 <= Len(p) =>
              /\ Pre(p, k) \in Seq(S) /\ Len(Pre(p, k)) = k /\ p[k + 1] \in S
              /\ Pre(p, k + 1) = Append(Pre(p, k), p[k + 1])
<1>1. \A k \in 0 .. Len(p) : Pre(p, k) = [j \in 1 .. k |-> p[j]]
  BY DEF Pre
<1>2. \A k \in 0 .. Len(p) : Pre(p, k) \in Seq(S) /\ Len(Pre(p, k)) = k
  BY <1>1
<1>3. ASSUME NEW k \in 1 .. Len(p)
      PROVE  Pre(p, k) = Append(Pre(p, k - 1), p[k])
  <2>1. k \in 0 .. Len(p) /\ k - 1 \in 0 .. Len(p) /\ k - 1 + 1 = k
    OBVIOUS
  <2>2. Pre(p, k) = [j \in 1 .. k |-> p[j]] /\ Pre(p, k - 1) = [j \in 1 .. k - 1 |-> p[j]]
    BY <1>1, <2>1
  <2>3. p[k] \in S /\ Pre(p, k - 1) \in Seq(S) /\ Len(Pre(p, k - 1)) = k - 1
    BY <1>2, <2>1
  <2>4. Append(Pre(p, k - 1), p[k]) \in Seq(S) /\ Len(Append(Pre(p, k - 1), p[k])) = k
    BY <2>3
  <2>5. \A j \in 1 .. k : Append(Pre(p, k - 1), p[k])[j] = p[j]
    BY <2>2, <2>3
  <2>6. Pre(p, k) \in Seq(S) /\ Len(Pre(p, k)) = k /\ \A j \in 1 .. k : Pre(p, k)[j] = p[j]
    BY <1>2, <2>1, <2>2
  <2> HIDE DEF Pre
  <2> QED
    BY <2>4, <2>5, <2>6
<1>4. Pre(p, 0) = << >>
  BY DEF Pre
<1>5. Pre(p, Len(p)) = p
  BY DEF Pre
<1>6. ASSUME NEW k \in Nat, k + 1 <= Len(p)
      PROVE  /\ Pre(p, k) \in Seq(S) /\ Len(Pre(p, k)) = k /\ p[k + 1] \in S
             /\ Pre(p, k + 1) = Append(Pre(p, k), p[k + 1])
  <2>1. PICK m \in 1 .. Len(p) : m = k + 1 /\ m - 1 = k
    BY <1>6
  <2>2. k \in 0 .. Len(p) /\ p[m] \in S
    BY <1>6
  <2>3. Pre(p, m) = Append(Pre(p, m - 1), p[m])
    BY <1>3
  <2> HIDE DEF Pre
  <2> QED
    BY <1>2, <2>1, <2>2, <2>3
<1> QED
  BY <1>2, <1>3, <1>4, <1>5, <1>6

(* The next of them.                                                       *)
LEMMA PreNext ==
  ASSUME NEW p, p \in Seq(Segments), NEW k, k \in Nat, k + 1 <= Len(p)
  PROVE  /\ Pre(p, k) \in Seq(Segments) /\ p[k + 1] \in Segments
         /\ Pre(p, k + 1) = Append(Pre(p, k), p[k + 1])
<1>1. PICK n \in Nat : n = Len(p)
  OBVIOUS
<1>2. PICK m \in 1 .. n : m = k + 1 /\ m - 1 = k /\ k \in 0 .. n
  BY ONLY <1>1, k \in Nat, k + 1 <= Len(p)
<1>3. Pre(p, k) \in Seq(Segments)
  BY ONLY <1>1, <1>2, p \in Seq(Segments), PreIs
<1>4. Pre(p, m) = Append(Pre(p, m - 1), p[m])
  BY ONLY <1>1, p \in Seq(Segments), m \in 1 .. n, PreIs
<1>5. p[m] \in Segments
  BY ONLY <1>1, p \in Seq(Segments), m \in 1 .. n
<1> QED
  BY ONLY <1>2, <1>3, <1>4, <1>5

(* A segment that means nothing, put before a path, changes nothing.       *)
LEMMA NormDotted ==
  ASSUME NEW p \in Seq(Segments), NEW e, Idle(e), e \in Segments
  PROVE  NormPath(<<e>> \o p) = NormPath(p)
<1> DEFINE T == {k \in Nat : k <= Len(p) => NormPath(<<e>> \o Pre(p, k)) = NormPath(Pre(p, k))}
<1>1. e \in Segments /\ <<e>> \in Seq(Segments) /\ Len(p) \in Nat /\ << >> \in Seq(Segments)
  OBVIOUS
<1>2. 0 \in T
  <2>1. <<e>> \o << >> = Append(<< >>, e)
    OBVIOUS
  <2>2. NormPath(Append(<< >>, e)) = << >>
    <3>1. NormPath(Append(<< >>, e)) = Enter(NormPath(<< >>), e)
      BY ONLY <1>1, NormAppend
    <3>2. Enter(<< >>, e) = << >>
      BY ONLY <1>1, Idle(e), EnterIs
    <3> QED
      BY ONLY <3>1, <3>2, NormEmpty
  <2> QED
    <3>1. Pre(p, 0) = << >> /\ 0 \in Nat
      BY ONLY p \in Seq(Segments), PreIs
    <3> QED
      BY ONLY <2>1, <2>2, <3>1, NormEmpty
<1>3. ASSUME NEW k \in Nat, k \in T
      PROVE  k + 1 \in T
  <2> SUFFICES ASSUME k + 1 <= Len(p)
               PROVE  NormPath(<<e>> \o Pre(p, k + 1)) = NormPath(Pre(p, k + 1))
    OBVIOUS
  <2>1. k + 1 \in 1 .. Len(p) /\ k \in 0 .. Len(p) /\ k <= Len(p) /\ k + 1 - 1 = k
    BY <1>1
  <2>2. PICK q : q = Pre(p, k)
    OBVIOUS
  <2>3. q \in Seq(Segments) /\ p[k + 1] \in Segments /\ Pre(p, k + 1) = Append(q, p[k + 1])
    BY ONLY <2>2, p \in Seq(Segments), k \in Nat, k + 1 <= Len(p), PreNext
  <2>4. <<e>> \o q \in Seq(Segments)
        /\ <<e>> \o Append(q, p[k + 1]) = Append(<<e>> \o q, p[k + 1])
    BY <1>1, <2>3
  <2>5. NormPath(<<e>> \o q) = NormPath(q)
    BY <1>3, <2>1, <2>2
  <2>6. /\ NormPath(Append(q, p[k + 1])) = Enter(NormPath(q), p[k + 1])
        /\ NormPath(Append(<<e>> \o q, p[k + 1])) = Enter(NormPath(<<e>> \o q), p[k + 1])
    BY ONLY <2>3, <2>4, NormAppend
  <2> QED
    BY <2>3, <2>4, <2>5, <2>6
<1>4. Len(p) \in T
  <2>1. \A k \in Nat : k \in T
    <3> HIDE DEF T
    <3> QED
      BY ONLY <1>2, <1>3, Induction
  <2> QED
    BY <1>1, <2>1
<1>5. Pre(p, Len(p)) = p
  BY ONLY p \in Seq(Segments), PreIs
<1> QED
  BY <1>1, <1>4, <1>5

(* The file stays the last.                                                *)
LEMMA NormLast ==
  ASSUME NEW p \in Seq(Segments), p # << >>, Plain(Last(p))
  PROVE  NormPath(p) # << >> /\ Last(NormPath(p)) = Last(p)
<1>1. Len(p) \in 1 .. Len(p) /\ Len(p) - 1 \in 0 .. Len(p) /\ Last(p) = p[Len(p)] /\ Last(p) \in Segments
  BY EmptySeq DEF Last
<1>2. PICK q \in Seq(Segments) : p = Append(q, Last(p))
  <2>1. PICK m \in Nat : m + 1 = Len(p)
    BY <1>1
  <2>2. m + 1 <= Len(p)
    BY <2>1
  <2>3. Pre(p, m) \in Seq(Segments) /\ Pre(p, m + 1) = Append(Pre(p, m), p[m + 1])
    BY ONLY <2>2, m \in Nat, p \in Seq(Segments), PreNext
  <2>4. Pre(p, Len(p)) = p
    BY ONLY p \in Seq(Segments), PreIs
  <2> QED
    BY ONLY <1>1, <2>1, <2>3, <2>4
<1>3. NormPath(p) = Append(NormPath(q), Last(p))
  <2>1. PICK e : e = Last(p) /\ e \in Segments /\ Plain(e)
    BY <1>1
  <2>2. NormPath(Append(q, e)) = Enter(NormPath(q), e)
    BY ONLY <2>1, q \in Seq(Segments), NormAppend
  <2>3. NormPath(q) \in Seq(Segments)
    BY ONLY q \in Seq(Segments), NormTyped
  <2>4. Enter(NormPath(q), e) = Append(NormPath(q), e)
    BY ONLY <2>1, <2>3, EnterIs
  <2> QED
    BY ONLY <1>2, <2>1, <2>2, <2>4
<1>4. NormPath(q) \in Seq(Segments)
  BY NormTyped
<1> QED
  BY <1>1, <1>3, <1>4 DEF Last

(* The shortest path to a file goes up first, if at all.                   *)
Shortest(p) ==
  \A k \in 1 .. Len(p) :
    ~Idle(p[k]) /\ (Up(p[k]) /\ k # 1 => Up(p[k - 1]))

(* Normalizing the shortest path leaves it as it is.                       *)
LEMMA NormShortest ==
  ASSUME NEW p \in Seq(Segments), Shortest(p)
  PROVE  NormPath(p) = p
<1> DEFINE T == {k \in Nat : k <= Len(p) => NormPath(Pre(p, k)) = Pre(p, k)}
<1>1. 0 \in T
  <2>1. Pre(p, 0) = << >>
    BY ONLY p \in Seq(Segments), PreIs
  <2> QED
    BY <2>1, NormEmpty
<1>2. ASSUME NEW k \in Nat, k \in T
      PROVE  k + 1 \in T
  <2> SUFFICES ASSUME k + 1 <= Len(p)
               PROVE  NormPath(Pre(p, k + 1)) = Pre(p, k + 1)
    OBVIOUS
  <2>1. k + 1 \in 1 .. Len(p) /\ k \in 0 .. Len(p) /\ k <= Len(p) /\ k + 1 - 1 = k
    OBVIOUS
  <2>2. PICK q, e : q = Pre(p, k) /\ e = p[k + 1]
    OBVIOUS
  <2>3. q \in Seq(Segments) /\ Len(q) = k /\ e \in Segments /\ Pre(p, k + 1) = Append(q, e)
    <3>1. q \in Seq(Segments) /\ e \in Segments /\ Pre(p, k + 1) = Append(q, e)
      BY ONLY <2>2, p \in Seq(Segments), k \in Nat, k + 1 <= Len(p), PreNext
    <3>2. Len(q) = k
      BY ONLY <2>1, <2>2, p \in Seq(Segments), PreIs
    <3> QED
      BY ONLY <3>1, <3>2
  <2>4. NormPath(q) = q /\ NormPath(Append(q, e)) = Enter(q, e)
    BY <1>2, <2>1, <2>2, <2>3, NormAppend
  <2>5. ~Idle(e) /\ (Up(e) /\ k # 0 => Up(p[k]))
    BY <2>1, <2>2 DEF Shortest
  <2>6. k # 0 => q # << >> /\ Last(q) = p[k]
    <3> SUFFICES ASSUME k # 0
                 PROVE  q # << >> /\ Last(q) = p[k]
      OBVIOUS
    <3>1. k \in 1 .. Len(p) /\ k - 1 \in 0 .. Len(p)
      BY <2>1
    <3>2. PICK m \in Nat : m + 1 = k
      BY ONLY k \in Nat, k # 0
    <3>3. m + 1 <= Len(p)
      BY ONLY <2>1, <3>2
    <3>4. Pre(p, m) \in Seq(Segments) /\ Pre(p, m + 1) = Append(Pre(p, m), p[m + 1])
      BY ONLY <3>3, m \in Nat, p \in Seq(Segments), PreNext
    <3>5. PICK o : o = Pre(p, m) /\ o \in Seq(Segments) /\ q = Append(o, p[k])
      BY ONLY <2>2, <3>2, <3>4
    <3>6. q[Len(q)] = p[k] /\ q # << >>
      BY ONLY <3>5
    <3> QED
      BY ONLY <3>6 DEF Last
  <2>7. k = 0 => q = << >>
    BY <2>3, EmptySeq
  <2>8. Enter(q, e) = Append(q, e)
    BY <2>3, <2>5, <2>6, <2>7, EnterIs DEF Plain
  <2> QED
    BY <2>3, <2>4, <2>8
<1>3. Len(p) \in T
  <2>1. \A k \in Nat : k \in T
    <3> HIDE DEF T
    <3> QED
      BY ONLY <1>1, <1>2, Induction
  <2> QED
    BY <2>1
<1>4. Pre(p, Len(p)) = p
  BY ONLY p \in Seq(Segments), PreIs
<1> QED
  BY <1>3, <1>4

(* What replacing "//" or "/./" makes of the first k segments, from what   *)
(* it has made of one less.                                                *)
BetweenStep(p, e, k, acc) ==
  IF 1 < k /\ k < Len(p) /\ p[k] = e /\ ~acc.dropped
  THEN [left |-> acc.left, dropped |-> TRUE]
  ELSE [left |-> Append(acc.left, p[k]), dropped |-> FALSE]

(* The steps of the loop, over segments of the set A.                      *)
BetweenSteps(g, p, e, A) ==
  /\ \A k \in 0 .. Len(p) : g[k].left \in Seq(A) /\ g[k].dropped \in BOOLEAN
  /\ g[0] = [left |-> << >>, dropped |-> FALSE]
  /\ \A k \in Nat : k + 1 <= Len(p) => g[k + 1] = BetweenStep(p, e, k + 1, g[k])

(* How DropBetweenSlashes comes to its result.                             *)
LEMMA BetweenLoop ==
  ASSUME NEW A, NEW p, p \in Seq(A), NEW e
  PROVE  \E g : BetweenSteps(g, p, e, A) /\ DropBetweenSlashes(p, e) = g[Len(p)].left
<1> DEFINE S == [left : Seq(A), dropped : BOOLEAN]
           n == Len(p)
           a0 == [left |-> << >>, dropped |-> FALSE]
           E == [k \in Nat |-> [q \in S |-> IF k \in 1 .. n THEN BetweenStep(p, e, k, q) ELSE q]]
           IsIt(g) == g = [k \in 0 .. n |-> IF k = 0 THEN a0 ELSE BetweenStep(p, e, k, g[k - 1])]
<1>1. a0 \in S /\ n \in Nat
  OBVIOUS
<1>2. \A k \in 1 .. n : p[k] \in A
  OBVIOUS
<1>3. E \in [Nat -> [S -> S]]
  <2> SUFFICES ASSUME NEW k \in 1 .. n, NEW q \in S
               PROVE  BetweenStep(p, e, k, q) \in S
    OBVIOUS
  <2>1. q.left \in Seq(A) /\ p[k] \in A
    BY <1>2
  <2>2. Append(q.left, p[k]) \in Seq(A)
    BY <2>1
  <2> QED
    BY <2>1, <2>2 DEF BetweenStep
<1>4. PICK f : Loops(f, n, S, a0, E)
  <2> HIDE DEF E, S, n, a0
  <2> QED
    BY ONLY <1>1, <1>3, LoopThere
<1>5. f \in [0 .. n -> S] /\ f[0] = a0 /\ \A k \in 1 .. n : f[k] = E[k][f[k - 1]]
  <2> HIDE DEF E, S, n, a0
  <2> QED
    BY <1>4 DEF Loops
<1>6. \A k \in 1 .. n : f[k] = BetweenStep(p, e, k, f[k - 1])
  <2> SUFFICES ASSUME NEW k \in 1 .. n
               PROVE  f[k] = BetweenStep(p, e, k, f[k - 1])
    OBVIOUS
  <2> HIDE DEF S
  <2>1. k \in Nat /\ k - 1 \in 0 .. n /\ f[k - 1] \in S
    BY <1>1, <1>5
  <2> QED
    BY <1>5, <2>1
<1>7. IsIt(f)
  <2> HIDE DEF S, a0
  <2>1. \A k \in 0 .. n : f[k] = IF k = 0 THEN a0 ELSE BetweenStep(p, e, k, f[k - 1])
    BY <1>1, <1>5, <1>6
  <2> QED
    BY <1>5, <2>1
<1>8. PICK g : IsIt(g) /\ DropBetweenSlashes(p, e) = g[n].left
  <2> DEFINE g0 == CHOOSE g : IsIt(g)
  <2>1. IsIt(g0)
    BY <1>7
  <2>2. DropBetweenSlashes(p, e) = g0[n].left
    BY DEF DropBetweenSlashes, BetweenStep
  <2> QED
    BY <2>1, <2>2
<1>9. /\ g[0] = a0 /\ g = [k \in 0 .. n |-> g[k]]
      /\ \A k \in 1 .. n : g[k] = BetweenStep(p, e, k, g[k - 1])
  <2> HIDE DEF a0
  <2>1. \A k \in 0 .. n : g[k] = IF k = 0 THEN a0 ELSE BetweenStep(p, e, k, g[k - 1])
    BY <1>8
  <2>2. DOMAIN g = 0 .. n /\ 0 \in 0 .. n /\ \A k \in 1 .. n : k \in 0 .. n /\ k # 0
    BY <1>1, <1>8
  <2>3. g = [k \in 0 .. n |-> g[k]]
    BY <1>8
  <2> QED
    BY <2>1, <2>2, <2>3
<1>10. ASSUME NEW k \in 1 .. n, g[k - 1] \in S
       PROVE  g[k] = E[k][g[k - 1]]
  <2>1. k \in Nat
    OBVIOUS
  <2> HIDE DEF S
  <2>2. E[k][g[k - 1]] = BetweenStep(p, e, k, g[k - 1])
    BY <1>10, <2>1
  <2> QED
    BY <1>9, <2>2
<1>11. Loops(g, n, S, a0, E)
  <2> HIDE DEF E, S, n, a0
  <2> QED
    BY ONLY <1>1, <1>3, <1>9, <1>10, LoopIs
<1>12. g \in [0 .. n -> S]
  <2> HIDE DEF S
  <2> QED
    BY <1>11 DEF Loops
<1>13. BetweenSteps(g, p, e, A)
  <2>1. \A k \in Nat : k + 1 <= n => k + 1 \in 1 .. n /\ k + 1 - 1 = k
    BY <1>1
  <2>2. \A k \in Nat : k + 1 <= n => g[k + 1] = BetweenStep(p, e, k + 1, g[k])
    BY <1>9, <2>1
  <2>3. \A k \in 0 .. n : g[k].left \in Seq(A) /\ g[k].dropped \in BOOLEAN
    BY <1>12
  <2> QED
    BY <1>9, <2>2, <2>3 DEF BetweenSteps
<1> QED
  BY <1>8, <1>13

(* No two of a kind stand together, behind the first segment.              *)
Lone(p, e) == \A j \in 2 .. Len(p) - 1 : ~(p[j] = e /\ p[j + 1] = e)

(* What has become of the first k segments.                                *)
Between(p, e, k, x, d) ==
  /\ NormPath(x) = NormPath(Pre(p, k)) /\ Len(x) <= k
  /\ Len(x) = k => x = Pre(p, k) /\ ~d /\ \A j \in 2 .. k : j < Len(p) => p[j] # e
  /\ k > 0 => x # << >> /\ x[1] = p[1]
  /\ d => k >= 2 /\ k < Len(p) /\ p[k] = e
  /\ k > 0 /\ ~d => Last(x) = p[k]
  /\ Lone(p, e) => \A j \in 2 .. Len(x) : x[j] = e => j = Len(x) /\ k = Len(p)

(* The k-th segment is dropped, when d says whether the last one was.      *)
Drops(p, e, k, d) == 1 < k /\ k < Len(p) /\ p[k] = e /\ ~d

(* A segment is dropped.                                                   *)
LEMMA BetweenDrops ==
  ASSUME NEW p, p \in Seq(Segments), NEW e, e \in Segments, Idle(e), NEW k \in Nat, k + 1 <= Len(p),
         NEW x, x \in Seq(Segments), NEW d, Between(p, e, k, x, d),
         Drops(p, e, k + 1, d)
  PROVE  Between(p, e, k + 1, x, TRUE)
<1>0. 1 < k + 1 /\ k + 1 < Len(p) /\ p[k + 1] = e /\ ~d
  BY DEF Drops
<1>1. PICK n \in Nat : n = Len(p)
  OBVIOUS
<1>2. PICK l \in Nat : l = Len(x)
  OBVIOUS
<1>3. PICK q, r : q = Pre(p, k) /\ r = Pre(p, k + 1)
  OBVIOUS
<1>4. q \in Seq(Segments) /\ r = Append(q, e)
  <2>1. q \in Seq(Segments) /\ r = Append(q, p[k + 1])
    BY ONLY <1>3, p \in Seq(Segments), k \in Nat, k + 1 <= Len(p), PreNext
  <2> QED
    BY <1>0, <2>1
<1>5. NormPath(r) = NormPath(q)
  BY <1>4, NormAppend, NormTyped, EnterIs
<1>6. /\ NormPath(x) = NormPath(q) /\ l <= k /\ x # << >> /\ x[1] = p[1]
      /\ Lone(p, e) => \A j \in 2 .. l : x[j] = e => j = l /\ k = n
  BY <1>0, <1>1, <1>2, <1>3 DEF Between
<1>7. Lone(p, e) => \A j \in 2 .. l : x[j] # e
  BY <1>0, <1>1, <1>6
<1> QED
  BY <1>0, <1>1, <1>2, <1>3, <1>5, <1>6, <1>7 DEF Between

(* A segment stays.                                                        *)
LEMMA BetweenStays ==
  ASSUME NEW p, p \in Seq(Segments), NEW e, e \in Segments, NEW k \in Nat, k + 1 <= Len(p),
         NEW x, x \in Seq(Segments), NEW d, Between(p, e, k, x, d),
         ~(1 < k + 1 /\ k + 1 < Len(p) /\ p[k + 1] = e /\ ~d)
  PROVE  Between(p, e, k + 1, Append(x, p[k + 1]), FALSE)
<1>1. PICK n \in Nat : n = Len(p)
  OBVIOUS
<1>2. PICK l \in Nat : l = Len(x)
  OBVIOUS
<1>3. PICK q, r, c, y : q = Pre(p, k) /\ r = Pre(p, k + 1) /\ c = p[k + 1] /\ y = Append(x, p[k + 1])
  OBVIOUS
<1>4. q \in Seq(Segments) /\ r = Append(q, c) /\ c \in Segments
  BY ONLY <1>3, p \in Seq(Segments), k \in Nat, k + 1 <= Len(p), PreNext
<1>5. /\ y \in Seq(Segments) /\ Len(y) = l + 1 /\ y[l + 1] = c /\ y = Append(x, c)
      /\ \A j \in 1 .. l : y[j] = x[j]
  BY <1>2, <1>3, <1>4
<1>6. /\ NormPath(x) = NormPath(q) /\ l <= k
      /\ l = k => x = q /\ ~d /\ \A j \in 2 .. k : j < n => p[j] # e
      /\ k > 0 => x # << >> /\ x[1] = p[1]
      /\ d => k >= 2 /\ k < n /\ p[k] = e
      /\ Lone(p, e) => \A j \in 2 .. l : x[j] = e => j = l /\ k = n
  BY <1>1, <1>2, <1>3 DEF Between
<1>7. NormPath(y) = NormPath(r)
  BY <1>4, <1>5, <1>6, NormAppend
<1>8. k > 0 => l >= 1
  BY <1>2, <1>6, EmptySeq
<1>9. y # << >> /\ y[1] = p[1]
  <2>1. CASE k = 0
    <3>1. l = 0
      BY <1>6, <2>1
    <3> QED
      BY <1>3, <1>5, <2>1, <3>1, EmptySeq
  <2>2. CASE k > 0
    BY <1>5, <1>6, <1>8, <2>2, EmptySeq
  <2> QED
    BY <2>1, <2>2
<1>10. l + 1 = k + 1 => y = r /\ \A j \in 2 .. k + 1 : j < n => p[j] # e
  <2> SUFFICES ASSUME l = k
               PROVE  y = r /\ \A j \in 2 .. k + 1 : j < n => p[j] # e
    BY <1>2
  <2>1. y = r
    BY <1>4, <1>5, <1>6
  <2>2. ASSUME NEW j \in 2 .. k + 1, j < n
        PROVE  p[j] # e
    <3>1. CASE j = k + 1
      BY <1>1, <1>6, <2>2, <3>1
    <3>2. CASE j # k + 1
      <4>1. j \in 2 .. k
        BY <3>2
      <4> QED
        BY <1>6, <2>2, <4>1
    <3> QED
      BY <3>1, <3>2
  <2> QED
    BY <2>1, <2>2
<1>11. Last(y) = c
  BY <1>5 DEF Last
<1>12. ASSUME Lone(p, e), NEW j \in 2 .. l + 1, y[j] = e
       PROVE  j = l + 1 /\ k + 1 = n
  <2>1. CASE j # l + 1
    <3>1. j \in 2 .. l /\ j \in 1 .. l
      BY <2>1
    <3>2. k = n
      BY <1>5, <1>6, <1>12, <3>1
    <3> QED
      BY <1>1, <3>2
  <2>2. CASE j = l + 1
    <3>1. c = e /\ 1 < k + 1
      BY <1>5, <1>6, <1>12, <2>2
    <3>2. ~(k + 1 < n /\ ~d)
      BY <1>1, <1>3, <3>1
    <3>3. CASE k + 1 < n
      <4>1. k \in 2 .. n - 1 /\ p[k] = e /\ p[k + 1] = e
        BY <1>3, <1>6, <3>1, <3>2, <3>3
      <4> QED
        BY <1>1, <1>12, <4>1 DEF Lone
    <3> QED
      BY <1>1, <2>2, <3>3
  <2> QED
    BY <2>1, <2>2
<1> QED
  BY <1>1, <1>3, <1>5, <1>6, <1>7, <1>9, <1>10, <1>11, <1>12 DEF Between

(* So it is for every k.                                                   *)
LEMMA BetweenAll ==
  ASSUME NEW A, A \subseteq Segments, NEW p, p \in Seq(A), NEW e, e \in Segments, Idle(e)
  PROVE  \E g : /\ BetweenSteps(g, p, e, A) /\ DropBetweenSlashes(p, e) = g[Len(p)].left
               /\ \A k \in 0 .. Len(p) : Between(p, e, k, g[k].left, g[k].dropped)
<1>1. PICK g : BetweenSteps(g, p, e, A) /\ DropBetweenSlashes(p, e) = g[Len(p)].left
  BY ONLY p \in Seq(A), BetweenLoop
<1>2. p \in Seq(Segments) /\ \A x : x \in Seq(A) => x \in Seq(Segments)
  OBVIOUS
<1>3. PICK n \in Nat : n = Len(p)
  OBVIOUS
<1> DEFINE T == {k \in Nat : k <= n => Between(p, e, k, g[k].left, g[k].dropped)}
<1>4. 0 \in T
  <2>1. g[0].left = << >> /\ g[0].dropped = FALSE
    BY <1>1 DEF BetweenSteps
  <2>2. Pre(p, 0) = << >> /\ Len(<< >>) = 0
    BY <1>2, PreIs
  <2> HIDE DEF T
  <2>3. Between(p, e, 0, << >>, FALSE)
    BY <2>2 DEF Between
  <2> QED
    BY <2>1, <2>3 DEF T
<1>5. ASSUME NEW k \in Nat, k \in T
      PROVE  k + 1 \in T
  <2> SUFFICES ASSUME k + 1 <= n
               PROVE  Between(p, e, k + 1, g[k + 1].left, g[k + 1].dropped)
    OBVIOUS
  <2>1. PICK x, d : x = g[k].left /\ d = g[k].dropped
    OBVIOUS
  <2>2. k \in 0 .. n /\ k <= n
    OBVIOUS
  <2>3. Between(p, e, k, x, d) /\ x \in Seq(Segments)
    BY <1>1, <1>2, <1>3, <1>5, <2>1, <2>2 DEF BetweenSteps
  <2>4. g[k + 1] = BetweenStep(p, e, k + 1, g[k])
    BY <1>1, <1>3 DEF BetweenSteps
  <2>5. CASE 1 < k + 1 /\ k + 1 < Len(p) /\ p[k + 1] = e /\ ~d
    <3>0. 1 < k + 1 /\ k + 1 < Len(p) /\ k + 1 <= Len(p) /\ p[k + 1] = e /\ ~d /\ p \in Seq(Segments)
      BY <1>2, <2>5
    <3>0a. /\ p \in Seq(Segments) /\ e \in Segments /\ Idle(e) /\ k \in Nat /\ k + 1 <= Len(p)
           /\ x \in Seq(Segments) /\ Between(p, e, k, x, d)
           /\ Drops(p, e, k + 1, d)
      BY <2>3, <3>0 DEF Drops
    <3>1. Between(p, e, k + 1, x, TRUE)
      BY ONLY <3>0a, BetweenDrops
    <3>2. g[k + 1].left = x /\ g[k + 1].dropped = TRUE
      BY <2>1, <2>4, <2>5 DEF BetweenStep
    <3> QED
      BY <3>1, <3>2
  <2>6. CASE ~(1 < k + 1 /\ k + 1 < Len(p) /\ p[k + 1] = e /\ ~d)
    <3>1. Between(p, e, k + 1, Append(x, p[k + 1]), FALSE)
      BY ONLY <1>2, <1>3, <2>3, <2>6, k \in Nat, k + 1 <= n, e \in Segments, BetweenStays
    <3>2. g[k + 1].left = Append(x, p[k + 1]) /\ g[k + 1].dropped = FALSE
      BY <2>1, <2>4, <2>6 DEF BetweenStep
    <3> QED
      BY <3>1, <3>2
  <2> QED
    BY <2>5, <2>6
<1>6. \A k \in 0 .. n : Between(p, e, k, g[k].left, g[k].dropped)
  <2>1. \A k \in Nat : k \in T
    <3> HIDE DEF T
    <3> QED
      BY ONLY <1>4, <1>5, Induction
  <2> QED
    BY <2>1
<1> QED
  BY <1>1, <1>3, <1>6

(* So what replacing does.                                                 *)
Replaces(p, e, q, A) ==
  /\ q \in Seq(A) /\ NormPath(q) = NormPath(p) /\ Len(q) <= Len(p)
  /\ Len(q) = Len(p) => q = p /\ \A j \in 2 .. Len(p) - 1 : p[j] # e
  /\ p # << >> => q # << >> /\ q[1] = p[1] /\ Last(q) = Last(p)
  /\ Lone(p, e) => \A j \in 2 .. Len(q) - 1 : q[j] # e

(* So it does.                                                             *)
LEMMA BetweenIs ==
  ASSUME NEW A, A \subseteq Segments, NEW p, p \in Seq(A), NEW e, e \in Segments, Idle(e)
  PROVE  Replaces(p, e, DropBetweenSlashes(p, e), A)
<1>1. PICK g : /\ BetweenSteps(g, p, e, A) /\ DropBetweenSlashes(p, e) = g[Len(p)].left
               /\ \A k \in 0 .. Len(p) : Between(p, e, k, g[k].left, g[k].dropped)
  BY ONLY A \subseteq Segments, p \in Seq(A), e \in Segments, Idle(e), BetweenAll
<1>2. p \in Seq(Segments)
  OBVIOUS
<1>3. PICK n \in Nat : n = Len(p)
  OBVIOUS
<1>6. PICK q, d : q = g[n].left /\ d = g[n].dropped /\ Between(p, e, n, q, d)
  BY <1>1, <1>3
<1>7. q \in Seq(A) /\ DropBetweenSlashes(p, e) = q
  BY <1>1, <1>3, <1>6 DEF BetweenSteps
<1>8. Pre(p, n) = p /\ (p # << >> => n >= 1) /\ Last(p) = p[n]
  BY <1>2, <1>3, PreIs, EmptySeq DEF Last
<1>9. ~d
  BY <1>3, <1>6 DEF Between
<1>10. Lone(p, e) => \A j \in 2 .. Len(q) - 1 : q[j] # e
  <2> SUFFICES ASSUME Lone(p, e), NEW j \in 2 .. Len(q) - 1, q[j] = e
               PROVE  FALSE
    OBVIOUS
  <2>1. PICK l \in Nat : l = Len(q)
    BY <1>7
  <2>2. j \in 2 .. l /\ j # l
    BY <2>1
  <2> QED
    BY <1>6, <2>1, <2>2 DEF Between
<1>11. Len(q) = n => \A j \in 2 .. n - 1 : p[j] # e
  BY <1>3, <1>6 DEF Between
<1> QED
  BY <1>3, <1>6, <1>7, <1>8, <1>9, <1>10, <1>11 DEF Between, Replaces

(* What dropping directories together with the ".." behind them makes of   *)
(* the first k segments.                                                   *)
UpsStep(p, k, acc) ==
  IF acc.skip THEN [left |-> acc.left, skip |-> FALSE]
  ELSE IF k < Len(p) /\ Up(p[k + 1]) /\ Ordinary(p[k])
  THEN [left |-> acc.left, skip |-> TRUE]
  ELSE [left |-> Append(acc.left, p[k]), skip |-> FALSE]

(* The steps of the loop, over segments of the set A.                      *)
UpsSteps(g, p, A) ==
  /\ \A k \in 0 .. Len(p) : g[k].left \in Seq(A) /\ g[k].skip \in BOOLEAN
  /\ g[0] = [left |-> << >>, skip |-> FALSE]
  /\ \A k \in Nat : k + 1 <= Len(p) => g[k + 1] = UpsStep(p, k + 1, g[k])

(* How DropUps comes to its result.                                        *)
LEMMA UpsLoop ==
  ASSUME NEW A, NEW p, p \in Seq(A)
  PROVE  \E g : UpsSteps(g, p, A) /\ DropUps(p) = g[Len(p)].left
<1> DEFINE S == [left : Seq(A), skip : BOOLEAN]
           n == Len(p)
           a0 == [left |-> << >>, skip |-> FALSE]
           E == [k \in Nat |-> [q \in S |-> IF k \in 1 .. n THEN UpsStep(p, k, q) ELSE q]]
           IsIt(g) == g = [k \in 0 .. n |-> IF k = 0 THEN a0 ELSE UpsStep(p, k, g[k - 1])]
<1>1. a0 \in S /\ n \in Nat
  OBVIOUS
<1>2. \A k \in 1 .. n : p[k] \in A
  OBVIOUS
<1>3. E \in [Nat -> [S -> S]]
  <2> SUFFICES ASSUME NEW k \in 1 .. n, NEW q \in S
               PROVE  UpsStep(p, k, q) \in S
    OBVIOUS
  <2>1. q.left \in Seq(A) /\ p[k] \in A
    BY <1>2
  <2>2. Append(q.left, p[k]) \in Seq(A)
    BY <2>1
  <2> QED
    BY <2>1, <2>2 DEF UpsStep
<1>4. PICK f : Loops(f, n, S, a0, E)
  <2> HIDE DEF E, S, n, a0
  <2> QED
    BY ONLY <1>1, <1>3, LoopThere
<1>5. f \in [0 .. n -> S] /\ f[0] = a0 /\ \A k \in 1 .. n : f[k] = E[k][f[k - 1]]
  <2> HIDE DEF E, S, n, a0
  <2> QED
    BY <1>4 DEF Loops
<1>6. \A k \in 1 .. n : f[k] = UpsStep(p, k, f[k - 1])
  <2> SUFFICES ASSUME NEW k \in 1 .. n
               PROVE  f[k] = UpsStep(p, k, f[k - 1])
    OBVIOUS
  <2> HIDE DEF S
  <2>1. k \in Nat /\ k - 1 \in 0 .. n /\ f[k - 1] \in S
    BY <1>1, <1>5
  <2> QED
    BY <1>5, <2>1
<1>7. IsIt(f)
  <2> HIDE DEF S, a0
  <2>1. \A k \in 0 .. n : f[k] = IF k = 0 THEN a0 ELSE UpsStep(p, k, f[k - 1])
    BY <1>1, <1>5, <1>6
  <2> QED
    BY <1>5, <2>1
<1>8. PICK g : IsIt(g) /\ DropUps(p) = g[n].left
  <2> DEFINE g0 == CHOOSE g : IsIt(g)
  <2>1. IsIt(g0)
    BY <1>7
  <2>2. DropUps(p) = g0[n].left
    BY DEF DropUps, UpsStep, Up
  <2> QED
    BY <2>1, <2>2
<1>9. /\ g[0] = a0 /\ g = [k \in 0 .. n |-> g[k]]
      /\ \A k \in 1 .. n : g[k] = UpsStep(p, k, g[k - 1])
  <2> HIDE DEF a0
  <2>1. \A k \in 0 .. n : g[k] = IF k = 0 THEN a0 ELSE UpsStep(p, k, g[k - 1])
    BY <1>8
  <2>2. DOMAIN g = 0 .. n /\ 0 \in 0 .. n /\ \A k \in 1 .. n : k \in 0 .. n /\ k # 0
    BY <1>1, <1>8
  <2>3. g = [k \in 0 .. n |-> g[k]]
    BY <1>8
  <2> QED
    BY <2>1, <2>2, <2>3
<1>10. ASSUME NEW k \in 1 .. n, g[k - 1] \in S
       PROVE  g[k] = E[k][g[k - 1]]
  <2>1. k \in Nat
    OBVIOUS
  <2> HIDE DEF S
  <2>2. E[k][g[k - 1]] = UpsStep(p, k, g[k - 1])
    BY <1>10, <2>1
  <2> QED
    BY <1>9, <2>2
<1>11. Loops(g, n, S, a0, E)
  <2> HIDE DEF E, S, n, a0
  <2> QED
    BY ONLY <1>1, <1>3, <1>9, <1>10, LoopIs
<1>12. g \in [0 .. n -> S]
  <2> HIDE DEF S
  <2> QED
    BY <1>11 DEF Loops
<1>13. UpsSteps(g, p, A)
  <2>1. \A k \in Nat : k + 1 <= n => k + 1 \in 1 .. n /\ k + 1 - 1 = k
    BY <1>1
  <2>2. \A k \in Nat : k + 1 <= n => g[k + 1] = UpsStep(p, k + 1, g[k])
    BY <1>9, <2>1
  <2>3. \A k \in 0 .. n : g[k].left \in Seq(A) /\ g[k].skip \in BOOLEAN
    BY <1>12
  <2> QED
    BY <1>9, <2>2, <2>3 DEF UpsSteps
<1> QED
  BY <1>8, <1>13

(* Nothing but the first segment is idle.                                  *)
Busy(p) == \A j \in 2 .. Len(p) : ~Idle(p[j])

(* What has become of the first k segments.                                *)
Raised(p, k, x, s) ==
  /\ ~s => NormPath(x) = NormPath(Pre(p, k))
  /\ s => /\ k >= 1 /\ k < Len(p) /\ Plain(p[k]) /\ Up(p[k + 1])
          /\ NormPath(x) = NormPath(Pre(p, k - 1))
  /\ Len(x) <= k
  /\ Len(x) = k => x = Pre(p, k) /\ ~s /\ \A j \in 1 .. k : j < Len(p) /\ Up(p[j + 1]) => ~Plain(p[j])
  /\ k > 0 /\ Plain(p[k]) /\ ~s => x # << >> /\ Last(x) = p[k]
  /\ k > 0 /\ ~Plain(p[1]) => x # << >> /\ x[1] = p[1] /\ (Busy(p) => Busy(x))

(* The next segment leads up from the one that was passed over.            *)
LEMMA RaisedSkips ==
  ASSUME NEW p, p \in Seq(Segments), NEW k \in Nat, k + 1 <= Len(p),
         NEW x, x \in Seq(Segments), NEW s, Raised(p, k, x, s), s
  PROVE  Raised(p, k + 1, x, FALSE)
<1>1. PICK n \in Nat : n = Len(p)
  OBVIOUS
<1>2. PICK l \in Nat : l = Len(x)
  OBVIOUS
<1>3. /\ k >= 1 /\ k < n /\ Plain(p[k]) /\ Up(p[k + 1]) /\ NormPath(x) = NormPath(Pre(p, k - 1))
      /\ l <= k
      /\ k > 0 /\ ~Plain(p[1]) => x # << >> /\ x[1] = p[1] /\ (Busy(p) => Busy(x))
  BY <1>1, <1>2 DEF Raised
<1>4. l # k
  <2> SUFFICES ASSUME l = k
               PROVE  FALSE
    OBVIOUS
  <2> QED
    BY <1>2 DEF Raised
<1>5. PICK h \in Nat : h = k - 1 /\ h + 1 = k
  BY <1>3
<1>6. PICK q, r, u, b, c : q = Pre(p, h) /\ r = Pre(p, k) /\ u = Pre(p, k + 1) /\ b = p[k] /\ c = p[k + 1]
  OBVIOUS
<1>7. q \in Seq(Segments) /\ b \in Segments /\ r = Append(q, b)
  <2>1. h + 1 <= Len(p)
    BY <1>1, <1>3, <1>5
  <2>2. /\ Pre(p, h) \in Seq(Segments) /\ p[h + 1] \in Segments
        /\ Pre(p, h + 1) = Append(Pre(p, h), p[h + 1])
    BY ONLY <1>5, <2>1, p \in Seq(Segments), PreNext
  <2> QED
    BY ONLY <1>5, <1>6, <2>2
<1>8. r \in Seq(Segments) /\ c \in Segments /\ u = Append(r, c)
  <2>1. /\ Pre(p, k) \in Seq(Segments) /\ p[k + 1] \in Segments
        /\ Pre(p, k + 1) = Append(Pre(p, k), p[k + 1])
    BY ONLY k \in Nat, k + 1 <= Len(p), p \in Seq(Segments), PreNext
  <2> QED
    BY ONLY <1>6, <2>1
<1>9. PICK t : t = NormPath(q) /\ t \in Seq(Segments)
  BY <1>7, NormTyped
<1>10. NormPath(r) = Append(t, b)
  BY <1>3, <1>6, <1>7, <1>9, NormAppend, EnterIs
<1>10a. PICK w : w = Append(t, b)
  OBVIOUS
<1>11. w = Append(t, b) /\ w \in Seq(Segments) /\ Len(w) = Len(t) + 1 /\ Last(w) = b
  <2>1. t \in Seq(Segments) /\ b \in Segments
    BY <1>7, <1>9
  <2>2. w \in Seq(Segments) /\ Len(w) = Len(t) + 1 /\ w[Len(t) + 1] = b
    BY ONLY <1>10a, <2>1
  <2> QED
    BY ONLY <1>10a, <2>2 DEF Last
<1>12. w # << >> /\ Front(w) = t
  <2>1. w # << >>
    BY <1>9, <1>11, EmptySeq
  <2>2. Front(w) = [j \in 1 .. Len(t) |-> t[j]]
    BY <1>7, <1>9, <1>11 DEF Front
  <2>3. t = [j \in 1 .. Len(t) |-> t[j]]
    BY <1>9
  <2> QED
    BY <2>1, <2>2, <2>3
<1>13. NormPath(u) = t
  <2>1. NormPath(u) = Enter(w, c)
    BY <1>8, <1>10, <1>11, NormAppend
  <2>2. Up(c) /\ ~Up(Last(w))
    BY <1>3, <1>6, <1>11 DEF Plain
  <2> QED
    BY <1>8, <1>11, <1>12, <2>1, <2>2, EnterIs
<1>14. NormPath(x) = t
  BY <1>3, <1>5, <1>6, <1>9
<1>15. l <= k + 1 /\ l # k + 1
  BY <1>3
<1>16. ~Plain(p[k + 1])
  BY <1>3 DEF Plain
<1> QED
  BY <1>2, <1>3, <1>6, <1>13, <1>14, <1>15, <1>16 DEF Raised

(* The k-th directory goes together with the next segment.                 *)
GoesUp(p, k, s) == ~s /\ k < Len(p) /\ Up(p[k + 1]) /\ Plain(p[k])
(* The k-th segment stays, when s says whether it is one to skip.          *)
Remains(p, k, s) == ~s /\ ~(k < Len(p) /\ Up(p[k + 1]) /\ Plain(p[k]))

(* A directory is passed over.                                             *)
LEMMA RaisedDrops ==
  ASSUME NEW p, p \in Seq(Segments), NEW k \in Nat, k + 1 <= Len(p),
         NEW x, x \in Seq(Segments), NEW s, Raised(p, k, x, s), GoesUp(p, k + 1, s)
  PROVE  Raised(p, k + 1, x, TRUE)
<1>0. ~s /\ k + 1 < Len(p) /\ Up(p[k + 1 + 1]) /\ Plain(p[k + 1])
  BY DEF GoesUp
<1>1. PICK n \in Nat : n = Len(p)
  OBVIOUS
<1>2. PICK l \in Nat : l = Len(x)
  OBVIOUS
<1>3. /\ NormPath(x) = NormPath(Pre(p, k)) /\ l <= k
      /\ k > 0 /\ ~Plain(p[1]) => x # << >> /\ x[1] = p[1] /\ (Busy(p) => Busy(x))
  BY <1>0, <1>2 DEF Raised
<1>4. k + 1 - 1 = k /\ k + 1 >= 1 /\ l # k + 1 /\ l <= k + 1
  BY <1>3
<1>5. ~Plain(p[1]) => k > 0
  <2>1. k = 0 => k + 1 = 1
    OBVIOUS
  <2> QED
    BY <1>0, <2>1
<1> QED
  BY <1>0, <1>2, <1>3, <1>4, <1>5 DEF Raised

(* A segment stays.                                                        *)
LEMMA RaisedStays ==
  ASSUME NEW p, p \in Seq(Segments), NEW k \in Nat, k + 1 <= Len(p),
         NEW x, x \in Seq(Segments), NEW s, Raised(p, k, x, s), Remains(p, k + 1, s)
  PROVE  Raised(p, k + 1, Append(x, p[k + 1]), FALSE)
<1>0. ~s /\ (k + 1 < Len(p) /\ Up(p[k + 1 + 1]) => ~Plain(p[k + 1]))
  BY DEF Remains
<1>1. PICK n \in Nat : n = Len(p)
  OBVIOUS
<1>2. PICK l \in Nat : l = Len(x)
  OBVIOUS
<1>3. PICK q, r, c, y : q = Pre(p, k) /\ r = Pre(p, k + 1) /\ c = p[k + 1] /\ y = Append(x, p[k + 1])
  OBVIOUS
<1>4. q \in Seq(Segments) /\ r = Append(q, c) /\ c \in Segments
  BY ONLY <1>3, p \in Seq(Segments), k \in Nat, k + 1 <= Len(p), PreNext
<1>5. /\ y \in Seq(Segments) /\ Len(y) = l + 1 /\ y[l + 1] = c /\ y = Append(x, c)
      /\ \A j \in 1 .. l : y[j] = x[j]
  BY <1>2, <1>3, <1>4
<1>6. /\ NormPath(x) = NormPath(q) /\ l <= k
      /\ l = k => x = q /\ \A j \in 1 .. k : j < n /\ Up(p[j + 1]) => ~Plain(p[j])
      /\ k > 0 /\ ~Plain(p[1]) => x # << >> /\ x[1] = p[1] /\ (Busy(p) => Busy(x))
  BY <1>0, <1>1, <1>2, <1>3 DEF Raised
<1>7. NormPath(y) = NormPath(r)
  BY <1>4, <1>5, <1>6, NormAppend
<1>8. y # << >> /\ Last(y) = c
  BY <1>2, <1>5, EmptySeq DEF Last
<1>9. l + 1 = k + 1 => y = r /\ \A j \in 1 .. k + 1 : j < n /\ Up(p[j + 1]) => ~Plain(p[j])
  <2> SUFFICES ASSUME l = k
               PROVE  y = r /\ \A j \in 1 .. k + 1 : j < n /\ Up(p[j + 1]) => ~Plain(p[j])
    BY <1>2
  <2>1. y = r
    BY <1>4, <1>5, <1>6
  <2>2. ASSUME NEW j \in 1 .. k + 1, j < n, Up(p[j + 1])
        PROVE  ~Plain(p[j])
    <3>1. CASE j = k + 1
      <4>1. j + 1 = k + 1 + 1 /\ k + 1 < Len(p)
        BY <1>1, <2>2, <3>1
      <4> QED
        BY <1>0, <2>2, <3>1, <4>1
    <3>2. CASE j # k + 1
      <4>1. j \in 1 .. k
        BY <3>2
      <4> QED
        BY <1>6, <2>2, <4>1
    <3> QED
      BY <3>1, <3>2
  <2> QED
    BY <2>1, <2>2
<1>10. ASSUME ~Plain(p[1])
       PROVE  y[1] = p[1] /\ (Busy(p) => Busy(y))
  <2>1. CASE k = 0
    <3>1. l = 0
      BY <1>6, <2>1
    <3>2. y[1] = p[1] /\ Len(y) = 1
      BY <1>3, <1>5, <2>1, <3>1
    <3> QED
      BY <3>2 DEF Busy
  <2>2. CASE k > 0
    <3>1. x # << >> /\ x[1] = p[1] /\ (Busy(p) => Busy(x))
      BY <1>6, <1>10, <2>2
    <3>2. l >= 1
      BY <1>2, <3>1, EmptySeq
    <3>3. ASSUME Busy(p), NEW j \in 2 .. l + 1
          PROVE  ~Idle(y[j])
      <4>1. CASE j = l + 1
        <5>1. k + 1 \in 2 .. Len(p)
          BY <2>2
        <5> QED
          BY <1>3, <1>5, <3>3, <4>1, <5>1 DEF Busy
      <4>2. CASE j # l + 1
        <5>1. j \in 2 .. l /\ j \in 1 .. l
          BY <4>2
        <5> QED
          BY <1>2, <1>5, <3>1, <3>3, <5>1 DEF Busy
      <4> QED
        BY <4>1, <4>2
    <3> QED
      BY <1>5, <3>1, <3>2, <3>3 DEF Busy
  <2> QED
    BY <2>1, <2>2
<1> QED
  BY <1>1, <1>3, <1>5, <1>6, <1>7, <1>8, <1>9, <1>10 DEF Raised

(* So what dropping them does.                                             *)
Raises(p, q, A) ==
  /\ q \in Seq(A) /\ NormPath(q) = NormPath(p) /\ Len(q) <= Len(p)
  /\ Len(q) = Len(p) => q = p /\ \A j \in 1 .. Len(p) - 1 : Up(p[j + 1]) => ~Plain(p[j])
  /\ p # << >> /\ Plain(Last(p)) => q # << >> /\ Last(q) = Last(p)
  /\ p # << >> /\ ~Plain(p[1]) => q # << >> /\ q[1] = p[1] /\ (Busy(p) => Busy(q))

(* No doubled slash among the segments.                                    *)
NoBlank(A) == "" \notin A

(* Without a blank, what is neither a dot nor two is a name.               *)
LEMMA OrdinaryIs ==
  ASSUME NEW A, NoBlank(A), NEW e, e \in A
  PROVE  Ordinary(e) <=> Plain(e)
  BY DEF Ordinary, Plain, Idle, Up, NoBlank

(* So DropUps does.                                                        *)
LEMMA UpsIs ==
  ASSUME NEW A, A \subseteq Segments, NoBlank(A), NEW p, p \in Seq(A)
  PROVE  Raises(p, DropUps(p), A)
<1>1. PICK g : UpsSteps(g, p, A) /\ DropUps(p) = g[Len(p)].left
  BY ONLY p \in Seq(A), UpsLoop
<1>2. p \in Seq(Segments) /\ \A x : x \in Seq(A) => x \in Seq(Segments)
  OBVIOUS
<1>2a. \A e \in A : Ordinary(e) <=> Plain(e)
  BY OrdinaryIs
<1>3. PICK n \in Nat : n = Len(p)
  OBVIOUS
<1>3a. \A j \in 1 .. n : p[j] \in A
  BY <1>3
<1> DEFINE T == {k \in Nat : k <= n => Raised(p, k, g[k].left, g[k].skip)}
<1>4. 0 \in T
  <2>1. g[0].left = << >> /\ g[0].skip = FALSE
    BY <1>1 DEF UpsSteps
  <2>2. Pre(p, 0) = << >> /\ Len(<< >>) = 0
    BY <1>2, PreIs
  <2> HIDE DEF T
  <2>3. Raised(p, 0, << >>, FALSE)
    BY <2>2 DEF Raised
  <2> QED
    BY <2>1, <2>3 DEF T
<1>5. ASSUME NEW k \in Nat, k \in T
      PROVE  k + 1 \in T
  <2> SUFFICES ASSUME k + 1 <= n
               PROVE  Raised(p, k + 1, g[k + 1].left, g[k + 1].skip)
    OBVIOUS
  <2>1. PICK x, s : x = g[k].left /\ s = g[k].skip
    OBVIOUS
  <2>2. k \in 0 .. n /\ k <= n /\ k + 1 \in 1 .. n /\ k + 1 + 1 = k + 2
    OBVIOUS
  <2>3. Raised(p, k, x, s) /\ x \in Seq(Segments) /\ k + 1 <= Len(p) /\ p \in Seq(Segments)
    BY <1>1, <1>2, <1>3, <1>5, <2>1, <2>2 DEF UpsSteps
  <2>4. g[k + 1] = UpsStep(p, k + 1, g[k])
    BY <1>1, <1>3 DEF UpsSteps
  <2>5. Ordinary(p[k + 1]) <=> Plain(p[k + 1])
    BY <1>2a, <1>3a, <2>2
  <2>7. CASE s
    <3>1. Raised(p, k + 1, x, FALSE)
      BY ONLY <2>3, <2>7, k \in Nat, RaisedSkips
    <3>2. g[k + 1].left = x /\ g[k + 1].skip = FALSE
      BY <2>1, <2>4, <2>7 DEF UpsStep
    <3> QED
      BY <3>1, <3>2
  <2>8. CASE ~s /\ k + 1 < n /\ Up(p[k + 2]) /\ Plain(p[k + 1])
    <3>1. Raised(p, k + 1, x, TRUE)
      <4>1. GoesUp(p, k + 1, s)
        BY <1>3, <2>2, <2>8 DEF GoesUp
      <4> QED
        BY ONLY <2>3, <4>1, k \in Nat, RaisedDrops
    <3>2. g[k + 1].left = x /\ g[k + 1].skip = TRUE
      <4>1. k + 1 < Len(p) /\ Up(p[k + 1 + 1]) /\ Ordinary(p[k + 1]) /\ ~g[k].skip
        BY <1>3, <2>1, <2>2, <2>5, <2>8
      <4> QED
        BY <2>1, <2>4, <4>1 DEF UpsStep
    <3> QED
      BY <3>1, <3>2
  <2>9. CASE ~s /\ ~(k + 1 < n /\ Up(p[k + 2]) /\ Plain(p[k + 1]))
    <3>1. Raised(p, k + 1, Append(x, p[k + 1]), FALSE)
      <4>1. Remains(p, k + 1, s)
        BY <1>3, <2>2, <2>9 DEF Remains
      <4> QED
        BY ONLY <2>3, <4>1, k \in Nat, RaisedStays
    <3>2. g[k + 1].left = Append(x, p[k + 1]) /\ g[k + 1].skip = FALSE
      <4>1. ~(k + 1 < Len(p) /\ Up(p[k + 1 + 1]) /\ Ordinary(p[k + 1])) /\ ~g[k].skip
        BY <1>3, <2>1, <2>2, <2>5, <2>9
      <4> QED
        BY <2>1, <2>4, <4>1 DEF UpsStep
    <3> QED
      BY <3>1, <3>2
  <2> QED
    BY <2>7, <2>8, <2>9
<1>6. PICK q, s : q = g[n].left /\ s = g[n].skip /\ Raised(p, n, q, s)
  <2>1. \A k \in Nat : k \in T
    <3> HIDE DEF T
    <3> QED
      BY ONLY <1>4, <1>5, Induction
  <2> QED
    BY <2>1
<1>7. q \in Seq(A) /\ DropUps(p) = q
  BY <1>1, <1>3, <1>6 DEF UpsSteps
<1>8. Pre(p, n) = p /\ (p # << >> => n >= 1) /\ Last(p) = p[n]
  BY <1>2, <1>3, PreIs, EmptySeq DEF Last
<1>9. ~s
  BY <1>3, <1>6 DEF Raised
<1>10. Len(q) = n => \A j \in 1 .. n - 1 : Up(p[j + 1]) => ~Plain(p[j])
  BY <1>3, <1>6 DEF Raised
<1> QED
  BY <1>3, <1>6, <1>7, <1>8, <1>9, <1>10 DEF Raised, Raises

(* The two of them: a doubled slash and a dot.                             *)
Blank == ""
Dot == "."

(* The segments that mean nothing are these two.                           *)
LEMMA IdleIs ==
  /\ \A e : Idle(e) <=> e = Blank \/ e = Dot
  /\ Blank # Dot /\ Blank \in Segments /\ Dot \in Segments
  BY SegmentsHave DEF Idle, Blank, Dot

(* A path as the loader has it: what is idle is not followed by a blank.   *)
Fine(p) ==
  /\ p \in Seq(Segments) /\ p # << >> /\ Plain(Last(p)) /\ p[1] # Blank
  /\ \A k \in 1 .. Len(p) - 1 : p[k + 1] = Blank => ~Idle(p[k])

(* The first dot.                                                          *)
Stripped(p, q) ==
  /\ q \in Seq(Segments) /\ q # << >> /\ Last(q) = Last(p) /\ q[1] # Blank /\ Lone(q, Blank)
  /\ NormPath(q) = NormPath(p) /\ Len(q) <= Len(p)
  /\ Len(q) = Len(p) => q = p /\ p[1] # Dot

(* Stripping it leads to the same file, and leaves no two blanks together. *)
LEMMA StripDotIs ==
  ASSUME NEW p, Fine(p)
  PROVE  Stripped(p, StripDot(p))
<1>0. /\ p \in Seq(Segments) /\ p # << >> /\ Plain(Last(p)) /\ p[1] # Blank
      /\ \A k \in 1 .. Len(p) - 1 : p[k + 1] = Blank => ~Idle(p[k])
  BY DEF Fine
<1>1. PICK n \in Nat : n = Len(p) /\ n >= 1
  BY <1>0, EmptySeq
<1>2. Last(p) = p[n]
  BY <1>1 DEF Last
<1>3. CASE n > 1 /\ p[1] = Dot
  <2>1. PICK q : q = Tail(p)
    OBVIOUS
  <2>2. q \in Seq(Segments) /\ Len(q) = n - 1 /\ \A k \in 1 .. n - 1 : q[k] = p[k + 1]
    BY <1>0, <1>1, <1>3, <2>1
  <2>3. StripDot(p) = q
    BY <1>1, <1>3, <2>1 DEF StripDot, Dot
  <2>4. q # << >> /\ Last(q) = Last(p)
    <3>1. n - 1 \in 1 .. n - 1 /\ n - 1 + 1 = n
      BY <1>3
    <3>2. q[n - 1] = p[n]
      BY <2>2, <3>1
    <3> QED
      BY <1>2, <1>3, <2>2, <3>2, EmptySeq DEF Last
  <2>5. q[1] # Blank
    <3>1. q[1] = p[2] /\ 1 \in 1 .. n - 1
      BY <1>3, <2>2
    <3>2. Idle(p[1])
      BY <1>3, IdleIs
    <3> QED
      BY <1>0, <1>1, <3>1, <3>2
  <2>6. Lone(q, Blank)
    <3> SUFFICES ASSUME NEW j \in 2 .. Len(q) - 1, q[j] = Blank, q[j + 1] = Blank
                 PROVE  FALSE
      BY DEF Lone
    <3>1. j + 1 \in 1 .. n - 1 /\ j \in 1 .. n - 1 /\ j + 1 \in Nat
      BY <1>1, <2>2
    <3>2. p[j + 1] = Blank /\ p[j + 1 + 1] = Blank
      BY <2>2, <3>1
    <3> QED
      BY <1>0, <1>1, <3>1, <3>2, IdleIs
  <2>7. NormPath(q) = NormPath(p)
    <3>1. <<Dot>> \in Seq(Segments) /\ Dot \in Segments /\ Idle(Dot)
      BY IdleIs
    <3>2. p = <<Dot>> \o q
      <4>1. <<Dot>> \o q \in Seq(Segments) /\ Len(<<Dot>> \o q) = n
        BY <1>1, <2>2, <3>1
      <4>2. \A k \in 1 .. n : (<<Dot>> \o q)[k] = p[k]
        <5> SUFFICES ASSUME NEW k \in 1 .. n
                     PROVE  (<<Dot>> \o q)[k] = p[k]
          OBVIOUS
        <5>1. CASE k = 1
          BY <1>3, <2>2, <3>1, <5>1
        <5>2. CASE k # 1
          <6>1. k - 1 \in 1 .. n - 1 /\ k - 1 + 1 = k
            BY <5>2
          <6>2. (<<Dot>> \o q)[k] = q[k - 1]
            BY <2>2, <3>1, <5>2, <6>1
          <6>3. q[k - 1] = p[k]
            BY <2>2, <6>1
          <6> QED
            BY <6>2, <6>3
        <5> QED
          BY <5>1, <5>2
      <4>3. PICK r : r = <<Dot>> \o q
        OBVIOUS
      <4>4. r \in Seq(Segments) /\ Len(r) = n /\ \A k \in 1 .. n : r[k] = p[k]
        BY ONLY <4>1, <4>2, <4>3
      <4>5. p = r
        BY ONLY <1>0, <1>1, <4>4
      <4> QED
        BY ONLY <4>3, <4>5
    <3> QED
      BY ONLY <2>2, <3>1, <3>2, NormDotted
  <2> QED
    BY <1>0, <1>1, <2>2, <2>3, <2>4, <2>5, <2>6, <2>7 DEF Stripped
<1>4. CASE ~(n > 1 /\ p[1] = Dot)
  <2>1. StripDot(p) = p
    BY <1>1, <1>4 DEF StripDot, Dot
  <2>2. p[1] # Dot
    <3> SUFFICES ASSUME n = 1
                 PROVE  p[1] # Dot
      BY <1>1, <1>4
    <3> QED
      BY <1>0, <1>2, IdleIs DEF Plain
  <2>3. Lone(p, Blank)
    <3> SUFFICES ASSUME NEW j \in 2 .. Len(p) - 1, p[j] = Blank, p[j + 1] = Blank
                 PROVE  FALSE
      BY DEF Lone
    <3>1. j \in 1 .. Len(p) - 1
      BY <1>1
    <3> QED
      BY <1>0, <3>1, IdleIs
  <2> QED
    BY <1>0, <1>1, <2>1, <2>2, <2>3 DEF Stripped
<1> QED
  BY <1>3, <1>4

(* The segments but the blank.                                             *)
Filled == Segments \ {Blank}

(* Such segments are segments.                                             *)
LEMMA FilledIs == Filled \subseteq Segments /\ NoBlank(Filled) /\ Seq(Filled) \subseteq Seq(Segments)
<1>1. NoBlank(Filled)
  BY DEF NoBlank, Filled, Blank
<1>2. Filled \subseteq Segments
  BY DEF Filled
<1> QED
  BY <1>1, <1>2

(* Where blanks do not stand together, replacing "//" leaves none.         *)
LEMMA NoneBlank ==
  ASSUME NEW p, p \in Seq(Segments), p # << >>, p[1] # Blank, Plain(Last(p)), Lone(p, Blank),
         NEW q, Replaces(p, Blank, q, Segments)
  PROVE  q \in Seq(Filled)
<1>1. /\ q \in Seq(Segments) /\ q # << >> /\ q[1] = p[1] /\ Last(q) = Last(p)
      /\ \A j \in 2 .. Len(q) - 1 : q[j] # Blank
  BY DEF Replaces
<1>2. PICK n \in Nat : n = Len(q) /\ n >= 1 /\ q[n] = Last(q)
  BY <1>1, EmptySeq DEF Last
<1>3. q[1] # Blank /\ q[n] # Blank
  BY <1>1, <1>2, IdleIs DEF Plain
<1>4. \A j \in 1 .. n : q[j] \in Filled
  <2> SUFFICES ASSUME NEW j \in 1 .. n
               PROVE  q[j] # Blank
    BY <1>1, <1>2 DEF Filled
  <2>1. j = 1 \/ j = n \/ j \in 2 .. Len(q) - 1
    BY <1>2
  <2> QED
    BY <1>1, <1>3, <2>1
<1>5. q = [j \in 1 .. n |-> q[j]]
  BY <1>1, <1>2
<1> QED
  BY <1>4, <1>5

(* A round leads to the same file, on a path that is not longer; if it is  *)
(* as long, there was nothing left to do.                                  *)
Rounds(p, q) ==
  /\ Fine(q) /\ NormPath(q) = NormPath(p) /\ Len(q) <= Len(p)
  /\ Len(q) = Len(p) => q = p /\ Shortest(p)

(* So does every round from such a path.                                   *)
LEMMA RoundIs ==
  ASSUME NEW p, Fine(p)
  PROVE  Rounds(p, Round(p))
<1>0. p \in Seq(Segments) /\ p # << >> /\ Plain(Last(p))
  BY DEF Fine
<1>1. PICK a : a = StripDot(p) /\ Stripped(p, a)
  BY StripDotIs
<1>1a. /\ a \in Seq(Segments) /\ a # << >> /\ Last(a) = Last(p) /\ a[1] # Blank /\ Lone(a, Blank)
       /\ NormPath(a) = NormPath(p) /\ Len(a) <= Len(p)
       /\ Len(a) = Len(p) => a = p /\ p[1] # Dot
  BY <1>1 DEF Stripped
<1>2. PICK b : b = DropBetweenSlashes(a, Blank) /\ Replaces(a, Blank, b, Segments)
  <2>1. Segments \subseteq Segments /\ Blank \in Segments /\ Idle(Blank)
    BY IdleIs
  <2> QED
    BY ONLY <1>1a, <2>1, BetweenIs
<1>2a. /\ b \in Seq(Filled) /\ NormPath(b) = NormPath(a) /\ Len(b) <= Len(a)
       /\ Len(b) = Len(a) => b = a
       /\ b # << >> /\ Last(b) = Last(a)
  <2>1. b \in Seq(Filled)
    BY <1>0, <1>1a, <1>2, NoneBlank
  <2> QED
    BY <1>1a, <1>2, <2>1 DEF Replaces
<1>3. PICK c : c = DropBetweenSlashes(b, Dot) /\ Replaces(b, Dot, c, Filled)
  <2>1. Dot \in Segments /\ Idle(Dot)
    BY IdleIs
  <2> QED
    BY ONLY <1>2a, <2>1, FilledIs, BetweenIs
<1>3a. /\ c \in Seq(Filled) /\ NormPath(c) = NormPath(b) /\ Len(c) <= Len(b)
       /\ Len(c) = Len(b) => c = b /\ \A j \in 2 .. Len(b) - 1 : b[j] # Dot
       /\ c # << >> /\ Last(c) = Last(b)
  BY <1>2a, <1>3 DEF Replaces
<1>4. Split(c) = c
  <2>1. Last(c) # Blank
    BY <1>0, <1>1a, <1>2a, <1>3a, IdleIs DEF Plain
  <2> QED
    BY <2>1 DEF Split, Blank
<1>5. PICK d : d = DropUps(c) /\ Raises(c, d, Filled)
  BY ONLY <1>3a, FilledIs, UpsIs
<1>5a. /\ d \in Seq(Filled) /\ NormPath(d) = NormPath(c) /\ Len(d) <= Len(c)
       /\ Len(d) = Len(c) => d = c /\ \A j \in 1 .. Len(c) - 1 : Up(c[j + 1]) => ~Plain(c[j])
       /\ d # << >> /\ Last(d) = Last(c)
  BY <1>0, <1>1a, <1>2a, <1>3a, <1>5 DEF Raises
<1>6. Round(p) = d
  <2>1. Join(d) = d
    BY <1>5a DEF Join
  <2> QED
    BY <1>1, <1>2, <1>3, <1>4, <1>5, <2>1 DEF Round, Blank, Dot
<1>7. Fine(d)
  <2>1. PICK n \in Nat : n = Len(d) /\ n >= 1
    BY <1>5a, EmptySeq
  <2>2. \A k \in 1 .. n : d[k] # Blank
    BY <1>5a, <2>1 DEF Filled
  <2>3. d[1] # Blank /\ \A k \in 1 .. n - 1 : d[k + 1] # Blank
    BY <2>1, <2>2
  <2> QED
    BY <1>0, <1>1a, <1>2a, <1>3a, <1>5a, <2>1, <2>3, FilledIs DEF Fine
<1>8. /\ Len(p) \in Nat /\ Len(a) \in Nat /\ Len(b) \in Nat /\ Len(c) \in Nat /\ Len(d) \in Nat
  BY <1>0, <1>1a, <1>2a, <1>3a, <1>5a
<1>9. ASSUME Len(d) = Len(p)
      PROVE  d = p /\ Shortest(p)
  <2>1. d = c /\ c = b /\ b = a /\ a = p
    BY <1>1a, <1>2a, <1>3a, <1>5a, <1>8, <1>9
  <2>2. PICK n \in Nat : n = Len(p) /\ n >= 1 /\ p[n] = Last(p)
    BY <1>0, EmptySeq DEF Last
  <2>3. /\ p[1] # Dot /\ \A j \in 2 .. n - 1 : p[j] # Dot
        /\ \A j \in 1 .. n - 1 : Up(p[j + 1]) => ~Plain(p[j])
    BY <1>1a, <1>3a, <1>5a, <2>1, <2>2
  <2>4. \A k \in 1 .. n : p[k] # Blank
    BY <1>5a, <2>1, <2>2 DEF Filled
  <2>5. \A k \in 1 .. n : ~Idle(p[k])
    <3> SUFFICES ASSUME NEW k \in 1 .. n
                 PROVE  p[k] # Dot
      BY <2>4, IdleIs
    <3>1. k = 1 \/ k = n \/ k \in 2 .. n - 1
      BY <2>2
    <3> QED
      BY <1>0, <2>2, <2>3, <3>1, IdleIs DEF Plain
  <2>6. ASSUME NEW k \in 1 .. n, Up(p[k]), k # 1
        PROVE  Up(p[k - 1])
    <3>1. k - 1 \in 1 .. n - 1 /\ k - 1 \in 1 .. n /\ k - 1 + 1 = k
      BY <2>6
    <3>2. ~Plain(p[k - 1]) /\ ~Idle(p[k - 1])
      BY <2>3, <2>5, <2>6, <3>1
    <3> QED
      BY <3>2 DEF Plain
  <2> QED
    BY <2>1, <2>2, <2>5, <2>6 DEF Shortest
<1>10. NormPath(d) = NormPath(p) /\ Len(d) <= Len(p)
  BY <1>1a, <1>2a, <1>3a, <1>5a, <1>8
<1> QED
  BY <1>6, <1>7, <1>9, <1>10 DEF Rounds

(* How Normalize comes to its result.                                      *)
RoundSteps(g, p) ==
  /\ \A k \in 0 .. Len(p) : Fine(g[k])
  /\ g[0] = p
  /\ \A k \in Nat : k + 1 <= Len(p) => g[k + 1] = Round(g[k])

(* It is a loop of rounds, each from such a path.                          *)
LEMMA RoundLoop ==
  ASSUME NEW p, Fine(p)
  PROVE  \E g : RoundSteps(g, p) /\ Normalize(p) = g[Len(p)]
<1> DEFINE S == {q \in Seq(Segments) : Fine(q)}
           n == Len(p)
           E == [k \in Nat |-> [q \in S |-> Round(q)]]
           IsIt(g) == g = [k \in 0 .. n |-> IF k = 0 THEN p ELSE Round(g[k - 1])]
<1>1. p \in S /\ n \in Nat
  BY DEF Fine
<1>2. \A q \in S : Round(q) \in S
  BY RoundIs DEF Rounds, Fine
<1>3. E \in [Nat -> [S -> S]]
  BY <1>2
<1> HIDE DEF S
<1>4. PICK f : Loops(f, n, S, p, E)
  <2> HIDE DEF E, n
  <2> QED
    BY ONLY <1>1, <1>3, LoopThere
<1>5. f \in [0 .. n -> S] /\ f[0] = p /\ \A k \in 1 .. n : f[k] = E[k][f[k - 1]]
  <2> HIDE DEF E, n
  <2> QED
    BY <1>4 DEF Loops
<1>6. \A k \in 1 .. n : f[k] = Round(f[k - 1])
  <2> SUFFICES ASSUME NEW k \in 1 .. n
               PROVE  f[k] = Round(f[k - 1])
    OBVIOUS
  <2>1. k \in Nat /\ k - 1 \in 0 .. n /\ f[k - 1] \in S
    BY <1>1, <1>5
  <2> QED
    BY <1>5, <2>1
<1>7. IsIt(f)
  <2>1. \A k \in 0 .. n : f[k] = IF k = 0 THEN p ELSE Round(f[k - 1])
    BY <1>1, <1>5, <1>6
  <2> QED
    BY <1>5, <2>1
<1>8. PICK g : IsIt(g) /\ Normalize(p) = g[n]
  <2> DEFINE g0 == CHOOSE g : IsIt(g)
  <2>1. IsIt(g0)
    BY <1>7
  <2>2. Normalize(p) = g0[n]
    BY DEF Normalize
  <2> QED
    BY <2>1, <2>2
<1>9. /\ g[0] = p /\ g = [k \in 0 .. n |-> g[k]]
      /\ \A k \in 1 .. n : g[k] = Round(g[k - 1])
  <2>1. \A k \in 0 .. n : g[k] = IF k = 0 THEN p ELSE Round(g[k - 1])
    BY <1>8
  <2>2. DOMAIN g = 0 .. n /\ 0 \in 0 .. n /\ \A k \in 1 .. n : k \in 0 .. n /\ k # 0
    BY <1>1, <1>8
  <2>3. g = [k \in 0 .. n |-> g[k]]
    BY <1>8
  <2> QED
    BY <2>1, <2>2, <2>3
<1>10. ASSUME NEW k \in 1 .. n, g[k - 1] \in S
       PROVE  g[k] = E[k][g[k - 1]]
  <2>1. k \in Nat
    OBVIOUS
  <2>2. E[k][g[k - 1]] = Round(g[k - 1])
    BY <1>10, <2>1
  <2> QED
    BY <1>9, <2>2
<1>11. Loops(g, n, S, p, E)
  <2> HIDE DEF E, n
  <2> QED
    BY ONLY <1>1, <1>3, <1>9, <1>10, LoopIs
<1>12. \A k \in 0 .. n : g[k] \in S
  BY <1>11 DEF Loops
<1>13. RoundSteps(g, p)
  <2>1. \A k \in Nat : k + 1 <= n => k + 1 \in 1 .. n /\ k + 1 - 1 = k
    BY <1>1
  <2>2. \A k \in Nat : k + 1 <= n => g[k + 1] = Round(g[k])
    BY <1>9, <2>1
  <2>3. \A k \in 0 .. n : Fine(g[k])
    BY <1>12 DEF S
  <2> QED
    BY <1>9, <2>2, <2>3 DEF RoundSteps
<1> QED
  BY <1>8, <1>13

(* After k rounds there is nothing left to do, or k segments are gone.     *)
Nearer(p, k, q) ==
  NormPath(q) = NormPath(p) /\ (Round(q) = q \/ Len(q) + k <= Len(p))

(* So a path is normalized to the shortest one to the same file.           *)
LEMMA NormalizeIs ==
  ASSUME NEW p, Fine(p)
  PROVE  Normalize(p) = NormPath(p) /\ Shortest(NormPath(p))
<1>1. PICK g : RoundSteps(g, p) /\ Normalize(p) = g[Len(p)]
  BY ONLY Fine(p), RoundLoop
<1>2. PICK n \in Nat : n = Len(p)
  BY DEF Fine
<1>3. /\ \A k \in 0 .. n : Fine(g[k])
      /\ g[0] = p
      /\ \A k \in Nat : k + 1 <= n => g[k + 1] = Round(g[k])
  BY <1>1, <1>2 DEF RoundSteps
<1> DEFINE T == {k \in Nat : k <= n => Nearer(p, k, g[k])}
<1>4. 0 \in T
  BY <1>2, <1>3 DEF Nearer
<1>5. ASSUME NEW k \in Nat, k \in T
      PROVE  k + 1 \in T
  <2> SUFFICES ASSUME k + 1 <= n
               PROVE  Nearer(p, k + 1, g[k + 1])
    OBVIOUS
  <2>1. PICK q, r : q = g[k] /\ r = g[k + 1]
    OBVIOUS
  <2>2. k \in 0 .. n /\ k <= n
    OBVIOUS
  <2>3. Fine(q) /\ Nearer(p, k, q) /\ r = Round(q)
    BY <1>3, <1>5, <2>1, <2>2
  <2>4. Fine(r) /\ NormPath(r) = NormPath(q) /\ Len(r) <= Len(q) /\ (Len(r) = Len(q) => r = q)
    BY <2>3, RoundIs DEF Rounds
  <2>5. Len(q) \in Nat /\ Len(r) \in Nat
    BY <2>3, <2>4 DEF Fine
  <2>6. CASE r = q
    BY <2>1, <2>3, <2>6 DEF Nearer
  <2>7. CASE r # q
    <3>1. Len(r) + 1 <= Len(q) /\ Len(q) + k <= n
      BY <1>2, <2>3, <2>4, <2>5, <2>7 DEF Nearer
    <3>2. Len(r) + (k + 1) <= n
      BY <2>5, <3>1
    <3> QED
      BY <1>2, <2>1, <2>3, <2>4, <3>2 DEF Nearer
  <2> QED
    BY <2>6, <2>7
<1>6. PICK q : q = g[n] /\ Nearer(p, n, q)
  <2>1. \A k \in Nat : k \in T
    <3> HIDE DEF T
    <3> QED
      BY ONLY <1>4, <1>5, Induction
  <2> QED
    BY <2>1
<1>7. Fine(q)
  BY <1>3, <1>6
<1>8. Len(q) \in Nat \ {0}
  BY <1>7, EmptySeq DEF Fine
<1>9. Round(q) = q
  BY <1>2, <1>6, <1>8 DEF Nearer
<1>10. Shortest(q)
  BY <1>7, <1>9, RoundIs DEF Rounds
<1>11. NormPath(q) = q
  BY <1>7, <1>10, NormShortest DEF Fine
<1> QED
  BY <1>1, <1>2, <1>6, <1>10, <1>11 DEF Nearer

(* Where f follows neither f nor e, dropping e leaves no two f together.   *)
Apart(p, e, f) ==
  \A k \in 2 .. Len(p) - 1 : p[k + 1] = f => p[k] # f /\ (p[k] = e => k = 2)

(* Then it does leave no two of them together.                             *)
LEMMA BetweenLone ==
  ASSUME NEW p, p \in Seq(Segments), NEW e, e \in Segments, Idle(e), NEW f, f # e, Apart(p, e, f)
  PROVE  Lone(DropBetweenSlashes(p, e), f)
<1>1. PICK g : /\ BetweenSteps(g, p, e, Segments) /\ DropBetweenSlashes(p, e) = g[Len(p)].left
               /\ \A k \in 0 .. Len(p) : Between(p, e, k, g[k].left, g[k].dropped)
  <2>1. Segments \subseteq Segments
    OBVIOUS
  <2> QED
    BY ONLY <2>1, p \in Seq(Segments), e \in Segments, Idle(e), BetweenAll
<1>2. PICK n \in Nat : n = Len(p)
  OBVIOUS
<1> DEFINE T == {k \in Nat : k <= n => Lone(g[k].left, f)}
<1>3. 0 \in T
  <2>1. g[0].left = << >>
    BY <1>1 DEF BetweenSteps
  <2> QED
    BY <2>1 DEF Lone
<1>4. ASSUME NEW k \in Nat, k \in T
      PROVE  k + 1 \in T
  <2> SUFFICES ASSUME k + 1 <= n
               PROVE  Lone(g[k + 1].left, f)
    OBVIOUS
  <2>1. PICK x, d, c : x = g[k].left /\ d = g[k].dropped /\ c = p[k + 1]
    OBVIOUS
  <2>2. k \in 0 .. n /\ k <= n
    OBVIOUS
  <2>3. Between(p, e, k, x, d) /\ x \in Seq(Segments) /\ Lone(x, f) /\ c \in Segments
    BY <1>1, <1>2, <1>4, <2>1, <2>2 DEF BetweenSteps
  <2>4. g[k + 1].left = x \/ g[k + 1].left = Append(x, c)
    <3>1. k + 1 <= Len(p) /\ k \in Nat
      BY <1>2
    <3>2. g[k + 1] = BetweenStep(p, e, k + 1, g[k])
      BY ONLY <3>1, <1>1 DEF BetweenSteps
    <3> QED
      BY ONLY <2>1, <3>2 DEF BetweenStep
  <2>5. PICK l \in Nat : l = Len(x)
    BY <2>3
  <2>6. /\ l <= k /\ (l = k => ~d) /\ (d => k >= 2 /\ p[k] = e)
        /\ (k > 0 /\ ~d => Last(x) = p[k])
    BY <2>3, <2>5 DEF Between
  <2>7. PICK y : y = Append(x, c)
    OBVIOUS
  <2>8. Len(y) = l + 1 /\ y[l + 1] = c /\ \A j \in 1 .. l : y[j] = x[j]
    BY <2>3, <2>5, <2>7
  <2>9. Lone(y, f)
    <3> SUFFICES ASSUME NEW j \in 2 .. l, y[j] = f, y[j + 1] = f
                 PROVE  FALSE
      BY <2>8 DEF Lone
    <3>1. CASE j # l
      <4>1. j \in 2 .. l - 1 /\ j \in 1 .. l /\ j + 1 \in 1 .. l
        BY <3>1
      <4> QED
        BY <2>3, <2>5, <2>8, <4>1 DEF Lone
    <3>2. CASE j = l
      <4>1. c = f /\ Last(x) = f /\ l >= 2
        BY <2>5, <2>8, <3>2 DEF Last
      <4>2. k \in 2 .. Len(p) - 1
        BY <1>2, <2>6, <4>1
      <4>3. p[k] # f /\ (p[k] = e => k = 2)
        BY <2>1, <4>1, <4>2 DEF Apart
      <4>4. d
        BY <2>6, <4>1, <4>2, <4>3
      <4> QED
        BY <2>6, <4>1, <4>3, <4>4
    <3> QED
      BY <3>1, <3>2
  <2> QED
    BY <2>3, <2>4, <2>7, <2>9
<1>5. Lone(g[n].left, f)
  <2>1. \A k \in Nat : k \in T
    <3> HIDE DEF T
    <3> QED
      BY ONLY <1>3, <1>4, Induction
  <2> QED
    BY <2>1
<1> QED
  BY <1>1, <1>2, <1>5

(* Where nothing is to be dropped, nothing is.                             *)
LEMMA BetweenSame ==
  ASSUME NEW p, p \in Seq(Segments), NEW e, \A j \in 2 .. Len(p) - 1 : p[j] # e
  PROVE  DropBetweenSlashes(p, e) = p
<1>1. PICK g : BetweenSteps(g, p, e, Segments) /\ DropBetweenSlashes(p, e) = g[Len(p)].left
  BY ONLY p \in Seq(Segments), BetweenLoop
<1>2. PICK n \in Nat : n = Len(p)
  OBVIOUS
<1> DEFINE T == {k \in Nat : k <= n => g[k].left = Pre(p, k)}
<1>3. 0 \in T
  <2>1. g[0].left = << >>
    BY <1>1 DEF BetweenSteps
  <2> QED
    BY <2>1, PreIs
<1>4. ASSUME NEW k \in Nat, k \in T
      PROVE  k + 1 \in T
  <2> SUFFICES ASSUME k + 1 <= n
               PROVE  g[k + 1].left = Pre(p, k + 1)
    OBVIOUS
  <2>1. k + 1 <= Len(p) /\ (1 < k + 1 /\ k + 1 < Len(p) => k + 1 \in 2 .. Len(p) - 1)
    BY <1>2
  <2>2. g[k + 1] = BetweenStep(p, e, k + 1, g[k])
    BY <1>1, <2>1 DEF BetweenSteps
  <2>3. ~(1 < k + 1 /\ k + 1 < Len(p) /\ p[k + 1] = e)
    BY <2>1
  <2>4. g[k + 1].left = Append(g[k].left, p[k + 1])
    BY <2>2, <2>3 DEF BetweenStep
  <2>5. Pre(p, k + 1) = Append(Pre(p, k), p[k + 1])
    BY ONLY <2>1, k \in Nat, p \in Seq(Segments), PreNext
  <2> QED
    BY <1>4, <2>4, <2>5
<1>5. g[n].left = Pre(p, n)
  <2>1. \A k \in Nat : k \in T
    <3> HIDE DEF T
    <3> QED
      BY ONLY <1>3, <1>4, Induction
  <2> QED
    BY <2>1
<1> QED
  BY <1>1, <1>2, <1>5, PreIs

(* A path as the resolver has it, behind its dot.                          *)
Led(p) ==
  p \in Seq(Filled) /\ p # << >> /\ p[1] = Dot /\ Busy(p) /\ Plain(Last(p))

(* There is nothing to replace in it.                                      *)
LEMMA LedIs ==
  ASSUME NEW p, Led(p)
  PROVE  /\ p \in Seq(Segments) /\ Len(p) \in Nat /\ Len(p) >= 2 /\ Replaced(p) = p
<1>1. /\ p \in Seq(Filled) /\ p # << >> /\ p[1] = Dot /\ Plain(Last(p)) /\ p \in Seq(Segments)
      /\ \A j \in 2 .. Len(p) : ~Idle(p[j])
  BY FilledIs DEF Led, Busy
<1>2. PICK n \in Nat : n = Len(p) /\ n >= 1 /\ Last(p) = p[n]
  BY <1>1, EmptySeq DEF Last
<1>3. n # 1
  <2> SUFFICES ASSUME n = 1
               PROVE  FALSE
    OBVIOUS
  <2> QED
    BY <1>1, <1>2, IdleIs DEF Plain
<1>4. Dotted(p) = p
  BY <1>1, <1>2, <1>3 DEF Dotted, Dot
<1>5. \A j \in 2 .. Len(p) - 1 : p[j] # Blank /\ p[j] # Dot
  <2> SUFFICES ASSUME NEW j \in 2 .. Len(p) - 1
               PROVE  p[j] # Blank /\ p[j] # Dot
    OBVIOUS
  <2>1. j \in 2 .. Len(p)
    BY <1>2
  <2> QED
    BY <1>1, <2>1, IdleIs
<1>6. DropBetweenSlashes(p, Blank) = p /\ DropBetweenSlashes(p, Dot) = p
  BY ONLY <1>1, <1>5, BetweenSame
<1>7. Replaced(p) = p
  BY ONLY <1>4, <1>6 DEF Replaced, Blank, Dot
<1>8. Len(p) \in Nat /\ Len(p) >= 2
  BY ONLY <1>1, <1>2, <1>3
<1> QED
  BY ONLY <1>1, <1>7, <1>8

(* A path the resolver is given.                                           *)
Spaced(p) ==
  /\ p \in Seq(Segments) /\ p # << >> /\ p[1] = Dot /\ Plain(Last(p))
  /\ Lone(p, Blank) /\ Apart(p, Blank, Dot)

(* Replacing leaves nothing idle behind the dot.                           *)
LEMMA SpacedIs ==
  ASSUME NEW p, Spaced(p), NEW b, b = DropBetweenSlashes(p, Blank), NEW c, c = DropBetweenSlashes(b, Dot)
  PROVE  /\ Led(c) /\ NormPath(c) = NormPath(p) /\ Len(c) <= Len(p)
         /\ Len(c) = Len(p) => \A j \in 2 .. Len(p) - 1 : p[j] # Blank
<1>1. /\ p \in Seq(Segments) /\ p # << >> /\ p[1] = Dot /\ Plain(Last(p))
      /\ Lone(p, Blank) /\ Apart(p, Blank, Dot)
  BY DEF Spaced
<1>2. Replaces(p, Blank, b, Segments)
  <2>1. Segments \subseteq Segments /\ Blank \in Segments /\ Idle(Blank)
    BY IdleIs
  <2> QED
    BY <1>1, <2>1, BetweenIs
<1>3. /\ NormPath(b) = NormPath(p) /\ Len(b) <= Len(p)
      /\ Len(b) = Len(p) => \A j \in 2 .. Len(p) - 1 : p[j] # Blank
      /\ b # << >> /\ b[1] = Dot /\ Last(b) = Last(p)
  BY <1>1, <1>2 DEF Replaces
<1>4. b \in Seq(Filled)
  <2>1. p[1] # Blank
    BY <1>1, IdleIs
  <2> QED
    BY ONLY <1>1, <1>2, <2>1, NoneBlank
<1>5. Lone(b, Dot)
  <2>1. Blank \in Segments /\ Idle(Blank) /\ Dot # Blank
    BY IdleIs
  <2> QED
    BY <1>1, <2>1, BetweenLone
<1>6. Replaces(b, Dot, c, Filled)
  <2>1. Dot \in Segments /\ Idle(Dot)
    BY IdleIs
  <2> QED
    BY <1>4, <2>1, FilledIs, BetweenIs
<1>7. /\ c \in Seq(Filled) /\ NormPath(c) = NormPath(b) /\ Len(c) <= Len(b)
      /\ c # << >> /\ c[1] = Dot /\ Last(c) = Last(b)
      /\ \A j \in 2 .. Len(c) - 1 : c[j] # Dot
  BY <1>3, <1>5, <1>6 DEF Replaces
<1>8. Busy(c)
  <2> SUFFICES ASSUME NEW j \in 2 .. Len(c)
               PROVE  ~Idle(c[j])
    BY DEF Busy
  <2>1. PICK n \in Nat : n = Len(c)
    BY <1>7
  <2>2. j \in 1 .. n /\ (j = n \/ j \in 2 .. n - 1)
    BY <2>1
  <2>3. c[j] # Blank
    BY <1>7, <2>1, <2>2 DEF Filled
  <2>4. j = n => c[j] = Last(c)
    BY <2>1 DEF Last
  <2> QED
    BY <1>1, <1>3, <1>7, <2>1, <2>2, <2>3, <2>4, IdleIs DEF Plain
<1>9. Len(b) \in Nat /\ Len(c) \in Nat /\ Len(p) \in Nat
  BY <1>1, <1>4, <1>7
<1>10. Led(c)
  BY <1>1, <1>3, <1>7, <1>8 DEF Led
<1> QED
  BY <1>3, <1>7, <1>9, <1>10

(* What dropping directories makes of such a path.                         *)
Settled(p) == Led(p) /\ \A j \in 1 .. Len(p) - 1 : Up(p[j + 1]) => ~Plain(p[j])

(* The result is one again, and when it is no shorter, nothing is left to  *)
(* do.                                                                     *)
LEMMA LedUps ==
  ASSUME NEW p, Led(p), NEW q, q = DropUps(p)
  PROVE  /\ Led(q) /\ NormPath(q) = NormPath(p) /\ Len(q) <= Len(p)
         /\ Len(q) = Len(p) => q = p /\ Settled(p)
<1>1. /\ p \in Seq(Filled) /\ p # << >> /\ p[1] = Dot /\ Plain(Last(p)) /\ Busy(p)
  BY DEF Led
<1>2. Raises(p, q, Filled)
  BY <1>1, FilledIs, UpsIs
<1>3. ~Plain(p[1])
  BY <1>1, IdleIs DEF Plain
<1> QED
  BY <1>1, <1>2, <1>3 DEF Raises, Led, Settled

(* It is the shortest, behind the dot.                                     *)
LEMMA SettledIs ==
  ASSUME NEW p, Settled(p)
  PROVE  p = <<Dot>> \o NormPath(p)
<1>1. /\ p \in Seq(Segments) /\ p # << >> /\ p[1] = Dot
      /\ \A j \in 2 .. Len(p) : ~Idle(p[j])
      /\ \A j \in 1 .. Len(p) - 1 : Up(p[j + 1]) => ~Plain(p[j])
  BY LedIs DEF Settled, Led, Busy
<1>2. PICK n \in Nat : n = Len(p) /\ n >= 1
  BY <1>1, EmptySeq
<1>3. PICK q : q = Tail(p)
  OBVIOUS
<1>4. q \in Seq(Segments) /\ Len(q) = n - 1 /\ \A k \in 1 .. n - 1 : q[k] = p[k + 1]
  BY <1>1, <1>2, <1>3
<1>5. Shortest(q)
  <2>1. ASSUME NEW k \in 1 .. n - 1
        PROVE  ~Idle(q[k]) /\ (Up(q[k]) /\ k # 1 => Up(q[k - 1]))
    <3>1. k + 1 \in 2 .. Len(p) /\ q[k] = p[k + 1]
      BY <1>2, <1>4
    <3>2. ASSUME Up(q[k]), k # 1
          PROVE  Up(q[k - 1])
      <4>1. k \in 2 .. Len(p) /\ k \in 1 .. Len(p) - 1 /\ k - 1 \in 1 .. n - 1 /\ k - 1 + 1 = k
        BY <1>2, <3>2
      <4>2. q[k - 1] = p[k]
        BY <1>4, <4>1
      <4>3. ~Plain(p[k]) /\ ~Idle(p[k])
        BY <1>1, <3>1, <3>2, <4>1
      <4> QED
        BY <4>2, <4>3 DEF Plain
    <3> QED
      BY <1>1, <3>1, <3>2
  <2> QED
    BY <1>4, <2>1 DEF Shortest
<1>6. Dot \in Segments /\ Idle(Dot) /\ <<Dot>> \in Seq(Segments)
  BY IdleIs
<1>7. p = <<Dot>> \o q
  <2>1. <<Dot>> \o q \in Seq(Segments) /\ Len(<<Dot>> \o q) = n
    BY <1>2, <1>4, <1>6
  <2>2. ASSUME NEW k \in 1 .. n
        PROVE  (<<Dot>> \o q)[k] = p[k]
    <3>1. CASE k = 1
      BY <1>1, <1>4, <1>6, <3>1
    <3>2. CASE k # 1
      <4>1. k - 1 \in 1 .. n - 1 /\ k - 1 + 1 = k
        BY <3>2
      <4>2. (<<Dot>> \o q)[k] = q[k - 1]
        BY <1>4, <1>6, <3>2, <4>1
      <4>3. q[k - 1] = p[k]
        BY <1>4, <4>1
      <4> QED
        BY <4>2, <4>3
    <3> QED
      BY <3>1, <3>2
  <2>3. PICK r : r = <<Dot>> \o q
    OBVIOUS
  <2>4. r \in Seq(Segments) /\ Len(r) = n /\ \A k \in 1 .. n : r[k] = p[k]
    BY ONLY <2>1, <2>2, <2>3
  <2>5. p = r
    BY ONLY <1>1, <1>2, <2>4
  <2> QED
    BY ONLY <2>3, <2>5
<1>8. NormPath(p) = NormPath(q)
  BY ONLY <1>4, <1>6, <1>7, NormDotted
<1>9. NormPath(q) = q
  BY <1>4, <1>5, NormShortest
<1> QED
  BY <1>7, <1>8, <1>9

(* What normalize_path can start from, and what each of its rounds does.   *)
Leads(q) == q \in Seq(Segments) /\ Led(Replaced(q))

(* One round of the loop.                                                  *)
LedStep(acc) ==
  IF acc.done THEN acc
  ELSE [path |-> DropUps(Replaced(acc.path)),
        done |-> DropUps(Replaced(acc.path)) = Replaced(acc.path)]

(* From such a path a round goes on to another.                            *)
LEMMA LedStepIs ==
  ASSUME NEW acc, acc \in [path : Seq(Segments), done : BOOLEAN], Leads(acc.path)
  PROVE  LedStep(acc) \in [path : Seq(Segments), done : BOOLEAN] /\ Leads(LedStep(acc).path)
<1>1. CASE acc.done
  BY <1>1 DEF LedStep
<1>2. CASE ~acc.done
  <2>1. PICK r, u : r = Replaced(acc.path) /\ u = DropUps(r)
    OBVIOUS
  <2>2. Led(r)
    BY <2>1 DEF Leads
  <2>3. Led(u)
    BY ONLY <2>1, <2>2, LedUps
  <2>4. u \in Seq(Segments) /\ Leads(u)
    BY <2>3, LedIs DEF Leads
  <2>5. LedStep(acc) = [path |-> u, done |-> u = r]
    BY <1>2, <2>1 DEF LedStep
  <2> QED
    BY <2>4, <2>5
<1> QED
  BY <1>1, <1>2

(* How normalize_path comes to its result.                                 *)
LedSteps(g, p) ==
  /\ \A k \in 0 .. Len(p) : Leads(g[k].path) /\ g[k].done \in BOOLEAN
  /\ g[0] = [path |-> p, done |-> FALSE]
  /\ \A k \in Nat : k + 1 <= Len(p) => g[k + 1] = LedStep(g[k])

(* It is such a loop.                                                      *)
LEMMA LedLoop ==
  ASSUME NEW p, Leads(p)
  PROVE  \E g : LedSteps(g, p) /\ normalize_path(p) = g[Len(p)].path
<1> DEFINE S == {acc \in [path : Seq(Segments), done : BOOLEAN] : Leads(acc.path)}
           a == [path |-> p, done |-> FALSE]
           n == Len(p)
           E == [k \in Nat |-> [q \in S |-> LedStep(q)]]
           IsIt(g) == g = [k \in 0 .. n |-> IF k = 0 THEN a ELSE LedStep(g[k - 1])]
<1>1. a \in S /\ n \in Nat
  BY DEF Leads
<1>2. \A q \in S : LedStep(q) \in S
  <2> SUFFICES ASSUME NEW q \in S
               PROVE  LedStep(q) \in S
    OBVIOUS
  <2> QED
    BY LedStepIs
<1>3. E \in [Nat -> [S -> S]]
  BY <1>2
<1> HIDE DEF S, a
<1>4. PICK f : Loops(f, n, S, a, E)
  <2> HIDE DEF E, n
  <2> QED
    BY ONLY <1>1, <1>3, LoopThere
<1>5. f \in [0 .. n -> S] /\ f[0] = a /\ \A k \in 1 .. n : f[k] = E[k][f[k - 1]]
  <2> HIDE DEF E, n
  <2> QED
    BY <1>4 DEF Loops
<1>6. \A k \in 1 .. n : f[k] = LedStep(f[k - 1])
  <2> SUFFICES ASSUME NEW k \in 1 .. n
               PROVE  f[k] = LedStep(f[k - 1])
    OBVIOUS
  <2>1. k \in Nat /\ k - 1 \in 0 .. n /\ f[k - 1] \in S
    BY <1>1, <1>5
  <2> QED
    BY <1>5, <2>1
<1>7. IsIt(f)
  <2>1. \A k \in 0 .. n : f[k] = IF k = 0 THEN a ELSE LedStep(f[k - 1])
    BY <1>1, <1>5, <1>6
  <2> QED
    BY <1>5, <2>1
<1>8. PICK g : IsIt(g) /\ normalize_path(p) = g[n].path
  <2> DEFINE g0 == CHOOSE g : IsIt(g)
  <2>1. IsIt(g0)
    BY <1>7
  <2>2. normalize_path(p) = g0[n].path
    BY ONLY DEF normalize_path, LedStep, a, IsIt, g0, n
  <2> QED
    BY <2>1, <2>2
<1>9. /\ g[0] = a /\ g = [k \in 0 .. n |-> g[k]]
      /\ \A k \in 1 .. n : g[k] = LedStep(g[k - 1])
  <2>1. \A k \in 0 .. n : g[k] = IF k = 0 THEN a ELSE LedStep(g[k - 1])
    BY <1>8
  <2>2. DOMAIN g = 0 .. n /\ 0 \in 0 .. n /\ \A k \in 1 .. n : k \in 0 .. n /\ k # 0
    BY <1>1, <1>8
  <2>3. g = [k \in 0 .. n |-> g[k]]
    BY <1>8
  <2> QED
    BY <2>1, <2>2, <2>3
<1>10. ASSUME NEW k \in 1 .. n, g[k - 1] \in S
       PROVE  g[k] = E[k][g[k - 1]]
  <2>1. k \in Nat
    OBVIOUS
  <2>2. E[k][g[k - 1]] = LedStep(g[k - 1])
    BY <1>10, <2>1
  <2> QED
    BY <1>9, <2>2
<1>11. Loops(g, n, S, a, E)
  <2> HIDE DEF E, n
  <2> QED
    BY ONLY <1>1, <1>3, <1>9, <1>10, LoopIs
<1>12. \A k \in 0 .. n : g[k] \in S
  BY <1>11 DEF Loops
<1>13. LedSteps(g, p)
  <2>1. \A k \in Nat : k + 1 <= n => k + 1 \in 1 .. n /\ k + 1 - 1 = k
    BY <1>1
  <2>2. ASSUME NEW k \in Nat, k + 1 <= n
        PROVE  g[k + 1] = LedStep(g[k])
    <3>1. PICK m \in 1 .. n : m = k + 1 /\ m - 1 = k
      BY <2>1, <2>2
    <3>2. g[m] = LedStep(g[m - 1])
      BY <1>9
    <3> QED
      BY ONLY <3>1, <3>2
  <2>3. \A k \in 0 .. n : Leads(g[k].path) /\ g[k].done \in BOOLEAN
    BY <1>12 DEF S
  <2> QED
    BY <1>9, <2>2, <2>3 DEF LedSteps, a
<1> QED
  BY <1>8, <1>13

(* Where normalize_path starts: a path behind its dot, or from the root,   *)
(* which the dot goes in front of.                                         *)
Resolvable(q) ==
  /\ q \in Seq(Segments) /\ Len(q) > 1
  /\ Spaced(IF q[1] = Dot THEN q ELSE <<Dot>> \o q)

(* The dot in front is all the first round can add.                        *)
LEMMA ResolvableIs ==
  ASSUME NEW q, Resolvable(q), NEW r, r = Replaced(q)
  PROVE  Leads(q) /\ NormPath(r) = NormPath(q) /\ Len(r) <= Len(q) + 1
<1>1. PICK n \in Nat : n = Len(q) /\ n > 1 /\ q \in Seq(Segments)
  BY DEF Resolvable
<1>2. PICK d : d = Dotted(q)
  OBVIOUS
<1>3. PICK b : b = DropBetweenSlashes(d, Blank)
  OBVIOUS
<1>4. r = DropBetweenSlashes(b, Dot)
  BY ONLY <1>2, <1>3, r = Replaced(q) DEF Replaced, Blank, Dot
<1>5. d = IF q[1] = Dot THEN q ELSE <<Dot>> \o q
  BY ONLY <1>1, <1>2 DEF Dotted, Dot
<1>6. Spaced(d)
  BY ONLY <1>5, Resolvable(q) DEF Resolvable
<1>7. /\ Led(r) /\ NormPath(r) = NormPath(d) /\ Len(r) <= Len(d)
  BY ONLY <1>3, <1>4, <1>6, SpacedIs
<1>8. Len(r) \in Nat
  BY ONLY <1>7, LedIs
<1>9. CASE q[1] = Dot
  BY ONLY <1>1, <1>5, <1>7, <1>8, <1>9, r = Replaced(q) DEF Leads
<1>10. CASE q[1] # Dot
  <2>1. d = <<Dot>> \o q
    BY ONLY <1>5, <1>10
  <2>2. Dot \in Segments /\ Idle(Dot)
    BY ONLY IdleIs
  <2>3. NormPath(d) = NormPath(q)
    BY ONLY <1>1, <2>1, <2>2, NormDotted
  <2>4. Len(d) = n + 1
    BY ONLY <1>1, <2>1, <2>2
  <2> QED
    BY ONLY <1>1, <1>7, <1>8, <2>3, <2>4, r = Replaced(q) DEF Leads
<1> QED
  BY ONLY <1>9, <1>10

(* After k rounds the loop is done, or k segments are gone, of which one   *)
(* may be the dot that the first round added.                              *)
Resolves(q, k, acc) ==
  /\ NormPath(Replaced(acc.path)) = NormPath(q)
  /\ acc.done => Settled(acc.path)
  /\ ~acc.done => Len(Replaced(acc.path)) + k <= Len(q) + 1

(* So the resolver's path is the shortest, behind the dot.                 *)
LEMMA ResolvedIs ==
  ASSUME NEW q, Resolvable(q)
  PROVE  normalize_path(q) = <<Dot>> \o NormPath(q)
<1>1. Leads(q) /\ NormPath(Replaced(q)) = NormPath(q) /\ Len(Replaced(q)) <= Len(q) + 1
  BY ONLY Resolvable(q), ResolvableIs
<1>2. PICK g : LedSteps(g, q) /\ normalize_path(q) = g[Len(q)].path
  BY ONLY <1>1, LedLoop
<1>3. PICK n \in Nat : n = Len(q)
  BY DEF Resolvable
<1>4. /\ \A k \in 0 .. n : Leads(g[k].path) /\ g[k].done \in BOOLEAN
      /\ g[0] = [path |-> q, done |-> FALSE]
      /\ \A k \in Nat : k + 1 <= n => g[k + 1] = LedStep(g[k])
  BY <1>2, <1>3 DEF LedSteps
<1> DEFINE T == {k \in Nat : k <= n => Resolves(q, k, g[k])}
<1>5. 0 \in T
  <2>1. Len(Replaced(q)) \in Nat
    BY ONLY <1>1, LedIs DEF Leads
  <2> QED
    BY <1>1, <1>3, <1>4, <2>1 DEF Resolves
<1>6. ASSUME NEW k \in Nat, k \in T
      PROVE  k + 1 \in T
  <2> SUFFICES ASSUME k + 1 <= n
               PROVE  Resolves(q, k + 1, g[k + 1])
    OBVIOUS
  <2>1. PICK acc, next : acc = g[k] /\ next = g[k + 1]
    OBVIOUS
  <2>2. k \in 0 .. n /\ k <= n
    OBVIOUS
  <2>3. Leads(acc.path) /\ acc.done \in BOOLEAN /\ Resolves(q, k, acc) /\ next = LedStep(acc)
    BY <1>4, <1>6, <2>1, <2>2
  <2>4. CASE acc.done
    BY <2>1, <2>3, <2>4 DEF Resolves, LedStep
  <2>5. CASE ~acc.done
    <3>1. PICK r, u : r = Replaced(acc.path) /\ u = DropUps(r)
      OBVIOUS
    <3>2. Led(r) /\ NormPath(r) = NormPath(q) /\ Len(r) + k <= n + 1
      BY ONLY <1>3, <2>3, <2>5, <3>1 DEF Leads, Resolves
    <3>3. /\ Led(u) /\ NormPath(u) = NormPath(r) /\ Len(u) <= Len(r)
          /\ Len(u) = Len(r) => u = r /\ Settled(r)
      BY ONLY <3>1, <3>2, LedUps
    <3>4. Replaced(u) = u /\ Len(u) \in Nat /\ Len(r) \in Nat
      BY ONLY <3>2, <3>3, LedIs
    <3>5. next = [path |-> u, done |-> u = r]
      BY ONLY <2>3, <2>5, <3>1 DEF LedStep
    <3>6. next.path = u /\ (next.done <=> u = r)
      BY ONLY <3>5
    <3>7. u = r => Settled(u)
      BY ONLY <3>3
    <3>8. u # r => Len(u) + (k + 1) <= n + 1
      BY ONLY <3>2, <3>3, <3>4, k \in Nat, n \in Nat
    <3> QED
      BY ONLY <1>3, <2>1, <3>2, <3>3, <3>4, <3>6, <3>7, <3>8 DEF Resolves
  <2> QED
    BY <2>4, <2>5
<1>7. PICK acc : acc = g[n] /\ Resolves(q, n, acc)
  <2>1. \A k \in Nat : k \in T
    <3> HIDE DEF T
    <3> QED
      BY ONLY <1>5, <1>6, Induction
  <2> QED
    BY <2>1
<1>8. Leads(acc.path)
  BY <1>4, <1>7
<1>9. Len(Replaced(acc.path)) \in Nat /\ Len(Replaced(acc.path)) >= 2
  BY ONLY <1>8, LedIs DEF Leads
<1>10. acc.done
  BY ONLY <1>3, <1>7, <1>9 DEF Resolves
<1>11. Settled(acc.path) /\ NormPath(Replaced(acc.path)) = NormPath(q)
  BY ONLY <1>7, <1>10 DEF Resolves
<1>12. Replaced(acc.path) = acc.path
  BY ONLY <1>11, LedIs DEF Settled
<1>13. acc.path = <<Dot>> \o NormPath(acc.path)
  BY ONLY <1>11, SettledIs
<1>14. normalize_path(q) = acc.path
  BY ONLY <1>2, <1>3, <1>7
<1> QED
  BY ONLY <1>11, <1>12, <1>13, <1>14

(* What an import looks like, to the lemmas.                               *)
Dash == "-"

(* So a path that may be given is what FS:normalize can start from.        *)
LEMMA GivenIs ==
  ASSUME NEW p, Given(p)
  PROVE  /\ p \in Seq(Segments) /\ p # << >> /\ p[1] # Blank /\ Plain(Last(p))
         /\ \A k \in 1 .. Len(p) - 1 : ~(Idle(p[k]) /\ Idle(p[k + 1]))
         /\ Len(p) \in Nat /\ Len(p) >= 1 /\ Last(p) = p[Len(p)] /\ Fine(p)
<1>1. p \in Seq(Segments) /\ p # << >> /\ p[1] # Blank
  BY ONLY Given(p) DEF Given, Blank
<1>2. Plain(Last(p))
  BY ONLY Given(p) DEF Given, Plain, Idle, Up
<1>3. \A k \in 1 .. Len(p) - 1 : ~(Idle(p[k]) /\ Idle(p[k + 1]))
  <2> SUFFICES ASSUME NEW k \in 1 .. Len(p) - 1, Idle(p[k]), Idle(p[k + 1])
               PROVE  FALSE
    OBVIOUS
  <2>1. ~({p[k], p[k + 1]} \subseteq {"", "."})
    BY ONLY Given(p), k \in 1 .. Len(p) - 1 DEF Given
  <2> QED
    BY ONLY <2>1, Idle(p[k]), Idle(p[k + 1]) DEF Idle
<1>4. Len(p) \in Nat /\ Len(p) >= 1 /\ Last(p) = p[Len(p)]
  BY ONLY <1>1, EmptySeq DEF Last
<1>5. Fine(p)
  BY ONLY <1>1, <1>2, <1>3, IdleIs DEF Fine
<1> QED
  BY ONLY <1>1, <1>2, <1>3, <1>4, <1>5

(* When the resolver's loop is given enough room.                          *)
LEMMA SpacedWhen ==
  ASSUME NEW r, r \in Seq(Segments), r # << >>, r[1] = Dot, Plain(Last(r)),
         \A k \in 2 .. Len(r) - 1 :
           Idle(r[k]) /\ Idle(r[k + 1]) => k = 2 /\ r[k] = Blank /\ r[k + 1] # Blank
  PROVE  Spaced(r)
<1>1. Lone(r, Blank) /\ Apart(r, Blank, Dot)
  BY IdleIs DEF Lone, Apart
<1> QED
  BY <1>1 DEF Spaced

(* A path to which a directory is joined.                                  *)
LEMMA JoinedIs ==
  ASSUME NEW d, d \in Seq(Segments), \A k \in 1 .. Len(d) : ~Idle(d[k]),
         NEW p, Given(p), NEW q, q = d \o p
  PROVE  /\ q \in Seq(Segments) /\ q # << >> /\ Last(q) = Last(p) /\ Plain(Last(q))
         /\ Len(q) \in Nat /\ Len(q) >= 1 /\ q[1] # Blank
         /\ \A k \in 1 .. Len(q) - 1 : ~(Idle(q[k]) /\ Idle(q[k + 1]))
         /\ Fine(q)
<1>1. /\ p \in Seq(Segments) /\ p # << >> /\ p[1] # Blank /\ Plain(Last(p))
      /\ \A k \in 1 .. Len(p) - 1 : ~(Idle(p[k]) /\ Idle(p[k + 1]))
      /\ Len(p) \in Nat /\ Len(p) >= 1 /\ Last(p) = p[Len(p)]
  BY GivenIs
<1>2. PICK n \in Nat, m \in Nat : n = Len(d) /\ m = Len(p) /\ m >= 1
  BY <1>1
<1>3. /\ q \in Seq(Segments) /\ Len(q) = n + m
      /\ \A k \in 1 .. n : q[k] = d[k]
      /\ \A k \in n + 1 .. n + m : q[k] = p[k - n]
  BY <1>1, <1>2
<1>4. q # << >> /\ Last(q) = Last(p)
  <2>1. Last(q) = q[n + m] /\ q # << >>
    BY <1>2, <1>3, EmptySeq DEF Last
  <2>2. n + m \in n + 1 .. n + m /\ n + m - n = m
    BY <1>2
  <2> QED
    BY <1>1, <1>2, <1>3, <2>1, <2>2
<1>5. q[1] # Blank
  <2>1. CASE n = 0
    <3>1. 1 \in n + 1 .. n + m /\ 1 - n = 1
      BY <1>2, <2>1
    <3> QED
      BY <1>1, <1>3, <3>1
  <2>2. CASE n # 0
    <3>1. 1 \in 1 .. n
      BY <1>2, <2>2
    <3> QED
      BY <1>2, <1>3, <3>1, IdleIs
  <2> QED
    BY <2>1, <2>2
<1>6. ASSUME NEW k \in 1 .. Len(q) - 1
      PROVE  ~(Idle(q[k]) /\ Idle(q[k + 1]))
  <2>1. CASE k <= n
    <3>1. k \in 1 .. n
      BY <2>1
    <3> QED
      BY <1>2, <1>3, <3>1
  <2>2. CASE ~(k <= n)
    <3>0. k \in 1 .. n + m - 1
      BY ONLY <1>3, k \in 1 .. Len(q) - 1
    <3>1. k - n \in 1 .. m - 1
      BY ONLY n \in Nat, m \in Nat, <2>2, <3>0
    <3>2. PICK j \in 1 .. m - 1 : j = k - n
      BY ONLY <3>1
    <3>3. k \in n + 1 .. n + m /\ k + 1 \in n + 1 .. n + m /\ k - n = j /\ k + 1 - n = j + 1
      BY ONLY n \in Nat, m \in Nat, <2>2, <3>0, <3>2
    <3>4. q[k] = p[j] /\ q[k + 1] = p[j + 1]
      BY ONLY <1>3, <3>3
    <3> QED
      BY ONLY <1>1, <1>2, <3>2, <3>4
  <2> QED
    BY <2>1, <2>2
<1>7. Fine(q)
  BY ONLY <1>1, <1>3, <1>4, <1>5, <1>6, IdleIs DEF Fine
<1> QED
  BY ONLY <1>1, <1>2, <1>3, <1>4, <1>5, <1>6, <1>7

(* The resolver, told the import by its directory.                         *)
LEMMA ResolvedBehind ==
  ASSUME NEW d, d \in Seq(Segments), \A k \in 1 .. Len(d) : ~Idle(d[k]),
         d # << >>, NEW p, Given(p)
  PROVE  normalize_path(d \o p) = <<Dot>> \o NormPath(d \o p)
<1>1. PICK q : q = d \o p
  OBVIOUS
<1>2. /\ q \in Seq(Segments) /\ q # << >> /\ Plain(Last(q)) /\ Len(q) \in Nat /\ Len(q) >= 1
      /\ \A k \in 1 .. Len(q) - 1 : ~(Idle(q[k]) /\ Idle(q[k + 1]))
  BY <1>1, JoinedIs
<1>3. PICK n \in Nat : n = Len(q) /\ n >= 1
  BY <1>2
<1>4. Dot \in Segments /\ Idle(Dot) /\ <<Dot>> \in Seq(Segments)
  BY IdleIs
<1>5. PICK r : r = <<Dot>> \o q
  OBVIOUS
<1>6. /\ r \in Seq(Segments) /\ r # << >> /\ Len(r) = n + 1 /\ r[1] = Dot
      /\ \A k \in 2 .. n + 1 : r[k] = q[k - 1]
  BY ONLY <1>2, <1>3, <1>4, <1>5, EmptySeq
<1>7. Last(r) = Last(q)
  <2>1. n + 1 \in 2 .. n + 1 /\ n + 1 - 1 = n
    BY <1>3
  <2> QED
    BY ONLY <1>3, <1>6, <2>1 DEF Last
<1>8. \A k \in 2 .. Len(r) - 1 : ~(Idle(r[k]) /\ Idle(r[k + 1]))
  <2> SUFFICES ASSUME NEW k \in 2 .. n
               PROVE  ~(Idle(r[k]) /\ Idle(r[k + 1]))
    BY <1>6
  <2>1. PICK j \in 1 .. n - 1 : j = k - 1
    BY <1>3
  <2>2. k \in 2 .. n + 1 /\ k + 1 \in 2 .. n + 1 /\ k - 1 = j /\ k + 1 - 1 = j + 1
    BY <1>3, <2>1
  <2>3. r[k] = q[j] /\ r[k + 1] = q[j + 1]
    BY <1>6, <2>2
  <2> QED
    BY <1>2, <1>3, <2>1, <2>3
<1>9. Spaced(r)
  BY ONLY <1>2, <1>6, <1>7, <1>8, SpacedWhen
<1>10. Len(q) > 1 /\ q[1] # Dot
  <2>1. PICK l \in Nat, m \in Nat : l = Len(d) /\ l >= 1 /\ m = Len(p) /\ m >= 1
    BY GivenIs, EmptySeq
  <2>2. p \in Seq(Segments)
    BY GivenIs
  <2>3. Len(q) = l + m /\ q[1] = d[1] /\ 1 \in 1 .. Len(d)
    BY <1>1, <2>1, <2>2
  <2>4. ~Idle(d[1])
    BY <2>3
  <2> QED
    BY ONLY <1>4, <2>1, <2>3, <2>4
<1>11. Resolvable(q)
  BY ONLY <1>2, <1>5, <1>9, <1>10 DEF Resolvable
<1> QED
  BY ONLY <1>1, <1>11, ResolvedIs

(* The resolver, told an import of a file in no directory.                 *)
LEMMA ResolvedAlone ==
  ASSUME NEW p, Given(p)
  PROVE  normalize_path(<<Blank>> \o p) = <<Dot>> \o NormPath(p)
<1>1. /\ p \in Seq(Segments) /\ p # << >> /\ p[1] # Blank /\ Plain(Last(p))
      /\ \A k \in 1 .. Len(p) - 1 : ~(Idle(p[k]) /\ Idle(p[k + 1]))
      /\ Len(p) \in Nat /\ Len(p) >= 1 /\ Last(p) = p[Len(p)]
  BY GivenIs
<1>2. PICK n \in Nat : n = Len(p) /\ n >= 1
  BY <1>1
<1>3. /\ Dot \in Segments /\ <<Dot>> \in Seq(Segments) /\ Blank \in Segments
      /\ <<Blank>> \in Seq(Segments) /\ Idle(Blank) /\ Blank # Dot
  BY IdleIs
<1>4. PICK q, r : q = <<Blank>> \o p /\ r = <<Dot>> \o q
  OBVIOUS
<1>5. /\ q \in Seq(Segments) /\ Len(q) = n + 1 /\ q[1] = Blank
      /\ \A k \in 2 .. n + 1 : q[k] = p[k - 1]
  BY ONLY <1>1, <1>2, <1>3, <1>4
<1>6. /\ r \in Seq(Segments) /\ r # << >> /\ Len(r) = n + 2 /\ r[1] = Dot
      /\ \A k \in 2 .. n + 2 : r[k] = q[k - 1]
  BY ONLY <1>2, <1>3, <1>4, <1>5, EmptySeq
<1>7. r[2] = Blank /\ \A k \in 3 .. n + 2 : r[k] = p[k - 2]
  <2>1. r[2] = q[1]
    <3>1. 2 \in 2 .. n + 2 /\ 2 - 1 = 1
      BY <1>2
    <3> QED
      BY <1>6, <3>1
  <2>2. ASSUME NEW k \in 3 .. n + 2
        PROVE  r[k] = p[k - 2]
    <3>1. k \in 2 .. n + 2 /\ k - 1 \in 2 .. n + 1 /\ k - 1 - 1 = k - 2
      OBVIOUS
    <3> QED
      BY <1>5, <1>6, <3>1
  <2> QED
    BY <1>5, <2>1, <2>2
<1>8. Plain(Last(r))
  <2>1. n + 2 \in 3 .. n + 2 /\ n + 2 - 2 = n
    BY <1>2
  <2> QED
    BY ONLY <1>1, <1>2, <1>6, <1>7, <2>1 DEF Last
<1>9. ASSUME NEW k \in 2 .. Len(r) - 1, Idle(r[k]), Idle(r[k + 1])
      PROVE  k = 2 /\ r[k] = Blank /\ r[k + 1] # Blank
  <2>1. k \in 2 .. n + 1
    BY <1>6
  <2>2. CASE k = 2
    <3>1. 3 \in 3 .. n + 2 /\ 3 - 2 = 1
      BY <1>2
    <3>2. r[3] = p[1]
      BY <1>7, <3>1
    <3> QED
      BY <1>1, <1>7, <2>2, <3>2
  <2>3. CASE k # 2
    <3>1. PICK j \in 1 .. n - 1 : j = k - 2
      BY <1>2, <2>1, <2>3
    <3>2. k \in 3 .. n + 2 /\ k + 1 \in 3 .. n + 2 /\ k - 2 = j /\ k + 1 - 2 = j + 1
      BY <1>2, <2>1, <2>3, <3>1
    <3>3. r[k] = p[j] /\ r[k + 1] = p[j + 1]
      BY <1>7, <3>2
    <3> QED
      BY <1>1, <1>2, <1>9, <3>1, <3>3
  <2> QED
    BY <2>2, <2>3
<1>10. Spaced(r)
  BY ONLY <1>6, <1>8, <1>9, SpacedWhen
<1>11. Resolvable(q)
  <2>1. q[1] # Dot
    BY ONLY <1>3, <1>5
  <2>2. Spaced(IF q[1] = Dot THEN q ELSE <<Dot>> \o q)
    BY ONLY <1>4, <1>10, <2>1
  <2>3. Len(q) > 1
    BY ONLY <1>2, <1>5
  <2> QED
    BY ONLY <1>5, <2>2, <2>3 DEF Resolvable
<1>12. normalize_path(q) = <<Dot>> \o NormPath(q)
  BY ONLY <1>11, ResolvedIs
<1>13. NormPath(q) = NormPath(p)
  BY ONLY <1>1, <1>3, <1>4, NormDotted
<1> QED
  BY ONLY <1>4, <1>12, <1>13

-----------------------------------------------------------------------------
(* The paths a file can have.                                              *)
Short(f) ==
  f \in Seq(Segments) /\ f # << >> /\ Shortest(f) /\ Plain(Last(f))

(* The inductive invariant: every key of a file is its shortest path.      *)
Found ==
  /\ Short(file) /\ native = file /\ loader = file
  /\ ordering = Keyed(file) /\ resolver = ordering

(* The standard input has its own.                                         *)
LEMMA StdinIs == Short(Stdin) /\ NormPath(Stdin) = Stdin /\ Stdin = <<Dash>>
<1>1. Dash \in Segments /\ Plain(Dash)
  BY SegmentsHave DEF Dash
<1>2. Stdin = <<Dash>>
  BY DEF Stdin, Dash
<1>3. Short(<<Dash>>)
  BY <1>1 DEF Short, Shortest, Plain, Last
<1> QED
  BY <1>2, <1>3, NormShortest DEF Short

(* The directory of a file is entered by names and "..".                   *)
LEMMA DirIs ==
  ASSUME NEW f, Short(f), NEW d, d = Dir(f)
  PROVE  /\ d \in Seq(Segments) /\ \A k \in 1 .. Len(d) : ~Idle(d[k])
         /\ Dir(<<Dot>> \o f) = <<Dot>> \o d
<1>1. PICK n \in Nat : n = Len(f) /\ n >= 1 /\ f \in Seq(Segments)
  BY EmptySeq DEF Short
<1>2. d \in Seq(Segments) /\ Len(d) = n - 1 /\ \A k \in 1 .. n - 1 : d[k] = f[k]
  <2>1. d = [k \in 1 .. n - 1 |-> f[k]]
    BY <1>1 DEF Dir, Front
  <2>2. n - 1 \in Nat /\ \A k \in 1 .. n - 1 : f[k] \in Segments
    BY <1>1
  <2> QED
    BY <2>1, <2>2
<1>3. \A k \in 1 .. n - 1 : ~Idle(d[k])
  <2>1. \A k \in 1 .. n - 1 : k \in 1 .. Len(f)
    BY <1>1
  <2> QED
    BY <1>2, <2>1 DEF Short, Shortest
<1>4. Dot \in Segments /\ <<Dot>> \in Seq(Segments)
  BY IdleIs
<1>5. PICK q, r : q = <<Dot>> \o f /\ r = <<Dot>> \o d
  OBVIOUS
<1>6. /\ q \in Seq(Segments) /\ Len(q) = n + 1 /\ q[1] = Dot
      /\ \A k \in 2 .. n + 1 : q[k] = f[k - 1]
  BY ONLY <1>1, <1>4, <1>5
<1>7. /\ r \in Seq(Segments) /\ Len(r) = n /\ r[1] = Dot
      /\ \A k \in 2 .. n : r[k] = d[k - 1]
  BY ONLY <1>1, <1>2, <1>4, <1>5
<1>8. PICK s : s = Dir(q)
  OBVIOUS
<1>9. s \in Seq(Segments) /\ Len(s) = n /\ \A k \in 1 .. n : s[k] = q[k]
  <2>1. s = [k \in 1 .. n |-> q[k]]
    BY <1>1, <1>6, <1>8 DEF Dir, Front
  <2>2. \A k \in 1 .. n : q[k] \in Segments
    BY <1>6
  <2> QED
    BY <2>1, <2>2
<1>10. \A k \in 1 .. n : s[k] = r[k]
  <2> SUFFICES ASSUME NEW k \in 1 .. n
               PROVE  s[k] = r[k]
    OBVIOUS
  <2>1. CASE k = 1
    BY <1>6, <1>7, <1>9, <2>1
  <2>2. CASE k # 1
    <3>1. k \in 2 .. n /\ k \in 2 .. n + 1 /\ k - 1 \in 1 .. n - 1
      BY <2>2
    <3> QED
      BY <1>2, <1>6, <1>7, <1>9, <3>1
  <2> QED
    BY <2>1, <2>2
<1>11. s = r
  BY ONLY <1>7, <1>9, <1>10
<1> QED
  BY ONLY <1>2, <1>3, <1>5, <1>8, <1>11

(* Where an import of a file leads to.                                     *)
LEMMA ImportLeads ==
  ASSUME NEW f, Short(f), NEW p, Given(p), Last(p) # "-"
  PROVE  /\ Short(NormPath(Dir(f) \o p))
         /\ Normalize(Dir(f) \o p) = NormPath(Dir(f) \o p)
         /\ Keyed(NormPath(Dir(f) \o p)) = <<Dot>> \o NormPath(Dir(f) \o p)
<1>1. PICK d, q, r : d = Dir(f) /\ q = d \o p /\ r = NormPath(q)
  OBVIOUS
<1>2. d \in Seq(Segments) /\ \A k \in 1 .. Len(d) : ~Idle(d[k])
  BY <1>1, DirIs
<1>3. /\ q \in Seq(Segments) /\ q # << >> /\ Last(q) = Last(p) /\ Plain(Last(q)) /\ Fine(q)
  BY <1>1, <1>2, JoinedIs
<1>4. Normalize(q) = r /\ Shortest(r)
  BY ONLY <1>1, <1>3, NormalizeIs
<1>5. r \in Seq(Segments) /\ r # << >> /\ Last(r) = Last(p)
  BY ONLY <1>1, <1>3, NormTyped, NormLast
<1>6. Short(r)
  BY ONLY <1>3, <1>4, <1>5 DEF Short
<1>7. r # Stdin
  <2>1. Last(<<Dash>>) = Dash
    BY DEF Last
  <2>2. Last(p) # Dash
    BY DEF Dash
  <2> QED
    BY ONLY <1>5, <2>1, <2>2, StdinIs
<1>8. Keyed(r) = <<Dot>> \o r
  BY ONLY <1>7 DEF Keyed, Dot
<1> QED
  BY ONLY <1>1, <1>4, <1>6, <1>8

(* What the resolver normalizes.                                           *)
Asked(d, p) == (IF d = << >> THEN <<"">> ELSE d) \o p

(* It finds the module.                                                    *)
LEMMA AskedIs ==
  ASSUME NEW d, d \in Seq(Segments), \A k \in 1 .. Len(d) : ~Idle(d[k]),
         NEW p, Given(p)
  PROVE  normalize_path(Asked(d, p)) = <<Dot>> \o NormPath(d \o p)
<1>1. CASE d = << >>
  <2>1. d \o p = p
    BY ONLY <1>1, Given(p), GivenIs
  <2>2. Asked(d, p) = <<Blank>> \o p
    BY ONLY <1>1 DEF Asked, Blank
  <2> QED
    BY ONLY <2>1, <2>2, Given(p), ResolvedAlone
<1>2. CASE d # << >>
  <2>1. Asked(d, p) = d \o p
    BY ONLY <1>2 DEF Asked
  <2> QED
    BY <1>2, <2>1, ResolvedBehind
<1> QED
  BY ONLY <1>1, <1>2

(* The bootstrap compiler's three keys of it are one.                      *)
LEMMA ImportKeys ==
  ASSUME NEW f, Short(f), NEW o, o = Keyed(f), NEW p, Given(p), Last(p) # "-"
  PROVE  /\ Keyed(NormPath(Dir(o) \o p)) = Keyed(NormPath(Dir(f) \o p))
         /\ normalize_path(Asked(Dir(f), p)) = Keyed(NormPath(Dir(f) \o p))
<1>1. PICK d : d = Dir(f)
  OBVIOUS
<1>2. /\ d \in Seq(Segments) /\ \A k \in 1 .. Len(d) : ~Idle(d[k])
      /\ Dir(<<Dot>> \o f) = <<Dot>> \o d
  BY <1>1, DirIs
<1>3. p \in Seq(Segments)
  BY GivenIs
<1>4. Keyed(NormPath(d \o p)) = <<Dot>> \o NormPath(d \o p)
  BY ONLY <1>1, Short(f), Given(p), Last(p) # "-", ImportLeads
<1>5. Dot \in Segments /\ Idle(Dot) /\ <<Dot>> \in Seq(Segments)
  BY IdleIs
<1>6. normalize_path(Asked(Dir(f), p)) = Keyed(NormPath(Dir(f) \o p))
  <2>1. normalize_path(Asked(d, p)) = <<Dot>> \o NormPath(d \o p)
    BY ONLY <1>2, Given(p), AskedIs
  <2> QED
    BY ONLY <1>1, <1>4, <2>1
<1>7. CASE f = Stdin
  <2>1. o = f
    BY ONLY <1>7, o = Keyed(f) DEF Keyed
  <2> QED
    BY ONLY <1>6, <2>1
<1>8. CASE f # Stdin
  <2>1. o = <<Dot>> \o f
    BY ONLY <1>8, o = Keyed(f) DEF Keyed, Dot
  <2>2. Dir(o) = <<Dot>> \o d
    BY ONLY <1>2, <2>1
  <2>3. (<<Dot>> \o d) \o p = <<Dot>> \o (d \o p)
    <3>1. PICK q, r : q = (<<Dot>> \o d) \o p /\ r = <<Dot>> \o (d \o p)
      OBVIOUS
    <3>2. PICK n \in Nat, m \in Nat : n = Len(d) /\ m = Len(p)
      BY ONLY <1>2, <1>3
    <3>3. q \in Seq(Segments) /\ r \in Seq(Segments) /\ Len(q) = n + m + 1 /\ Len(r) = n + m + 1
      BY ONLY <1>2, <1>3, <1>5, <3>1, <3>2
    <3>4. \A k \in 1 .. n + m + 1 : q[k] = r[k]
      BY ONLY <1>2, <1>3, <1>5, <3>1, <3>2
    <3> QED
      BY ONLY <3>1, <3>3, <3>4
  <2>5. d \o p \in Seq(Segments)
    BY ONLY <1>2, <1>3
  <2>6. NormPath(<<Dot>> \o (d \o p)) = NormPath(d \o p)
    BY ONLY <1>5, <2>5, NormDotted
  <2> QED
    BY ONLY <1>1, <1>6, <2>2, <2>3, <2>6
<1> QED
  BY ONLY <1>7, <1>8

(* The compiler starts with one key for the main module.                   *)
LEMMA FoundInit == PathsInit => Found
<1> SUFFICES ASSUME PathsInit
             PROVE  Found
  OBVIOUS
<1>1. PICK main \in Mains \union {Stdin} :
        /\ file = NormPath(main) /\ native = (IF main = Stdin THEN Stdin ELSE Normalize(main))
        /\ loader = NormPath(main) /\ ordering = Keyed(NormPath(main))
        /\ resolver = Keyed(NormPath(main))
  BY DEF PathsInit
<1>2. CASE main = Stdin
  BY <1>1, <1>2, StdinIs DEF Found
<1>3. CASE main # Stdin
  <2>1. Given(main)
    BY ONLY <1>3, main \in Mains \union {Stdin}, PathsAssumption DEF PathsAssumption
  <2>2. Fine(main) /\ main \in Seq(Segments) /\ main # << >> /\ Plain(Last(main))
    BY <2>1, GivenIs
  <2>3. Normalize(main) = NormPath(main) /\ Shortest(NormPath(main))
    BY ONLY <2>2, NormalizeIs
  <2>4. Short(NormPath(main))
    BY ONLY <2>2, <2>3, NormTyped, NormLast DEF Short
  <2> QED
    BY <1>1, <1>3, <2>3, <2>4 DEF Found
<1> QED
  BY <1>2, <1>3

(* Following an import keeps it so.                                        *)
LEMMA FoundStep == Found /\ [PathsNext]_pathVars => Found'
<1> SUFFICES ASSUME Found, [PathsNext]_pathVars
             PROVE  Found'
  OBVIOUS
<1>1. CASE UNCHANGED pathVars
  BY <1>1 DEF Found, pathVars
<1>2. CASE PathsNext
  <2>1. PICK p \in Imports : Follow(p)
    BY <1>2 DEF PathsNext
  <2>2. Given(p) /\ Last(p) # "-"
    BY PathsAssumption DEF PathsAssumption
  <2>3. PICK f, o : f = file /\ o = ordering
    OBVIOUS
  <2>4. Short(f) /\ o = Keyed(f) /\ native = f /\ loader = f
    BY <2>3 DEF Found
  <2>5. PICK r : r = NormPath(Dir(f) \o p)
    OBVIOUS
  <2>6. Short(r) /\ Normalize(Dir(f) \o p) = r
    BY ONLY <2>2, <2>4, <2>5, ImportLeads
  <2>7. /\ Keyed(NormPath(Dir(o) \o p)) = Keyed(r)
        /\ normalize_path(Asked(Dir(f), p)) = Keyed(r)
    <3>1. /\ Keyed(NormPath(Dir(o) \o p)) = Keyed(NormPath(Dir(f) \o p))
          /\ normalize_path(Asked(Dir(f), p)) = Keyed(NormPath(Dir(f) \o p))
      BY ONLY <2>2, <2>4, ImportKeys
    <3> QED
      BY ONLY <2>5, <3>1
  <2>8. file' = r /\ native' = r /\ loader' = r /\ ordering' = Keyed(r) /\ resolver' = Keyed(r)
    BY ONLY <2>1, <2>3, <2>4, <2>5, <2>6, <2>7
       DEF Follow, NativeKey, LoaderKey, OrderingKey, ResolverKey, Asked
  <2> QED
    BY ONLY <2>6, <2>8 DEF Found, Short
<1> QED
  BY <1>1, <1>2

(* The invariant holds of every run.                                       *)
LEMMA FoundAlways == PathsSpec => []Found
  BY FoundInit, FoundStep, PTL DEF PathsSpec

(* A file has one key in the native compiler, the shortest path to it,     *)
(* whatever imports lead to it, however long: FS:normalize computes what   *)
(* os.path.normpath does.                                                  *)
THEOREM OneKeyHolds == PathsSpec => []OneKeyPerFile
<1>1. Found => OneKeyPerFile
  BY DEF Found, OneKeyPerFile
<1> QED
  BY <1>1, FoundAlways, PTL

(* The resolver of the bootstrap compiler finds every import under the key *)
(* it was loaded and put in order by: normalize_path computes what         *)
(* os.path.normpath does, behind a dot.                                    *)
THEOREM ResolverFindsHolds == PathsSpec => []ResolverFindsModule
<1>1. Found => ResolverFindsModule
  BY DEF Found, ResolverFindsModule
<1> QED
  BY <1>1, FoundAlways, PTL

(* The keys are paths to a file: none ends in a slash, a dot or "..".      *)
THEOREM PathsTypeCorrect == PathsSpec => []PathsTypeOK
<1>1. ASSUME NEW f, Short(f)
      PROVE  f \in Seq(Segments) /\ Len(f) > 0 /\ Last(f) \notin {"", ".", ".."}
  <2>1. f \in Seq(Segments) /\ f # << >> /\ Plain(Last(f))
    BY ONLY <1>1 DEF Short
  <2>2. Len(f) > 0
    BY ONLY <2>1, EmptySeq
  <2>3. Last(f) \notin {"", ".", ".."}
    BY ONLY <2>1 DEF Plain, Idle, Up
  <2> QED
    BY ONLY <2>1, <2>2, <2>3
<1>2. ASSUME NEW f, Short(f)
      PROVE  /\ Keyed(f) \in Seq(Segments) /\ Len(Keyed(f)) > 0
             /\ Last(Keyed(f)) \notin {"", ".", ".."}
  <2>1. f \in Seq(Segments) /\ Len(f) > 0 /\ Last(f) \notin {"", ".", ".."}
    BY <1>1, <1>2
  <2>2. CASE f = Stdin
    BY ONLY <2>1, <2>2 DEF Keyed
  <2>3. CASE f # Stdin
    <3>1. PICK q : q = <<Dot>> \o f
      OBVIOUS
    <3>2. Dot \in Segments /\ <<Dot>> \in Seq(Segments)
      BY IdleIs
    <3>3. PICK n \in Nat : n = Len(f) /\ n > 0 /\ f \in Seq(Segments)
      BY ONLY <1>2, EmptySeq DEF Short
    <3>4. q \in Seq(Segments) /\ Len(q) = n + 1 /\ q[n + 1] = f[n]
      BY ONLY <3>1, <3>2, <3>3
    <3>5. Last(q) = Last(f) /\ Len(q) > 0
      BY ONLY <3>3, <3>4 DEF Last
    <3>6. Keyed(f) = q
      BY ONLY <2>3, <3>1 DEF Keyed, Dot
    <3> QED
      BY ONLY <2>1, <3>4, <3>5, <3>6
  <2> QED
    BY ONLY <2>2, <2>3
<1>3. Found => PathsTypeOK
  <2> SUFFICES ASSUME Found
               PROVE  PathsTypeOK
    OBVIOUS
  <2>1. PICK f, o : f = file /\ o = ordering
    OBVIOUS
  <2>2. Short(f) /\ native = f /\ loader = f /\ o = Keyed(f) /\ resolver = o
    BY <2>1 DEF Found
  <2>3. f \in Seq(Segments) /\ Len(f) > 0 /\ Last(f) \notin {"", ".", ".."}
    BY ONLY <1>1, <2>2
  <2>4. o \in Seq(Segments) /\ Len(o) > 0 /\ Last(o) \notin {"", ".", ".."}
    BY ONLY <1>2, <2>2
  <2> QED
    BY ONLY <2>1, <2>2, <2>3, <2>4 DEF PathsTypeOK
<1> QED
  BY <1>3, FoundAlways, PTL
=============================================================================
