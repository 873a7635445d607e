-------------------------- MODULE PageAllocProofs --------------------------
(***************************************************************************)
(* Proofs about PageAlloc, for every number of reserved pages and every    *)
(* memory limit.                                                           *)
(***************************************************************************)
EXTENDS PageAlloc, WellFoundedInduction, FiniteSetTheorems, SequenceTheorems,
        TLAPS

(* Every non-empty set of natural numbers has a least element.             *)
LEMMA LeastElement ==
  ASSUME NEW T \in SUBSET Nat, T # {}
  PROVE  \E x \in T : \A y \in T : x <= y
<1> DEFINE R == OpToRel(<, Nat)
<1>1. IsWellFoundedOn(R, Nat)
  BY NatLessThanWellFounded
<1>2. \A x, y \in Nat : y < x => <<y, x>> \in R
  BY DEF OpToRel
<1> HIDE DEF R
<1>3. PICK x \in T : \A y \in T : ~ (<<y, x>> \in R)
  BY <1>1, WFMin
<1>4. SUFFICES ASSUME NEW y \in T PROVE x <= y
  OBVIOUS
<1>5. x \in Nat /\ y \in Nat
  OBVIOUS
<1>6. ~(y < x)
  BY <1>2, <1>3, <1>5
<1> QED
  BY <1>5, <1>6

(* A run the search finds lies on the list, passes the assertion of the    *)
(* unlinking loops, and unlinking it takes exactly its pages off the list  *)
(* (contiguous-pages, page-alloc.watim:130-160).                           *)
LEMMA UnlinkRun ==
  ASSUME NEW list \in Seq(Page), Distinct(list),
         NEW n \in Nat \ {0},
         NEW k \in RunsAt(list, n)
  PROVE  /\ Run(list[k], n) \subseteq FreePages(list)
         /\ UnlinkAsserts(list, k, n)
         /\ Unlink(list, k, n) \in Seq(Page)
         /\ Distinct(Unlink(list, k, n))
         /\ FreePages(Unlink(list, k, n)) = FreePages(list) \ Run(list[k], n)
<1> USE PageAssumption
<1> DEFINE u == Unlink(list, k, n)
           m == Len(list) - n
<1>1. /\ k \in 1 .. m + 1
      /\ \A i \in 0 .. n - 1 : list[k + i] = list[k] + i
      /\ Len(list) \in Nat
      /\ m \in Nat
      /\ \A i \in 1 .. Len(list) : list[i] \in Page
      /\ Page \subseteq Int
  BY DEF RunsAt, Page
<1>0. /\ k \in 1 .. Len(list)
      /\ list[k] \in Int
      /\ k \in Nat
      /\ k + n - 1 <= Len(list)
  <2>1. k \in 1 .. Len(list) - n + 1 /\ Len(list) \in Nat
    BY DEF RunsAt
  <2>2. k \in 1 .. Len(list) /\ k \in Nat /\ k + n - 1 <= Len(list)
    BY <2>1
  <2>3. list[k] \in Page
    BY <1>1, <2>2
  <2> QED
    BY <1>1, <2>2, <2>3
<1>2. Run(list[k], n) \subseteq FreePages(list)
  <2> SUFFICES ASSUME NEW p \in Run(list[k], n)
               PROVE  p \in FreePages(list)
    OBVIOUS
  <2>1. list[k] \in Int /\ p \in list[k] .. list[k] + n - 1
    BY <1>0 DEF Run
  <2>2. p - list[k] \in 0 .. n - 1
    BY <2>1
  <2>3. list[k + (p - list[k])] = p
    BY <1>1, <2>1, <2>2
  <2>4. k + (p - list[k]) \in 1 .. Len(list)
    <3> DEFINE d == p - list[k]
    <3>1. d \in 0 .. n - 1
      BY <2>2
    <3> HIDE DEF d
    <3>2. k + d \in 1 .. Len(list)
      BY <1>0, <3>1
    <3> QED
      BY <3>2 DEF d
  <2> QED
    BY <2>3, <2>4 DEF FreePages
<1>3. UnlinkAsserts(list, k, n)
  <2> SUFFICES ASSUME NEW i \in k .. k + n - 2
               PROVE  list[i + 1] = list[i] + 1
    BY DEF UnlinkAsserts
  <2>1. i - k \in 0 .. n - 1 /\ i + 1 - k \in 0 .. n - 1
    BY <1>1
  <2>2. list[k + (i - k)] = list[k] + (i - k)
    BY <1>1, <2>1
  <2>3. list[k + (i + 1 - k)] = list[k] + (i + 1 - k)
    BY <1>1, <2>1
  <2>4. /\ k + (i - k) = i
        /\ k + (i + 1 - k) = i + 1
        /\ list[k] + (i + 1 - k) = list[k] + (i - k) + 1
    BY <1>0
  <2> QED
    BY <2>2, <2>3, <2>4
<1>4. /\ u \in Seq(Page)
      /\ Len(u) = m
      /\ \A i \in 1 .. m : u[i] = IF i < k THEN list[i] ELSE list[i + n]
  BY <1>1 DEF Unlink
<1>5. Distinct(u)
  <2> SUFFICES ASSUME NEW i \in 1 .. m, NEW j \in 1 .. m, u[i] = u[j]
               PROVE  i = j
    BY <1>4 DEF Distinct
  <2> DEFINE at(x) == IF x < k THEN x ELSE x + n
  <2>1. /\ at(i) \in 1 .. Len(list) /\ u[i] = list[at(i)]
        /\ at(j) \in 1 .. Len(list) /\ u[j] = list[at(j)]
    BY <1>0, <1>1, <1>4
  <2>2. at(i) = at(j)
    BY <2>1 DEF Distinct
  <2> QED
    BY <1>0, <2>2
<1>6. ASSUME NEW i \in 1 .. m
      PROVE  u[i] \in FreePages(list) \ Run(list[k], n)
  <2> DEFINE j == IF i < k THEN i ELSE i + n
  <2>1. j \in 1 .. Len(list) /\ u[i] = list[j]
    BY <1>1, <1>4
  <2>2. j \notin k .. k + n - 1
    BY <1>1
  <2>3. ASSUME list[j] \in Run(list[k], n) PROVE FALSE
    <3>0. list[j] \in Int /\ list[j] \in list[k] .. list[k] + n - 1
      BY <1>1, <2>1, <2>3 DEF Run
    <3>1. list[j] - list[k] \in 0 .. n - 1
      BY <1>0, <3>0
    <3>2. list[k + (list[j] - list[k])] = list[k] + (list[j] - list[k])
      BY <1>1, <3>1
    <3>3. k + (list[j] - list[k]) \in 1 .. Len(list)
      BY <1>1, <3>1
    <3>5. list[j] \in Int
      BY <1>1, <2>1
    <3>6. list[k] + (list[j] - list[k]) = list[j]
      BY <1>0, <3>5
    <3>4. k + (list[j] - list[k]) = j
      BY <2>1, <3>2, <3>3, <3>6 DEF Distinct
    <3> QED
      BY <1>1, <2>1, <2>2, <3>1, <3>4
  <2> QED
    BY <2>1, <2>3 DEF FreePages
<1>7. ASSUME NEW p \in FreePages(list), p \notin Run(list[k], n)
      PROVE  p \in FreePages(u)
  <2>1. PICK j \in 1 .. Len(list) : p = list[j]
    BY DEF FreePages
  <2>2. j \notin k .. k + n - 1
    <3> SUFFICES ASSUME j \in k .. k + n - 1 PROVE FALSE
      OBVIOUS
    <3>1. j - k \in 0 .. n - 1
      BY <1>1
    <3>2. list[k + (j - k)] = list[k] + (j - k)
      BY <1>1, <3>1
    <3>3. k + (j - k) = j
      BY <1>1
    <3>4. p = list[k] + (j - k)
      BY <2>1, <3>2, <3>3
    <3>5. p \in list[k] .. list[k] + n - 1
      BY <1>0, <3>1, <3>4
    <3> QED
      BY <1>7, <3>5 DEF Run
  <2> DEFINE i == IF j < k THEN j ELSE j - n
  <2>3. i \in 1 .. m /\ u[i] = p
    BY <1>1, <1>4, <2>1, <2>2
  <2> QED
    BY <1>4, <2>3 DEF FreePages
<1>8. FreePages(u) = FreePages(list) \ Run(list[k], n)
  BY <1>4, <1>6, <1>7 DEF FreePages
<1> QED
  BY <1>2, <1>3, <1>4, <1>5, <1>8

(* merge-sort keeps the pages of the list, none twice: a sequence as long  *)
(* as a list without repetitions, with the same elements, has none either. *)
LEMMA SortKeepsPages ==
  ASSUME NEW list \in Seq(Page), Distinct(list),
         NEW sorted \in SortsOf(list)
  PROVE  /\ sorted \in Seq(Page)
         /\ Distinct(sorted)
         /\ FreePages(sorted) = FreePages(list)
<1> DEFINE D == 1 .. Len(list)
           F == FreePages(list)
<1>1. /\ Len(list) \in Nat
      /\ list \in [D -> F]
      /\ \A t \in F : \E i \in D : list[i] = t
      /\ \A i, j \in D : list[i] = list[j] => i = j
      /\ F \subseteq Page
  BY DEF FreePages, Distinct
<1>2. /\ sorted \in [D -> F]
      /\ FreePages(sorted) = F
  BY DEF SortsOf
<1>3. /\ sorted \in Seq(Page)
      /\ Len(sorted) = Len(list)
  BY <1>1, <1>2
<1>4. \A t \in F : \E i \in D : sorted[i] = t
  BY <1>2, <1>3 DEF FreePages
<1>5. IsFiniteSet(D)
  <2>1. 1 \in Int /\ Len(list) \in Int
    BY <1>1
  <2> QED
    BY <2>1, FS_Interval
<1>6. list \in Bijection(D, F)
  BY <1>1 DEF Bijection, Injection, Surjection, IsInjective
<1>7. Cardinality(F) = Cardinality(D)
  BY <1>5, <1>6, FS_Bijection DEF ExistsBijection
<1>8. sorted \in Surjection(D, F)
  BY <1>2, <1>4 DEF Surjection
<1>9. sorted \in Injection(D, F)
  BY <1>5, <1>7, <1>8, FS_SurjSameCardinalityImpliesInj
<1>10. Distinct(sorted)
  BY <1>3, <1>9 DEF Injection, IsInjective, Distinct
<1> QED
  BY <1>2, <1>3, <1>10
-----------------------------------------------------------------------------
(* Clients own finitely many pages, at most MaxPages.                      *)
LEMMA PagesFinite ==
  ASSUME NEW S \in SUBSET Page
  PROVE  IsFiniteSet(S) /\ Cardinality(S) \in 0 .. MaxPages
<1>1. Reserved \in Int /\ MaxPages - 1 \in Int
  BY PageAssumption
<1>2. /\ IsFiniteSet(Page)
      /\ Cardinality(Page) = IF Reserved > MaxPages - 1 THEN 0
                             ELSE MaxPages - 1 - Reserved + 1
  BY <1>1, FS_Interval DEF Page
<1>3. Cardinality(Page) <= MaxPages
  BY <1>2, PageAssumption
<1>4. IsFiniteSet(S) /\ Cardinality(S) <= Cardinality(Page)
  BY <1>2, FS_Subset
<1>5. Cardinality(S) \in Nat /\ Cardinality(Page) \in Nat
  BY <1>2, <1>4, FS_CardinalityType
<1> QED
  BY <1>3, <1>4, <1>5, PageAssumption

(* Lending n adjacent pages nobody owns makes n more pages owned.          *)
LEMMA LendCardinality ==
  ASSUME NEW S \in SUBSET Page, NEW first \in Int, NEW n \in Nat,
         Run(first, n) \cap S = {}
  PROVE  Cardinality(S \cup Run(first, n)) = Cardinality(S) + n
<1>1. /\ IsFiniteSet(Run(first, n))
      /\ Cardinality(Run(first, n)) = n
  <2>1. first + n - 1 \in Int
    OBVIOUS
  <2> QED
    BY <2>1, FS_Interval DEF Run
<1>2. Cardinality(S \cup Run(first, n)) =
        Cardinality(S) + n - Cardinality(S \cap Run(first, n))
  BY <1>1, PagesFinite, FS_Union
<1>3. Cardinality(S \cap Run(first, n)) = 0
  BY FS_EmptySet
<1> QED
  BY <1>2, <1>3, PagesFinite

(* The invariant: the four parts are inductive together.  The assertion    *)
(* needs nothing but the run found; that no page is lost or lent twice     *)
(* needs the free list to be free of repetitions; the counter needs the    *)
(* pages lent to be new ones.                                              *)
IndInv == TypeOK /\ PagesAccounted /\ ActiveMatchesHeld /\ NeverTraps

(* Growing keeps the invariant, whichever arrangement of its pages the     *)
(* free list is left in.                                                   *)
LEMMA GrowRunStep ==
  ASSUME IndInv, status = "running",
         NEW n \in 1 .. MaxPages,
         NEW list \in Seq(Page), Distinct(list),
         FreePages(list) = FreePages(freeList),
         GrowRun(list, n)
  PROVE  IndInv'
<1> USE PageAssumption
<1>1. /\ held \in SUBSET Page
      /\ memPages \in Reserved .. MaxPages
      /\ activePages = Cardinality(held)
      /\ FreePages(list) \cap held = {}
      /\ FreePages(list) \cup held = Run(Reserved, memPages - Reserved)
  BY DEF IndInv, TypeOK, PagesAccounted, ActiveMatchesHeld
<1>2. /\ freeList' = list
      /\ activePages' = activePages + n
  BY DEF GrowRun
<1>3. Run(memPages, n) \cap Run(Reserved, memPages - Reserved) = {}
  BY <1>1 DEF Run
<1>4. /\ Cardinality(held) \in 0 .. MaxPages
      /\ Cardinality(held \cup Run(memPages, n)) = Cardinality(held) + n
  <2>1. Run(memPages, n) \cap held = {}
    BY <1>1, <1>3
  <2>2. memPages \in Int /\ n \in Nat
    BY <1>1
  <2> QED
    BY <1>1, <2>1, <2>2, LendCardinality, PagesFinite
<1>5. activePages' \in 0 .. MaxPages + MaxPages
  BY <1>1, <1>2, <1>4
<1>6. CASE memPages + n <= MaxPages
  <2>1. /\ memPages' = memPages + n
        /\ held' = held \cup Run(memPages, n)
        /\ status' = "running"
    BY <1>1, <1>6 DEF GrowRun, Grow
  <2>2. Run(memPages, n) \subseteq Page
    BY <1>1, <1>6 DEF Run, Page
  <2>3. Run(Reserved, memPages' - Reserved) =
          Run(Reserved, memPages - Reserved) \cup Run(memPages, n)
    BY <1>1, <2>1 DEF Run
  <2>4. TypeOK'
    BY <1>1, <1>2, <1>5, <1>6, <2>1, <2>2 DEF TypeOK
  <2>5. PagesAccounted'
    BY <1>1, <1>2, <1>3, <2>1, <2>3 DEF PagesAccounted
  <2>6. ActiveMatchesHeld'
    BY <1>1, <1>2, <1>4, <2>1 DEF ActiveMatchesHeld
  <2> QED
    BY <2>1, <2>4, <2>5, <2>6 DEF IndInv, NeverTraps
<1>7. CASE memPages + n > MaxPages
  <2>1. /\ memPages' = MaxPages
        /\ held' = held
        /\ status' = "exited"
    BY <1>1, <1>7 DEF GrowRun, Grow
  <2>2. Run(Reserved, memPages - Reserved)
          \subseteq Run(Reserved, memPages' - Reserved)
    BY <1>1, <2>1 DEF Run
  <2>3. TypeOK'
    BY <1>1, <1>2, <1>5, <2>1 DEF TypeOK
  <2>4. PagesAccounted'
    BY <1>1, <1>2, <2>1, <2>2 DEF PagesAccounted
  <2> QED
    BY <2>1, <2>3, <2>4 DEF IndInv, ActiveMatchesHeld, NeverTraps
<1> QED
  BY <1>1, <1>6, <1>7

(* So does lending a run found on the list.                                *)
LEMMA TakeRunStep ==
  ASSUME IndInv, status = "running",
         NEW n \in 1 .. MaxPages,
         NEW list \in Seq(Page), Distinct(list),
         FreePages(list) = FreePages(freeList),
         NEW k \in RunsAt(list, n),
         TakeRun(list, k, n)
  PROVE  IndInv'
<1> USE PageAssumption
<1>1. /\ held \in SUBSET Page
      /\ memPages \in Reserved .. MaxPages
      /\ activePages = Cardinality(held)
      /\ FreePages(list) \cap held = {}
      /\ FreePages(list) \cup held = Run(Reserved, memPages - Reserved)
  BY DEF IndInv, TypeOK, PagesAccounted, ActiveMatchesHeld
<1>2. n \in Nat \ {0}
  OBVIOUS
<1>3. /\ Run(list[k], n) \subseteq FreePages(list)
      /\ UnlinkAsserts(list, k, n)
      /\ Unlink(list, k, n) \in Seq(Page)
      /\ Distinct(Unlink(list, k, n))
      /\ FreePages(Unlink(list, k, n)) = FreePages(list) \ Run(list[k], n)
  BY <1>2, UnlinkRun
<1>4. /\ freeList' = Unlink(list, k, n)
      /\ held' = held \cup Run(list[k], n)
      /\ activePages' = activePages + n
      /\ memPages' = memPages
      /\ status' = "running"
  BY <1>3 DEF TakeRun
<1>5. /\ Cardinality(held) \in 0 .. MaxPages
      /\ Cardinality(held') = Cardinality(held) + n
  <2>1. list[k] \in Int
    <3>1. k \in 1 .. Len(list)
      BY <1>2 DEF RunsAt
    <3> QED
      BY <3>1 DEF Page
  <2>2. Run(list[k], n) \cap held = {}
    BY <1>1, <1>3
  <2> QED
    BY <1>1, <1>2, <1>4, <2>1, <2>2, LendCardinality, PagesFinite
<1>6. Run(list[k], n) \subseteq Page
  BY <1>3 DEF FreePages
<1>7. TypeOK'
  BY <1>1, <1>3, <1>4, <1>5, <1>6 DEF TypeOK
<1>8. PagesAccounted'
  BY <1>1, <1>3, <1>4 DEF PagesAccounted
<1>9. ActiveMatchesHeld'
  BY <1>1, <1>4, <1>5 DEF ActiveMatchesHeld
<1> QED
  BY <1>4, <1>7, <1>8, <1>9 DEF IndInv, NeverTraps

(* contiguous-pages takes a run of the free list as it is or as sorted, or *)
(* grows memory with the list in either order; both lists hold the same    *)
(* pages.                                                                  *)
LEMMA ContiguousPagesCases ==
  ASSUME NEW n \in 1 .. MaxPages, freeList \in Seq(Page), Distinct(freeList),
         ContiguousPages(n)
  PROVE  \E list \in Seq(Page) :
           /\ Distinct(list)
           /\ FreePages(list) = FreePages(freeList)
           /\ \/ \E k \in RunsAt(list, n) : TakeRun(list, k, n)
              \/ GrowRun(list, n)
<1>1. ASSUME NEW list, TakeOrGrow(list, n)
      PROVE  \/ \E k \in RunsAt(list, n) : TakeRun(list, k, n)
             \/ GrowRun(list, n)
  BY <1>1 DEF TakeOrGrow, SearchForContiguous
<1>2. CASE TakeOrGrow(freeList, n)
  BY <1>1, <1>2
<1>3. CASE \E sorted \in SortsOf(freeList) : TakeOrGrow(sorted, n)
  <2>1. PICK sorted \in SortsOf(freeList) : TakeOrGrow(sorted, n)
    BY <1>3
  <2> QED
    BY <1>1, <2>1, SortKeepsPages
<1> QED
  BY <1>2, <1>3 DEF ContiguousPages

(* Taking the head off a list takes that page off, and nothing else.       *)
LEMMA TailPages ==
  ASSUME NEW list \in Seq(Page), Distinct(list), list # << >>
  PROVE  /\ Tail(list) \in Seq(Page)
         /\ Distinct(Tail(list))
         /\ Head(list) \in FreePages(list)
         /\ FreePages(Tail(list)) = FreePages(list) \ {Head(list)}
<1> DEFINE t == Tail(list)
<1>1. /\ Len(list) \in Nat \ {0}
      /\ Head(list) = list[1]
      /\ t \in Seq(Page)
      /\ Len(t) = Len(list) - 1
      /\ \A i \in 1 .. Len(list) - 1 : t[i] = list[i + 1]
  OBVIOUS
<1> HIDE DEF t
<1>2. Distinct(t)
  BY <1>1 DEF Distinct
<1>3. Head(list) \in FreePages(list)
  <2>1. 1 \in 1 .. Len(list)
    BY <1>1
  <2> QED
    BY <1>1, <2>1 DEF FreePages
<1>4. ASSUME NEW j \in 1 .. Len(t)
      PROVE  t[j] \in FreePages(list) \ {list[1]}
  <2>1. j + 1 \in 1 .. Len(list) /\ 1 \in 1 .. Len(list) /\ j + 1 # 1
    BY <1>1
  <2>2. t[j] = list[j + 1]
    BY <1>1
  <2>3. list[j + 1] # list[1]
    BY <2>1 DEF Distinct
  <2> QED
    BY <2>1, <2>2, <2>3 DEF FreePages
<1>5. ASSUME NEW i \in 1 .. Len(list), list[i] # list[1]
      PROVE  list[i] \in FreePages(t)
  <2>1. i - 1 \in 1 .. Len(t) /\ i - 1 + 1 = i
    BY <1>1, <1>5
  <2>2. t[i - 1] = list[i]
    BY <1>1, <2>1
  <2> QED
    BY <2>1, <2>2 DEF FreePages
<1>6. FreePages(t) = FreePages(list) \ {list[1]}
  <2>1. FreePages(t) \subseteq FreePages(list) \ {list[1]}
    BY <1>4 DEF FreePages
  <2>2. FreePages(list) \ {list[1]} \subseteq FreePages(t)
    <3> SUFFICES ASSUME NEW p \in FreePages(list), p # list[1]
                 PROVE  p \in FreePages(t)
      OBVIOUS
    <3>1. PICK i \in 1 .. Len(list) : p = list[i]
      BY DEF FreePages
    <3> QED
      BY <1>5, <3>1
  <2> QED
    BY <2>1, <2>2
<1> QED
  BY <1>1, <1>2, <1>3, <1>6 DEF t

(* Every reachable state satisfies the four parts together.                *)
THEOREM Invariance == Spec => []IndInv
<1> USE PageAssumption
<1>1. Init => IndInv
  <2> SUFFICES ASSUME Init PROVE IndInv
    OBVIOUS
  <2>1. FreePages(freeList) = {} /\ Run(Reserved, memPages - Reserved) = {}
    BY DEF Init, FreePages, Run
  <2>2. TypeOK
    BY DEF Init, TypeOK
  <2>3. PagesAccounted
    BY <2>1 DEF Init, PagesAccounted, Distinct
  <2>4. ActiveMatchesHeld
    BY FS_EmptySet DEF Init, ActiveMatchesHeld
  <2> QED
    BY <2>2, <2>3, <2>4 DEF IndInv, Init, NeverTraps
<1>2. IndInv /\ [Next]_vars => IndInv'
  <2> SUFFICES ASSUME IndInv, [Next]_vars PROVE IndInv'
    OBVIOUS
  <2>1. /\ freeList \in Seq(Page) /\ Distinct(freeList)
        /\ held \in SUBSET Page
        /\ memPages \in Reserved .. MaxPages
        /\ activePages \in 0 .. MaxPages + MaxPages
        /\ FreePages(freeList) \cap held = {}
        /\ IsFiniteSet(held)
    BY PagesFinite DEF IndInv, TypeOK, PagesAccounted
  <2>2. CASE AllocFreePage
    <3>1. /\ Tail(freeList) \in Seq(Page)
          /\ Distinct(Tail(freeList))
          /\ Head(freeList) \in FreePages(freeList)
          /\ FreePages(Tail(freeList)) = FreePages(freeList) \ {Head(freeList)}
      BY <2>1, <2>2, TailPages DEF AllocFreePage
    <3>2. /\ freeList' = Tail(freeList)
          /\ held' = held \cup {Head(freeList)}
          /\ activePages' = activePages + 1
          /\ memPages' = memPages
          /\ status' = status /\ status = "running"
      BY <2>2 DEF AllocFreePage
    <3>3. Head(freeList) \in Page /\ Head(freeList) \notin held
      BY <2>1, <3>1 DEF FreePages
    <3>4. ActiveMatchesHeld'
      BY <2>1, <3>2, <3>3, FS_AddElement DEF IndInv, ActiveMatchesHeld
    <3>5. activePages' \in 0 .. MaxPages + MaxPages
      <4>1. held' \subseteq Page
        BY <2>1, <3>2, <3>3
      <4>2. Cardinality(held') \in 0 .. MaxPages
        BY <4>1, PagesFinite
      <4> QED
        BY <3>2, <3>4, <4>2 DEF ActiveMatchesHeld
    <3>6. TypeOK'
      BY <2>1, <3>1, <3>2, <3>3, <3>5 DEF TypeOK
    <3>7. PagesAccounted'
      BY <2>1, <3>1, <3>2 DEF IndInv, PagesAccounted
    <3> QED
      BY <3>2, <3>4, <3>6, <3>7 DEF IndInv, NeverTraps
  <2>3. CASE AllocNewPage
    <3>1. CASE status' = "running"
      <4>1. GrowRun(freeList, 1) /\ status = "running"
        BY <2>3, <3>1 DEF AllocNewPage, GrowRun
      <4>2. 1 \in 1 .. MaxPages
        BY <2>1, <2>3, <3>1 DEF AllocNewPage, Grow
      <4> QED
        BY <2>1, <4>1, <4>2, GrowRunStep
    <3>2. CASE status' # "running"
      <4>1. /\ freeList' = freeList /\ held' = held
            /\ activePages' = activePages
            /\ memPages' = MaxPages /\ status' = "exited"
            /\ status = "running"
        BY <2>3, <3>2 DEF AllocNewPage, Grow
      <4>2. TypeOK'
        BY <2>1, <4>1 DEF TypeOK
      <4>3. Run(Reserved, memPages - Reserved)
              \subseteq Run(Reserved, memPages' - Reserved)
        BY <2>1, <4>1 DEF Run
      <4>4. PagesAccounted'
        BY <2>1, <4>1, <4>3 DEF IndInv, PagesAccounted
      <4> QED
        BY <4>1, <4>2, <4>4 DEF IndInv, ActiveMatchesHeld, NeverTraps
    <3> QED
      BY <3>1, <3>2
  <2>4. ASSUME NEW n \in 1 .. MaxPages, ContiguousPages(n)
        PROVE  IndInv'
    <3>1. PICK list \in Seq(Page) :
            /\ Distinct(list)
            /\ FreePages(list) = FreePages(freeList)
            /\ \/ \E k \in RunsAt(list, n) : TakeRun(list, k, n)
               \/ GrowRun(list, n)
      BY <2>1, <2>4, ContiguousPagesCases
    <3>2. status = "running"
      BY <2>4 DEF ContiguousPages
    <3> QED
      BY <3>1, <3>2, TakeRunStep, GrowRunStep
  <2>5. ASSUME NEW p \in held, DiscardPage(p)
        PROVE  IndInv'
    <3>1. /\ freeList' = <<p>> \o freeList
          /\ held' = held \ {p}
          /\ activePages' = activePages - 1
          /\ memPages' = memPages
          /\ status' = status /\ status = "running"
      BY <2>5 DEF DiscardPage
    <3>2. /\ freeList' \in Seq(Page)
          /\ Len(freeList') = Len(freeList) + 1
          /\ freeList'[1] = p
          /\ \A i \in 1 .. Len(freeList) : freeList'[i + 1] = freeList[i]
      BY <2>1, <3>1
    <3>3. \A i \in 1 .. Len(freeList') :
            i = 1 \/ (i - 1 \in 1 .. Len(freeList) /\ i - 1 + 1 = i)
      BY <2>1, <3>2
    <3>4. \A i \in 1 .. Len(freeList) : freeList[i] # p
      BY <2>1 DEF FreePages
    <3>5. \A i \in 1 .. Len(freeList') :
            i # 1 => freeList'[i] = freeList[i - 1]
      BY <3>2, <3>3
    <3>6. Distinct(freeList')
      <4> SUFFICES ASSUME NEW i \in 1 .. Len(freeList'),
                          NEW j \in 1 .. Len(freeList'),
                          freeList'[i] = freeList'[j]
                   PROVE  i = j
        BY DEF Distinct
      <4>1. CASE i = 1 \/ j = 1
        BY <3>2, <3>3, <3>4, <3>5, <4>1
      <4>2. CASE i # 1 /\ j # 1
        <5>1. i - 1 = j - 1
          BY <2>1, <3>3, <3>5, <4>2 DEF Distinct
        <5> QED
          BY <3>2, <5>1
      <4> QED
        BY <4>1, <4>2
    <3>7. FreePages(freeList') = FreePages(freeList) \cup {p}
      <4>1. \A i \in 1 .. Len(freeList') :
              freeList'[i] \in FreePages(freeList) \cup {p}
        BY <3>2, <3>3, <3>5 DEF FreePages
      <4>2. \A i \in 1 .. Len(freeList) : freeList[i] \in FreePages(freeList')
        <5> SUFFICES ASSUME NEW i \in 1 .. Len(freeList)
                     PROVE  freeList[i] \in FreePages(freeList')
          OBVIOUS
        <5>1. i + 1 \in 1 .. Len(freeList')
          BY <2>1, <3>2
        <5> QED
          BY <3>2, <5>1 DEF FreePages
      <4>3. p \in FreePages(freeList')
        <5>1. 1 \in 1 .. Len(freeList')
          BY <2>1, <3>2
        <5> QED
          BY <3>2, <5>1 DEF FreePages
      <4> QED
        BY <4>1, <4>2, <4>3 DEF FreePages
    <3>8. ActiveMatchesHeld'
      BY <2>1, <3>1, FS_RemoveElement, FS_CardinalityType
         DEF IndInv, ActiveMatchesHeld
    <3>9. activePages' \in 0 .. MaxPages + MaxPages
      <4>1. held' \subseteq Page
        BY <2>1, <3>1
      <4>2. Cardinality(held') \in 0 .. MaxPages
        BY <4>1, PagesFinite
      <4> QED
        BY <3>1, <3>8, <4>2 DEF ActiveMatchesHeld
    <3>10. TypeOK'
      BY <2>1, <3>1, <3>2, <3>9 DEF TypeOK
    <3>11. PagesAccounted'
      BY <2>1, <3>1, <3>6, <3>7 DEF IndInv, PagesAccounted
    <3> QED
      BY <3>1, <3>8, <3>10, <3>11 DEF IndInv, NeverTraps
  <2>6. CASE UNCHANGED vars
    BY <2>6 DEF vars, IndInv, TypeOK, PagesAccounted, ActiveMatchesHeld,
                NeverTraps
  <2> QED
    BY <2>2, <2>3, <2>4, <2>5, <2>6 DEF Next
<1> QED
  BY <1>1, <1>2, PTL DEF Spec

(* Every state is well typed.                                              *)
THEOREM WellTyped == Spec => []TypeOK
<1>1. IndInv => TypeOK
  BY DEF IndInv
<1> QED
  BY <1>1, Invariance, PTL

(* No page of memory is ever lost, on the free list twice, or lent while   *)
(* it is free or lent already.                                             *)
THEOREM NoPageLost == Spec => []PagesAccounted
<1>1. IndInv => PagesAccounted
  BY DEF IndInv
<1> QED
  BY <1>1, Invariance, PTL

(* ACTIVE_PAGES is exact while the program runs.                           *)
THEOREM CountExact == Spec => []ActiveMatchesHeld
<1>1. IndInv => ActiveMatchesHeld
  BY DEF IndInv
<1> QED
  BY <1>1, Invariance, PTL

(* The assertion of contiguous-pages never fires.                          *)
THEOREM AssertionHolds == Spec => []NeverTraps
<1>1. IndInv => NeverTraps
  BY DEF IndInv
<1> QED
  BY <1>1, Invariance, PTL

-----------------------------------------------------------------------------
(* The allocator implements the page pool: a step that hands pages out     *)
(* lends a run nobody owned, a step that takes one back returns one, and a *)
(* failing grow lends nothing.                                             *)
THEOREM ImplementsPagePool == Spec => PoolSpec
<1> USE PageAssumption
<1>1. Init => Pool!PoolInit
  BY DEF Init, Pool!PoolInit
<1>2. IndInv /\ [Next]_vars => [Pool!PoolNext]_(Pool!poolVars)
  <2> SUFFICES ASSUME IndInv, [Next]_vars
               PROVE  Pool!PoolNext \/ UNCHANGED Pool!poolVars
    OBVIOUS
  <2>1. /\ freeList \in Seq(Page) /\ Distinct(freeList)
        /\ memPages \in Reserved .. MaxPages
        /\ FreePages(freeList) \cap held = {}
        /\ FreePages(freeList) \cup held
             \subseteq Run(Reserved, memPages - Reserved)
    BY DEF IndInv, TypeOK, PagesAccounted
  <2>2. ASSUME NEW first \in Int, NEW n \in 1 .. MaxPages,
               memPages' \in memPages .. MaxPages,
               Run(first, n) \subseteq Reserved .. memPages' - 1,
               Run(first, n) \cap held = {},
               held' = held \cup Run(first, n)
        PROVE  Pool!PoolNext
    <3>1. first \in Run(first, n)
      BY DEF Run
    <3>2. first \in Pool!Pages
      BY <2>1, <2>2, <3>1 DEF Pool!Pages
    <3>3. Run(first, n) = Pool!Run(first, n)
      BY DEF Run, Pool!Run
    <3> QED
      BY <2>2, <3>2, <3>3 DEF Pool!PoolNext, Pool!Lend, Pool!LendRun
  <2>3. ASSUME NEW n \in 1 .. MaxPages, Grow(n)
        PROVE  Pool!PoolNext
    <3>1. CASE memPages + n <= MaxPages
      <4>1. /\ memPages' = memPages + n
            /\ held' = held \cup Run(memPages, n)
        BY <2>1, <2>3, <3>1 DEF Grow
      <4>2. /\ Run(memPages, n) \subseteq Reserved .. memPages' - 1
            /\ Run(memPages, n) \cap held = {}
        BY <2>1, <4>1 DEF Run
      <4>3. memPages \in Int /\ memPages' \in memPages .. MaxPages
        BY <2>1, <3>1, <4>1
      <4> QED
        BY <2>2, <4>1, <4>2, <4>3
    <3>2. CASE memPages + n > MaxPages
      BY <2>1, <2>3, <3>2 DEF Grow, Pool!PoolNext, Pool!GrowAndFail
    <3> QED
      BY <2>1, <3>1, <3>2
  <2>4. CASE AllocFreePage
    <3>1. /\ Head(freeList) \in FreePages(freeList)
          /\ Head(freeList) \in Int
      <4>1. freeList # << >>
        BY <2>4 DEF AllocFreePage
      <4>2. Head(freeList) = freeList[1] /\ 1 \in 1 .. Len(freeList)
        BY <2>1, <4>1
      <4> QED
        BY <2>1, <4>2 DEF FreePages, Page
    <3>2. Run(Head(freeList), 1) = {Head(freeList)}
      BY <3>1 DEF Run
    <3>3. /\ held' = held \cup Run(Head(freeList), 1)
          /\ memPages' = memPages
      BY <2>4, <3>2 DEF AllocFreePage
    <3>4. /\ Run(Head(freeList), 1) \subseteq Reserved .. memPages' - 1
          /\ Run(Head(freeList), 1) \cap held = {}
      BY <2>1, <3>1, <3>2, <3>3 DEF Run
    <3>5. 1 \in 1 .. MaxPages /\ memPages' \in memPages .. MaxPages
      BY <2>1, <3>3
    <3> QED
      BY <2>2, <3>1, <3>3, <3>4, <3>5
  <2>5. CASE AllocNewPage
    <3>1. Grow(1)
      BY <2>5 DEF AllocNewPage
    <3>2. CASE 1 \in 1 .. MaxPages
      BY <2>3, <3>1, <3>2
    <3> QED
      BY <3>2
  <2>6. ASSUME NEW n \in 1 .. MaxPages, ContiguousPages(n)
        PROVE  Pool!PoolNext
    <3>1. PICK list \in Seq(Page) :
            /\ Distinct(list)
            /\ FreePages(list) = FreePages(freeList)
            /\ \/ \E k \in RunsAt(list, n) : TakeRun(list, k, n)
               \/ GrowRun(list, n)
      BY <2>1, <2>6, ContiguousPagesCases
    <3>2. CASE GrowRun(list, n)
      BY <2>3, <3>2 DEF GrowRun
    <3>3. ASSUME NEW k \in RunsAt(list, n), TakeRun(list, k, n)
          PROVE  Pool!PoolNext
      <4>1. Run(list[k], n) \subseteq FreePages(list)
        BY <3>1, UnlinkRun
      <4>2. list[k] \in Int
        <5>1. k \in 1 .. Len(list)
          BY DEF RunsAt
        <5> QED
          BY <5>1 DEF Page
      <4>3. /\ held' = held \cup Run(list[k], n)
            /\ memPages' = memPages
        BY <3>3 DEF TakeRun
      <4>4. /\ Run(list[k], n) \subseteq Reserved .. memPages' - 1
            /\ Run(list[k], n) \cap held = {}
        <5>1. Run(Reserved, memPages - Reserved) = Reserved .. memPages - 1
          BY <2>1 DEF Run
        <5> QED
          BY <2>1, <3>1, <4>1, <4>3, <5>1
      <4>5. memPages' \in memPages .. MaxPages
        BY <2>1, <4>3
      <4> QED
        BY <2>2, <4>2, <4>3, <4>4, <4>5
    <3> QED
      BY <3>1, <3>2, <3>3
  <2>7. ASSUME NEW p \in held, DiscardPage(p)
        PROVE  Pool!PoolNext
    BY <2>7 DEF DiscardPage, Pool!PoolNext, Pool!Return
  <2>8. CASE UNCHANGED vars
    BY <2>8 DEF vars, Pool!poolVars
  <2> QED
    BY <2>4, <2>5, <2>6, <2>7, <2>8 DEF Next
<1> QED
  BY <1>1, <1>2, Invariance, PTL DEF Spec, PoolSpec, Pool!PoolSpec

-----------------------------------------------------------------------------
(* is-free-list-ordered compares neighbours only; on a list without        *)
(* repetitions that makes the whole list strictly ascending.               *)
LEMMA OrderedAscends ==
  ASSUME NEW list \in Seq(Page), Distinct(list), IsFreeListOrdered(list),
         NEW a \in 1 .. Len(list), NEW b \in 1 .. Len(list), a < b
  PROVE  list[a] < list[b]
<1>1. \A i \in 1 .. Len(list) : list[i] \in Int
  BY PageAssumption DEF Page
<1> DEFINE Bad == {j \in a + 1 .. Len(list) : list[j] <= list[a]}
<1>2. SUFFICES ASSUME Bad # {} PROVE FALSE
  <2>1. b \in a + 1 .. Len(list)
    OBVIOUS
  <2> QED
    BY <1>1, <2>1
<1>3. PICK j \in Bad : \A i \in Bad : j <= i
  <2>1. Bad \in SUBSET Nat
    OBVIOUS
  <2> HIDE DEF Bad
  <2> QED
    BY <1>2, <2>1, LeastElement
<1>4. /\ j \in a + 1 .. Len(list) /\ list[j] <= list[a]
      /\ j - 1 \in 1 .. Len(list) - 1 /\ j - 1 + 1 = j
      /\ j \in 1 .. Len(list) /\ j - 1 \in 1 .. Len(list)
  BY <1>3
<1>5. list[j - 1] <= list[j] /\ list[j - 1] # list[j]
  <2>1. list[j - 1] <= list[j]
    BY <1>4 DEF IsFreeListOrdered
  <2> QED
    BY <1>4, <2>1 DEF Distinct
<1>6. CASE j - 1 = a
  BY <1>1, <1>4, <1>5, <1>6
<1>7. CASE j - 1 # a
  <2>1. j - 1 \notin Bad
    BY <1>3, <1>4
  <2>2. list[a] < list[j - 1]
    BY <1>1, <1>4, <1>7, <2>1
  <2> QED
    BY <1>1, <1>4, <1>5, <2>2
<1> QED
  BY <1>6, <1>7

(* In an ordered list pages that are adjacent in memory are neighbours, so *)
(* the search is complete: it misses no run that the free pages contain.   *)
LEMMA OrderedSearchComplete ==
  ASSUME NEW list \in Seq(Page), Distinct(list), IsFreeListOrdered(list),
         NEW n \in Nat \ {0}, NEW first \in Int,
         Run(first, n) \subseteq FreePages(list)
  PROVE  RunsAt(list, n) # {}
<1>1. /\ Len(list) \in Nat
      /\ \A i \in 1 .. Len(list) : list[i] \in Int
  BY PageAssumption DEF Page
<1>2. \A i \in 0 .. n - 1 : \E j \in 1 .. Len(list) : list[j] = first + i
  <2> SUFFICES ASSUME NEW i \in 0 .. n - 1
               PROVE  \E j \in 1 .. Len(list) : list[j] = first + i
    OBVIOUS
  <2>1. first + i \in Run(first, n)
    BY DEF Run
  <2> QED
    BY <2>1 DEF FreePages
<1>3. PICK k \in 1 .. Len(list) : list[k] = first
  <2>1. 0 \in 0 .. n - 1 /\ first + 0 = first
    OBVIOUS
  <2> QED
    BY <1>2, <2>1
<1> DEFINE InPlace(i) == k + i <= Len(list) /\ list[k + i] = first + i
           Bad == {i \in 0 .. n - 1 : ~InPlace(i)}
<1>4. ASSUME Bad # {} PROVE FALSE
  <2>1. PICK i \in Bad : \A h \in Bad : i <= h
    <3>1. Bad \in SUBSET Nat
      OBVIOUS
    <3> HIDE DEF Bad
    <3> QED
      BY <1>4, <3>1, LeastElement
  <2>2. i \in 1 .. n - 1
    <3>1. InPlace(0)
      BY <1>3
    <3> QED
      BY <2>1, <3>1
  <2>3. InPlace(i - 1)
    <3>1. i - 1 \in 0 .. n - 1 /\ ~(i <= i - 1)
      BY <2>2
    <3>2. i - 1 \notin Bad
      BY <2>1, <3>1
    <3> HIDE DEF InPlace
    <3> QED
      BY <3>1, <3>2
  <2>4. PICK j \in 1 .. Len(list) : list[j] = first + i
    BY <1>2, <2>2
  <2> DEFINE p == k + (i - 1)
  <2>5. p \in 1 .. Len(list) /\ list[p] = first + (i - 1) /\ k + i = p + 1
    BY <2>2, <2>3
  <2> HIDE DEF p
  <2>6. p < j
    <3>1. CASE j = p
      BY <2>2, <2>4, <2>5, <3>1
    <3>2. CASE j < p
      <4>1. list[j] < list[p]
        BY <2>5, <3>2, OrderedAscends
      <4> QED
        BY <2>2, <2>4, <2>5, <4>1
    <3> QED
      BY <2>5, <3>1, <3>2
  <2>7. p + 1 \in 1 .. Len(list)
    BY <1>1, <2>5, <2>6
  <2>8. list[p] < list[p + 1]
    BY <2>5, <2>7, OrderedAscends
  <2>9. list[p + 1] <= list[j]
    <3>1. CASE j = p + 1
      BY <1>1, <3>1
    <3>2. CASE p + 1 < j
      BY <1>1, <2>7, <3>2, OrderedAscends
    <3> QED
      BY <2>5, <2>6, <3>1, <3>2
  <2>10. list[p + 1] = first + i
    BY <1>1, <2>2, <2>4, <2>5, <2>7, <2>8, <2>9
  <2>11. InPlace(i)
    BY <2>5, <2>7, <2>10
  <2> QED
    BY <2>1, <2>11
<1>5. \A i \in 0 .. n - 1 : InPlace(i)
  BY <1>4
<1>6. k \in 1 .. Len(list) - n + 1
  <2>1. InPlace(n - 1)
    <3>1. n - 1 \in 0 .. n - 1
      OBVIOUS
    <3> HIDE DEF InPlace
    <3> QED
      BY <1>5, <3>1
  <2> QED
    BY <1>1, <2>1
<1>7. k \in RunsAt(list, n)
  <2>1. \A i \in 0 .. n - 1 : list[k + i] = list[k] + i
    BY <1>3, <1>5
  <2> QED
    BY <1>6, <2>1 DEF RunsAt
<1> QED
  BY <1>7

(* The search answers null only if there is no run.                        *)
LEMMA SearchFindsRun ==
  ASSUME NEW list \in Seq(Page), NEW n \in Nat, RunsAt(list, n) # {}
  PROVE  SearchForContiguous(list, n) # {}
<1>1. RunsAt(list, n) \in SUBSET Nat
  BY DEF RunsAt
<1>2. PICK k \in RunsAt(list, n) : \A j \in RunsAt(list, n) : k <= j
  BY <1>1, LeastElement
<1> QED
  BY <1>2 DEF SearchForContiguous

(* Memory never grows, and no allocation fails, for a run of pages while   *)
(* one is free, however scattered over the free list it is.                *)
THEOREM GrowsOnlyForWant == Spec => GrowsOnlyWhenNeeded
<1> DEFINE Want(n) ==
      ContiguousPages(n) /\ (memPages' # memPages \/ status' = "exited") =>
        \A first \in Page : ~(Run(first, n) \subseteq FreePages(freeList))
<1>1. ASSUME IndInv, NEW n \in 1 .. MaxPages
      PROVE  Want(n)
  <2> SUFFICES ASSUME ContiguousPages(n),
                      memPages' # memPages \/ status' = "exited",
                      NEW first \in Page,
                      Run(first, n) \subseteq FreePages(freeList)
               PROVE  FALSE
    OBVIOUS
  <2>1. /\ freeList \in Seq(Page) /\ Distinct(freeList)
        /\ n \in Nat \ {0} /\ first \in Int
    BY <1>1, PageAssumption DEF IndInv, TypeOK, PagesAccounted, Page
  <2>2. ASSUME NEW list \in Seq(Page), Distinct(list),
               IsFreeListOrdered(list),
               FreePages(list) = FreePages(freeList)
        PROVE  SearchForContiguous(list, n) # {}
    <3>1. RunsAt(list, n) # {}
      BY <2>1, <2>2, OrderedSearchComplete
    <3> QED
      BY <2>1, <3>1, SearchFindsRun
  <2>3. ASSUME NEW list \in Seq(Page), Distinct(list),
               SearchForContiguous(list, n) # {}, TakeOrGrow(list, n)
        PROVE  FALSE
    <3>1. PICK k \in RunsAt(list, n) : TakeRun(list, k, n)
      BY <2>3 DEF TakeOrGrow, SearchForContiguous
    <3>2. UnlinkAsserts(list, k, n)
      BY <2>1, <2>3, UnlinkRun
    <3>3. status = "running"
      BY DEF ContiguousPages
    <3> QED
      BY <3>1, <3>2, <3>3 DEF TakeRun
  <2>4. CASE ~MustSort(freeList, n) /\ TakeOrGrow(freeList, n)
    <3>1. SearchForContiguous(freeList, n) # {}
      BY <2>1, <2>2, <2>4 DEF MustSort
    <3> QED
      BY <2>1, <2>3, <2>4, <3>1
  <2>5. CASE \E sorted \in SortsOf(freeList) : TakeOrGrow(sorted, n)
    <3>1. PICK sorted \in SortsOf(freeList) : TakeOrGrow(sorted, n)
      BY <2>5
    <3>2. /\ sorted \in Seq(Page) /\ Distinct(sorted)
          /\ FreePages(sorted) = FreePages(freeList)
      BY <2>1, SortKeepsPages
    <3>3. IsFreeListOrdered(sorted)
      BY DEF SortsOf
    <3>4. SearchForContiguous(sorted, n) # {}
      BY <2>2, <3>2, <3>3
    <3> QED
      BY <2>3, <3>1, <3>2, <3>4
  <2> QED
    BY <2>4, <2>5 DEF ContiguousPages
<1>2. IndInv => \A n \in 1 .. MaxPages : Want(n)
  BY <1>1
<1> QED
  BY <1>2, Invariance, PTL DEF GrowsOnlyWhenNeeded
=============================================================================
