----------------------------- MODULE PageAlloc -----------------------------
(***************************************************************************)
(* std/page-alloc.watim: the page allocator under every arena.             *)
(*                                                                         *)
(* Memory is a range of 64 KiB pages that can only grow.  Pages given back *)
(* are kept on an intrusive singly linked list, ALLOCATOR.free-list; the   *)
(* list is modelled as the sequence of the page numbers met when following *)
(* `next` from its head.  A page's address is its number times page-size,  *)
(* so address order is number order (the compiler emits unsigned compares) *)
(* and `page + page-size` is the next number; the page at the very top of  *)
(* the address space, behind which comes the null pointer, is left out.    *)
(*                                                                         *)
(* `held` is not in the code: it is the set of pages clients own.          *)
(***************************************************************************)
EXTENDS Integers, Sequences, FiniteSets

CONSTANTS
  Reserved,  (* pages of static data and stack, never handed out           *)
  MaxPages   (* limit on the memory's pages, 65536 in the generated module *)

ASSUME PageAssumption ==
  /\ Reserved \in Nat \ {0}
  /\ MaxPages \in Nat
  /\ Reserved <= MaxPages

VARIABLES
  freeList,     (* ALLOCATOR.free-list, head first                         *)
  activePages,  (* ACTIVE_PAGES                                            *)
  memPages,     (* what `0 mem-grow` answers                               *)
  held,         (* ghost: pages owned by clients                           *)
  status        (* "running", "exited" (CORE:exit) or "trapped" (0 0 /)    *)

vars == <<freeList, activePages, memPages, held, status>>

Page == Reserved .. MaxPages - 1

FreePages(list) == {list[i] : i \in 1 .. Len(list)}
Run(first, n) == first .. first + n - 1

(* No page is on the list twice.                                           *)
Distinct(list) ==
  \A i, j \in 1 .. Len(list) : list[i] = list[j] => i = j

-----------------------------------------------------------------------------
(* The algorithms on the free list.                                        *)

(* is-free-list-ordered: no page is followed by one at a lower address.    *)
IsFreeListOrdered(list) ==
  \A i \in 1 .. Len(list) - 1 : list[i] <= list[i + 1]

(* merge-sort: the same pages, as many of them, in ascending order.        *)
SortsOf(list) ==
  {s \in [1 .. Len(list) -> FreePages(list)] :
     /\ IsFreeListOrdered(s)
     /\ FreePages(s) = FreePages(list)}

(* Positions at which n pages follow each other in the list and in memory. *)
RunsAt(list, n) ==
  {k \in 1 .. Len(list) - n + 1 :
     \A i \in 0 .. n - 1 : list[k + i] = list[k] + i}

(* search-free-list-for-contiguous: where the first run met from the head  *)
(* starts.  The set has one element, or none where the code answers null.  *)
SearchForContiguous(list, n) ==
  {k \in RunsAt(list, n) : \A j \in RunsAt(list, n) : k <= j}

(* A slip: the loop stops one node early.                                  *)
UnlinkOneLess(list, k, n) ==
  [i \in 1 .. Len(list) - n + 1 |->
     IF i < k THEN list[i] ELSE list[i + n - 1]]

(* The unlinking loops of contiguous-pages: n nodes from position k leave  *)
(* the list.                                                               *)
Unlink(list, k, n) ==
  [i \in 1 .. Len(list) - n |-> IF i < k THEN list[i] ELSE list[i + n]]

(* The assertion in those loops: each node unlinked is adjacent in memory  *)
(* to the next one.                                                        *)
UnlinkAsserts(list, k, n) ==
  \A i \in k .. k + n - 2 : list[i + 1] = list[i] + 1

-----------------------------------------------------------------------------
(* The operations.                                                         *)

Init ==
  /\ freeList = << >>
  /\ activePages = 0
  /\ memPages = Reserved
  /\ held = {}
  /\ status = "running"

(* A slip: the answer of memory.grow is not looked at.                     *)
GrowUnchecked(n) ==
  /\ memPages' = IF memPages + n <= MaxPages THEN memPages + n ELSE MaxPages
  /\ held' = held \cup Run(memPages, n)
  /\ UNCHANGED status

(* n times do-the-mem-grow.  memory.grow fails at the limit; the process   *)
(* then exits with whatever it has grown so far.                           *)
Grow(n) ==
  \/ /\ memPages + n <= MaxPages
     /\ memPages' = memPages + n
     /\ held' = held \cup Run(memPages, n)
     /\ UNCHANGED status
  \/ /\ memPages + n > MaxPages
     /\ memPages' = MaxPages
     /\ status' = "exited"
     /\ UNCHANGED held

(* A slip: only a new page is counted.                                     *)
AllocFreePageUncounted ==
  /\ status = "running"
  /\ freeList # << >>
  /\ freeList' = Tail(freeList)
  /\ held' = held \cup {Head(freeList)}
  /\ UNCHANGED <<activePages, memPages, status>>

(* alloc-page takes the head of the free list...                           *)
AllocFreePage ==
  /\ status = "running"
  /\ freeList # << >>
  /\ freeList' = Tail(freeList)
  /\ held' = held \cup {Head(freeList)}
  /\ activePages' = activePages + 1
  /\ UNCHANGED <<memPages, status>>

(* ... or grows the memory, and counts the page only once it has it.       *)
AllocNewPage ==
  /\ status = "running"
  /\ freeList = << >>
  /\ Grow(1)
  /\ activePages' = IF status' = "running" THEN activePages + 1
                                           ELSE activePages
  /\ UNCHANGED freeList

(* contiguous-pages with a run at position k of list.                      *)
TakeRun(list, k, n) ==
  /\ activePages' = activePages + n
  /\ freeList' = Unlink(list, k, n)
  /\ held' = held \cup Run(list[k], n)
  /\ status' = IF UnlinkAsserts(list, k, n) THEN status ELSE "trapped"
  /\ UNCHANGED memPages

(* contiguous-pages without one: the pages are counted first, then grown.  *)
GrowRun(list, n) ==
  /\ activePages' = activePages + n
  /\ freeList' = list
  /\ Grow(n)

(* contiguous-pages on a list it need not sort (any more).                 *)
TakeOrGrow(list, n) ==
  \/ \E k \in SearchForContiguous(list, n) : TakeRun(list, k, n)
  \/ SearchForContiguous(list, n) = {} /\ GrowRun(list, n)

(* A slip: the list is searched as it is, and only once.                   *)
NeverSort(list, n) == FALSE

(* Only an unordered list without a run is sorted, and searched once more. *)
MustSort(list, n) ==
  SearchForContiguous(list, n) = {} /\ ~IsFreeListOrdered(list)

ContiguousPages(n) ==
  /\ status = "running"
  /\ \/ ~MustSort(freeList, n) /\ TakeOrGrow(freeList, n)
     \/ /\ MustSort(freeList, n)
        /\ \E sorted \in SortsOf(freeList) : TakeOrGrow(sorted, n)

(* discard-page: a page its owner gives back becomes the head of the list. *)
DiscardPage(p) ==
  /\ status = "running"
  /\ p \in held
  /\ freeList' = <<p>> \o freeList
  /\ held' = held \ {p}
  /\ activePages' = activePages - 1
  /\ UNCHANGED <<memPages, status>>

Next ==
  \/ AllocFreePage
  \/ AllocNewPage
  \/ \E n \in 1 .. MaxPages : ContiguousPages(n)
  \/ \E p \in held : DiscardPage(p)

Spec == Init /\ [][Next]_vars

-----------------------------------------------------------------------------
(* What must hold.                                                         *)

TypeOK ==
  /\ freeList \in Seq(Page)
  /\ activePages \in 0 .. MaxPages + MaxPages
  /\ memPages \in Reserved .. MaxPages
  /\ held \in SUBSET Page
  /\ status \in {"running", "exited", "trapped"}

(* No page is on the free list twice, none is both free and owned, and     *)
(* until an allocation fails every page memory ever grew by is one or the  *)
(* other: alloc-page, contiguous-pages and discard-page neither hand a     *)
(* page to two clients nor lose one, whatever the free list looks like     *)
(* when contiguous-pages cuts a run out of it.                             *)
PagesAccounted ==
  /\ Distinct(freeList)
  /\ FreePages(freeList) \cap held = {}
  /\ FreePages(freeList) \cup held \subseteq Run(Reserved, memPages - Reserved)
  /\ status = "running" =>
       Run(Reserved, memPages - Reserved) \subseteq FreePages(freeList) \cup held

(* ACTIVE_PAGES, which active-pages reports and the programs print when    *)
(* they look for leaks, is the number of pages out on loan.                *)
ActiveMatchesHeld ==
  status = "running" => activePages = Cardinality(held)

(* The assertion in the unlinking loops never fires: the run that search-  *)
(* free-list-for-contiguous found is the run that is unlinked.             *)
NeverTraps == status # "trapped"

(* contiguous-pages grows memory only if no n free pages are adjacent in   *)
(* memory, in whatever order the free list holds them: sorting before the  *)
(* second search is what makes the search complete.                        *)
GrowsOnlyWhenNeeded ==
  [][\A n \in 1 .. MaxPages :
       ContiguousPages(n) /\ (memPages' # memPages \/ status' = "exited") =>
         \A first \in Page : ~(Run(first, n) \subseteq FreePages(freeList))]_vars

(* The allocator lends pages as PagePool promises.                         *)
Pool == INSTANCE PagePool WITH lent <- held, size <- memPages
PoolSpec == Pool!PoolSpec
=============================================================================
