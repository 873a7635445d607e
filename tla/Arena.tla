------------------------------- MODULE Arena -------------------------------
(***************************************************************************)
(* std/arena.watim over the page allocator, with the callbacks of          *)
(* native/active-memory.watim: bump allocation in blocks of pages, restore *)
(* points, and the count of bytes in use that decides the exit status of   *)
(* the compiler.                                                           *)
(*                                                                         *)
(* A block is what `struct Page` heads: one page, or n >= 2 adjacent pages *)
(* (MULTIPLE_PAGE).  used[a] lists the blocks of arena a, the one          *)
(* used-pages points to first.  The page allocator appears as PagePool,    *)
(* which PageAlloc implements: any free run may be lent.                   *)
(*                                                                         *)
(* live and points are not in the code: the byte ranges handed out and not *)
(* given back, and the restore points clients still hold.  Clients use     *)
(* restore points last in, first out, and drop them when they clear the    *)
(* arena, as all callers in native/ do.                                    *)
(***************************************************************************)
EXTENDS Integers, Sequences, FiniteSetsExt

CONSTANTS
  Arenas,    (* the arenas of the program                                  *)
  PageSize,  (* bytes in a page, 65536                                     *)
  Header,    (* sizeof(Page), 16                                           *)
  Reserved,  (* pages below the first one lent                             *)
  MaxPages,  (* pages of memory                                            *)
  Garbage,   (* what may be at address 8, read as the pos of a null page   *)
  Sizes,     (* bound: the sizes clients ask for                           *)
  MaxPoints  (* bound: restore points held per arena                       *)

ASSUME ArenaAssumption ==
  /\ IsFiniteSet(Arenas)
  /\ PageSize \in Nat /\ Header \in Nat \ {0} /\ Header < PageSize
  /\ Reserved \in Nat \ {0} /\ MaxPages \in Nat /\ Reserved <= MaxPages
  /\ Garbage \subseteq Nat /\ Sizes \subseteq Nat /\ MaxPoints \in Nat

VARIABLES
  used,          (* self.used-pages                                        *)
  size,          (* self.size                                              *)
  activeMemory,  (* ACTIVE_MEMORY                                          *)
  lent, memPages,(* the page pool                                          *)
  live,          (* ghost: byte ranges clients may use                     *)
  points         (* ghost: restore points held, latest first, with what    *)
                 (* the arena was when each was taken                      *)

poolVars == <<lent, memPages>>
arenaVars == <<used, size, activeMemory, lent, memPages, live, points>>

Pool == INSTANCE PagePool WITH size <- memPages

-----------------------------------------------------------------------------
Block(first, n, pos) == [first |-> first, n |-> n, pos |-> pos]
PagesOf(blocks) == UNION {Pool!Run(b.first, b.n) : b \in {blocks[i] : i \in DOMAIN blocks}}

(* sizeof(Page) + pos, and the bytes of a block that follow its header.    *)
Address(block, pos) == block.first * PageSize + Header + pos
Bytes(block, pos, n) == Address(block, pos) .. Address(block, pos) + n - 1

(* A slip: the header is forgotten.                                        *)
FitsWithoutHeader(pos, n) == pos + n <= PageSize

Fits(pos, n) == pos + Header + n <= PageSize

(* PA:div-by-page-size-round-up.                                           *)
PagesFor(n) == (n + Header + PageSize - 1) \div PageSize

(* Where the search for room in alloc-bytes stops: the first block with    *)
(* enough space.                                                           *)
FirstFit(blocks, n) == Min({i \in DOMAIN blocks : Fits(blocks[i].pos, n)})

ArenaInit ==
  /\ used = [a \in Arenas |-> << >>]
  /\ size = [a \in Arenas |-> 0]
  /\ activeMemory = 0
  /\ lent = {} /\ memPages = Reserved
  /\ live = [a \in Arenas |-> {}]
  /\ points = [a \in Arenas |-> << >>]

-----------------------------------------------------------------------------
(* alloc-bytes                                                             *)

(* A slip: a block of its own is counted by neither.                       *)
CountSingleOnly(a, n) ==
  IF n > PageSize - Header THEN UNCHANGED <<size, activeMemory>>
  ELSE /\ size' = [size EXCEPT ![a] = @ + n]
       /\ activeMemory' = activeMemory + n

(* self.size and, through ON_ALLOC, ACTIVE_MEMORY grow together.           *)
Count(a, n) ==
  /\ size' = [size EXCEPT ![a] = @ + n]
  /\ activeMemory' = activeMemory + n

(* n bytes at the cursor of the first block with room.                     *)
Place(a, blocks, n) ==
  LET i == FirstFit(blocks, n) IN
  /\ used' = [used EXCEPT ![a] = [blocks EXCEPT ![i].pos = @ + n]]
  /\ live' = [live EXCEPT ![a] = @ \cup {Bytes(blocks[i], blocks[i].pos, n)}]

(* More than a page holds: a block of its own, whose cursor is put where   *)
(* nothing fits any more (add-multiple-page).                              *)
AllocMultiple(a, n) ==
  \E first \in Pool!Pages :
    LET block == Block(first, PagesFor(n), PageSize - Header) IN
    /\ Pool!LendRun(first, block.n)
    /\ used' = [used EXCEPT ![a] = <<block>> \o @]
    /\ live' = [live EXCEPT ![a] = @ \cup {Bytes(block, 0, n)}]
    /\ Count(a, n)

(* self.used-pages.pos: of a null page it is whatever is at address 8,     *)
(* static data of the program, or a variable if there is little of that.   *)
Cursors(a) == IF used[a] = << >> THEN Garbage ELSE {used[a][1].pos}

(* A slip: a page is added only if no block has room.                      *)
AllocAnywhere(a, n) ==
  LET room == \E i \in DOMAIN used[a] : Fits(used[a][i].pos, n) IN
  /\ Count(a, n)
  /\ \/ room /\ Place(a, used[a], n) /\ UNCHANGED poolVars
     \/ /\ ~room
        /\ \E p \in Pool!Pages :
             /\ Pool!LendRun(p, 1)
             /\ Place(a, <<Block(p, 1, 0)>> \o used[a], n)

(* A page is added when the first block is too full.  An empty arena whose *)
(* phantom cursor seems to leave room finds no block at all, adds a page   *)
(* and starts again, counting the bytes twice.                             *)
AllocSingle(a, n) ==
  \E cursor \in Cursors(a) :
    \/ /\ Fits(cursor, n) /\ used[a] # << >>
       /\ Place(a, used[a], n)
       /\ Count(a, n)
       /\ UNCHANGED poolVars
    \/ /\ ~Fits(cursor, n) \/ used[a] = << >>
       /\ \E p \in Pool!Pages :
            /\ Pool!LendRun(p, 1)
            /\ Place(a, <<Block(p, 1, 0)>> \o used[a], n)
       /\ Count(a, IF Fits(cursor, n) THEN n + n ELSE n)

(* A request for no bytes answers the cursor and changes nothing, except   *)
(* that an arena without a page gets one, and one byte of it is used up.   *)
AllocBytes(a, n) ==
  /\ UNCHANGED points
  /\ \/ n > PageSize - Header /\ AllocMultiple(a, n)
     \/ n \in 1 .. PageSize - Header /\ AllocSingle(a, n)
     \/ n = 0 /\ used[a] = << >> /\ AllocSingle(a, 1)

-----------------------------------------------------------------------------
(* clear, save, restore                                                    *)

(* A slip: only the page with the header goes back.                        *)
FreeHeaders(blocks) ==
  /\ lent' = lent \ {blocks[i].first : i \in DOMAIN blocks}
  /\ UNCHANGED memPages

(* free-page on each of these blocks: all their pages go back.             *)
FreeBlocks(blocks) ==
  /\ lent' = lent \ PagesOf(blocks)
  /\ UNCHANGED memPages

(* A slip: the size is reset before it is reported.                        *)
ClearUnreported(a) ==
  /\ FreeBlocks(used[a])
  /\ used' = [used EXCEPT ![a] = << >>]
  /\ size' = [size EXCEPT ![a] = 0]
  /\ UNCHANGED activeMemory
  /\ live' = [live EXCEPT ![a] = {}]
  /\ points' = [points EXCEPT ![a] = << >>]

Clear(a) ==
  /\ FreeBlocks(used[a])
  /\ used' = [used EXCEPT ![a] = << >>]
  /\ size' = [size EXCEPT ![a] = 0]
  /\ activeMemory' = activeMemory - size[a]
  /\ live' = [live EXCEPT ![a] = {}]
  /\ points' = [points EXCEPT ![a] = << >>]

(* A restore point holds used-pages (0 is null), pos and size; the rest is *)
(* ghost.  The pos of a null page is read but never used.                  *)
Save(a) ==
  /\ Len(points[a]) < MaxPoints
  /\ points' = [points EXCEPT ![a] = <<
       [page |-> IF used[a] = << >> THEN 0 ELSE used[a][1].first,
        pos |-> IF used[a] = << >> THEN 0 ELSE used[a][1].pos,
        size |-> size[a],
        used |-> used[a], live |-> live[a]]>> \o @]
  /\ UNCHANGED <<used, size, activeMemory, lent, memPages, live>>

(* How many blocks restore frees: those before the one the point names.    *)
BlocksSince(a, point) ==
  IF point.page = 0 THEN Len(used[a])
  ELSE Min({i \in DOMAIN used[a] : used[a][i].first = point.page}) - 1

(* The blocks left, the first one's cursor moved back.                     *)
BlocksKept(a, point) ==
  LET kept == SubSeq(used[a], BlocksSince(a, point) + 1, Len(used[a])) IN
  IF kept = << >> THEN << >> ELSE [kept EXCEPT ![1].pos = point.pos]

(* A slip: the whole page is cleared.                                      *)
PageCleared(a, point) ==
  LET left == Len(used[a]) - BlocksSince(a, point)
      block == used[a][BlocksSince(a, point) + 1]
  IN IF left = 0 THEN {} ELSE Bytes(block, 0, block.pos)

(* The bytes of that block restore overwrites with zeros.                  *)
BytesCleared(a, point) ==
  LET left == Len(used[a]) - BlocksSince(a, point)
      block == used[a][BlocksSince(a, point) + 1]
  IN IF left = 0 THEN {}
     ELSE Bytes(block, point.pos, block.pos - point.pos)

(* The two assertions of restore, and the null page it would run into if   *)
(* the point's page were gone.                                             *)
RestoreTraps(a, point) ==
  \/ size[a] < point.size
  \/ used[a] # << >> /\ size[a] = 0
  \/ used[a] # << >> /\ point.page # 0
       /\ \A i \in DOMAIN used[a] : used[a][i].first # point.page

(* Only an arena with pages is rolled back; ON_RESTORE is told the size    *)
(* difference in any case.                                                 *)
Restore(a, i) ==
  LET point == points[a][i] IN
  /\ ~RestoreTraps(a, point)
  /\ \/ /\ used[a] # << >>
        /\ FreeBlocks(SubSeq(used[a], 1, BlocksSince(a, point)))
        /\ used' = [used EXCEPT ![a] = BlocksKept(a, point)]
        /\ size' = [size EXCEPT ![a] = point.size]
     \/ used[a] = << >> /\ UNCHANGED <<lent, memPages, used, size>>
  /\ activeMemory' = activeMemory - (size[a] - point.size)
  /\ live' = [live EXCEPT ![a] = point.live]
  /\ points' = [points EXCEPT ![a] = SubSeq(@, i + 1, Len(@))]

ArenaNext ==
  \E a \in Arenas :
    \/ \E n \in Sizes : AllocBytes(a, n)
    \/ Clear(a)
    \/ Save(a)
    \/ \E i \in DOMAIN points[a] : Restore(a, i)

ArenaSpec == ArenaInit /\ [][ArenaNext]_arenaVars

-----------------------------------------------------------------------------
(* What must hold.                                                         *)

ArenaTypeOK ==
  /\ \A a \in Arenas : \A i \in DOMAIN used[a] :
       /\ used[a][i].n \in Nat \ {0}
       /\ used[a][i].pos \in 0 .. PageSize - Header
       /\ used[a][i].first \in Pool!Pages
  /\ size \in [Arenas -> Nat]
  /\ activeMemory \in Nat
  /\ lent \subseteq Pool!Pages

(* Every page the allocator lent is in exactly one block of one arena: no  *)
(* sequence of allocations, restores and clears leaks a page or gives one  *)
(* back while an arena still uses it.                                      *)
PagesOwnedOnce ==
  /\ lent = UNION {PagesOf(used[a]) : a \in Arenas}
  /\ \A a, b \in Arenas : \A i \in DOMAIN used[a], j \in DOMAIN used[b] :
       <<a, i>> # <<b, j>> =>
         PagesOf(<<used[a][i]>>) \cap PagesOf(<<used[b][j]>>) = {}

(* No two ranges of bytes clients may use overlap, each lies behind the    *)
(* header of a block its arena still has, before the cursor, and what a    *)
(* restore would clear belongs to none made before its save.               *)
AllocationsIntact ==
  /\ \A a, b \in Arenas : \A r \in live[a], s \in live[b] :
       r \cap s # {} => a = b /\ r = s
  /\ \A a \in Arenas : \A r \in live[a] : \E i \in DOMAIN used[a] :
       LET b == used[a][i] IN
       r \subseteq IF b.n = 1 THEN Bytes(b, 0, b.pos)
                   ELSE Bytes(b, 0, b.n * PageSize - Header)
  /\ \A a \in Arenas : \A i \in DOMAIN points[a] : \A r \in points[a][i].live :
       r \cap BytesCleared(a, points[a][i]) = {}

(* A restore takes the arena back to exactly what it was at the save: the  *)
(* blocks it keeps were not written since, which is why alloc-bytes must   *)
(* never place anything in a block that is not the first.                  *)
RestoreUndoes ==
  [][\A a \in Arenas : \A i \in DOMAIN points[a] :
       Restore(a, i) => /\ (used[a])' = points[a][i].used
                        /\ (size[a])' = points[a][i].size]_arenaVars

(* No restore a client may ask for runs into an assertion.                 *)
NoRestoreTraps ==
  \A a \in Arenas : \A i \in DOMAIN points[a] : ~RestoreTraps(a, points[a][i])

(* The bytes of each arena, one by one.                                    *)
BytesInUse == UNION {{a} \X (1 .. size[a]) : a \in Arenas}

(* ACTIVE_MEMORY is the sum of the arenas' sizes, so it is zero when, and  *)
(* only when, every arena has been cleared: the compiler's exit status is  *)
(* 0 only then.                                                            *)
ActiveMemoryExact ==
  /\ activeMemory = Cardinality(BytesInUse)
  /\ activeMemory = 0 <=> lent = {}
=============================================================================
