---------------------------- MODULE ArenaProofs -----------------------------
(***************************************************************************)
(* For any number of arenas, any size of a page and any requests: no page  *)
(* is leaked or owned twice, no two allocations overlap, and a restore     *)
(* takes an arena back to what it was and never runs into an assertion.    *)
(*                                                                         *)
(* What an arena is at one time, its blocks u, its size s, the ranges l    *)
(* it has handed out and the restore points ps held on it, is described by *)
(* operators of these four, so that the lemmas are about values and not    *)
(* about steps.                                                            *)
(*                                                                         *)
(* For call chains of any depth: two scratch arenas are enough.            *)
(***************************************************************************)
EXTENDS Arena, ScratchArenas, FiniteSetTheorems, SequenceTheorems, TLAPS

BlockType == [first : Pool!Pages, n : Nat \ {0}, pos : 0 .. PageSize - Header]
Point == [page : Nat, pos : Nat, size : Nat, used : Seq(BlockType),
          live : SUBSET SUBSET Int]

RunOf(b) == Pool!Run(b.first, b.n)

(* The bytes of a block that allocations may lie in, and all of its bytes. *)
Span(b) == IF b.n = 1 THEN Bytes(b, 0, b.pos) ELSE Bytes(b, 0, b.n * PageSize - Header)
Area(b) == b.first * PageSize .. b.first * PageSize + b.n * PageSize - 1

(* Nothing fits into a block of several pages.  No page is in two blocks,  *)
(* and ranges of bytes do not overlap and lie in blocks of the arena.      *)
Sound(u, l) ==
  /\ u \in Seq(BlockType) /\ l \in SUBSET SUBSET Int
  /\ \A k \in 1 .. Len(u) : u[k].n = 1 \/ u[k].pos = PageSize - Header
  /\ \A j, k \in 1 .. Len(u) : j # k => RunOf(u[j]) \cap RunOf(u[k]) = {}
  /\ \A r \in l : \E k \in 1 .. Len(u) : r \subseteq Span(u[k])
  /\ \A r, s \in l : r \cap s # {} => r = s

(* The blocks of v are the last of u, but the first of them may have been  *)
(* filled further since.                                                   *)
Extends(u, v) ==
  /\ Len(v) <= Len(u)
  /\ \A k \in 1 .. Len(v) :
       LET b == u[Len(u) - Len(v) + k] IN
       /\ b.first = v[k].first /\ b.n = v[k].n
       /\ IF k = 1 THEN v[k].pos <= b.pos ELSE v[k].pos = b.pos

(* The arena has only grown since the restore point p was taken.           *)
Later(u, s, l, p) == p.size <= s /\ p.live \subseteq l /\ Extends(u, p.used)

(* What was saved was sound, and the first block and its cursor are noted. *)
Saved(p) ==
  /\ p \in Point /\ Sound(p.used, p.live) /\ (p.size = 0 <=> p.used = << >>)
  /\ p.page = IF p.used = << >> THEN 0 ELSE p.used[1].first
  /\ p.pos = IF p.used = << >> THEN 0 ELSE p.used[1].pos

(* An arena is sound, has a size if it has blocks, and has only grown from *)
(* each restore point to the next and from the latest one to now.          *)
ArenaInv(u, s, l, ps) ==
  /\ Sound(u, l) /\ s \in Nat /\ (s = 0 <=> u = << >>)
  /\ ps \in Seq(Point)
  /\ \A k \in 1 .. Len(ps) : Saved(ps[k]) /\ Later(u, s, l, ps[k])
  /\ \A j, k \in 1 .. Len(ps) :
       j < k => Later(ps[j].used, ps[j].size, ps[j].live, ps[k])

IInv ==
  /\ DOMAIN used = Arenas /\ DOMAIN size = Arenas
  /\ DOMAIN live = Arenas /\ DOMAIN points = Arenas
  /\ \A a \in Arenas : ArenaInv(used[a], size[a], live[a], points[a])
  /\ memPages \in Reserved .. MaxPages
  /\ lent = UNION {PagesOf(used[a]) : a \in Arenas}
  /\ \A a, b \in Arenas : a # b => PagesOf(used[a]) \cap PagesOf(used[b]) = {}

-----------------------------------------------------------------------------
(* Pages and bytes.                                                        *)

(* The parts of the assumption on the constants.                           *)
LEMMA Constants ==
  /\ PageSize \in Nat /\ Header \in Nat /\ Header > 0 /\ Header < PageSize
  /\ Reserved \in Nat /\ Reserved > 0 /\ MaxPages \in Nat /\ Reserved <= MaxPages
  /\ Pool!Pages = Reserved .. MaxPages - 1
BY ArenaAssumption DEF Pool!Pages

(* The fields of a block.                                                  *)
LEMMA BlockFacts ==
  ASSUME NEW b \in BlockType
  PROVE  /\ b.first \in Nat /\ b.first > 0 /\ b.n \in Nat /\ b.n > 0
         /\ b.pos \in Nat /\ b.pos <= PageSize - Header
         /\ b.first * PageSize \in Nat /\ b.n * PageSize \in Nat
<1>1. /\ b.first \in Reserved .. MaxPages - 1 /\ b.n \in Nat \ {0}
      /\ b.pos \in 0 .. PageSize - Header
  BY Constants DEF BlockType
<1>2. b.first \in Nat /\ b.first > 0 /\ b.pos \in Nat /\ b.pos <= PageSize - Header
  BY <1>1, Constants
<1>3. \A x, y \in Nat : x * y \in Nat
  OBVIOUS
<1> QED
  BY <1>1, <1>2, <1>3, Constants

(* What the pages of a list of blocks are.                                 *)
LEMMA PagesOfBlocks ==
  ASSUME NEW T, NEW u \in Seq(T)
  PROVE  \A p : p \in PagesOf(u) <=> \E k \in 1 .. Len(u) : p \in RunOf(u[k])
<1>1. DOMAIN u = 1 .. Len(u)
  OBVIOUS
<1> QED
  BY <1>1 DEF PagesOf, RunOf

(* A multiple of the page size moves with its factor.                      *)
LEMMA Multiples ==
  ASSUME NEW f \in Nat, NEW n \in Nat, NEW g \in Nat, NEW P \in Nat, f + n <= g
  PROVE  f * P + n * P <= g * P
<1>1. PICK d \in Nat : g = f + n + d
  <2>1. g - (f + n) \in Nat /\ g = f + n + (g - (f + n))
    OBVIOUS
  <2> QED
    BY <2>1
<1>2. g * P = f * P + n * P + d * P
  BY <1>1
<1>3. f * P \in Nat /\ n * P \in Nat /\ d * P \in Nat
  OBVIOUS
<1> QED
  BY <1>2, <1>3

(* Blocks without a page in common have no byte in common.                 *)
LEMMA AreasApart ==
  ASSUME NEW b \in BlockType, NEW c \in BlockType,
         RunOf(b) \cap RunOf(c) = {}
  PROVE  Area(b) \cap Area(c) = {}
<1>1. /\ b.first \in Nat /\ b.n \in Nat /\ b.n > 0
      /\ c.first \in Nat /\ c.n \in Nat /\ c.n > 0 /\ PageSize \in Nat
  BY BlockFacts, Constants
<1>2. b.first + b.n <= c.first \/ c.first + c.n <= b.first
  <2>1. \A p \in Int : ~ (p >= b.first /\ p < b.first + b.n /\ p >= c.first /\ p < c.first + c.n)
    BY <1>1 DEF RunOf, Pool!Run
  <2>2. CASE b.first <= c.first
    BY <1>1, <2>1, <2>2
  <2>3. CASE c.first <= b.first
    BY <1>1, <2>1, <2>3
  <2> QED
    BY <1>1, <2>2, <2>3
<1>3. \/ b.first * PageSize + b.n * PageSize <= c.first * PageSize
      \/ c.first * PageSize + c.n * PageSize <= b.first * PageSize
  BY <1>1, <1>2, Multiples
<1>4. /\ b.first * PageSize \in Nat /\ b.n * PageSize \in Nat
      /\ c.first * PageSize \in Nat /\ c.n * PageSize \in Nat
  BY BlockFacts
<1> QED
  BY <1>3, <1>4 DEF Area

(* Ranges behind the header lie in the block's area.                       *)
LEMMA BytesInArea ==
  ASSUME NEW b \in BlockType
  PROVE  /\ Span(b) \subseteq Area(b)
         /\ \A pos, n \in Nat : Header + pos + n <= b.n * PageSize =>
              Bytes(b, pos, n) \subseteq Area(b)
<1>1. /\ b.first * PageSize \in Nat /\ b.n * PageSize \in Nat /\ b.n \in Nat /\ b.n > 0
      /\ b.pos \in Nat /\ b.pos <= PageSize - Header
      /\ Header \in Nat /\ PageSize \in Nat /\ Header < PageSize
  BY BlockFacts, Constants
<1>2. ASSUME NEW pos \in Nat, NEW n \in Nat, Header + pos + n <= b.n * PageSize
      PROVE  Bytes(b, pos, n) \subseteq Area(b)
  BY <1>1, <1>2 DEF Bytes, Address, Area
<1>3. CASE b.n = 1
  <2>1. b.n * PageSize = PageSize
    BY <1>1, <1>3
  <2>2. Header + 0 + b.pos <= b.n * PageSize
    BY <1>1, <2>1
  <2> QED
    BY <1>1, <1>2, <1>3, <2>2 DEF Span
<1>4. CASE b.n # 1
  <2>1. 1 + 1 <= b.n
    BY <1>1, <1>4
  <2>2. 1 * PageSize + 1 * PageSize <= b.n * PageSize
    BY <1>1, <2>1, Multiples
  <2>3. b.n * PageSize - Header \in Nat
    BY <1>1, <2>2
  <2>4. Header + 0 + (b.n * PageSize - Header) <= b.n * PageSize
    BY <1>1
  <2> QED
    BY <1>2, <1>4, <2>3, <2>4 DEF Span
<1> QED
  BY <1>2, <1>3, <1>4

-----------------------------------------------------------------------------
(* Lists of blocks.                                                        *)

(* A block put before others.                                              *)
LEMMA InFront ==
  ASSUME NEW T, NEW b \in T, NEW u \in Seq(T)
  PROVE  LET w == <<b>> \o u IN
         /\ w \in Seq(T) /\ Len(w) = Len(u) + 1 /\ w # << >> /\ w[1] = b
         /\ \A k \in 1 .. Len(u) : w[k + 1] = u[k]
         /\ \A k \in 1 .. Len(w) : k = 1 \/ (k - 1 \in 1 .. Len(u) /\ w[k] = u[k - 1])
<1> DEFINE w == <<b>> \o u
           n == Len(u)
<1>1. n \in Nat /\ n = Len(u)
  OBVIOUS
<1>2. /\ w \in Seq(T) /\ Len(w) = 1 + n
      /\ \A k \in 1 .. 1 + n : w[k] = IF k <= 1 THEN <<b>>[k] ELSE u[k - 1]
  BY ConcatProperties
<1> HIDE DEF w, n
<1>3. w[1] = b
  BY <1>1, <1>2
<1>4. \A k \in 1 .. n : w[k + 1] = u[k]
  <2> SUFFICES ASSUME NEW k \in 1 .. n PROVE w[k + 1] = u[k]
    OBVIOUS
  <2>1. k + 1 \in 1 .. 1 + n /\ ~ (k + 1 <= 1) /\ k + 1 - 1 = k
    BY <1>1
  <2> QED
    BY <1>2, <2>1
<1>5. \A k \in 1 .. 1 + n : k = 1 \/ (k - 1 \in 1 .. n /\ w[k] = u[k - 1])
  BY <1>1, <1>2
<1>6. Len(w) = n + 1 /\ w # << >>
  BY <1>1, <1>2
<1> QED
  BY <1>1, <1>2, <1>3, <1>4, <1>5, <1>6 DEF w, n

(* A first block filled further.                                           *)
LEMMA Filled ==
  ASSUME NEW u \in Seq(BlockType), u # << >>,
         NEW n \in Nat, Fits(u[1].pos, n)
  PROVE  LET w == [u EXCEPT ![1].pos = @ + n] IN
         /\ w \in Seq(BlockType) /\ Len(w) = Len(u) /\ w # << >>
         /\ w[1].first = u[1].first /\ w[1].n = u[1].n /\ w[1].pos = u[1].pos + n
         /\ \A k \in 1 .. Len(u) : k # 1 => w[k] = u[k]
<1> DEFINE b == [first |-> u[1].first, n |-> u[1].n, pos |-> u[1].pos + n]
<1>1. 1 \in 1 .. Len(u) /\ u[1] \in BlockType
  OBVIOUS
<1>2. u[1].pos + n \in 0 .. PageSize - Header
  BY <1>1, BlockFacts, Constants DEF Fits
<1>3. b \in BlockType
  BY <1>1, <1>2 DEF BlockType
<1>4. [u[1] EXCEPT !.pos = @ + n] = b
  <2>1. ASSUME NEW c \in BlockType, NEW x
        PROVE  [c EXCEPT !.pos = x] = [first |-> c.first, n |-> c.n, pos |-> x]
    BY DEF BlockType
  <2> QED
    BY <1>1, <2>1
<1>5. [u EXCEPT ![1].pos = @ + n] = [u EXCEPT ![1] = b]
  BY <1>1, <1>4
<1>6. b.first = u[1].first /\ b.n = u[1].n /\ b.pos = u[1].pos + n
  OBVIOUS
<1> HIDE DEF b
<1>7. LET w == [u EXCEPT ![1] = b] IN
      /\ w \in Seq(BlockType) /\ Len(w) = Len(u) /\ w # << >> /\ w[1] = b
      /\ \A k \in 1 .. Len(u) : k # 1 => w[k] = u[k]
  BY <1>1, <1>3
<1> QED
  BY <1>5, <1>6, <1>7

(* Nothing has changed yet when a point is saved.                          *)
LEMMA ExtendsItself ==
  ASSUME NEW u \in Seq(BlockType)
  PROVE  Extends(u, u)
<1>1. Len(u) \in Nat /\ \A k \in 1 .. Len(u) : Len(u) - Len(u) + k = k
  OBVIOUS
<1>2. \A k \in 1 .. Len(u) : u[k].pos \in Nat
  BY BlockFacts
<1> QED
  BY <1>1, <1>2 DEF Extends

(* What has only grown to v, and from v to u, has only grown to u.         *)
LEMMA ExtendsOn ==
  ASSUME NEW u \in Seq(BlockType), NEW v \in Seq(BlockType),
         NEW w \in Seq(BlockType), Extends(u, v), Extends(v, w)
  PROVE  Extends(u, w)
<1> DEFINE U == Len(u)
           V == Len(v)
           W == Len(w)
<1>1. /\ U = Len(u) /\ V = Len(v) /\ W = Len(w)
      /\ U \in Nat /\ V \in Nat /\ W \in Nat /\ V <= U /\ W <= V
  BY DEF Extends
<1> HIDE DEF U, V, W
<1> SUFFICES ASSUME NEW k \in 1 .. W
             PROVE  /\ u[U - W + k].first = w[k].first /\ u[U - W + k].n = w[k].n
                    /\ IF k = 1 THEN w[k].pos <= u[U - W + k].pos
                       ELSE w[k].pos = u[U - W + k].pos
  BY <1>1 DEF Extends
<1>2. V - W + k \in 1 .. V
  BY <1>1
<1>3. PICK l \in 1 .. V : l = V - W + k
  BY <1>2
<1>4. U - V + l \in 1 .. U
  BY <1>1
<1>5. PICK m \in 1 .. U : m = U - V + l
  BY <1>4
<1>6. m = U - W + k
  BY <1>1, <1>3, <1>5
<1>7. k # 1 => l # 1
  BY <1>1, <1>3
<1>8. /\ u[m].first = v[l].first /\ u[m].n = v[l].n
      /\ IF l = 1 THEN v[l].pos <= u[m].pos ELSE v[l].pos = u[m].pos
  BY <1>1, <1>5 DEF Extends
<1>9. /\ v[l].first = w[k].first /\ v[l].n = w[k].n
      /\ IF k = 1 THEN w[k].pos <= v[l].pos ELSE w[k].pos = v[l].pos
  BY <1>1, <1>3 DEF Extends
<1>10. u[m].pos \in Nat /\ v[l].pos \in Nat /\ w[k].pos \in Nat
  BY <1>1, BlockFacts
<1>11. /\ u[m].first = w[k].first /\ u[m].n = w[k].n
      /\ IF k = 1 THEN w[k].pos <= u[m].pos ELSE w[k].pos = u[m].pos
  <2>1. CASE k = 1
    BY <1>8, <1>9, <1>10, <2>1
  <2>2. CASE k # 1
    BY <1>8, <1>9, <1>7, <2>2
  <2> QED
    BY <2>1, <2>2
<1> QED
  BY <1>6, <1>11

(* A new block in front leaves the others the last ones.                   *)
LEMMA ExtendsByBlock ==
  ASSUME NEW u \in Seq(BlockType), NEW b \in BlockType
  PROVE  Extends(<<b>> \o u, u)
<1>1. Len(u) \in Nat
  OBVIOUS
<1>2. \A k \in 1 .. Len(u) : u[k].pos \in Nat
  BY BlockFacts
<1>3. \A k \in 1 .. Len(u) : Len(u) + 1 - Len(u) + k = k + 1
  BY <1>1
<1> QED
  BY <1>1, <1>2, <1>3, InFront DEF Extends

(* So does filling the first one further.                                  *)
LEMMA ExtendsByFilling ==
  ASSUME NEW u \in Seq(BlockType), u # << >>,
         NEW n \in Nat, Fits(u[1].pos, n)
  PROVE  Extends([u EXCEPT ![1].pos = @ + n], u)
<1> DEFINE w == [u EXCEPT ![1].pos = @ + n]
<1>1. /\ w \in Seq(BlockType) /\ Len(w) = Len(u)
      /\ w[1].first = u[1].first /\ w[1].n = u[1].n /\ w[1].pos = u[1].pos + n
      /\ \A k \in 1 .. Len(u) : k # 1 => w[k] = u[k]
  BY Filled
<1>2. /\ Len(u) \in Nat /\ 1 \in 1 .. Len(u)
      /\ \A k \in 1 .. Len(u) : u[k].pos \in Nat
  BY BlockFacts
<1> HIDE DEF w
<1>3. \A k \in 1 .. Len(u) : Len(u) - Len(u) + k = k
  BY <1>2
<1>4. u[1].pos <= w[1].pos
  BY <1>1, <1>2
<1>5. Extends(w, u)
  BY <1>1, <1>2, <1>3, <1>4 DEF Extends
<1> QED
  BY <1>5 DEF w

-----------------------------------------------------------------------------
(* Allocation.                                                             *)

(* A block of pages that no other has, with a range r in it.               *)
LEMMA SoundWithBlock ==
  ASSUME NEW u, NEW l, Sound(u, l),
         NEW b \in BlockType, b.n = 1 \/ b.pos = PageSize - Header,
         RunOf(b) \cap PagesOf(u) = {},
         NEW new \in SUBSET SUBSET Int,
         \A r \in new : r \subseteq Span(b), \A r, s \in new : r = s
  PROVE  /\ Sound(<<b>> \o u, l \cup new)
         /\ PagesOf(<<b>> \o u) = PagesOf(u) \cup RunOf(b)
<1> DEFINE w == <<b>> \o u
<1>1. u \in Seq(BlockType) /\ l \in SUBSET SUBSET Int /\ Len(u) \in Nat
  BY DEF Sound
<1>2. \A k \in 1 .. Len(u) : u[k].n = 1 \/ u[k].pos = PageSize - Header
  BY DEF Sound
<1>3. \A j, k \in 1 .. Len(u) : j # k => RunOf(u[j]) \cap RunOf(u[k]) = {}
  BY DEF Sound
<1>4. \A r \in l : \E k \in 1 .. Len(u) : r \subseteq Span(u[k])
  BY DEF Sound
<1>5. \A r, s \in l : r \cap s # {} => r = s
  BY DEF Sound
<1>6. /\ w \in Seq(BlockType) /\ Len(w) = Len(u) + 1 /\ w[1] = b
      /\ \A k \in 1 .. Len(u) : w[k + 1] = u[k]
      /\ \A k \in 1 .. Len(w) : k = 1 \/ (k - 1 \in 1 .. Len(u) /\ w[k] = u[k - 1])
  BY <1>1, InFront
<1> HIDE DEF w
<1>7. 1 \in 1 .. Len(w) /\ \A k \in 1 .. Len(u) : k + 1 \in 1 .. Len(w)
  BY <1>1, <1>6
<1>8. PagesOf(w) = PagesOf(u) \cup RunOf(b)
  <2>1. ASSUME NEW p
        PROVE  p \in PagesOf(w) <=> p \in PagesOf(u) \/ p \in RunOf(b)
    <3>1. ASSUME p \in PagesOf(w)
          PROVE  p \in PagesOf(u) \/ p \in RunOf(b)
      <4>1. PICK k \in 1 .. Len(w) : p \in RunOf(w[k])
        BY <1>6, <3>1, PagesOfBlocks
      <4>2. CASE k = 1
        BY <1>6, <4>1, <4>2
      <4>3. CASE k # 1
        <5>1. k - 1 \in 1 .. Len(u) /\ w[k] = u[k - 1]
          BY <1>6, <4>3
        <5> QED
          BY <1>1, <4>1, <5>1, PagesOfBlocks
      <4> QED
        BY <4>2, <4>3
    <3>2. p \in PagesOf(u) => p \in PagesOf(w)
      BY <1>1, <1>6, <1>7, PagesOfBlocks
    <3>3. p \in RunOf(b) => p \in PagesOf(w)
      BY <1>6, <1>7, PagesOfBlocks
    <3> QED
      BY <3>1, <3>2, <3>3
  <2> QED
    BY <2>1
<1>9. \A k \in 1 .. Len(u) : RunOf(u[k]) \cap RunOf(b) = {}
  BY <1>1, PagesOfBlocks
<1>10. \A k \in 1 .. Len(w) : w[k].n = 1 \/ w[k].pos = PageSize - Header
  BY <1>6, <1>2
<1>11. ASSUME NEW j \in 1 .. Len(w), NEW k \in 1 .. Len(w), j # k
      PROVE  RunOf(w[j]) \cap RunOf(w[k]) = {}
  <2>1. CASE j = 1
    BY <1>6, <1>9, <1>11, <2>1
  <2>2. CASE k = 1
    BY <1>6, <1>9, <1>11, <2>2
  <2>3. CASE j # 1 /\ k # 1
    <3>1. /\ j - 1 \in 1 .. Len(u) /\ w[j] = u[j - 1]
          /\ k - 1 \in 1 .. Len(u) /\ w[k] = u[k - 1] /\ j - 1 # k - 1
      BY <1>6, <1>11, <2>3
    <3> QED
      BY <1>3, <3>1
  <2> QED
    BY <2>1, <2>2, <2>3
<1>12. \A r \in l \cup new : \E k \in 1 .. Len(w) : r \subseteq Span(w[k])
  <2> SUFFICES ASSUME NEW r \in l
               PROVE  \E k \in 1 .. Len(w) : r \subseteq Span(w[k])
    BY <1>6, <1>7
  <2>1. PICK k \in 1 .. Len(u) : r \subseteq Span(u[k])
    BY <1>4
  <2>2. r \subseteq Span(w[k + 1]) /\ k + 1 \in 1 .. Len(w)
    BY <1>6, <1>7, <2>1
  <2> QED
    BY <2>2
<1>13. \A r \in new, s \in l : r \cap s = {}
  <2> SUFFICES ASSUME NEW r \in new, NEW s \in l PROVE r \cap s = {}
    OBVIOUS
  <2>1. PICK k \in 1 .. Len(u) : s \subseteq Span(u[k])
    BY <1>4
  <2>2. u[k] \in BlockType /\ RunOf(b) \cap RunOf(u[k]) = {}
    BY <1>1, <1>9
  <2>3. r \subseteq Area(b) /\ s \subseteq Area(u[k])
    BY <2>1, <2>2, BytesInArea
  <2>4. Area(b) \cap Area(u[k]) = {}
    BY <2>2, AreasApart
  <2> QED
    BY <2>3, <2>4
<1>14. \A r, s \in l \cup new : r \cap s # {} => r = s
  BY <1>13, <1>5
<1>15. Sound(w, l \cup new)
  BY <1>1, <1>6, <1>10, <1>11, <1>12, <1>14 DEF Sound
<1> QED
  BY <1>8, <1>15 DEF w

(* A range of n bytes at the cursor of the first block.                    *)
LEMMA SoundWithRange ==
  ASSUME NEW u, NEW l, Sound(u, l), u # << >>,
         NEW n \in Nat, n > 0, Fits(u[1].pos, n)
  PROVE  LET w == [u EXCEPT ![1].pos = @ + n] IN
         /\ Sound(w, l \cup {Bytes(u[1], u[1].pos, n)})
         /\ PagesOf(w) = PagesOf(u)
<1> DEFINE w == [u EXCEPT ![1].pos = @ + n]
           b == u[1]
           r == Bytes(b, b.pos, n)
<1>1. u \in Seq(BlockType) /\ l \in SUBSET SUBSET Int /\ Len(u) \in Nat
  BY DEF Sound
<1>2. \A k \in 1 .. Len(u) : u[k].n = 1 \/ u[k].pos = PageSize - Header
  BY DEF Sound
<1>3. \A j, k \in 1 .. Len(u) : j # k => RunOf(u[j]) \cap RunOf(u[k]) = {}
  BY DEF Sound
<1>4. \A s \in l : \E k \in 1 .. Len(u) : s \subseteq Span(u[k])
  BY DEF Sound
<1>5. \A s, t \in l : s \cap t # {} => s = t
  BY DEF Sound
<1>6. /\ w \in Seq(BlockType) /\ Len(w) = Len(u)
      /\ w[1].first = b.first /\ w[1].n = b.n /\ w[1].pos = b.pos + n
      /\ \A k \in 1 .. Len(u) : k # 1 => w[k] = u[k]
  BY <1>1, Filled
<1>7. 1 \in 1 .. Len(u) /\ b \in BlockType
  BY <1>1
<1>8. /\ b.pos \in Nat /\ b.n \in Nat /\ b.first * PageSize \in Nat
      /\ Header \in Nat /\ PageSize \in Nat
  BY <1>7, BlockFacts, Constants
<1>9. b.n = 1 /\ b.pos + Header + n <= PageSize
  <2>1. b.pos + Header + n <= PageSize
    BY DEF Fits
  <2>2. b.pos # PageSize - Header
    BY <1>8, <2>1
  <2> QED
    BY <1>7, <1>2, <2>1, <2>2
<1>10. b = u[1] /\ r = Bytes(b, b.pos, n)
  OBVIOUS
<1> HIDE DEF w, b, r
<1>11. \A k \in 1 .. Len(u) : RunOf(w[k]) = RunOf(u[k])
  BY <1>10, <1>6 DEF RunOf
<1>12. PagesOf(w) = PagesOf(u)
  <2>1. \A p : p \in PagesOf(w) <=> p \in PagesOf(u)
    BY <1>1, <1>6, <1>11, PagesOfBlocks
  <2> QED
    BY <2>1
<1>13. \A k \in 1 .. Len(w) : w[k].n = 1 \/ w[k].pos = PageSize - Header
  BY <1>6, <1>9, <1>2
<1>14. \A j, k \in 1 .. Len(w) : j # k => RunOf(w[j]) \cap RunOf(w[k]) = {}
  BY <1>6, <1>11, <1>3
<1>15. /\ Span(b) = Bytes(b, 0, b.pos) /\ Span(w[1]) = Bytes(b, 0, b.pos + n)
  <2>1. Span(w[1]) = Bytes(w[1], 0, b.pos + n)
    BY <1>6, <1>9 DEF Span
  <2> QED
    BY <1>6, <1>9, <2>1 DEF Span, Bytes, Address
<1>16. /\ Span(b) \subseteq Span(w[1]) /\ r \subseteq Span(w[1])
       /\ Span(b) \cap r = {} /\ r \subseteq Int
  <2> DEFINE A == b.first * PageSize + Header
  <2>1. A \in Nat
    BY <1>8
  <2>2. /\ Span(b) = A + 0 .. A + 0 + b.pos - 1
        /\ Span(w[1]) = A + 0 .. A + 0 + (b.pos + n) - 1
        /\ r = A + b.pos .. A + b.pos + n - 1
    BY <1>10, <1>15 DEF Bytes, Address
  <2>3. b.pos \in Nat
    BY <1>8
  <2> HIDE DEF A
  <2>4. Span(b) \subseteq Span(w[1])
    BY <2>1, <2>2, <2>3
  <2>5. r \subseteq Span(w[1]) /\ r \subseteq Int
    BY <2>1, <2>2, <2>3
  <2>6. Span(b) \cap r = {}
    BY <2>1, <2>2, <2>3
  <2> QED
    BY <2>4, <2>5, <2>6
<1>17. ASSUME NEW s \in l \cup {r}
       PROVE  \E k \in 1 .. Len(w) : s \subseteq Span(w[k])
  <2>0. CASE s = r
    BY <1>6, <1>7, <1>16, <2>0
  <2> SUFFICES ASSUME s \in l
               PROVE  \E k \in 1 .. Len(w) : s \subseteq Span(w[k])
    BY <2>0
  <2>1. PICK k \in 1 .. Len(u) : s \subseteq Span(u[k])
    BY <1>4
  <2>2. CASE k = 1
    <3>1. s \subseteq Span(w[1])
      BY <1>10, <1>16, <2>1, <2>2
    <3> QED
      BY <1>6, <1>7, <3>1
  <2>3. CASE k # 1
    BY <1>6, <2>1, <2>3
  <2> QED
    BY <2>2, <2>3
<1>18. ASSUME NEW s \in l
       PROVE  r \cap s = {}
  <2>1. PICK k \in 1 .. Len(u) : s \subseteq Span(u[k])
    BY <1>4
  <2>2. CASE k = 1
    BY <1>10, <1>16, <2>1, <2>2
  <2>3. CASE k # 1
    <3>1. u[k] \in BlockType
      BY <1>1
    <3>2. RunOf(b) \cap RunOf(u[k]) = {}
      BY <1>10, <1>7, <1>3, <2>3
    <3>3. Header + b.pos + n <= b.n * PageSize
      BY <1>8, <1>9
    <3>4. r \subseteq Area(b) /\ s \subseteq Area(u[k])
      BY <1>10, <1>7, <1>8, <2>1, <3>1, <3>3, BytesInArea
    <3>5. Area(b) \cap Area(u[k]) = {}
      BY <1>7, <3>1, <3>2, AreasApart
    <3> QED
      BY <3>4, <3>5
  <2> QED
    BY <2>2, <2>3
<1>19. \A s, t \in l \cup {r} : s \cap t # {} => s = t
  BY <1>18, <1>5
<1>20. l \cup {r} \in SUBSET SUBSET Int
  BY <1>1, <1>16
<1>21. Sound(w, l \cup {r})
  BY <1>6, <1>13, <1>14, <1>17, <1>19, <1>20 DEF Sound
<1> QED
  BY <1>12, <1>21 DEF w, b, r

-----------------------------------------------------------------------------
(* Arenas.                                                                 *)

(* An arena no restore point is held on, and one that was cleared.         *)
LEMMA EmptyArena == ArenaInv(<< >>, 0, {}, << >>) /\ PagesOf(<< >>) = {}
<1>1. << >> \in Seq(BlockType) /\ << >> \in Seq(Point) /\ Len(<< >>) = 0
  BY EmptySeq
<1>2. Sound(<< >>, {})
  BY <1>1 DEF Sound
<1>3. PagesOf(<< >>) = {}
  BY DEF PagesOf
<1> QED
  BY <1>1, <1>2, <1>3 DEF ArenaInv

(* Allocation takes an arena further from every restore point.             *)
LEMMA GrownArena ==
  ASSUME NEW u, NEW s, NEW l, NEW ps, ArenaInv(u, s, l, ps),
         NEW w, NEW m, Sound(w, m), w # << >>, l \subseteq m, Extends(w, u),
         NEW k \in Nat, k > 0
  PROVE  ArenaInv(w, s + k, m, ps)
<1>1. /\ s \in Nat /\ ps \in Seq(Point)
      /\ u \in Seq(BlockType) /\ w \in Seq(BlockType)
  BY DEF ArenaInv, Sound
<1>2. ASSUME NEW i \in 1 .. Len(ps)
      PROVE  Saved(ps[i]) /\ Later(w, s + k, m, ps[i])
  <2>1. Saved(ps[i]) /\ Later(u, s, l, ps[i])
    BY DEF ArenaInv
  <2>2. ps[i].used \in Seq(BlockType) /\ ps[i].size \in Nat
    BY <2>1 DEF Saved, Point
  <2>3. Extends(w, ps[i].used)
    BY <1>1, <2>1, <2>2, ExtendsOn DEF Later
  <2>4. ps[i].size <= s + k /\ ps[i].live \subseteq m
    BY <1>1, <2>1, <2>2 DEF Later
  <2> QED
    BY <2>1, <2>3, <2>4 DEF Later
<1>3. \A i, j \in 1 .. Len(ps) : i < j => Later(ps[i].used, ps[i].size, ps[i].live, ps[j])
  BY DEF ArenaInv
<1>4. s + k \in Nat /\ s + k # 0
  BY <1>1
<1> QED
  BY <1>1, <1>2, <1>3, <1>4 DEF ArenaInv

(* The restore point that save makes of an arena.                          *)
Noted(u, s, l) ==
  [page |-> IF u = << >> THEN 0 ELSE u[1].first,
   pos |-> IF u = << >> THEN 0 ELSE u[1].pos,
   size |-> s, used |-> u, live |-> l]

(* It goes before those held already.                                      *)
LEMMA SavedArena ==
  ASSUME NEW u, NEW s, NEW l, NEW ps, ArenaInv(u, s, l, ps)
  PROVE  ArenaInv(u, s, l, <<Noted(u, s, l)>> \o ps)
<1> DEFINE p == Noted(u, s, l)
           qs == <<p>> \o ps
<1>1. /\ s \in Nat /\ ps \in Seq(Point) /\ Sound(u, l) /\ (s = 0 <=> u = << >>)
      /\ u \in Seq(BlockType) /\ l \in SUBSET SUBSET Int
  BY DEF ArenaInv, Sound
<1>2. /\ p.page = IF u = << >> THEN 0 ELSE u[1].first
      /\ p.pos = IF u = << >> THEN 0 ELSE u[1].pos
      /\ p.size = s /\ p.used = u /\ p.live = l
  BY DEF Noted
<1>3. u # << >> => u[1].first \in Nat /\ u[1].pos \in Nat
  <2>1. u # << >> => u[1] \in BlockType
    BY <1>1
  <2> QED
    BY <2>1, BlockFacts
<1>4. p \in Point
  BY <1>1, <1>3 DEF Noted, Point
<1> HIDE DEF p
<1>5. Saved(p)
  BY <1>1, <1>2, <1>4 DEF Saved
<1>6. Later(u, s, l, p)
  BY <1>1, <1>2, ExtendsItself DEF Later
<1>7. /\ qs \in Seq(Point) /\ qs[1] = p /\ Len(qs) = Len(ps) + 1
      /\ \A k \in 1 .. Len(qs) : k = 1 \/ (k - 1 \in 1 .. Len(ps) /\ qs[k] = ps[k - 1])
  BY <1>1, <1>4, InFront
<1> HIDE DEF qs
<1>8. \A k \in 1 .. Len(ps) : Saved(ps[k]) /\ Later(u, s, l, ps[k])
  BY DEF ArenaInv
<1>9. \A j, k \in 1 .. Len(ps) : j < k => Later(ps[j].used, ps[j].size, ps[j].live, ps[k])
  BY DEF ArenaInv
<1>10. \A k \in 1 .. Len(qs) : Saved(qs[k]) /\ Later(u, s, l, qs[k])
  BY <1>5, <1>6, <1>7, <1>8
<1>11. ASSUME NEW j \in 1 .. Len(qs), NEW k \in 1 .. Len(qs), j < k
       PROVE  Later(qs[j].used, qs[j].size, qs[j].live, qs[k])
  <2>1. k # 1 /\ k - 1 \in 1 .. Len(ps) /\ qs[k] = ps[k - 1]
    BY <1>7, <1>11
  <2>2. CASE j = 1
    <3>1. qs[j].used = u /\ qs[j].size = s /\ qs[j].live = l
      BY <1>2, <1>7, <2>2
    <3> QED
      BY <1>8, <2>1, <3>1
  <2>3. CASE j # 1
    <3>1. j - 1 \in 1 .. Len(ps) /\ qs[j] = ps[j - 1] /\ j - 1 < k - 1
      BY <1>7, <1>11, <2>3
    <3> QED
      BY <1>9, <2>1, <3>1
  <2> QED
    BY <2>2, <2>3
<1>12. ArenaInv(u, s, l, qs)
  BY <1>1, <1>7, <1>10, <1>11 DEF ArenaInv
<1> QED
  BY <1>12 DEF qs, p

(* The arena as it was, with the points taken before that one.             *)
LEMMA RestoredArena ==
  ASSUME NEW u, NEW s, NEW l, NEW ps, ArenaInv(u, s, l, ps),
         NEW i \in 1 .. Len(ps)
  PROVE  ArenaInv(ps[i].used, ps[i].size, ps[i].live, SubSeq(ps, i + 1, Len(ps)))
<1> DEFINE n == Len(ps)
           qs == SubSeq(ps, i + 1, n)
<1>1. ps \in Seq(Point) /\ n \in Nat /\ i \in 1 .. n /\ n = Len(ps)
  BY DEF ArenaInv
<1>2. qs \in Seq(Point) /\ Len(qs) = n - i /\ \A k \in 1 .. n - i : qs[k] = ps[k + i]
  BY <1>1
<1> HIDE DEF n, qs
<1>3. \A k \in 1 .. n - i : k + i \in 1 .. n /\ i < k + i
  BY <1>1
<1>4. \A k \in 1 .. n : Saved(ps[k])
  BY <1>1 DEF ArenaInv
<1>5. \A j, k \in 1 .. n : j < k => Later(ps[j].used, ps[j].size, ps[j].live, ps[k])
  BY <1>1 DEF ArenaInv
<1>6. \A k \in 1 .. Len(qs) : Saved(qs[k]) /\ Later(ps[i].used, ps[i].size, ps[i].live, qs[k])
  BY <1>1, <1>2, <1>3, <1>4, <1>5
<1>7. ASSUME NEW j \in 1 .. Len(qs), NEW k \in 1 .. Len(qs), j < k
      PROVE  Later(qs[j].used, qs[j].size, qs[j].live, qs[k])
  <2>1. j + i \in 1 .. n /\ k + i \in 1 .. n /\ j + i < k + i
    BY <1>1, <1>2, <1>3, <1>7
  <2> QED
    BY <1>2, <1>5, <2>1
<1>8. /\ Sound(ps[i].used, ps[i].live) /\ ps[i].size \in Nat
      /\ (ps[i].size = 0 <=> ps[i].used = << >>)
  BY <1>1, <1>4 DEF Saved, Point
<1>9. ArenaInv(ps[i].used, ps[i].size, ps[i].live, qs)
  BY <1>2, <1>6, <1>7, <1>8 DEF ArenaInv
<1> QED
  BY <1>9, <1>1 DEF qs

-----------------------------------------------------------------------------
(* Restoring.                                                              *)

(* The least of one number.                                                *)
LEMMA MinOfOne == ASSUME NEW x \in Int PROVE Min({x}) = x
BY DEF Min

(* A block is known by its first page.                                     *)
LEMMA FirstsDistinct ==
  ASSUME NEW u, NEW l, Sound(u, l),
         NEW j \in 1 .. Len(u), NEW k \in 1 .. Len(u), u[j].first = u[k].first
  PROVE  j = k
<1>1. u[j] \in BlockType /\ u[k] \in BlockType
  BY DEF Sound
<1>2. u[j].first \in RunOf(u[j]) /\ u[j].first \in RunOf(u[k])
  BY <1>1, BlockFacts DEF RunOf, Pool!Run
<1>3. j # k => RunOf(u[j]) \cap RunOf(u[k]) = {}
  BY DEF Sound
<1> QED
  BY <1>2, <1>3

(* What restore finds: the blocks since the save, and after them those of  *)
(* the save, which it leaves as they were (std/arena.watim:193-214).       *)
LEMMA RestoreFinds ==
  ASSUME NEW a \in Arenas,
         ArenaInv(used[a], size[a], live[a], points[a]),
         NEW i \in 1 .. Len(points[a])
  PROVE  LET p == points[a][i]
             d == Len(used[a]) - Len(p.used) IN
         /\ d \in 0 .. Len(used[a]) /\ BlocksSince(a, p) = d
         /\ BlocksKept(a, p) = p.used
         /\ p.used # << >> => p.page # 0 /\ d + 1 \in 1 .. Len(used[a])
                              /\ used[a][d + 1].first = p.page
<1> DEFINE p == points[a][i]
           u == used[a]
           v == p.used
           d == Len(u) - Len(v)
<1>1. /\ Saved(p) /\ Later(u, size[a], live[a], p) /\ Sound(u, live[a])
  BY DEF ArenaInv
<1>2. /\ u \in Seq(BlockType) /\ v \in Seq(BlockType) /\ Len(u) \in Nat /\ Len(v) \in Nat
      /\ Len(v) <= Len(u) /\ d \in 0 .. Len(u) /\ d = Len(u) - Len(v)
  <2>1. u \in Seq(BlockType) /\ v \in Seq(BlockType) /\ Len(v) <= Len(u)
    BY <1>1 DEF Sound, Saved, Later, Extends
  <2>2. Len(u) \in Nat /\ Len(v) \in Nat
    BY <2>1
  <2>3. d \in 0 .. Len(u) /\ d = Len(u) - Len(v)
    <3> HIDE DEF u, v
    <3> QED
      BY <2>1, <2>2
  <2> QED
    BY <2>1, <2>2, <2>3
<1>3. \A k \in 1 .. Len(v) :
        /\ u[d + k].first = v[k].first /\ u[d + k].n = v[k].n
        /\ IF k = 1 THEN v[k].pos <= u[d + k].pos ELSE v[k].pos = u[d + k].pos
  BY <1>1 DEF Later, Extends
<1>4. /\ p.page = IF v = << >> THEN 0 ELSE v[1].first
      /\ p.pos = IF v = << >> THEN 0 ELSE v[1].pos
  BY <1>1 DEF Saved
<1>5. u = used[a] /\ v = p.used /\ p = points[a][i]
  OBVIOUS
<1> HIDE DEF p, u, v, d
<1>6. v # << >> => 1 \in 1 .. Len(v) /\ v[1] \in BlockType
  BY <1>2
<1>7. ASSUME v # << >>
      PROVE  p.page # 0 /\ d + 1 \in 1 .. Len(u) /\ u[d + 1].first = p.page
  BY <1>2, <1>3, <1>4, <1>6, <1>7, BlockFacts
<1>8. BlocksSince(a, p) = d
  <2>1. CASE v = << >>
    <3>1. p.page = 0 /\ d = Len(u)
      BY <1>2, <1>4, <2>1
    <3> QED
      BY <1>5, <3>1 DEF BlocksSince
  <2>2. CASE v # << >>
    <3>1. \A k \in 1 .. Len(u) : u[k].first = p.page <=> k = d + 1
      BY <1>1, <1>7, <2>2, FirstsDistinct
    <3>2. DOMAIN u = 1 .. Len(u)
      BY <1>2
    <3>3. {k \in DOMAIN u : u[k].first = p.page} = {d + 1}
      BY <1>7, <2>2, <3>1, <3>2
    <3>4. Min({d + 1}) - 1 = d
      BY <1>2, MinOfOne
    <3> QED
      BY <1>5, <1>7, <2>2, <3>3, <3>4 DEF BlocksSince
  <2> QED
    BY <2>1, <2>2
<1>9. BlocksKept(a, p) = v
  <2> DEFINE kept == SubSeq(u, d + 1, Len(u))
  <2>1. /\ kept \in Seq(BlockType) /\ Len(kept) = Len(v)
        /\ \A k \in 1 .. Len(v) : kept[k] = u[d + k]
    BY <1>2
  <2>2. BlocksKept(a, p) = IF kept = << >> THEN << >> ELSE [kept EXCEPT ![1].pos = p.pos]
    BY <1>5, <1>8 DEF BlocksKept
  <2> HIDE DEF kept
  <2>3. CASE v = << >>
    <3>1. kept = << >>
      BY <2>1, <2>3
    <3> QED
      BY <2>2, <2>3, <3>1
  <2>4. CASE v # << >>
    <3>1. kept # << >> /\ 1 \in 1 .. Len(v) /\ v[1] \in BlockType /\ kept[1] \in BlockType
      BY <1>2, <1>6, <2>1, <2>4
    <3>2. [kept[1] EXCEPT !.pos = p.pos] = v[1]
      <4>1. kept[1].first = v[1].first /\ kept[1].n = v[1].n /\ p.pos = v[1].pos
        BY <1>3, <1>4, <2>1, <2>4, <3>1
      <4> QED
        BY <3>1, <4>1 DEF BlockType
    <3>3. [kept EXCEPT ![1].pos = p.pos] = [kept EXCEPT ![1] = v[1]]
      BY <2>1, <3>1, <3>2
    <3> DEFINE w == [kept EXCEPT ![1] = v[1]]
    <3>4. /\ w \in Seq(BlockType) /\ Len(w) = Len(v)
          /\ w[1] = v[1] /\ \A k \in 1 .. Len(v) : k # 1 => w[k] = kept[k]
      BY <2>1, <3>1
    <3> HIDE DEF w
    <3>5. ASSUME NEW k \in 1 .. Len(v), k # 1
          PROVE  w[k] = v[k]
      <4>1. kept[k] \in BlockType /\ v[k] \in BlockType
        BY <1>2, <2>1
      <4>2. kept[k].first = v[k].first /\ kept[k].n = v[k].n /\ kept[k].pos = v[k].pos
        BY <1>3, <2>1, <3>5
      <4>3. kept[k] = v[k]
        BY <4>1, <4>2 DEF BlockType
      <4> QED
        BY <3>4, <3>5, <4>3
    <3>6. w = v
      BY <1>2, <3>4, <3>5, SeqEqual
    <3> QED
      BY <2>2, <3>1, <3>3, <3>6 DEF w
  <2> QED
    BY <2>3, <2>4
<1> QED
  BY <1>2, <1>7, <1>8, <1>9 DEF d, v, u, p

(* The arena is at least as large as it was, has a size if it has blocks,  *)
(* and still has the block that was first.                                 *)
LEMMA NoTrap ==
  ASSUME NEW a \in Arenas,
         ArenaInv(used[a], size[a], live[a], points[a]),
         NEW i \in 1 .. Len(points[a])
  PROVE  ~ RestoreTraps(a, points[a][i])
<1> DEFINE p == points[a][i]
<1>1. /\ Saved(p) /\ p.size <= size[a] /\ p.size \in Nat /\ size[a] \in Nat
      /\ used[a] \in Seq(BlockType)
      /\ (size[a] = 0 <=> used[a] = << >>)
  BY DEF ArenaInv, Later, Saved, Point, Sound
<1>2. p.page # 0 => p.used # << >>
  BY <1>1 DEF Saved
<1>3. p.page # 0 =>
        \E k \in 1 .. Len(used[a]) : used[a][k].first = p.page
  BY <1>2, RestoreFinds
<1>4. DOMAIN used[a] = 1 .. Len(used[a])
  BY <1>1
<1> HIDE DEF p
<1>5. ~ RestoreTraps(a, p)
  BY <1>1, <1>3, <1>4 DEF RestoreTraps
<1> QED
  BY <1>5 DEF p

(* The pages of the blocks that go back and of those that stay.            *)
LEMMA PagesSplit ==
  ASSUME NEW a \in Arenas,
         ArenaInv(used[a], size[a], live[a], points[a]),
         NEW i \in 1 .. Len(points[a])
  PROVE  LET p == points[a][i]
             freed == PagesOf(SubSeq(used[a], 1, BlocksSince(a, p))) IN
         /\ freed \cup PagesOf(p.used) = PagesOf(used[a])
         /\ freed \cap PagesOf(p.used) = {}
<1> DEFINE p == points[a][i]
           u == used[a]
           v == p.used
           d == Len(u) - Len(v)
           f == SubSeq(u, 1, d)
<1>1. /\ Saved(p) /\ Later(u, size[a], live[a], p) /\ Sound(u, live[a])
  BY DEF ArenaInv
<1>2. /\ u \in Seq(BlockType) /\ v \in Seq(BlockType)
      /\ \A k \in 1 .. Len(v) : u[d + k].first = v[k].first /\ u[d + k].n = v[k].n
  BY <1>1 DEF Sound, Saved, Later, Extends
<1>3. d \in 0 .. Len(u) /\ BlocksSince(a, p) = d
  BY RestoreFinds
<1>4. Len(u) \in Nat /\ Len(v) \in Nat
  BY <1>2
<1>5. f \in Seq(BlockType) /\ Len(f) = d /\ \A k \in 1 .. d : f[k] = u[k]
  <2>1. u \in Seq(BlockType) /\ d \in 0 .. Len(u)
    BY <1>2, <1>3
  <2> HIDE DEF p, u, v, d
  <2> QED
    BY <2>1
<1>6. d = Len(u) - Len(v)
  OBVIOUS
<1>7. \A j, k \in 1 .. Len(u) : j # k => RunOf(u[j]) \cap RunOf(u[k]) = {}
  BY <1>1 DEF Sound
<1> HIDE DEF p, u, v, d, f
<1>8. \A k \in 1 .. Len(v) : d + k \in 1 .. Len(u) /\ RunOf(u[d + k]) = RunOf(v[k])
  BY <1>2, <1>3, <1>4, <1>6 DEF RunOf
<1>9. ASSUME NEW k \in 1 .. Len(u)
      PROVE  k \in 1 .. d \/ (k - d \in 1 .. Len(v) /\ d + (k - d) = k)
  BY <1>3, <1>4, <1>6
<1>10. ASSUME NEW x
       PROVE  x \in PagesOf(f) \/ x \in PagesOf(v) <=> x \in PagesOf(u)
  <2>1. ASSUME x \in PagesOf(f)
        PROVE  x \in PagesOf(u)
    <3>1. PICK k \in 1 .. d : x \in RunOf(f[k])
      BY <1>5, <2>1, PagesOfBlocks
    <3>2. k \in 1 .. Len(u) /\ x \in RunOf(u[k])
      BY <1>3, <1>4, <1>5, <3>1
    <3> QED
      BY <1>2, <3>2, PagesOfBlocks
  <2>2. ASSUME x \in PagesOf(v)
        PROVE  x \in PagesOf(u)
    <3>1. PICK k \in 1 .. Len(v) : x \in RunOf(v[k])
      BY <1>2, <2>2, PagesOfBlocks
    <3> QED
      BY <1>2, <1>8, <3>1, PagesOfBlocks
  <2>3. ASSUME x \in PagesOf(u)
        PROVE  x \in PagesOf(f) \/ x \in PagesOf(v)
    <3>1. PICK k \in 1 .. Len(u) : x \in RunOf(u[k])
      BY <1>2, <2>3, PagesOfBlocks
    <3>2. CASE k \in 1 .. d
      <4>1. k \in 1 .. Len(f) /\ x \in RunOf(f[k])
        BY <1>5, <3>1, <3>2
      <4> QED
        BY <1>5, <4>1, PagesOfBlocks
    <3>3. CASE k - d \in 1 .. Len(v) /\ d + (k - d) = k
      <4>1. x \in RunOf(v[k - d])
        BY <1>8, <3>1, <3>3
      <4> QED
        BY <1>2, <3>3, <4>1, PagesOfBlocks
    <3> QED
      BY <1>9, <3>2, <3>3
  <2> QED
    BY <2>1, <2>2, <2>3
<1>11. ASSUME NEW x, x \in PagesOf(f), x \in PagesOf(v)
       PROVE  FALSE
  <2>1. PICK j \in 1 .. d : x \in RunOf(u[j])
    <3>1. PICK k \in 1 .. d : x \in RunOf(f[k])
      BY <1>5, <1>11, PagesOfBlocks
    <3> QED
      BY <1>5, <3>1
  <2>2. PICK k \in 1 .. Len(v) : x \in RunOf(v[k])
    BY <1>2, <1>11, PagesOfBlocks
  <2>3. j \in 1 .. Len(u) /\ d + k \in 1 .. Len(u) /\ j # d + k
    BY <1>3, <1>4, <1>8
  <2> QED
    BY <1>7, <1>8, <2>1, <2>2, <2>3
<1>12. PagesOf(f) \cup PagesOf(v) = PagesOf(u) /\ PagesOf(f) \cap PagesOf(v) = {}
  BY <1>10, <1>11
<1> QED
  BY <1>3, <1>12 DEF f, d, v, u, p

(* What restore clears lies behind the cursor of the save, in a block that *)
(* was the first then.                                                     *)
LEMMA ClearsNothingOlder ==
  ASSUME NEW a \in Arenas,
         ArenaInv(used[a], size[a], live[a], points[a]),
         NEW i \in 1 .. Len(points[a]), NEW r \in points[a][i].live
  PROVE  r \cap BytesCleared(a, points[a][i]) = {}
<1> DEFINE p == points[a][i]
           u == used[a]
           v == p.used
           d == Len(u) - Len(v)
           b == u[d + 1]
<1>1. /\ Saved(p) /\ Later(u, size[a], live[a], p) /\ Sound(u, live[a]) /\ Sound(v, p.live)
  BY DEF ArenaInv, Saved
<1>2. /\ u \in Seq(BlockType) /\ v \in Seq(BlockType)
      /\ \A k \in 1 .. Len(v) :
           /\ u[d + k].first = v[k].first /\ u[d + k].n = v[k].n
           /\ IF k = 1 THEN v[k].pos <= u[d + k].pos ELSE v[k].pos = u[d + k].pos
  BY <1>1 DEF Sound, Saved, Later, Extends
<1>3. /\ BlocksSince(a, p) = d /\ d = Len(u) - Len(v) /\ d \in 0 .. Len(u)
      /\ v # << >> => d + 1 \in 1 .. Len(u)
  BY RestoreFinds
<1>4. PICK k \in 1 .. Len(v) : r \subseteq Span(v[k])
  BY <1>1 DEF Sound
<1>5. /\ v # << >> /\ 1 \in 1 .. Len(v) /\ Len(v) \in Nat /\ Len(u) \in Nat
      /\ v[k] \in BlockType /\ v[1] \in BlockType
  BY <1>2
<1>6. p.pos = v[1].pos
  BY <1>1, <1>5 DEF Saved
<1>7. \A j \in 1 .. Len(v) : v[j].n = 1 \/ v[j].pos = PageSize - Header
  BY <1>1 DEF Sound
<1>8. \A j, m \in 1 .. Len(v) : j # m => RunOf(v[j]) \cap RunOf(v[m]) = {}
  BY <1>1 DEF Sound
<1>9. u = used[a] /\ v = p.used /\ b = u[d + 1]
  OBVIOUS
<1> HIDE DEF p, u, v, d, b
<1>10. BytesCleared(a, p) = Bytes(b, p.pos, b.pos - p.pos)
  <2>1. Len(u) - d # 0
    BY <1>3, <1>5
  <2> QED
    BY <1>3, <1>9, <2>1 DEF BytesCleared
<1>11. /\ b \in BlockType /\ b.first = v[1].first /\ b.n = v[1].n
       /\ v[1].pos <= b.pos
  <2>1. b \in BlockType
    BY <1>2, <1>3, <1>5, <1>9
  <2>2. /\ u[d + 1].first = v[1].first /\ u[d + 1].n = v[1].n
        /\ v[1].pos <= u[d + 1].pos
    BY <1>2, <1>5
  <2> QED
    BY <1>9, <2>1, <2>2
<1>12. /\ Header \in Nat /\ PageSize \in Nat /\ b.pos \in Nat /\ p.pos \in Nat
       /\ p.pos <= b.pos /\ b.pos <= PageSize - Header
  <2>1. b.pos \in Nat /\ b.pos <= PageSize - Header
    BY <1>11, BlockFacts
  <2>2. v[1].pos \in Nat
    BY <1>5, BlockFacts
  <2> QED
    BY <1>6, <1>11, <2>1, <2>2, Constants
<1>13. b.first * PageSize \in Nat /\ b.n \in Nat /\ b.n > 0
  BY <1>11, BlockFacts
<1>14. ASSUME k = 1, b.n = 1
       PROVE  r \cap BytesCleared(a, p) = {}
  <2> DEFINE A == b.first * PageSize + Header
  <2>1. A \in Nat
    BY <1>12, <1>13
  <2>2. Span(v[1]) = A + 0 .. A + 0 + p.pos - 1
    BY <1>6, <1>11, <1>14 DEF Span, Bytes, Address
  <2>3. BytesCleared(a, p) = A + p.pos .. A + p.pos + (b.pos - p.pos) - 1
    BY <1>10 DEF Bytes, Address
  <2> HIDE DEF A
  <2>4. Span(v[1]) \cap BytesCleared(a, p) = {}
    BY <1>12, <2>1, <2>2, <2>3
  <2> QED
    BY <1>4, <1>14, <2>4
<1>15. ASSUME b.n # 1
       PROVE  BytesCleared(a, p) = {}
  <2>1. v[1].pos = PageSize - Header
    BY <1>5, <1>7, <1>11, <1>15
  <2>2. b.pos - p.pos = 0
    BY <1>6, <1>12, <2>1
  <2> DEFINE A == b.first * PageSize + Header + p.pos
  <2>3. A \in Nat
    BY <1>12, <1>13
  <2>4. BytesCleared(a, p) = A .. A + 0 - 1
    BY <1>10, <2>2 DEF Bytes, Address
  <2> HIDE DEF A
  <2> QED
    BY <2>3, <2>4
<1>16. ASSUME k # 1, b.n = 1
       PROVE  r \cap BytesCleared(a, p) = {}
  <2>1. RunOf(v[k]) \cap RunOf(b) = {}
    BY <1>5, <1>8, <1>11, <1>16 DEF RunOf
  <2>2. Area(v[k]) \cap Area(b) = {}
    BY <1>5, <1>11, <2>1, AreasApart
  <2>3. r \subseteq Area(v[k])
    BY <1>4, <1>5, BytesInArea
  <2>4. b.n * PageSize = PageSize
    BY <1>12, <1>16
  <2>5. b.pos - p.pos \in Nat /\ Header + p.pos + (b.pos - p.pos) <= PageSize
    BY <1>12
  <2>6. PICK m \in Nat : m = b.pos - p.pos
    BY <2>5
  <2>7. BytesCleared(a, p) \subseteq Area(b)
    BY <1>10, <1>11, <1>12, <2>4, <2>5, <2>6, BytesInArea
  <2> QED
    BY <2>2, <2>3, <2>7
<1>17. r \cap BytesCleared(a, p) = {}
  BY <1>14, <1>15, <1>16
<1> QED
  BY <1>17 DEF p

-----------------------------------------------------------------------------
(* What alloc-bytes does to an arena.                                      *)

(* The first block has room, so it is the one the search stops at          *)
(* (std/arena.watim:124-137).                                              *)
LEMMA FitsTheFirst ==
  ASSUME NEW T, NEW u \in Seq(T), u # << >>, NEW n, Fits(u[1].pos, n)
  PROVE  FirstFit(u, n) = 1
<1> DEFINE S == {i \in DOMAIN u : Fits(u[i].pos, n)}
<1>1. DOMAIN u = 1 .. Len(u) /\ 1 \in 1 .. Len(u) /\ Len(u) \in Nat
  OBVIOUS
<1>2. 1 \in S /\ \A i \in S : i \in Nat /\ 1 <= i
  BY <1>1
<1> HIDE DEF S
<1>3. Min(S) = 1
  BY <1>2 DEF Min
<1> QED
  BY <1>3 DEF FirstFit, S

(* Enough pages for n bytes and the header, two at least if one does not   *)
(* do.                                                                     *)
LEMMA EnoughPages ==
  ASSUME NEW n \in Nat, n > PageSize - Header
  PROVE  /\ PagesFor(n) \in Nat /\ PagesFor(n) > 1
         /\ n + Header <= PagesFor(n) * PageSize
<1> DEFINE q == PagesFor(n)
           x == n + Header + PageSize - 1
<1>1. x \in Nat /\ PageSize \in Nat /\ PageSize > 0 /\ Header \in Nat /\ x = n + Header + PageSize - 1
  BY Constants
<1>2. q = x \div PageSize
  BY DEF PagesFor
<1> HIDE DEF q, x
<1>3. q \in Int /\ q * PageSize <= x /\ x < q * PageSize + PageSize
  BY <1>1, <1>2, SMTT(30)
<1>4. n + Header <= q * PageSize
  <2>1. q * PageSize \in Int
    BY <1>1, <1>3
  <2> DEFINE m == q * PageSize
  <2> HIDE DEF m
  <2>2. n + Header <= m
    BY <1>1, <1>3, <2>1 DEF m
  <2> QED
    BY <2>2 DEF m
<1>5. q > 1
  <2>1. q * PageSize > PageSize
    BY <1>1, <1>3, <1>4
  <2>2. CASE q <= 1
    BY <1>1, <1>3, <2>1, <2>2
  <2> QED
    BY <1>3, <2>2
<1> QED
  BY <1>3, <1>4, <1>5 DEF q

(* A request for more than a page holds.                                   *)
LEMMA MultipleGrows ==
  ASSUME NEW u, NEW s, NEW l, NEW ps, ArenaInv(u, s, l, ps),
         NEW n \in Nat, n > PageSize - Header, NEW first \in Pool!Pages,
         Pool!Run(first, PagesFor(n)) \cap PagesOf(u) = {}
  PROVE  LET b == Block(first, PagesFor(n), PageSize - Header) IN
         /\ ArenaInv(<<b>> \o u, s + n, l \cup {Bytes(b, 0, n)}, ps)
         /\ PagesOf(<<b>> \o u) = PagesOf(u) \cup Pool!Run(first, PagesFor(n))
<1> DEFINE q == PagesFor(n)
           b == Block(first, q, PageSize - Header)
           r == Bytes(b, 0, n)
<1>1. q \in Nat /\ q > 1 /\ n + Header <= q * PageSize
  BY EnoughPages
<1>2. b.first = first /\ b.n = q /\ b.pos = PageSize - Header
  BY DEF Block
<1>3. b \in BlockType
  BY <1>1, Constants DEF Block, BlockType
<1>4. r = Bytes(b, 0, n)
  OBVIOUS
<1> HIDE DEF q, b, r
<1>5. /\ b.first * PageSize \in Nat /\ b.n * PageSize \in Nat
      /\ Header \in Nat /\ PageSize \in Nat /\ Header < PageSize
  BY <1>3, BlockFacts, Constants
<1>6. r \subseteq Span(b) /\ r \subseteq Int
  <2>1. Span(b) = Bytes(b, 0, b.n * PageSize - Header)
    BY <1>1, <1>2 DEF Span
  <2> DEFINE A == b.first * PageSize + Header
             m == b.n * PageSize
  <2>2. A \in Nat /\ m \in Nat /\ n + Header <= m
    BY <1>1, <1>2, <1>5
  <2>3. r = A + 0 .. A + 0 + n - 1 /\ Span(b) = A + 0 .. A + 0 + (m - Header) - 1
    BY <1>4, <2>1 DEF Bytes, Address
  <2> HIDE DEF A, m
  <2> QED
    BY <1>5, <2>2, <2>3
<1>7. Sound(u, l) /\ u \in Seq(BlockType)
  BY DEF ArenaInv, Sound
<1>8. RunOf(b) = Pool!Run(first, q)
  BY <1>2 DEF RunOf
<1>9. {r} \in SUBSET SUBSET Int
  BY <1>6
<1>10. Sound(<<b>> \o u, l \cup {r}) /\ PagesOf(<<b>> \o u) = PagesOf(u) \cup RunOf(b)
  <2>1. RunOf(b) \cap PagesOf(u) = {}
    BY <1>8 DEF q
  <2>2. \A t \in {r} : t \subseteq Span(b)
    BY <1>6
  <2>3. \A t, v \in {r} : t = v
    OBVIOUS
  <2> QED
    BY <1>2, <1>3, <1>7, <1>9, <2>1, <2>2, <2>3, SoundWithBlock
<1>11. Extends(<<b>> \o u, u) /\ <<b>> \o u # << >>
  BY <1>3, <1>7, ExtendsByBlock, InFront
<1>12. n > 0 /\ l \subseteq l \cup {r}
  BY <1>5
<1>13. ArenaInv(<<b>> \o u, s + n, l \cup {r}, ps)
  BY <1>10, <1>11, <1>12, GrownArena
<1> QED
  BY <1>8, <1>10, <1>13 DEF q, b, r

(* The blocks after n bytes were placed in the first of them, and those    *)
(* bytes.                                                                  *)
PlacedIn(u, n) == [u EXCEPT ![1].pos = @ + n]
NextBytes(u, n) == Bytes(u[1], u[1].pos, n)

(* A request that fits the first block.                                    *)
LEMMA SingleGrows ==
  ASSUME NEW u, NEW s, NEW l, NEW ps, ArenaInv(u, s, l, ps),
         NEW w, Sound(w, l), w # << >>, Extends(w, u),
         NEW n \in Nat, n > 0, Fits(w[1].pos, n), NEW k \in Nat, k > 0
  PROVE  /\ FirstFit(w, n) = 1
         /\ ArenaInv(PlacedIn(w, n), s + k, l \cup {NextBytes(w, n)}, ps)
         /\ PagesOf(PlacedIn(w, n)) = PagesOf(w)
<1> DEFINE v == [w EXCEPT ![1].pos = @ + n]
           r == Bytes(w[1], w[1].pos, n)
<1>1. w \in Seq(BlockType) /\ u \in Seq(BlockType)
  BY DEF ArenaInv, Sound
<1>2. FirstFit(w, n) = 1
  BY <1>1, FitsTheFirst
<1>3. Sound(v, l \cup {r}) /\ PagesOf(v) = PagesOf(w)
  BY SoundWithRange
<1>4. v \in Seq(BlockType) /\ v # << >>
  BY <1>1, Filled
<1>5. Extends(v, w)
  BY <1>1, ExtendsByFilling
<1> HIDE DEF v, r
<1>6. Extends(v, u)
  BY <1>1, <1>4, <1>5, ExtendsOn
<1>7. l \subseteq l \cup {r}
  OBVIOUS
<1>8. ArenaInv(v, s + k, l \cup {r}, ps)
  BY <1>3, <1>4, <1>6, <1>7, GrownArena
<1> QED
  BY <1>2, <1>3, <1>8 DEF v, r, PlacedIn, NextBytes

(* An empty page put before the others.                                    *)
LEMMA PageAdded ==
  ASSUME NEW u, NEW l, Sound(u, l), NEW p \in Pool!Pages,
         Pool!Run(p, 1) \cap PagesOf(u) = {},
         NEW n \in Nat, n <= PageSize - Header
  PROVE  LET w == <<Block(p, 1, 0)>> \o u IN
         /\ Sound(w, l) /\ w # << >> /\ Extends(w, u) /\ Fits(w[1].pos, n)
         /\ PagesOf(w) = PagesOf(u) \cup Pool!Run(p, 1)
<1> DEFINE b == Block(p, 1, 0)
<1>1. b.first = p /\ b.n = 1 /\ b.pos = 0
  BY DEF Block
<1>2. b \in BlockType
  BY Constants DEF Block, BlockType
<1> HIDE DEF b
<1>3. u \in Seq(BlockType)
  BY DEF Sound
<1>4. RunOf(b) = Pool!Run(p, 1)
  BY <1>1 DEF RunOf
<1>5. Sound(<<b>> \o u, l \cup {}) /\ PagesOf(<<b>> \o u) = PagesOf(u) \cup RunOf(b)
  <2>1. {} \in SUBSET SUBSET Int
    OBVIOUS
  <2>2. /\ \A r \in {} : r \subseteq Span(b)
        /\ \A r, t \in {} : r = t
    OBVIOUS
  <2> QED
    BY <1>1, <1>2, <1>4, <2>1, <2>2, SoundWithBlock
<1>6. l \cup {} = l
  OBVIOUS
<1>7. Extends(<<b>> \o u, u) /\ <<b>> \o u # << >> /\ (<<b>> \o u)[1] = b
  BY <1>2, <1>3, ExtendsByBlock, InFront
<1>8. Fits(b.pos, n)
  BY <1>1, Constants DEF Fits
<1>9. Sound(<<b>> \o u, l)
  BY <1>5, <1>6
<1> QED
  BY <1>4, <1>5, <1>7, <1>8, <1>9 DEF b

-----------------------------------------------------------------------------
(* Steps.                                                                  *)

(* f has become g, where only the value for a may be another, v.           *)
Becomes(f, g, a, v) ==
  /\ DOMAIN g = Arenas /\ g[a] = v
  /\ \A b \in Arenas : b # a => g[b] = f[b]

(* What an assignment to one arena's variable does, and none.              *)
LEMMA Assigned ==
  ASSUME NEW f, DOMAIN f = Arenas, NEW a \in Arenas
  PROVE  /\ \A v : Becomes(f, [f EXCEPT ![a] = v], a, v)
         /\ Becomes(f, f, a, f[a])
BY DEF Becomes

(* A step of one arena that owns its pages with no other one keeps the     *)
(* invariant when the arena keeps its own.                                 *)
LEMMA StepOfOne ==
  ASSUME IInv, NEW a \in Arenas, NEW w, NEW s, NEW m, NEW ps, ArenaInv(w, s, m, ps),
         Becomes(used, used', a, w), Becomes(size, size', a, s),
         Becomes(live, live', a, m), Becomes(points, points', a, ps),
         memPages' \in Reserved .. MaxPages,
         lent' = (lent \ PagesOf(used[a])) \cup PagesOf(w),
         \A b \in Arenas : b # a => PagesOf(w) \cap PagesOf(used[b]) = {}
  PROVE  IInv'
<1>1. /\ DOMAIN used' = Arenas /\ DOMAIN size' = Arenas
      /\ DOMAIN live' = Arenas /\ DOMAIN points' = Arenas
  BY DEF Becomes
<1>2. /\ used'[a] = w /\ size'[a] = s /\ live'[a] = m /\ points'[a] = ps
      /\ \A b \in Arenas : b # a => /\ used'[b] = used[b] /\ size'[b] = size[b]
                                    /\ live'[b] = live[b] /\ points'[b] = points[b]
  BY DEF Becomes
<1>3. ASSUME NEW b \in Arenas
      PROVE  ArenaInv(used'[b], size'[b], live'[b], points'[b])
  <2>1. CASE b = a
    BY <1>2, <2>1
  <2>2. CASE b # a
    <3>1. ArenaInv(used[b], size[b], live[b], points[b])
      BY DEF IInv
    <3> QED
      BY <1>2, <2>2, <3>1
  <2> QED
    BY <2>1, <2>2
<1>4. \A b, c \in Arenas : b # c => PagesOf(used[b]) \cap PagesOf(used[c]) = {}
  BY DEF IInv
<1>5. \A b, c \in Arenas : b # c => PagesOf(used'[b]) \cap PagesOf(used'[c]) = {}
  <2> SUFFICES ASSUME NEW b \in Arenas, NEW c \in Arenas, b # c
               PROVE  PagesOf(used'[b]) \cap PagesOf(used'[c]) = {}
    OBVIOUS
  <2>1. CASE b = a
    BY <1>2, <2>1
  <2>2. CASE c = a
    BY <1>2, <2>2
  <2>3. CASE b # a /\ c # a
    BY <1>2, <1>4, <2>3
  <2> QED
    BY <2>1, <2>2, <2>3
<1>6. lent = UNION {PagesOf(used[b]) : b \in Arenas}
  BY DEF IInv
<1>7. lent' = UNION {PagesOf(used'[b]) : b \in Arenas}
  <2>1. ASSUME NEW x \in lent'
        PROVE  \E b \in Arenas : x \in PagesOf(used'[b])
    <3>1. CASE x \in PagesOf(w)
      BY <1>2, <3>1
    <3>2. CASE x \in lent /\ x \notin PagesOf(used[a])
      <4>1. PICK b \in Arenas : x \in PagesOf(used[b])
        BY <1>6, <3>2
      <4> QED
        BY <1>2, <3>2, <4>1
    <3> QED
      BY <2>1, <3>1, <3>2
  <2>2. ASSUME NEW b \in Arenas, NEW x \in PagesOf(used'[b])
        PROVE  x \in lent'
    <3>1. CASE b = a
      BY <1>2, <2>2, <3>1
    <3>2. CASE b # a
      BY <1>2, <1>4, <1>6, <2>2, <3>2
    <3> QED
      BY <3>1, <3>2
  <2> QED
    BY <2>1, <2>2
<1> QED
  BY <1>1, <1>3, <1>5, <1>7 DEF IInv

(* No arena has a block at the start.                                      *)
LEMMA InitInv == ASSUME ArenaInit PROVE IInv
<1>1. /\ used = [a \in Arenas |-> << >>] /\ size = [a \in Arenas |-> 0]
      /\ live = [a \in Arenas |-> {}] /\ points = [a \in Arenas |-> << >>]
      /\ lent = {} /\ memPages = Reserved
  BY DEF ArenaInit
<1>2. \A a \in Arenas : /\ ArenaInv(used[a], size[a], live[a], points[a])
                        /\ PagesOf(used[a]) = {}
  BY <1>1, EmptyArena
<1>3. memPages \in Reserved .. MaxPages
  BY <1>1, Constants
<1>4. lent = UNION {PagesOf(used[a]) : a \in Arenas}
  BY <1>1, <1>2
<1> QED
  BY <1>1, <1>2, <1>3, <1>4 DEF IInv

(* A run of pages that is lent belongs to no arena before.                 *)
LEMMA LentApart ==
  ASSUME IInv, NEW first, NEW n, Pool!LendRun(first, n)
  PROVE  /\ memPages' \in Reserved .. MaxPages
         /\ lent' = lent \cup Pool!Run(first, n)
         /\ \A b \in Arenas : Pool!Run(first, n) \cap PagesOf(used[b]) = {}
<1>1. /\ memPages' \in memPages .. MaxPages
      /\ Pool!Run(first, n) \cap lent = {}
      /\ lent' = lent \cup Pool!Run(first, n)
  BY DEF Pool!LendRun
<1>2. memPages \in Reserved .. MaxPages /\ lent = UNION {PagesOf(used[b]) : b \in Arenas}
  BY DEF IInv
<1>3. memPages' \in Reserved .. MaxPages
  BY <1>1, <1>2, Constants
<1> QED
  BY <1>1, <1>2, <1>3

(* Pages an arena gets besides its own leave it apart from the others.     *)
LEMMA AllocStep ==
  ASSUME IInv, NEW a \in Arenas, NEW w, NEW s, NEW m, ArenaInv(w, s, m, points[a]),
         used' = [used EXCEPT ![a] = w], size' = [size EXCEPT ![a] = s],
         live' = [live EXCEPT ![a] = m], UNCHANGED points,
         memPages' \in Reserved .. MaxPages,
         NEW new, PagesOf(w) = PagesOf(used[a]) \cup new, lent' = lent \cup new,
         \A b \in Arenas : new \cap PagesOf(used[b]) = {}
  PROVE  IInv'
<1>1. PICK ps : ps = points[a]
  OBVIOUS
<1>2. /\ DOMAIN used = Arenas /\ DOMAIN size = Arenas
      /\ DOMAIN live = Arenas /\ DOMAIN points = Arenas
      /\ lent = UNION {PagesOf(used[b]) : b \in Arenas}
      /\ \A b \in Arenas : a # b => PagesOf(used[a]) \cap PagesOf(used[b]) = {}
  BY DEF IInv
<1>3. /\ Becomes(used, used', a, w) /\ Becomes(size, size', a, s)
      /\ Becomes(live, live', a, m) /\ Becomes(points, points', a, ps)
  BY <1>1, <1>2, Assigned
<1>4. PagesOf(used[a]) \subseteq lent
  BY <1>2
<1>5. lent' = (lent \ PagesOf(used[a])) \cup PagesOf(w)
  BY <1>4
<1>6. \A b \in Arenas : b # a => PagesOf(w) \cap PagesOf(used[b]) = {}
  BY <1>2
<1> QED
  BY <1>1, <1>3, <1>5, <1>6, StepOfOne

(* alloc-bytes of more than a page holds (std/arena.watim:91-106).         *)
LEMMA AllocMultipleStep ==
  ASSUME IInv, NEW a \in Arenas, NEW n \in Nat,
         n > PageSize - Header, AllocMultiple(a, n), UNCHANGED points
  PROVE  IInv'
<1>1. PICK first \in Pool!Pages :
        LET block == Block(first, PagesFor(n), PageSize - Header) IN
        /\ Pool!LendRun(first, block.n)
        /\ used' = [used EXCEPT ![a] = <<block>> \o @]
        /\ live' = [live EXCEPT ![a] = @ \cup {Bytes(block, 0, n)}]
        /\ Count(a, n)
  BY DEF AllocMultiple
<1>2. PICK u : u = used[a]
  OBVIOUS
<1>3. PICK s : s = size[a]
  OBVIOUS
<1>4. PICK l : l = live[a]
  OBVIOUS
<1>5. PICK block : block = Block(first, PagesFor(n), PageSize - Header)
  OBVIOUS
<1>6. block.n = PagesFor(n)
  BY <1>5 DEF Block
<1>7. /\ Pool!LendRun(first, PagesFor(n))
      /\ used' = [used EXCEPT ![a] = <<block>> \o u]
      /\ size' = [size EXCEPT ![a] = s + n]
      /\ live' = [live EXCEPT ![a] = l \cup {Bytes(block, 0, n)}]
  BY <1>1, <1>2, <1>3, <1>4, <1>5, <1>6 DEF Count
<1>8. /\ memPages' \in Reserved .. MaxPages
      /\ lent' = lent \cup Pool!Run(first, PagesFor(n))
      /\ \A b \in Arenas : Pool!Run(first, PagesFor(n)) \cap PagesOf(used[b]) = {}
  BY <1>7, LentApart
<1>9. ArenaInv(u, s, l, points[a])
  BY <1>2, <1>3, <1>4 DEF IInv
<1>10. /\ ArenaInv(<<block>> \o u, s + n, l \cup {Bytes(block, 0, n)}, points[a])
       /\ PagesOf(<<block>> \o u) = PagesOf(u) \cup Pool!Run(first, PagesFor(n))
  BY <1>2, <1>5, <1>8, <1>9, MultipleGrows
<1> QED
  BY <1>2, <1>7, <1>8, <1>10, AllocStep

(* alloc-bytes of at most what a page holds: the first block has room, or  *)
(* a page is put before it (std/arena.watim:107-145).                      *)
LEMMA AllocSingleStep ==
  ASSUME IInv, NEW a \in Arenas, NEW n \in Nat,
         n > 0, n <= PageSize - Header, AllocSingle(a, n), UNCHANGED points
  PROVE  IInv'
<1>1. PICK u : u = used[a]
  OBVIOUS
<1>2. PICK s : s = size[a]
  OBVIOUS
<1>3. PICK l : l = live[a]
  OBVIOUS
<1>4. /\ ArenaInv(u, s, l, points[a]) /\ Sound(u, l) /\ u \in Seq(BlockType)
      /\ memPages \in Reserved .. MaxPages
  <2>1. ArenaInv(u, s, l, points[a]) /\ memPages \in Reserved .. MaxPages
    BY <1>1, <1>2, <1>3 DEF IInv
  <2>2. Sound(u, l)
    BY <2>1 DEF ArenaInv
  <2>3. u \in Seq(BlockType)
    BY <2>2 DEF Sound
  <2> QED
    BY <2>1, <2>2, <2>3
<1>5. PICK cursor \in Cursors(a) :
        \/ /\ Fits(cursor, n) /\ used[a] # << >>
           /\ Place(a, used[a], n)
           /\ Count(a, n)
           /\ UNCHANGED poolVars
        \/ /\ ~Fits(cursor, n) \/ used[a] = << >>
           /\ \E p \in Pool!Pages :
                /\ Pool!LendRun(p, 1)
                /\ Place(a, <<Block(p, 1, 0)>> \o used[a], n)
           /\ Count(a, IF Fits(cursor, n) THEN n + n ELSE n)
  BY DEF AllocSingle
<1>6. CASE /\ Fits(cursor, n) /\ used[a] # << >>
           /\ Place(a, used[a], n) /\ Count(a, n) /\ UNCHANGED poolVars
  <2>1. u # << >> /\ Fits(u[1].pos, n)
    BY <1>1, <1>6 DEF Cursors
  <2> DEFINE w == PlacedIn(u, n)
             r == NextBytes(u, n)
  <2>2. Extends(u, u)
    BY <1>4, ExtendsItself
  <2>3. PICK ps : ps = points[a]
    OBVIOUS
  <2>4. /\ FirstFit(u, n) = 1
        /\ ArenaInv(w, s + n, l \cup {r}, ps) /\ PagesOf(w) = PagesOf(u)
    BY <1>4, <2>1, <2>2, <2>3, SingleGrows
  <2>5. /\ used' = [used EXCEPT ![a] = w] /\ live' = [live EXCEPT ![a] = l \cup {r}]
    BY <1>1, <1>3, <1>6, <2>4 DEF Place, PlacedIn, NextBytes
  <2> HIDE DEF w, r
  <2>6. /\ size' = [size EXCEPT ![a] = s + n]
        /\ memPages' \in Reserved .. MaxPages /\ lent' = lent \cup {}
    BY <1>2, <1>4, <1>6 DEF Count, poolVars
  <2>7. PagesOf(w) = PagesOf(used[a]) \cup {} /\ \A b \in Arenas : {} \cap PagesOf(used[b]) = {}
    BY <1>1, <2>4
  <2> QED
    BY <2>3, <2>4, <2>5, <2>6, <2>7, AllocStep
<1>7. CASE /\ ~Fits(cursor, n) \/ used[a] = << >>
           /\ \E p \in Pool!Pages :
                /\ Pool!LendRun(p, 1)
                /\ Place(a, <<Block(p, 1, 0)>> \o used[a], n)
           /\ Count(a, IF Fits(cursor, n) THEN n + n ELSE n)
  <2>1. PICK p \in Pool!Pages :
          Pool!LendRun(p, 1) /\ Place(a, <<Block(p, 1, 0)>> \o used[a], n)
    BY <1>7
  <2>2. PICK k : k = IF Fits(cursor, n) THEN n + n ELSE n
    OBVIOUS
  <2>3. k \in Nat /\ k > 0
    BY <2>2
  <2>4. PICK v : v = <<Block(p, 1, 0)>> \o u
    OBVIOUS
  <2>5. /\ memPages' \in Reserved .. MaxPages
        /\ lent' = lent \cup Pool!Run(p, 1)
        /\ \A b \in Arenas : Pool!Run(p, 1) \cap PagesOf(used[b]) = {}
    BY <2>1, LentApart
  <2>6. /\ Sound(v, l) /\ v # << >> /\ Extends(v, u) /\ Fits(v[1].pos, n)
        /\ PagesOf(v) = PagesOf(u) \cup Pool!Run(p, 1)
    BY <1>1, <1>4, <2>4, <2>5, PageAdded
  <2> DEFINE w == PlacedIn(v, n)
             r == NextBytes(v, n)
  <2>7. PICK ps : ps = points[a]
    OBVIOUS
  <2>8. /\ FirstFit(v, n) = 1
        /\ ArenaInv(w, s + k, l \cup {r}, ps) /\ PagesOf(w) = PagesOf(v)
    <3>1. ArenaInv(u, s, l, ps)
      BY <1>4, <2>7
    <3>2. Sound(v, l) /\ v # << >> /\ Extends(v, u) /\ Fits(v[1].pos, n)
      BY <2>6
    <3> QED
      BY <2>3, <3>1, <3>2, SingleGrows
  <2>9. /\ used' = [used EXCEPT ![a] = w] /\ live' = [live EXCEPT ![a] = l \cup {r}]
    BY <1>1, <1>3, <2>1, <2>4, <2>8 DEF Place, PlacedIn, NextBytes
  <2> HIDE DEF w, r
  <2>10. size' = [size EXCEPT ![a] = s + k]
    BY <1>2, <1>7, <2>2 DEF Count
  <2>11. PagesOf(w) = PagesOf(used[a]) \cup Pool!Run(p, 1)
    BY <1>1, <2>6, <2>8
  <2> QED
    BY <2>5, <2>7, <2>8, <2>9, <2>10, <2>11, AllocStep
<1> QED
  BY <1>5, <1>6, <1>7

(* alloc-bytes: a request for nothing takes a byte of an empty arena.      *)
LEMMA AllocBytesStep ==
  ASSUME IInv, NEW a \in Arenas, NEW n \in Sizes, AllocBytes(a, n)
  PROVE  IInv'
<1>1. n \in Nat /\ UNCHANGED points
  BY ArenaAssumption DEF AllocBytes
<1>2. CASE n > PageSize - Header /\ AllocMultiple(a, n)
  BY <1>1, <1>2, AllocMultipleStep
<1>3. CASE n \in 1 .. PageSize - Header /\ AllocSingle(a, n)
  <2>1. n > 0 /\ n <= PageSize - Header
    BY <1>1, <1>3
  <2> QED
    BY <1>1, <1>3, <2>1, AllocSingleStep
<1>4. CASE AllocSingle(a, 1)
  <2>1. 1 \in Nat /\ 1 > 0 /\ 1 <= PageSize - Header
    BY Constants
  <2> QED
    BY <1>1, <1>4, <2>1, AllocSingleStep
<1> QED
  BY <1>2, <1>3, <1>4 DEF AllocBytes

(* clear: all pages of the arena go back.                                  *)
LEMMA ClearStep ==
  ASSUME IInv, NEW a \in Arenas, Clear(a)
  PROVE  IInv'
<1>1. /\ used' = [used EXCEPT ![a] = << >>] /\ size' = [size EXCEPT ![a] = 0]
      /\ live' = [live EXCEPT ![a] = {}] /\ points' = [points EXCEPT ![a] = << >>]
      /\ lent' = lent \ PagesOf(used[a]) /\ memPages' = memPages
  BY DEF Clear, FreeBlocks
<1>2. /\ DOMAIN used = Arenas /\ DOMAIN size = Arenas
      /\ DOMAIN live = Arenas /\ DOMAIN points = Arenas
      /\ memPages \in Reserved .. MaxPages
  BY DEF IInv
<1>3. /\ Becomes(used, used', a, << >>) /\ Becomes(size, size', a, 0)
      /\ Becomes(live, live', a, {}) /\ Becomes(points, points', a, << >>)
  BY <1>1, <1>2, Assigned
<1>4. ArenaInv(<< >>, 0, {}, << >>) /\ PagesOf(<< >>) = {}
  BY EmptyArena
<1>5. /\ lent' = (lent \ PagesOf(used[a])) \cup PagesOf(<< >>)
      /\ \A b \in Arenas : b # a => PagesOf(<< >>) \cap PagesOf(used[b]) = {}
  BY <1>1, <1>4
<1>6. memPages' \in Reserved .. MaxPages
  BY <1>1, <1>2
<1> QED
  BY <1>3, <1>4, <1>5, <1>6, StepOfOne

(* save: a point more is held.                                             *)
LEMMA SaveStep ==
  ASSUME IInv, NEW a \in Arenas, Save(a)
  PROVE  IInv'
<1>1. PICK u : u = used[a]
  OBVIOUS
<1>2. PICK s : s = size[a]
  OBVIOUS
<1>3. PICK l : l = live[a]
  OBVIOUS
<1>4. PICK ps : ps = points[a]
  OBVIOUS
<1>5. PICK qs : qs = <<Noted(u, s, l)>> \o ps
  OBVIOUS
<1>6. /\ points' = [points EXCEPT ![a] = qs]
      /\ used' = used /\ size' = size /\ live' = live
      /\ lent' = lent /\ memPages' = memPages
  BY <1>1, <1>2, <1>3, <1>4, <1>5 DEF Save, Noted
<1>7. /\ DOMAIN used = Arenas /\ DOMAIN size = Arenas
      /\ DOMAIN live = Arenas /\ DOMAIN points = Arenas
      /\ memPages \in Reserved .. MaxPages
      /\ lent = UNION {PagesOf(used[b]) : b \in Arenas}
      /\ \A b \in Arenas : a # b => PagesOf(used[a]) \cap PagesOf(used[b]) = {}
      /\ ArenaInv(u, s, l, ps)
  BY <1>1, <1>2, <1>3, <1>4 DEF IInv
<1>8. /\ Becomes(used, used', a, u) /\ Becomes(size, size', a, s)
      /\ Becomes(live, live', a, l) /\ Becomes(points, points', a, qs)
  BY <1>1, <1>2, <1>3, <1>6, <1>7, Assigned
<1>9. ArenaInv(u, s, l, qs)
  BY <1>5, <1>7, SavedArena
<1>10. PagesOf(u) \subseteq lent
  BY <1>1, <1>7
<1>11. /\ lent' = (lent \ PagesOf(used[a])) \cup PagesOf(u)
       /\ \A b \in Arenas : b # a => PagesOf(u) \cap PagesOf(used[b]) = {}
  BY <1>1, <1>6, <1>7, <1>10
<1>12. memPages' \in Reserved .. MaxPages
  BY <1>6, <1>7
<1> QED
  BY <1>8, <1>9, <1>11, <1>12, StepOfOne

(* A restore leaves the blocks and the size there were at the save, also   *)
(* when the arena has no block and is left alone.                          *)
LEMMA RestoreLeaves ==
  ASSUME IInv, NEW a \in Arenas, NEW i \in DOMAIN points[a],
         Restore(a, i)
  PROVE  /\ i \in 1 .. Len(points[a])
         /\ Becomes(used, used', a, points[a][i].used)
         /\ Becomes(size, size', a, points[a][i].size)
         /\ lent' = (lent \ PagesOf(used[a])) \cup PagesOf(points[a][i].used)
         /\ memPages' = memPages
<1> DEFINE p == points[a][i]
<1>1. /\ ArenaInv(used[a], size[a], live[a], points[a])
      /\ DOMAIN used = Arenas /\ DOMAIN size = Arenas
      /\ lent = UNION {PagesOf(used[b]) : b \in Arenas}
  BY DEF IInv
<1>2. points[a] \in Seq(Point)
  BY <1>1 DEF ArenaInv
<1>3. i \in 1 .. Len(points[a])
  BY <1>2
<1>4. /\ Saved(p) /\ Later(used[a], size[a], live[a], p) /\ Sound(used[a], live[a])
      /\ size[a] \in Nat /\ (size[a] = 0 <=> used[a] = << >>)
  BY <1>1, <1>3 DEF ArenaInv
<1>5. /\ p.used \in Seq(BlockType) /\ Len(p.used) <= Len(used[a])
      /\ p.size \in Nat /\ p.size <= size[a]
  BY <1>4 DEF Saved, Point, Later, Extends
<1>6. BlocksKept(a, p) = p.used
  BY <1>1, <1>3, RestoreFinds
<1>7. LET freed == PagesOf(SubSeq(used[a], 1, BlocksSince(a, p))) IN
      freed \cup PagesOf(p.used) = PagesOf(used[a]) /\ freed \cap PagesOf(p.used) = {}
  BY <1>1, <1>3, PagesSplit
<1>8. PagesOf(used[a]) \subseteq lent
  BY <1>1
<1>9. \/ /\ used[a] # << >>
         /\ FreeBlocks(SubSeq(used[a], 1, BlocksSince(a, p)))
         /\ used' = [used EXCEPT ![a] = BlocksKept(a, p)]
         /\ size' = [size EXCEPT ![a] = p.size]
      \/ used[a] = << >> /\ UNCHANGED <<lent, memPages, used, size>>
  BY DEF Restore
<1> HIDE DEF p
<1>10. CASE /\ FreeBlocks(SubSeq(used[a], 1, BlocksSince(a, p)))
            /\ used' = [used EXCEPT ![a] = BlocksKept(a, p)]
            /\ size' = [size EXCEPT ![a] = p.size]
  <2>1. Becomes(used, used', a, p.used) /\ Becomes(size, size', a, p.size)
    BY <1>1, <1>6, <1>10, Assigned
  <2>2. /\ lent' = lent \ PagesOf(SubSeq(used[a], 1, BlocksSince(a, p)))
        /\ memPages' = memPages
    BY <1>10 DEF FreeBlocks
  <2>3. lent' = (lent \ PagesOf(used[a])) \cup PagesOf(p.used)
    BY <1>7, <1>8, <2>2
  <2> QED
    BY <1>3, <2>1, <2>2, <2>3 DEF p
<1>11. CASE used[a] = << >> /\ UNCHANGED <<lent, memPages, used, size>>
  <2>1. Len(p.used) = 0
    BY <1>5, <1>11
  <2>2. p.used = used[a]
    BY <1>5, <1>11, <2>1
  <2>3. p.size = size[a]
    BY <1>4, <1>5, <1>11
  <2>4. Becomes(used, used', a, p.used) /\ Becomes(size, size', a, p.size)
    BY <1>1, <1>11, <2>2, <2>3, Assigned
  <2>5. lent' = (lent \ PagesOf(used[a])) \cup PagesOf(p.used)
    BY <1>8, <1>11, <2>2
  <2> QED
    BY <1>3, <1>11, <2>4, <2>5 DEF p
<1> QED
  BY <1>9, <1>10, <1>11

(* restore: the arena is what it was, and the points since are gone.       *)
LEMMA RestoreStep ==
  ASSUME IInv, NEW a \in Arenas, NEW i \in DOMAIN points[a],
         Restore(a, i)
  PROVE  IInv'
<1>1. PICK p : p = points[a][i]
  OBVIOUS
<1>2. PICK qs : qs = SubSeq(points[a], i + 1, Len(points[a]))
  OBVIOUS
<1>3. /\ ArenaInv(used[a], size[a], live[a], points[a])
      /\ DOMAIN live = Arenas /\ DOMAIN points = Arenas
      /\ memPages \in Reserved .. MaxPages
      /\ lent = UNION {PagesOf(used[b]) : b \in Arenas}
      /\ \A b \in Arenas : a # b => PagesOf(used[a]) \cap PagesOf(used[b]) = {}
  BY DEF IInv
<1>4. /\ i \in 1 .. Len(points[a])
      /\ Becomes(used, used', a, p.used) /\ Becomes(size, size', a, p.size)
      /\ lent' = (lent \ PagesOf(used[a])) \cup PagesOf(p.used)
      /\ memPages' \in Reserved .. MaxPages
  BY <1>1, <1>3, RestoreLeaves
<1>5. /\ live' = [live EXCEPT ![a] = p.live]
      /\ points' = [points EXCEPT ![a] = qs]
  BY <1>1, <1>2 DEF Restore
<1>6. Becomes(live, live', a, p.live) /\ Becomes(points, points', a, qs)
  BY <1>3, <1>5, Assigned
<1>7. ArenaInv(p.used, p.size, p.live, qs)
  BY <1>1, <1>2, <1>3, <1>4, RestoredArena
<1>8. PagesOf(p.used) \subseteq PagesOf(used[a])
  BY <1>1, <1>3, <1>4, PagesSplit
<1>9. \A b \in Arenas : b # a => PagesOf(p.used) \cap PagesOf(used[b]) = {}
  BY <1>3, <1>8
<1> QED
  BY <1>4, <1>6, <1>7, <1>9, StepOfOne

(* Every step keeps the invariant.                                         *)
LEMMA NextInv == ASSUME IInv, [ArenaNext]_arenaVars PROVE IInv'
<1>1. CASE UNCHANGED arenaVars
  <2>1. /\ used' = used /\ size' = size /\ live' = live /\ points' = points
        /\ lent' = lent /\ memPages' = memPages
    BY <1>1 DEF arenaVars
  <2> QED
    BY <2>1 DEF IInv
<1>2. ASSUME NEW a \in Arenas,
             \/ \E n \in Sizes : AllocBytes(a, n)
             \/ Clear(a)
             \/ Save(a)
             \/ \E i \in DOMAIN points[a] : Restore(a, i)
      PROVE  IInv'
  <2>1. CASE \E n \in Sizes : AllocBytes(a, n)
    BY <2>1, AllocBytesStep
  <2>2. CASE Clear(a)
    BY <2>2, ClearStep
  <2>3. CASE Save(a)
    BY <2>3, SaveStep
  <2>4. CASE \E i \in DOMAIN points[a] : Restore(a, i)
    BY <2>4, RestoreStep
  <2> QED
    BY <1>2, <2>1, <2>2, <2>3, <2>4
<1> QED
  BY <1>1, <1>2 DEF ArenaNext

-----------------------------------------------------------------------------
(* The bytes of all arenas, counted.                                       *)

(* The bytes of the arenas in A whose sizes are f, one by one.             *)
BytesIn(A, f) == UNION {{a} \X (1 .. f[a]) : a \in A}

(* There are finitely many.                                                *)
LEMMA FinitelyMany ==
  ASSUME NEW A, IsFiniteSet(A), NEW f, \A a \in A : f[a] \in Nat
  PROVE  IsFiniteSet(BytesIn(A, f))
<1> DEFINE T == {{a} \X (1 .. f[a]) : a \in A}
           g == [a \in A |-> {a} \X (1 .. f[a])]
<1>1. g \in Surjection(A, T)
  BY DEF Surjection
<1>2. IsFiniteSet(T)
  BY <1>1, FS_Surjection
<1>3. ASSUME NEW a \in A
      PROVE  IsFiniteSet({a} \X (1 .. f[a]))
  <2>1. IsFiniteSet(1 .. f[a])
    BY FS_Interval
  <2> QED
    BY <2>1, FS_Singleton, FS_Product
<1>4. \A S \in T : IsFiniteSet(S)
  BY <1>3
<1> HIDE DEF T
<1>5. IsFiniteSet(UNION T)
  BY <1>2, <1>4, FS_UNION
<1> QED
  BY <1>5 DEF T, BytesIn

(* Those of one arena are as many as its size, and of no other.            *)
LEMMA BytesOfOne ==
  ASSUME NEW A, IsFiniteSet(A), NEW f, \A b \in A : f[b] \in Nat, NEW a \in A
  PROVE  /\ Cardinality(BytesIn(A \ {a}, f)) \in Nat
         /\ Cardinality(BytesIn(A, f)) = Cardinality(BytesIn(A \ {a}, f)) + f[a]
<1> DEFINE own == {a} \X (1 .. f[a])
           others == BytesIn(A \ {a}, f)
<1>1. IsFiniteSet(others)
  <2>1. IsFiniteSet(A \ {a}) /\ \A b \in A \ {a} : f[b] \in Nat
    BY FS_RemoveElement
  <2> QED
    BY <2>1, FinitelyMany
<1>2. IsFiniteSet(own) /\ Cardinality(own) = f[a]
  <2>1. ASSUME NEW n \in Nat
        PROVE  IsFiniteSet(1 .. n) /\ Cardinality(1 .. n) = n
    <3>1. /\ IsFiniteSet(1 .. n)
          /\ Cardinality(1 .. n) = IF 1 > n THEN 0 ELSE n - 1 + 1
      BY ONLY n \in Nat, FS_Interval
    <3> QED
      BY <3>1
  <2>2. IsFiniteSet({a}) /\ Cardinality({a}) = 1
    BY FS_Singleton
  <2>3. ASSUME NEW S, NEW D, IsFiniteSet(S), IsFiniteSet(D),
               Cardinality(S) = 1, Cardinality(D) \in Nat
        PROVE  IsFiniteSet(S \X D) /\ Cardinality(S \X D) = Cardinality(D)
    <3>1. IsFiniteSet(S \X D) /\ Cardinality(S \X D) = Cardinality(S) * Cardinality(D)
      BY ONLY IsFiniteSet(S), IsFiniteSet(D), FS_Product
    <3> QED
      BY <2>3, <3>1
  <2>4. f[a] \in Nat
    OBVIOUS
  <2>5. IsFiniteSet(1 .. f[a]) /\ Cardinality(1 .. f[a]) = f[a]
    BY <2>1, <2>4
  <2>6. IsFiniteSet({a} \X (1 .. f[a])) /\ Cardinality({a} \X (1 .. f[a])) = f[a]
    BY <2>2, <2>3, <2>4, <2>5
  <2> QED
    BY <2>6
<1>3. BytesIn(A, f) = others \cup own /\ others \cap own = {}
  BY DEF BytesIn
<1>4. Cardinality(others) \in Nat
  BY <1>1, FS_CardinalityType
<1> HIDE DEF own, others
<1>5. Cardinality(others \cup own) = Cardinality(others) + f[a] - Cardinality({})
  BY <1>1, <1>2, <1>3, FS_Union
<1>6. Cardinality(others \cup own) = Cardinality(others) + f[a]
  BY <1>4, <1>5, FS_EmptySet
<1> QED
  BY <1>3, <1>4, <1>6 DEF others

(* When the size of one arena changes, their number does by as much.       *)
LEMMA BytesChange ==
  ASSUME NEW f, NEW g, NEW a \in Arenas, NEW v \in Nat, Becomes(f, g, a, v),
         \A b \in Arenas : f[b] \in Nat
  PROVE  Cardinality(BytesIn(Arenas, g)) = Cardinality(BytesIn(Arenas, f)) - f[a] + v
<1>1. IsFiniteSet(Arenas)
  BY ArenaAssumption
<1>2. g[a] = v /\ \A b \in Arenas : b # a => g[b] = f[b]
  BY DEF Becomes
<1>3. \A b \in Arenas : g[b] \in Nat
  BY <1>2
<1>4. BytesIn(Arenas \ {a}, g) = BytesIn(Arenas \ {a}, f)
  BY <1>2 DEF BytesIn
<1>5. PICK n : n = Cardinality(BytesIn(Arenas \ {a}, f))
  OBVIOUS
<1>6. n \in Nat /\ Cardinality(BytesIn(Arenas, f)) = n + f[a]
  BY <1>1, <1>5, BytesOfOne
<1>7. Cardinality(BytesIn(Arenas, g)) = n + v
  BY <1>1, <1>2, <1>3, <1>4, <1>5, BytesOfOne
<1>8. f[a] \in Nat
  OBVIOUS
<1> QED
  BY <1>6, <1>7, <1>8

(* Whatever an operation adds to the size of its arena or takes from it,   *)
(* it tells ACTIVE_MEMORY.                                                 *)
LEMMA Told ==
  ASSUME IInv, activeMemory \in Int, NEW a \in Arenas,
         \/ \E n \in Sizes : AllocBytes(a, n)
         \/ Clear(a)
         \/ Save(a)
         \/ \E i \in DOMAIN points[a] : Restore(a, i)
  PROVE  /\ \E v \in Nat : /\ Becomes(size, size', a, v)
                           /\ activeMemory' = activeMemory - size[a] + v
         /\ size' = size \/ \E w : size' = [size EXCEPT ![a] = w]
<1>1. ArenaInv(used[a], size[a], live[a], points[a]) /\ DOMAIN size = Arenas
  BY DEF IInv
<1>2. size[a] \in Nat
  BY <1>1 DEF ArenaInv
<1>3. CASE \E n \in Sizes : AllocBytes(a, n)
  <2>1. PICK n \in Sizes : AllocBytes(a, n)
    BY <1>3
  <2>2. n \in Nat
    BY ArenaAssumption
  <2>3. \E k \in Nat : Count(a, k)
    <3>1. ASSUME NEW m \in Nat, AllocSingle(a, m) PROVE \E k \in Nat : Count(a, k)
      <4>1. m + m \in Nat
        OBVIOUS
      <4> QED
        BY <3>1, <4>1 DEF AllocSingle
    <3>2. CASE AllocMultiple(a, n)
      BY <2>2, <3>2 DEF AllocMultiple
    <3> QED
      BY <2>1, <2>2, <3>1, <3>2 DEF AllocBytes
  <2>4. PICK k \in Nat : Count(a, k)
    BY <2>3
  <2>5. size' = [size EXCEPT ![a] = size[a] + k] /\ activeMemory' = activeMemory + k
    BY <2>4 DEF Count
  <2>6. Becomes(size, size', a, size[a] + k)
    BY <1>1, <2>5, Assigned
  <2>7. size[a] + k \in Nat /\ activeMemory' = activeMemory - size[a] + (size[a] + k)
    BY <1>2, <2>5
  <2> QED
    BY <2>5, <2>6, <2>7
<1>4. CASE Clear(a)
  <2>1. size' = [size EXCEPT ![a] = 0] /\ activeMemory' = activeMemory - size[a]
    BY <1>4 DEF Clear
  <2>2. Becomes(size, size', a, 0)
    BY <1>1, <2>1, Assigned
  <2>3. activeMemory' = activeMemory - size[a] + 0
    BY <1>2, <2>1
  <2> QED
    BY <2>1, <2>2, <2>3
<1>5. CASE Save(a)
  <2>1. size' = size /\ activeMemory' = activeMemory
    BY <1>5 DEF Save
  <2>2. Becomes(size, size', a, size[a])
    BY <1>1, <2>1 DEF Becomes
  <2>3. activeMemory' = activeMemory - size[a] + size[a]
    BY <1>2, <2>1
  <2> QED
    BY <1>2, <2>1, <2>2, <2>3
<1>6. CASE \E i \in DOMAIN points[a] : Restore(a, i)
  <2>1. PICK i \in DOMAIN points[a] : Restore(a, i)
    BY <1>6
  <2>2. i \in 1 .. Len(points[a]) /\ Becomes(size, size', a, points[a][i].size)
    BY <2>1, RestoreLeaves
  <2>3. points[a][i].size \in Nat
    <3>1. points[a] \in Seq(Point)
      BY <1>1 DEF ArenaInv
    <3>2. points[a][i] \in Point
      BY <2>2, <3>1
    <3> QED
      BY <3>2 DEF Point
  <2>4. activeMemory' = activeMemory - (size[a] - points[a][i].size)
    BY <2>1 DEF Restore
  <2>5. size' = size \/ \E w : size' = [size EXCEPT ![a] = w]
    BY <2>1 DEF Restore
  <2>6. activeMemory' = activeMemory - size[a] + points[a][i].size
    BY <1>2, <2>3, <2>4
  <2> QED
    BY <2>2, <2>3, <2>5, <2>6
<1> QED
  BY <1>3, <1>4, <1>5, <1>6

-----------------------------------------------------------------------------
(* Types, and the count.                                                   *)

CountInv ==
  /\ size \in [Arenas -> Nat]
  /\ lent \subseteq Pool!Pages
  /\ activeMemory = Cardinality(BytesIn(Arenas, size))

(* Only pages of the memory are ever lent.                                 *)
LEMMA LentTyped ==
  ASSUME IInv, lent \subseteq Pool!Pages, NEW a \in Arenas,
         \/ \E n \in Sizes : AllocBytes(a, n)
         \/ Clear(a)
         \/ Save(a)
         \/ \E i \in DOMAIN points[a] : Restore(a, i)
  PROVE  lent' \subseteq Pool!Pages
<1>1. ASSUME NEW first, NEW n, Pool!LendRun(first, n)
      PROVE  lent' \subseteq Pool!Pages
  <2>1. memPages' \in Reserved .. MaxPages
    BY <1>1, LentApart
  <2>2. /\ Pool!Run(first, n) \subseteq Reserved .. memPages' - 1
        /\ lent' = lent \cup Pool!Run(first, n)
    BY <1>1 DEF Pool!LendRun
  <2>3. Reserved .. memPages' - 1 \subseteq Reserved .. MaxPages - 1
    <3>1. PICK m : m = memPages'
      OBVIOUS
    <3>2. m \in Nat /\ m <= MaxPages
      BY <2>1, <3>1, Constants
    <3>3. Reserved .. m - 1 \subseteq Reserved .. MaxPages - 1
      BY <3>2, Constants
    <3> QED
      BY <3>1, <3>3
  <2> QED
    BY <2>2, <2>3, Constants
<1>2. ASSUME NEW blocks, FreeBlocks(blocks)
      PROVE  lent' \subseteq Pool!Pages
  BY <1>2 DEF FreeBlocks
<1>3. CASE \E n \in Sizes : AllocBytes(a, n)
  <2>1. ASSUME NEW n, AllocSingle(a, n)
        PROVE  lent' \subseteq Pool!Pages
    BY <1>1, <2>1 DEF AllocSingle, poolVars
  <2>2. ASSUME NEW n, AllocMultiple(a, n)
        PROVE  lent' \subseteq Pool!Pages
    BY <1>1, <2>2 DEF AllocMultiple
  <2> QED
    BY <1>3, <2>1, <2>2 DEF AllocBytes
<1>4. CASE Clear(a)
  BY <1>2, <1>4 DEF Clear
<1>5. CASE Save(a)
  BY <1>5 DEF Save
<1>6. CASE \E i \in DOMAIN points[a] : Restore(a, i)
  BY <1>2, <1>6 DEF Restore
<1> QED
  BY <1>3, <1>4, <1>5, <1>6

(* The count is a natural number.                                          *)
LEMMA CountedNat == ASSUME CountInv PROVE activeMemory \in Nat
<1>1. IsFiniteSet(BytesIn(Arenas, size))
  BY ArenaAssumption, FinitelyMany DEF CountInv
<1> QED
  BY <1>1, FS_CardinalityType DEF CountInv

(* In the initial state there is nothing to count.                         *)
LEMMA CountInit == ASSUME ArenaInit PROVE CountInv
<1>1. size = [a \in Arenas |-> 0] /\ activeMemory = 0 /\ lent = {}
  BY DEF ArenaInit
<1>2. \A a \in Arenas : 1 .. size[a] = {}
  BY <1>1
<1>3. BytesIn(Arenas, size) = {}
  BY <1>2 DEF BytesIn
<1> QED
  BY <1>1, <1>3, FS_EmptySet DEF CountInv

(* Every step keeps the count.                                             *)
LEMMA CountNext ==
  ASSUME IInv, CountInv, [ArenaNext]_arenaVars
  PROVE  CountInv'
<1>1. CASE UNCHANGED arenaVars
  <2>1. size' = size /\ lent' = lent /\ activeMemory' = activeMemory
    BY <1>1 DEF arenaVars
  <2> QED
    BY <2>1 DEF CountInv
<1>2. ASSUME NEW a \in Arenas,
             \/ \E n \in Sizes : AllocBytes(a, n)
             \/ Clear(a)
             \/ Save(a)
             \/ \E i \in DOMAIN points[a] : Restore(a, i)
      PROVE  CountInv'
  <2>1. activeMemory \in Int
    BY CountedNat
  <2>2. /\ \E v \in Nat : /\ Becomes(size, size', a, v)
                          /\ activeMemory' = activeMemory - size[a] + v
        /\ size' = size \/ \E w : size' = [size EXCEPT ![a] = w]
    BY <1>2, <2>1, Told
  <2>3. PICK v \in Nat : /\ Becomes(size, size', a, v)
                         /\ activeMemory' = activeMemory - size[a] + v
    BY <2>2
  <2>4. PICK f : f = size
    OBVIOUS
  <2>5. f \in [Arenas -> Nat] /\ activeMemory = Cardinality(BytesIn(Arenas, f))
    BY <2>4 DEF CountInv
  <2>6. Cardinality(BytesIn(Arenas, size')) = Cardinality(BytesIn(Arenas, f)) - f[a] + v
    BY <2>3, <2>4, <2>5, BytesChange
  <2>7. activeMemory' = Cardinality(BytesIn(Arenas, size'))
    BY <2>3, <2>4, <2>5, <2>6
  <2>8. lent' \subseteq Pool!Pages
    BY <1>2, LentTyped DEF CountInv
  <2>9. size' \in [Arenas -> Nat]
    <3>1. size' \in [Arenas -> UNION {{size'[b]} : b \in Arenas}]
      BY <2>2, <2>4, <2>5
    <3>2. \A b \in Arenas : size'[b] \in Nat
      BY <2>4, <2>5, <2>3 DEF Becomes
    <3> QED
      BY <3>1, <3>2
  <2> QED
    BY <2>7, <2>8, <2>9 DEF CountInv
<1> QED
  BY <1>1, <1>2 DEF ArenaNext

-----------------------------------------------------------------------------
(* What holds.                                                             *)

(* Arenas, their restore points and the page pool agree at any time.       *)
THEOREM Invariance == ArenaSpec => []IInv
<1>1. ArenaInit => IInv
  BY InitInv
<1>2. IInv /\ [ArenaNext]_arenaVars => IInv'
  BY NextInv
<1> QED
  BY <1>1, <1>2, PTL DEF ArenaSpec

(* No page is leaked, and none is in two blocks: clear and restore give    *)
(* back what their arena owns, whatever was allocated, saved and restored  *)
(* before (std/arena.watim:91-241).                                        *)
THEOREM PagesSafe == ArenaSpec => []PagesOwnedOnce
<1>1. IInv => PagesOwnedOnce
  <2> SUFFICES ASSUME IInv PROVE PagesOwnedOnce
    OBVIOUS
  <2>1. /\ lent = UNION {PagesOf(used[a]) : a \in Arenas}
        /\ \A a, b \in Arenas : a # b => PagesOf(used[a]) \cap PagesOf(used[b]) = {}
    BY DEF IInv
  <2>2. ASSUME NEW a \in Arenas
        PROVE  /\ used[a] \in Seq(BlockType) /\ DOMAIN used[a] = 1 .. Len(used[a])
               /\ \A i, j \in 1 .. Len(used[a]) :
                    i # j => RunOf(used[a][i]) \cap RunOf(used[a][j]) = {}
    <3>1. Sound(used[a], live[a])
      BY DEF IInv, ArenaInv
    <3>2. used[a] \in Seq(BlockType)
      BY <3>1 DEF Sound
    <3>3. \A i, j \in 1 .. Len(used[a]) :
            i # j => RunOf(used[a][i]) \cap RunOf(used[a][j]) = {}
      BY <3>1 DEF Sound
    <3>4. DOMAIN used[a] = 1 .. Len(used[a])
      BY <3>2
    <3> QED
      BY <3>2, <3>3, <3>4
  <2>3. ASSUME NEW a \in Arenas, NEW i \in DOMAIN used[a]
        PROVE  /\ PagesOf(<<used[a][i]>>) = RunOf(used[a][i])
               /\ RunOf(used[a][i]) \subseteq PagesOf(used[a])
    <3>1. PagesOf(<<used[a][i]>>) = RunOf(used[a][i])
      BY DEF PagesOf, RunOf
    <3>2. RunOf(used[a][i]) \subseteq PagesOf(used[a])
      BY DEF PagesOf, RunOf
    <3> QED
      BY <3>1, <3>2
  <2>4. ASSUME NEW a \in Arenas, NEW b \in Arenas,
               NEW i \in DOMAIN used[a], NEW j \in DOMAIN used[b], <<a, i>> # <<b, j>>
        PROVE  PagesOf(<<used[a][i]>>) \cap PagesOf(<<used[b][j]>>) = {}
    <3>1. CASE a = b
      <4>1. i # j
        BY <2>4, <3>1
      <4>2. i \in 1 .. Len(used[a]) /\ j \in 1 .. Len(used[a])
        BY <2>2, <3>1
      <4>3. RunOf(used[a][i]) \cap RunOf(used[a][j]) = {}
        BY <2>2, <4>1, <4>2
      <4> QED
        BY <2>3, <3>1, <4>3
    <3>2. CASE a # b
      BY <2>1, <2>3, <3>2
    <3> QED
      BY <3>1, <3>2
  <2> QED
    BY <2>1, <2>4 DEF PagesOwnedOnce
<1> QED
  BY <1>1, Invariance, PTL

(* The assertions of restore (std/arena.watim:193-203) hold for every      *)
(* point that is held, and its page is still in the arena.                 *)
THEOREM RestoresSafe == ArenaSpec => []NoRestoreTraps
<1>1. IInv => NoRestoreTraps
  <2> SUFFICES ASSUME IInv, NEW a \in Arenas, NEW i \in DOMAIN points[a]
               PROVE  ~ RestoreTraps(a, points[a][i])
    BY DEF NoRestoreTraps
  <2>1. ArenaInv(used[a], size[a], live[a], points[a])
    BY DEF IInv
  <2>2. points[a] \in Seq(Point)
    BY <2>1 DEF ArenaInv
  <2>3. i \in 1 .. Len(points[a])
    BY <2>2
  <2> QED
    BY <2>1, <2>3, NoTrap
<1> QED
  BY <1>1, Invariance, PTL

(* No two allocations overlap, each has its bytes in a block its arena     *)
(* has, and a restore clears no byte that was handed out before its save   *)
(* (std/arena.watim:87-214).                                               *)
THEOREM BytesSafe == ArenaSpec => []AllocationsIntact
<1>1. IInv => AllocationsIntact
  <2> SUFFICES ASSUME IInv PROVE AllocationsIntact
    OBVIOUS
  <2>1. \A a, b \in Arenas : a # b => PagesOf(used[a]) \cap PagesOf(used[b]) = {}
    BY DEF IInv
  <2>2. ASSUME NEW a \in Arenas
        PROVE  /\ used[a] \in Seq(BlockType)
               /\ DOMAIN used[a] = 1 .. Len(used[a])
               /\ \A r \in live[a] : \E k \in 1 .. Len(used[a]) : r \subseteq Span(used[a][k])
               /\ \A r, s \in live[a] : r \cap s # {} => r = s
    <3>1. Sound(used[a], live[a])
      BY DEF IInv, ArenaInv
    <3>2. used[a] \in Seq(BlockType)
      BY <3>1 DEF Sound
    <3> QED
      BY <3>1, <3>2 DEF Sound
  <2>3. ASSUME NEW a \in Arenas, NEW b \in Arenas, NEW r \in live[a], NEW s \in live[b],
               a # b
        PROVE  r \cap s = {}
    <3>1. PICK k \in 1 .. Len(used[a]) : r \subseteq Span(used[a][k])
      BY <2>2
    <3>2. PICK m \in 1 .. Len(used[b]) : s \subseteq Span(used[b][m])
      BY <2>2
    <3>3. used[a][k] \in BlockType /\ used[b][m] \in BlockType
      BY <2>2
    <3>4. RunOf(used[a][k]) \cap RunOf(used[b][m]) = {}
      <4>1. /\ \A p \in RunOf(used[a][k]) : p \in PagesOf(used[a])
            /\ \A p \in RunOf(used[b][m]) : p \in PagesOf(used[b])
        BY <2>2, PagesOfBlocks
      <4> QED
        BY <2>1, <2>3, <4>1
    <3>5. Area(used[a][k]) \cap Area(used[b][m]) = {}
      BY <3>3, <3>4, AreasApart
    <3>6. r \subseteq Area(used[a][k]) /\ s \subseteq Area(used[b][m])
      BY <3>1, <3>2, <3>3, BytesInArea
    <3> QED
      BY <3>5, <3>6
  <2>4. \A a, b \in Arenas : \A r \in live[a], s \in live[b] :
          r \cap s # {} => a = b /\ r = s
    BY <2>2, <2>3
  <2>5. ASSUME NEW a \in Arenas, NEW r \in live[a]
        PROVE  \E k \in DOMAIN used[a] : r \subseteq Span(used[a][k])
    BY <2>2
  <2>6. ASSUME NEW a \in Arenas, NEW i \in DOMAIN points[a], NEW r \in points[a][i].live
        PROVE  r \cap BytesCleared(a, points[a][i]) = {}
    <3>1. ArenaInv(used[a], size[a], live[a], points[a])
      BY DEF IInv
    <3>2. points[a] \in Seq(Point)
      BY <3>1 DEF ArenaInv
    <3>3. i \in 1 .. Len(points[a])
      BY <3>2
    <3> QED
      BY <3>1, <3>3, ClearsNothingOlder
  <2> QED
    BY <2>4, <2>5, <2>6 DEF AllocationsIntact, Span
<1> QED
  BY <1>1, Invariance, PTL

(* A restore takes the arena's blocks, their cursors and its size back to  *)
(* what they were when the point was saved (std/arena.watim:193-214).      *)
THEOREM RestoresExactly == ArenaSpec => RestoreUndoes
<1>1. ASSUME IInv, NEW a \in Arenas, NEW i \in DOMAIN points[a], Restore(a, i)
      PROVE  /\ (used[a])' = points[a][i].used
             /\ (size[a])' = points[a][i].size
  BY <1>1, RestoreLeaves DEF Becomes
<1>2. IInv => \A a \in Arenas : \A i \in DOMAIN points[a] :
                Restore(a, i) => /\ (used[a])' = points[a][i].used
                                 /\ (size[a])' = points[a][i].size
  BY <1>1
<1> QED
  BY <1>2, Invariance, PTL DEF RestoreUndoes

(* The count is right at any time.                                         *)
THEOREM Counting == ArenaSpec => []CountInv
<1>1. ArenaInit => CountInv
  BY CountInit
<1>2. IInv /\ CountInv /\ [ArenaNext]_arenaVars => CountInv'
  BY CountNext
<1> QED
  BY <1>1, <1>2, Invariance, PTL DEF ArenaSpec

(* The tables of the arenas keep their types, for any number of arenas and *)
(* any sizes of memory and of a page: cursors stay within their page.      *)
THEOREM WellTyped == ArenaSpec => []ArenaTypeOK
<1>1. IInv /\ CountInv => ArenaTypeOK
  <2> SUFFICES ASSUME IInv, CountInv PROVE ArenaTypeOK
    OBVIOUS
  <2>1. ASSUME NEW a \in Arenas, NEW k \in DOMAIN used[a]
        PROVE  /\ used[a][k].n \in Nat \ {0}
               /\ used[a][k].pos \in 0 .. PageSize - Header
               /\ used[a][k].first \in Pool!Pages
    <3>1. used[a] \in Seq(BlockType)
      BY DEF IInv, ArenaInv, Sound
    <3>2. used[a][k] \in BlockType
      BY <3>1
    <3> QED
      BY <3>2 DEF BlockType
  <2>2. activeMemory \in Nat
    BY CountedNat
  <2> QED
    BY <2>1, <2>2 DEF ArenaTypeOK, CountInv
<1> QED
  BY <1>1, Invariance, Counting, PTL

(* ACTIVE_MEMORY is exact, and it is 0 when, and only when, every page has *)
(* been given back: the compiler, which ends by looking at it, reports a   *)
(* leak when, and only when, there is one (native/active-memory.watim:7,   *)
(* std/arena.watim:87-241).                                                *)
THEOREM CountExact == ArenaSpec => []ActiveMemoryExact
<1>1. IInv /\ CountInv => ActiveMemoryExact
  <2> SUFFICES ASSUME IInv, CountInv PROVE ActiveMemoryExact
    OBVIOUS
  <2>1. BytesInUse = BytesIn(Arenas, size)
    BY DEF BytesInUse, BytesIn
  <2>2. IsFiniteSet(BytesIn(Arenas, size))
    BY ArenaAssumption, FinitelyMany DEF CountInv
  <2>3. activeMemory = 0 <=> BytesIn(Arenas, size) = {}
    BY <2>2, FS_EmptySet DEF CountInv
  <2>4. BytesIn(Arenas, size) = {} <=> \A a \in Arenas : size[a] = 0
    <3>1. ASSUME NEW a \in Arenas
          PROVE  {a} \X (1 .. size[a]) = {} <=> size[a] = 0
      <4>1. size[a] \in Nat
        BY DEF CountInv
      <4>2. CASE size[a] = 0
        BY <4>2
      <4>3. CASE size[a] # 0
        <5>1. 1 \in 1 .. size[a]
          BY <4>1, <4>3
        <5>2. <<a, 1>> \in {a} \X (1 .. size[a])
          BY <5>1
        <5> QED
          BY <4>3, <5>2
      <4> QED
        BY <4>2, <4>3
    <3> QED
      BY <3>1 DEF BytesIn
  <2>5. ASSUME NEW a \in Arenas
        PROVE  size[a] = 0 <=> PagesOf(used[a]) = {}
    <3>1. Sound(used[a], live[a]) /\ (size[a] = 0 <=> used[a] = << >>)
      BY DEF IInv, ArenaInv
    <3>2. used[a] \in Seq(BlockType)
      BY <3>1 DEF Sound
    <3>3. CASE used[a] = << >>
      BY <3>1, <3>3, EmptyArena
    <3>4. CASE used[a] # << >>
      <4>1. 1 \in 1 .. Len(used[a]) /\ used[a][1] \in BlockType
        BY <3>2, <3>4
      <4>2. used[a][1].first \in RunOf(used[a][1])
        BY <4>1, BlockFacts DEF RunOf, Pool!Run
      <4>3. used[a][1].first \in PagesOf(used[a])
        BY <3>2, <4>1, <4>2, PagesOfBlocks
      <4> QED
        BY <3>1, <3>4, <4>3
    <3> QED
      BY <3>3, <3>4
  <2>6. lent = {} <=> \A a \in Arenas : PagesOf(used[a]) = {}
    BY DEF IInv
  <2>7. lent = {} <=> \A a \in Arenas : size[a] = 0
    BY <2>5, <2>6
  <2>8. activeMemory = Cardinality(BytesInUse)
    BY <2>1 DEF CountInv
  <2> QED
    BY <2>3, <2>4, <2>7, <2>8 DEF ActiveMemoryExact
<1> QED
  BY <1>1, Invariance, Counting, PTL

-----------------------------------------------------------------------------
(* How functions use arenas.                                               *)

(* Why two are enough.  If a frame's result goes to the scratch arena of   *)
(* an outer frame, the frame that needs the result is the innermost one    *)
(* with that scratch arena: all frames between were given it, too, and     *)
(* temp answered the other one.                                            *)
ResultsGoToInnermost ==
  \A d \in 1 .. Depth :
    /\ frames[d].owner < d
    /\ \A k \in 1 .. d :
         frames[k].temp = frames[d].persistent => k <= frames[d].owner
    /\ frames[d].persistent \in Temps =>
         /\ frames[d].owner # 0
         /\ frames[frames[d].owner].temp = frames[d].persistent

(* The outermost user of a scratch arena found it empty.                   *)
FirstMarkIsZero ==
  ~leaked => \A d \in 1 .. Depth :
    (\A e \in 1 .. d - 1 : frames[e].temp # frames[d].temp) =>
      frames[d].mark = 0

ScratchInv ==
  /\ TypeOK
  /\ ResultsGoToInnermost
  /\ FreesOnlyItsOwn
  /\ MarksNest
  /\ FirstMarkIsZero
  /\ ScratchGivenBack

(* temp answers one of the two scratch arenas, never the one it is given   *)
(* (arena.watim:230-234).                                                  *)
LEMMA TempDiffers ==
  ASSUME NEW p
  PROVE  Temp(p) \in Temps /\ Temp(p) # p
BY DEF Temp, Temps

(* What TypeOK says of each call in progress.                              *)
LEMMA Typed ==
  ASSUME TypeOK
  PROVE  /\ frames \in Seq(Frame) /\ Depth \in Nat /\ Depth = Len(frames)
         /\ heap \in [AllArenas -> Seq(Nat)] /\ leaked \in BOOLEAN
         /\ \A d \in 1 .. Depth : frames[d] \in Frame
<1>1. frames \in Seq(Frame) /\ Depth = Len(frames)
  BY DEF TypeOK, Depth
<1>2. Depth \in Nat
  BY <1>1
<1>3. \A d \in 1 .. Depth : frames[d] \in Frame
  BY <1>1, <1>2
<1> QED
  BY <1>1, <1>2, <1>3 DEF TypeOK

(* Dropping the innermost frame keeps what is said about the others, if    *)
(* their scratch arenas keep what lies before their marks.                 *)
LEMMA FrameFacts ==
  ASSUME TypeOK, Depth > 0
  PROVE  /\ Depth \in Nat \ {0}
         /\ Top = frames[Depth]
         /\ Top \in Frame
         /\ SubSeq(frames, 1, Depth - 1) \in Seq(Frame)
         /\ Len(SubSeq(frames, 1, Depth - 1)) = Depth - 1
         /\ \A d \in 1 .. Depth - 1 : SubSeq(frames, 1, Depth - 1)[d] = frames[d]
<1>1. frames \in Seq(Frame) /\ Depth = Len(frames)
  BY DEF TypeOK, Depth
<1>2. Depth \in Nat \ {0}
  BY <1>1
<1>3. Top = frames[Depth] /\ Top \in Frame
  BY <1>1, <1>2 DEF Top
<1>4. /\ SubSeq(frames, 1, Depth - 1) \in Seq(Frame)
      /\ Len(SubSeq(frames, 1, Depth - 1)) = Depth - 1
      /\ \A d \in 1 .. Depth - 1 : SubSeq(frames, 1, Depth - 1)[d] = frames[d]
  BY <1>1, <1>2
<1> QED
  BY <1>2, <1>3, <1>4

LEMMA ScratchInitInv == Init => ScratchInv
<1> SUFFICES ASSUME Init PROVE ScratchInv
  OBVIOUS
<1>1. frames = << >> /\ Depth = 0 /\ leaked = FALSE
  BY DEF Init, Depth
<1>2. TypeOK
  <2>1. frames \in Seq(Frame)
    <3>1. << >> \in Seq(Frame)
      OBVIOUS
    <3> QED
      BY <1>1, <3>1
  <2>2. << >> \in Seq(Nat)
    OBVIOUS
  <2>3. heap \in [AllArenas -> Seq(Nat)]
    BY <2>2 DEF Init
  <2> QED
    BY <1>1, <2>1, <2>3 DEF TypeOK
<1>3. ScratchGivenBack
  BY DEF Init, ScratchGivenBack, AllArenas
<1> QED
  BY <1>1, <1>2, <1>3 DEF ScratchInv, ResultsGoToInnermost, FreesOnlyItsOwn,
       MarksNest, FirstMarkIsZero

(* Entering a function keeps the invariant.                                *)
LEMMA CallStep ==
  ASSUME ScratchInv, NEW p \in Persistents, Call(p)
  PROVE  ScratchInv'
<1> DEFINE t == Temp(p.arena)
           new == [persistent |-> p.arena, owner |-> p.owner,
                   temp |-> t, mark |-> Len(heap[t])]
<1>1. /\ frames \in Seq(Frame) /\ Depth \in Nat /\ Depth = Len(frames)
      /\ heap \in [AllArenas -> Seq(Nat)] /\ leaked \in BOOLEAN
      /\ \A d \in 1 .. Depth : frames[d] \in Frame
  BY Typed DEF ScratchInv
<1>2. t \in Temps /\ t # p.arena /\ t \in AllArenas
  BY TempDiffers DEF AllArenas
<1>3. Len(heap[t]) \in Nat
  BY <1>1, <1>2
<1>4. /\ p.arena \in AllArenas \cup {None}
      /\ p.owner \in Nat /\ p.owner < Depth + 1
      /\ \A k \in 1 .. Depth : frames[k].temp = p.arena => k <= p.owner
      /\ p.arena \in Temps => p.owner \in 1 .. Depth /\ frames[p.owner].temp = p.arena
  <2>1. CASE p \in [arena : Bases, owner : {0}]
    <3>1. p.arena \in Bases /\ p.owner = 0 /\ p.arena \notin Temps
      BY <2>1, ScratchAssumption DEF Temps
    <3>2. \A k \in 1 .. Depth : frames[k].temp \in Temps
      BY <1>1 DEF Frame
    <3> QED
      BY <1>1, <3>1, <3>2 DEF AllArenas
  <2>2. CASE p = [arena |-> None, owner |-> 0]
    <3>1. p.arena = None /\ p.owner = 0 /\ None \notin Temps
      BY <2>2 DEF None, Temps
    <3>2. \A k \in 1 .. Depth : frames[k].temp \in Temps
      BY <1>1 DEF Frame
    <3> QED
      BY <1>1, <3>1, <3>2
  <2>3. CASE Depth # 0 /\ p = [arena |-> Top.persistent, owner |-> Top.owner]
    <3>1. Depth \in 1 .. Depth /\ Top = frames[Depth] /\ Top \in Frame
      BY <1>1, <2>3, FrameFacts DEF ScratchInv
    <3>2. p.arena = frames[Depth].persistent /\ p.owner = frames[Depth].owner
      BY <2>3, <3>1
    <3>3. p.arena \in AllArenas \cup {None} /\ p.owner \in Nat
      BY <3>1, <3>2 DEF Frame
    <3>4. /\ p.owner < Depth
          /\ \A k \in 1 .. Depth : frames[k].temp = p.arena => k <= p.owner
          /\ p.arena \in Temps => p.owner # 0 /\ frames[p.owner].temp = p.arena
      BY <3>1, <3>2 DEF ScratchInv, ResultsGoToInnermost
    <3> QED
      BY <1>1, <3>3, <3>4
  <2>4. CASE Depth # 0 /\ p = [arena |-> Top.temp, owner |-> Depth]
    <3>1. Depth \in 1 .. Depth /\ Top = frames[Depth] /\ Top \in Frame
      BY <1>1, <2>4, FrameFacts DEF ScratchInv
    <3>2. p.arena = frames[Depth].temp /\ p.owner = Depth
      BY <2>4, <3>1
    <3>3. p.arena \in Temps
      BY <3>1, <3>2 DEF Frame
    <3> QED
      BY <1>1, <3>1, <3>2, <3>3 DEF AllArenas
  <2> QED
    BY <2>1, <2>2, <2>3, <2>4 DEF Persistents
<1>5. new \in Frame
  BY <1>2, <1>3, <1>4 DEF Frame
<1>6. /\ frames' = Append(frames, new) /\ heap' = heap /\ leaked' = leaked
      /\ Depth' = Depth + 1
      /\ frames' \in Seq(Frame)
      /\ \A d \in 1 .. Depth : frames'[d] = frames[d]
      /\ frames'[Depth + 1] = new
  <2>1. frames' = Append(frames, new) /\ heap' = heap /\ leaked' = leaked
    BY DEF Call
  <2> HIDE DEF new
  <2> QED
    BY <1>1, <1>5, <2>1 DEF Depth
<1> HIDE DEF t, new
<1>7. /\ new.persistent = p.arena /\ new.owner = p.owner
      /\ new.temp = t /\ new.mark = Len(heap[t])
  BY DEF new, t
<1>8. \A d \in 1 .. Depth + 1 : d \in 1 .. Depth \/ d = Depth + 1
  BY <1>1
<1>9. TypeOK'
  BY <1>1, <1>6 DEF TypeOK
<1>10. ResultsGoToInnermost'
  <2> SUFFICES ASSUME NEW d \in 1 .. Depth + 1
               PROVE  /\ frames'[d].owner < d
                      /\ \A k \in 1 .. d :
                           frames'[k].temp = frames'[d].persistent
                             => k <= frames'[d].owner
                      /\ frames'[d].persistent \in Temps =>
                           /\ frames'[d].owner # 0
                           /\ frames'[frames'[d].owner].temp
                                = frames'[d].persistent
    BY <1>6 DEF ResultsGoToInnermost
  <2>1. CASE d \in 1 .. Depth
    <3>1. /\ frames[d].owner < d
          /\ \A k \in 1 .. d :
               frames[k].temp = frames[d].persistent => k <= frames[d].owner
          /\ frames[d].persistent \in Temps =>
               /\ frames[d].owner # 0
               /\ frames[frames[d].owner].temp = frames[d].persistent
      BY <1>1, <2>1 DEF ScratchInv, ResultsGoToInnermost
    <3>2. frames'[d] = frames[d] /\ \A k \in 1 .. d : frames'[k] = frames[k]
      BY <1>1, <1>6, <2>1
    <3>3. frames[d].owner # 0 => frames[d].owner \in 1 .. d
      <4>1. frames[d].owner \in Nat
        BY <1>1, <2>1 DEF Frame
      <4> QED
        BY <3>1, <4>1
    <3> QED
      BY <3>1, <3>2, <3>3
  <2>2. CASE d = Depth + 1
    <3>1. \A k \in 1 .. Depth + 1 : k \in 1 .. Depth => frames'[k] = frames[k]
      BY <1>6
    <3>2. /\ frames'[d].owner = p.owner /\ frames'[d].persistent = p.arena
          /\ frames'[d].temp = t
      BY <1>6, <1>7, <2>2
    <3>3. \A k \in 1 .. d : frames'[k].temp = p.arena => k <= p.owner
      <4> SUFFICES ASSUME NEW k \in 1 .. Depth + 1, frames'[k].temp = p.arena
                   PROVE  k <= p.owner
        BY <2>2
      <4>1. k # Depth + 1
        BY <1>2, <2>2, <3>2
      <4>2. k \in 1 .. Depth
        BY <1>8, <4>1
      <4> QED
        BY <1>4, <3>1, <4>2
    <3>4. p.arena \in Temps =>
            p.owner # 0 /\ frames'[p.owner].temp = p.arena
      BY <1>1, <1>4, <3>1
    <3>5. p.owner < d
      BY <1>4, <2>2
    <3> QED
      BY <3>2, <3>3, <3>4, <3>5
  <2> QED
    BY <1>8, <2>1, <2>2
<1>11. FreesOnlyItsOwn'
  <2> SUFFICES ASSUME NEW d \in 1 .. Depth + 1,
                      NEW i \in 1 .. Len(heap[frames'[d].temp]),
                      i > frames'[d].mark
               PROVE  heap[frames'[d].temp][i] >= d
    BY <1>6 DEF FreesOnlyItsOwn
  <2>1. CASE d \in 1 .. Depth
    BY <1>6, <2>1 DEF ScratchInv, FreesOnlyItsOwn
  <2>2. CASE d = Depth + 1
    <3>1. frames'[d].temp = t /\ frames'[d].mark = Len(heap[t])
      BY <1>6, <1>7, <2>2
    <3>2. i \in 1 .. Len(heap[t]) /\ i > Len(heap[t])
      BY <3>1
    <3> QED
      BY <1>3, <3>2
  <2> QED
    BY <1>8, <2>1, <2>2
<1>12. MarksNest'
  <2>1. \A d \in 1 .. Depth + 1 : frames'[d].mark <= Len(heap[frames'[d].temp])
    <3> SUFFICES ASSUME NEW d \in 1 .. Depth + 1
                 PROVE  frames'[d].mark <= Len(heap[frames'[d].temp])
      OBVIOUS
    <3>1. CASE d \in 1 .. Depth
      BY <1>6, <3>1 DEF ScratchInv, MarksNest
    <3>2. CASE d = Depth + 1
      <4>1. frames'[d].temp = t /\ frames'[d].mark = Len(heap[t])
        BY <1>6, <1>7, <3>2
      <4> QED
        BY <1>3, <4>1
    <3> QED
      BY <1>8, <3>1, <3>2
  <2>2. ASSUME NEW d \in 1 .. Depth + 1, NEW e \in 1 .. Depth + 1, d < e,
               frames'[d].temp = frames'[e].temp
        PROVE  frames'[d].mark <= frames'[e].mark
    <3>1. d \in 1 .. Depth
      BY <1>1, <2>2
    <3>2. CASE e \in 1 .. Depth
      <4>1. frames'[d] = frames[d] /\ frames'[e] = frames[e]
        BY <1>6, <3>1, <3>2
      <4> QED
        BY <2>2, <3>1, <3>2, <4>1 DEF ScratchInv, MarksNest
    <3>3. CASE e = Depth + 1
      <4>1. frames'[e].temp = t /\ frames'[e].mark = Len(heap[t])
        BY <1>6, <1>7, <3>3
      <4>2. frames'[d].mark <= Len(heap[frames'[d].temp])
        BY <2>1
      <4> QED
        BY <2>2, <4>1, <4>2
    <3> QED
      BY <1>8, <3>2, <3>3
  <2> QED
    BY <1>6, <2>1, <2>2 DEF MarksNest
<1>13. FirstMarkIsZero'
  <2> SUFFICES ASSUME ~leaked, NEW d \in 1 .. Depth + 1,
                      \A e \in 1 .. d - 1 : frames'[e].temp # frames'[d].temp
               PROVE  frames'[d].mark = 0
    BY <1>6 DEF FirstMarkIsZero
  <2>1. CASE d \in 1 .. Depth
    <3>1. \A e \in 1 .. d - 1 : frames'[e] = frames[e]
      BY <1>1, <1>6, <2>1
    <3>2. frames'[d] = frames[d]
      BY <1>6, <2>1
    <3> QED
      BY <2>1, <3>1, <3>2 DEF ScratchInv, FirstMarkIsZero
  <2>2. CASE d = Depth + 1
    <3>1. \A e \in 1 .. Depth : frames[e].temp # t
      BY <1>1, <1>6, <1>7, <2>2
    <3>2. heap[t] = << >>
      BY <1>2, <3>1 DEF ScratchInv, ScratchGivenBack
    <3> QED
      BY <1>6, <1>7, <2>2, <3>2
  <2> QED
    BY <1>8, <2>1, <2>2
<1>14. ScratchGivenBack'
  <2> SUFFICES ASSUME ~leaked, NEW a \in Temps,
                      \A d \in 1 .. Depth + 1 : frames'[d].temp # a
               PROVE  heap[a] = << >>
    BY <1>6 DEF ScratchGivenBack
  <2>1. \A d \in 1 .. Depth : frames[d].temp # a
    BY <1>1, <1>6
  <2> QED
    BY <2>1 DEF ScratchInv, ScratchGivenBack
<1> QED
  BY <1>9, <1>10, <1>11, <1>12, <1>13, <1>14 DEF ScratchInv

(* Dropping what is behind the mark of the innermost frame, or nothing,    *)
(* leaves a prefix of every arena that covers the marks of the others.     *)
LEMMA PopStep ==
  ASSUME ScratchInv, Depth > 0, frames' = SubSeq(frames, 1, Depth - 1),
         \/ /\ heap' = [heap EXCEPT ![Top.temp] = SubSeq(@, 1, Top.mark)]
            /\ leaked' = leaked
         \/ heap' = heap /\ leaked' = TRUE
  PROVE  ScratchInv'
<1>1. /\ frames \in Seq(Frame) /\ Depth \in Nat \ {0} /\ Depth = Len(frames)
      /\ heap \in [AllArenas -> Seq(Nat)] /\ leaked \in BOOLEAN
      /\ \A d \in 1 .. Depth : frames[d] \in Frame
      /\ Top = frames[Depth] /\ Top \in Frame
  BY Typed, FrameFacts DEF ScratchInv
<1>2. /\ frames' \in Seq(Frame) /\ Depth' = Depth - 1
      /\ \A d \in 1 .. Depth - 1 : frames'[d] = frames[d] /\ d \in 1 .. Depth
  BY <1>1, FrameFacts DEF ScratchInv, Depth
<1>3. Top.temp \in AllArenas /\ Top.temp \in Temps /\ Top.mark \in Nat
  BY <1>1 DEF Frame, AllArenas
<1>4. Top.mark <= Len(heap[Top.temp])
  BY <1>1 DEF ScratchInv, MarksNest
<1>5. heap' = heap \/ heap' = [heap EXCEPT ![Top.temp] = SubSeq(@, 1, Top.mark)]
  OBVIOUS
<1>6. /\ SubSeq(heap[Top.temp], 1, Top.mark) \in Seq(Nat)
      /\ Len(SubSeq(heap[Top.temp], 1, Top.mark)) = Top.mark
      /\ \A i \in 1 .. Top.mark :
           SubSeq(heap[Top.temp], 1, Top.mark)[i] = heap[Top.temp][i]
  <2>1. heap[Top.temp] \in Seq(Nat)
    BY <1>1, <1>3
  <2> QED
    BY <1>3, <1>4, <2>1
<1>7. /\ heap' \in [AllArenas -> Seq(Nat)]
      /\ \A a \in AllArenas : a # Top.temp => heap'[a] = heap[a]
      /\ heap'[Top.temp] = heap[Top.temp]
           \/ heap'[Top.temp] = SubSeq(heap[Top.temp], 1, Top.mark)
  BY <1>1, <1>3, <1>5, <1>6
<1>8. \A a \in AllArenas : /\ Len(heap'[a]) \in Nat /\ Len(heap[a]) \in Nat
                        /\ Len(heap'[a]) <= Len(heap[a])
                        /\ \A i \in 1 .. Len(heap'[a]) : heap'[a][i] = heap[a][i]
  <2> SUFFICES ASSUME NEW a \in AllArenas
               PROVE  /\ Len(heap'[a]) \in Nat /\ Len(heap[a]) \in Nat
                      /\ Len(heap'[a]) <= Len(heap[a])
                      /\ \A i \in 1 .. Len(heap'[a]) : heap'[a][i] = heap[a][i]
    OBVIOUS
  <2>1. heap[a] \in Seq(Nat) /\ Len(heap[a]) \in Nat
    BY <1>1
  <2>2. CASE heap'[a] = heap[a]
    BY <2>1, <2>2
  <2>3. CASE a = Top.temp /\ heap'[a] = SubSeq(heap[Top.temp], 1, Top.mark)
    BY <1>3, <1>4, <1>6, <2>1, <2>3
  <2> QED
    BY <1>7, <2>2, <2>3
<1>9. \A d \in 1 .. Depth - 1 :
        /\ frames[d].temp \in AllArenas /\ frames[d].mark \in Nat
        /\ frames[d].owner \in Nat
  BY <1>1, <1>2 DEF Frame, AllArenas
<1>10. TypeOK'
  BY <1>1, <1>2, <1>7 DEF TypeOK
<1>11. ResultsGoToInnermost'
  <2> SUFFICES ASSUME NEW d \in 1 .. Depth - 1
               PROVE  /\ frames'[d].owner < d
                      /\ \A k \in 1 .. d :
                           frames'[k].temp = frames'[d].persistent
                             => k <= frames'[d].owner
                      /\ frames'[d].persistent \in Temps =>
                           /\ frames'[d].owner # 0
                           /\ frames'[frames'[d].owner].temp
                                = frames'[d].persistent
    BY <1>2 DEF ResultsGoToInnermost
  <2>1. /\ frames[d].owner < d
        /\ \A k \in 1 .. d :
             frames[k].temp = frames[d].persistent => k <= frames[d].owner
        /\ frames[d].persistent \in Temps =>
             /\ frames[d].owner # 0
             /\ frames[frames[d].owner].temp = frames[d].persistent
    BY <1>2 DEF ScratchInv, ResultsGoToInnermost
  <2>2. frames'[d] = frames[d] /\ \A k \in 1 .. d : frames'[k] = frames[k]
    BY <1>1, <1>2
  <2>3. frames[d].owner # 0 => frames[d].owner \in 1 .. d
    BY <1>9, <2>1
  <2> QED
    BY <2>1, <2>2, <2>3
<1>12. FreesOnlyItsOwn'
  <2> SUFFICES ASSUME NEW d \in 1 .. Depth - 1,
                      NEW i \in 1 .. Len(heap'[frames[d].temp]),
                      i > frames[d].mark
               PROVE  heap'[frames[d].temp][i] >= d
    BY <1>2 DEF FreesOnlyItsOwn
  <2>1. i \in 1 .. Len(heap[frames[d].temp])
    BY <1>8, <1>9
  <2>2. heap[frames[d].temp][i] >= d
    BY <1>2, <2>1 DEF ScratchInv, FreesOnlyItsOwn
  <2> QED
    BY <1>8, <1>9, <2>2
<1>13. MarksNest'
  <2>1. ASSUME NEW d \in 1 .. Depth - 1
        PROVE  frames'[d].mark <= Len(heap'[frames'[d].temp])
    <3>1. frames'[d] = frames[d] /\ d \in 1 .. Depth /\ d < Depth
      BY <1>1, <1>2
    <3>2. frames[d].mark <= Len(heap[frames[d].temp])
      BY <3>1 DEF ScratchInv, MarksNest
    <3>3. frames[d].temp = Top.temp => frames[d].mark <= Top.mark
      BY <1>1, <3>1 DEF ScratchInv, MarksNest
    <3>4. CASE heap'[frames[d].temp] = heap[frames[d].temp]
      BY <3>1, <3>2, <3>4
    <3>5. CASE /\ frames[d].temp = Top.temp
               /\ heap'[Top.temp] = SubSeq(heap[Top.temp], 1, Top.mark)
      <4>1. Len(heap'[frames[d].temp]) = Top.mark
        BY <1>6, <3>5
      <4> QED
        BY <3>1, <3>3, <3>5, <4>1
    <3> QED
      BY <1>7, <1>9, <3>4, <3>5
  <2>2. ASSUME NEW d \in 1 .. Depth - 1, NEW e \in 1 .. Depth - 1, d < e,
               frames'[d].temp = frames'[e].temp
        PROVE  frames'[d].mark <= frames'[e].mark
    BY <1>2, <2>2 DEF ScratchInv, MarksNest
  <2> QED
    BY <1>2, <2>1, <2>2 DEF MarksNest
<1>14. FirstMarkIsZero'
  <2> SUFFICES ASSUME ~leaked', NEW d \in 1 .. Depth - 1,
                      \A e \in 1 .. d - 1 : frames'[e].temp # frames'[d].temp
               PROVE  frames'[d].mark = 0
    BY <1>2 DEF FirstMarkIsZero
  <2>1. \A e \in 1 .. d - 1 : frames'[e] = frames[e]
    BY <1>1, <1>2
  <2>2. frames'[d] = frames[d] /\ d \in 1 .. Depth /\ ~leaked
    BY <1>2
  <2> QED
    BY <2>1, <2>2 DEF ScratchInv, FirstMarkIsZero
<1>15. ScratchGivenBack'
  <2> SUFFICES ASSUME ~leaked', NEW a \in Temps,
                      \A d \in 1 .. Depth - 1 : frames'[d].temp # a
               PROVE  heap'[a] = << >>
    BY <1>2 DEF ScratchGivenBack
  <2>1. /\ ~leaked /\ a \in AllArenas
        /\ heap' = [heap EXCEPT ![Top.temp] = SubSeq(@, 1, Top.mark)]
    BY DEF AllArenas
  <2>2. \A d \in 1 .. Depth - 1 : frames[d].temp # a
    BY <1>2
  <2>3. CASE a = Top.temp
    <3>1. Top.mark = 0
      BY <1>1, <2>1, <2>2, <2>3 DEF ScratchInv, FirstMarkIsZero
    <3>2. heap'[a] \in Seq(Nat) /\ Len(heap'[a]) = 0
      BY <1>1, <1>3, <1>6, <2>1, <2>3, <3>1
    <3> QED
      BY <3>2
  <2>4. CASE a # Top.temp
    <3>1. \A d \in 1 .. Depth : d \in 1 .. Depth - 1 \/ d = Depth
      BY <1>1
    <3>2. \A d \in 1 .. Depth : frames[d].temp # a
      BY <1>1, <2>2, <2>4, <3>1
    <3>3. heap[a] = << >>
      BY <2>1, <3>2 DEF ScratchInv, ScratchGivenBack
    <3> QED
      BY <1>7, <2>1, <2>4, <3>3
  <2> QED
    BY <2>3, <2>4
<1> QED
  BY <1>10, <1>11, <1>12, <1>13, <1>14, <1>15 DEF ScratchInv

(* An allocation keeps the invariant, if every frame whose scratch arena   *)
(* it goes to lies no further in than the frame that needs it, and one     *)
(* does if the arena is a scratch arena.                                   *)
LEMMA ScratchAllocStep ==
  ASSUME ScratchInv, NEW a \in AllArenas, NEW owner \in Nat, Alloc(a, owner),
         \A k \in 1 .. Depth : frames[k].temp = a => k <= owner,
         a \in Temps => \E k \in 1 .. Depth : frames[k].temp = a
  PROVE  ScratchInv'
<1>1. /\ frames \in Seq(Frame) /\ Depth \in Nat /\ Depth = Len(frames)
      /\ heap \in [AllArenas -> Seq(Nat)] /\ leaked \in BOOLEAN
      /\ \A d \in 1 .. Depth : frames[d] \in Frame
  BY Typed DEF ScratchInv
<1>2. /\ frames' = frames /\ leaked' = leaked /\ Depth' = Depth
      /\ heap' = [heap EXCEPT ![a] = Append(@, owner)]
  BY DEF Alloc, Depth
<1>3. /\ heap[a] \in Seq(Nat) /\ Len(heap[a]) \in Nat
      /\ Append(heap[a], owner) \in Seq(Nat)
      /\ Len(Append(heap[a], owner)) = Len(heap[a]) + 1
      /\ \A i \in 1 .. Len(heap[a]) : Append(heap[a], owner)[i] = heap[a][i]
      /\ Append(heap[a], owner)[Len(heap[a]) + 1] = owner
  BY <1>1
<1>4. /\ heap' \in [AllArenas -> Seq(Nat)]
      /\ heap'[a] = Append(heap[a], owner)
      /\ \A b \in AllArenas : b # a => heap'[b] = heap[b]
  BY <1>1, <1>2, <1>3
<1>5. \A d \in 1 .. Depth : /\ frames[d].temp \in AllArenas
                            /\ frames[d].mark \in Nat
  BY <1>1 DEF Frame, AllArenas
<1>6. TypeOK'
  BY <1>1, <1>2, <1>4 DEF TypeOK
<1>7. ResultsGoToInnermost' /\ FirstMarkIsZero'
  BY <1>2 DEF ScratchInv, ResultsGoToInnermost, FirstMarkIsZero
<1>8. FreesOnlyItsOwn'
  <2> SUFFICES ASSUME NEW d \in 1 .. Depth,
                      NEW i \in 1 .. Len(heap'[frames[d].temp]),
                      i > frames[d].mark
               PROVE  heap'[frames[d].temp][i] >= d
    BY <1>2 DEF FreesOnlyItsOwn
  <2>1. CASE frames[d].temp # a
    <3>1. heap'[frames[d].temp] = heap[frames[d].temp]
      BY <1>4, <1>5, <2>1
    <3> QED
      BY <3>1 DEF ScratchInv, FreesOnlyItsOwn
  <2>2. CASE frames[d].temp = a /\ i = Len(heap[a]) + 1
    BY <1>3, <1>4, <2>2
  <2>3. CASE frames[d].temp = a /\ i \in 1 .. Len(heap[a])
    <3>1. heap[a][i] >= d
      BY <2>3 DEF ScratchInv, FreesOnlyItsOwn
    <3> QED
      BY <1>3, <1>4, <2>3, <3>1
  <2>4. frames[d].temp = a => i \in 1 .. Len(heap[a]) \/ i = Len(heap[a]) + 1
    BY <1>3, <1>4
  <2> QED
    BY <2>1, <2>2, <2>3, <2>4
<1>9. MarksNest'
  <2>1. ASSUME NEW d \in 1 .. Depth
        PROVE  frames[d].mark <= Len(heap'[frames[d].temp])
    <3>1. frames[d].mark <= Len(heap[frames[d].temp])
      BY DEF ScratchInv, MarksNest
    <3>2. CASE frames[d].temp = a
      <4>1. Len(heap'[a]) = Len(heap[a]) + 1
        BY <1>3, <1>4
      <4> QED
        BY <1>3, <1>5, <3>1, <3>2, <4>1
    <3>3. CASE frames[d].temp # a
      BY <1>4, <1>5, <3>1, <3>3
    <3> QED
      BY <3>2, <3>3
  <2> QED
    BY <1>2, <2>1 DEF ScratchInv, MarksNest
<1>10. ScratchGivenBack'
  <2> SUFFICES ASSUME ~leaked, NEW t \in Temps,
                      \A d \in 1 .. Depth : frames[d].temp # t
               PROVE  heap'[t] = << >>
    BY <1>2 DEF ScratchGivenBack
  <2>1. t # a /\ t \in AllArenas
    BY DEF AllArenas
  <2>2. heap[t] = << >>
    BY DEF ScratchInv, ScratchGivenBack
  <2> QED
    BY <1>4, <2>1, <2>2
<1> QED
  BY <1>6, <1>7, <1>8, <1>9, <1>10 DEF ScratchInv

(* Every step keeps the invariant.                                         *)
LEMMA ScratchNextInv == ScratchInv /\ [Next]_vars => ScratchInv'
<1> SUFFICES ASSUME ScratchInv, [Next]_vars PROVE ScratchInv'
  OBVIOUS
<1>1. Depth \in Nat /\ (Depth > 0 => Depth \in 1 .. Depth /\ Top = frames[Depth] /\ Top \in Frame)
  BY Typed, FrameFacts DEF ScratchInv
<1>2. CASE \E p \in Persistents : Call(p)
  BY <1>2, CallStep
<1>3. CASE AllocScratch
  <2>1. Depth > 0 /\ Alloc(Top.temp, Depth)
    BY <1>3 DEF AllocScratch
  <2>2. /\ Top.temp \in AllArenas
        /\ \A k \in 1 .. Depth : frames[k].temp = Top.temp => k <= Depth
        /\ \E k \in 1 .. Depth : frames[k].temp = Top.temp
    BY <1>1, <2>1 DEF Frame, AllArenas
  <2> QED
    BY <1>1, <2>1, <2>2, ScratchAllocStep
<1>4. CASE AllocResult
  <2>1. /\ Depth > 0 /\ Top.persistent # None
        /\ Alloc(Top.persistent, Top.owner)
    BY <1>4 DEF AllocResult
  <2>2. Top.persistent \in AllArenas /\ Top.owner \in Nat
    BY <1>1, <2>1 DEF Frame
  <2>3. /\ Top.owner < Depth
        /\ \A k \in 1 .. Depth : frames[k].temp = Top.persistent => k <= Top.owner
        /\ Top.persistent \in Temps =>
             Top.owner # 0 /\ frames[Top.owner].temp = Top.persistent
    BY <1>1, <2>1 DEF ScratchInv, ResultsGoToInnermost
  <2>4. Top.persistent \in Temps =>
          \E k \in 1 .. Depth : frames[k].temp = Top.persistent
    <3>1. Top.owner # 0 => Top.owner \in 1 .. Depth
      BY <1>1, <2>2, <2>3
    <3> QED
      BY <2>3, <3>1
  <2> QED
    BY <2>1, <2>2, <2>3, <2>4, ScratchAllocStep
<1>5. CASE Return
  BY <1>5, PopStep DEF Return
<1>6. CASE ReturnEarly
  BY <1>6, PopStep DEF ReturnEarly
<1>7. CASE UNCHANGED vars
  BY <1>7 DEF vars, ScratchInv, TypeOK, ResultsGoToInnermost, FreesOnlyItsOwn,
       MarksNest, FirstMarkIsZero, ScratchGivenBack, Depth
<1> QED
  BY <1>2, <1>3, <1>4, <1>5, <1>6, <1>7 DEF Next

(* Every reachable state satisfies the inductive invariant.                *)
THEOREM ScratchInvariance == Spec => []ScratchInv
<1> QED
  BY ScratchInitInv, ScratchNextInv, PTL DEF Spec

(* A restore frees only allocations of the returning function and of those *)
(* it called, in call chains of any depth (arena.watim:219-234).           *)
THEOREM RestoreFreesItsOwn == Spec => []FreesOnlyItsOwn
<1>1. ScratchInv => FreesOnlyItsOwn
  BY DEF ScratchInv
<1> QED
  BY <1>1, ScratchInvariance, PTL

(* The restore points of one scratch arena nest: none points past what is  *)
(* allocated, which Arena:restore asserts (arena.watim:193-214).           *)
THEOREM RestorePointsNest == Spec => []MarksNest
<1>1. ScratchInv => MarksNest
  BY DEF ScratchInv
<1> QED
  BY <1>1, ScratchInvariance, PTL

(* If every function restores before it returns, a scratch arena is empty  *)
(* whenever none of those running uses it: main may exit (main.watim:965). *)
THEOREM ScratchEmptyInMain == Spec => []ScratchGivenBack
<1>1. ScratchInv => ScratchGivenBack
  BY DEF ScratchInv
<1> QED
  BY <1>1, ScratchInvariance, PTL

(* No step takes away what a frame that goes on needs, neither its own     *)
(* scratch data nor a result that was put where it asked.                  *)
THEOREM ReturnKeepsWhatIsNeeded == Spec => NothingNeededIsFreed
<1>1. ASSUME ScratchInv, [Next]_vars
      PROVE  [\A a \in AllArenas : \A i \in 1 .. Len(heap[a]) :
                heap[a][i] <= Len(frames') =>
                  i <= Len(heap'[a]) /\ heap'[a][i] = heap[a][i]]_vars
  <2> SUFFICES ASSUME Next, NEW a \in AllArenas, NEW i \in 1 .. Len(heap[a]),
                      heap[a][i] <= Len(frames')
               PROVE  i <= Len(heap'[a]) /\ heap'[a][i] = heap[a][i]
    BY <1>1
  <2>1. /\ heap \in [AllArenas -> Seq(Nat)] /\ heap[a] \in Seq(Nat)
        /\ Len(heap[a]) \in Nat /\ i \in Nat /\ i <= Len(heap[a])
        /\ Depth \in Nat /\ heap[a][i] \in Nat
    <3>1. heap \in [AllArenas -> Seq(Nat)] /\ Depth \in Nat
      BY <1>1, Typed DEF ScratchInv
    <3>2. heap[a] \in Seq(Nat)
      BY <3>1
    <3> QED
      BY <3>1, <3>2
  <2>2. CASE heap' = heap
    BY <2>1, <2>2
  <2>3. ASSUME NEW b, NEW owner, Alloc(b, owner)
        PROVE  i <= Len(heap'[a]) /\ heap'[a][i] = heap[a][i]
    <3>1. heap' = [heap EXCEPT ![b] = Append(@, owner)]
      BY <2>3 DEF Alloc
    <3>2. CASE a # b
      BY <2>1, <3>1, <3>2
    <3>3. CASE a = b
      <4>1. heap'[a] = Append(heap[a], owner)
        BY <2>1, <3>1, <3>3
      <4> QED
        BY <2>1, <4>1
    <3> QED
      BY <3>2, <3>3
  <2>4. CASE Return
    <3>1. /\ Depth > 0 /\ Len(frames') = Depth - 1
          /\ heap' = [heap EXCEPT ![Top.temp] = SubSeq(@, 1, Top.mark)]
      BY <1>1, <2>4, FrameFacts DEF ScratchInv, Return
    <3>2. Top = frames[Depth] /\ Top \in Frame /\ Depth \in 1 .. Depth
      BY <1>1, <3>1, FrameFacts DEF ScratchInv
    <3>3. CASE a # Top.temp
      BY <2>1, <3>1, <3>3
    <3>4. CASE a = Top.temp
      <4>1. Top.mark \in Nat /\ Top.mark <= Len(heap[a])
        BY <1>1, <3>2, <3>4 DEF Frame, ScratchInv, MarksNest
      <4>2. i > Top.mark => heap[a][i] >= Depth
        BY <1>1, <3>2, <3>4 DEF ScratchInv, FreesOnlyItsOwn
      <4>3. i <= Top.mark
        BY <2>1, <3>1, <4>1, <4>2
      <4>4. heap'[a] = SubSeq(heap[a], 1, Top.mark)
        BY <2>1, <3>1, <3>4
      <4> QED
        BY <2>1, <4>1, <4>3, <4>4
    <3> QED
      BY <3>3, <3>4
  <2> QED
    BY <2>2, <2>3, <2>4
    DEF Next, Call, AllocScratch, AllocResult, ReturnEarly
<1> QED
  BY <1>1, ScratchInvariance, PTL DEF Spec, NothingNeededIsFreed
=============================================================================
