---------------------------- MODULE NestingProofs ----------------------------
(***************************************************************************)
(* What the unstacker keeps about an execution of the function it walks    *)
(* through, for functions of any size, any nesting, and any calls.         *)
(*                                                                         *)
(* First, code that is reached is never taken for unreachable.  That has   *)
(* nothing to do with what lies on the stack, but with what is open, o,    *)
(* and whether the execution is where the walk is, h.                      *)
(*                                                                         *)
(* Second, the sources on the simulated stack stand for the values the     *)
(* execution has.  Faithful says so of the stack the walk is at (Inner),   *)
(* of those it was opened on and of what branches and breaks have left     *)
(* (Scopes), of the literals that are not complete (Literal) and of the    *)
(* nodes (Nodes).  F[j] is what was known when the j-th stack was opened:  *)
(* its node, the size of its parents, and whether the execution came       *)
(* there; P[k] is the place of the stack of the k-th scope; R bounds how   *)
(* deep sources are made of one another.                                   *)
(*                                                                         *)
(* The lemmas are about values; each action is then one of a few cases.    *)
(* Here are those in which a value is made, values are taken, or a         *)
(* construct is opened or turned to its next branch; UnstackingProofs has  *)
(* those in which one is closed.                                           *)
(***************************************************************************)
EXTENDS StackProofs

Fields == {"kind", "node", "before", "start", "reachable", "over", "done", "breaks",
           "annotation", "slots", "branch", "way", "arrived"}

IsSeq(s) == \E S : s \in Seq(S)
At(s, k, x) == [s EXCEPT ![k] = x]

(* The way the execution came to the end of a construct was reachable: it  *)
(* is a branch that did not diverge, or a break that is counted.  In the   *)
(* first branch it has not come there yet; and it cannot have come to the  *)
(* end of a branch behind which the rest of the words is taken.            *)
WayIsReachable(sc) ==
  /\ sc.kind \in {"body", "literal", "true", "case", "rest"} => sc.way = 0
  /\ sc.kind \in {"true", "case"} => sc.done = << >>
  /\ sc.kind \in {"else", "last"} =>
       Len(sc.done) = 1 /\ (sc.way # 0 => sc.way = 1 /\ sc.done[1].reachable)
  /\ sc.kind \in {"block", "loop"} /\ sc.way # 0 =>
       sc.way \in 1 .. Len(sc.breaks) /\ sc.breaks[sc.way].reachable

Sound(sc) ==
  /\ DOMAIN sc = Fields
  /\ IsSeq(sc.done) /\ IsSeq(sc.breaks) /\ sc.reachable \in BOOLEAN
  /\ WayIsReachable(sc)

(* Everything was opened by a word that could be reached.                  *)
Walk(o, h) ==
  /\ IsSeq(o) /\ Len(o) > 0 /\ o[1].kind = "body"
  /\ \A k \in 1 .. Len(o) : Sound(o[k])
  /\ \A k \in 1 .. Len(o) - 1 : o[k].reachable
  /\ h \in BOOLEAN /\ (h => o[Len(o)].reachable)

IndInv == Walk(open, here)

-----------------------------------------------------------------------------
(* Sequences of anything.                                                  *)

(* One more at the end.                                                    *)
LEMMA OneMore ==
  ASSUME NEW s, IsSeq(s), NEW x
  PROVE  /\ IsSeq(Append(s, x)) /\ Len(s) \in Nat /\ Len(Append(s, x)) = Len(s) + 1
         /\ \A k \in 1 .. Len(s) : Append(s, x)[k] = s[k]
         /\ Append(s, x)[Len(s) + 1] = x
<1>1. PICK S : s \in Seq(S)
  BY DEF IsSeq
<1>2. s \in Seq(S \cup {x}) /\ x \in S \cup {x}
  BY <1>1, SeqMonotonic
<1>3. Append(s, x) \in Seq(S \cup {x})
  BY <1>2
<1> QED
  BY <1>2, <1>3 DEF IsSeq

(* One less.                                                               *)
LEMMA OneLess ==
  ASSUME NEW s, IsSeq(s), Len(s) > 0
  PROVE  /\ IsSeq(Parents(s)) /\ Len(s) \in Nat /\ Len(Parents(s)) = Len(s) - 1
         /\ \A k \in 1 .. Len(s) - 1 : Parents(s)[k] = s[k]
<1>1. PICK S : s \in Seq(S)
  BY DEF IsSeq
<1>2. PICK n \in Nat : n = Len(s) - 1
  BY <1>1
<1>3. \A i \in 1 .. n : s[i] \in S
  BY <1>1, <1>2
<1>4. /\ SubSeq(s, 1, n) \in Seq(S)
      /\ Len(SubSeq(s, 1, n)) = IF 1 <= n THEN n - 1 + 1 ELSE 0
      /\ \A i \in 1 .. n - 1 + 1 : SubSeq(s, 1, n)[i] = s[1 + i - 1]
  BY <1>3, SubSeqProperties
<1>5. Parents(s) = SubSeq(s, 1, n)
  BY <1>2 DEF Parents
<1>6. Len(Parents(s)) = n /\ \A i \in 1 .. n : Parents(s)[i] = s[i]
  BY <1>4, <1>5
<1> QED
  BY <1>1, <1>2, <1>4, <1>5, <1>6 DEF IsSeq

(* Another one in its place.                                               *)
LEMMA OneChanged ==
  ASSUME NEW s, IsSeq(s), NEW k \in 1 .. Len(s), NEW x,
         NEW q, q = At(s, k, x)
  PROVE  /\ IsSeq(q) /\ Len(q) = Len(s)
         /\ \A l \in 1 .. Len(s) : q[l] = IF l = k THEN x ELSE s[l]
<1>1. PICK S : s \in Seq(S)
  BY DEF IsSeq
<1>2. s \in Seq(S \cup {x}) /\ x \in S \cup {x}
  BY <1>1, SeqMonotonic
<1> QED
  BY <1>2, ExceptSeq DEF IsSeq, At

(* The largest of some numbers of a sequence is one of them.               *)
LEMMA MaxIsThere ==
  ASSUME NEW n \in Nat, NEW T, T \subseteq 1 .. n, T # {}
  PROVE  Max(T) \in T
<1> DEFINE D == {d \in Nat : n - d \in T}
<1>1. D \subseteq Nat /\ D # {}
  <2>1. PICK k \in T : TRUE
    OBVIOUS
  <2>2. n - k \in Nat /\ n - (n - k) = k
    OBVIOUS
  <2> QED
    BY <2>2
<1>2. PICK d \in D : \A c \in D : ~ (<<c, d>> \in OpToRel(<, Nat))
  BY <1>1, WFMin, NatLessThanWellFounded
<1>3. PICK k \in T : k = n - d
  OBVIOUS
<1>4. \A l \in T : k >= l
  <2> SUFFICES ASSUME NEW l \in T, ~ (k >= l)
               PROVE  FALSE
    OBVIOUS
  <2>1. n - l \in D /\ n - l \in Nat /\ d \in Nat /\ n - l < d
    BY <1>3
  <2>2. <<n - l, d>> \in OpToRel(<, Nat)
    BY <2>1 DEF OpToRel
  <2> QED
    BY <1>2, <2>1, <2>2
<1> QED
  BY <1>4 DEF Max

-----------------------------------------------------------------------------
(* What is open.                                                           *)

(* A word that is reached opens a scope.                                   *)
LEMMA OpenedWalk ==
  ASSUME NEW o, NEW h, Walk(o, h), o[Len(o)].reachable,
         NEW x, Sound(x), x.reachable, NEW g \in BOOLEAN
  PROVE  Walk(Append(o, x), g)
<1>1. PICK n \in Nat : n = Len(o)
  BY OneMore DEF Walk
<1>2. PICK q : q = Append(o, x)
  OBVIOUS
<1>3. /\ IsSeq(q) /\ Len(q) = n + 1 /\ q[n + 1] = x
      /\ \A k \in 1 .. n : q[k] = o[k]
  BY <1>1, <1>2, OneMore DEF Walk
<1>4. /\ n > 0 /\ o[1].kind = "body" /\ \A k \in 1 .. n : Sound(o[k])
      /\ \A k \in 1 .. n - 1 : o[k].reachable
      /\ o[n].reachable
  BY <1>1 DEF Walk
<1>5. \A k \in 1 .. n + 1 : k = n + 1 \/ (k \in 1 .. n /\ (k = n \/ k \in 1 .. n - 1))
  OBVIOUS
<1>6. \A k \in 1 .. n + 1 : Sound(q[k])
  BY <1>3, <1>4, <1>5
<1>7. \A k \in 1 .. n : q[k].reachable
  <2>1. \A k \in 1 .. n : k = n \/ k \in 1 .. n - 1
    OBVIOUS
  <2> QED
    BY <1>3, <1>4, <2>1
<1>8. q[1].kind = "body" /\ n + 1 > 0 /\ n + 1 - 1 = n
  BY <1>3, <1>4
<1> QED
  BY <1>2, <1>3, <1>6, <1>7, <1>8 DEF Walk

(* A scope that was just opened.                                           *)
LEMMA NewIsSound ==
  ASSUME NEW x, DOMAIN x = Fields, x.kind \in {"literal", "true", "case", "block", "loop"},
         x.reachable = TRUE, x.way = 0, x.done = << >>, x.breaks = << >>
  PROVE  Sound(x)
<1>1. IsSeq(<< >>)
  BY EmptySeq DEF IsSeq
<1> QED
  BY <1>1 DEF Sound, WayIsReachable

(* The innermost scope changes.                                            *)
LEMMA ChangedWalk ==
  ASSUME NEW o, NEW h, Walk(o, h), NEW x, Sound(x), NEW g \in BOOLEAN,
         x.kind = o[Len(o)].kind \/ Len(o) # 1, g => x.reachable
  PROVE  Walk(At(o, Len(o), x), g)
<1>0. IsSeq(o) /\ Len(o) > 0
  BY DEF Walk
<1>1. PICK n \in Nat : n = Len(o) /\ n > 0
  BY ONLY <1>0, OneMore
<1>2. PICK q : q = At(o, n, x)
  OBVIOUS
<1>3. /\ IsSeq(q) /\ Len(q) = n
      /\ \A k \in 1 .. n : q[k] = IF k = n THEN x ELSE o[k]
  <2>1. n \in 1 .. Len(o)
    BY <1>1
  <2> QED
    BY ONLY <1>0, <1>1, <1>2, <2>1, OneChanged
<1>4. /\ o[1].kind = "body" /\ \A k \in 1 .. n : Sound(o[k])
      /\ \A k \in 1 .. n - 1 : o[k].reachable
  BY <1>1 DEF Walk
<1>5. \A k \in 1 .. n - 1 : k \in 1 .. n /\ k # n
  OBVIOUS
<1>6. q[1].kind = "body"
  <2>1. 1 \in 1 .. n
    BY <1>1
  <2> QED
    BY <1>1, <1>3, <1>4, <2>1
<1>7. \A k \in 1 .. n : Sound(q[k])
  BY <1>3, <1>4
<1>8. \A k \in 1 .. n - 1 : q[k].reachable
  BY <1>3, <1>4, <1>5
<1>9. q[n] = x
  BY <1>1, <1>3
<1> QED
  BY <1>1, <1>2, <1>3, <1>6, <1>7, <1>8, <1>9 DEF Walk

(* A scope changes but for being reachable.                                *)
LEMMA InnerWalk ==
  ASSUME NEW o, NEW h, Walk(o, h), NEW b \in 1 .. Len(o), NEW x, Sound(x),
         x.kind = o[b].kind, x.reachable = o[b].reachable
  PROVE  Walk(At(o, b, x), h)
<1>0. IsSeq(o) /\ Len(o) > 0
  BY DEF Walk
<1>1. PICK n \in Nat : n = Len(o) /\ n > 0
  BY ONLY <1>0, OneMore
<1>2. PICK q : q = At(o, b, x)
  OBVIOUS
<1>3. /\ IsSeq(q) /\ Len(q) = n
      /\ \A k \in 1 .. n : q[k] = IF k = b THEN x ELSE o[k]
  <2>1. b \in 1 .. Len(o)
    BY <1>1
  <2> QED
    BY ONLY <1>0, <1>1, <1>2, <2>1, OneChanged
<1>4. /\ o[1].kind = "body" /\ \A k \in 1 .. n : Sound(o[k])
      /\ \A k \in 1 .. n - 1 : o[k].reachable
      /\ h \in BOOLEAN /\ (h => o[n].reachable)
  BY <1>1 DEF Walk
<1>5. \A k \in 1 .. n : q[k].kind = o[k].kind /\ q[k].reachable = o[k].reachable /\ Sound(q[k])
  BY <1>3, <1>4
<1>6. 1 \in 1 .. n /\ n \in 1 .. n /\ \A k \in 1 .. n - 1 : k \in 1 .. n
  BY <1>1
<1>7. q[1].kind = "body" /\ (h => q[n].reachable) /\ \A k \in 1 .. n - 1 : q[k].reachable
  BY <1>4, <1>5, <1>6
<1> QED
  BY <1>1, <1>2, <1>3, <1>4, <1>5, <1>7 DEF Walk

(* The innermost scope ends, and the one around it may not go on.          *)
LEMMA ClosedWalk ==
  ASSUME NEW o, NEW h, Walk(o, h), Len(o) # 1, NEW x, Sound(x), NEW g \in BOOLEAN,
         x.kind = o[Len(o) - 1].kind, g => x.reachable
  PROVE  Walk(At(Parents(o), Len(o) - 1, x), g)
<1>0. IsSeq(o) /\ Len(o) > 0
  BY DEF Walk
<1>1. PICK n \in Nat : n = Len(o) /\ n > 1
  <2>1. PICK n \in Nat : n = Len(o) /\ n > 0
    BY ONLY <1>0, OneMore
  <2>2. n # 1
    BY <2>1
  <2>3. n > 1
    BY ONLY <2>1, <2>2
  <2> QED
    BY <2>1, <2>3
<1>2. /\ IsSeq(Parents(o)) /\ Len(Parents(o)) = n - 1
      /\ \A k \in 1 .. n - 1 : Parents(o)[k] = o[k]
  BY <1>1, OneLess DEF Walk
<1>3. PICK q : q = At(Parents(o), n - 1, x)
  OBVIOUS
<1>4. n - 1 \in 1 .. n - 1
  BY <1>1
<1>5. /\ IsSeq(q) /\ Len(q) = n - 1
      /\ \A k \in 1 .. n - 1 : q[k] = IF k = n - 1 THEN x ELSE o[k]
  <2>1. n - 1 \in 1 .. Len(Parents(o))
    BY <1>2, <1>4
  <2>2. PICK p : p = Parents(o)
    OBVIOUS
  <2>3. /\ IsSeq(q) /\ Len(q) = Len(p)
        /\ \A k \in 1 .. Len(p) : q[k] = IF k = n - 1 THEN x ELSE p[k]
    <3>1. IsSeq(p) /\ n - 1 \in 1 .. Len(p) /\ q = At(p, n - 1, x)
      BY <1>2, <1>3, <2>1, <2>2
    <3> QED
      BY ONLY <3>1, OneChanged
  <2> QED
    BY <1>2, <2>2, <2>3
<1>6. /\ o[1].kind = "body" /\ \A k \in 1 .. n : Sound(o[k])
      /\ \A k \in 1 .. n - 1 : o[k].reachable
  BY <1>1 DEF Walk
<1>7. /\ \A k \in 1 .. n - 1 : k \in 1 .. n
      /\ \A k \in 1 .. n - 1 - 1 : k \in 1 .. n - 1 /\ k # n - 1
      /\ 1 \in 1 .. n - 1 /\ n - 1 > 0
  BY <1>1
<1>8. \A k \in 1 .. n - 1 : Sound(q[k])
  BY <1>5, <1>6, <1>7
<1>9. \A k \in 1 .. n - 1 - 1 : q[k].reachable
  BY <1>5, <1>6, <1>7
<1>10. q[1].kind = "body"
  BY <1>1, <1>5, <1>6, <1>7
<1>11. q[n - 1] = x
  BY <1>4, <1>5
<1> QED
  BY <1>1, <1>3, <1>5, <1>7, <1>8, <1>9, <1>10, <1>11 DEF Walk

-----------------------------------------------------------------------------
(* The words.                                                              *)

(* The innermost scope, and the one around it.                             *)
LEMMA TopFacts ==
  ASSUME IndInv
  PROVE  /\ IsSeq(open) /\ Len(open) \in Nat /\ Len(open) > 0
         /\ Top = open[Len(open)] /\ Sound(Top) /\ here \in BOOLEAN /\ (here => Top.reachable)
         /\ Top.kind # "body" => /\ Len(open) # 1 /\ Sound(Enclosing) /\ Enclosing.reachable
                                 /\ Enclosing = open[Len(open) - 1]
<1>1. IsSeq(open) /\ Len(open) > 0 /\ here \in BOOLEAN /\ Top = open[Len(open)]
  BY DEF IndInv, Walk, Top, Last
<1>2. PICK n \in Nat : n = Len(open) /\ n > 0
  BY ONLY <1>1, OneMore
<1>3. n \in 1 .. n /\ n \in 1 .. Len(open)
  BY <1>2
<1>4. Sound(Top) /\ (here => Top.reachable)
  BY <1>1, <1>3 DEF IndInv, Walk
<1>5. ASSUME Top.kind # "body"
      PROVE  /\ n # 1 /\ Sound(open[n - 1]) /\ open[n - 1].reachable
  <2>1. n # 1
    BY <1>1, <1>2, <1>5 DEF IndInv, Walk
  <2>2. n - 1 \in 1 .. n /\ n - 1 \in 1 .. n - 1
    BY <1>2, <2>1
  <2> QED
    BY <1>2, <2>1, <2>2 DEF IndInv, Walk
<1> QED
  BY <1>1, <1>2, <1>4, <1>5 DEF Enclosing

(* What is said of a scope does not depend on the rest of it.              *)
LEMMA SameIsSound ==
  ASSUME NEW sc, Sound(sc), NEW x, DOMAIN x = Fields, x.reachable \in BOOLEAN,
         x.kind = sc.kind, x.way = sc.way, x.done = sc.done, x.breaks = sc.breaks
  PROVE  Sound(x)
  BY DEF Sound, WayIsReachable

(* A word that opens nothing and ends nothing.                             *)
LEMMA WordWalks ==
  ASSUME IndInv, NEW n, NEW left, NEW values, Word(n, left, values), open' = open
  PROVE  IndInv'
<1>1. here' = here
  BY DEF Word
<1> QED
  BY <1>1 DEF IndInv

(* A field of a struct literal is set.                                     *)
LEMMA FieldInitWalks ==
  ASSUME IndInv, NEW f, FieldInit(f)
  PROVE  IndInv'
<1>1. here' = here
  BY DEF FieldInit, Word
<1>2. PICK k \in Literals :
        open' = [open EXCEPT ![k].slots[f] = PopN(chain, 1).sources[1],
                             ![k].arrived[f] = IF here THEN Last(stack) ELSE @]
  BY DEF FieldInit
<1>3. k \in 1 .. Len(open)
  <2>1. PICK S : open \in Seq(S)
    BY TopFacts DEF IsSeq
  <2> QED
    BY <2>1 DEF Literals
<1>4. PICK x : open' = At(open, k, x) /\ DOMAIN x = Fields /\ x.reachable = open[k].reachable
        /\ x.kind = open[k].kind /\ x.way = open[k].way
        /\ x.done = open[k].done /\ x.breaks = open[k].breaks
  <2> DEFINE y == [open[k] EXCEPT !.slots[f] = PopN(chain, 1).sources[1]]
             z == [y EXCEPT !.arrived[f] = IF here THEN Last(stack) ELSE @]
  <2>1. DOMAIN open[k] = Fields
    BY <1>3 DEF IndInv, Walk, Sound
  <2>2. DOMAIN y = Fields /\ y.reachable = open[k].reachable
        /\ y.kind = open[k].kind /\ y.way = open[k].way
        /\ y.done = open[k].done /\ y.breaks = open[k].breaks
    BY <2>1 DEF Fields
  <2> HIDE DEF y
  <2>3. DOMAIN z = Fields /\ z.reachable = y.reachable /\ z.kind = y.kind /\ z.way = y.way
        /\ z.done = y.done /\ z.breaks = y.breaks
    BY <2>2 DEF Fields
  <2>4. open' = At(open, k, z)
    <3>1. PICK S : open \in Seq(S)
      BY TopFacts DEF IsSeq
    <3> QED
      BY <1>2, <1>3, <3>1 DEF At, y
  <2> QED
    BY <2>2, <2>3, <2>4
<1>5. Sound(open[k])
  BY <1>3 DEF IndInv, Walk
<1>6. open[k].reachable \in BOOLEAN
  BY <1>5 DEF Sound
<1>7. Sound(x)
  BY <1>4, <1>5, <1>6, SameIsSound
<1>8. Walk(At(open, k, x), here)
  BY <1>3, <1>4, <1>7, InnerWalk DEF IndInv
<1> QED
  BY <1>1, <1>4, <1>8 DEF IndInv

(* A struct literal, a branch, a block or a loop begins.                   *)
LEMMA OpeningWalks ==
  ASSUME IndInv, Walking, NEW x, open' = Append(open, x), DOMAIN x = Fields,
         x.kind \in {"literal", "true", "case", "block", "loop"},
         x.reachable = TRUE, x.way = 0, x.done = << >>, x.breaks = << >>,
         here' \in BOOLEAN
  PROVE  IndInv'
<1>1. Sound(x)
  BY NewIsSound
<1>2. open[Len(open)].reachable
  BY TopFacts DEF Walking
<1>3. Walk(Append(open, x), here')
  BY <1>1, <1>2, OpenedWalk DEF IndInv
<1> QED
  BY <1>3 DEF IndInv

(* A struct literal begins.                                                *)
LEMMA MakeStructNamedWalks ==
  ASSUME IndInv, MakeStructNamed
  PROVE  IndInv'
<1> DEFINE x == [Scope("literal", words', << >>) EXCEPT
                   !.slots = [f \in 1 .. 2 |-> Unset],
                   !.arrived = [f \in 1 .. 2 |-> Unknown]]
<1>1. Walking /\ open' = Append(open, x) /\ here' = here
  BY DEF MakeStructNamed
<1>2. DOMAIN x = Fields /\ x.kind = "literal" /\ x.reachable = TRUE /\ x.way = 0
      /\ x.done = << >> /\ x.breaks = << >>
  BY DEF Scope, Fields
<1>3. here' \in BOOLEAN
  BY <1>1, TopFacts
<1> HIDE DEF x
<1> QED
  BY <1>1, <1>2, <1>3, OpeningWalks

(* An if or a match begins.                                                *)
LEMMA ForkWalks ==
  ASSUME IndInv, NEW kind \in {"true", "case"}, NEW payload, Fork(kind, payload)
  PROVE  IndInv'
<1>1. PICK b : /\ open' = Append(open, [Scope(kind, NextNode, Popped(chain)) EXCEPT !.branch = b])
               /\ here' = (b = 1)
  BY DEF Fork
<1>2. Walking
  BY DEF Fork
<1> DEFINE x == [Scope(kind, NextNode, Popped(chain)) EXCEPT !.branch = b]
<1>3. DOMAIN x = Fields /\ x.kind = kind /\ x.reachable = TRUE /\ x.way = 0
      /\ x.done = << >> /\ x.breaks = << >>
  BY DEF Scope, Fields
<1>4. open' = Append(open, x) /\ here' \in BOOLEAN
  BY <1>1
<1> HIDE DEF x
<1> QED
  BY <1>2, <1>3, <1>4, OpeningWalks

(* A block or a loop begins.                                               *)
LEMMA StartWalks ==
  ASSUME IndInv, NEW kind \in {"block", "loop"}, NEW annotation, Start(kind, annotation)
  PROVE  IndInv'
<1> DEFINE x == [Scope(kind, NextNode, chain) EXCEPT !.annotation = annotation]
<1>1. Walking /\ open' = Append(open, x) /\ here' = here
  BY DEF Start
<1>2. DOMAIN x = Fields /\ x.kind = kind /\ x.reachable = TRUE /\ x.way = 0
      /\ x.done = << >> /\ x.breaks = << >>
  BY DEF Scope, Fields
<1>3. here' \in BOOLEAN
  BY <1>1, TopFacts
<1> HIDE DEF x
<1> QED
  BY <1>1, <1>2, <1>3, OpeningWalks

(* A literal is made.                                                      *)
LEMMA LeaveLiteralWalks ==
  ASSUME IndInv, LeaveLiteral
  PROVE  IndInv'
<1>1. /\ Top.kind = "literal" /\ open' = Parents(open) /\ here' = here
  BY DEF LeaveLiteral, Kind
<1>2. /\ IsSeq(open) /\ Len(open) \in Nat /\ Len(open) > 0 /\ Len(open) # 1
      /\ Enclosing = open[Len(open) - 1] /\ Sound(Enclosing) /\ Enclosing.reachable
  BY <1>1, TopFacts
<1>3. At(Parents(open), Len(open) - 1, Enclosing) = Parents(open)
  <2>1. PICK n \in Nat : n = Len(open) - 1
    BY <1>2
  <2>2. IsSeq(Parents(open)) /\ Len(Parents(open)) = n /\ \A k \in 1 .. n : Parents(open)[k] = open[k]
    BY <1>2, <2>1, OneLess
  <2>3. PICK S : Parents(open) \in Seq(S)
    BY <2>2 DEF IsSeq
  <2>4. n \in 1 .. n /\ Enclosing = Parents(open)[n]
    BY <1>2, <2>1, <2>2
  <2> QED
    BY <2>1, <2>2, <2>3, <2>4 DEF At
<1>4. here' \in BOOLEAN /\ Walk(open, here)
  BY <1>1, TopFacts DEF IndInv
<1>5. Walk(At(Parents(open), Len(open) - 1, Enclosing), here')
  BY <1>2, <1>4, ClosedWalk
<1> QED
  BY <1>1, <1>3, <1>5 DEF IndInv

(* Another branch begins.                                                  *)
LEMMA NextBranchWalks ==
  ASSUME IndInv, NEW kind \in {"else", "rest", "last"}, NEW c, NEW payload,
         Top.kind \in {"true", "case"}, kind = "rest" => ~Top.reachable,
         NextBranch(kind, c, payload)
  PROVE  IndInv'
<1> DEFINE x == [Top EXCEPT !.kind = kind, !.start = words, !.reachable = TRUE, !.over = FALSE,
                   !.done = Append(@, This),
                   !.way = IF here THEN 1 ELSE @,
                   !.arrived = IF here THEN stack ELSE @]
<1>1. DOMAIN Top = Fields /\ Sound(Top)
  BY TopFacts DEF Sound
<1>2. DOMAIN x = Fields /\ x.kind = kind /\ x.reachable = TRUE
      /\ x.way = (IF here THEN 1 ELSE Top.way) /\ x.done = Append(Top.done, This)
      /\ x.breaks = Top.breaks
  BY <1>1 DEF Fields
<1>3. /\ open' = At(open, Len(open), x)
      /\ here' = (Top.branch = 2)
  <2>1. PICK n \in Nat : n = Len(open) /\ n \in 1 .. n
    BY TopFacts
  <2>2. PICK S : open \in Seq(S)
    BY TopFacts DEF IsSeq
  <2>3. Top = open[n]
    BY <2>1, TopFacts
  <2> QED
    BY <2>1, <2>2, <2>3 DEF NextBranch, At
<1> HIDE DEF x
<1>4. Top.done = << >> /\ Top.way = 0 /\ IsSeq(Top.breaks)
  BY <1>1 DEF Sound, WayIsReachable
<1>5. x.done = <<This>> /\ Len(x.done) = 1 /\ x.done[1].reachable = Top.reachable
  BY <1>2, <1>4 DEF This
<1>6. IsSeq(x.done)
  <2>1. <<This>> \in Seq({This})
    OBVIOUS
  <2> QED
    BY <1>5, <2>1 DEF IsSeq
<1>7. here => Top.reachable
  BY TopFacts
<1>8. WayIsReachable(x)
  <2>1. CASE kind = "rest"
    BY <1>2, <1>4, <1>7, <2>1 DEF WayIsReachable
  <2>2. CASE kind \in {"else", "last"}
    <3>1. x.way # 0 => x.way = 1 /\ x.done[1].reachable
      BY <1>2, <1>4, <1>5, <1>7
    <3> QED
      BY <1>2, <1>5, <2>2, <3>1 DEF WayIsReachable
  <2> QED
    BY <2>1, <2>2
<1>9. Sound(x)
  BY <1>2, <1>4, <1>6, <1>8 DEF Sound
<1>10. Len(open) # 1 /\ Walk(open, here) /\ here' \in BOOLEAN
  BY <1>3, TopFacts DEF IndInv
<1>11. Walk(At(open, Len(open), x), here')
  BY <1>2, <1>9, <1>10, ChangedWalk
<1> QED
  BY <1>3, <1>11 DEF IndInv

(* A construct ends: behind it goes on who has come there.                 *)
LEMMA EndWalks ==
  ASSUME IndInv, Top.kind # "body", NEW x, open' = At(Parents(open), Len(open) - 1, x),
         DOMAIN x = Fields, x.reachable \in BOOLEAN,
         x.kind = Enclosing.kind, x.way = Enclosing.way, x.done = Enclosing.done,
         x.breaks = Enclosing.breaks,
         here' \in BOOLEAN, here' => x.reachable
  PROVE  IndInv'
<1>1. Len(open) # 1 /\ Sound(Enclosing) /\ Enclosing = open[Len(open) - 1]
  BY TopFacts
<1>2. Sound(x)
  BY <1>1, SameIsSound
<1>3. Walk(open, here)
  BY DEF IndInv
<1>4. Walk(At(Parents(open), Len(open) - 1, x), here')
  BY <1>1, <1>2, <1>3, ClosedWalk
<1> QED
  BY <1>4 DEF IndInv

(* By the steps that all constructs but loops end with.                    *)
LEMMA LeaveWalks ==
  ASSUME IndInv, Top.kind # "body", NEW base, NEW arguments, NEW r, NEW ends, NEW way,
         NEW reachable \in BOOLEAN, NEW over, NEW after, Present => reachable,
         Leave(base, arguments, r, ends, way, reachable, over, after)
  PROVE  IndInv'
<1> DEFINE x == [Enclosing EXCEPT !.reachable = reachable, !.over = over]
<1>1. Sound(Enclosing) /\ Enclosing = open[Len(open) - 1] /\ here \in BOOLEAN
  BY TopFacts
<1>2. DOMAIN x = Fields /\ x.reachable = reachable /\ x.kind = Enclosing.kind
      /\ x.way = Enclosing.way /\ x.done = Enclosing.done /\ x.breaks = Enclosing.breaks
  BY <1>1 DEF Sound, Fields
<1>3. here' = Present /\ Present \in BOOLEAN
  BY DEF Leave, Present
<1>4. open' = At(Parents(open), Len(open) - 1, x)
  <2>0. Len(open) \in Nat /\ Len(open) > 0 /\ Len(open) # 1
    BY TopFacts
  <2>1. PICK n \in Nat : n = Len(open) - 1 /\ n \in 1 .. n
    <3>1. PICK l : l = Len(open)
      OBVIOUS
    <3>2. l - 1 \in Nat /\ l - 1 \in 1 .. l - 1
      BY ONLY <2>0, <3>1
    <3> QED
      BY <3>1, <3>2
  <2>2. IsSeq(open) /\ Len(open) > 0
    BY TopFacts
  <2>3. /\ IsSeq(Parents(open)) /\ Len(Parents(open)) = n
        /\ \A k \in 1 .. n : Parents(open)[k] = open[k]
    BY <2>1, <2>2, OneLess
  <2>4. PICK S : Parents(open) \in Seq(S)
    BY <2>3 DEF IsSeq
  <2>5. Parents(open)[n] = Enclosing
    BY <1>1, <2>1, <2>3
  <2> QED
    BY <2>1, <2>3, <2>4, <2>5 DEF Leave, At
<1> HIDE DEF x
<1> QED
  BY <1>2, <1>3, <1>4, EndWalks

(* if and else.  Who comes to the end has come through code that is        *)
(* reached, or there would be no way that it came.                         *)
LEMMA LeaveElseWalks ==
  ASSUME IndInv, LeaveElse
  PROVE  IndInv'
<1>1. Top.kind # "body"
  BY DEF LeaveElse, Kind
<1>2. PICK base, arguments, r, ends, way, after :
        Leave(base, arguments, r, ends, way, Enclosing.reachable, FALSE, after)
  BY DEF LeaveElse
<1>3. Enclosing.reachable \in BOOLEAN /\ Enclosing.reachable
  BY <1>1, TopFacts DEF Sound
<1> QED
  BY <1>1, <1>2, <1>3, LeaveWalks

(* The remaining words end.                                                *)
LEMMA LeaveRestWalks ==
  ASSUME IndInv, LeaveRest
  PROVE  IndInv'
<1>1. Top.kind = "rest"
  BY DEF LeaveRest, Kind
<1>2. PICK base, arguments, r, ends, way, after :
        Leave(base, arguments, r, ends, way, Top.reachable, TRUE, after)
  BY DEF LeaveRest
<1>3. Top.reachable \in BOOLEAN /\ Top.way = 0 /\ (here => Top.reachable)
  BY <1>1, TopFacts DEF Sound, WayIsReachable
<1>4. Present => Top.reachable
  BY <1>3 DEF Present
<1> QED
  BY <1>1, <1>2, <1>3, <1>4, LeaveWalks

(* match.                                                                  *)
LEMMA LeaveMatchWalks ==
  ASSUME IndInv, LeaveMatch
  PROVE  IndInv'
<1> DEFINE cases == Append(Top.done, This)
<1>1. Top.kind = "last"
  BY DEF LeaveMatch, Kind
<1>2. PICK base, arguments, r, ends, way, after :
        Leave(base, arguments, r, ends, way, Live(cases) # {} /\ Enclosing.reachable, FALSE, after)
  BY DEF LeaveMatch
<1>3. /\ Enclosing.reachable /\ Sound(Top) /\ (here => Top.reachable)
  BY <1>1, TopFacts
<1>4. /\ IsSeq(Top.done) /\ Len(Top.done) = 1
      /\ Top.way # 0 => Top.done[1].reachable
  BY <1>1, <1>3 DEF Sound, WayIsReachable
<1>5. /\ IsSeq(cases) /\ Len(cases) = 2 /\ cases[1] = Top.done[1] /\ cases[2] = This
  BY <1>4, OneMore
<1>6. DOMAIN cases = 1 .. 2
  <2>1. PICK S : cases \in Seq(S)
    BY <1>5 DEF IsSeq
  <2> QED
    BY <1>5, <2>1
<1>7. Present => Live(cases) # {}
  <2>1. CASE here
    BY <1>3, <1>5, <1>6, <2>1 DEF Live, This
  <2>2. CASE Top.way # 0
    BY <1>4, <1>5, <1>6, <2>2 DEF Live
  <2> QED
    BY <2>1, <2>2 DEF Present
<1> HIDE DEF cases
<1>8. PICK reachable \in BOOLEAN : reachable = (Live(cases) # {} /\ Enclosing.reachable)
  OBVIOUS
<1>9. Present => reachable
  BY <1>3, <1>7, <1>8
<1>10. Leave(base, arguments, r, ends, way, reachable, FALSE, after)
  BY <1>2, <1>8
<1>11. Top.kind # "body"
  BY <1>1
<1> QED
  BY <1>9, <1>10, <1>11, LeaveWalks

(* block.                                                                  *)
LEMMA LeaveBlockWalks ==
  ASSUME IndInv, LeaveBlock
  PROVE  IndInv'
<1> DEFINE ends == BlockEnds
           left == Top.annotation # None \/ \E i \in DOMAIN ends : ends[i].reachable
<1>1. Top.kind = "block"
  BY DEF LeaveBlock, Kind
<1>2. PICK base, arguments, r, sources, way, after :
        Leave(base, arguments, r, sources, way, left /\ Enclosing.reachable, FALSE, after)
  BY DEF LeaveBlock
<1>3. /\ Enclosing.reachable /\ Sound(Top) /\ (here => Top.reachable)
  BY <1>1, TopFacts
<1>4. /\ IsSeq(Top.breaks)
      /\ Top.way # 0 => Top.way \in 1 .. Len(Top.breaks) /\ Top.breaks[Top.way].reachable
  BY <1>1, <1>3 DEF Sound, WayIsReachable
<1>5. PICK e : e = [sources |-> Last(chain).positive, reachable |-> TRUE]
  OBVIOUS
<1>6. /\ IsSeq(Append(Top.breaks, e)) /\ Len(Top.breaks) \in Nat
      /\ Len(Append(Top.breaks, e)) = Len(Top.breaks) + 1
      /\ \A k \in 1 .. Len(Top.breaks) : Append(Top.breaks, e)[k] = Top.breaks[k]
      /\ Append(Top.breaks, e)[Len(Top.breaks) + 1] = e
  BY <1>4, OneMore
<1>7. ends = IF Top.reachable THEN Append(Top.breaks, e) ELSE Top.breaks
  BY <1>5 DEF BlockEnds
<1>8. /\ IsSeq(ends) /\ Len(ends) \in Nat /\ Len(ends) >= Len(Top.breaks)
      /\ \A k \in 1 .. Len(Top.breaks) : ends[k] = Top.breaks[k]
      /\ Top.reachable => Len(ends) = Len(Top.breaks) + 1 /\ ends[Len(Top.breaks) + 1].reachable
  <2>1. CASE Top.reachable
    BY <1>5, <1>6, <1>7, <2>1
  <2>2. CASE ~Top.reachable
    BY <1>4, <1>6, <1>7, <2>2
  <2> QED
    BY <2>1, <2>2
<1> HIDE DEF ends
<1>9. DOMAIN ends = 1 .. Len(ends)
  <2>1. PICK S : ends \in Seq(S)
    BY <1>8 DEF IsSeq
  <2> QED
    BY <2>1
<1>10. Present => \E i \in DOMAIN ends : ends[i].reachable
  <2>1. CASE here
    <3>1. Len(Top.breaks) + 1 \in 1 .. Len(ends)
      BY <1>3, <1>6, <1>8, <2>1
    <3> QED
      BY <1>3, <1>8, <1>9, <2>1, <3>1
  <2>2. CASE Top.way # 0
    <3>1. Top.way \in 1 .. Len(ends)
      BY <1>4, <1>6, <1>8, <2>2
    <3> QED
      BY <1>4, <1>8, <1>9, <2>2, <3>1
  <2> QED
    BY <2>1, <2>2 DEF Present
<1>11. Present => left
  BY <1>10
<1> HIDE DEF left
<1>12. PICK reachable \in BOOLEAN : reachable = (left /\ Enclosing.reachable)
  OBVIOUS
<1>13. Present => reachable
  BY <1>3, <1>11, <1>12
<1>14. Leave(base, arguments, r, sources, way, reachable, FALSE, after)
  BY <1>2, <1>12
<1>15. Top.kind # "body"
  BY <1>1
<1> QED
  BY <1>13, <1>14, <1>15, LeaveWalks

(* loop: only a break leaves it.                                           *)
LEMMA LeaveLoopWalks ==
  ASSUME IndInv, LeaveLoop
  PROVE  IndInv'
<1> DEFINE x == [Enclosing EXCEPT !.reachable = @ /\ Top.breaks # << >>]
<1>1. Top.kind = "loop" /\ here' = (Top.way # 0)
  BY DEF LeaveLoop, Kind
<1>2. /\ Enclosing.reachable /\ Sound(Top) /\ Sound(Enclosing)
      /\ Enclosing = open[Len(open) - 1]
  BY <1>1, TopFacts
<1>3. DOMAIN x = Fields /\ x.reachable = (Enclosing.reachable /\ Top.breaks # << >>)
      /\ x.kind = Enclosing.kind
      /\ x.way = Enclosing.way /\ x.done = Enclosing.done /\ x.breaks = Enclosing.breaks
  BY <1>2 DEF Sound, Fields
<1>4. open' = At(Parents(open), Len(open) - 1, x)
  <2>0. Len(open) \in Nat /\ Len(open) > 0 /\ Len(open) # 1
    BY <1>1, TopFacts
  <2>1. PICK n \in Nat : n = Len(open) - 1 /\ n \in 1 .. n
    <3>1. PICK l : l = Len(open)
      OBVIOUS
    <3>2. l - 1 \in Nat /\ l - 1 \in 1 .. l - 1
      BY ONLY <2>0, <3>1
    <3> QED
      BY <3>1, <3>2
  <2>2. IsSeq(open) /\ Len(open) > 0
    BY TopFacts
  <2>3. /\ IsSeq(Parents(open)) /\ Len(Parents(open)) = n
        /\ \A k \in 1 .. n : Parents(open)[k] = open[k]
    BY <2>1, <2>2, OneLess
  <2>4. PICK S : Parents(open) \in Seq(S)
    BY <2>3 DEF IsSeq
  <2>5. Parents(open)[n] = Enclosing
    BY <1>2, <2>1, <2>3
  <2> QED
    BY <2>1, <2>3, <2>4, <2>5 DEF LeaveLoop, At
<1> HIDE DEF x
<1>5. Top.way # 0 => Top.breaks # << >>
  <2>1. IsSeq(Top.breaks) /\ (Top.way # 0 => Top.way \in 1 .. Len(Top.breaks))
    BY <1>1, <1>2 DEF Sound, WayIsReachable
  <2> QED
    BY <2>1, EmptySeq
<1>6. here' \in BOOLEAN /\ (here' => x.reachable) /\ x.reachable \in BOOLEAN
  BY <1>1, <1>2, <1>3, <1>5
<1>7. Top.kind # "body"
  BY <1>1
<1> QED
  BY <1>3, <1>4, <1>6, <1>7, EndWalks

(* break: who is there comes to the end by this one.                       *)
LEMMA BreakWalks ==
  ASSUME IndInv, Break
  PROVE  IndInv'
<1> DEFINE targets == {k \in DOMAIN open : open[k].kind \in {"block", "loop"}}
<1>1. PICK n \in Nat : n = Len(open) /\ n \in 1 .. n
  BY TopFacts
<1>2. PICK S : open \in Seq(S)
  BY TopFacts DEF IsSeq
<1>3. PICK b : b = Max(targets)
  OBVIOUS
<1>4. b \in 1 .. n /\ open[b].kind \in {"block", "loop"}
  <2>1. targets \subseteq 1 .. n /\ targets # {}
    <3>1. targets # {}
      BY DEF Break
    <3>2. DOMAIN open = 1 .. n
      BY <1>1, <1>2
    <3> QED
      BY <3>1, <3>2
  <2>2. b \in targets
    BY <1>3, <2>1, MaxIsThere
  <2> QED
    BY <2>1, <2>2
<1>5. PICK sources :
        /\ open' = [open EXCEPT ![b] = Left(@, sources), ![Len(open)].reachable = FALSE]
        /\ here' = FALSE /\ Walking
  BY <1>3 DEF Break
<1>6. PICK e : e = [sources |-> sources, reachable |-> Top.reachable]
  OBVIOUS
<1> DEFINE x == Left(open[b], sources)
           mid == At(open, b, x)
           y == [mid[n] EXCEPT !.reachable = FALSE]
<1>7. Sound(open[b])
  BY <1>1, <1>4 DEF IndInv, Walk
<1>8. DOMAIN x = Fields /\ x.kind = open[b].kind /\ x.reachable = open[b].reachable
      /\ x.done = open[b].done /\ x.breaks = Append(open[b].breaks, e)
      /\ x.way = (IF here THEN Len(open[b].breaks) + 1 ELSE open[b].way)
  BY <1>6, <1>7 DEF Sound, Fields, Left
<1>9. open' = At(mid, n, y)
  BY <1>1, <1>2, <1>4, <1>5, <1>6 DEF At
<1> HIDE DEF x
<1>10. Sound(x)
  <2>1. /\ IsSeq(open[b].breaks) /\ IsSeq(open[b].done) /\ open[b].reachable \in BOOLEAN
        /\ open[b].way # 0 =>
             open[b].way \in 1 .. Len(open[b].breaks) /\ open[b].breaks[open[b].way].reachable
    BY <1>4, <1>7 DEF Sound, WayIsReachable
  <2>2. PICK l, bs : bs = open[b].breaks /\ l = Len(bs)
    OBVIOUS
  <2>3. /\ IsSeq(x.breaks) /\ l \in Nat /\ Len(x.breaks) = l + 1 /\ x.breaks[l + 1] = e
        /\ \A k \in 1 .. l : x.breaks[k] = bs[k]
    BY <1>8, <2>1, <2>2, OneMore
  <2>4. e.reachable
    BY <1>5, <1>6 DEF Walking
  <2>5. x.way # 0 => x.way \in 1 .. l + 1 /\ x.breaks[x.way].reachable
    <3>1. CASE here
      BY <1>8, <2>2, <2>3, <2>4, <3>1
    <3>2. CASE ~here
      BY <1>8, <2>1, <2>2, <2>3, <3>2
    <3> QED
      BY <3>1, <3>2
  <2> QED
    BY <1>4, <1>8, <2>1, <2>3, <2>5 DEF Sound, WayIsReachable
<1>11. Walk(mid, here)
  BY <1>1, <1>4, <1>8, <1>10, InnerWalk DEF IndInv
<1>12. Len(mid) = n
  BY <1>1, <1>4, TopFacts, OneChanged
<1>13. Sound(mid[n])
  BY <1>1, <1>11, <1>12 DEF Walk
<1> HIDE DEF mid
<1>14. DOMAIN y = Fields /\ y.reachable = FALSE /\ y.kind = mid[n].kind /\ y.way = mid[n].way
       /\ y.done = mid[n].done /\ y.breaks = mid[n].breaks
  BY <1>13 DEF Sound, Fields
<1> HIDE DEF y
<1>15. Sound(y)
  BY <1>13, <1>14, SameIsSound
<1>16. Walk(At(mid, n, y), FALSE)
  BY <1>11, <1>12, <1>14, <1>15, ChangedWalk
<1> QED
  BY <1>5, <1>9, <1>16 DEF IndInv

-----------------------------------------------------------------------------
(* The theorem.                                                            *)

(* So it is before the first word.                                         *)
LEMMA InitWalks == Init => IndInv
<1> SUFFICES ASSUME Init
             PROVE  IndInv
  OBVIOUS
<1>1. PICK x : x = Scope("body", 0, << >>) /\ open = <<x>>
  BY DEF Init
<1>2. DOMAIN x = Fields /\ x.kind = "body" /\ x.reachable = TRUE /\ x.way = 0
      /\ x.done = << >> /\ x.breaks = << >>
  BY <1>1 DEF Scope, Fields
<1>3. IsSeq(<< >>)
  BY EmptySeq DEF IsSeq
<1>4. Sound(x)
  BY <1>2, <1>3 DEF Sound, WayIsReachable
<1>5. IsSeq(open) /\ Len(open) = 1 /\ open[1] = x
  <2>1. open \in Seq({x})
    BY <1>1
  <2> QED
    BY <1>1, <2>1 DEF IsSeq
<1>6. here = TRUE
  BY DEF Init
<1> QED
  BY <1>2, <1>4, <1>5, <1>6 DEF IndInv, Walk

(* And behind every other one.                                             *)
LEMMA NextWalks ==
  ASSUME IndInv, [Next]_vars
  PROVE  IndInv'
<1>1. CASE \/ Number \/ String \/ GetLocal \/ RefLocal \/ FunRef
           \/ InitLocal \/ SetLocal \/ StoreLocal \/ Cast \/ Load \/ GetField \/ MatchVoid
           \/ MakeStruct \/ (\E has \in BOOLEAN : MakeVariant(has))
           \/ (\E c \in Calls : Call(c[1], c[2]))
           \/ (\E c \in IndirectCalls : IndirectCall(c[1], c[2]))
           \/ (\E n \in Annotations : StackAnnotation(n))
  <2>1. \E n, left, values : Word(n, left, values) /\ open' = open
    BY <1>1 DEF Number, String, GetLocal, RefLocal, FunRef, InitLocal, SetLocal, StoreLocal,
         Cast, Load, GetField, MatchVoid, MakeStruct, MakeVariant, Make, Consume,
         Call, IndirectCall, StackAnnotation, Called
  <2> QED
    BY <2>1, WordWalks
<1>2. CASE MakeStructNamed \/ LeaveLiteral \/ \E f \in 1 .. 2 : FieldInit(f)
  BY <1>2, MakeStructNamedWalks, LeaveLiteralWalks, FieldInitWalks
<1>3. CASE If \/ \E has \in BOOLEAN : Match(has)
  <2>1. \E kind \in {"true", "case"} : \E payload : Fork(kind, payload)
    BY <1>3 DEF If, Match
  <2> QED
    BY <2>1, ForkWalks
<1>4. CASE \E annotation \in {None} \cup Annotations : Block(annotation) \/ Loop(annotation)
  <2>1. \E kind \in {"block", "loop"} : \E annotation : Start(kind, annotation)
    BY <1>4 DEF Block, Loop
  <2> QED
    BY <2>1, StartWalks
<1>5. CASE Else \/ TakeRest \/ \E has \in BOOLEAN : NextCase(has)
  <2>1. \E kind \in {"else", "rest", "last"} : \E c, payload :
          /\ Top.kind \in {"true", "case"} /\ (kind = "rest" => ~Top.reachable)
          /\ NextBranch(kind, c, payload)
    BY <1>5 DEF Else, TakeRest, NextCase, Kind
  <2> QED
    BY <2>1, NextBranchWalks
<1>6. CASE LeaveElse \/ LeaveRest \/ LeaveMatch \/ LeaveBlock \/ LeaveLoop \/ Break
  BY <1>6, LeaveElseWalks, LeaveRestWalks, LeaveMatchWalks, LeaveBlockWalks, LeaveLoopWalks,
     BreakWalks
<1>7. CASE UNCHANGED vars
  BY <1>7 DEF vars, IndInv
<1> QED
  BY <1>1, <1>2, <1>3, <1>4, <1>5, <1>6, <1>7 DEF Next

(* Code the execution reaches is not taken for unreachable, so inference   *)
(* and code generation do not leave out what it needs                      *)
(* (unstacker.py: reachable).                                              *)
THEOREM ReachedStaysReachable == Spec => []ReachedIsReachable
<1>1. IndInv => ReachedIsReachable
  BY TopFacts DEF ReachedIsReachable
<1> QED
  BY <1>1, InitWalks, NextWalks, PTL DEF Spec

-----------------------------------------------------------------------------
(* The scopes that have a stack of their own.                              *)
Framed(sc) == sc.kind \notin {"body", "literal"}

NodeKind(kind) ==
  IF kind \in {"true", "else", "rest"} THEN "true"
  ELSE IF kind \in {"case", "last"} THEN "case" ELSE kind

(* What is known of the node of a branch, block or loop and of the stack   *)
(* it was opened on, p being the place of its own stack.                   *)
EntryIs(v, N, S, F, p, sc) ==
  /\ p \in Nat /\ p >= 2 /\ sc.node \in 1 .. N
  /\ F[p].node = sc.node /\ F[p].size = Size(sc.before)
  /\ sc.before \in Chains(S, N) /\ Len(sc.before) = p - 1 /\ Good(v, F, sc.before)
  /\ F[p].in => Stands(v, Flat(sc.before), Reverse(v[sc.node]))
  /\ sc.way # 0 \/ sc.branch # 0 \/ v[sc.node] # << >> => F[p].in

(* Of its first branch.                                                    *)
DoneIs(v, N, S, F, p, sc) ==
  /\ sc.kind \in {"true", "case", "block", "loop"} => sc.done = << >>
  /\ sc.kind \in {"else", "rest", "last"} =>
       /\ Len(sc.done) = 1 /\ sc.done[1].chain \in Chains(S, N)
       /\ Len(sc.done[1].chain) = p /\ Good(v, F, sc.done[1].chain)
       /\ sc.way # 0 => Stands(v, Flat(sc.done[1].chain), sc.arrived)

(* Of its breaks.                                                          *)
BreaksAre(v, S, sc) ==
  sc.kind \in {"block", "loop"} =>
    /\ \A i \in 1 .. Len(sc.breaks) :
         /\ sc.breaks[i].sources \in Seq(S)
         /\ sc.annotation # None => Len(sc.breaks[i].sources) = sc.annotation
    /\ sc.annotation = None \/ sc.annotation \in Nat
    /\ sc.way # 0 =>
         IF sc.annotation = None THEN Stands(v, sc.breaks[sc.way].sources, sc.arrived)
         ELSE /\ sc.annotation <= Len(sc.arrived)
              /\ Stands(v, sc.breaks[sc.way].sources,
                   SubSeq(sc.arrived, Len(sc.arrived) - sc.annotation + 1, Len(sc.arrived)))

ScopeOk(v, N, S, F, p, sc) ==
  Framed(sc) => EntryIs(v, N, S, F, p, sc) /\ DoneIs(v, N, S, F, p, sc) /\ BreaksAre(v, S, sc)

(* What is the same of a scope whose reachability changes.                 *)
Alike(a, b) ==
  /\ b.kind = a.kind /\ b.node = a.node /\ b.before = a.before /\ b.done = a.done
  /\ b.breaks = a.breaks /\ b.annotation = a.annotation /\ b.slots = a.slots
  /\ b.branch = a.branch /\ b.way = a.way /\ b.arrived = a.arrived

(* The execution will come to the end of the scope, or to its other branch. *)
Late(sc) == sc.way # 0 \/ (sc.branch = 2 /\ sc.kind \in {"true", "case"})

(* The fields of a literal stand for the values they were set to, unless   *)
(* the execution will never come to its end.                               *)
Filled(v, sc) ==
  \A f \in 1 .. 2 : sc.slots[f] # Unset => MeaningIn(v, sc.slots[f]) = sc.arrived[f]
Missed(o, h, k) == ~h /\ \A j \in k .. Len(o) : ~Late(o[j])

LiteralOk(v, S, o, h, k) ==
  o[k].kind = "literal" =>
    /\ o[k].slots \in [1 .. 2 -> S \cup {Unset}] /\ o[k].node \in Int
    /\ o[k].arrived = [f \in 1 .. 2 |-> o[k].arrived[f]]
    /\ Filled(v, o[k]) \/ Missed(o, h, k)

(* The places of the scopes' stacks.                                       *)
Places(P, o, n) ==
  /\ P \in [Nat -> Nat] /\ P[1] = 1 /\ P[Len(o)] = n
  /\ \A k \in 2 .. Len(o) : o[k].kind # "body" /\ P[k] = P[k - 1] + IF Framed(o[k]) THEN 1 ELSE 0

(* A break that takes the whole stack leaves nothing below; and what is    *)
(* below stays taken, or is taken at the end of the construct in whose     *)
(* other branch the walk goes on.                                          *)
SpentNow(P, c, o, j) ==
  Dry(c, j - 1) /\ \A k \in 2 .. Len(o) : Framed(o[k]) /\ P[k] > j => Dry(o[k].before, j - 1)
SpentBefore(P, o, j) ==
  \E k \in 2 .. Len(o) :
    Framed(o[k]) /\ P[k] = j /\ o[k].done # << >> /\ Dry(o[k].done[1].chain, j - 1)
Spent(P, c, o, j) == SpentNow(P, c, o, j) \/ SpentBefore(P, o, j)

TakesAll(sc) == sc.kind \in {"block", "loop"} /\ sc.annotation = None /\ sc.way # 0

AllSpent(P, c, o) ==
  \A k \in 2 .. Len(o) : TakesAll(o[k]) => \E j \in P[k] .. Len(c) : Spent(P, c, o, j)

(* The nodes.                                                              *)
NodeFields == {"kind", "arguments", "next", "again", "subject", "ends"}

ByDepth(x) == IF x.kind = "loop" THEN x.arguments ELSE Reverse(x.arguments)

EntryOk(v, n, x) ==
  x.kind \notin {"call", "annotation", "exit"} =>
    /\ \A d \in DOMAIN ByDepth(x) \cap DOMAIN v[n] : MeaningIn(v, ByDepth(x)[d]) = v[n][d]
    /\ \A d \in DOMAIN x.again :
         x.again[d] = IF d \in DOMAIN Reverse(x.next) THEN MeaningIn(v, Reverse(x.next)[d])
                      ELSE v[n][d]

NodeOk(v, S, n, x) ==
  /\ DOMAIN x = NodeFields /\ x.arguments \in Seq(S) /\ x.next \in Seq(S) /\ x.subject \in Seq(S)
  /\ DOMAIN v[n] = 1 .. Len(v[n]) /\ Len(v[n]) \in Nat
  /\ EntryOk(v, n, x)

Nodes(v, nd, S) ==
  /\ IsSeq(v) /\ IsSeq(nd) /\ Len(nd) = Len(v)
  /\ \A n \in 1 .. Len(v) : NodeOk(v, S, n, nd[n])

Scopes(v, nd, N, S, F, P, o, m) ==
  \A k \in 2 .. m :
    ScopeOk(v, N, S, F, P[k], o[k]) /\ (Framed(o[k]) => nd[o[k].node].kind = NodeKind(o[k].kind))

Literal(v, S, o, h) == \A k \in 1 .. Len(o) : LiteralOk(v, S, o, h, k)

(* A literal is a source for which a word was counted when it was opened.  *)
Counted(R, wd, o, c) ==
  R \in Nat /\ wd \in Nat /\ wd <= MaxWords /\ R + Len(o) - Len(c) <= wd

Sits(v, nd, wd, c, o, h, st, F, P, R) ==
  /\ DOMAIN F = Nat /\ F[1].in /\ Counted(R, wd, o, c)
  /\ Nodes(v, nd, Level(Len(v), R))
  /\ Inner(v, Len(v), Level(Len(v), R), F, c, h, st)
  /\ Places(P, o, Len(c))
  /\ Scopes(v, nd, Len(v), Level(Len(v), R), F, P, o, Len(o))
  /\ Literal(v, Level(Len(v), R), o, h)
  /\ AllSpent(P, c, o)

Faithful == \E F, P, R : Sits(value, nodes, words, chain, open, here, stack, F, P, R)

-----------------------------------------------------------------------------
(* What stays true as there are more nodes and sources.                    *)

(* Then it also counts as one of the same kind.                            *)
LEMMA AlikeKinds ==
  ASSUME NEW a, NEW b, Alike(a, b)
  PROVE  /\ Framed(b) <=> Framed(a)
         /\ Late(b) <=> Late(a)
         /\ TakesAll(b) <=> TakesAll(a)
BY DEF Alike, Framed, Late, TakesAll

(* The stack a scope was opened on.                                        *)
LEMMA EntryGrows ==
  ASSUME NEW v, NEW N, NEW S, NEW w, NEW M, NEW T, Grown(v, N, S, w, M, T),
         NEW F, NEW G, NEW p, SameTo(F, G, p), NEW sc, EntryIs(v, N, S, F, p, sc)
  PROVE  EntryIs(w, M, T, G, p, sc)
<1>1. /\ p \in Nat /\ p >= 2 /\ sc.node \in 1 .. N
      /\ F[p].node = sc.node /\ F[p].size = Size(sc.before)
      /\ sc.before \in Chains(S, N) /\ Len(sc.before) = p - 1 /\ Good(v, F, sc.before)
      /\ F[p].in => Stands(v, Flat(sc.before), Reverse(v[sc.node]))
      /\ sc.way # 0 \/ sc.branch # 0 \/ v[sc.node] # << >> => F[p].in
  BY DEF EntryIs
<1>2. PICK c, x : c = sc.before /\ x = F[p]
  OBVIOUS
<1>3. SameTo(F, G, Len(c)) /\ G[p] = F[p]
  <2>1. \A j \in 1 .. p - 1 : j \in 1 .. p
    BY <1>1
  <2>2. p \in 1 .. p
    BY <1>1
  <2> QED
    BY <1>1, <1>2, <2>1, <2>2 DEF SameTo
<1>4. c \in Chains(T, M) /\ Good(w, G, c)
  BY <1>1, <1>2, <1>3, ChainsGrow, GoodGrows
<1>5. w[sc.node] = v[sc.node] /\ sc.node \in 1 .. M
  BY <1>1 DEF Grown
<1>6. F[p].in => Stands(w, Flat(c), Reverse(v[sc.node]))
  <2>1. Flat(c) \in Seq(S)
    BY <1>1, <1>2, SizeIs
  <2> QED
    BY <1>1, <1>2, <2>1, StandsGrow
<1> QED
  BY <1>1, <1>2, <1>3, <1>4, <1>5, <1>6 DEF EntryIs

(* Its first branch.                                                       *)
LEMMA DoneGrows ==
  ASSUME NEW v, NEW N, NEW S, NEW w, NEW M, NEW T, Grown(v, N, S, w, M, T),
         NEW F, NEW G, NEW p, SameTo(F, G, p), NEW sc, DoneIs(v, N, S, F, p, sc)
  PROVE  DoneIs(w, M, T, G, p, sc)
<1> SUFFICES ASSUME sc.kind \in {"else", "rest", "last"}
             PROVE  /\ sc.done[1].chain \in Chains(T, M) /\ Good(w, G, sc.done[1].chain)
                    /\ sc.way # 0 => Stands(w, Flat(sc.done[1].chain), sc.arrived)
  BY DEF DoneIs
<1>1. PICK c : c = sc.done[1].chain
  OBVIOUS
<1>2. /\ c \in Chains(S, N) /\ Len(c) = p /\ Good(v, F, c)
      /\ sc.way # 0 => Stands(v, Flat(c), sc.arrived)
  BY <1>1 DEF DoneIs
<1>3. c \in Chains(T, M) /\ Good(w, G, c)
  BY <1>2, ChainsGrow, GoodGrows
<1>4. Flat(c) \in Seq(S)
  BY <1>2, SizeIs
<1> QED
  BY <1>1, <1>2, <1>3, <1>4, StandsGrow

(* Its breaks.                                                             *)
LEMMA BreaksGrow ==
  ASSUME NEW v, NEW N, NEW S, NEW w, NEW M, NEW T, Grown(v, N, S, w, M, T),
         NEW sc, Sound(sc), BreaksAre(v, S, sc)
  PROVE  BreaksAre(w, T, sc)
<1> SUFFICES ASSUME sc.kind \in {"block", "loop"}
             PROVE  BreaksAre(w, T, sc)
  BY DEF BreaksAre
<1>1. \A i \in 1 .. Len(sc.breaks) : sc.breaks[i].sources \in Seq(S)
  BY DEF BreaksAre
<1>2. \A q \in Seq(S) : q \in Seq(T)
  BY SeqMonotonic DEF Grown
<1>3. ASSUME sc.way # 0
      PROVE  \A a : Stands(v, sc.breaks[sc.way].sources, a) => Stands(w, sc.breaks[sc.way].sources, a)
  <2>1. sc.way \in 1 .. Len(sc.breaks)
    BY <1>3 DEF Sound, WayIsReachable
  <2> QED
    BY <1>1, <2>1, StandsGrow
<1> QED
  BY <1>1, <1>2, <1>3 DEF BreaksAre

(* All of it.                                                              *)
LEMMA ScopeGrows ==
  ASSUME NEW v, NEW N, NEW S, NEW w, NEW M, NEW T, Grown(v, N, S, w, M, T),
         NEW F, NEW G, NEW p, SameTo(F, G, p), NEW sc, Sound(sc), ScopeOk(v, N, S, F, p, sc)
  PROVE  ScopeOk(w, M, T, G, p, sc)
BY EntryGrows, DoneGrows, BreaksGrow DEF ScopeOk

(* Nothing of it depends on whether it is reachable.                       *)
LEMMA ScopeAlike ==
  ASSUME NEW v, NEW N, NEW S, NEW F, NEW p, NEW a, NEW b, Alike(a, b), ScopeOk(v, N, S, F, p, a)
  PROVE  ScopeOk(v, N, S, F, p, b)
<1>1. Framed(b) => EntryIs(v, N, S, F, p, b)
  BY DEF ScopeOk, Alike, Framed, EntryIs
<1>2. Framed(b) => DoneIs(v, N, S, F, p, b)
  BY DEF ScopeOk, Alike, Framed, DoneIs
<1>3. Framed(b) => BreaksAre(v, S, b)
  BY DEF ScopeOk, Alike, Framed, BreaksAre
<1> QED
  BY <1>1, <1>2, <1>3 DEF ScopeOk

(* A node.                                                                 *)
LEMMA NodeGrows ==
  ASSUME NEW v, NEW N, NEW S, NEW w, NEW M, NEW T, Grown(v, N, S, w, M, T),
         NEW n, n \in 1 .. N, NEW x, NodeOk(v, S, n, x)
  PROVE  NodeOk(w, T, n, x)
<1>1. w[n] = v[n]
  BY DEF Grown
<1>2. \A q \in Seq(S) : q \in Seq(T)
  BY SeqMonotonic DEF Grown
<1>3. \A q \in Seq(S) : \A d \in DOMAIN q : MeaningIn(w, q[d]) = MeaningIn(v, q[d])
  <2> SUFFICES ASSUME NEW q, q \in Seq(S), NEW d \in DOMAIN q
               PROVE  MeaningIn(w, q[d]) = MeaningIn(v, q[d])
    OBVIOUS
  <2>1. q[d] \in S
    OBVIOUS
  <2> QED
    BY <2>1 DEF Grown
<1>4. ByDepth(x) \in Seq(S) /\ Reverse(x.next) \in Seq(S)
  BY ReverseOf DEF NodeOk, ByDepth
<1>5. PICK q, r : q = ByDepth(x) /\ r = Reverse(x.next)
  OBVIOUS
<1>6. /\ \A d \in DOMAIN q : MeaningIn(w, q[d]) = MeaningIn(v, q[d])
      /\ \A d \in DOMAIN r : MeaningIn(w, r[d]) = MeaningIn(v, r[d])
  BY <1>3, <1>4, <1>5
<1>7. EntryOk(w, n, x)
  BY <1>1, <1>5, <1>6 DEF NodeOk, EntryOk
<1> QED
  BY <1>1, <1>2, <1>7 DEF NodeOk

(* All of them, and one or more after them.                                *)
LEMMA NodesGrow ==
  ASSUME NEW v, NEW nd, NEW S, Nodes(v, nd, S), NEW w, NEW ne, NEW T,
         Grown(v, Len(v), S, w, Len(w), T), IsSeq(w), IsSeq(ne), Len(ne) = Len(w),
         \A n \in 1 .. Len(v) : ne[n] = nd[n] \/ NodeOk(w, T, n, ne[n]),
         \A n \in Len(v) + 1 .. Len(w) : NodeOk(w, T, n, ne[n])
  PROVE  Nodes(w, ne, T)
<1>1. Len(v) \in Nat /\ Len(w) \in Nat
  BY DEF Grown
<1>2. ASSUME NEW n \in 1 .. Len(w)
      PROVE  NodeOk(w, T, n, ne[n])
  <2>1. n \in 1 .. Len(v) \/ n \in Len(v) + 1 .. Len(w)
    BY <1>1
  <2>2. ASSUME n \in 1 .. Len(v), ne[n] = nd[n]
        PROVE  NodeOk(w, T, n, ne[n])
    <3>1. NodeOk(v, S, n, nd[n])
      BY <2>2 DEF Nodes
    <3> QED
      BY <2>2, <3>1, NodeGrows
  <2> QED
    BY <2>1, <2>2
<1> QED
  BY <1>2 DEF Nodes

(* A scope in the place of another one.                                    *)
Resembles(a, b) == b.kind = a.kind /\ (Framed(a) => Alike(a, b))

(* All scopes.                                                             *)
LEMMA ScopesGrow ==
  ASSUME NEW v, NEW nd, NEW N, NEW S, NEW w, NEW ne, NEW M, NEW T, Grown(v, N, S, w, M, T),
         \A n \in 1 .. N : ne[n].kind = nd[n].kind,
         NEW F, NEW G, NEW P, NEW Q, NEW o, NEW x, NEW m,
         Scopes(v, nd, N, S, F, P, o, m),
         \A k \in 2 .. m : /\ Sound(o[k]) /\ Resembles(o[k], x[k])
                           /\ Q[k] = P[k] /\ SameTo(F, G, P[k])
  PROVE  Scopes(w, ne, M, T, G, Q, x, m)
<1> SUFFICES ASSUME NEW k \in 2 .. m
             PROVE  /\ ScopeOk(w, M, T, G, Q[k], x[k])
                    /\ Framed(x[k]) => ne[x[k].node].kind = NodeKind(x[k].kind)
  BY DEF Scopes
<1>1. PICK a, b, p : a = o[k] /\ b = x[k] /\ p = P[k]
  OBVIOUS
<1>2. /\ Sound(a) /\ Resembles(a, b) /\ Q[k] = p /\ SameTo(F, G, p) /\ ScopeOk(v, N, S, F, p, a)
      /\ Framed(a) => nd[a.node].kind = NodeKind(a.kind)
  BY <1>1 DEF Scopes
<1>3. CASE ~Framed(a)
  <2>1. ~Framed(b)
    BY <1>2, <1>3 DEF Resembles, Framed
  <2> QED
    BY <1>1, <2>1 DEF ScopeOk
<1>4. CASE Framed(a)
  <2>1. Alike(a, b)
    BY <1>2, <1>4 DEF Resembles
  <2>2. ScopeOk(w, M, T, G, p, a)
    BY <1>2, ScopeGrows
  <2>3. ScopeOk(w, M, T, G, p, b)
    BY <2>1, <2>2, ScopeAlike
  <2>4. a.node \in 1 .. N
    BY <1>2, <1>4 DEF ScopeOk, EntryIs
  <2>5. ne[b.node].kind = NodeKind(b.kind)
    BY <1>2, <1>4, <2>1, <2>4 DEF Alike
  <2> QED
    BY <1>1, <1>2, <2>3, <2>5
<1> QED
  BY <1>3, <1>4

(* A literal, as long as nobody comes back to it.                          *)
LEMMA LiteralStays ==
  ASSUME NEW v, NEW N, NEW S, NEW w, NEW M, NEW T, Grown(v, N, S, w, M, T),
         NEW o, NEW h, NEW x, NEW g, NEW k, LiteralOk(v, S, o, h, k), Alike(o[k], x[k]),
         Missed(o, h, k) => Missed(x, g, k)
  PROVE  LiteralOk(w, T, x, g, k)
<1> SUFFICES ASSUME x[k].kind = "literal"
             PROVE  /\ x[k].slots \in [1 .. 2 -> T \cup {Unset}] /\ x[k].node \in Int
                    /\ x[k].arrived = [f \in 1 .. 2 |-> x[k].arrived[f]]
                    /\ Filled(w, x[k]) \/ Missed(x, g, k)
  BY DEF LiteralOk
<1>1. PICK a, b : a = o[k] /\ b = x[k]
  OBVIOUS
<1>2. /\ b.slots = a.slots /\ b.arrived = a.arrived /\ b.node = a.node /\ a.kind = "literal"
  BY <1>1 DEF Alike
<1>3. /\ a.slots \in [1 .. 2 -> S \cup {Unset}] /\ a.node \in Int
      /\ a.arrived = [f \in 1 .. 2 |-> a.arrived[f]]
      /\ Filled(v, a) \/ Missed(o, h, k)
  BY <1>1, <1>2 DEF LiteralOk
<1>4. S \subseteq T /\ \A s \in S : MeaningIn(w, s) = MeaningIn(v, s)
  BY DEF Grown
<1>5. b.slots \in [1 .. 2 -> T \cup {Unset}]
  BY <1>2, <1>3, <1>4
<1>6. ASSUME Filled(v, a)
      PROVE  Filled(w, b)
  <2> SUFFICES ASSUME NEW f \in 1 .. 2, a.slots[f] # Unset
               PROVE  MeaningIn(w, a.slots[f]) = a.arrived[f]
    BY <1>2 DEF Filled
  <2>1. a.slots[f] \in S
    BY <1>3
  <2> QED
    BY <1>4, <1>6, <2>1 DEF Filled
<1> QED
  BY <1>1, <1>2, <1>3, <1>5, <1>6

(* Further in is never further out.                                        *)
LEMMA PlacesRise ==
  ASSUME NEW P, NEW o, NEW n, Places(P, o, n), IsSeq(o), Len(o) > 0
  PROVE  \A m \in 1 .. Len(o) : \A k \in 1 .. m :
           /\ 1 <= P[k] /\ P[k] <= P[m] /\ P[m] <= n
           /\ k < m /\ Framed(o[m]) => P[k] < P[m]
<1>1. PICK l : l = Len(o)
  OBVIOUS
<1>2. l \in Nat /\ l >= 1
  BY <1>1, OneMore
<1>3. /\ P \in [Nat -> Nat] /\ P[1] = 1 /\ P[l] = n
      /\ \A k \in 2 .. l : P[k] = P[k - 1] + IF Framed(o[k]) THEN 1 ELSE 0
  BY <1>1 DEF Places
<1> DEFINE T == {d \in Nat : \A k \in 1 .. l : k + d <= l => P[k] <= P[k + d]}
<1>4. 0 \in T
  <2>1. \A k \in 1 .. l : k + 0 = k /\ P[k] \in Nat
    BY <1>3
  <2> QED
    BY <2>1
<1>5. ASSUME NEW d \in Nat, d \in T
      PROVE  d + 1 \in T
  <2> SUFFICES ASSUME NEW k \in 1 .. l, k + (d + 1) <= l
               PROVE  P[k] <= P[k + (d + 1)]
    OBVIOUS
  <2>1. PICK e : e = k + (d + 1)
    OBVIOUS
  <2>2. e \in 2 .. l /\ e - 1 = k + d /\ k + d <= l /\ e - 1 \in Nat /\ e \in Nat /\ k \in Nat
    BY <1>2, <2>1
  <2>3. P[k] <= P[e - 1]
    BY <1>5, <2>2
  <2>4. P[e] = P[e - 1] + IF Framed(o[e]) THEN 1 ELSE 0
    BY <1>3, <2>2
  <2>5. P[e] \in Nat /\ P[e - 1] \in Nat /\ P[k] \in Nat
    BY <1>3, <2>2
  <2>6. P[e - 1] <= P[e]
    BY <2>4, <2>5
  <2> QED
    BY <2>1, <2>3, <2>5, <2>6
<1>6. \A d \in Nat : d \in T
  <2> HIDE DEF T
  <2> QED
    BY ONLY <1>4, <1>5, Induction
<1>7. \A m \in 1 .. l : \A k \in 1 .. m : P[k] <= P[m]
  <2> SUFFICES ASSUME NEW m \in 1 .. l, NEW k \in 1 .. m
               PROVE  P[k] <= P[m]
    OBVIOUS
  <2>1. PICK d : d = m - k
    OBVIOUS
  <2>2. d \in Nat /\ k + d = m /\ k \in 1 .. l /\ k + d <= l
    BY <1>2, <2>1
  <2> QED
    BY <1>6, <2>2
<1>8. \A k \in 1 .. l : P[k] \in Nat
  BY <1>3
<1>9. ASSUME NEW m \in 1 .. l, NEW k \in 1 .. m
      PROVE  /\ 1 <= P[k] /\ P[k] <= P[m] /\ P[m] <= n
             /\ k < m /\ Framed(o[m]) => P[k] < P[m]
  <2>1. 1 \in 1 .. k /\ k \in 1 .. l /\ m \in 1 .. l /\ l \in 1 .. l
    BY <1>2
  <2>2. P[1] <= P[k] /\ P[k] <= P[m] /\ P[m] <= P[l]
    BY <1>7, <2>1
  <2>3. ASSUME k < m, Framed(o[m])
        PROVE  P[k] < P[m]
    <3>1. PICK e : e = m - 1
      OBVIOUS
    <3>2. e \in 1 .. l /\ k \in 1 .. e /\ m \in 2 .. l
      BY <1>2, <2>3, <3>1
    <3>3. P[k] <= P[e] /\ P[m] = P[e] + 1
      BY <1>3, <1>7, <2>3, <3>1, <3>2
    <3>4. P[k] \in Nat /\ P[e] \in Nat
      BY <1>8, <2>1, <3>2
    <3> QED
      BY <3>3, <3>4
  <2> QED
    BY <1>3, <2>2, <2>3
<1> QED
  BY <1>1, <1>9

(* What is taken stays taken while the same scopes are open.               *)
LEMMA SpentStays ==
  ASSUME NEW P, NEW c, NEW o, AllSpent(P, c, o), Places(P, o, Len(c)), IsSeq(o), Len(o) > 0,
         NEW d, Len(d) = Len(c), Len(c) \in Nat,
         \A i \in 0 .. Len(c) - 1 : Dry(c, i) => Dry(d, i),
         NEW x, Len(x) = Len(o), \A k \in 2 .. Len(o) : Resembles(o[k], x[k])
  PROVE  AllSpent(P, d, x)
<1> SUFFICES ASSUME NEW k \in 2 .. Len(o), TakesAll(x[k])
             PROVE  \E j \in P[k] .. Len(c) : Spent(P, d, x, j)
  BY DEF AllSpent
<1>1. \A i \in 2 .. Len(o) :
        /\ Framed(x[i]) <=> Framed(o[i])
        /\ Framed(o[i]) => Alike(o[i], x[i])
  BY DEF Resembles, Framed
<1>2. Framed(x[k])
  BY DEF TakesAll, Framed
<1>3. TakesAll(o[k])
  BY <1>1, <1>2 DEF TakesAll, Alike
<1>4. PICK j \in P[k] .. Len(c) : Spent(P, c, o, j)
  BY <1>3 DEF AllSpent
<1>5. j - 1 \in 0 .. Len(c) - 1
  <2>1. Len(o) \in Nat
    BY OneMore
  <2>2. Len(o) \in 1 .. Len(o) /\ k \in 1 .. Len(o)
    BY <2>1
  <2>3. 1 <= P[k]
    BY <2>2, PlacesRise
  <2>4. P[k] \in Nat
    BY DEF Places
  <2> QED
    BY <2>3, <2>4
<1>6. CASE SpentNow(P, c, o, j)
  <2>1. SpentNow(P, d, x, j)
    BY <1>1, <1>5, <1>6 DEF SpentNow, Alike
  <2> QED
    BY <2>1 DEF Spent
<1>7. CASE SpentBefore(P, o, j)
  <2>1. SpentBefore(P, x, j)
    BY <1>1, <1>7 DEF SpentBefore, Alike
  <2> QED
    BY <2>1 DEF Spent
<1> QED
  BY <1>4, <1>6, <1>7 DEF Spent

(* What the invariant says of the sizes.                                   *)
LEMMA SitsIs ==
  ASSUME NEW v, NEW nd, NEW wd, NEW c, NEW o, NEW h, NEW st, NEW F, NEW P, NEW R,
         Sits(v, nd, wd, c, o, h, st, F, P, R), Walk(o, h)
  PROVE  /\ Len(v) \in Nat /\ R \in Nat /\ R <= MaxWords /\ Len(o) \in Nat /\ Len(o) > 0
         /\ Len(c) \in Nat /\ Len(c) # 0 /\ Len(c) <= Len(o)
         /\ World(v, Len(v), Level(Len(v), R))
         /\ c \in Chains(Level(Len(v), R), Len(v)) /\ Size(c) \in Nat
         /\ Flat(c) \in Seq(Level(Len(v), R)) /\ Size(c) = Len(Flat(c))
<1>1. IsSeq(v) /\ \A n \in 1 .. Len(v) : DOMAIN v[n] = 1 .. Len(v[n])
  BY DEF Sits, Nodes, NodeOk
<1>2. Len(v) \in Nat
  BY <1>1, OneMore
<1>3. R \in Nat /\ wd \in Nat /\ wd <= MaxWords /\ R + Len(o) - Len(c) <= wd
  BY DEF Sits, Counted
<1>4. PICK N, S : N = Len(v) /\ S = Level(N, R)
  OBVIOUS
<1>5. c \in Chains(S, N) /\ Len(c) # 0
  BY <1>4 DEF Sits, Inner
<1>6. Flat(c) \in Seq(S) /\ Size(c) = Len(Flat(c)) /\ Size(c) \in Nat /\ Len(c) \in Nat
  BY <1>5, SizeIs
<1>7. IsSeq(o) /\ Len(o) > 0
  BY DEF Walk
<1>8. Len(o) \in Nat
  BY <1>7, OneMore
<1>9. Places(P, o, Len(c))
  BY DEF Sits
<1>10. Len(c) <= Len(o)
  <2>1. P[1] = 1 /\ P[Len(o)] = Len(c) /\ P \in [Nat -> Nat]
        /\ \A k \in 2 .. Len(o) : P[k] = P[k - 1] + IF Framed(o[k]) THEN 1 ELSE 0
    BY <1>9 DEF Places
  <2> DEFINE T == {k \in Nat : k >= 1 /\ k <= Len(o) => P[k] <= k}
  <2>2. 0 \in T
    OBVIOUS
  <2>3. ASSUME NEW k \in Nat, k \in T
        PROVE  k + 1 \in T
    <3> SUFFICES ASSUME k + 1 <= Len(o)
                 PROVE  P[k + 1] <= k + 1
      OBVIOUS
    <3>1. CASE k = 0
      BY <2>1, <3>1
    <3>2. CASE k # 0
      <4>1. PICK m : m = k + 1
        OBVIOUS
      <4>2. m \in 2 .. Len(o) /\ m - 1 = k /\ P[k] <= k /\ P[k] \in Nat /\ P[m] \in Nat
        BY <1>8, <2>1, <2>3, <3>2, <4>1
      <4>3. P[m] = P[k] + IF Framed(o[m]) THEN 1 ELSE 0
        BY <2>1, <4>2
      <4> QED
        BY <4>1, <4>2, <4>3
    <3> QED
      BY <3>1, <3>2
  <2>4. \A k \in Nat : k \in T
    <3> HIDE DEF T
    <3> QED
      BY ONLY <2>2, <2>3, Induction
  <2> QED
    BY <1>7, <1>8, <2>1, <2>4
<1>11. R <= MaxWords
  <2>1. MaxWords \in Nat
    BY UnstackingAssumption
  <2> QED
    BY <1>3, <1>6, <1>8, <1>10, <2>1
<1>12. World(v, N, S)
  BY <1>1, <1>2, <1>3, <1>4, WorldIs
<1> QED
  BY <1>2, <1>3, <1>4, <1>5, <1>6, <1>7, <1>8, <1>10, <1>11, <1>12

(* The invariant, of its parts.                                            *)
LEMMA SitsBy ==
  ASSUME NEW v, NEW nd, NEW wd, NEW c, NEW o, NEW h, NEW st, NEW F, NEW P, NEW R,
         NEW N, N = Len(v), NEW S, S = Level(N, R),
         DOMAIN F = Nat, F[1].in, Counted(R, wd, o, c), Nodes(v, nd, S),
         Inner(v, N, S, F, c, h, st), Places(P, o, Len(c)),
         Scopes(v, nd, N, S, F, P, o, Len(o)), Literal(v, S, o, h), AllSpent(P, c, o)
  PROVE  Sits(v, nd, wd, c, o, h, st, F, P, R)
BY DEF Sits

(* What a word does that makes and takes values.                           *)
Does(v, nd, wd, c, o, h, st, R, n, left, values, w, ne, L, M, T, x, s) ==
  /\ n \in Nat /\ n <= Size(c) /\ wd + 1 <= MaxWords
  /\ L \in Nat /\ R <= L /\ L <= R + 1
  /\ M = Len(w) /\ M \in Nat /\ Len(v) <= M /\ \A i \in 1 .. Len(v) : w[i] = v[i]
  /\ \A i \in 1 .. Len(v) : ne[i].kind = nd[i].kind
  /\ T = Level(M, L) /\ Nodes(w, ne, T)
  /\ left \in Seq(T) /\ (h => Stands(w, left, values))
  /\ Len(x) = Len(o) /\ (\A k \in 2 .. Len(o) : Resembles(o[k], x[k]))
  /\ Literal(w, T, x, h)
  /\ s = IF h THEN Cat(SubSeq(st, 1, Len(st) - n), values) ELSE st

(* A word takes values and leaves others, and there may be one more node,  *)
(* and sources that are one deeper.                                        *)
LEMMA WordStep ==
  ASSUME NEW v, NEW nd, NEW wd, NEW c, NEW o, NEW h, NEW st, NEW F, NEW P, NEW R,
         Sits(v, nd, wd, c, o, h, st, F, P, R), Walk(o, h),
         NEW n, NEW left, NEW values, NEW w, NEW ne, NEW L, NEW M, NEW T, NEW x, NEW s,
         Does(v, nd, wd, c, o, h, st, R, n, left, values, w, ne, L, M, T, x, s)
  PROVE  Sits(w, ne, wd + 1, Push(PopN(c, n).chain, left), x, h, s, F, P, L)
<1>0. /\ n \in Nat /\ n <= Size(c) /\ wd + 1 <= MaxWords
      /\ L \in Nat /\ R <= L /\ L <= R + 1
      /\ M = Len(w) /\ M \in Nat /\ Len(v) <= M /\ (\A i \in 1 .. Len(v) : w[i] = v[i])
      /\ (\A i \in 1 .. Len(v) : ne[i].kind = nd[i].kind)
      /\ T = Level(M, L) /\ Nodes(w, ne, T)
      /\ left \in Seq(T) /\ (h => Stands(w, left, values))
      /\ Len(x) = Len(o) /\ (\A k \in 2 .. Len(o) : Resembles(o[k], x[k]))
      /\ Literal(w, T, x, h)
      /\ s = IF h THEN Cat(SubSeq(st, 1, Len(st) - n), values) ELSE st
  BY DEF Does
<1> USE <1>0
<1>1. /\ Len(v) \in Nat /\ R \in Nat /\ R <= MaxWords /\ Len(o) \in Nat /\ Len(o) > 0
      /\ Len(c) \in Nat /\ Len(c) # 0 /\ Len(c) <= Len(o)
      /\ World(v, Len(v), Level(Len(v), R))
      /\ c \in Chains(Level(Len(v), R), Len(v)) /\ Size(c) \in Nat
  BY SitsIs
<1>2. PICK N, S : N = Len(v) /\ S = Level(N, R)
  OBVIOUS
<1>3. /\ DOMAIN F = Nat /\ F[1].in /\ Counted(R, wd, o, c) /\ Inner(v, N, S, F, c, h, st)
      /\ Places(P, o, Len(c)) /\ Scopes(v, nd, N, S, F, P, o, Len(o)) /\ AllSpent(P, c, o)
  BY <1>2 DEF Sits
<1>4. L <= MaxWords
  <2>1. wd \in Nat /\ R + Len(o) - Len(c) <= wd
    BY ONLY <1>3 DEF Counted
  <2>2. MaxWords \in Nat
    BY ONLY UnstackingAssumption
  <2>3. L \in Nat /\ L <= R + 1 /\ wd + 1 <= MaxWords
    BY ONLY <1>0
  <2>4. R \in Nat /\ Len(o) \in Nat /\ Len(c) \in Nat /\ Len(c) <= Len(o)
    BY ONLY <1>1
  <2> QED
    BY ONLY <2>1, <2>2, <2>3, <2>4
<1>5. Grown(v, N, S, w, M, T)
  BY <1>1, <1>2, <1>4, WorldGrows
<1>6. World(v, N, S)
  BY <1>1, <1>2
<1>7. World(w, M, T)
  <2>1. \A i \in 1 .. M : DOMAIN w[i] = 1 .. Len(w[i])
    BY DEF Nodes, NodeOk
  <2> QED
    BY <2>1, WorldIs
<1>8. PICK d, e : d = PopN(c, n).chain /\ e = Push(d, left)
  OBVIOUS
<1>9. PICK s1 : s1 = IF h THEN SubSeq(st, 1, Len(st) - n) ELSE << >>
  OBVIOUS
<1>10. /\ PopsAll(S, N, c, n, PopN(c, n)) /\ Inner(v, N, S, F, d, h, s1)
  BY <1>3, <1>6, <1>8, <1>9, InnerTakes
<1>11. Inner(w, M, T, F, d, h, s1)
  BY <1>5, <1>10, InnerGrows
<1>12. Inner(w, M, T, F, e, h, IF h THEN Cat(s1, values) ELSE << >>)
  BY <1>7, <1>8, <1>11, InnerLeaves
<1>13. s = IF h THEN Cat(s1, values) ELSE << >>
  BY <1>3, <1>9 DEF Inner
<1>14. /\ Len(d) = Len(c) /\ \A j \in 0 .. Len(c) : Dry(c, j) => Dry(d, j)
  BY <1>8, <1>10 DEF PopsAll
<1>15. Len(e) = Len(d) /\ \A j \in 0 .. Len(d) - 1 : Dry(d, j) => Dry(e, j)
  <2>1. d \in Chains(T, M) /\ Len(d) # 0
    BY <1>11 DEF Inner
  <2>2. /\ Push(d, left) \in Chains(T, M) /\ Len(Push(d, left)) = Len(d)
        /\ Flat(Push(d, left)) = Cat(Flat(d), left)
        /\ \A vv, G : Good(vv, G, d) => Good(vv, G, Push(d, left))
        /\ \A j \in 0 .. Len(d) - 1 : Dry(d, j) => Dry(Push(d, left), j)
    BY ONLY <2>1, M \in Nat, left \in Seq(T), PushIs
  <2> QED
    BY <1>8, <2>2
<1>16. Len(e) = Len(c) /\ \A j \in 0 .. Len(c) - 1 : Dry(c, j) => Dry(e, j)
  <2>1. \A j \in 0 .. Len(c) - 1 : j \in 0 .. Len(c)
    BY <1>1
  <2> QED
    BY <1>14, <1>15, <2>1
<1>17. AllSpent(P, e, x)
  <2>1. IsSeq(o) /\ Len(o) > 0
    BY DEF Walk
  <2> QED
    BY <1>1, <1>3, <1>16, <2>1, SpentStays
<1>18. Places(P, x, Len(e))
  <2>1. /\ P \in [Nat -> Nat] /\ P[1] = 1 /\ P[Len(o)] = Len(c)
        /\ \A k \in 2 .. Len(o) : o[k].kind # "body" /\ P[k] = P[k - 1] + IF Framed(o[k]) THEN 1 ELSE 0
    BY <1>3 DEF Places
  <2>2. \A k \in 2 .. Len(o) : x[k].kind = o[k].kind /\ (Framed(x[k]) <=> Framed(o[k]))
    BY DEF Resembles, Framed
  <2>3. \A k \in 2 .. Len(o) : x[k].kind # "body" /\ P[k] = P[k - 1] + IF Framed(x[k]) THEN 1 ELSE 0
    BY <2>1, <2>2
  <2> QED
    <3>1. P \in [Nat -> Nat] /\ P[1] = 1 /\ P[Len(x)] = Len(e)
      BY <1>16, <2>1
    <3>2. \A k \in 2 .. Len(x) : x[k].kind # "body" /\ P[k] = P[k - 1] + IF Framed(x[k]) THEN 1 ELSE 0
      BY <2>3
    <3> QED
      BY ONLY <3>1, <3>2 DEF Places
<1>19. Scopes(w, ne, M, T, F, P, x, Len(x))
  <2>1. \A k \in 2 .. Len(o) : Sound(o[k]) /\ Resembles(o[k], x[k]) /\ P[k] = P[k] /\ SameTo(F, F, P[k])
    <3>1. \A k \in 2 .. Len(o) : k \in 1 .. Len(o)
      BY <1>1
    <3> QED
      BY <3>1 DEF Walk, SameTo
  <2>2. PICK m : m = Len(o)
    OBVIOUS
  <2>3. Scopes(v, nd, N, S, F, P, o, m) /\ \A i \in 1 .. N : ne[i].kind = nd[i].kind
    BY <1>2, <1>3, <2>2
  <2>4. \A k \in 2 .. m : Sound(o[k]) /\ Resembles(o[k], x[k]) /\ P[k] = P[k] /\ SameTo(F, F, P[k])
    BY <2>1, <2>2
  <2>5. Scopes(w, ne, M, T, F, P, x, m)
    BY ONLY <1>5, <2>3, <2>4, ScopesGrow
  <2> QED
    BY <2>2, <2>5
<1>20. Counted(L, wd + 1, x, e)
  BY <1>1, <1>3, <1>16 DEF Counted
<1>21. Inner(w, M, T, F, e, h, s)
  BY <1>12, <1>13
<1>22. Sits(w, ne, wd + 1, e, x, h, s, F, P, L)
  <2>1. DOMAIN F = Nat /\ F[1].in
    BY <1>3
  <2> QED
    BY ONLY <1>17, <1>18, <1>19, <1>20, <1>21, <2>1, Nodes(w, ne, T), Literal(w, T, x, h),
       M = Len(w), T = Level(M, L), SitsBy
<1> QED
  BY <1>8, <1>22

(* All literals.                                                           *)
LEMMA LiteralsStay ==
  ASSUME NEW v, NEW N, NEW S, NEW w, NEW M, NEW T, Grown(v, N, S, w, M, T),
         NEW o, NEW h, Literal(v, S, o, h)
  PROVE  Literal(w, T, o, h)
<1> SUFFICES ASSUME NEW k \in 1 .. Len(o)
             PROVE  LiteralOk(w, T, o, h, k)
  BY DEF Literal
<1>1. LiteralOk(v, S, o, h, k)
  BY DEF Literal
<1>2. Alike(o[k], o[k])
  BY DEF Alike
<1> QED
  BY <1>1, <1>2, LiteralStays

(* What holds before a step, of the values before it.                      *)
LEMMA Before ==
  ASSUME NEW F, NEW P, NEW R, Sits(value, nodes, words, chain, open, here, stack, F, P, R), IndInv
  PROVE  /\ Walk(open, here) /\ Len(value) \in Nat /\ R \in Nat /\ R <= MaxWords
         /\ words \in Nat /\ words <= MaxWords /\ R <= words /\ MaxWords \in Nat
         /\ World(value, Len(value), Level(Len(value), R))
         /\ Nodes(value, nodes, Level(Len(value), R))
         /\ Literal(value, Level(Len(value), R), open, here)
         /\ Inner(value, Len(value), Level(Len(value), R), F, chain, here, stack)
         /\ Size(chain) \in Nat /\ Len(chain) \in Nat /\ Len(chain) # 0 /\ IsSeq(value) /\ IsSeq(nodes)
         /\ Len(nodes) = Len(value)
<1>1. Walk(open, here)
  BY DEF IndInv
<1>2. /\ Len(value) \in Nat /\ R \in Nat /\ R <= MaxWords /\ Len(open) \in Nat /\ Len(open) > 0
      /\ Len(chain) \in Nat /\ Len(chain) # 0 /\ Len(chain) <= Len(open)
      /\ World(value, Len(value), Level(Len(value), R))
      /\ chain \in Chains(Level(Len(value), R), Len(value)) /\ Size(chain) \in Nat
  BY <1>1, SitsIs
<1>3. Counted(R, words, open, chain)
  BY DEF Sits
<1>4. words \in Nat /\ words <= MaxWords /\ R <= words
  BY <1>2, <1>3 DEF Counted
<1> QED
  BY <1>1, <1>2, <1>4, UnstackingAssumption DEF Sits, Nodes

(* So a word keeps the invariant.                                          *)
LEMMA WordKeeps ==
  ASSUME NEW F, NEW P, NEW R, Sits(value, nodes, words, chain, open, here, stack, F, P, R), IndInv,
         NEW n, n \in Nat, NEW left, NEW values, Word(n, left, values),
         NEW w, value' = w, NEW ne, nodes' = ne, NEW x, open' = x, NEW L, L \in Nat, R <= L, L <= R + 1,
         NEW M, M = Len(w), M \in Nat, Len(value) <= M, \A i \in 1 .. Len(value) : w[i] = value[i],
         \A i \in 1 .. Len(value) : ne[i].kind = nodes[i].kind,
         NEW T, T = Level(M, L), Nodes(w, ne, T),
         left \in Seq(T), here => Stands(w, left, values),
         Len(x) = Len(open), \A k \in 2 .. Len(open) : Resembles(open[k], x[k]),
         Literal(w, T, x, here)
  PROVE  Faithful'
<1>1. /\ n <= Size(chain) /\ words' = words + 1 /\ chain' = Push(PopN(chain, n).chain, left)
      /\ stack' = (IF here THEN Keep(n) \o values ELSE stack) /\ here' = here /\ words < MaxWords
  BY Before DEF Word, Walking
<1>2. PICK s : s = IF here THEN Cat(SubSeq(stack, 1, Len(stack) - n), values) ELSE stack
  OBVIOUS
<1>3. stack' = s
  BY <1>1, <1>2 DEF Keep, Cat
<1>4. words \in Nat /\ MaxWords \in Nat /\ Walk(open, here)
  BY Before
<1>5. words + 1 <= MaxWords
  BY <1>1, <1>4
<1>6. PICK v, nd, wd, c, o, h, st : /\ v = value /\ nd = nodes /\ wd = words /\ c = chain
                                   /\ o = open /\ h = here /\ st = stack
  OBVIOUS
<1>7. /\ Sits(v, nd, wd, c, o, h, st, F, P, R) /\ Walk(o, h) /\ n <= Size(c) /\ wd + 1 <= MaxWords
      /\ Len(v) <= M /\ (\A i \in 1 .. Len(v) : w[i] = v[i])
      /\ (\A i \in 1 .. Len(v) : ne[i].kind = nd[i].kind)
      /\ (h => Stands(w, left, values)) /\ Literal(w, T, x, h)
      /\ Len(x) = Len(o) /\ (\A k \in 2 .. Len(o) : Resembles(o[k], x[k]))
      /\ s = (IF h THEN Cat(SubSeq(st, 1, Len(st) - n), values) ELSE st)
  BY <1>1, <1>2, <1>4, <1>5, <1>6
<1>8. Sits(w, ne, wd + 1, Push(PopN(c, n).chain, left), x, h, s, F, P, L)
  <2>1. Does(v, nd, wd, c, o, h, st, R, n, left, values, w, ne, L, M, T, x, s)
    BY ONLY <1>7, n \in Nat, L \in Nat, R <= L, L <= R + 1, M = Len(w), M \in Nat, T = Level(M, L),
            Nodes(w, ne, T), left \in Seq(T) DEF Does
  <2>2. Sits(v, nd, wd, c, o, h, st, F, P, R) /\ Walk(o, h)
    BY ONLY <1>7
  <2> QED
    BY ONLY <2>1, <2>2, WordStep
<1>9. Sits(value', nodes', words', chain', open', here', stack', F, P, L)
  BY <1>1, <1>3, <1>6, <1>8
<1> QED
  BY <1>9 DEF Faithful

(* What a word makes is a source, one level higher.                        *)
LEMMA MadeMore ==
  ASSUME NEW N, N \in Nat, NEW K, K \in Nat, NEW L, L = K + 1,
         NEW S, S = Level(N, K), NEW T, T = Level(N, L), NEW w, w \in Int,
         NEW q, q \in Seq(S)
  PROVE  Made(w, q) \in T
<1>1. T = MadeOf(S)
  BY LevelIs
<1> QED
  BY <1>1 DEF MadeOf, MadeFrom

(* Sources may be one deeper.                                              *)
LEMMA Deeper ==
  ASSUME NEW F, NEW P, NEW R, Sits(value, nodes, words, chain, open, here, stack, F, P, R), IndInv,
         NEW L, L \in Nat, R <= L, L <= MaxWords, NEW T, T = Level(Len(value), L)
  PROVE  Nodes(value, nodes, T) /\ Literal(value, T, open, here)
<1>1. PICK v, nd, h, o : v = value /\ nd = nodes /\ h = here /\ o = open
  OBVIOUS
<1>2. PICK N, S : N = Len(v) /\ S = Level(N, R)
  OBVIOUS
<1>3. N \in Nat /\ R \in Nat /\ Nodes(v, nd, S) /\ Literal(v, S, o, h)
  BY <1>1, <1>2, Before
<1>4. Grown(v, N, S, v, N, T)
  BY <1>1, <1>2, <1>3, WorldGrows
<1>5. Nodes(v, nd, T)
  <2>1. IsSeq(v) /\ IsSeq(nd) /\ Len(nd) = Len(v)
    BY <1>3 DEF Nodes
  <2>2. \A i \in Len(v) + 1 .. Len(v) : NodeOk(v, T, i, nd[i])
    BY <1>2, <1>3
  <2>3. Grown(v, Len(v), S, v, Len(v), T)
    BY <1>2, <1>4
  <2>4. \A i \in 1 .. Len(v) : nd[i] = nd[i] \/ NodeOk(v, T, i, nd[i])
    OBVIOUS
  <2> QED
    BY ONLY <1>3, <2>1, <2>2, <2>3, <2>4, NodesGrow
<1>6. Literal(v, T, o, h)
  BY <1>3, <1>4, LiteralsStay
<1> QED
  BY <1>1, <1>5, <1>6

(* A word that makes a value.                                              *)
LEMMA MakeKeeps ==
  ASSUME Faithful, IndInv, NEW n, n \in Nat, Make(n)
  PROVE  Faithful'
<1>0. PICK F, P, R : Sits(value, nodes, words, chain, open, here, stack, F, P, R)
  BY DEF Faithful
<1>1. PICK v, nd, h, o, st, wd : /\ v = value /\ nd = nodes /\ h = here /\ o = open /\ st = stack /\ wd = words
  OBVIOUS
<1>2. PICK N, S, T, L, a : N = Len(v) /\ S = Level(N, R) /\ L = R + 1 /\ T = Level(N, L) /\ a = PopN(chain, n)
  OBVIOUS
<1>3. PICK left, values : left = << Made(wd + 1, a.sources) >> /\ values = << Value(wd + 1, Upper(n)) >>
  OBVIOUS
<1>4. Word(n, left, values) /\ value' = v /\ nodes' = nd /\ open' = o
  BY <1>1, <1>2, <1>3 DEF Make
<1>5. /\ N \in Nat /\ R \in Nat /\ World(v, N, S) /\ Nodes(v, nd, S) /\ Literal(v, S, o, h)
      /\ Inner(v, N, S, F, chain, h, st) /\ wd \in Nat /\ R <= wd /\ MaxWords \in Nat
  BY <1>0, <1>1, <1>2, Before
<1>6. wd < MaxWords /\ n <= Size(chain)
  BY <1>1, <1>4, <1>5, <1>0, Before DEF Word, Walking
<1>7. L \in Nat /\ R <= L /\ L <= R + 1 /\ L <= MaxWords
  BY <1>2, <1>5, <1>6
<1>8. Nodes(v, nd, T) /\ Literal(v, T, o, h)
  BY <1>0, <1>1, <1>2, <1>7, Deeper
<1>11. /\ PopsAll(S, N, chain, n, a) /\ (h => Stands(v, a.sources, SubSeq(st, Len(st) - n + 1, Len(st))))
  BY <1>2, <1>5, <1>6, InnerTakes
<1>12. a.sources \in Seq(S)
  BY <1>11 DEF PopsAll
<1>13. PICK q, t : q = a.sources /\ t = Made(wd + 1, q)
  OBVIOUS
<1>14. PICK y : y = wd + 1
  OBVIOUS
<1>14b. y \in Int /\ t = Made(y, q) /\ q \in Seq(S)
  BY <1>5, <1>12, <1>13, <1>14
<1>14c. t \in T
  BY ONLY <1>2, <1>5, <1>14b, MadeMore
<1>14a. h => MeaningIn(v, t) = Value(wd + 1, Upper(n))
  <2> SUFFICES ASSUME h
               PROVE  MeaningIn(v, t) = Value(wd + 1, Upper(n))
    OBVIOUS
  <2>1. PICK u : u = Upper(n)
    OBVIOUS
  <2>3. Stands(v, q, u)
    BY <1>1, <1>11, <1>13, <2>1 DEF Upper
  <2>4. MadeFor(v, T, y, q, u)
    BY ONLY <1>2, <1>5, <1>7, <1>14b, <2>3, MadeMeans
  <2> QED
    BY <1>14, <1>14b, <2>1, <2>4 DEF MadeFor
<1>15. left = <<t>> /\ left \in Seq(T)
  BY <1>3, <1>13, <1>14c
<1>16. h => Stands(v, left, values)
  <2> SUFFICES ASSUME h
               PROVE  Stands(v, left, values)
    OBVIOUS
  <2>2. values = << MeaningIn(v, t) >>
    BY <1>3, <1>14a
  <2>3. [i \in DOMAIN <<t>> |-> MeaningIn(v, <<t>>[i])] = << MeaningIn(v, t) >>
    OBVIOUS
  <2> QED
    BY <1>15, <2>2, <2>3 DEF Stands
<1>17. Len(o) = Len(o) /\ \A k \in 2 .. Len(o) : Resembles(o[k], o[k])
  BY DEF Resembles, Alike
<1>18. /\ Len(value) <= N /\ (\A i \in 1 .. Len(value) : v[i] = value[i])
       /\ (\A i \in 1 .. Len(value) : nd[i].kind = nodes[i].kind)
       /\ (here => Stands(v, left, values)) /\ Literal(v, T, o, here)
       /\ Len(o) = Len(open) /\ (\A k \in 2 .. Len(open) : Resembles(open[k], o[k]))
  BY <1>1, <1>2, <1>5, <1>8, <1>16, <1>17
<1> QED
  BY ONLY <1>0, <1>2, <1>4, <1>5, <1>7, <1>8, <1>15, <1>18, IndInv, n \in Nat, WordKeeps

(* A scope resembles itself.                                               *)
LEMMA Itself == \A o : \A k \in 2 .. Len(o) : Resembles(o[k], o[k])
BY DEF Resembles, Alike

(* Nothing stands for nothing.                                             *)
LEMMA NothingStands == \A v : Stands(v, << >>, << >>)
<1> SUFFICES ASSUME NEW v
             PROVE  << >> = [i \in DOMAIN << >> |-> MeaningIn(v, << >>[i])]
  BY DEF Stands
<1> QED
  OBVIOUS

(* A word that leaves nothing.                                             *)
LEMMA ConsumeKeeps ==
  ASSUME Faithful, IndInv, Consume
  PROVE  Faithful'
<1>0. PICK F, P, R : Sits(value, nodes, words, chain, open, here, stack, F, P, R)
  BY DEF Faithful
<1>1. PICK v, nd, o : v = value /\ nd = nodes /\ o = open
  OBVIOUS
<1>2. PICK N, S : N = Len(v) /\ S = Level(N, R)
  OBVIOUS
<1>3. Word(1, << >>, << >>) /\ value' = v /\ nodes' = nd /\ open' = o
  BY <1>1 DEF Consume
<1>4. /\ N \in Nat /\ R \in Nat /\ Nodes(v, nd, S) /\ Literal(v, S, o, here) /\ 1 \in Nat
  BY <1>0, <1>1, <1>2, Before
<1>5. PICK left, values : left = << >> /\ values = << >>
  OBVIOUS
<1>6. left \in Seq(S) /\ (here => Stands(v, left, values)) /\ Word(1, left, values)
  BY <1>3, <1>5, NothingStands
<1>7. /\ Len(value) <= N /\ (\A i \in 1 .. Len(value) : v[i] = value[i])
      /\ (\A i \in 1 .. Len(value) : nd[i].kind = nodes[i].kind)
      /\ Len(o) = Len(open) /\ (\A k \in 2 .. Len(open) : Resembles(open[k], o[k]))
      /\ R <= R /\ R <= R + 1
  BY <1>1, <1>2, <1>4, Itself
<1> QED
  BY ONLY <1>0, <1>2, <1>3, <1>4, <1>6, <1>7, IndInv, WordKeeps

(* String leaves an address and a length.                                  *)
LEMMA StringKeeps ==
  ASSUME Faithful, IndInv, String
  PROVE  Faithful'
<1>0. PICK F, P, R : Sits(value, nodes, words, chain, open, here, stack, F, P, R)
  BY DEF Faithful
<1>1. PICK v, nd, h, o, wd : /\ v = value /\ nd = nodes /\ h = here /\ o = open /\ wd = words
  OBVIOUS
<1>2. PICK N, S, T, L : N = Len(v) /\ S = Level(N, R) /\ L = R + 1 /\ T = Level(N, L)
  OBVIOUS
<1>3. PICK a, b, x, y : /\ a = wd + 1 /\ b = -(wd + 1) /\ x = Made(a, << >>) /\ y = Made(b, << >>)
  OBVIOUS
<1>4. PICK left, values : left = << x, y >> /\ values = << Value(a, << >>), Value(b, << >>) >>
  OBVIOUS
<1>5. Word(0, left, values) /\ value' = v /\ nodes' = nd /\ open' = o /\ 0 \in Nat
  BY <1>1, <1>3, <1>4 DEF String
<1>6. /\ N \in Nat /\ R \in Nat /\ wd \in Nat /\ R <= wd /\ MaxWords \in Nat
  BY <1>0, <1>1, <1>2, Before
<1>7. wd < MaxWords
  BY <1>1, <1>5 DEF Word, Walking
<1>8. L \in Nat /\ R <= L /\ L <= R + 1 /\ L <= MaxWords
  BY <1>2, <1>6, <1>7
<1>9. Nodes(v, nd, T) /\ Literal(v, T, o, h)
  BY <1>0, <1>1, <1>2, <1>8, Deeper
<1>10. PICK q : q = << >>
  OBVIOUS
<1>11. q \in Seq(S) /\ Stands(v, q, q)
  BY <1>10, NothingStands
<1>12. x \in T /\ MeaningIn(v, x) = Value(a, q)
  <2>1. a \in Int
    BY <1>3, <1>6
  <2>2. MadeFor(v, T, a, q, q)
    BY ONLY <1>2, <1>6, <1>8, <1>11, <2>1, MadeMeans
  <2> QED
    BY <1>3, <1>10, <2>2 DEF MadeFor
<1>13. y \in T /\ MeaningIn(v, y) = Value(b, q)
  <2>1. b \in Int
    BY <1>3, <1>6
  <2>2. MadeFor(v, T, b, q, q)
    BY ONLY <1>2, <1>6, <1>8, <1>11, <2>1, MadeMeans
  <2> QED
    BY <1>3, <1>10, <2>2 DEF MadeFor
<1>14. left \in Seq(T)
  BY ONLY <1>4, <1>12, <1>13
<1>15. Stands(v, left, values)
  <2>1. values = << MeaningIn(v, x), MeaningIn(v, y) >>
    BY <1>4, <1>10, <1>12, <1>13
  <2>2. << MeaningIn(v, x), MeaningIn(v, y) >> = [i \in DOMAIN << x, y >> |-> MeaningIn(v, << x, y >>[i])]
    OBVIOUS
  <2> QED
    BY <1>4, <2>1, <2>2 DEF Stands
<1>16. /\ Len(value) <= N /\ (\A i \in 1 .. Len(value) : v[i] = value[i])
       /\ (\A i \in 1 .. Len(value) : nd[i].kind = nodes[i].kind)
       /\ (here => Stands(v, left, values)) /\ Literal(v, T, o, here)
       /\ Len(o) = Len(open) /\ (\A k \in 2 .. Len(open) : Resembles(open[k], o[k]))
  BY <1>1, <1>2, <1>6, <1>9, <1>15, Itself
<1> QED
  BY ONLY <1>0, <1>2, <1>5, <1>6, <1>8, <1>9, <1>14, <1>16, IndInv, WordKeeps

(* The results of a node stand for its values, the top one first.          *)
LEMMA FromNodesStand ==
  ASSUME NEW v, NEW N, NEW S, World(v, N, S), NEW n, n \in 1 .. N, NEW r, r \in Nat
  PROVE  /\ FromNodes(n, r) \in Seq(S) /\ Len(FromNodes(n, r)) = r
         /\ \A V : \A a \in Seq(V) :
              Len(a) = r /\ v[n] = Reverse(a) => Stands(v, FromNodes(n, r), a)
<1>1. PICK q : q = FromNodes(n, r)
  OBVIOUS
<1>2. q = [i \in 1 .. r |-> FromNode(n, r - i)]
  BY <1>1 DEF FromNodes
<1>3. \A i \in 1 .. r : r - i \in Nat
  OBVIOUS
<1>4. \A i \in 1 .. r : FromNode(n, r - i) \in S
  BY <1>3 DEF World, Refs
<1>5. q \in Seq(S) /\ Len(q) = r
  BY <1>2, <1>4
<1>6. ASSUME NEW V, NEW a \in Seq(V), Len(a) = r, v[n] = Reverse(a)
      PROVE  Stands(v, q, a)
  <2>1. Len(v[n]) = r /\ \A i \in 1 .. r : v[n][i] = a[r + 1 - i]
    BY <1>6, ReverseOf
  <2>2. ASSUME NEW i \in 1 .. r
        PROVE  a[i] = MeaningIn(v, q[i])
    <3>1. PICK d : d = r - i
      OBVIOUS
    <3>2. d \in Nat /\ d + 1 <= r /\ d + 1 \in 1 .. r /\ r + 1 - (d + 1) = i
      BY <3>1
    <3>3. MeaningIn(v, FromNode(n, d)) = v[n][d + 1]
      BY <2>1, <3>2 DEF World, Lookups
    <3>4. v[n][d + 1] = a[r + 1 - (d + 1)]
      BY <2>1, <3>2
    <3> QED
      BY <1>2, <3>1, <3>2, <3>3, <3>4
  <2>3. \A i \in 1 .. Len(q) : a[i] = MeaningIn(v, q[i])
    BY <1>5, <2>2
  <2>4. a \in Seq(V) /\ Len(a) = Len(q)
    BY <1>5, <1>6
  <2> QED
    BY ONLY <1>5, <2>3, <2>4, StandsBy
<1> QED
  BY <1>1, <1>5, <1>6

(* A node that nothing was entered through yet.                            *)
Blank(x, kind, q, t) ==
  /\ DOMAIN x = NodeFields /\ x.kind = kind /\ x.arguments = q /\ x.subject = t
  /\ x.next = << >> /\ x.again = << >>

(* The node of a call, an annotation or an exit.                           *)
LEMMA BlankIs ==
  ASSUME NEW kind, NEW q, NEW t, NEW e
  PROVE  /\ Blank([Node(kind, << >>) EXCEPT !.subject = t, !.ends = e], kind, << >>, t)
         /\ Blank([Node(kind, << >>) EXCEPT !.subject = t], kind, << >>, t)
         /\ Blank(Node(kind, q), kind, q, << >>)
<1>0. PICK none, none2 : none = << >> /\ none2 = {}
  OBVIOUS
<1>1. ASSUME NEW x, NEW a, NEW s, NEW g,
             x = [kind |-> kind, arguments |-> a, next |-> none, again |-> none, subject |-> s, ends |-> g]
      PROVE  Blank(x, kind, a, s)
  <2>1. DOMAIN x = {"kind", "arguments", "next", "again", "subject", "ends"}
    BY <1>1
  <2>2. x.kind = kind /\ x.arguments = a /\ x.next = none /\ x.again = none /\ x.subject = s
    BY ONLY <1>1
  <2> QED
    BY <1>0, <2>1, <2>2 DEF Blank, NodeFields
<1>2. \A a : Node(kind, a) = [kind |-> kind, arguments |-> a, next |-> none, again |-> none,
                              subject |-> none, ends |-> none2]
  BY <1>0 DEF Node
<1>3. PICK x, y, z : /\ x = Node(kind, none) /\ y = [x EXCEPT !.subject = t, !.ends = e]
                     /\ z = [x EXCEPT !.subject = t]
  OBVIOUS
<1>4. x = [kind |-> kind, arguments |-> none, next |-> none, again |-> none, subject |-> none, ends |-> none2]
  BY <1>2, <1>3
<1>5. y = [kind |-> kind, arguments |-> none, next |-> none, again |-> none, subject |-> t, ends |-> e]
  <2>1. y = [Node(kind, << >>) EXCEPT !.subject = t, !.ends = e]
    BY <1>0, <1>3
  <2>2. y = [kind |-> kind, arguments |-> << >>, next |-> << >>, again |-> << >>, subject |-> t, ends |-> e]
    BY <2>1 DEF Node
  <2> QED
    BY <1>0, <2>2
<1>6. z = [kind |-> kind, arguments |-> none, next |-> none, again |-> none, subject |-> t, ends |-> none2]
  BY <1>3, <1>4
<1>7. Blank(y, kind, none, t) /\ Blank(z, kind, none, t)
  BY <1>1, <1>5, <1>6
<1>8. Blank(Node(kind, q), kind, q, none)
  BY <1>1, <1>2
<1> QED
  BY <1>0, <1>3, <1>7, <1>8

(* A node without arguments has none that could be wrong.                  *)
LEMMA NodeIs ==
  ASSUME NEW w, NEW S, NEW n, DOMAIN w[n] = 1 .. Len(w[n]), Len(w[n]) \in Nat,
         NEW kind, NEW q, q \in Seq(S), kind \in {"call", "annotation"} \/ q = << >>,
         NEW t, t \in Seq(S), NEW x, Blank(x, kind, q, t)
  PROVE  NodeOk(w, S, n, x) /\ x.kind = kind
<1>2. /\ DOMAIN x = NodeFields /\ x.kind = kind /\ x.arguments = q /\ x.next = << >>
      /\ x.again = << >> /\ x.subject = t
  BY DEF Blank
<1>3. PICK none : none = << >>
  OBVIOUS
<1>4. none \in Seq(S) /\ Reverse(none) = << >> /\ DOMAIN none = {}
  <2>1. none \in Seq(S) /\ Len(none) = 0
    BY <1>3
  <2>2. Reverse(none) \in Seq(S) /\ Len(Reverse(none)) = 0
    BY <2>1, ReverseOf
  <2> QED
    BY <1>3, <2>1, <2>2
<1>5. EntryOk(w, n, x)
  <2> SUFFICES ASSUME x.kind \notin {"call", "annotation", "exit"}
               PROVE  DOMAIN ByDepth(x) = {} /\ DOMAIN x.again = {}
    BY DEF EntryOk
  <2>1. x.arguments = none
    BY <1>2, <1>3
  <2> QED
    BY <1>2, <1>3, <1>4, <2>1 DEF ByDepth
<1> QED
  BY <1>2, <1>3, <1>4, <1>5 DEF NodeOk

(* One more node and its values.                                           *)
Added(v, nd, N, S, y, w, M, T, x, ne) ==
  /\ N \in Nat /\ M \in Nat /\ M = Len(w) /\ M \in 1 .. M /\ w[M] = y /\ N <= M
  /\ \A i \in 1 .. N : w[i] = v[i]
  /\ \A i \in 1 .. N : ne[i] = nd[i]
  /\ Grown(v, N, S, w, M, T) /\ World(w, M, T)
  /\ DOMAIN w[M] = 1 .. Len(w[M]) /\ Len(w[M]) \in Nat
  /\ ne[M] = x /\ Len(ne) = M
  /\ NodeOk(w, T, M, x) => Nodes(w, ne, T)

(* It is added behind the others.                                          *)
LEMMA NodeAdded ==
  ASSUME NEW v, NEW nd, NEW N, N = Len(v), NEW K, K \in Nat, NEW L, L \in Nat, K <= L, L <= MaxWords,
         NEW S, S = Level(N, K), Nodes(v, nd, S), NEW y, DOMAIN y = 1 .. Len(y), Len(y) \in Nat,
         NEW w, w = Append(v, y), NEW M, M = N + 1, NEW T, T = Level(M, L),
         NEW x, NEW ne, ne = Append(nd, x)
  PROVE  Added(v, nd, N, S, y, w, M, T, x, ne)
<1>1. IsSeq(v) /\ IsSeq(nd) /\ Len(nd) = N /\ \A n \in 1 .. N : NodeOk(v, S, n, nd[n])
  BY DEF Nodes
<1>2. /\ IsSeq(w) /\ N \in Nat /\ Len(w) = M /\ (\A i \in 1 .. N : w[i] = v[i]) /\ w[M] = y
  BY <1>1, OneMore
<1>3. /\ IsSeq(ne) /\ Len(ne) = M /\ (\A i \in 1 .. N : ne[i] = nd[i]) /\ ne[M] = x
  BY <1>1, OneMore
<1>4. M \in Nat /\ N <= M /\ M \in 1 .. M
  BY <1>2
<1>5. Grown(v, N, S, w, M, T)
  BY ONLY <1>2, <1>4, K \in Nat, L \in Nat, K <= L, L <= MaxWords, S = Level(N, K), T = Level(M, L), WorldGrows
<1>6. \A n \in 1 .. M : DOMAIN w[n] = 1 .. Len(w[n])
  <2> SUFFICES ASSUME NEW n \in 1 .. M
               PROVE  DOMAIN w[n] = 1 .. Len(w[n])
    OBVIOUS
  <2>1. CASE n \in 1 .. N
    BY <1>1, <1>2, <2>1 DEF NodeOk
  <2>2. CASE n = M
    BY <1>2, <2>2
  <2> QED
    BY <1>2, <2>1, <2>2
<1>7. World(w, M, T)
  BY <1>4, <1>6, WorldIs
<1>8. ASSUME NodeOk(w, T, M, x)
      PROVE  Nodes(w, ne, T)
  <2>1. Grown(v, Len(v), S, w, Len(w), T)
    BY <1>2, <1>5
  <2>2. \A n \in 1 .. Len(v) : ne[n] = nd[n] \/ NodeOk(w, T, n, ne[n])
    BY <1>3
  <2>3. \A n \in Len(v) + 1 .. Len(w) : NodeOk(w, T, n, ne[n])
    <3> SUFFICES ASSUME NEW n \in Len(v) + 1 .. Len(w)
                 PROVE  NodeOk(w, T, n, ne[n])
      OBVIOUS
    <3>1. n = M
      BY <1>2
    <3> QED
      BY <1>3, <1>8, <3>1
  <2>4. Len(ne) = Len(w)
    BY <1>2, <1>3
  <2> QED
    BY ONLY <1>2, <1>3, <2>1, <2>2, <2>3, <2>4, Nodes(v, nd, S), NodesGrow
<1> QED
  BY <1>2, <1>3, <1>4, <1>5, <1>6, <1>7, <1>8 DEF Added

(* A word with a node for its results.                                     *)
LEMMA CalledKeeps ==
  ASSUME Faithful, IndInv, NEW n, n \in Nat, NEW kind, kind \in {"call", "annotation"},
         NEW r, r \in Nat, NEW V, NEW values, here => values \in Seq(V) /\ Len(values) = r,
         NEW left, left = FromNodes(NextNode, r), Called(kind, n, left, values)
  PROVE  Faithful'
<1>0. PICK F, P, R : Sits(value, nodes, words, chain, open, here, stack, F, P, R)
  BY DEF Faithful
<1>1. PICK v, nd, h, o, st, c : /\ v = value /\ nd = nodes /\ h = here /\ o = open /\ st = stack /\ c = chain
  OBVIOUS
<1>2. PICK N, S, q : N = Len(v) /\ S = Level(N, R) /\ q = PopN(c, n).sources
  OBVIOUS
<1>3. PICK y, x, M, T : /\ y = (IF h THEN Reverse(values) ELSE << >>) /\ x = Node(kind, q)
                        /\ M = N + 1 /\ T = Level(M, R)
  OBVIOUS
<1>4. PICK w, ne : w = Append(v, y) /\ ne = Append(nd, x)
  OBVIOUS
<1>5. Word(n, left, values) /\ value' = w /\ nodes' = ne /\ open' = o
  BY <1>1, <1>2, <1>3, <1>4 DEF Called
<1>6. /\ N \in Nat /\ R \in Nat /\ R <= MaxWords /\ World(v, N, S) /\ Nodes(v, nd, S) /\ Literal(v, S, o, h)
      /\ Inner(v, N, S, F, c, h, st) /\ Walk(o, h) /\ Size(c) \in Nat /\ Len(nd) = N
  BY <1>0, <1>1, <1>2, Before
<1>7. n <= Size(c)
  BY <1>1, <1>5, <1>6 DEF Word
<1>8. q \in Seq(S)
  <2>1. PopsAll(S, N, c, n, PopN(c, n))
    BY <1>6, <1>7, InnerTakes
  <2> QED
    BY <1>2, <2>1 DEF PopsAll
<1>9. DOMAIN y = 1 .. Len(y) /\ Len(y) \in Nat
  <2>1. CASE h
    <3>1. y = Reverse(values) /\ values \in Seq(V)
      BY <1>1, <1>3, <2>1
    <3>2. y \in Seq(V)
      BY <3>1, ReverseOf
    <3> QED
      BY <3>2
  <2>2. CASE ~h
    BY <1>3, <2>2
  <2> QED
    BY <2>1, <2>2
<1>10. Added(v, nd, N, S, y, w, M, T, x, ne)
  <2>1. N = Len(v) /\ S = Level(N, R) /\ M = N + 1 /\ T = Level(M, R)
    BY <1>2, <1>3
  <2>2. R \in Nat /\ R <= R /\ R <= MaxWords /\ Nodes(v, nd, S)
    BY <1>6
  <2> QED
    BY ONLY <1>4, <1>9, <2>1, <2>2, NodeAdded
<1>10a. /\ M \in Nat /\ M = Len(w) /\ M \in 1 .. M /\ w[M] = y /\ World(w, M, T)
        /\ (\A i \in 1 .. N : w[i] = v[i]) /\ (\A i \in 1 .. N : ne[i] = nd[i])
        /\ Grown(v, N, S, w, M, T) /\ DOMAIN w[M] = 1 .. Len(w[M]) /\ Len(w[M]) \in Nat
        /\ (NodeOk(w, T, M, x) => Nodes(w, ne, T))
  BY <1>10 DEF Added
<1>11. S \subseteq T
  BY <1>10a DEF Grown
<1>12. Nodes(w, ne, T)
  <2>1. PICK none : none = << >>
    OBVIOUS
  <2>2. Blank(x, kind, q, none)
    BY <1>3, <2>1, BlankIs
  <2>3. none \in Seq(T) /\ q \in Seq(T)
    BY <1>8, <1>11, <2>1, SeqMonotonic
  <2>5. DOMAIN w[M] = 1 .. Len(w[M]) /\ Len(w[M]) \in Nat
    BY <1>10a
  <2>4. NodeOk(w, T, M, x)
    BY ONLY <2>2, <2>3, <2>5, kind \in {"call", "annotation"}, NodeIs
  <2> QED
    BY <1>10a, <2>4
<1>13. Literal(w, T, o, h)
  BY ONLY <1>6, <1>10a, LiteralsStay
<1>14. left = FromNodes(M, r)
  BY <1>1, <1>3, <1>6 DEF NextNode
<1>15. left \in Seq(T) /\ (h => Stands(w, left, values))
  <2>1. /\ FromNodes(M, r) \in Seq(T)
        /\ \A VV : \A a \in Seq(VV) :
             Len(a) = r /\ w[M] = Reverse(a) => Stands(w, FromNodes(M, r), a)
    BY ONLY <1>10a, r \in Nat, FromNodesStand
  <2>2. h => values \in Seq(V) /\ Len(values) = r /\ w[M] = Reverse(values)
    BY <1>1, <1>3, <1>10a
  <2> QED
    BY <1>14, <2>1, <2>2
<1>16. /\ Len(value) <= M /\ (\A i \in 1 .. Len(value) : w[i] = value[i])
       /\ (\A i \in 1 .. Len(value) : ne[i].kind = nodes[i].kind)
       /\ (here => Stands(w, left, values)) /\ Literal(w, T, o, here)
       /\ Len(o) = Len(open) /\ (\A k \in 2 .. Len(open) : Resembles(open[k], o[k]))
       /\ R <= R /\ R <= R + 1
  <2>1. \A i \in 1 .. N : ne[i].kind = nd[i].kind
    BY <1>10a
  <2>2. N <= M /\ R <= R /\ R <= R + 1
    BY <1>3, <1>6
  <2> QED
    BY <1>1, <1>2, <1>10a, <1>13, <1>15, <2>1, <2>2, Itself
<1> QED
  <2>1. R \in Nat /\ R <= R /\ R <= R + 1 /\ M = Len(w) /\ M \in Nat /\ T = Level(M, R) /\ left \in Seq(T)
    BY <1>3, <1>6, <1>10a, <1>15, <1>16
  <2> QED
    BY ONLY <1>0, <1>5, <1>12, <1>16, <2>1, IndInv, n \in Nat, WordKeeps, ZenonT(60)

(* A call leaves the results of its node.                                  *)
LEMMA CallKeeps ==
  ASSUME Faithful, IndInv, NEW c \in Calls, Call(c[1], c[2])
  PROVE  Faithful'
<1>1. PICK n, r : n = c[1] /\ r = c[2]
  OBVIOUS
<1>2. n \in Nat /\ r \in Nat
  BY <1>1, UnstackingAssumption
<1>3. PICK V, values, left, kind : /\ V = {Result(NextNode, i) : i \in 1 .. r} /\ values = Results(r)
                                   /\ left = FromNodes(NextNode, r) /\ kind = "call"
  OBVIOUS
<1>4. values \in Seq(V) /\ Len(values) = r
  <2>1. values = [i \in 1 .. r |-> Result(NextNode, i)]
    BY <1>3 DEF Results
  <2> QED
    BY <1>2, <1>3, <2>1
<1>5. Called(kind, n, left, values) /\ kind \in {"call", "annotation"}
  BY <1>1, <1>3 DEF Call
<1> QED
  BY <1>2, <1>3, <1>4, <1>5, CalledKeeps

(* One result cannot be pushed the wrong way round.                        *)
LEMMA IndirectCallKeeps ==
  ASSUME Faithful, IndInv, NEW c \in IndirectCalls, c[2] <= 1, IndirectCall(c[1], c[2])
  PROVE  Faithful'
<1>1. PICK n, r : n = c[1] /\ r = c[2]
  OBVIOUS
<1>2. n \in Nat /\ r \in Nat /\ r <= 1
  BY <1>1, UnstackingAssumption
<1>3. PICK V, values, left, kind : /\ V = {Result(NextNode, i) : i \in 1 .. r} /\ values = Results(r)
                                   /\ left = FromNodes(NextNode, r) /\ kind = "call"
  OBVIOUS
<1>4. values \in Seq(V) /\ Len(values) = r
  <2>1. values = [i \in 1 .. r |-> Result(NextNode, i)]
    BY <1>3 DEF Results
  <2> QED
    BY <1>2, <1>3, <2>1
<1>5. left = [i \in 1 .. r |-> FromNode(NextNode, i - 1)]
  <2>1. \A i \in 1 .. r : r - i = i - 1
    BY <1>2
  <2>2. left = [i \in 1 .. r |-> FromNode(NextNode, r - i)]
    BY <1>3 DEF FromNodes
  <2> QED
    BY <2>1, <2>2
<1>6. Called(kind, n, left, values) /\ kind \in {"call", "annotation"}
  <2>1. Called("call", n, [i \in 1 .. r |-> FromNode(NextNode, i - 1)], Results(r))
    BY <1>1 DEF IndirectCall
  <2> QED
    BY <1>3, <1>5, <2>1
<1> QED
  BY <1>2, <1>3, <1>4, <1>6, CalledKeeps

(* An annotation leaves what it took.                                      *)
LEMMA StackAnnotationKeeps ==
  ASSUME Faithful, IndInv, NEW n \in Annotations, StackAnnotation(n)
  PROVE  Faithful'
<1>0. PICK F, P, R : Sits(value, nodes, words, chain, open, here, stack, F, P, R)
  BY DEF Faithful
<1>1. n \in Nat
  BY UnstackingAssumption
<1>2. PICK values, left, kind : /\ values = Upper(n) /\ left = FromNodes(NextNode, n) /\ kind = "annotation"
  OBVIOUS
<1>3. Called(kind, n, left, values) /\ kind \in {"call", "annotation"}
  BY <1>2 DEF StackAnnotation
<1>4. PICK v, c, h, st : v = value /\ c = chain /\ h = here /\ st = stack
  OBVIOUS
<1>5. PICK N, S, q, V : N = Len(v) /\ S = Level(N, R) /\ q = PopN(c, n).sources /\ V = Means(v, S)
  OBVIOUS
<1>6. World(v, N, S) /\ Inner(v, N, S, F, c, h, st) /\ n <= Size(c) /\ Size(c) \in Nat
  <2>1. World(v, N, S) /\ Inner(v, N, S, F, c, h, st) /\ Size(c) \in Nat
    BY <1>0, <1>4, <1>5, Before
  <2> QED
    BY <1>3, <1>4, <2>1 DEF Called, Word
<1>7. here => values \in Seq(V) /\ Len(values) = n
  <2> SUFFICES ASSUME here
               PROVE  values \in Seq(V) /\ Len(values) = n
    OBVIOUS
  <2>1. PopsAll(S, N, c, n, PopN(c, n)) /\ Stands(v, PopN(c, n).sources, SubSeq(st, Len(st) - n + 1, Len(st)))
    BY <1>1, <1>4, <1>6, InnerTakes
  <2>2. q \in Seq(S) /\ Len(q) = n
    BY <1>5, <2>1 DEF PopsAll
  <2>3. Stands(v, q, values)
    BY <1>2, <1>4, <1>5, <2>1 DEF Upper
  <2> QED
    BY <1>5, <2>2, <2>3, StandsIs
<1> QED
  BY ONLY Faithful, IndInv, <1>1, <1>2, <1>3, <1>7, CalledKeeps

(* A field of a literal is set.                                            *)
Set(a, b, f, s, t) ==
  /\ b.slots = [a.slots EXCEPT ![f] = s] /\ b.arrived = [a.arrived EXCEPT ![f] = t]
  /\ b.kind = a.kind /\ b.node = a.node /\ b.way = a.way /\ b.branch = a.branch

AllResemble(o, x) == Len(x) = Len(o) /\ \A j \in 2 .. Len(o) : Resembles(o[j], x[j])

(* One field of one literal is set.                                        *)
LEMMA LiteralSet ==
  ASSUME NEW v, NEW S, NEW o, NEW h, Walk(o, h), Literal(v, S, o, h),
         NEW N, Grown(v, N, S, v, N, S),
         NEW k, k \in 1 .. Len(o), o[k].kind = "literal",
         \A j \in k + 1 .. Len(o) : o[j].kind = "rest",
         NEW f, f \in 1 .. 2, NEW s, s \in S, NEW t, h => MeaningIn(v, s) = t, ~h => t = o[k].arrived[f],
         NEW y, Set(o[k], y, f, s, t), NEW x, x = At(o, k, y)
  PROVE  Literal(v, S, x, h) /\ AllResemble(o, x)
<1>1. IsSeq(o) /\ Len(o) \in Nat
  BY OneMore DEF Walk
<1>2. Len(x) = Len(o) /\ \A j \in 1 .. Len(o) : x[j] = IF j = k THEN y ELSE o[j]
  BY <1>1, OneChanged
<1>3. x[k] = y /\ \A j \in 1 .. Len(o) : j # k => x[j] = o[j]
  BY <1>2
<1>4. PICK a : a = o[k]
  OBVIOUS
<1>5. /\ y.slots = [a.slots EXCEPT ![f] = s] /\ y.arrived = [a.arrived EXCEPT ![f] = t]
      /\ y.kind = a.kind /\ y.node = a.node /\ y.way = a.way /\ y.branch = a.branch
      /\ a.kind = "literal"
  BY <1>4 DEF Set
<1>6. \A j \in 1 .. Len(o) : Late(x[j]) <=> Late(o[j])
  <2>1. Late(y) <=> Late(a)
    BY <1>5 DEF Late
  <2> QED
    BY <1>3, <1>4, <2>1
<1>7. \A j \in 1 .. Len(o) : Missed(o, h, j) => Missed(x, h, j)
  <2>1. \A j \in 1 .. Len(o) : \A i \in j .. Len(o) : i \in 1 .. Len(o)
    BY <1>1
  <2> QED
    BY <1>2, <1>6, <2>1 DEF Missed
<1>8. ASSUME ~h
      PROVE  Missed(x, h, k)
  <2>1. \A i \in k .. Len(o) : i \in 1 .. Len(o) /\ (o[i].kind = "literal" \/ o[i].kind = "rest")
    <3>1. \A i \in k .. Len(o) : i \in 1 .. Len(o) /\ (i = k \/ i \in k + 1 .. Len(o))
      BY <1>1
    <3> QED
      BY <3>1
  <2>2. \A i \in k .. Len(o) : ~Late(o[i])
    BY <2>1 DEF Walk, Sound, WayIsReachable, Late
  <2>3. Missed(o, h, k)
    BY <1>8, <2>2 DEF Missed
  <2> QED
    BY <1>7, <2>3
<1>9. /\ a.slots \in [1 .. 2 -> S \cup {Unset}] /\ a.node \in Int
      /\ a.arrived = [g \in 1 .. 2 |-> a.arrived[g]]
      /\ Filled(v, a) \/ Missed(o, h, k)
  BY <1>4, <1>5 DEF Literal, LiteralOk
<1>10. /\ y.slots \in [1 .. 2 -> S \cup {Unset}] /\ y.node \in Int
  BY <1>5, <1>9
<1>11. y.arrived = [g \in 1 .. 2 |-> y.arrived[g]]
  BY <1>5, <1>9
<1>12. ASSUME Filled(v, a), h
       PROVE  Filled(v, y)
  <2> SUFFICES ASSUME NEW g \in 1 .. 2, y.slots[g] # Unset
               PROVE  MeaningIn(v, y.slots[g]) = y.arrived[g]
    BY DEF Filled
  <2>1. CASE g = f
    <3>1. y.slots[g] = s /\ y.arrived[g] = t
      BY <1>5, <1>9, <2>1
    <3> QED
      BY <1>12, <3>1
  <2>2. CASE g # f
    <3>1. y.slots[g] = a.slots[g] /\ y.arrived[g] = a.arrived[g]
      BY <1>5, <1>9, <2>2
    <3> QED
      BY <1>12, <3>1 DEF Filled
  <2> QED
    BY <2>1, <2>2
<1>13. LiteralOk(v, S, x, h, k)
  <2>1. Filled(v, y) \/ Missed(x, h, k)
    BY <1>7, <1>8, <1>9, <1>12
  <2> QED
    BY <1>3, <1>10, <1>11, <2>1 DEF LiteralOk
<1>14. \A j \in 1 .. Len(o) : LiteralOk(v, S, x, h, j)
  <2> SUFFICES ASSUME NEW j \in 1 .. Len(o), j # k
               PROVE  LiteralOk(v, S, x, h, j)
    BY <1>13
  <2>1. LiteralOk(v, S, o, h, j) /\ Alike(o[j], x[j]) /\ (Missed(o, h, j) => Missed(x, h, j))
    BY <1>3, <1>7 DEF Literal, Alike
  <2> QED
    BY ONLY <2>1, Grown(v, N, S, v, N, S), LiteralStays
<1>15. ASSUME NEW j \in 2 .. Len(o)
       PROVE  Resembles(o[j], x[j])
  <2>1. j \in 1 .. Len(o)
    BY <1>1
  <2>2. CASE j = k
    BY <1>3, <1>4, <1>5, <2>2 DEF Resembles, Framed
  <2>3. CASE j # k
    BY <1>3, <2>1, <2>3 DEF Resembles, Alike
  <2> QED
    BY <2>2, <2>3
<1> QED
  BY <1>2, <1>14, <1>15 DEF Literal, AllResemble

(* It is set to the value on top.                                          *)
LEMMA FieldInitKeeps ==
  ASSUME Faithful, IndInv, NEW f, f \in 1 .. 2, FieldInit(f)
  PROVE  Faithful'
<1>0. PICK F, P, R : Sits(value, nodes, words, chain, open, here, stack, F, P, R)
  BY DEF Faithful
<1>1. PICK v, nd, h, o, st, c : /\ v = value /\ nd = nodes /\ h = here /\ o = open /\ st = stack /\ c = chain
  OBVIOUS
<1>2. PICK N, S, q, s : N = Len(v) /\ S = Level(N, R) /\ q = PopN(c, 1).sources /\ s = q[1]
  OBVIOUS
<1>3. PICK k \in Literals :
        /\ open' = [open EXCEPT ![k].slots[f] = PopN(chain, 1).sources[1],
                                ![k].arrived[f] = IF here THEN Last(stack) ELSE @]
  BY DEF FieldInit
<1>4. Word(1, << >>, << >>) /\ value' = v /\ nodes' = nd
  BY <1>1 DEF FieldInit
<1>5. /\ N \in Nat /\ R \in Nat /\ R <= MaxWords /\ World(v, N, S) /\ Nodes(v, nd, S) /\ Literal(v, S, o, h)
      /\ Inner(v, N, S, F, c, h, st) /\ Walk(o, h) /\ Size(c) \in Nat
  BY <1>0, <1>1, <1>2, Before
<1>6. IsSeq(o) /\ Len(o) \in Nat
  BY <1>5, OneMore DEF Walk
<1>7. k \in 1 .. Len(o) /\ o[k].kind = "literal" /\ \A j \in k + 1 .. Len(o) : o[j].kind = "rest"
  <2>1. PICK Q : open \in Seq(Q)
    BY <1>1, <1>6 DEF IsSeq
  <2> QED
    BY <1>1, <2>1 DEF Literals
<1>8. PICK t : t = IF h THEN Last(st) ELSE o[k].arrived[f]
  OBVIOUS
<1>9. PICK y : open' = At(o, k, y) /\ Set(o[k], y, f, s, t)
  <2>1. PICK Q : open \in Seq(Q)
    BY <1>1, <1>6 DEF IsSeq
  <2>2. DOMAIN o[k] = Fields
    BY <1>5, <1>7 DEF Walk, Sound
  <2> DEFINE y == [open[k] EXCEPT !.slots[f] = PopN(chain, 1).sources[1]]
             z == [y EXCEPT !.arrived[f] = IF here THEN Last(stack) ELSE @]
  <2>3. /\ DOMAIN y = Fields /\ y.kind = open[k].kind /\ y.way = open[k].way /\ y.node = open[k].node
        /\ y.branch = open[k].branch /\ y.arrived = open[k].arrived
        /\ y.slots = [open[k].slots EXCEPT ![f] = PopN(chain, 1).sources[1]]
    BY <1>1, <2>2 DEF Fields
  <2> HIDE DEF y
  <2>4. /\ z.kind = y.kind /\ z.way = y.way /\ z.node = y.node
        /\ z.branch = y.branch /\ z.slots = y.slots
        /\ z.arrived = [y.arrived EXCEPT ![f] = IF here THEN Last(stack) ELSE y.arrived[f]]
    BY <2>3 DEF Fields
  <2>5. open' = At(open, k, z)
    BY <1>1, <1>3, <1>7, <2>1 DEF At, y
  <2> HIDE DEF z
  <2>6. Set(o[k], z, f, s, t)
    BY <1>1, <1>2, <1>8, <2>3, <2>4 DEF Set
  <2> QED
    BY <1>1, <2>5, <2>6
<1>10. 1 <= Size(c)
  BY <1>1, <1>4, <1>5 DEF Word
<1>11. PopsAll(S, N, c, 1, PopN(c, 1)) /\ (h => Stands(v, PopN(c, 1).sources, SubSeq(st, Len(st) - 1 + 1, Len(st))))
       /\ (h => Len(st) = Size(c))
  <2>1. 1 \in Nat
    OBVIOUS
  <2> QED
    BY ONLY <1>5, <1>10, <2>1, InnerTakes
<1>12. q \in Seq(S) /\ Len(q) = 1
  BY <1>2, <1>11 DEF PopsAll
<1>13. s \in S
  BY <1>2, <1>12
<1>14. h => MeaningIn(v, s) = t
  <2> SUFFICES ASSUME h
               PROVE  MeaningIn(v, s) = Last(st)
    BY <1>8
  <2>1. PICK u : u = SubSeq(st, Len(st) - 1 + 1, Len(st))
    OBVIOUS
  <2>2. u[1] = MeaningIn(v, q[1])
    <3>1. Stands(v, q, u)
      BY <1>2, <1>11, <2>1
    <3>2. 1 \in 1 .. Len(q)
      BY <1>12
    <3> QED
      <4>1. u = [i \in DOMAIN q |-> MeaningIn(v, q[i])]
        BY ONLY <3>1 DEF Stands
      <4>2. 1 \in DOMAIN q
        BY <1>12, <3>2
      <4> QED
        BY ONLY <4>1, <4>2
  <2>3. PICK V : st \in Seq(V)
    <3>1. Stands(v, Flat(c), st) /\ Flat(c) \in Seq(S)
      BY <1>5, SizeIs DEF Inner
    <3> QED
      BY <3>1, StandsIs
  <2>4. u[1] = st[Len(st)]
    BY <1>5, <1>10, <1>11, <2>1, <2>3
  <2> QED
    BY <1>2, <2>2, <2>4 DEF Last
<1>15. ~h => t = o[k].arrived[f]
  BY <1>8
<1>16. PICK x : x = At(o, k, y)
  OBVIOUS
<1>17. Grown(v, N, S, v, N, S)
  BY <1>5 DEF Grown
<1>18. Literal(v, S, x, h) /\ AllResemble(o, x)
  <2>1. Walk(o, h) /\ Literal(v, S, o, h) /\ Set(o[k], y, f, s, t)
    BY <1>5, <1>9
  <2> QED
    BY ONLY <1>7, <1>13, <1>14, <1>15, <1>16, <1>17, <2>1, f \in 1 .. 2, LiteralSet, ZenonT(60)
<1>19. PICK left, values : left = << >> /\ values = << >>
  OBVIOUS
<1>20. left \in Seq(S) /\ (here => Stands(v, left, values)) /\ Word(1, left, values)
  BY <1>4, <1>19, NothingStands
<1>21. /\ Len(value) <= N /\ (\A i \in 1 .. Len(value) : v[i] = value[i])
       /\ (\A i \in 1 .. Len(value) : nd[i].kind = nodes[i].kind)
       /\ Len(x) = Len(open) /\ (\A j \in 2 .. Len(open) : Resembles(open[j], x[j]))
       /\ Literal(v, S, x, here) /\ R <= R /\ R <= R + 1 /\ 1 \in Nat /\ R \in Nat /\ N \in Nat
       /\ N = Len(v) /\ S = Level(N, R) /\ open' = x
  BY <1>1, <1>2, <1>5, <1>9, <1>16, <1>18 DEF AllResemble
<1> QED
  BY ONLY <1>0, <1>4, <1>5, <1>20, <1>21, IndInv, WordKeeps, ZenonT(60)

(* What one more scope changes of the places.                              *)
Opened(P, o, x, Q, m) == Q = [P EXCEPT ![Len(o) + 1] = m]

(* The new scope has a place of its own, or that of the one around it.     *)
LEMMA PlacesOpen ==
  ASSUME NEW P, NEW o, NEW n, n \in Nat, Places(P, o, n), IsSeq(o), Len(o) > 0, NEW x, x.kind # "body",
         NEW m, m = n + (IF Framed(x) THEN 1 ELSE 0), NEW Q, Opened(P, o, x, Q, m)
  PROVE  /\ Places(Q, Append(o, x), m) /\ Q[Len(o) + 1] = m
         /\ \A k \in 1 .. Len(o) : Q[k] = P[k]
<1>1. PICK l, q : l = Len(o) /\ q = Append(o, x)
  OBVIOUS
<1>2. /\ l \in Nat /\ l >= 1 /\ Len(q) = l + 1 /\ (\A k \in 1 .. l : q[k] = o[k]) /\ q[l + 1] = x
  BY <1>1, OneMore
<1>3. /\ P \in [Nat -> Nat] /\ P[1] = 1 /\ P[l] = n
      /\ \A k \in 2 .. l : o[k].kind # "body" /\ P[k] = P[k - 1] + IF Framed(o[k]) THEN 1 ELSE 0
  BY <1>1 DEF Places
<1>4. PICK e : e = l + 1
  OBVIOUS
<1>5. /\ Q = [P EXCEPT ![e] = m] /\ e \in Nat /\ m \in Nat
  BY <1>1, <1>2, <1>4 DEF Opened
<1>6. /\ Q \in [Nat -> Nat] /\ Q[e] = m /\ \A k \in 1 .. l : Q[k] = P[k]
  <2>1. P \in [Nat -> Nat]
    BY <1>3
  <2>2. Q \in [Nat -> Nat] /\ Q[e] = m /\ \A k \in Nat : k # e => Q[k] = P[k]
    BY ONLY <2>1, <1>5
  <2>3. \A k \in 1 .. l : k \in Nat /\ k # e
    BY <1>2, <1>4
  <2> QED
    BY <2>2, <2>3
<1>7. ASSUME NEW k \in 2 .. e
      PROVE  q[k].kind # "body" /\ Q[k] = Q[k - 1] + IF Framed(q[k]) THEN 1 ELSE 0
  <2>1. k \in 2 .. l \/ k = e
    BY <1>2, <1>4
  <2>2. CASE k \in 2 .. l
    <3>1. PICK i : i = k - 1
      OBVIOUS
    <3>2. i \in 1 .. l /\ k \in 1 .. l
      BY <1>2, <2>2, <3>1
    <3>3. Q[i] = P[i] /\ Q[k] = P[k] /\ q[k] = o[k]
      BY <1>2, <1>6, <3>2
    <3>4. o[k].kind # "body" /\ P[k] = P[i] + IF Framed(o[k]) THEN 1 ELSE 0
      BY <1>3, <2>2, <3>1
    <3> QED
      BY <3>1, <3>3, <3>4
  <2>3. CASE k = e
    <3>1. k - 1 = l /\ l \in 1 .. l
      BY <1>2, <1>4, <2>3
    <3>2. Q[l] = n /\ Q[k] = m /\ q[k] = x
      BY <1>2, <1>3, <1>4, <1>6, <2>3, <3>1
    <3> QED
      BY <3>1, <3>2
  <2> QED
    BY <2>1, <2>2, <2>3
<1>8. Q[1] = 1
  BY <1>2, <1>3, <1>6
<1>9. Places(Q, q, m)
  <2>1. Len(q) = e
    BY <1>2, <1>4
  <2> QED
    BY <1>6, <1>7, <1>8, <2>1 DEF Places
<1> QED
  BY <1>1, <1>4, <1>6, <1>9

(* Nothing comes back by opening a scope.                                  *)
LEMMA SpentOpen ==
  ASSUME NEW P, NEW c, NEW o, AllSpent(P, c, o), Places(P, o, Len(c)), IsSeq(o), Len(o) > 0,
         Len(c) \in Nat, NEW d, Len(d) \in Nat, Len(c) <= Len(d),
         \A i \in 0 .. Len(c) - 1 : Dry(c, i) => Dry(d, i),
         NEW x, ~TakesAll(x), \A i \in 0 .. Len(c) - 1 : Framed(x) /\ Dry(c, i) => Dry(x.before, i),
         NEW Q, \A k \in 1 .. Len(o) : Q[k] = P[k]
  PROVE  AllSpent(Q, d, Append(o, x))
<1>1. PICK l, q : l = Len(o) /\ q = Append(o, x)
  OBVIOUS
<1>2. /\ l \in Nat /\ l >= 1 /\ Len(q) = l + 1 /\ (\A k \in 1 .. l : q[k] = o[k]) /\ q[l + 1] = x
  BY <1>1, OneMore
<1>3. SUFFICES ASSUME NEW k \in 2 .. Len(q), TakesAll(q[k])
               PROVE  \E j \in Q[k] .. Len(d) : Spent(Q, d, q, j)
  BY <1>1 DEF AllSpent
<1>4. k \in 2 .. l /\ k \in 1 .. l
  <2>1. k # l + 1
    BY <1>2, <1>3
  <2> QED
    BY <1>2, <2>1
<1>5. PICK j \in P[k] .. Len(c) : Spent(P, c, o, j)
  BY <1>1, <1>2, <1>3, <1>4 DEF AllSpent
<1>6. P[k] \in Nat /\ 1 <= P[k]
  <2>1. l \in 1 .. l
    BY <1>2
  <2>2. 1 <= P[k]
    BY <1>1, <1>2, <1>4, <2>1, PlacesRise
  <2>3. P[k] \in Nat
    BY <1>4 DEF Places
  <2> QED
    BY <2>2, <2>3
<1>7. j \in Q[k] .. Len(d) /\ j - 1 \in 0 .. Len(c) - 1
  BY <1>1, <1>4, <1>6
<1>8. CASE SpentNow(P, c, o, j)
  <2>1. Dry(c, j - 1) /\ \A i \in 2 .. l : Framed(o[i]) /\ P[i] > j => Dry(o[i].before, j - 1)
    BY <1>1, <1>8 DEF SpentNow
  <2>2. Dry(d, j - 1)
    BY <1>7, <2>1
  <2>3. ASSUME NEW i \in 2 .. Len(q), Framed(q[i]), Q[i] > j
        PROVE  Dry(q[i].before, j - 1)
    <3>1. CASE i = l + 1
      BY <1>2, <1>7, <2>1, <2>3, <3>1
    <3>2. CASE i # l + 1
      <4>1. i \in 2 .. l /\ i \in 1 .. l
        BY <1>2, <3>2
      <4>2. q[i] = o[i] /\ Q[i] = P[i]
        BY <1>1, <1>2, <4>1
      <4> QED
        BY <2>1, <2>3, <4>1, <4>2
    <3> QED
      BY <3>1, <3>2
  <2>4. SpentNow(Q, d, q, j)
    BY <2>2, <2>3 DEF SpentNow
  <2> QED
    BY <1>7, <2>4 DEF Spent
<1>9. CASE SpentBefore(P, o, j)
  <2>1. PICK i \in 2 .. l : Framed(o[i]) /\ P[i] = j /\ o[i].done # << >> /\ Dry(o[i].done[1].chain, j - 1)
    BY <1>1, <1>9 DEF SpentBefore
  <2>2. i \in 1 .. l /\ i \in 2 .. Len(q)
    BY <1>2
  <2>3. q[i] = o[i] /\ Q[i] = P[i]
    BY <1>1, <1>2, <2>2
  <2>4. SpentBefore(Q, q, j)
    BY <2>1, <2>2, <2>3 DEF SpentBefore
  <2> QED
    BY <1>7, <2>4 DEF Spent
<1> QED
  BY <1>5, <1>8, <1>9 DEF Spent

(* Who missed a literal's end has not come back.                           *)
LEMMA LiteralsOpen ==
  ASSUME NEW v, NEW N, NEW S, NEW w, NEW M, NEW T, Grown(v, N, S, w, M, T),
         NEW o, NEW h, IsSeq(o), Literal(v, S, o, h),
         NEW x, NEW g, h \/ (~g /\ ~Late(x)),
         NEW q, q = Append(o, x), LiteralOk(w, T, q, g, Len(o) + 1)
  PROVE  Literal(w, T, q, g)
<1>1. PICK l : l = Len(o)
  OBVIOUS
<1>2. /\ l \in Nat /\ Len(q) = l + 1 /\ (\A k \in 1 .. l : q[k] = o[k]) /\ q[l + 1] = x
  BY <1>1, OneMore
<1>3. ASSUME NEW k \in 1 .. l
      PROVE  LiteralOk(w, T, q, g, k)
  <2>1. LiteralOk(v, S, o, h, k)
    BY <1>1 DEF Literal
  <2>2. Alike(o[k], q[k])
    BY <1>2 DEF Alike
  <2>3. ASSUME Missed(o, h, k)
        PROVE  Missed(q, g, k)
    <3>1. ~h /\ \A j \in k .. l : ~Late(o[j])
      BY <1>1, <2>3 DEF Missed
    <3>2. \A j \in k .. l + 1 : j \in k .. l \/ j = l + 1
      BY <1>2
    <3>3. \A j \in k .. l : j \in 1 .. l
      BY <1>2
    <3>4. \A j \in k .. l + 1 : ~Late(q[j])
      BY <1>2, <3>1, <3>2, <3>3
    <3> QED
      BY <1>2, <3>1, <3>4 DEF Missed
  <2> QED
    BY ONLY <2>1, <2>2, <2>3, Grown(v, N, S, w, M, T), LiteralStays
<1>4. ASSUME NEW k \in 1 .. l + 1
      PROVE  LiteralOk(w, T, q, g, k)
  <2>1. k \in 1 .. l \/ k = l + 1
    BY <1>2
  <2> QED
    BY <1>1, <1>3, <2>1
<1> QED
  BY <1>2, <1>4 DEF Literal

(* The execution may leave.                                                *)
LEMMA InnerGone ==
  ASSUME NEW v, NEW N, NEW S, NEW F, NEW c, NEW h, NEW st, Inner(v, N, S, F, c, h, st),
         NEW g, g => h
  PROVE  Inner(v, N, S, F, c, g, IF g THEN st ELSE << >>)
BY DEF Inner

(* A new stack is empty.                                                   *)
LEMMA FrameIs ==
  ASSUME NEW S, NEW N, NEW n, n \in 0 .. N
  PROVE  /\ Frame(n) \in Frames(S, N) /\ Frame(n).positive = << >>
         /\ Frame(n).negative = << >> /\ Frame(n).node = n
<1>0. PICK none : none = << >>
  OBVIOUS
<1>1. PICK f : f = Frame(n)
  OBVIOUS
<1>2. f = [positive |-> none, negative |-> none, node |-> n]
  BY <1>0, <1>1 DEF Frame
<1>3. none \in Seq(S)
  BY <1>0
<1>4. f \in Frames(S, N)
  BY ONLY <1>2, <1>3, n \in 0 .. N DEF Frames
<1>5. f.positive = none /\ f.negative = none /\ f.node = n
  BY ONLY <1>2
<1> QED
  BY <1>0, <1>1, <1>4, <1>5

(* The values of an entry, as they lie on a stack.                         *)
LEMMA ReversedIs ==
  ASSUME NEW y, Len(y) \in Nat
  PROVE  /\ Len(Reverse(y)) = Len(y)
         /\ \A i \in 1 .. Len(y) : Reverse(y)[i] = y[Len(y) + 1 - i]
<1>1. PICK n : n = Len(y)
  OBVIOUS
<1>2. Reverse(y) = [i \in 1 .. n |-> y[n - i + 1]]
  BY <1>1 DEF Reverse
<1>3. \A i \in 1 .. n : n - i + 1 = n + 1 - i
  BY <1>1
<1> QED
  BY <1>1, <1>2, <1>3

(* A branch, block or loop begins on the stack it was opened on.           *)
Begun(v, N, S, F, p, sc, d) ==
  /\ d \in Chains(S, N) /\ Len(d) = p /\ Flat(d) = Flat(sc.before) /\ Good(v, F, d)
  /\ \A j \in 0 .. p - 1 : Dry(sc.before, j) => Dry(d, j)
  /\ Inner(v, N, S, F, d, F[p].in, IF F[p].in THEN Reverse(v[sc.node]) ELSE << >>)

(* It does: the clone is empty, the rest is what there was.                *)
LEMMA BranchStarts ==
  ASSUME NEW v, NEW N, NEW S, NEW F, NEW p, NEW sc, N \in Nat, EntryIs(v, N, S, F, p, sc),
         Entered(F, p), Len(v[sc.node]) \in Nat, NEW d, d = Append(sc.before, Frame(sc.node))
  PROVE  Begun(v, N, S, F, p, sc, d)
<1>1. PICK b, n, f, u : b = sc.before /\ n = sc.node /\ f = Frame(n) /\ u = v[n]
  OBVIOUS
<1>2. /\ p \in Nat /\ p >= 2 /\ n \in 1 .. N /\ F[p].node = n /\ F[p].size = Size(b)
      /\ b \in Chains(S, N) /\ Len(b) = p - 1 /\ Good(v, F, b)
      /\ F[p].in => Stands(v, Flat(b), Reverse(u))
  BY <1>1 DEF EntryIs
<1>3. n \in 0 .. N /\ n # 0
  BY <1>2
<1>4. f \in Frames(S, N) /\ f.positive = << >> /\ f.negative = << >> /\ f.node = n
  BY <1>1, <1>3, FrameIs
<1>5. Len(b) > 0 => f.node # 0
  BY <1>3, <1>4
<1>6. d = Append(b, f)
  BY <1>1
<1>7. d \in Chains(S, N) /\ Len(d) = p
  <2>1. Append(b, f) \in Chains(S, N) /\ Len(Append(b, f)) = Len(b) + 1
    BY <1>2, <1>4, <1>5, ChainOf
  <2> QED
    BY <1>2, <1>6, <2>1
<1>8. Flat(b) \in Seq(S) /\ Size(b) = Len(Flat(b)) /\ Size(b) \in Nat
  BY <1>2, SizeIs
<1>9. Flat(d) = Flat(b)
  <2>1. Flat(d) = Cat(Flat(b), f.positive)
    BY <1>2, <1>4, <1>6, FlatAppend
  <2> QED
    BY <1>4, <1>8, <2>1, CatSeq
<1>10. Fits(v, b, f, F[p])
  <2>1. Size(b) + Len(f.negative) = F[p].size
    BY <1>2, <1>4, <1>8
  <2>2. ASSUME F[p].in
        PROVE  /\ Len(u) = F[p].size
               /\ \A i \in 1 .. Size(b) : MeaningIn(v, Flat(b)[i]) = u[F[p].size + 1 - i]
    <3>1. Len(Reverse(u)) = Len(u) /\ \A i \in 1 .. Len(u) : Reverse(u)[i] = u[Len(u) + 1 - i]
      BY <1>1, ReversedIs
    <3>2. PICK q, z : q = Flat(b) /\ z = Reverse(u)
      OBVIOUS
    <3>3. Stands(v, q, z) /\ q \in Seq(S)
      BY <1>2, <1>8, <2>2, <3>2
    <3>4. Len(z) = Len(q) /\ \A i \in 1 .. Len(q) : z[i] = MeaningIn(v, q[i])
      <4>1. z = [i \in DOMAIN q |-> MeaningIn(v, q[i])]
        BY ONLY <3>3 DEF Stands
      <4>2. DOMAIN q = 1 .. Len(q) /\ Len(q) \in Nat
        BY <3>3
      <4> QED
        BY ONLY <4>1, <4>2
    <3> QED
      BY <1>2, <1>8, <3>1, <3>2, <3>4
  <2>3. \A i \in 1 .. Len(f.negative) : MeaningIn(v, f.negative[i]) = v[f.node][i]
    BY <1>4
  <2> QED
    BY <1>1, <1>2, <1>4, <2>1, <2>2, <2>3 DEF Fits
<1>11. Good(v, F, d)
  <2>1. Fits(v, b, f, F[Len(b) + 1])
    BY <1>2, <1>10
  <2>2. Good(v, F, Append(b, f)) <=> Good(v, F, b) /\ (Len(b) > 0 => Fits(v, b, f, F[Len(b) + 1]))
    BY ONLY <1>2, <1>4, <1>5, N \in Nat, GoodAppend
  <2> QED
    BY <1>2, <1>6, <2>1, <2>2
<1>12. ASSUME NEW j \in 0 .. p - 1, Dry(b, j)
       PROVE  Dry(d, j)
  <2>1. j \in 0 .. Len(b)
    BY <1>2, <1>12
  <2>2. Dry(Append(b, f), j) <=> Dry(b, j)
    BY ONLY <1>2, <1>4, <1>5, <2>1, N \in Nat, DryAppend
  <2> QED
    BY <1>6, <1>12, <2>2
<1>13. Inner(v, N, S, F, d, F[p].in, IF F[p].in THEN Reverse(u) ELSE << >>)
  <2>1. Len(d) # 0 /\ Entered(F, Len(d))
    BY <1>2, <1>7
  <2>2. F[p].in => F[Len(d)].in /\ Stands(v, Flat(d), Reverse(u))
    BY <1>2, <1>7, <1>9
  <2> QED
    BY <1>7, <1>11, <2>1, <2>2 DEF Inner
<1> QED
  BY <1>1, <1>7, <1>9, <1>11, <1>12, <1>13 DEF Begun

(* A branch, block or loop that was just opened on b.                      *)
Fresh(x, n, b, h) ==
  /\ x.kind \in {"true", "case", "block", "loop"} /\ x.node = n /\ x.before = b
  /\ x.done = << >> /\ x.breaks = << >> /\ x.way = 0
  /\ (x.annotation = None \/ x.annotation \in Nat) /\ (~h => x.branch = 0)

(* What the frames know of it.                                             *)
Framing(F, m, n, b, h, G) ==
  /\ DOMAIN G = Nat /\ (\A j \in Nat : j # m => G[j] = F[j])
  /\ G[m].node = n /\ G[m].size = Size(b) /\ G[m].in = h

(* The frames can know of one more.                                        *)
LEMMA FramingThere ==
  ASSUME NEW F, DOMAIN F = Nat, NEW m, m \in Nat, NEW n, NEW b, NEW h
  PROVE  \E G : Framing(F, m, n, b, h, G)
<1>1. PICK z : z = Size(b)
  OBVIOUS
<1>2. PICK e : e = [node |-> n, size |-> z, in |-> h]
  OBVIOUS
<1>3. e.node = n /\ e.size = z /\ e.in = h
  BY ONLY <1>2
<1>4. PICK G : G = [F EXCEPT ![m] = e]
  OBVIOUS
<1>5. DOMAIN G = Nat /\ (\A j \in Nat : j # m => G[j] = F[j]) /\ G[m] = e
  BY ONLY <1>4, DOMAIN F = Nat, m \in Nat
<1> QED
  BY <1>1, <1>3, <1>5 DEF Framing

(* A new scope is as the invariant wants it.                               *)
LEMMA FreshIs ==
  ASSUME NEW w, NEW M, NEW T, M \in Nat, NEW n, n \in 1 .. M, NEW b, b \in Chains(T, M), Len(b) # 0,
         NEW h, NEW F, NEW G, NEW m, m = Len(b) + 1, Framing(F, m, n, b, h, G), Good(w, G, b),
         h => Stands(w, Flat(b), Reverse(w[n])), ~h => w[n] = << >>,
         NEW x, Fresh(x, n, b, h)
  PROVE  EntryIs(w, M, T, G, m, x) /\ ScopeOk(w, M, T, G, m, x) /\ Framed(x) /\ ~TakesAll(x)
<1>1. Len(b) \in Nat
  BY SizeIs
<1>2. /\ x.kind \in {"true", "case", "block", "loop"} /\ x.node = n /\ x.before = b
      /\ x.done = << >> /\ x.breaks = << >> /\ x.way = 0
      /\ (x.annotation = None \/ x.annotation \in Nat) /\ (~h => x.branch = 0)
  BY DEF Fresh
<1>3. m \in Nat /\ m >= 2 /\ Len(b) = m - 1
  BY <1>1
<1>4. EntryIs(w, M, T, G, m, x)
  BY <1>2, <1>3 DEF EntryIs, Framing
<1>5. DoneIs(w, M, T, G, m, x)
  BY <1>2 DEF DoneIs
<1>6. BreaksAre(w, T, x)
  <2>1. PICK none : none = << >>
    OBVIOUS
  <2>2. Len(none) = 0
    BY <2>1
  <2>3. \A i \in 1 .. Len(x.breaks) : FALSE
    BY <1>2, <2>1, <2>2
  <2> QED
    BY <1>2, <2>3 DEF BreaksAre
<1> QED
  BY <1>2, <1>4, <1>5, <1>6 DEF ScopeOk, Framed, TakesAll

SitsThen(v, nd, wd, c, o, h, st, R) == \E G, Q : Sits(v, nd, wd, c, o, h, st, G, Q, R)

(* What is known when one more node is made and a scope is opened on b.    *)
Opening(v, nd, wd, c, o, h, st, F, P, R, N, S, b, st0, y, L, M, T, nx, w, ne, x, g, q, a) ==
  /\ Sits(v, nd, wd, c, o, h, st, F, P, R) /\ Walk(o, h) /\ wd + 1 <= MaxWords
  /\ N = Len(v) /\ S = Level(N, R)
  /\ Inner(v, N, S, F, b, h, st0) /\ Len(b) = Len(c)
  /\ \A i \in 0 .. Len(c) - 1 : Dry(c, i) => Dry(b, i)
  /\ h => Stands(v, Flat(b), Reverse(y)) /\ st0 = Reverse(y)
  /\ ~h => y = << >>
  /\ L \in Nat /\ R <= L /\ L <= R + 1 /\ M = N + 1 /\ T = Level(M, L)
  /\ Added(v, nd, N, S, y, w, M, T, nx, ne) /\ Nodes(w, ne, T)
  /\ Fresh(x, M, b, h) /\ nx.kind = x.kind
  /\ g \in BOOLEAN /\ (g => h) /\ q \in Seq(T) /\ (g => Stands(w, q, a))

(* So the invariant holds behind it.                                       *)
LEMMA OpenedSits ==
  ASSUME NEW v, NEW nd, NEW wd, NEW c, NEW o, NEW h, NEW st, NEW F, NEW P, NEW R, NEW N, NEW S,
         NEW b, NEW st0, NEW y, NEW L, NEW M, NEW T, NEW nx, NEW w, NEW ne, NEW x, NEW g, NEW q, NEW a,
         Opening(v, nd, wd, c, o, h, st, F, P, R, N, S, b, st0, y, L, M, T, nx, w, ne, x, g, q, a),
         NEW d, d = Append(b, Frame(M)), NEW s, s = IF g THEN Cat(st0, a) ELSE << >>
  PROVE  SitsThen(w, ne, wd + 1, Push(d, q), Append(o, x), g, s, L)
<1>0. /\ Sits(v, nd, wd, c, o, h, st, F, P, R) /\ Walk(o, h) /\ wd + 1 <= MaxWords
      /\ N = Len(v) /\ S = Level(N, R)
      /\ Inner(v, N, S, F, b, h, st0) /\ Len(b) = Len(c)
      /\ \A i \in 0 .. Len(c) - 1 : Dry(c, i) => Dry(b, i)
      /\ h => Stands(v, Flat(b), Reverse(y)) /\ st0 = Reverse(y)
      /\ ~h => y = << >>
      /\ L \in Nat /\ R <= L /\ L <= R + 1 /\ M = N + 1 /\ T = Level(M, L)
      /\ Added(v, nd, N, S, y, w, M, T, nx, ne) /\ Nodes(w, ne, T)
      /\ Fresh(x, M, b, h) /\ nx.kind = x.kind
      /\ g \in BOOLEAN /\ (g => h) /\ q \in Seq(T) /\ (g => Stands(w, q, a))
  BY DEF Opening
<1> USE <1>0
<1>1. /\ N \in Nat /\ R \in Nat /\ Len(o) \in Nat /\ Len(o) > 0 /\ Len(c) \in Nat /\ Len(c) # 0
  BY SitsIs
<1>2. /\ DOMAIN F = Nat /\ F[1].in /\ Counted(R, wd, o, c)
      /\ Places(P, o, Len(c)) /\ Scopes(v, nd, N, S, F, P, o, Len(o)) /\ Literal(v, S, o, h) /\ AllSpent(P, c, o)
  BY DEF Sits
<1>3. /\ M \in Nat /\ M = Len(w) /\ M \in 1 .. M /\ w[M] = y /\ World(w, M, T)
      /\ (\A i \in 1 .. N : w[i] = v[i]) /\ (\A i \in 1 .. N : ne[i] = nd[i])
      /\ Grown(v, N, S, w, M, T) /\ DOMAIN w[M] = 1 .. Len(w[M]) /\ Len(w[M]) \in Nat /\ ne[M] = nx
  BY DEF Added
<1>4. PICK m, l, z : m = Len(b) + 1 /\ l = Len(o) /\ z = Append(o, x)
  OBVIOUS
<1>5. /\ m \in Nat /\ m = Len(c) + 1 /\ l \in Nat /\ l >= 1 /\ m >= 2
  BY <1>1, <1>4
<1>6. PICK G : Framing(F, m, M, b, h, G)
  BY <1>2, <1>5, FramingThere
<1>7. SameTo(F, G, Len(b)) /\ SameTo(F, G, Len(c)) /\ G[1].in /\ DOMAIN G = Nat
  <2>1. \A j \in 1 .. Len(b) : j \in Nat /\ j # m
    BY <1>4
  <2>2. 1 \in Nat /\ 1 # m
    BY <1>5
  <2> QED
    BY <1>2, <1>6, <2>1, <2>2 DEF Framing, SameTo
<1>8. /\ b \in Chains(S, N) /\ Len(b) # 0 /\ Good(v, F, b) /\ Entered(F, Len(b)) /\ (h => F[Len(b)].in)
  BY DEF Inner
<1>9. b \in Chains(T, M) /\ Good(w, G, b) /\ Flat(b) \in Seq(S)
  BY <1>3, <1>7, <1>8, ChainsGrow, GoodGrows, SizeIs
<1>10. (h => Stands(w, Flat(b), Reverse(w[M]))) /\ (~h => w[M] = << >>)
  <2>1. \A u : Stands(v, Flat(b), u) => Stands(w, Flat(b), u)
    BY <1>3, <1>9, StandsGrow
  <2> QED
    BY <1>3, <2>1
<1>11. EntryIs(w, M, T, G, m, x) /\ ScopeOk(w, M, T, G, m, x) /\ Framed(x) /\ ~TakesAll(x)
  BY ONLY <1>3, <1>4, <1>6, <1>8, <1>9, <1>10, Fresh(x, M, b, h), FreshIs
<1>12. x.node = M /\ x.before = b /\ x.kind \in {"true", "case", "block", "loop"} /\ x.way = 0 /\ (~h => x.branch = 0)
  BY DEF Fresh
<1>13. Entered(G, m)
  <2>1. ASSUME NEW j \in 2 .. m, G[j].in
        PROVE  G[j - 1].in
    <3>1. PICK i : i = j - 1
      OBVIOUS
    <3>2. i \in 1 .. Len(c) /\ j \in Nat
      BY <1>1, <1>5, <3>1
    <3>3. G[i] = F[i]
      BY <1>7, <3>2 DEF SameTo
    <3>4. CASE j = m
      <4>1. h /\ i = Len(b)
        BY <1>4, <1>5, <1>6, <2>1, <3>1, <3>4 DEF Framing
      <4> QED
        BY <1>8, <3>1, <3>3, <4>1
    <3>5. CASE j # m
      <4>1. j \in 1 .. Len(c) /\ j \in 2 .. Len(b)
        BY <1>1, <1>4, <1>5, <3>5
      <4>2. F[j].in
        BY <1>7, <2>1, <4>1 DEF SameTo
      <4> QED
        BY <1>8, <3>1, <3>3, <4>1, <4>2 DEF Entered
    <3> QED
      BY <3>4, <3>5
  <2> QED
    BY <2>1 DEF Entered
<1>14. /\ Len(d) = m /\ (\A j \in 0 .. m - 1 : Dry(b, j) => Dry(d, j)) /\ G[m].in = h
       /\ Inner(w, M, T, G, d, G[m].in, IF G[m].in THEN Reverse(w[M]) ELSE << >>)
  <2>1. d = Append(x.before, Frame(x.node)) /\ Len(w[x.node]) \in Nat
    BY <1>3, <1>12
  <2>2. Begun(w, M, T, G, m, x, d)
    <3>1. M \in Nat /\ EntryIs(w, M, T, G, m, x)
      BY <1>3, <1>11
    <3> QED
      BY ONLY <1>13, <2>1, <3>1, BranchStarts
  <2> QED
    BY <1>6, <1>12, <2>2 DEF Framing, Begun
<1>15. Inner(w, M, T, G, d, g, IF g THEN st0 ELSE << >>)
  <2>1. PICK u : u = IF G[m].in THEN Reverse(w[M]) ELSE << >>
    OBVIOUS
  <2>2. Inner(w, M, T, G, d, G[m].in, u) /\ (g => G[m].in)
    BY <1>14, <2>1
  <2>3. Inner(w, M, T, G, d, g, IF g THEN u ELSE << >>)
    BY ONLY <2>2, InnerGone
  <2>4. g => u = st0
    BY <1>3, <1>14, <2>1
  <2> QED
    BY <2>3, <2>4
<1>16. PICK e, s1 : e = Push(d, q) /\ s1 = IF g THEN st0 ELSE << >>
  OBVIOUS
<1>17. Inner(w, M, T, G, e, g, s)
  <2>1. Inner(w, M, T, G, d, g, s1)
    BY <1>15, <1>16
  <2>2. Inner(w, M, T, G, Push(d, q), g, IF g THEN Cat(s1, a) ELSE << >>)
    BY ONLY <1>3, <2>1, q \in Seq(T), g => Stands(w, q, a), InnerLeaves
  <2>3. s = IF g THEN Cat(s1, a) ELSE << >>
    BY <1>16
  <2> QED
    BY <1>16, <2>2, <2>3
<1>18. Len(e) = m /\ \A j \in 0 .. m - 1 : Dry(d, j) => Dry(e, j)
  <2>1. d \in Chains(T, M) /\ Len(d) # 0
    BY <1>14 DEF Inner
  <2>2. /\ Push(d, q) \in Chains(T, M) /\ Len(Push(d, q)) = Len(d)
        /\ Flat(Push(d, q)) = Cat(Flat(d), q)
        /\ \A vv, H : Good(vv, H, d) => Good(vv, H, Push(d, q))
        /\ \A j \in 0 .. Len(d) - 1 : Dry(d, j) => Dry(Push(d, q), j)
    <3>1. M \in Nat /\ q \in Seq(T)
      BY <1>3
    <3> QED
      BY ONLY <2>1, <3>1, PushIs
  <2> QED
    BY <1>14, <1>16, <2>2
<1>19. \A i \in 0 .. Len(c) - 1 : Dry(c, i) => Dry(e, i) /\ Dry(x.before, i)
  <2>1. \A i \in 0 .. Len(c) - 1 : i \in 0 .. m - 1
    BY <1>1, <1>5
  <2> QED
    BY <1>12, <1>14, <1>18, <2>1
<1>20. PICK Q : Opened(P, o, x, Q, m)
  BY DEF Opened
<1>21. IsSeq(o) /\ Len(o) > 0
  BY DEF Walk
<1>22. Places(Q, z, m) /\ Q[l + 1] = m /\ \A k \in 1 .. l : Q[k] = P[k]
  <2>1. x.kind # "body" /\ m = Len(c) + (IF Framed(x) THEN 1 ELSE 0)
    BY <1>5, <1>11, <1>12
  <2>2. /\ Places(Q, Append(o, x), m) /\ Q[Len(o) + 1] = m
        /\ \A k \in 1 .. Len(o) : Q[k] = P[k]
    BY ONLY <1>1, <1>2, <1>20, <1>21, <2>1, PlacesOpen
  <2> QED
    BY <1>4, <2>2
<1>23. AllSpent(Q, e, z)
  <2>1. Len(e) \in Nat /\ Len(c) <= Len(e)
    BY <1>1, <1>5, <1>18
  <2>2. \A k \in 1 .. Len(o) : Q[k] = P[k]
    BY <1>4, <1>22
  <2>3. (\A i \in 0 .. Len(c) - 1 : Dry(c, i) => Dry(e, i))
        /\ (\A i \in 0 .. Len(c) - 1 : Framed(x) /\ Dry(c, i) => Dry(x.before, i))
    BY <1>19
  <2>4. AllSpent(Q, e, Append(o, x))
    BY ONLY <1>1, <1>2, <1>11, <1>21, <2>1, <2>2, <2>3, SpentOpen
  <2> QED
    BY <1>4, <2>4
<1>24. /\ Len(z) = l + 1 /\ (\A k \in 1 .. l : z[k] = o[k]) /\ z[l + 1] = x
  BY <1>4, <1>21, OneMore
<1>25. Scopes(w, ne, M, T, G, Q, z, l)
  <2>1. \A i \in 1 .. N : ne[i].kind = nd[i].kind
    BY <1>3
  <2>2. ASSUME NEW k \in 2 .. l
        PROVE  Sound(o[k]) /\ Resembles(o[k], z[k]) /\ Q[k] = P[k] /\ SameTo(F, G, P[k])
    <3>1. k \in 1 .. l /\ l \in 1 .. l
      BY <1>5
    <3>2. P[k] <= Len(c)
      BY <1>2, <1>4, <1>21, <3>1, PlacesRise
    <3>3. P[k] \in Nat
      BY <3>1, <1>2 DEF Places
    <3>4. \A j \in 1 .. P[k] : j \in 1 .. Len(c)
      BY <1>1, <3>2, <3>3
    <3>5. SameTo(F, G, P[k])
      BY <1>7, <3>4 DEF SameTo
    <3>6. Sound(o[k])
      BY <1>4, <3>1 DEF Walk
    <3>7. Resembles(o[k], z[k])
      BY <1>24, <3>1 DEF Resembles, Alike
    <3> QED
      BY <1>22, <3>1, <3>5, <3>6, <3>7
  <2>3. Scopes(v, nd, N, S, F, P, o, l)
    BY <1>2, <1>4
  <2> QED
    BY ONLY <1>3, <2>1, <2>2, <2>3, ScopesGrow
<1>26. Scopes(w, ne, M, T, G, Q, z, l + 1)
  <2> SUFFICES ASSUME NEW k \in 2 .. l + 1
               PROVE  /\ ScopeOk(w, M, T, G, Q[k], z[k])
                      /\ Framed(z[k]) => ne[z[k].node].kind = NodeKind(z[k].kind)
    BY DEF Scopes
  <2>1. CASE k = l + 1
    <3>1. z[k] = x /\ Q[k] = m
      BY <1>22, <1>24, <2>1
    <3>2. ne[x.node].kind = NodeKind(x.kind)
      BY <1>3, <1>12 DEF NodeKind
    <3> QED
      BY <1>11, <3>1, <3>2
  <2>2. CASE k # l + 1
    <3>1. k \in 2 .. l
      BY <1>5, <2>2
    <3> QED
      BY <1>25, <3>1 DEF Scopes
  <2> QED
    BY <2>1, <2>2
<1>27. Literal(w, T, z, g)
  <2>1. h \/ (~g /\ ~Late(x))
    BY <1>12 DEF Late
  <2>2. LiteralOk(w, T, z, g, Len(o) + 1)
    BY <1>4, <1>12, <1>24 DEF LiteralOk
  <2> QED
    BY ONLY <1>2, <1>3, <1>4, <1>21, <2>1, <2>2, LiteralsOpen
<1>28. Counted(L, wd + 1, z, e)
  <2>1. R \in Nat /\ wd \in Nat /\ wd <= MaxWords /\ R + Len(o) - Len(c) <= wd
    BY ONLY <1>2 DEF Counted
  <2>2. Len(z) = Len(o) + 1 /\ Len(e) = Len(c) + 1 /\ Len(o) \in Nat /\ Len(c) \in Nat
    BY <1>1, <1>4, <1>5, <1>18, <1>24
  <2>3. L \in Nat /\ L <= R + 1 /\ wd + 1 <= MaxWords
    BY ONLY <1>0
  <2>4. L + Len(z) - Len(e) <= wd + 1
    BY ONLY <2>1, <2>2, <2>3
  <2> QED
    BY ONLY <2>1, <2>3, <2>4 DEF Counted
<1>29. Places(Q, z, Len(e)) /\ Scopes(w, ne, M, T, G, Q, z, Len(z))
  BY <1>18, <1>22, <1>24, <1>26
<1>30. Sits(w, ne, wd + 1, e, z, g, s, G, Q, L)
  BY ONLY <1>3, <1>7, <1>17, <1>23, <1>27, <1>28, <1>29, Nodes(w, ne, T), T = Level(M, L), SitsBy
<1> QED
  BY <1>4, <1>16, <1>30 DEF SitsThen

(* Nothing is pushed.                                                      *)
LEMMA PushNothing ==
  ASSUME NEW S, NEW N, N \in Nat, NEW b, NEW f, b \in Chains(S, N), f \in Frames(S, N),
         Len(b) > 0 => f.node # 0, NEW q, q = << >>
  PROVE  Push(Append(b, f), q) = Append(b, f)
<1>1. q \in Seq(S)
  OBVIOUS
<1>2. Push(Append(b, f), q) = Append(b, More(f, q))
  BY ONLY <1>1, N \in Nat, b \in Chains(S, N), f \in Frames(S, N), Len(b) > 0 => f.node # 0, PushOf
<1>3. PICK p, n, k : p = f.positive /\ n = f.negative /\ k = f.node
  OBVIOUS
<1>4. f = [positive |-> p, negative |-> n, node |-> k] /\ p \in Seq(S)
  BY <1>3 DEF Frames
<1>5. Cat(p, q) = p
  BY <1>4, CatSeq
<1>6. More(f, q) = f
  <2>1. More(f, q) = [f EXCEPT !.positive = p]
    BY <1>3, <1>5 DEF More
  <2> QED
    BY ONLY <1>4, <2>1
<1> QED
  BY <1>2, <1>6

(* Values reversed twice are the values.                                   *)
LEMMA ReversedBack ==
  ASSUME NEW v, NEW S, NEW q, q \in Seq(S), NEW w, Stands(v, q, w)
  PROVE  /\ Reverse(Reverse(w)) = w
         /\ DOMAIN Reverse(w) = 1 .. Len(Reverse(w)) /\ Len(Reverse(w)) \in Nat
<1>1. PICK V : V = Means(v, S)
  OBVIOUS
<1>2. w \in Seq(V)
  BY <1>1, StandsIs
<1>3. /\ Reverse(w) \in Seq(V) /\ Len(Reverse(w)) = Len(w) /\ Len(w) \in Nat
      /\ \A i \in 1 .. Len(w) : Reverse(w)[i] = w[Len(w) + 1 - i]
      /\ Reverse(Reverse(w)) = w
  BY ONLY <1>2, ReverseOf
<1> QED
  BY <1>3

(* Nothing, reversed.                                                      *)
LEMMA NothingReversed == Reverse(<< >>) = << >> /\ Len(<< >>) = 0
<1>1. PICK V, none : V = {} /\ none = << >>
  OBVIOUS
<1>2. none \in Seq(V) /\ Len(none) = 0
  BY <1>1
<1>3. Reverse(none) \in Seq(V) /\ Len(Reverse(none)) = 0
  BY <1>2, ReverseOf
<1> QED
  BY <1>1, <1>2, <1>3

(* A block or a loop begins.                                               *)
LEMMA StartKeeps ==
  ASSUME Faithful, IndInv, NEW kind, kind \in {"block", "loop"},
         NEW annotation, annotation = None \/ annotation \in Nat, Start(kind, annotation)
  PROVE  Faithful'
<1>0. PICK F, P, R : Sits(value, nodes, words, chain, open, here, stack, F, P, R)
  BY DEF Faithful
<1>1. PICK v, nd, wd, h, o, st, c : /\ v = value /\ nd = nodes /\ wd = words /\ h = here /\ o = open
                                    /\ st = stack /\ c = chain
  OBVIOUS
<1>2. PICK N, S, none : N = Len(v) /\ S = Level(N, R) /\ none = << >>
  OBVIOUS
<1>3. PICK y, nx, M, T : y = Reverse(st) /\ nx = Node(kind, none) /\ M = N + 1 /\ T = Level(M, R)
  OBVIOUS
<1>4. PICK w, ne, x, d : /\ w = Append(v, y) /\ ne = Append(nd, nx) /\ d = Append(c, Frame(M))
                         /\ x = [Scope(kind, M, c) EXCEPT !.annotation = annotation]
  OBVIOUS
<1>5. /\ N \in Nat /\ R \in Nat /\ R <= MaxWords /\ World(v, N, S) /\ Nodes(v, nd, S)
      /\ Inner(v, N, S, F, c, h, st) /\ Walk(o, h) /\ Len(nd) = N /\ wd \in Nat /\ MaxWords \in Nat
  BY <1>0, <1>1, <1>2, Before
<1>6. /\ wd + 1 <= MaxWords /\ words' = wd + 1 /\ nodes' = ne /\ chain' = d /\ open' = Append(o, x)
      /\ value' = w /\ here' = h /\ stack' = st
  BY <1>1, <1>2, <1>3, <1>4, <1>5 DEF Start, Walking, NextNode
<1>7. h => /\ Stands(v, Flat(c), st) /\ Stands(v, Flat(c), Reverse(y)) /\ st = Reverse(y)
           /\ DOMAIN y = 1 .. Len(y) /\ Len(y) \in Nat
  <2>1. h => Stands(v, Flat(c), st)
    BY <1>5 DEF Inner
  <2>2. Flat(c) \in Seq(S)
    BY <1>5, SizeIs DEF Inner
  <2> QED
    BY <1>3, <2>1, <2>2, ReversedBack
<1>8. ~h => y = << >> /\ st = << >>
  BY <1>3, <1>5, NothingReversed DEF Inner
<1>9. DOMAIN y = 1 .. Len(y) /\ Len(y) \in Nat
  <2>1. CASE h
    BY <1>7, <2>1
  <2>2. CASE ~h
    BY <1>8, <2>2
  <2> QED
    BY <2>1, <2>2
<1>10. Added(v, nd, N, S, y, w, M, T, nx, ne)
  <2>1. N = Len(v) /\ S = Level(N, R) /\ M = N + 1 /\ T = Level(M, R) /\ R \in Nat /\ R <= R /\ R <= MaxWords
    BY <1>2, <1>3, <1>5
  <2> QED
    BY ONLY <1>4, <1>5, <1>9, <2>1, NodeAdded
<1>11. Nodes(w, ne, T) /\ nx.kind = kind /\ World(w, M, T) /\ M \in Nat
  <2>1. Blank(nx, kind, none, none)
    BY <1>2, <1>3, BlankIs
  <2>2. none \in Seq(T)
    BY <1>2
  <2>3. DOMAIN w[M] = 1 .. Len(w[M]) /\ Len(w[M]) \in Nat
    BY <1>10 DEF Added
  <2>5. nx.kind = kind
    BY <2>1 DEF Blank
  <2>4. NodeOk(w, T, M, nx)
    <3>1. kind \in {"call", "annotation"} \/ none = << >>
      BY <1>2
    <3> QED
      BY ONLY <3>1, <2>1, <2>2, <2>3, NodeIs
  <2> QED
    BY <1>10, <2>4, <2>5 DEF Added
<1>12. Fresh(x, M, c, h) /\ x.kind = kind
  <2>1. /\ x.kind = kind /\ x.node = M /\ x.before = c /\ x.done = << >> /\ x.breaks = << >> /\ x.way = 0
        /\ x.annotation = annotation /\ x.branch = 0
    BY <1>4 DEF Scope
  <2> QED
    BY <2>1 DEF Fresh
<1>13. none \in Seq(T) /\ Stands(w, none, none)
  BY <1>2, NothingStands
<1>14. PICK s : s = IF h THEN Cat(st, none) ELSE << >>
  OBVIOUS
<1>15. s = st
  <2>1. CASE h
    <3>1. PICK V : st \in Seq(V)
      <4>1. Stands(v, Flat(c), st) /\ Flat(c) \in Seq(S)
        BY <1>5, <1>7, <2>1, SizeIs DEF Inner
      <4> QED
        BY <4>1, StandsIs
    <3> QED
      BY <1>2, <1>14, <2>1, <3>1, CatSeq
  <2>2. CASE ~h
    BY <1>8, <1>14, <2>2
  <2> QED
    BY <2>1, <2>2
<1>16. SitsThen(w, ne, wd + 1, Push(d, none), Append(o, x), h, s, R)
  <2>1. Sits(v, nd, wd, c, o, h, st, F, P, R)
    BY <1>0, <1>1
  <2>2. /\ Inner(v, N, S, F, c, h, st) /\ Len(c) = Len(c) /\ (\A i \in 0 .. Len(c) - 1 : Dry(c, i) => Dry(c, i))
        /\ (h => Stands(v, Flat(c), Reverse(y)) /\ st = Reverse(y)) /\ (~h => y = << >>)
    BY <1>5, <1>7, <1>8
  <2>3. R \in Nat /\ R <= R /\ R <= R + 1 /\ M = N + 1 /\ T = Level(M, R) /\ N = Len(v) /\ S = Level(N, R)
    BY <1>2, <1>3, <1>5
  <2>4. h \in BOOLEAN /\ (h => h) /\ (h => Stands(w, none, none)) /\ nx.kind = x.kind /\ Walk(o, h)
    BY <1>5, <1>11, <1>12, <1>13 DEF Walk
  <2>5. Nodes(w, ne, T) /\ Fresh(x, M, c, h) /\ none \in Seq(T) /\ d = Append(c, Frame(M)) /\ wd + 1 <= MaxWords
    BY <1>4, <1>6, <1>11, <1>12, <1>13
  <2> QED
    <3>1. Opening(v, nd, wd, c, o, h, st, F, P, R, N, S, c, st, y, R, M, T, nx, w, ne, x, h, none, none)
      BY ONLY <1>10, <2>1, <2>2, <2>3, <2>4, <2>5 DEF Opening
    <3>2. d = Append(c, Frame(M)) /\ s = IF h THEN Cat(st, none) ELSE << >>
      BY <1>4, <1>14
    <3> QED
      BY ONLY <3>1, <3>2, OpenedSits
<1>17. Push(d, none) = d
  <2>1. c \in Chains(T, M)
    <3>1. Grown(v, N, S, w, M, T) /\ c \in Chains(S, N)
      BY <1>5, <1>10 DEF Added, Inner
    <3> QED
      BY <3>1, ChainsGrow
  <2>2. M \in 0 .. M /\ M # 0
    BY <1>3, <1>5
  <2>3. PICK f : f = Frame(M)
    OBVIOUS
  <2>4. f \in Frames(T, M) /\ f.node = M
    BY <2>2, <2>3, FrameIs
  <2>5. Len(c) > 0 => f.node # 0
    BY <2>2, <2>4
  <2>6. Push(Append(c, f), none) = Append(c, f)
    BY ONLY <1>2, <1>11, <2>1, <2>4, <2>5, PushNothing
  <2> QED
    BY <1>4, <2>3, <2>6
<1>18. PICK G, Q : Sits(w, ne, wd + 1, d, Append(o, x), h, st, G, Q, R)
  BY <1>15, <1>16, <1>17 DEF SitsThen
<1>19. Sits(value', nodes', words', chain', open', here', stack', G, Q, R)
  BY <1>6, <1>18
<1> QED
  BY <1>19 DEF Faithful

(* One value is taken.                                                     *)
LEMMA PopOneIs ==
  ASSUME NEW S, NEW N, N \in Nat, Refs(S, N), NEW c, c \in Chains(S, N), Size(c) # 0
  PROVE  PopN(c, 1).chain = Popped(c)
<1>1. PICK none, a, z : none = << >> /\ z = 0 /\ a = PopN(c, z)
  OBVIOUS
<1>2. a = [chain |-> c, sources |-> none]
  BY <1>1, PopNIs
<1>3. a.chain = c /\ a.sources = none
  BY ONLY <1>2
<1>4. PopN(c, z + 1) = OneTaken(c, a)
  BY <1>1, PopNIs
<1>5. PICK b, q : b = Popped(c) /\ q = Cat(<<Handed(c, Len(c))>>, none)
  OBVIOUS
<1>6. OneTaken(c, a) = [chain |-> b, sources |-> q]
  BY <1>3, <1>5 DEF OneTaken
<1>7. PICK e : e = PopN(c, z + 1)
  OBVIOUS
<1>8. e = [chain |-> b, sources |-> q]
  BY <1>4, <1>6, <1>7
<1>9. e.chain = b
  BY ONLY <1>8
<1> QED
  BY <1>1, <1>5, <1>7, <1>9

(* An if or a match begins.                                                *)
LEMMA ForkKeeps ==
  ASSUME Faithful, IndInv, NEW kind, kind \in {"true", "case"}, NEW payload,
         payload = << >> \/ payload = <<Made(words + 1, PopN(chain, 1).sources)>>, Fork(kind, payload)
  PROVE  Faithful'
<1>0. PICK F, P, R : Sits(value, nodes, words, chain, open, here, stack, F, P, R)
  BY DEF Faithful
<1>1. PICK v, nd, wd, h, o, st, c : /\ v = value /\ nd = nodes /\ wd = words /\ h = here /\ o = open
                                    /\ st = stack /\ c = chain
  OBVIOUS
<1>2. PICK N, S, none, b, q0, L : /\ N = Len(v) /\ S = Level(N, R) /\ none = << >> /\ b = Popped(c)
                                  /\ q0 = PopN(c, 1).sources /\ L = R + 1
  OBVIOUS
<1>3. PICK y, t, M, T : /\ y = (IF h THEN Reverse(Front(st)) ELSE << >>)
                        /\ t = <<q0[1]>> /\ M = N + 1 /\ T = Level(M, L)
  OBVIOUS
<1>4. PICK nx : nx = [Node(kind, << >>) EXCEPT !.subject = t]
  OBVIOUS
<1>5. PICK w, ne, d : w = Append(v, y) /\ ne = Append(nd, nx) /\ d = Append(b, Frame(M))
  OBVIOUS
<1>6. /\ N \in Nat /\ R \in Nat /\ R <= MaxWords /\ World(v, N, S) /\ Nodes(v, nd, S) /\ R <= wd
      /\ Inner(v, N, S, F, c, h, st) /\ Walk(o, h) /\ Len(nd) = N /\ wd \in Nat /\ MaxWords \in Nat
      /\ Size(c) \in Nat
  BY <1>0, <1>1, <1>2, Before
<1>7. NextNode = M /\ words' = wd + 1
  BY <1>1, <1>3, <1>6 DEF Fork, NextNode
<1>8. PICK j \in IF here THEN {1, 2} ELSE {0} :
        /\ open' = Append(open, [Scope(kind, NextNode, Popped(chain)) EXCEPT !.branch = j])
        /\ here' = (j = 1)
  BY DEF Fork
<1>9. PICK x, g, a : /\ x = [Scope(kind, M, b) EXCEPT !.branch = j] /\ g = (j = 1)
                     /\ a = [i \in DOMAIN payload |-> Value(wd + 1, Upper(1))]
  OBVIOUS
<1>10. /\ wd + 1 <= MaxWords /\ Size(c) > 0 /\ nodes' = ne /\ chain' = Push(d, payload)
       /\ open' = Append(o, x) /\ value' = w /\ here' = g
       /\ stack' = IF g THEN Cat(Front(st), a) ELSE << >>
  <2>1. /\ Walking /\ Size(c) > 0 /\ nodes' = ne /\ chain' = Push(d, payload) /\ value' = w
    BY <1>1, <1>2, <1>3, <1>4, <1>5, <1>7 DEF Fork, Subject
  <2>2. stack' = IF here' THEN Front(stack) \o [i \in DOMAIN payload |-> Value(words', Upper(1))] ELSE << >>
    BY DEF Fork
  <2>3. here' = g /\ open' = Append(o, x)
    BY <1>1, <1>2, <1>7, <1>8, <1>9
  <2>4. stack' = IF g THEN Cat(Front(st), a) ELSE << >>
    BY <1>1, <1>7, <1>9, <2>2, <2>3 DEF Cat
  <2>5. wd + 1 <= MaxWords
    BY <1>1, <1>6, <2>1 DEF Walking
  <2> QED
    BY <2>1, <2>3, <2>4, <2>5
<1>11. L \in Nat /\ R <= L /\ L <= R + 1 /\ L <= MaxWords
  BY <1>2, <1>6, <1>10
<1>12. c \in Chains(S, N) /\ Refs(S, N) /\ Flat(c) \in Seq(S) /\ Size(c) = Len(Flat(c))
  BY <1>6, SizeIs DEF Inner, World
<1>13. PopN(c, 1).chain = b
  BY <1>2, <1>6, <1>10, <1>12, PopOneIs
<1>14. PICK st0, u : st0 = (IF h THEN SubSeq(st, 1, Len(st) - 1) ELSE << >>)
                     /\ u = SubSeq(st, Len(st) - 1 + 1, Len(st))
  OBVIOUS
<1>15. /\ PopsAll(S, N, c, 1, PopN(c, 1)) /\ Inner(v, N, S, F, b, h, st0) /\ (h => Stands(v, q0, u))
       /\ (h => Len(st) = Size(c))
  <2>1. 1 \in Nat /\ 1 <= Size(c)
    BY <1>6, <1>10
  <2>2. /\ PopsAll(S, N, c, 1, PopN(c, 1)) /\ PopN(c, 1).chain # << >>
        /\ Inner(v, N, S, F, PopN(c, 1).chain, h, IF h THEN SubSeq(st, 1, Len(st) - 1) ELSE << >>)
        /\ h => Stands(v, PopN(c, 1).sources, SubSeq(st, Len(st) - 1 + 1, Len(st)))
        /\ h => Len(st) = Size(c)
    BY ONLY <1>6, <2>1, InnerTakes
  <2> QED
    BY <1>2, <1>13, <1>14, <2>2
<1>16. q0 \in Seq(S) /\ Len(q0) = 1 /\ Len(b) = Len(c) /\ \A i \in 0 .. Len(c) : Dry(c, i) => Dry(b, i)
  BY <1>2, <1>13, <1>15 DEF PopsAll
<1>17. h => Front(st) = st0 /\ u = Upper(1)
  BY <1>1, <1>14 DEF Front, Upper
<1>18. h => /\ Stands(v, Flat(b), st0) /\ Stands(v, Flat(b), Reverse(y)) /\ st0 = Reverse(y)
            /\ DOMAIN y = 1 .. Len(y) /\ Len(y) \in Nat
  <2>1. h => Stands(v, Flat(b), st0)
    BY <1>15 DEF Inner
  <2>2. Flat(b) \in Seq(S)
    BY <1>15, SizeIs DEF Inner
  <2>3. h => y = Reverse(st0)
    BY <1>3, <1>17
  <2> QED
    BY <2>1, <2>2, <2>3, ReversedBack
<1>19. ~h => y = << >>
  BY <1>3
<1>20. DOMAIN y = 1 .. Len(y) /\ Len(y) \in Nat
  <2>1. CASE h
    BY <1>18, <2>1
  <2>2. CASE ~h
    BY <1>19, <2>2
  <2> QED
    BY <2>1, <2>2
<1>21. Added(v, nd, N, S, y, w, M, T, nx, ne)
  <2>1. N = Len(v) /\ S = Level(N, R) /\ M = N + 1 /\ T = Level(M, L) /\ R \in Nat
    BY <1>2, <1>3, <1>6
  <2> QED
    BY ONLY <1>5, <1>6, <1>11, <1>20, <2>1, NodeAdded
<1>22. S \subseteq T /\ World(w, M, T) /\ M \in Nat /\ N <= M /\ (\A i \in 1 .. N : w[i] = v[i])
  BY <1>21 DEF Added, Grown
<1>23. Nodes(w, ne, T) /\ nx.kind = kind
  <2>1. Blank(nx, kind, none, t)
    BY <1>2, <1>4, BlankIs
  <2>2. none \in Seq(T) /\ t \in Seq(T)
    BY <1>2, <1>3, <1>16, <1>22
  <2>3. DOMAIN w[M] = 1 .. Len(w[M]) /\ Len(w[M]) \in Nat
    BY <1>21 DEF Added
  <2>4. kind \in {"call", "annotation"} \/ none = << >>
    BY <1>2
  <2>5. NodeOk(w, T, M, nx)
    BY ONLY <2>1, <2>2, <2>3, <2>4, NodeIs
  <2>6. nx.kind = kind
    BY <2>1 DEF Blank
  <2> QED
    BY <1>21, <2>5, <2>6 DEF Added
<1>24. Fresh(x, M, b, h) /\ x.kind = kind
  <2>1. /\ x.kind = kind /\ x.node = M /\ x.before = b /\ x.done = << >> /\ x.breaks = << >> /\ x.way = 0
        /\ x.annotation = None /\ x.branch = j
    BY <1>9 DEF Scope
  <2>2. ~h => j = 0
    BY <1>1, <1>8
  <2> QED
    BY <2>1, <2>2 DEF Fresh
<1>25. g => h
  <2>1. ~h => j = 0
    BY <1>1, <1>8
  <2>2. g => j = 1
    BY <1>9
  <2> QED
    BY <2>1, <2>2
<1>26. payload \in Seq(T) /\ (g => Stands(w, payload, a))
  <2>1. CASE payload = << >>
    <3>1. a = << >>
      BY <1>9, <2>1
    <3>2. payload \in Seq(T)
      BY <2>1
    <3> QED
      BY <2>1, <3>1, <3>2, NothingStands
  <2>2. CASE payload = <<Made(words + 1, PopN(chain, 1).sources)>>
    <3>1. PICK e, m, U : e = wd + 1 /\ m = Made(e, q0) /\ U = Level(N, L)
      OBVIOUS
    <3>2. payload = <<m>> /\ e \in Int
      BY <1>1, <1>2, <1>6, <2>2, <3>1
    <3>3. m \in U
      BY ONLY <1>2, <1>6, <1>16, <3>1, <3>2, MadeMore
    <3>4. Grown(v, N, U, w, M, T)
      <4>1. L <= L
        BY <1>11
      <4> QED
        BY ONLY <1>3, <1>6, <1>11, <1>22, <3>1, <4>1, WorldGrows
    <3>5. m \in T /\ MeaningIn(w, m) = MeaningIn(v, m)
      BY <3>3, <3>4 DEF Grown
    <3>6. payload \in Seq(T)
      BY ONLY <3>2, <3>5
    <3>7. ASSUME g
          PROVE  Stands(w, payload, a)
      <4>1. Stands(v, q0, u) /\ u = Upper(1)
        BY <1>15, <1>17, <1>25, <3>7
      <4>2. MadeFor(v, U, e, q0, u)
        <5>1. S = Level(N, R) /\ U = Level(N, L) /\ L = R + 1 /\ L <= MaxWords /\ N \in Nat /\ R \in Nat
          BY <1>2, <1>6, <1>11, <3>1
        <5>2. q0 \in Seq(S) /\ e \in Int
          BY <1>16, <3>2
        <5>3. Stands(v, q0, u)
          BY <4>1
        <5> QED
          BY ONLY <5>1, <5>2, <5>3, MadeMeans
      <4>3. MeaningIn(w, m) = Value(wd + 1, Upper(1))
        BY <3>1, <3>5, <4>1, <4>2 DEF MadeFor
      <4>4. a = [i \in DOMAIN payload |-> MeaningIn(w, payload[i])]
        <5>1. \A i \in DOMAIN payload : payload[i] = m
          BY <3>2
        <5> QED
          BY <1>9, <4>3, <5>1
      <4> QED
        BY <4>4 DEF Stands
    <3> QED
      BY <3>6, <3>7
  <2> QED
    BY <2>1, <2>2
<1>27. PICK s : s = IF g THEN Cat(st0, a) ELSE << >>
  OBVIOUS
<1>28. SitsThen(w, ne, wd + 1, Push(d, payload), Append(o, x), g, s, L)
  <2>1. Sits(v, nd, wd, c, o, h, st, F, P, R)
    BY <1>0, <1>1
  <2>2. \A i \in 0 .. Len(c) - 1 : Dry(c, i) => Dry(b, i)
    <3>1. Len(c) \in Nat
      BY <1>12, SizeIs
    <3>2. \A i \in 0 .. Len(c) - 1 : i \in 0 .. Len(c)
      BY <3>1
    <3> QED
      BY <1>16, <3>2
  <2>3. M = N + 1 /\ T = Level(M, L) /\ N = Len(v) /\ S = Level(N, R) /\ Inner(v, N, S, F, b, h, st0) /\ Len(b) = Len(c)
    BY <1>2, <1>3, <1>15, <1>16
  <2>4. (h => Stands(v, Flat(b), Reverse(y)) /\ st0 = Reverse(y)) /\ (~h => y = << >>)
    BY <1>18, <1>19
  <2>5. g \in BOOLEAN /\ nx.kind = x.kind /\ Walk(o, h) /\ wd + 1 <= MaxWords /\ Nodes(w, ne, T) /\ Fresh(x, M, b, h)
    BY <1>6, <1>9, <1>10, <1>23, <1>24
  <2>6. Opening(v, nd, wd, c, o, h, st, F, P, R, N, S, b, st0, y, L, M, T, nx, w, ne, x, g, payload, a)
    BY ONLY <1>11, <1>21, <1>25, <1>26, <2>1, <2>2, <2>3, <2>4, <2>5 DEF Opening
  <2>7. d = Append(b, Frame(M)) /\ s = IF g THEN Cat(st0, a) ELSE << >>
    BY <1>5, <1>27
  <2> QED
    BY ONLY <2>6, <2>7, OpenedSits
<1>29. stack' = s
  BY <1>10, <1>17, <1>25, <1>27
<1>30. PICK G, Q : Sits(w, ne, wd + 1, Push(d, payload), Append(o, x), g, s, G, Q, L)
  BY <1>28 DEF SitsThen
<1>31. Sits(value', nodes', words', chain', open', here', stack', G, Q, L)
  BY <1>7, <1>10, <1>29, <1>30
<1> QED
  BY <1>31 DEF Faithful

(* Without a payload.                                                      *)
LEMMA IfKeeps ==
  ASSUME Faithful, IndInv, If
  PROVE  Faithful'
<1>1. PICK kind, none : kind = "true" /\ none = << >>
  OBVIOUS
<1>2. Fork(kind, none)
  BY <1>1 DEF If
<1> QED
  BY <1>1, <1>2, ForkKeeps

(* With one, or without.                                                   *)
LEMMA MatchKeeps ==
  ASSUME Faithful, IndInv, NEW has \in BOOLEAN, Match(has)
  PROVE  Faithful'
<1>1. PICK kind, payload : kind = "case" /\ payload = Payload(has, words + 1, PopN(chain, 1).sources)
  OBVIOUS
<1>2. Fork(kind, payload)
  BY <1>1 DEF Match
<1>3. payload = << >> \/ payload = <<Made(words + 1, PopN(chain, 1).sources)>>
  BY <1>1 DEF Payload
<1> QED
  BY <1>1, <1>2, <1>3, ForkKeeps

(* The scopes around the new one stay.                                     *)
LEMMA OpenedAll ==
  ASSUME NEW o, IsSeq(o), NEW x, NEW q, q = Append(o, x)
  PROVE  \A k \in 2 .. Len(o) : q[k] = o[k] /\ Resembles(o[k], q[k])
<1>1. Len(o) \in Nat /\ \A k \in 1 .. Len(o) : q[k] = o[k]
  BY OneMore
<1> QED
  BY <1>1 DEF Resembles, Alike

(* A struct literal begins.                                                *)
LEMMA MakeStructNamedKeeps ==
  ASSUME Faithful, IndInv, MakeStructNamed
  PROVE  Faithful'
<1>0. PICK F, P, R : Sits(value, nodes, words, chain, open, here, stack, F, P, R)
  BY DEF Faithful
<1>1. PICK v, nd, wd, h, o, st, c : /\ v = value /\ nd = nodes /\ wd = words /\ h = here /\ o = open
                                    /\ st = stack /\ c = chain
  OBVIOUS
<1>2. PICK N, S, l : N = Len(v) /\ S = Level(N, R) /\ l = Len(o)
  OBVIOUS
<1>3. PICK x : x = [Scope("literal", words', << >>) EXCEPT
                      !.slots = [f \in 1 .. 2 |-> Unset], !.arrived = [f \in 1 .. 2 |-> Unknown]]
  OBVIOUS
<1>4. PICK z : z = Append(o, x)
  OBVIOUS
<1>5. /\ N \in Nat /\ R \in Nat /\ R <= MaxWords /\ World(v, N, S) /\ Nodes(v, nd, S)
      /\ Inner(v, N, S, F, c, h, st) /\ Walk(o, h) /\ wd \in Nat /\ MaxWords \in Nat /\ Len(c) \in Nat
      /\ Literal(v, S, o, h) /\ R <= wd
  BY <1>0, <1>1, <1>2, Before
<1>6. /\ wd + 1 <= MaxWords /\ words' = wd + 1 /\ nodes' = nd /\ chain' = c /\ open' = z
      /\ value' = v /\ here' = h /\ stack' = st
  BY <1>1, <1>3, <1>4, <1>5 DEF MakeStructNamed, Walking
<1>7. /\ x.kind = "literal" /\ x.way = 0 /\ x.node = wd + 1
      /\ x.slots = [f \in 1 .. 2 |-> Unset] /\ x.arrived = [f \in 1 .. 2 |-> Unknown]
  <2>1. PICK e, a, b : e = words' /\ a = [f \in 1 .. 2 |-> Unset] /\ b = [f \in 1 .. 2 |-> Unknown]
    OBVIOUS
  <2>2. x = [Scope("literal", e, << >>) EXCEPT !.slots = a, !.arrived = b]
    BY <1>3, <2>1
  <2>3. x.kind = "literal" /\ x.way = 0 /\ x.node = e /\ x.slots = a /\ x.arrived = b
    BY <2>2 DEF Scope
  <2> QED
    BY <1>6, <2>1, <2>3
<1>8. ~Framed(x) /\ ~TakesAll(x) /\ ~Late(x) /\ x.kind # "body"
  BY <1>7 DEF Framed, TakesAll, Late
<1>9. /\ DOMAIN F = Nat /\ F[1].in /\ Counted(R, wd, o, c)
      /\ Places(P, o, Len(c)) /\ Scopes(v, nd, N, S, F, P, o, l) /\ AllSpent(P, c, o)
  BY <1>0, <1>1, <1>2 DEF Sits
<1>10. IsSeq(o) /\ Len(o) > 0 /\ l \in Nat /\ Len(z) = l + 1 /\ z[l + 1] = x
  BY <1>2, <1>4, <1>5, OneMore DEF Walk
<1>11. PICK Q : Opened(P, o, x, Q, Len(c))
  BY DEF Opened
<1>12. Places(Q, z, Len(c)) /\ Q[l + 1] = Len(c) /\ \A k \in 1 .. l : Q[k] = P[k]
  <2>1. PICK m : m = Len(c)
    OBVIOUS
  <2>2. m = m + (IF Framed(x) THEN 1 ELSE 0) /\ m \in Nat
    BY <1>5, <1>8, <2>1
  <2>3. Opened(P, o, x, Q, m) /\ Places(P, o, m)
    BY <1>9, <1>11, <2>1
  <2>4. /\ Places(Q, Append(o, x), m) /\ Q[Len(o) + 1] = m
        /\ \A k \in 1 .. Len(o) : Q[k] = P[k]
    BY ONLY <1>8, <1>10, <2>2, <2>3, PlacesOpen
  <2> QED
    BY <1>2, <1>4, <2>1, <2>4
<1>13. AllSpent(Q, c, z)
  <2>1. Len(c) \in Nat /\ Len(c) <= Len(c)
    BY <1>5
  <2>2. \A k \in 1 .. Len(o) : Q[k] = P[k]
    BY <1>2, <1>12
  <2>3. (\A i \in 0 .. Len(c) - 1 : Dry(c, i) => Dry(c, i))
        /\ (\A i \in 0 .. Len(c) - 1 : Framed(x) /\ Dry(c, i) => Dry(x.before, i))
    BY <1>8
  <2>4. AllSpent(Q, c, Append(o, x))
    BY ONLY <1>8, <1>9, <1>10, <2>1, <2>2, <2>3, SpentOpen
  <2> QED
    BY <1>4, <2>4
<1>14. Grown(v, N, S, v, N, S)
  BY <1>5 DEF Grown
<1>15. Scopes(v, nd, N, S, F, Q, z, l)
  <2>1. \A k \in 2 .. l : k \in 1 .. l
    BY <1>10
  <2>2. \A k \in 2 .. l : Sound(o[k]) /\ Resembles(o[k], z[k]) /\ Q[k] = P[k] /\ SameTo(F, F, P[k])
    BY <1>2, <1>4, <1>5, <1>10, <1>12, <2>1, OpenedAll DEF SameTo, Walk
  <2>3. \A n \in 1 .. N : nd[n].kind = nd[n].kind
    OBVIOUS
  <2>4. Scopes(v, nd, N, S, F, P, o, l)
    BY <1>9
  <2> QED
    BY ONLY <1>14, <2>2, <2>3, <2>4, ScopesGrow
<1>16. Scopes(v, nd, N, S, F, Q, z, l + 1)
  <2> SUFFICES ASSUME NEW k \in 2 .. l + 1
               PROVE  /\ ScopeOk(v, N, S, F, Q[k], z[k])
                      /\ Framed(z[k]) => nd[z[k].node].kind = NodeKind(z[k].kind)
    BY DEF Scopes
  <2>1. CASE k = l + 1
    BY <1>8, <1>10, <2>1 DEF ScopeOk
  <2>2. CASE k # l + 1
    <3>1. k \in 2 .. l
      BY <1>10, <2>2
    <3> QED
      BY <1>15, <3>1 DEF Scopes
  <2> QED
    BY <2>1, <2>2
<1>17. Literal(v, S, z, h)
  <2>1. LiteralOk(v, S, z, h, l + 1)
    <3>1. /\ x.slots \in [1 .. 2 -> S \cup {Unset}] /\ x.node \in Int
          /\ x.arrived = [f \in 1 .. 2 |-> x.arrived[f]]
      BY <1>5, <1>7
    <3>2. Filled(v, x)
      BY <1>7 DEF Filled
    <3> QED
      BY <1>10, <3>1, <3>2 DEF LiteralOk
  <2>2. h \/ (~h /\ ~Late(x))
    BY <1>8
  <2>3. LiteralOk(v, S, z, h, Len(o) + 1)
    BY <1>2, <2>1
  <2> QED
    BY ONLY <1>4, <1>5, <1>10, <1>14, <2>2, <2>3, LiteralsOpen
<1>18. Counted(R, wd + 1, z, c)
  BY <1>2, <1>5, <1>6, <1>9, <1>10 DEF Counted
<1>19. Scopes(v, nd, N, S, F, Q, z, Len(z))
  BY <1>10, <1>16
<1>20. Sits(v, nd, wd + 1, c, z, h, st, F, Q, R)
  BY ONLY <1>2, <1>5, <1>9, <1>12, <1>13, <1>17, <1>18, <1>19, SitsBy
<1>21. Sits(value', nodes', words', chain', open', here', stack', F, Q, R)
  BY <1>6, <1>20
<1> QED
  BY <1>21 DEF Faithful

(* There are no more stacks than scopes.                                   *)
LEMMA PlacesBelow ==
  ASSUME NEW P, NEW o, NEW n, Places(P, o, n), IsSeq(o), Len(o) > 0
  PROVE  n <= Len(o)
<1>1. PICK l : l = Len(o)
  OBVIOUS
<1>2. l \in Nat /\ l > 0
  BY <1>1, OneMore
<1>3. /\ P[1] = 1 /\ P[l] = n /\ P \in [Nat -> Nat]
      /\ \A k \in 2 .. l : P[k] = P[k - 1] + IF Framed(o[k]) THEN 1 ELSE 0
  BY <1>1 DEF Places
<1> DEFINE T == {k \in Nat : k >= 1 /\ k <= l => P[k] <= k}
<1>4. 0 \in T
  OBVIOUS
<1>5. ASSUME NEW k \in Nat, k \in T
      PROVE  k + 1 \in T
  <2> SUFFICES ASSUME k + 1 <= l
               PROVE  P[k + 1] <= k + 1
    OBVIOUS
  <2>1. CASE k = 0
    BY <1>3, <2>1
  <2>2. CASE k # 0
    <3>1. PICK m : m = k + 1
      OBVIOUS
    <3>2. m \in 2 .. l /\ m - 1 = k /\ k \in Nat /\ k >= 1 /\ k <= l
      BY <1>2, <1>5, <2>2, <3>1
    <3>4. P[k] <= k
      BY <1>5, <3>2
    <3>5. P[k] \in Nat /\ P[m] \in Nat
      BY <1>3, <3>2
    <3>3. P[m] = P[k] + IF Framed(o[m]) THEN 1 ELSE 0
      BY <1>3, <3>2
    <3> QED
      BY <3>1, <3>2, <3>3, <3>4, <3>5
  <2> QED
    BY <2>1, <2>2
<1>6. \A k \in Nat : k \in T
  <2> HIDE DEF T
  <2> QED
    BY ONLY <1>4, <1>5, Induction
<1> QED
  BY <1>1, <1>2, <1>3, <1>6

(* The innermost scope is closed.                                          *)
LEMMA PlacesClose ==
  ASSUME NEW P, NEW o, NEW n, Places(P, o, n), IsSeq(o), NEW l, l = Len(o), l > 1,
         NEW z, IsSeq(z), Len(z) = l - 1, \A k \in 1 .. l - 1 : z[k].kind = o[k].kind,
         NEW m, m = P[l - 1]
  PROVE  /\ Places(P, z, m) /\ n = m + IF Framed(o[l]) THEN 1 ELSE 0
         /\ m \in Nat /\ 1 <= m /\ m <= l - 1
<1>1. PICK e : e = l - 1
  OBVIOUS
<1>2. l \in Nat /\ e \in Nat /\ e >= 1
  BY <1>1, OneMore
<1>3. /\ P \in [Nat -> Nat] /\ P[1] = 1 /\ P[l] = n
      /\ \A k \in 2 .. l : o[k].kind # "body" /\ P[k] = P[k - 1] + IF Framed(o[k]) THEN 1 ELSE 0
  BY DEF Places
<1>4. \A k \in 2 .. e : z[k].kind # "body" /\ P[k] = P[k - 1] + IF Framed(z[k]) THEN 1 ELSE 0
  <2>1. \A k \in 2 .. e : k \in 2 .. l /\ k \in 1 .. l - 1
    BY <1>1, <1>2
  <2>2. \A k \in 2 .. e : z[k].kind = o[k].kind /\ (Framed(z[k]) <=> Framed(o[k]))
    BY <2>1 DEF Framed
  <2> QED
    BY <1>3, <2>1, <2>2
<1>5. Places(P, z, m)
  BY <1>1, <1>3, <1>4 DEF Places
<1>6. n = m + IF Framed(o[l]) THEN 1 ELSE 0
  <2>1. l \in 2 .. l
    BY <1>2
  <2> QED
    BY <1>3, <2>1
<1>7. m \in Nat
  BY <1>1, <1>2, <1>3
<1>8. m <= Len(z) /\ 1 <= m
  <2>1. Len(z) > 0
    BY <1>1, <1>2
  <2>2. m <= Len(z)
    BY ONLY <1>5, <2>1, IsSeq(z), PlacesBelow
  <2>3. e \in 1 .. Len(z)
    BY <1>1, <1>2
  <2>4. Len(z) \in 1 .. Len(z)
    BY <1>1, <1>2
  <2>5. 1 <= P[Len(z)]
    BY ONLY <1>5, <2>1, <2>4, IsSeq(z), PlacesRise
  <2> QED
    BY <1>1, <2>2, <2>5
<1> QED
  BY <1>5, <1>6, <1>7, <1>8

(* A literal ends: it had no stack of its own.                             *)
LEMMA SpentClose ==
  ASSUME NEW P, NEW c, NEW o, AllSpent(P, c, o), Places(P, o, Len(c)), IsSeq(o), NEW l, l = Len(o), l > 1,
         ~Framed(o[l]), Len(c) \in Nat, NEW d, Len(d) = Len(c),
         \A i \in 0 .. Len(c) - 1 : Dry(c, i) => Dry(d, i),
         NEW z, Len(z) = l - 1, \A k \in 1 .. l - 1 : z[k] = o[k]
  PROVE  AllSpent(P, d, z)
<1>1. l \in Nat
  BY OneMore
<1> SUFFICES ASSUME NEW k \in 2 .. l - 1, TakesAll(z[k])
             PROVE  \E j \in P[k] .. Len(d) : Spent(P, d, z, j)
  BY DEF AllSpent
<1>2. \A i \in 2 .. l - 1 : i \in 2 .. l /\ i \in 1 .. l - 1 /\ z[i] = o[i]
  BY <1>1
<1>3. PICK j \in P[k] .. Len(c) : Spent(P, c, o, j)
  BY <1>2 DEF AllSpent
<1>4. j - 1 \in 0 .. Len(c) - 1
  <2>1. Len(o) \in 1 .. Len(o) /\ k \in 1 .. Len(o) /\ Len(o) > 0
    BY <1>1
  <2>2. 1 <= P[k]
    BY <2>1, PlacesRise
  <2>3. P[k] \in Nat
    BY DEF Places
  <2> QED
    BY <2>2, <2>3
<1>5. CASE SpentNow(P, c, o, j)
  <2>1. Dry(c, j - 1) /\ \A i \in 2 .. l : Framed(o[i]) /\ P[i] > j => Dry(o[i].before, j - 1)
    BY <1>5 DEF SpentNow
  <2>2. SpentNow(P, d, z, j)
    BY <1>2, <1>4, <2>1 DEF SpentNow
  <2> QED
    BY <2>2 DEF Spent
<1>6. CASE SpentBefore(P, o, j)
  <2>1. PICK i \in 2 .. l : Framed(o[i]) /\ P[i] = j /\ o[i].done # << >> /\ Dry(o[i].done[1].chain, j - 1)
    BY <1>6 DEF SpentBefore
  <2>2. i # l
    BY <2>1
  <2>3. i \in 2 .. l - 1
    BY <1>1, <2>1, <2>2
  <2>4. z[i] = o[i] /\ i \in 2 .. Len(z)
    BY <1>2, <2>3
  <2>5. SpentBefore(P, z, j)
    BY <2>1, <2>4 DEF SpentBefore
  <2> QED
    BY <2>5 DEF Spent
<1> QED
  BY <1>3, <1>5, <1>6 DEF Spent

(* The literals around it stay.                                            *)
LEMMA LiteralsClose ==
  ASSUME NEW v, NEW N, NEW S, NEW w, NEW M, NEW T, Grown(v, N, S, w, M, T),
         NEW o, NEW h, Literal(v, S, o, h), NEW l, l = Len(o), l \in Nat, l > 1,
         NEW z, Len(z) = l - 1, \A k \in 1 .. l - 1 : z[k] = o[k]
  PROVE  Literal(w, T, z, h)
<1> SUFFICES ASSUME NEW k \in 1 .. l - 1
             PROVE  LiteralOk(w, T, z, h, k)
  BY DEF Literal
<1>1. k \in 1 .. l
  OBVIOUS
<1>2. LiteralOk(v, S, o, h, k)
  BY <1>1 DEF Literal
<1>3. Alike(o[k], z[k])
  BY DEF Alike
<1>4. Missed(o, h, k) => Missed(z, h, k)
  <2>1. \A i \in k .. l - 1 : i \in k .. l /\ i \in 1 .. l - 1
    OBVIOUS
  <2> QED
    BY <2>1 DEF Missed
<1> QED
  BY ONLY <1>2, <1>3, <1>4, Grown(v, N, S, w, M, T), LiteralStays

(* A struct literal is made of its fields.                                 *)
LEMMA LeaveLiteralKeeps ==
  ASSUME Faithful, IndInv, LeaveLiteral
  PROVE  Faithful'
<1>0. PICK F, P, R : Sits(value, nodes, words, chain, open, here, stack, F, P, R)
  BY DEF Faithful
<1>1. PICK v, nd, wd, h, o, st, c : /\ v = value /\ nd = nodes /\ wd = words /\ h = here /\ o = open
                                    /\ st = stack /\ c = chain
  OBVIOUS
<1>2. PICK N, S, l, L, T : N = Len(v) /\ S = Level(N, R) /\ l = Len(o) /\ L = R + 1 /\ T = Level(N, L)
  OBVIOUS
<1>3. PICK x, z : x = o[l] /\ z = Parents(o)
  OBVIOUS
<1>4. PICK q, a, e : q = x.slots /\ a = x.arrived /\ e = x.node
  OBVIOUS
<1>5. PICK t, d : t = <<Made(e, q)>> /\ d = Push(c, t)
  OBVIOUS
<1>6. /\ N \in Nat /\ R \in Nat /\ R <= MaxWords /\ World(v, N, S) /\ Nodes(v, nd, S) /\ R <= wd
      /\ Inner(v, N, S, F, c, h, st) /\ Walk(o, h) /\ wd \in Nat /\ wd <= MaxWords /\ MaxWords \in Nat
      /\ Len(c) \in Nat /\ Len(c) # 0 /\ Literal(v, S, o, h)
  BY <1>0, <1>1, <1>2, Before
<1>7. /\ DOMAIN F = Nat /\ F[1].in /\ Counted(R, wd, o, c)
      /\ Places(P, o, Len(c)) /\ Scopes(v, nd, N, S, F, P, o, l) /\ AllSpent(P, c, o)
  BY <1>0, <1>1, <1>2 DEF Sits
<1>8. /\ IsSeq(o) /\ l \in Nat /\ l > 1 /\ x.kind = "literal" /\ x = Top
      /\ IsSeq(z) /\ Len(z) = l - 1 /\ \A k \in 1 .. l - 1 : z[k] = o[k]
  <2>1. x = Top /\ Top.kind = "literal" /\ IsSeq(o) /\ l \in Nat /\ l > 0 /\ l # 1
    BY <1>1, <1>2, <1>3, TopFacts DEF LeaveLiteral, Kind
  <2>2. Len(o) > 0
    BY <1>2, <2>1
  <2> QED
    BY <1>2, <1>3, <2>1, <2>2, OneLess
<1>9. Unset \notin ToSet(q) /\ d = chain' /\ z = open' /\ wd = words' /\ v = value' /\ nd = nodes' /\ h = here'
      /\ stack' = IF h THEN Append(st, Value(e, a)) ELSE st
  BY <1>1, <1>3, <1>4, <1>5, <1>8 DEF LeaveLiteral
<1>10. LiteralOk(v, S, o, h, l)
  BY <1>2, <1>6, <1>8 DEF Literal
<1>11. q \in [1 .. 2 -> S \cup {Unset}] /\ e \in Int /\ a = [f \in 1 .. 2 |-> a[f]] /\ (Filled(v, x) \/ Missed(o, h, l))
  BY <1>3, <1>4, <1>8, <1>10 DEF LiteralOk
<1>12. q[1] \in S /\ q[2] \in S /\ q[1] # Unset /\ q[2] # Unset
  <2>1. ToSet(q) = {q[i] : i \in 1 .. 2}
    BY <1>11 DEF ToSet
  <2> QED
    BY <1>9, <1>11, <2>1
<1>13. q \in Seq(S)
  <2>1. q = <<q[1], q[2]>>
    BY <1>11
  <2>2. <<q[1], q[2]>> \in Seq(S)
    BY <1>12
  <2> QED
    BY <2>1, <2>2
<1>14. ASSUME h
       PROVE  Stands(v, q, a)
  <2>1. Filled(v, x)
    BY <1>11, <1>14 DEF Missed
  <2>2. \A f \in 1 .. 2 : q[f] # Unset => MeaningIn(v, q[f]) = a[f]
    BY <1>4, <2>1 DEF Filled
  <2>3. \A f \in 1 .. 2 : MeaningIn(v, q[f]) = a[f]
    BY <1>12, <2>2
  <2>4. DOMAIN q = 1 .. 2
    BY <1>11
  <2>5. a = [i \in DOMAIN q |-> MeaningIn(v, q[i])]
    BY <1>11, <2>3, <2>4
  <2> QED
    BY <2>5 DEF Stands
<1>15. PICK m : m = P[l - 1]
  OBVIOUS
<1>16. Places(P, z, m) /\ m = Len(c) /\ m <= l - 1
  <2>1. ~Framed(o[l])
    BY <1>3, <1>8 DEF Framed
  <2>2. \A k \in 1 .. l - 1 : z[k].kind = o[k].kind
    BY <1>8
  <2>3. PICK n : n = Len(c)
    OBVIOUS
  <2>4. Places(P, o, n)
    BY <1>7, <2>3
  <2>5. IsSeq(o) /\ l = Len(o) /\ l > 1 /\ IsSeq(z) /\ Len(z) = l - 1
    BY <1>2, <1>8
  <2>6. /\ Places(P, z, m) /\ n = m + IF Framed(o[l]) THEN 1 ELSE 0
        /\ m \in Nat /\ 1 <= m /\ m <= l - 1
    BY ONLY <1>15, <2>2, <2>4, <2>5, PlacesClose
  <2> QED
    BY <2>1, <2>3, <2>6
<1>17. L \in Nat /\ R <= L /\ L <= MaxWords /\ Counted(L, wd, z, d) /\ Len(d) = Len(c)
  <2>1. Len(d) = Len(c)
    BY <1>5 DEF Push
  <2>2. R + l - Len(c) <= wd
    BY <1>2, <1>7 DEF Counted
  <2>3. L <= MaxWords /\ L + (l - 1) - Len(c) <= wd /\ L \in Nat /\ R <= L
    BY <1>2, <1>6, <1>8, <1>16, <2>2
  <2> QED
    BY <1>6, <1>8, <2>1, <2>3 DEF Counted
<1>18. Grown(v, N, S, v, N, T) /\ World(v, N, T)
  <2>1. N <= N /\ \A n \in 1 .. N : v[n] = v[n]
    BY <1>6
  <2>2. Grown(v, N, Level(N, R), v, N, Level(N, L))
    BY ONLY <1>6, <1>17, <2>1, WorldGrows
  <2>3. \A n \in 1 .. N : DOMAIN v[n] = 1 .. Len(v[n])
    BY <1>2, <1>6 DEF Nodes, NodeOk
  <2>4. World(v, N, Level(N, L))
    BY ONLY <1>6, <1>17, <2>3, WorldIs
  <2> QED
    BY <1>2, <2>2, <2>4
<1>19. Made(e, q) \in T /\ (h => MeaningIn(v, Made(e, q)) = Value(e, a))
  <2>1. Made(e, q) \in T
    BY ONLY <1>2, <1>6, <1>11, <1>13, MadeMore
  <2>2. ASSUME h
        PROVE  MadeFor(v, T, e, q, a)
    <3>1. Stands(v, q, a)
      BY <1>14, <2>2
    <3>2. S = Level(N, R) /\ T = Level(N, L) /\ L = R + 1 /\ L <= MaxWords /\ N \in Nat /\ R \in Nat
      BY <1>2, <1>6, <1>17
    <3>3. q \in Seq(S) /\ e \in Int
      BY <1>11, <1>13
    <3> QED
      BY ONLY <3>1, <3>2, <3>3, MadeMeans
  <2> QED
    BY <2>1, <2>2 DEF MadeFor
<1>20. Nodes(v, nd, T)
  BY <1>0, <1>1, <1>2, <1>17, Deeper
<1>21. PICK b : b = <<Value(e, a)>>
  OBVIOUS
<1>22. t \in Seq(T) /\ (h => Stands(v, t, b))
  <2>1. t \in Seq(T)
    BY <1>5, <1>19
  <2>2. ASSUME h
        PROVE  Stands(v, t, b)
    <3>1. \A i \in DOMAIN t : t[i] = Made(e, q)
      BY <1>5
    <3>2. DOMAIN t = 1 .. 1 /\ b = [i \in 1 .. 1 |-> Value(e, a)]
      BY <1>5, <1>21
    <3>3. b = [i \in DOMAIN t |-> MeaningIn(v, t[i])]
      BY <1>19, <2>2, <3>1, <3>2
    <3> QED
      BY <3>3 DEF Stands
  <2> QED
    BY <2>1, <2>2
<1>23. PICK s : s = IF h THEN Cat(st, b) ELSE << >>
  OBVIOUS
<1>24. Inner(v, N, T, F, c, h, st)
  BY ONLY <1>6, <1>18, InnerGrows
<1>25. Inner(v, N, T, F, d, h, s)
  <2>1. Inner(v, N, T, F, Push(c, t), h, IF h THEN Cat(st, b) ELSE << >>)
    BY ONLY <1>18, <1>22, <1>24, InnerLeaves
  <2> QED
    BY <1>5, <1>23, <2>1
<1>26. stack' = s
  <2>1. CASE h
    <3>1. Stands(v, Flat(c), st) /\ Flat(c) \in Seq(S)
      BY <1>6, <2>1, SizeIs DEF Inner
    <3>2. st \in Seq(Means(v, S))
      BY ONLY <3>1, StandsIs
    <3>3. Append(st, Value(e, a)) = Cat(st, b)
      <4>1. st \in Seq(Means(v, S) \cup {Value(e, a)})
        BY <3>2, SeqMonotonic
      <4>2. Append(st, Value(e, a)) = st \o <<Value(e, a)>>
        BY <4>1
      <4> QED
        BY <1>21, <4>2 DEF Cat
    <3> QED
      BY <1>9, <1>23, <2>1, <3>3
  <2>2. CASE ~h
    <3>1. st = << >>
      BY <1>6, <2>2 DEF Inner
    <3> QED
      BY <1>9, <1>23, <2>2, <3>1
  <2> QED
    BY <2>1, <2>2
<1>27. Scopes(v, nd, N, T, F, P, z, Len(z))
  <2>1. \A k \in 2 .. l - 1 : k \in 1 .. l - 1 /\ k \in 1 .. l /\ k \in 2 .. l
    BY <1>8
  <2>2. \A k \in 2 .. l - 1 : Sound(o[k]) /\ Resembles(o[k], z[k]) /\ P[k] = P[k] /\ SameTo(F, F, P[k])
    BY <1>2, <1>6, <1>8, <2>1 DEF SameTo, Walk, Resembles, Alike
  <2>3. \A n \in 1 .. N : nd[n].kind = nd[n].kind
    OBVIOUS
  <2>4. PICK k1 : k1 = l - 1
    OBVIOUS
  <2>5. Scopes(v, nd, N, S, F, P, o, k1)
    BY <1>7, <2>1, <2>4 DEF Scopes
  <2>6. \A k \in 2 .. k1 : Sound(o[k]) /\ Resembles(o[k], z[k]) /\ P[k] = P[k] /\ SameTo(F, F, P[k])
    BY <2>2, <2>4
  <2>7. Scopes(v, nd, N, T, F, P, z, k1)
    BY ONLY <1>18, <2>3, <2>5, <2>6, ScopesGrow
  <2> QED
    BY <1>8, <2>4, <2>7
<1>28. AllSpent(P, d, z)
  <2>1. ~Framed(o[l])
    BY <1>3, <1>8 DEF Framed
  <2>2. \A i \in 0 .. Len(c) - 1 : Dry(c, i) => Dry(d, i)
    <3>1. c \in Chains(T, N) /\ N \in Nat
      BY <1>6, <1>24 DEF Inner
    <3>2. \A j \in 0 .. Len(c) - 1 : Dry(c, j) => Dry(Push(c, t), j)
      BY ONLY <1>6, <1>22, <3>1, PushIs
    <3> QED
      BY <1>5, <3>2
  <2> QED
    BY ONLY <1>2, <1>6, <1>7, <1>8, <1>17, <2>1, <2>2, SpentClose
<1>29. Literal(v, T, z, h)
  <2>1. Grown(v, N, S, v, N, T) /\ Literal(v, S, o, h)
    BY <1>6, <1>18
  <2>2. l = Len(o) /\ l \in Nat /\ l > 1 /\ Len(z) = l - 1 /\ \A k \in 1 .. l - 1 : z[k] = o[k]
    BY <1>2, <1>8
  <2> QED
    BY ONLY <2>1, <2>2, LiteralsClose
<1>30. Places(P, z, Len(d))
  BY <1>16, <1>17
<1>31. Sits(v, nd, wd, d, z, h, s, F, P, L)
  BY ONLY <1>2, <1>7, <1>17, <1>20, <1>25, <1>27, <1>28, <1>29, <1>30, SitsBy
<1>32. Sits(value', nodes', words', chain', open', here', stack', F, P, L)
  BY <1>9, <1>26, <1>31
<1> QED
  BY <1>32 DEF Faithful

(* The other branch begins, when the first one has left c.                 *)
Turned(x, y, c, h, st) ==
  /\ x.kind \in {"true", "case"} /\ x.way = 0 /\ x.done = << >>
  /\ x.kind = "true" => y.kind \in {"else", "rest"}
  /\ x.kind = "case" => y.kind = "last"
  /\ y.node = x.node /\ y.before = x.before /\ y.branch = x.branch
  /\ Len(y.done) = 1 /\ y.done[1].chain = c /\ y.done # << >>
  /\ (h => y.way # 0 /\ y.arrived = st) /\ (~h => y.way = 0)

(* It is a branch before and behind.                                       *)
LEMMA TurnedKind ==
  ASSUME NEW x, NEW y, NEW c, NEW h, NEW st, Turned(x, y, c, h, st)
  PROVE  /\ Framed(x) /\ Framed(y) /\ y.kind \in {"else", "rest", "last"} /\ ~TakesAll(y)
         /\ NodeKind(y.kind) = NodeKind(x.kind) /\ y.kind # "literal" /\ y.kind # "body"
         /\ x.kind # "literal" /\ x.kind # "body"
BY DEF Turned, Framed, TakesAll, NodeKind

(* The other branch of the same construct.                                 *)
LEMMA TurnedScope ==
  ASSUME NEW v, NEW N, NEW S, NEW F, NEW p, NEW x, ScopeOk(v, N, S, F, p, x),
         NEW c, NEW h, NEW st, Inner(v, N, S, F, c, h, st), Len(c) = p,
         NEW y, Turned(x, y, c, h, st)
  PROVE  ScopeOk(v, N, S, F, p, y)
<1>1. EntryIs(v, N, S, F, p, x) /\ y.kind \in {"else", "rest", "last"}
  BY TurnedKind DEF ScopeOk
<1>2. /\ y.node = x.node /\ y.before = x.before /\ y.branch = x.branch
      /\ Len(y.done) = 1 /\ y.done[1].chain = c
      /\ (h => y.way # 0 /\ y.arrived = st) /\ (~h => y.way = 0)
  BY DEF Turned
<1>3. /\ c \in Chains(S, N) /\ Good(v, F, c)
      /\ h => F[p].in /\ Stands(v, Flat(c), st)
  BY DEF Inner
<1>4. EntryIs(v, N, S, F, p, y)
  <2>1. y.way # 0 => F[p].in
    BY <1>2, <1>3
  <2> QED
    BY ONLY <1>1, <1>2, <2>1 DEF EntryIs
<1>5. DoneIs(v, N, S, F, p, y)
  <2>1. y.way # 0 => Stands(v, Flat(y.done[1].chain), y.arrived)
    BY <1>2, <1>3
  <2> QED
    BY <1>1, <1>2, <1>3, <2>1 DEF DoneIs
<1>6. BreaksAre(v, S, y)
  BY <1>1 DEF BreaksAre
<1> QED
  BY <1>4, <1>5, <1>6 DEF ScopeOk

(* What a break in the first branch took is taken when the other one ends. *)
LEMMA SpentTurned ==
  ASSUME NEW P, NEW c, NEW o, AllSpent(P, c, o), Places(P, o, Len(c)), IsSeq(o), Len(o) > 1,
         Len(c) \in Nat, NEW l, l = Len(o), NEW x, x = o[l], NEW h, NEW st, NEW y, Turned(x, y, c, h, st),
         NEW d, Len(d) = Len(c), \A i \in 0 .. Len(c) - 1 : Dry(x.before, i) => Dry(d, i),
         NEW z, Len(z) = l, z[l] = y, \A k \in 1 .. l - 1 : z[k] = o[k]
  PROVE  AllSpent(P, d, z)
<1>1. l \in Nat /\ l \in 1 .. l /\ l \in 2 .. l /\ Len(o) \in 1 .. Len(o)
  BY OneMore
<1>2. Framed(x) /\ Framed(y) /\ ~TakesAll(y) /\ x.done = << >> /\ y.done # << >> /\ y.done[1].chain = c /\ y.before = x.before
  <2>1. Turned(x, y, c, h, st)
    OBVIOUS
  <2>2. Framed(x) /\ Framed(y) /\ ~TakesAll(y)
    BY ONLY <2>1, TurnedKind
  <2>3. x.done = << >> /\ y.done # << >> /\ y.done[1].chain = c /\ y.before = x.before
    BY ONLY <2>1 DEF Turned
  <2> QED
    BY ONLY <2>2, <2>3
<1>3. P[l] = Len(c)
  BY DEF Places
<1>4. \A k \in 2 .. l : k # l => z[k] = o[k]
  BY <1>1
<1>5. \A k \in 2 .. l : /\ Framed(z[k]) <=> Framed(o[k])
                        /\ z[k].before = o[k].before
  BY <1>2, <1>4
<1> SUFFICES ASSUME NEW k \in 2 .. l, TakesAll(z[k])
             PROVE  \E j \in P[k] .. Len(d) : Spent(P, d, z, j)
  BY DEF AllSpent
<1>6. k # l /\ z[k] = o[k]
  BY <1>2, <1>4
<1>7. PICK j \in P[k] .. Len(c) : Spent(P, c, o, j)
  BY <1>6 DEF AllSpent
<1>8. j \in Nat /\ j - 1 \in 0 .. Len(c) - 1
  <2>1. k \in 1 .. Len(o) /\ Len(o) > 0
    BY <1>1
  <2>2. 1 <= P[k]
    BY ONLY <1>1, <2>1, IsSeq(o), Places(P, o, Len(c)), PlacesRise
  <2>3. P[k] \in Nat
    BY DEF Places
  <2> QED
    BY <2>2, <2>3
<1>9. CASE SpentNow(P, c, o, j) /\ j = Len(c)
  <2>1. Dry(y.done[1].chain, j - 1)
    BY <1>2, <1>9 DEF SpentNow
  <2>2. SpentBefore(P, z, j)
    BY <1>1, <1>2, <1>3, <1>9, <2>1 DEF SpentBefore
  <2> QED
    BY <1>7, <2>2 DEF Spent
<1>10. CASE SpentNow(P, c, o, j) /\ j # Len(c)
  <2>1. \A i \in 2 .. l : Framed(o[i]) /\ P[i] > j => Dry(o[i].before, j - 1)
    BY <1>10 DEF SpentNow
  <2>2. Dry(x.before, j - 1)
    <3>1. P[l] > j
      BY <1>3, <1>8, <1>10
    <3> QED
      BY <1>1, <1>2, <2>1, <3>1
  <2>3. Dry(d, j - 1)
    BY <1>8, <2>2
  <2>4. \A i \in 2 .. l : Framed(z[i]) /\ P[i] > j => Dry(z[i].before, j - 1)
    BY <1>5, <2>1
  <2>5. SpentNow(P, d, z, j)
    BY <2>3, <2>4 DEF SpentNow
  <2> QED
    BY <1>7, <2>5 DEF Spent
<1>11. CASE SpentBefore(P, o, j)
  <2>1. PICK i \in 2 .. l : Framed(o[i]) /\ P[i] = j /\ o[i].done # << >> /\ Dry(o[i].done[1].chain, j - 1)
    BY <1>11 DEF SpentBefore
  <2>2. z[i] = o[i]
    BY <1>2, <1>4, <2>1
  <2>3. SpentBefore(P, z, j)
    BY <2>1, <2>2 DEF SpentBefore
  <2> QED
    BY <1>7, <2>3 DEF Spent
<1> QED
  BY <1>7, <1>9, <1>10, <1>11 DEF Spent

TurnedIn(o, l, x, y, c, h, st, z) ==
  /\ l \in Nat /\ l = Len(o) /\ l > 1 /\ x = o[l] /\ Turned(x, y, c, h, st)
  /\ Len(z) = l /\ z[l] = y /\ \A k \in 1 .. l - 1 : z[k] = o[k]

(* Who comes back for the other branch had not missed the end.             *)
LEMMA LiteralsTurned ==
  ASSUME NEW v, NEW N, NEW S, NEW T, Grown(v, N, S, v, N, T),
         NEW o, NEW h, h \in BOOLEAN, Literal(v, S, o, h),
         NEW l, NEW x, NEW y, NEW c, NEW st, NEW z, TurnedIn(o, l, x, y, c, h, st, z),
         NEW g, g => x.branch = 2
  PROVE  Literal(v, T, z, g)
<1> USE DEF TurnedIn
<1> SUFFICES ASSUME NEW k \in 1 .. l
             PROVE  LiteralOk(v, T, z, g, k)
  BY DEF Literal
<1>1. CASE k = l
  <2>1. z[k].kind # "literal"
    BY <1>1, TurnedKind
  <2> QED
    BY <2>1 DEF LiteralOk
<1>2. CASE k # l
  <2>1. k \in 1 .. l - 1
    BY <1>2
  <2>2. Alike(o[k], z[k])
    BY <2>1 DEF Alike
  <2>3. LiteralOk(v, S, o, h, k)
    BY DEF Literal
  <2>4. ASSUME Missed(o, h, k)
        PROVE  Missed(z, g, k)
    <3>1. ~h /\ \A j \in k .. l : ~Late(o[j])
      BY <2>4 DEF Missed
    <3>2. ~Late(x)
      BY <2>1, <3>1
    <3>3. ~g
      BY <3>2 DEF Late, Turned
    <3>4. ~Late(y)
      BY <3>1, TurnedKind DEF Late, Turned
    <3>5. \A j \in k .. l : j = l \/ j \in 1 .. l - 1
      BY <2>1
    <3>6. \A j \in k .. l : ~Late(z[j])
      BY <3>1, <3>4, <3>5
    <3> QED
      BY <3>3, <3>6 DEF Missed
  <2> QED
    BY ONLY <2>2, <2>3, <2>4, Grown(v, N, S, v, N, T), LiteralStays
<1> QED
  BY <1>1, <1>2

(* What is known when the other branch begins with d.                      *)
Turning(v, nd, wd, c, o, h, st, F, P, R, N, S, L, T, wn, x, y, d, g, s) ==
  /\ Sits(v, nd, wd, c, o, h, st, F, P, R) /\ Walk(o, h) /\ N = Len(v) /\ S = Level(N, R)
  /\ L \in Nat /\ R <= L /\ L <= MaxWords /\ T = Level(N, L)
  /\ wn \in Nat /\ wn <= MaxWords /\ L - R <= wn - wd
  /\ Len(o) > 1 /\ x = o[Len(o)] /\ Turned(x, y, c, h, st) /\ g = (x.branch = 2)
  /\ Len(d) = Len(c) /\ (\A i \in 0 .. Len(c) - 1 : Dry(x.before, i) => Dry(d, i))
  /\ Inner(v, N, T, F, d, g, s)

(* So the invariant holds in it.                                           *)
LEMMA TurnedSits ==
  ASSUME NEW v, NEW nd, NEW wd, NEW c, NEW o, NEW h, NEW st, NEW F, NEW P, NEW R, NEW N, NEW S,
         NEW L, NEW T, NEW wn, NEW x, NEW y, NEW d, NEW g, NEW s,
         Turning(v, nd, wd, c, o, h, st, F, P, R, N, S, L, T, wn, x, y, d, g, s),
         NEW z, z = At(o, Len(o), y)
  PROVE  SitsThen(v, nd, wn, d, z, g, s, L)
<1>1. /\ Sits(v, nd, wd, c, o, h, st, F, P, R) /\ Walk(o, h) /\ N = Len(v) /\ S = Level(N, R)
      /\ L \in Nat /\ R <= L /\ L <= MaxWords /\ T = Level(N, L)
      /\ wn \in Nat /\ wn <= MaxWords /\ L - R <= wn - wd
      /\ Len(o) > 1 /\ x = o[Len(o)] /\ Turned(x, y, c, h, st) /\ g = (x.branch = 2)
      /\ Len(d) = Len(c) /\ (\A i \in 0 .. Len(c) - 1 : Dry(x.before, i) => Dry(d, i))
      /\ Inner(v, N, T, F, d, g, s)
  BY DEF Turning
<1>2. PICK l, n : l = Len(o) /\ n = Len(c)
  OBVIOUS
<1>3. /\ N \in Nat /\ R \in Nat /\ l \in Nat /\ n \in Nat /\ n # 0
  <2>1. Len(v) \in Nat /\ R \in Nat /\ Len(o) \in Nat /\ Len(c) \in Nat /\ Len(c) # 0
    BY ONLY <1>1, SitsIs
  <2> QED
    BY <1>1, <1>2, <2>1
<1>4. /\ DOMAIN F = Nat /\ F[1].in /\ Counted(R, wd, o, c) /\ Nodes(v, nd, S)
      /\ Inner(v, N, S, F, c, h, st) /\ Places(P, o, n) /\ Scopes(v, nd, N, S, F, P, o, l)
      /\ Literal(v, S, o, h) /\ AllSpent(P, c, o)
  BY <1>1, <1>2 DEF Sits
<1>5. IsSeq(o) /\ h \in BOOLEAN /\ (\A k \in 1 .. l : Sound(o[k])) /\ l > 1 /\ l \in 1 .. l /\ l \in 2 .. l
  BY <1>1, <1>2, <1>3 DEF Walk
<1>6. Len(z) = l /\ z[l] = y /\ \A k \in 1 .. l - 1 : z[k] = o[k]
  <2>1. Len(o) \in 1 .. Len(o)
    BY <1>2, <1>5
  <2>2. Len(z) = Len(o) /\ \A k \in 1 .. Len(o) : z[k] = IF k = Len(o) THEN y ELSE o[k]
    BY ONLY <1>5, <2>1, z = At(o, Len(o), y), OneChanged
  <2>3. \A k \in 1 .. l - 1 : k \in 1 .. l /\ k # l
    BY <1>3
  <2> QED
    BY <1>2, <1>5, <2>2, <2>3
<1>7. Grown(v, N, S, v, N, T)
  <2>1. N <= N /\ (\A i \in 1 .. N : v[i] = v[i]) /\ N \in Nat /\ R \in Nat
    BY <1>3
  <2>2. Grown(v, N, Level(N, R), v, N, Level(N, L))
    BY ONLY <1>1, <2>1, WorldGrows
  <2> QED
    BY <1>1, <2>2
<1>8. Nodes(v, nd, T)
  <2>1. IsSeq(v) /\ IsSeq(nd) /\ Len(nd) = Len(v) /\ \A i \in 1 .. Len(v) : NodeOk(v, S, i, nd[i])
    BY <1>4 DEF Nodes
  <2>2. \A i \in 1 .. N : NodeOk(v, S, i, nd[i]) => NodeOk(v, T, i, nd[i])
    BY <1>7, NodeGrows
  <2> QED
    BY <1>1, <2>1, <2>2 DEF Nodes
<1>9. Counted(L, wn, z, d)
  <2>1. wd \in Nat /\ R + l - n <= wd
    BY <1>2, <1>4 DEF Counted
  <2>2. L + l - n <= wn
    BY <1>1, <1>3, <2>1
  <2> QED
    BY <1>1, <1>2, <1>6, <2>2 DEF Counted
<1>10. Framed(x) /\ Framed(y) /\ NodeKind(y.kind) = NodeKind(x.kind) /\ y.kind # "body" /\ y.node = x.node
       /\ x.kind # "body"
  BY <1>1, TurnedKind DEF Turned
<1>11. Places(P, z, n)
  <2>1. P \in [Nat -> Nat] /\ P[1] = 1 /\ P[l] = n
        /\ \A k \in 2 .. l : o[k].kind # "body" /\ P[k] = P[k - 1] + IF Framed(o[k]) THEN 1 ELSE 0
    BY <1>2, <1>4 DEF Places
  <2>2. \A k \in 2 .. l : z[k].kind # "body" /\ (Framed(z[k]) <=> Framed(o[k]))
    <3>1. \A k \in 2 .. l : k = l \/ k \in 1 .. l - 1
      BY <1>3
    <3> QED
      BY <1>1, <1>2, <1>6, <1>10, <2>1, <3>1
  <2> QED
    BY <1>6, <2>1, <2>2 DEF Places
<1>12. Scopes(v, nd, N, T, F, P, z, l)
  <2>1. PICK m : m = l - 1
    OBVIOUS
  <2>2. \A k \in 2 .. m : k \in 2 .. l /\ k \in 1 .. l /\ k \in 1 .. l - 1
    BY <1>3, <2>1
  <2>3. Scopes(v, nd, N, S, F, P, o, m)
    BY <1>4, <2>2 DEF Scopes
  <2>4. \A k \in 2 .. m : Sound(o[k]) /\ Resembles(o[k], z[k]) /\ P[k] = P[k] /\ SameTo(F, F, P[k])
    BY <1>5, <1>6, <2>2 DEF Resembles, Alike, SameTo
  <2>5. \A k \in 1 .. N : nd[k].kind = nd[k].kind
    OBVIOUS
  <2>6. Scopes(v, nd, N, T, F, P, z, m)
    BY ONLY <1>7, <2>3, <2>4, <2>5, ScopesGrow
  <2>7. ScopeOk(v, N, S, F, n, x) /\ nd[x.node].kind = NodeKind(x.kind)
    <3>1. P[l] = n
      BY <1>2, <1>4 DEF Places
    <3> QED
      BY <1>1, <1>2, <1>4, <1>5, <1>10, <3>1 DEF Scopes
  <2>8. ScopeOk(v, N, S, F, n, y)
    BY ONLY <1>1, <1>2, <1>4, <2>7, TurnedScope
  <2>9. ScopeOk(v, N, T, F, n, y)
    <3>1. SameTo(F, F, n)
      BY DEF SameTo
    <3>2. EntryIs(v, N, S, F, n, y) /\ DoneIs(v, N, S, F, n, y) /\ ~(y.kind \in {"block", "loop"})
      BY <1>1, <1>10, <2>8, TurnedKind DEF ScopeOk
    <3>3. EntryIs(v, N, T, F, n, y)
      BY ONLY <1>7, <3>1, <3>2, EntryGrows
    <3>4. DoneIs(v, N, T, F, n, y)
      BY ONLY <1>7, <3>1, <3>2, DoneGrows
    <3> QED
      BY <3>2, <3>3, <3>4 DEF ScopeOk, BreaksAre
  <2>10. \A k \in 2 .. l : k = l \/ k \in 2 .. m
    BY <1>3, <2>1
  <2>11. P[l] = n
    BY <1>2, <1>4 DEF Places
  <2> QED
    BY <1>6, <1>10, <2>6, <2>7, <2>9, <2>10, <2>11 DEF Scopes
<1>13. AllSpent(P, d, z)
  <2>1. Places(P, o, Len(c)) /\ AllSpent(P, c, o) /\ Len(c) \in Nat
    BY <1>2, <1>3, <1>4
  <2>2. IsSeq(o) /\ Len(o) > 1 /\ l = Len(o) /\ x = o[l] /\ Turned(x, y, c, h, st)
    BY <1>1, <1>2, <1>5
  <2>3. Len(d) = Len(c) /\ (\A i \in 0 .. Len(c) - 1 : Dry(x.before, i) => Dry(d, i))
    BY <1>1
  <2> QED
    BY ONLY <1>6, <2>1, <2>2, <2>3, SpentTurned
<1>14. Literal(v, T, z, g)
  <2>1. Grown(v, N, S, v, N, T) /\ h \in BOOLEAN /\ Literal(v, S, o, h)
    BY <1>4, <1>5, <1>7
  <2>2. l \in Nat /\ l = Len(o) /\ l > 1 /\ x = o[l] /\ Turned(x, y, c, h, st) /\ (g => x.branch = 2)
    BY <1>1, <1>2, <1>3, <1>5
  <2>3. TurnedIn(o, l, x, y, c, h, st, z)
    BY ONLY <1>6, <2>2 DEF TurnedIn
  <2>4. g => x.branch = 2
    BY <2>2
  <2> QED
    BY ONLY <2>1, <2>3, <2>4, LiteralsTurned
<1>15. Scopes(v, nd, N, T, F, P, z, Len(z)) /\ Places(P, z, Len(d))
  BY <1>1, <1>2, <1>6, <1>11, <1>12
<1>16. Sits(v, nd, wn, d, z, g, s, F, P, L)
  BY ONLY <1>1, <1>4, <1>8, <1>9, <1>13, <1>14, <1>15, SitsBy
<1> QED
  BY <1>16 DEF SitsThen

(* What is known of the innermost scope.                                   *)
TopIs(F, P, N, S, p) ==
  /\ EntryIs(value, N, S, F, p, Top) /\ DoneIs(value, N, S, F, p, Top) /\ BreaksAre(value, S, Top)
  /\ P[Len(open)] = p /\ nodes[Top.node].kind = NodeKind(Top.kind) /\ Len(open) > 1
  /\ Entered(F, p) /\ Len(value[Top.node]) \in Nat /\ nodes[Top.node].subject \in Seq(S)
  /\ NodeOk(value, S, Top.node, nodes[Top.node])

(* The invariant says so.                                                  *)
LEMMA TopIsKnown ==
  ASSUME NEW F, NEW P, NEW R, Sits(value, nodes, words, chain, open, here, stack, F, P, R), IndInv,
         Framed(Top), NEW N, N = Len(value), NEW S, S = Level(N, R), NEW p, p = Len(chain)
  PROVE  TopIs(F, P, N, S, p)
<1>1. /\ IsSeq(open) /\ Len(open) \in Nat /\ Len(open) > 0 /\ Top = open[Len(open)]
      /\ Top.kind # "body" => Len(open) # 1
  BY TopFacts
<1>2. Len(open) > 1 /\ Len(open) \in 2 .. Len(open)
  <2>1. Top.kind # "body"
    BY DEF Framed
  <2>2. Len(open) # 1
    BY <1>1, <2>1
  <2> QED
    BY ONLY <1>1, <2>2
<1>3. /\ Places(P, open, p) /\ Scopes(value, nodes, N, S, F, P, open, Len(open)) /\ Nodes(value, nodes, S)
      /\ Inner(value, N, S, F, chain, here, stack)
  BY DEF Sits
<1>4. P[Len(open)] = p
  BY <1>3 DEF Places
<1>5. ScopeOk(value, N, S, F, p, Top) /\ nodes[Top.node].kind = NodeKind(Top.kind)
  BY <1>1, <1>2, <1>3, <1>4 DEF Scopes
<1>6. EntryIs(value, N, S, F, p, Top) /\ DoneIs(value, N, S, F, p, Top) /\ BreaksAre(value, S, Top)
  BY <1>5 DEF ScopeOk
<1>7. Top.node \in 1 .. N
  BY <1>6 DEF EntryIs
<1>8. NodeOk(value, S, Top.node, nodes[Top.node])
  BY <1>3, <1>7 DEF Nodes
<1>9. Len(value[Top.node]) \in Nat /\ nodes[Top.node].subject \in Seq(S)
  BY <1>8 DEF NodeOk
<1>10. Entered(F, p)
  BY <1>3 DEF Inner
<1> QED
  BY <1>2, <1>4, <1>5, <1>6, <1>8, <1>9, <1>10 DEF TopIs

(* Another branch begins with d and s.                                     *)
Beginning(F, P, R, N, L, T, wn, kind, d, a, g, s) ==
  /\ Sits(value, nodes, words, chain, open, here, stack, F, P, R) /\ N = Len(value)
  /\ L \in Nat /\ R <= L /\ L <= MaxWords /\ T = Level(N, L)
  /\ wn \in Nat /\ wn <= MaxWords /\ L - R <= wn - words /\ words' = wn
  /\ (Top.kind = "true" /\ kind \in {"else", "rest"}) \/ (Top.kind = "case" /\ kind = "last")
  /\ NextBranch(kind, d, a) /\ g = (Top.branch = 2)
  /\ s = (IF g THEN EntryStack(Top.node) \o a ELSE << >>) /\ Inner(value, N, T, F, d, g, s)
  /\ Len(d) = Len(chain) /\ \A i \in 0 .. Len(chain) - 1 : Dry(Top.before, i) => Dry(d, i)

(* So the next branch keeps the invariant.                                 *)
LEMMA NextBranchKeeps ==
  ASSUME NEW F, NEW P, NEW R, NEW N, NEW L, NEW T, NEW wn, NEW kind, NEW d, NEW a, NEW g, NEW s,
         Beginning(F, P, R, N, L, T, wn, kind, d, a, g, s), IndInv
  PROVE  Faithful'
<1> USE DEF Beginning
<1> DEFINE y0 == [Top EXCEPT !.kind = kind, !.start = words, !.reachable = TRUE, !.over = FALSE,
                   !.done = Append(@, This),
                   !.way = IF here THEN 1 ELSE @,
                   !.arrived = IF here THEN stack ELSE @]
<1>1. DOMAIN Top = Fields /\ Sound(Top)
  BY TopFacts DEF Sound
<1>2. /\ y0.kind = kind /\ y0.way = (IF here THEN 1 ELSE Top.way) /\ y0.done = Append(Top.done, This)
      /\ y0.node = Top.node /\ y0.before = Top.before /\ y0.branch = Top.branch
      /\ here => y0.arrived = stack
  BY <1>1 DEF Fields
<1>3. open' = At(open, Len(open), y0)
  <2>1. PICK n \in Nat : n = Len(open) /\ n \in 1 .. n
    BY TopFacts
  <2>2. PICK Z : open \in Seq(Z)
    BY TopFacts DEF IsSeq
  <2>3. Top = open[n]
    BY <2>1, TopFacts
  <2> QED
    BY <2>1, <2>2, <2>3 DEF NextBranch, At
<1> HIDE DEF y0
<1>4. Top.done = << >> /\ Top.way = 0
  BY <1>1 DEF Sound, WayIsReachable
<1>5. y0.done = <<This>> /\ Len(y0.done) = 1 /\ y0.done[1].chain = chain /\ y0.done # << >>
  BY <1>2, <1>4 DEF This
<1>6. PICK v, nd, wd, h, o, st, c : /\ v = value /\ nd = nodes /\ wd = words /\ h = here /\ o = open
                                    /\ st = stack /\ c = chain
  OBVIOUS
<1>7. PICK S, x, y, z : S = Level(N, R) /\ x = Top /\ y = y0 /\ z = At(o, Len(o), y)
  OBVIOUS
<1>8. Turned(x, y, c, h, st)
  <2>1. /\ x.kind \in {"true", "case"} /\ (x.kind = "true" => y.kind \in {"else", "rest"})
        /\ (x.kind = "case" => y.kind = "last")
    BY <1>2, <1>7
  <2>2. x.way = 0 /\ x.done = << >> /\ y.node = x.node /\ y.before = x.before /\ y.branch = x.branch
    BY <1>2, <1>4, <1>7
  <2>3. Len(y.done) = 1 /\ y.done[1].chain = c /\ y.done # << >>
    BY <1>5, <1>6, <1>7
  <2>4. (h => y.way # 0 /\ y.arrived = st) /\ (~h => y.way = 0)
    BY <1>2, <1>4, <1>6, <1>7
  <2> QED
    BY ONLY <2>1, <2>2, <2>3, <2>4 DEF Turned
<1>9. Walk(o, h) /\ Len(o) > 1 /\ x = o[Len(o)]
  <2>1. Top.kind # "body"
    OBVIOUS
  <2>2. Len(open) # 1 /\ Len(open) \in Nat /\ Len(open) > 0 /\ Top = open[Len(open)]
    BY <2>1, TopFacts
  <2>3. Len(open) > 1
    BY ONLY <2>2
  <2> QED
    BY <1>6, <1>7, <2>2, <2>3 DEF IndInv
<1>10. Turning(v, nd, wd, c, o, h, st, F, P, R, N, S, L, T, wn, x, y, d, g, s)
  BY <1>6, <1>7, <1>8, <1>9 DEF Turning
<1>11. SitsThen(v, nd, wn, d, z, g, s, L)
  BY ONLY <1>7, <1>10, TurnedSits
<1>12. PICK G, Q : Sits(v, nd, wn, d, z, g, s, G, Q, L)
  BY <1>11 DEF SitsThen
<1>13. value' = v /\ nodes' = nd /\ chain' = d /\ open' = z /\ here' = g /\ stack' = s
  BY <1>3, <1>6, <1>7 DEF NextBranch
<1>14. Sits(value', nodes', words', chain', open', here', stack', G, Q, L)
  BY <1>12, <1>13
<1> QED
  BY <1>14 DEF Faithful

(* More of what lies below goes through the innermost stack.               *)
LEMMA PaddedInner ==
  ASSUME NEW v, NEW N, NEW S, NEW F, NEW c, NEW h, NEW st, Inner(v, N, S, F, c, h, st),
         NEW x, Padded(S, N, v, F, c, x)
  PROVE  Inner(v, N, S, F, x, h, st)
<1>1. /\ x \in Chains(S, N) /\ Len(x) = Len(c) /\ Size(x) = Size(c) /\ Good(v, F, x)
      /\ F[Len(c)].in => \A i \in 1 .. Size(c) : MeaningIn(v, Flat(x)[i]) = MeaningIn(v, Flat(c)[i])
  BY DEF Padded
<1>2. /\ c \in Chains(S, N) /\ Len(c) # 0 /\ Entered(F, Len(c)) /\ (~h => st = << >>)
      /\ h => F[Len(c)].in /\ Stands(v, Flat(c), st)
  BY DEF Inner
<1>3. PICK q, r : q = Flat(c) /\ r = Flat(x)
  OBVIOUS
<1>4. q \in Seq(S) /\ r \in Seq(S) /\ Len(q) = Size(c) /\ Len(r) = Len(q) /\ Len(q) \in Nat
  BY <1>1, <1>2, <1>3, SizeIs
<1>5. ASSUME h
      PROVE  Stands(v, r, st)
  <2>1. Stands(v, q, st) /\ \A i \in 1 .. Len(q) : MeaningIn(v, r[i]) = MeaningIn(v, q[i])
    BY <1>1, <1>2, <1>3, <1>4, <1>5
  <2>2. st \in Seq(Means(v, S)) /\ Len(st) = Len(q) /\ \A i \in 1 .. Len(q) : st[i] = MeaningIn(v, q[i])
    BY ONLY <1>4, <2>1, StandsIs
  <2>3. Len(st) = Len(r) /\ \A i \in 1 .. Len(r) : st[i] = MeaningIn(v, r[i])
    BY <1>4, <2>1, <2>2
  <2> QED
    BY ONLY <1>4, <2>2, <2>3, StandsBy
<1> QED
  BY <1>1, <1>2, <1>3, <1>5 DEF Inner

(* The other branch of the innermost scope begins on d.                    *)
LEMMA BranchBegins ==
  ASSUME NEW F, NEW P, NEW R, Sits(value, nodes, words, chain, open, here, stack, F, P, R), IndInv,
         Framed(Top), NEW N, N = Len(value), NEW S, S = Level(N, R), NEW p, p = Len(chain),
         NEW g, g = (Top.branch = 2), NEW d, d = Append(Top.before, Frame(Top.node))
  PROVE  /\ Begun(value, N, S, F, p, Top, d) /\ Branch(<< >>) = d
         /\ Inner(value, N, S, F, d, g, IF g THEN EntryStack(Top.node) ELSE << >>)
         /\ g => EntryStack(Top.node) \o << >> = EntryStack(Top.node)
<1>1. TopIs(F, P, N, S, p)
  BY ONLY Sits(value, nodes, words, chain, open, here, stack, F, P, R), IndInv, Framed(Top),
     N = Len(value), S = Level(N, R), p = Len(chain), TopIsKnown
<1>2. /\ EntryIs(value, N, S, F, p, Top) /\ Entered(F, p) /\ Len(value[Top.node]) \in Nat
  BY <1>1 DEF TopIs
<1>3. N \in Nat
  BY Before
<1>4. Begun(value, N, S, F, p, Top, d)
  BY ONLY <1>2, <1>3, d = Append(Top.before, Frame(Top.node)), BranchStarts
<1>5. /\ Top.before \in Chains(S, N) /\ Top.node \in 1 .. N /\ (g => F[p].in)
      /\ F[p].in => Stands(value, Flat(Top.before), Reverse(value[Top.node]))
  <2>1. /\ Top.before \in Chains(S, N) /\ Top.node \in 1 .. N /\ (Top.branch # 0 => F[p].in)
        /\ F[p].in => Stands(value, Flat(Top.before), Reverse(value[Top.node]))
    BY ONLY <1>2 DEF EntryIs
  <2>3. g => Top.branch = 2
    BY ONLY g = (Top.branch = 2)
  <2>2. g => Top.branch # 0
    BY ONLY <2>3
  <2> QED
    BY <2>1, <2>2
<1>6. Branch(<< >>) = d
  <2>1. PICK b, f, q : b = Top.before /\ f = Frame(Top.node) /\ q = << >>
    OBVIOUS
  <2>2. Top.node \in 0 .. N /\ Top.node # 0
    BY <1>3, <1>5
  <2>3. f \in Frames(S, N) /\ f.node # 0
    BY <2>1, <2>2, FrameIs
  <2>4. Len(b) > 0 => f.node # 0
    BY <2>3
  <2>5. b \in Chains(S, N)
    BY <1>5, <2>1
  <2>6. Push(Append(b, f), q) = Append(b, f)
    BY ONLY <1>3, <2>1, <2>3, <2>4, <2>5, PushNothing
  <2> QED
    BY <2>1, <2>6 DEF Branch
<1>7. PICK u, k, e : u = Reverse(value[Top.node]) /\ k = F[p].in /\ e = EntryStack(Top.node)
  OBVIOUS
<1>8. e = u
  BY <1>7 DEF EntryStack
<1>9. Inner(value, N, S, F, d, g, IF g THEN e ELSE << >>)
  <2>1. Inner(value, N, S, F, d, k, IF k THEN u ELSE << >>)
    BY <1>4, <1>7 DEF Begun
  <2>2. g => k
    BY <1>5, <1>7
  <2>3. PICK w : w = IF k THEN u ELSE << >>
    OBVIOUS
  <2>4. Inner(value, N, S, F, d, k, w)
    BY <2>1, <2>3
  <2>5. Inner(value, N, S, F, d, g, IF g THEN w ELSE << >>)
    BY ONLY <2>2, <2>4, InnerGone
  <2>6. (IF g THEN w ELSE << >>) = (IF g THEN e ELSE << >>)
    BY <1>8, <2>2, <2>3
  <2> QED
    BY <2>5, <2>6
<1>10. ASSUME g
       PROVE  e \o << >> = e
  <2>1. PICK q : q = Flat(Top.before)
    OBVIOUS
  <2>2. q \in Seq(S)
    BY <1>5, <2>1, SizeIs
  <2>3. Stands(value, q, e)
    BY <1>5, <1>7, <1>8, <1>10, <2>1
  <2>4. e \in Seq(Means(value, S))
    BY ONLY <2>2, <2>3, StandsIs
  <2> QED
    BY <2>4
<1> QED
  BY <1>4, <1>6, <1>7, <1>9, <1>10

(* The else branch begins on the stack before the if.                      *)
LEMMA ElseKeeps ==
  ASSUME Faithful, IndInv, Else
  PROVE  Faithful'
<1>0. PICK F, P, R : Sits(value, nodes, words, chain, open, here, stack, F, P, R)
  BY DEF Faithful
<1>1. PICK N, S, p, g, d, T : N = Len(value) /\ S = Level(N, R) /\ T = S /\ p = Len(chain) /\ g = (Top.branch = 2)
                           /\ d = Append(Top.before, Frame(Top.node))
  OBVIOUS
<1>2. Top.kind = "true" /\ NextBranch("else", Branch(<< >>), << >>) /\ words' = words
  BY DEF Else, Kind
<1>3. Framed(Top)
  BY <1>2 DEF Framed
<1>4. /\ Begun(value, N, S, F, p, Top, d) /\ Branch(<< >>) = d
      /\ Inner(value, N, S, F, d, g, IF g THEN EntryStack(Top.node) ELSE << >>)
      /\ g => EntryStack(Top.node) \o << >> = EntryStack(Top.node)
  BY ONLY <1>0, <1>1, <1>3, IndInv, BranchBegins
<1>5. PICK s : s = IF g THEN EntryStack(Top.node) \o << >> ELSE << >>
  OBVIOUS
<1>6. Inner(value, N, T, F, d, g, s)
  BY <1>1, <1>4, <1>5
<1>7. /\ R \in Nat /\ R <= R /\ R <= MaxWords /\ words \in Nat /\ words <= MaxWords /\ R - R <= words - words
  BY <1>0, Before
<1>8. Len(d) = Len(chain) /\ \A i \in 0 .. Len(chain) - 1 : Dry(Top.before, i) => Dry(d, i)
  BY <1>1, <1>4 DEF Begun
<1>9. PICK kind, a : kind = "else" /\ a = << >>
  OBVIOUS
<1>10. /\ (Top.kind = "true" /\ kind \in {"else", "rest"}) \/ (Top.kind = "case" /\ kind = "last")
       /\ NextBranch(kind, d, a) /\ s = IF g THEN EntryStack(Top.node) \o a ELSE << >>
  BY <1>2, <1>4, <1>5, <1>9
<1>11. T = Level(N, R) /\ words' = words
  BY <1>1, <1>2
<1>12. Beginning(F, P, R, N, R, T, words, kind, d, a, g, s)
  BY ONLY <1>0, <1>1, <1>6, <1>7, <1>8, <1>10, <1>11 DEF Beginning
<1> QED
  BY ONLY <1>12, IndInv, NextBranchKeeps

(* What was demanded and what is left below is what there was.             *)
LEMMA SumOf ==
  ASSUME NEW S, NEW N, N \in Nat, NEW c, c \in Chains(S, N), NEW v, NEW F, Good(v, F, c),
         NEW p, p = Len(c), p >= 2
  PROVE  /\ Size(Parents(c)) + Parameters(c) = F[p].size
         /\ Size(Parents(c)) \in Nat /\ Parameters(c) \in Nat
         /\ Parents(c) \in Chains(S, N) /\ Len(Parents(c)) = p - 1
         /\ Last(c) \in Frames(S, N) /\ Last(c).node # 0
<1>1. Len(c) # 0
  OBVIOUS
<1>2. PICK b, f : /\ b \in Chains(S, N) /\ f \in Frames(S, N) /\ (Len(b) > 0 => f.node # 0)
                  /\ c = Append(b, f) /\ Len(c) = Len(b) + 1 /\ Len(b) \in Nat
  BY ONLY <1>1, c \in Chains(S, N), N \in Nat, ChainIs
<1>3. Parents(c) = b /\ Last(c) = f
  BY <1>2, ChainOf
<1>4. Fits(v, b, f, F[p])
  <2>1. Good(v, F, Append(b, f)) <=> Good(v, F, b) /\ (Len(b) > 0 => Fits(v, b, f, F[Len(b) + 1]))
    BY ONLY <1>2, N \in Nat, GoodAppend
  <2>2. Len(b) > 0 /\ Len(b) + 1 = p
    BY <1>2
  <2> QED
    BY <1>2, <2>1, <2>2
<1>5. Size(b) \in Nat /\ Len(f.negative) \in Nat
  <2>1. Size(b) \in Nat
    BY <1>2, SizeIs
  <2>2. f.negative \in Seq(S)
    BY <1>2 DEF Frames
  <2> QED
    BY <2>1, <2>2
<1>6. Size(b) + Len(f.negative) = F[p].size
  BY <1>4 DEF Fits
<1> QED
  BY <1>2, <1>3, <1>5, <1>6 DEF Parameters

(* The remaining words begin on it, with the parameters of the branch that *)
(* diverged.                                                               *)
LEMMA TakeRestKeeps ==
  ASSUME Faithful, IndInv, TakeRest
  PROVE  Faithful'
<1>0. PICK F, P, R : Sits(value, nodes, words, chain, open, here, stack, F, P, R)
  BY DEF Faithful
<1>1. PICK N, S, p, g, b, T, L, wn : N = Len(value) /\ S = Level(N, R) /\ T = S /\ p = Len(chain)
                   /\ L = R /\ wn = words /\ g = (Top.branch = 2) /\ b = Append(Top.before, Frame(Top.node))
  OBVIOUS
<1>2. PICK n, d : n = Parameters(chain) /\ d = EnsureNegatives(b, n)
  OBVIOUS
<1>3. Top.kind = "true" /\ NextBranch("rest", EnsureNegatives(Branch(<< >>), n), << >>) /\ words' = words
  BY <1>2 DEF TakeRest, Kind
<1>4. Framed(Top)
  BY <1>3 DEF Framed
<1>5. /\ Begun(value, N, S, F, p, Top, b) /\ Branch(<< >>) = b
      /\ Inner(value, N, S, F, b, g, IF g THEN EntryStack(Top.node) ELSE << >>)
      /\ g => EntryStack(Top.node) \o << >> = EntryStack(Top.node)
  BY ONLY <1>0, <1>1, <1>4, IndInv, BranchBegins
<1>6. TopIs(F, P, N, S, p)
  BY ONLY <1>0, <1>1, <1>4, IndInv, TopIsKnown
<1>7. /\ R \in Nat /\ R <= R /\ R <= MaxWords /\ words \in Nat /\ words <= MaxWords
      /\ World(value, N, S) /\ Inner(value, N, S, F, chain, here, stack) /\ N \in Nat
  BY <1>0, <1>1, Before
<1>8. p \in Nat /\ p >= 2 /\ Entered(F, p) /\ F[p].size = Size(Top.before)
  BY <1>6 DEF TopIs, EntryIs
<1>9. chain \in Chains(S, N) /\ Good(value, F, chain) /\ Lookups(value, N) /\ Refs(S, N)
  BY <1>7 DEF Inner, World
<1>10. b \in Chains(S, N) /\ Len(b) = p /\ Good(value, F, b) /\ Len(b) >= 2 /\ Entered(F, Len(b))
       /\ \A j \in 0 .. p - 1 : Dry(Top.before, j) => Dry(b, j)
  BY <1>5, <1>8 DEF Begun
<1>11. n \in Nat /\ n <= Size(Parents(b)) + Parameters(b)
  <2>1. Size(Parents(chain)) + Parameters(chain) = F[p].size /\ Size(Parents(chain)) \in Nat /\ n \in Nat
    BY <1>1, <1>2, <1>7, <1>8, <1>9, SumOf
  <2>2. Size(Parents(b)) + Parameters(b) = F[p].size
    BY <1>7, <1>8, <1>10, SumOf
  <2> QED
    BY <1>2, <2>1, <2>2
<1>12. Padded(S, N, value, F, b, d)
  BY ONLY <1>2, <1>7, <1>9, <1>10, <1>11, EnsureNegativesIs
<1>13. PICK s : s = IF g THEN EntryStack(Top.node) \o << >> ELSE << >>
  OBVIOUS
<1>14. Inner(value, N, S, F, d, g, s)
  <2>1. Inner(value, N, S, F, b, g, s)
    BY <1>5, <1>13
  <2> QED
    BY ONLY <1>12, <2>1, PaddedInner
<1>15. Len(d) = Len(chain) /\ \A i \in 0 .. Len(chain) - 1 : Dry(Top.before, i) => Dry(d, i)
  <2>1. Len(d) = Len(b) /\ \A j \in 0 .. Len(b) - 1 : Dry(b, j) => Dry(d, j)
    BY <1>12 DEF Padded
  <2> QED
    BY <1>1, <1>10, <2>1
<1>16. PICK kind, a : kind = "rest" /\ a = << >>
  OBVIOUS
<1>17. (Top.kind = "true" /\ kind \in {"else", "rest"}) \/ (Top.kind = "case" /\ kind = "last")
  BY <1>3, <1>16
<1>18. NextBranch(kind, d, a) /\ s = (IF g THEN EntryStack(Top.node) \o a ELSE << >>)
  BY <1>2, <1>3, <1>5, <1>13, <1>16
<1>19. L \in Nat /\ R <= L /\ L <= MaxWords /\ wn \in Nat /\ wn <= MaxWords /\ L - R <= wn - words /\ words' = wn
  BY <1>1, <1>3, <1>7
<1>20. T = Level(N, L) /\ Inner(value, N, T, F, d, g, s)
  BY <1>1, <1>14
<1>21. Beginning(F, P, R, N, L, T, wn, kind, d, a, g, s)
  BY ONLY <1>0, <1>1, <1>15, <1>17, <1>18, <1>19, <1>20 DEF Beginning
<1> QED
  BY ONLY <1>21, IndInv, NextBranchKeeps

(* One source, one value.                                                  *)
LEMMA OneStands ==
  ASSUME NEW v, NEW m, NEW a, MeaningIn(v, m) = a
  PROVE  Stands(v, <<m>>, <<a>>)
<1>1. PICK t, b : t = <<m>> /\ b = <<a>>
  OBVIOUS
<1>2. DOMAIN t = 1 .. 1 /\ b = [i \in 1 .. 1 |-> a] /\ t[1] = m
  BY <1>1
<1>3. b = [i \in DOMAIN t |-> MeaningIn(v, t[i])]
  BY <1>2
<1> QED
  BY <1>1, <1>3 DEF Stands

(* The next case begins with its payload.                                  *)
LEMMA NextCaseKeeps ==
  ASSUME Faithful, IndInv, NEW has \in BOOLEAN, NextCase(has)
  PROVE  Faithful'
<1>0. PICK F, P, R : Sits(value, nodes, words, chain, open, here, stack, F, P, R)
  BY DEF Faithful
<1>1. PICK N, S, p, g, b, T, L, wn : N = Len(value) /\ S = Level(N, R) /\ T = Level(N, L) /\ p = Len(chain)
                   /\ L = R + 1 /\ wn = words + 1 /\ g = (Top.branch = 2) /\ b = Append(Top.before, Frame(Top.node))
  OBVIOUS
<1>2. PICK q, m, e : q = nodes[Top.node].subject /\ m = Made(wn, q) /\ e = Value(wn, Meanings(q))
  OBVIOUS
<1>3. PICK r, a, d : r = (IF has THEN <<m>> ELSE << >>) /\ a = (IF has THEN <<e>> ELSE << >>) /\ d = Push(b, r)
  OBVIOUS
<1>4. Top.kind = "case" /\ NextBranch("last", Branch(r), a) /\ words' = wn /\ words < MaxWords
  BY <1>1, <1>2, <1>3 DEF NextCase, Kind, Payload
<1>5. Framed(Top)
  BY <1>4 DEF Framed
<1>6. /\ Begun(value, N, S, F, p, Top, b)
      /\ Inner(value, N, S, F, b, g, IF g THEN EntryStack(Top.node) ELSE << >>)
      /\ g => EntryStack(Top.node) \o << >> = EntryStack(Top.node)
      /\ \A u : Branch(u) = Push(b, u)
  <2>1. N = Len(value) /\ S = Level(N, R) /\ p = Len(chain)
    BY <1>1
  <2>2. g = (Top.branch = 2) /\ b = Append(Top.before, Frame(Top.node))
    BY <1>1
  <2>3. /\ Begun(value, N, S, F, p, Top, b) /\ Branch(<< >>) = b
        /\ Inner(value, N, S, F, b, g, IF g THEN EntryStack(Top.node) ELSE << >>)
        /\ g => EntryStack(Top.node) \o << >> = EntryStack(Top.node)
    BY ONLY <1>0, <1>5, <2>1, <2>2, IndInv, BranchBegins
  <2> QED
    BY <1>1, <2>3 DEF Branch
<1>7. TopIs(F, P, N, S, p)
  BY ONLY <1>0, <1>1, <1>5, IndInv, TopIsKnown
<1>8. /\ R \in Nat /\ R <= MaxWords /\ words \in Nat /\ words <= MaxWords /\ R <= words /\ MaxWords \in Nat
      /\ World(value, N, S) /\ N \in Nat /\ Nodes(value, nodes, S)
  BY <1>0, <1>1, Before
<1>9. q \in Seq(S) /\ wn \in Int
  BY <1>1, <1>2, <1>7, <1>8 DEF TopIs
<1>10. L \in Nat /\ R <= L /\ L <= MaxWords /\ wn \in Nat /\ wn <= MaxWords /\ L - R <= wn - words /\ words' = wn
  BY <1>1, <1>4, <1>8
<1>11. Grown(value, N, S, value, N, T) /\ World(value, N, T)
  <2>1. PICK v : v = value
    OBVIOUS
  <2>2. N <= N /\ \A n \in 1 .. N : v[n] = v[n]
    BY <1>8
  <2>3. Grown(v, N, Level(N, R), v, N, Level(N, L))
    BY ONLY <1>8, <1>10, <2>2, WorldGrows
  <2>4. \A n \in 1 .. N : DOMAIN v[n] = 1 .. Len(v[n])
    BY <1>1, <1>8, <2>1 DEF Nodes, NodeOk
  <2>5. World(v, N, Level(N, L))
    BY ONLY <1>8, <1>10, <2>4, WorldIs
  <2> QED
    BY <1>1, <2>1, <2>3, <2>5
<1>12. r \in Seq(T) /\ (g => Stands(value, r, a))
  <2>1. CASE has
    <3>1. m \in T
      BY ONLY <1>1, <1>2, <1>8, <1>9, MadeMore
    <3>2. PICK w : w = Meanings(q)
      OBVIOUS
    <3>3. Stands(value, q, w)
      BY <3>2 DEF Stands, Meanings, Meaning
    <3>4. S = Level(N, R) /\ T = Level(N, L) /\ L = R + 1 /\ L <= MaxWords /\ N \in Nat /\ R \in Nat
      BY <1>1, <1>8, <1>10
    <3>5. MadeFor(value, T, wn, q, w)
      BY ONLY <1>9, <3>3, <3>4, MadeMeans
    <3>6. MeaningIn(value, m) = e
      BY <1>2, <3>2, <3>5 DEF MadeFor
    <3>7. Stands(value, <<m>>, <<e>>)
      BY ONLY <3>6, OneStands
    <3> QED
      BY <1>3, <2>1, <3>1, <3>7
  <2>2. CASE ~has
    <3>1. r = << >> /\ a = << >>
      BY <1>3, <2>2
    <3> QED
      BY <3>1, NothingStands
  <2> QED
    BY <2>1, <2>2
<1>13. PICK st0, s : st0 = (IF g THEN EntryStack(Top.node) ELSE << >>) /\ s = (IF g THEN Cat(st0, a) ELSE << >>)
  OBVIOUS
<1>14. Inner(value, N, T, F, b, g, st0)
  <2>1. Inner(value, N, S, F, b, g, st0)
    BY <1>6, <1>13
  <2> QED
    BY ONLY <1>11, <2>1, InnerGrows
<1>15. Inner(value, N, T, F, d, g, s)
  <2>1. Inner(value, N, T, F, Push(b, r), g, IF g THEN Cat(st0, a) ELSE << >>)
    BY ONLY <1>11, <1>12, <1>14, InnerLeaves
  <2> QED
    BY <1>3, <1>13, <2>1
<1>16. Len(d) = Len(chain) /\ \A i \in 0 .. Len(chain) - 1 : Dry(Top.before, i) => Dry(d, i)
  <2>1. b \in Chains(T, N) /\ Len(b) # 0
    BY <1>14 DEF Inner
  <2>2. Len(Push(b, r)) = Len(b) /\ \A j \in 0 .. Len(b) - 1 : Dry(b, j) => Dry(Push(b, r), j)
    BY ONLY <1>8, <1>12, <2>1, PushIs
  <2>3. Len(b) = p /\ \A j \in 0 .. p - 1 : Dry(Top.before, j) => Dry(b, j)
    BY <1>6 DEF Begun
  <2> QED
    BY <1>1, <1>3, <2>2, <2>3
<1>17. PICK kind : kind = "last"
  OBVIOUS
<1>18. (Top.kind = "true" /\ kind \in {"else", "rest"}) \/ (Top.kind = "case" /\ kind = "last")
  BY <1>4, <1>17
<1>19. NextBranch(kind, d, a)
  BY <1>3, <1>4, <1>6, <1>17
<1>20. s = (IF g THEN EntryStack(Top.node) \o a ELSE << >>)
  BY <1>13 DEF Cat
<1>21. Beginning(F, P, R, N, L, T, wn, kind, d, a, g, s)
  BY ONLY <1>0, <1>1, <1>10, <1>15, <1>16, <1>18, <1>19, <1>20 DEF Beginning
<1> QED
  BY ONLY <1>21, IndInv, NextBranchKeeps

=============================================================================
