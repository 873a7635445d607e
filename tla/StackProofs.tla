----------------------------- MODULE StackProofs -----------------------------
(***************************************************************************)
(* The simulated stack of the unstacker (stack.py): what its operations do *)
(* to a stack with any number of parents, and what the sources on it stand *)
(* for.                                                                    *)
(*                                                                         *)
(* Flat(c) is what lies on the whole chain c.  Popping takes the last of   *)
(* it, wherever the value comes from, and what is popped from a parent is  *)
(* replaced by a parameter of the node, FromNode(n, d).  Good says that    *)
(* these parameters are numbered so that what they stand for, the values   *)
(* the node was entered with, is what was demanded; every operation keeps  *)
(* it.  What a source stands for is defined by recursion over what it is   *)
(* made of; Level has the sources of which that is known.                  *)
(***************************************************************************)
EXTENDS Unstacking, SequenceTheorems, WellFoundedInduction, TLAPS

(* Induction: a set of numbers that has 0, and with a number the next one, *)
(* has them all.                                                           *)
LEMMA Induction ==
  ASSUME NEW T, 0 \in T, \A n \in Nat : n \in T => n + 1 \in T
  PROVE  \A n \in Nat : n \in T
<1> SUFFICES ASSUME NEW m \in Nat, m \notin T
             PROVE  FALSE
  OBVIOUS
<1> DEFINE D == {d \in Nat : d \notin T}
<1>1. D \subseteq Nat /\ D # {}
  OBVIOUS
<1>2. PICK d \in D : \A c \in D : ~ (<<c, d>> \in OpToRel(<, Nat))
  BY <1>1, WFMin, NatLessThanWellFounded
<1>3. d # 0 /\ d \in Nat /\ d \notin T
  OBVIOUS
<1>4. PICK c \in Nat : d = c + 1
  <2>1. d - 1 \in Nat /\ d = d - 1 + 1
    BY <1>3
  <2> QED
    BY <2>1
<1>5. c < d
  BY <1>4
<1>6. <<c, d>> \in OpToRel(<, Nat)
  BY <1>3, <1>4, <1>5 DEF OpToRel
<1>7. c \in T
  BY <1>2, <1>4, <1>6
<1> QED
  BY <1>3, <1>4, <1>7

(* The first n values of a function that is defined by recursion.          *)
Begins(g, n, S, a, F) ==
  g \in [0 .. n -> S] /\ g[0] = a /\ \A k \in 0 .. n - 1 : g[k + 1] = F[k][g[k]]

(* Two such beginnings agree as far as both go.                            *)
LEMMA BeginAlike ==
  ASSUME NEW S, NEW a, NEW F, NEW n \in Nat, NEW m \in Nat, NEW g, NEW h,
         Begins(g, n, S, a, F), Begins(h, m, S, a, F), n <= m
  PROVE  \A k \in 0 .. n : g[k] = h[k]
<1> DEFINE T == {k \in Nat : k <= n => g[k] = h[k]}
<1>1. 0 \in T
  BY DEF Begins
<1>2. ASSUME NEW k \in Nat, k \in T
      PROVE  k + 1 \in T
  <2> SUFFICES ASSUME k + 1 <= n
               PROVE  g[k + 1] = h[k + 1]
    OBVIOUS
  <2>1. k \in 0 .. n - 1 /\ k \in 0 .. m - 1 /\ k <= n
    OBVIOUS
  <2>2. g[k] = h[k]
    BY <1>2, <2>1
  <2> QED
    BY <2>1, <2>2 DEF Begins
<1>3. \A k \in Nat : k \in T
  <2> HIDE DEF T
  <2> QED
    BY <1>1, <1>2, Induction
<1> QED
  BY <1>3

(* A function on the numbers may be defined by recursion.                  *)
Recurs(f, S, a, F) ==
  /\ f \in [Nat -> S] /\ f[0] = a
  /\ \A k \in Nat : k # 0 => f[k] = F[k][f[k - 1]]

(* There is one: whatever a step does is defined for every number.         *)
LEMMA Recursion ==
  ASSUME NEW S, NEW a, NEW F, a \in S, F \in [Nat -> [S -> S]]
  PROVE  \E f : Recurs(f, S, a, F)
<1> DEFINE E == [k \in Nat |-> F[k + 1]]
           T == {n \in Nat : \E g : Begins(g, n, S, a, E)}
<1>0. E \in [Nat -> [S -> S]]
  OBVIOUS
<1> HIDE DEF E
<1>1. 0 \in T
  <2> DEFINE g == [i \in 0 .. 0 |-> a]
  <2>1. Begins(g, 0, S, a, E)
    BY DEF Begins
  <2> QED
    BY <2>1
<1>2. ASSUME NEW n \in Nat, n \in T
      PROVE  n + 1 \in T
  <2>1. PICK g : Begins(g, n, S, a, E)
    BY <1>2
  <2> DEFINE h == [i \in 0 .. n + 1 |-> IF i <= n THEN g[i] ELSE E[n][g[n]]]
  <2>2. g \in [0 .. n -> S] /\ g[0] = a /\ \A k \in 0 .. n - 1 : g[k + 1] = E[k][g[k]]
    BY <2>1 DEF Begins
  <2>3. E[n] \in [S -> S] /\ g[n] \in S /\ E[n][g[n]] \in S
    BY <1>0, <2>2
  <2>4. h \in [0 .. n + 1 -> S]
    BY <2>2, <2>3
  <2>5. h[0] = a
    BY <2>2
  <2>6. ASSUME NEW k \in 0 .. n
        PROVE  h[k + 1] = E[k][h[k]]
    <3>1. CASE k = n
      BY <3>1
    <3>2. CASE k # n
      <4>1. k \in 0 .. n - 1 /\ k + 1 <= n /\ k <= n /\ k + 1 \in 0 .. n + 1 /\ k \in 0 .. n + 1
        BY <3>2
      <4> QED
        BY <2>2, <4>1
    <3> QED
      BY <3>1, <3>2
  <2>7. Begins(h, n + 1, S, a, E)
    <3>1. n + 1 - 1 = n
      OBVIOUS
    <3> HIDE DEF h
    <3> QED
      BY <2>4, <2>5, <2>6, <3>1 DEF Begins
  <2> QED
    BY <2>7
<1>3. \A n \in Nat : \E g : Begins(g, n, S, a, E)
  <2>1. \A n \in Nat : n \in T
    <3> HIDE DEF T
    <3> QED
      BY <1>1, <1>2, Induction
  <2> QED
    BY <2>1
<1> DEFINE G(n) == CHOOSE g : Begins(g, n, S, a, E)
           f == [n \in Nat |-> G(n)[n]]
<1>4. \A n \in Nat : Begins(G(n), n, S, a, E)
  BY <1>3
<1> HIDE DEF G
<1>5. f \in [Nat -> S]
  BY <1>4 DEF Begins
<1>6. f[0] = a
  BY <1>4 DEF Begins
<1>7. ASSUME NEW k \in Nat
      PROVE  f[k + 1] = F[k + 1][f[k]]
  <2>1. Begins(G(k), k, S, a, E) /\ Begins(G(k + 1), k + 1, S, a, E)
    BY <1>4
  <2>2. \A i \in 0 .. k : G(k)[i] = G(k + 1)[i]
    BY <2>1, BeginAlike
  <2>3. G(k + 1)[k + 1] = E[k][G(k + 1)[k]]
    BY <2>1 DEF Begins
  <2>4. G(k + 1)[k + 1] = F[k + 1][G(k)[k]]
    BY <2>2, <2>3 DEF E
  <2> QED
    BY <2>4
<1>8. ASSUME NEW k \in Nat \ {0}
      PROVE  f[k] = F[k][f[k - 1]]
  <2>1. k - 1 \in Nat /\ k - 1 + 1 = k
    OBVIOUS
  <2> HIDE DEF f
  <2>2. f[k - 1 + 1] = F[k - 1 + 1][f[k - 1]]
    BY ONLY <1>7, <2>1
  <2> QED
    BY <2>1, <2>2
<1> HIDE DEF f
<1> QED
  BY <1>5, <1>6, <1>8 DEF Recurs

Cat(s, t) == s \o t

(* Nothing, put before or behind a sequence, leaves it as it is.           *)
LEMMA CatSeq ==
  ASSUME NEW S, NEW s \in Seq(S), NEW t \in Seq(S)
  PROVE  Cat(s, t) \in Seq(S) /\ Len(Cat(s, t)) = Len(s) + Len(t)
         /\ Cat(<< >>, t) = t /\ Cat(s, << >>) = s
  BY DEF Cat

(* FlattenSeq goes through the sequences from the first to the last.       *)
Flattens(f, q, n, S) ==
  /\ f \in [Nat -> Seq(S)] /\ f[0] = << >>
  /\ \A k \in 1 .. n : f[k] = Cat(f[k - 1], q[k])

(* So what FlattenSeq gives is the last of a sequence of sums.             *)
LEMMA Flattened ==
  ASSUME NEW S, NEW n \in Nat, NEW q \in Seq(Seq(S)), Len(q) = n
  PROVE  \E f : Flattens(f, q, n, S) /\ FlattenSeq(q) = f[n]
<1> DEFINE F == [k \in Nat |-> [s \in Seq(S) |-> IF k \in 1 .. n THEN Cat(s, q[k]) ELSE s]]
<1>0. \A k \in 1 .. n : q[k] \in Seq(S)
  OBVIOUS
<1>1. F \in [Nat -> [Seq(S) -> Seq(S)]]
  <2>1. ASSUME NEW k \in 1 .. n, NEW s \in Seq(S)
        PROVE  Cat(s, q[k]) \in Seq(S)
    BY ONLY s \in Seq(S), k \in 1 .. n, <1>0, CatSeq
  <2> QED
    BY <2>1
<1>2. << >> \in Seq(S)
  OBVIOUS
<1>3. PICK f : Recurs(f, Seq(S), << >>, F)
  <2> HIDE DEF F
  <2> QED
    BY ONLY <1>1, <1>2, Recursion
<1>3a. f \in [Nat -> Seq(S)] /\ f[0] = << >>
  BY <1>3 DEF Recurs
<1>4. Flattens(f, q, n, S)
  <2>1. ASSUME NEW k \in 1 .. n
        PROVE  f[k] = Cat(f[k - 1], q[k])
    <3>0. k \in Nat \ {0} /\ k - 1 \in Nat
      OBVIOUS
    <3>1. k \in Nat \ {0} /\ k - 1 \in Nat /\ f[k - 1] \in Seq(S)
      BY ONLY <1>3a, <3>0
    <3>2. f[k] = F[k][f[k - 1]]
      <4> HIDE DEF F
      <4> QED
        BY <1>3, <3>0 DEF Recurs
    <3> QED
      BY <3>1, <3>2
  <2> QED
    BY <1>3a, <2>1 DEF Flattens
<1> HIDE DEF F
<1>5. FlattenSeq(q) = f[n]
  <2>1. CASE n = 0
    <3>1. q = << >>
      BY <2>1
    <3> QED
      BY <1>3a, <2>1, <3>1 DEF FlattenSeq
  <2>2. CASE n # 0
    <3> DEFINE IsIt(g) == g = [i \in 1 .. n |-> IF i = 1 THEN q[i] ELSE Cat(g[i - 1], q[i])]
               g0 == [i \in 1 .. n |-> f[i]]
    <3>1. IsIt(g0)
      <4>1. ASSUME NEW i \in 1 .. n
            PROVE  f[i] = IF i = 1 THEN q[i] ELSE Cat(g0[i - 1], q[i])
        <5>1. f[i] = Cat(f[i - 1], q[i])
          BY <1>4 DEF Flattens
        <5>2. CASE i = 1
          <6>1. Cat(<< >>, q[i]) = q[i]
            BY ONLY <1>0, <1>2, i \in 1 .. n, CatSeq
          <6> QED
            BY <1>3a, <5>1, <5>2, <6>1
        <5>3. CASE i # 1
          <6>1. i - 1 \in 1 .. n
            BY <5>3
          <6> QED
            BY <5>1, <5>3, <6>1
        <5> QED
          BY <5>2, <5>3
      <4> QED
        BY <4>1
    <3>2. PICK h : IsIt(h) /\ FlattenSeq(q) = h[n]
      <4>1. IsIt(CHOOSE g : IsIt(g))
        BY <3>1
      <4> QED
        BY <2>2, <4>1 DEF FlattenSeq, Cat
    <3>3. \A i \in 1 .. n : h[i] = IF i = 1 THEN q[i] ELSE Cat(h[i - 1], q[i])
      BY <3>2
    <3> HIDE DEF IsIt, g0
    <3> DEFINE T == {k \in Nat : k \in 1 .. n => h[k] = f[k]}
    <3>4. 0 \in T
      OBVIOUS
    <3>5. ASSUME NEW k \in Nat, k \in T
          PROVE  k + 1 \in T
      <4> SUFFICES ASSUME k + 1 \in 1 .. n
                   PROVE  h[k + 1] = f[k + 1]
        OBVIOUS
      <4>1. f[k + 1] = Cat(f[k], q[k + 1])
        <5>1. k + 1 - 1 = k
          OBVIOUS
        <5> QED
          BY <1>4, <5>1 DEF Flattens
      <4>2. CASE k = 0
        <5>1. f[k] = << >> /\ k + 1 = 1
          BY <1>3a, <4>2
        <5>2. Cat(<< >>, q[1]) = q[1]
          BY ONLY <1>0, <1>2, <5>1, k + 1 \in 1 .. n, CatSeq
        <5> QED
          BY <3>3, <4>1, <5>1, <5>2
      <4>3. CASE k # 0
        <5>1. k \in 1 .. n /\ k + 1 - 1 = k /\ k + 1 # 1
          BY <4>3
        <5>2. h[k] = f[k]
          BY <3>5, <5>1
        <5>3. h[k + 1] = Cat(h[k], q[k + 1])
          <6> HIDE DEF T
          <6> QED
            BY <3>3, <5>1
        <5> QED
          BY <4>1, <5>2, <5>3
      <4> QED
        BY <4>2, <4>3
    <3>6. \A k \in Nat : k \in T
      <4> HIDE DEF T
      <4> QED
        BY ONLY <3>4, <3>5, Induction
    <3>7. n \in 1 .. n
      BY <2>2
    <3> QED
      BY <3>2, <3>6, <3>7
  <2> QED
    BY <2>1, <2>2
<1> QED
  BY <1>4, <1>5

(* What one more sequence adds comes last.                                 *)
LEMMA FlattenAppend ==
  ASSUME NEW S, NEW n \in Nat, NEW q \in Seq(Seq(S)), Len(q) = n, NEW x \in Seq(S)
  PROVE  /\ FlattenSeq(q) \in Seq(S)
         /\ FlattenSeq(Append(q, x)) = Cat(FlattenSeq(q), x)
<1>1. PICK r \in Seq(Seq(S)) : /\ r = Append(q, x) /\ Len(r) = n + 1 /\ r[n + 1] = x
                               /\ \A k \in 1 .. n : r[k] = q[k]
  <2>1. PICK Q : Q = Seq(S)
    OBVIOUS
  <2>2. q \in Seq(Q) /\ x \in Q
    BY <2>1
  <2>3. PICK r : r = Append(q, x)
    OBVIOUS
  <2>4. r \in Seq(Q) /\ Len(r) = n + 1 /\ r[n + 1] = x /\ \A k \in 1 .. n : r[k] = q[k]
    BY ONLY <2>2, <2>3, Len(q) = n, AppendProperties
  <2> QED
    BY <2>1, <2>3, <2>4
<1>2. PICK f : Flattens(f, q, n, S) /\ FlattenSeq(q) = f[n]
  BY ONLY n \in Nat, q \in Seq(Seq(S)), Len(q) = n, Flattened
<1>3. PICK g : Flattens(g, r, n + 1, S) /\ FlattenSeq(r) = g[n + 1]
  <2>1. n + 1 \in Nat
    OBVIOUS
  <2> QED
    BY ONLY <1>1, <2>1, Flattened
<1> DEFINE T == {k \in Nat : k <= n => g[k] = f[k]}
<1>4. 0 \in T
  BY <1>2, <1>3 DEF Flattens
<1>5. ASSUME NEW k \in Nat, k \in T
      PROVE  k + 1 \in T
  <2> SUFFICES ASSUME k + 1 <= n
               PROVE  g[k + 1] = f[k + 1]
    OBVIOUS
  <2>1. k + 1 \in 1 .. n /\ k + 1 \in 1 .. n + 1 /\ k + 1 - 1 = k /\ k <= n
    OBVIOUS
  <2>2. g[k] = f[k] /\ r[k + 1] = q[k + 1]
    BY <1>1, <1>5, <2>1
  <2>3. g[k + 1] = Cat(g[k], r[k + 1])
    BY <1>3, <2>1 DEF Flattens
  <2>4. f[k + 1] = Cat(f[k], q[k + 1])
    BY <1>2, <2>1 DEF Flattens
  <2> QED
    BY <2>2, <2>3, <2>4
<1>6. \A k \in Nat : k \in T
  <2> HIDE DEF T
  <2> QED
    BY ONLY <1>4, <1>5, Induction
<1>7. g[n] = f[n]
  BY <1>6
<1>8. g[n + 1] = Cat(g[n], x)
  <2>1. n + 1 \in 1 .. n + 1 /\ n + 1 - 1 = n
    OBVIOUS
  <2> QED
    BY <1>1, <1>3, <2>1 DEF Flattens
<1>9. f[n] \in Seq(S)
  BY <1>2 DEF Flattens
<1> QED
  BY <1>1, <1>2, <1>3, <1>7, <1>8, <1>9

Frames(S, N) == [positive : Seq(S), negative : Seq(S), node : 0 .. N]
Chains(S, N) == {c \in Seq(Frames(S, N)) : \A j \in 2 .. Len(c) : c[j].node # 0}

(* Without a stack there is nothing on it.                                 *)
LEMMA FlatNothing == Flat(<< >>) = << >> /\ Size(<< >>) = 0
<1>1. Len(<< >>) = 0 /\ DOMAIN << >> = {}
  OBVIOUS
<1>2. [j \in DOMAIN << >> |-> << >>[j].positive] = << >>
  BY <1>1
<1> QED
  BY <1>1, <1>2 DEF Flat, Size, FlattenSeq

(* The innermost stack's own values lie on top.                            *)
LEMMA FlatAppend ==
  ASSUME NEW S, NEW N, NEW c, NEW f, c \in Chains(S, N), f \in Frames(S, N)
  PROVE  /\ Flat(c) \in Seq(S)
         /\ Flat(Append(c, f)) = Cat(Flat(c), f.positive)
         /\ Len(c) \in Nat /\ Size(c) = Len(Flat(c)) /\ Size(c) \in Nat
<1>0. PICK n \in Nat : n = Len(c)
  BY DEF Chains
<1>1. PICK d : /\ n = Len(c) /\ d = Append(c, f) /\ Len(d) = n + 1
                          /\ DOMAIN c = 1 .. n /\ DOMAIN d = 1 .. n + 1 /\ d[n + 1] = f
                          /\ \A j \in 1 .. n : d[j] = c[j] /\ c[j] \in Frames(S, N)
  <2>1. PICK Q, d : Q = Frames(S, N) /\ n = Len(c) /\ d = Append(c, f) /\ c \in Seq(Q) /\ f \in Q
    BY <1>0 DEF Chains
  <2>2. /\ d \in Seq(Q) /\ Len(d) = n + 1 /\ d[n + 1] = f /\ \A j \in 1 .. n : d[j] = c[j]
    BY ONLY <2>1, AppendProperties
  <2> QED
    BY <2>1, <2>2
<1>2. \A x \in Frames(S, N) : x.positive \in Seq(S)
  BY DEF Frames
<1>3. PICK q : q = [j \in 1 .. n |-> c[j].positive]
  OBVIOUS
<1>4. PICK r : r = [j \in 1 .. n + 1 |-> d[j].positive]
  OBVIOUS
<1>5. PICK x \in Seq(S) : x = f.positive
  BY <1>2
<1>6. Flat(c) = FlattenSeq(q) /\ Flat(d) = FlattenSeq(r)
  BY <1>1, <1>3, <1>4 DEF Flat
<1>7. \A j \in 1 .. n : c[j].positive \in Seq(S)
  BY <1>1, <1>2
<1>8. q \in Seq(Seq(S)) /\ Len(q) = n
  BY <1>3, <1>7
<1>9. r = Append(q, x)
  <2>1. PICK Q : Q = Seq(S)
    OBVIOUS
  <2>2. PICK a : a = Append(q, x)
    OBVIOUS
  <2>3. q \in Seq(Q) /\ x \in Q
    BY <1>8, <2>1
  <2>4. a \in Seq(Q) /\ Len(a) = n + 1 /\ a[n + 1] = x /\ \A j \in 1 .. n : a[j] = q[j]
    BY ONLY <1>8, <2>2, <2>3, AppendProperties
  <2>5. r \in Seq(Q) /\ Len(r) = n + 1
    <3>1. \A j \in 1 .. n + 1 : j = n + 1 \/ j \in 1 .. n
      OBVIOUS
    <3>2. \A j \in 1 .. n + 1 : d[j].positive \in Q
      BY <1>1, <1>5, <1>7, <2>1, <3>1
    <3> QED
      BY <1>4, <3>2
  <2>6. \A j \in 1 .. n + 1 : r[j] = a[j]
    <3>1. \A j \in 1 .. n + 1 : j = n + 1 \/ j \in 1 .. n
      OBVIOUS
    <3> QED
      BY <1>1, <1>3, <1>4, <1>5, <2>4, <3>1
  <2>7. r = a
    BY ONLY <2>4, <2>5, <2>6, SeqEqual
  <2> QED
    BY <2>2, <2>7
<1>10. FlattenSeq(q) \in Seq(S) /\ FlattenSeq(Append(q, x)) = Cat(FlattenSeq(q), x)
  BY ONLY <1>8, x \in Seq(S), n \in Nat, FlattenAppend
<1>11. Flat(c) \in Seq(S)
  BY <1>6, <1>10
<1>12. Flat(Append(c, f)) = Cat(Flat(c), f.positive)
  BY <1>1, <1>5, <1>6, <1>9, <1>10
<1> QED
  BY <1>1, <1>11, <1>12 DEF Size

(* A chain is made of the parents and the innermost stack.                 *)
LEMMA ChainOf ==
  ASSUME NEW S, NEW N \in Nat, NEW b, NEW f, b \in Chains(S, N), f \in Frames(S, N),
         Len(b) > 0 => f.node # 0
  PROVE  /\ Append(b, f) \in Chains(S, N) /\ Len(b) \in Nat /\ Len(Append(b, f)) = Len(b) + 1
         /\ DOMAIN Append(b, f) = 1 .. Len(b) + 1
         /\ Parents(Append(b, f)) = b /\ Last(Append(b, f)) = f
         /\ Append(b, f)[Len(b) + 1] = f
         /\ \A j \in 1 .. Len(b) : Append(b, f)[j] = b[j]
<1>0. PICK n \in Nat : n = Len(b)
  BY DEF Chains
<1>1. PICK Q, d : Q = Frames(S, N) /\ n = Len(b) /\ d = Append(b, f) /\ b \in Seq(Q) /\ f \in Q
  BY <1>0 DEF Chains
<1>2. d \in Seq(Q) /\ Len(d) = n + 1 /\ d[n + 1] = f /\ \A j \in 1 .. n : d[j] = b[j]
  BY ONLY <1>1, AppendProperties
<1>3. d \in Chains(S, N)
  <2>1. \A j \in 2 .. n + 1 : j = n + 1 \/ (j \in 2 .. n /\ j \in 1 .. n)
    OBVIOUS
  <2>2. \A j \in 2 .. n : b[j].node # 0
    BY <1>1 DEF Chains
  <2>3. \A j \in 2 .. n + 1 : d[j].node # 0
    <3> SUFFICES ASSUME NEW j \in 2 .. n + 1
                 PROVE  d[j].node # 0
      OBVIOUS
    <3>1. CASE j = n + 1
      <4>1. n > 0
        BY <3>1
      <4> QED
        BY <1>1, <1>2, <3>1, <4>1
    <3>2. CASE j # n + 1
      BY <1>2, <2>1, <2>2, <3>2
    <3> QED
      BY <3>1, <3>2
  <2> QED
    BY <1>1, <1>2, <2>3 DEF Chains
<1>4. Parents(d) = b
  <2>1. n + 1 - 1 = n /\ \A j \in 1 .. n : d[j] \in Q
    BY <1>1, <1>2
  <2>2. PICK p : p = SubSeq(d, 1, n)
    OBVIOUS
  <2>3. /\ p \in Seq(Q) /\ Len(p) = IF 1 <= n THEN n - 1 + 1 ELSE 0
        /\ \A i \in 1 .. n - 1 + 1 : p[i] = d[1 + i - 1]
    BY ONLY <2>1, <2>2, 1 \in Int, n \in Int, SubSeqProperties
  <2>4. Len(p) = n /\ \A i \in 1 .. n : p[i] = b[i]
    BY <1>2, <2>3
  <2>5. p = b
    BY ONLY <1>1, <2>3, <2>4, SeqEqual
  <2> QED
    BY <1>2, <2>1, <2>2, <2>5 DEF Parents
<1>5. Last(d) = f
  BY <1>2 DEF Last
<1>6. DOMAIN d = 1 .. n + 1
  BY <1>2
<1> QED
  BY <1>1, <1>2, <1>3, <1>4, <1>5, <1>6

(* Every chain is one.                                                     *)
LEMMA ChainIs ==
  ASSUME NEW S, NEW N \in Nat, NEW c, c \in Chains(S, N), Len(c) # 0
  PROVE  \E b, f : /\ b \in Chains(S, N) /\ f \in Frames(S, N) /\ (Len(b) > 0 => f.node # 0)
                   /\ c = Append(b, f) /\ Len(c) = Len(b) + 1 /\ Len(b) \in Nat
<1>0. PICK n \in Nat : n = Len(c)
  BY DEF Chains
<1>1. PICK Q : Q = Frames(S, N) /\ n = Len(c) /\ c \in Seq(Q) /\ n # 0
  BY <1>0 DEF Chains
<1>2. c # << >>
  BY <1>1
<1>3. PICK b \in Seq(Q), f \in Q : c = Append(b, f)
  BY ONLY <1>1, <1>2, SequenceEmptyOrAppend
<1>4. PICK m \in Nat : m = Len(b)
  OBVIOUS
<1>5. n = m + 1 /\ c[m + 1] = f /\ \A j \in 1 .. m : c[j] = b[j]
  BY ONLY <1>1, <1>3, <1>4, AppendProperties
<1>6. \A j \in 2 .. n : c[j].node # 0
  BY <1>1 DEF Chains
<1>7. \A j \in 2 .. m : b[j].node # 0
  <2>1. \A j \in 2 .. m : j \in 2 .. n /\ j \in 1 .. m
    BY <1>5
  <2> QED
    BY <1>5, <1>6, <2>1
<1>8. m > 0 => f.node # 0
  <2>1. m > 0 => m + 1 \in 2 .. n
    BY <1>5
  <2> QED
    BY <1>5, <1>6, <2>1
<1> QED
  BY <1>1, <1>3, <1>4, <1>5, <1>7, <1>8 DEF Chains

(* The largest of some bounded numbers.                                    *)
LEMMA MaxIsLargest ==
  ASSUME NEW n \in Nat, NEW T, T \subseteq 0 .. n, T # {}
  PROVE  Max(T) \in T /\ \A y \in T : Max(T) >= y
<1> DEFINE D == {d \in Nat : n - d \in T}
<1>1. D \subseteq Nat /\ D # {}
  <2>1. PICK k \in T : TRUE
    OBVIOUS
  <2>2. n - k \in Nat /\ n - (n - k) = k
    OBVIOUS
  <2> QED
    BY <2>2
<1>2. PICK d \in D : \A c \in D : ~ (<<c, d>> \in OpToRel(<, Nat))
  BY <1>1, WFMin, NatLessThanWellFounded
<1>3. PICK k \in T : k = n - d
  OBVIOUS
<1>4. \A l \in T : k >= l
  <2> SUFFICES ASSUME NEW l \in T, ~ (k >= l)
               PROVE  FALSE
    OBVIOUS
  <2>1. n - l \in D /\ n - l \in Nat /\ d \in Nat /\ n - l < d
    BY <1>3
  <2>2. <<n - l, d>> \in OpToRel(<, Nat)
    BY <2>1 DEF OpToRel
  <2> QED
    BY <1>2, <2>1, <2>2
<1> QED
  BY <1>4 DEF Max

(* And nothing else is the largest.                                        *)
LEMMA MaxIs ==
  ASSUME NEW n, n \in Nat, NEW T, T \subseteq 0 .. n, NEW x, x \in T, \A y \in T : x >= y
  PROVE  Max(T) = x
<1>1. Max(T) \in T /\ \A y \in T : Max(T) >= y
  BY MaxIsLargest
<1>2. PICK m : m = Max(T)
  OBVIOUS
<1>3. m \in T /\ m >= x /\ x >= m
  BY <1>1, <1>2
<1>4. m \in 0 .. n /\ x \in 0 .. n
  BY <1>3
<1>5. m = x
  BY ONLY <1>3, <1>4, n \in Nat
<1> QED
  BY <1>2, <1>5

Dry(c, j) == \A i \in 1 .. j : c[i].positive = << >>

(* Nothing follows nothing.                                                *)
LEMMA EmptyCat ==
  ASSUME NEW S, NEW s, NEW t, s \in Seq(S), t \in Seq(S)
  PROVE  (Len(Cat(s, t)) = 0) <=> (Len(s) = 0 /\ t = << >>)
<1>0. Len(s) \in Nat /\ Len(t) \in Nat
  OBVIOUS
<1>1. Len(Cat(s, t)) = Len(s) + Len(t) /\ Len(s) \in Nat /\ Len(t) \in Nat
  BY ONLY <1>0, s \in Seq(S), t \in Seq(S), CatSeq
<1>2. Len(t) = 0 <=> t = << >>
  OBVIOUS
<1> QED
  BY <1>1, <1>2

(* A chain without values is one on which no stack has pushed any.         *)
LEMMA DrySize ==
  ASSUME NEW S, NEW N \in Nat, NEW c, c \in Chains(S, N)
  PROVE  (Size(c) = 0) <=> Dry(c, Len(c))
<1> DEFINE T == {n \in Nat : \A x \in Chains(S, N) : Len(x) = n => ((Size(x) = 0) <=> Dry(x, n))}
<1>1. 0 \in T
  <2> SUFFICES ASSUME NEW x \in Chains(S, N), Len(x) = 0
               PROVE  Size(x) = 0 /\ Dry(x, 0)
    OBVIOUS
  <2>1. x = << >>
    BY DEF Chains
  <2> QED
    BY <2>1, FlatNothing DEF Dry
<1>2. ASSUME NEW n \in Nat, n \in T
      PROVE  n + 1 \in T
  <2> SUFFICES ASSUME NEW x \in Chains(S, N), Len(x) = n + 1
               PROVE  (Size(x) = 0) <=> Dry(x, n + 1)
    OBVIOUS
  <2>1. PICK b, f : /\ b \in Chains(S, N) /\ f \in Frames(S, N) /\ (Len(b) > 0 => f.node # 0)
                    /\ x = Append(b, f) /\ Len(x) = Len(b) + 1 /\ Len(b) \in Nat
    <3>1. N \in Nat /\ x \in Chains(S, N) /\ Len(x) # 0
      OBVIOUS
    <3> QED
      BY ONLY <3>1, ChainIs
  <2>2. Len(b) = n
    BY <2>1
  <2>3. /\ Flat(b) \in Seq(S) /\ Flat(x) = Cat(Flat(b), f.positive) /\ Size(b) = Len(Flat(b))
    BY <2>1, FlatAppend
  <2>4. f.positive \in Seq(S)
    BY <2>1 DEF Frames
  <2>5. Size(x) = 0 <=> (Size(b) = 0 /\ f.positive = << >>)
    <3>1. Size(x) = Len(Cat(Flat(b), f.positive))
      BY <2>3 DEF Size
    <3> QED
      BY <2>3, <2>4, <3>1, EmptyCat
  <2>6. x[n + 1] = f /\ \A j \in 1 .. n : x[j] = b[j]
    BY <2>1, <2>2, ChainOf
  <2>7. Dry(x, n + 1) <=> (Dry(b, n) /\ f.positive = << >>)
    <3>1. \A j \in 1 .. n + 1 : j = n + 1 \/ j \in 1 .. n
      OBVIOUS
    <3>2. n + 1 \in 1 .. n + 1 /\ \A j \in 1 .. n : j \in 1 .. n + 1
      OBVIOUS
    <3> QED
      BY <2>6, <3>1, <3>2 DEF Dry
  <2>8. Size(b) = 0 <=> Dry(b, n)
    BY <1>2, <2>1, <2>2
  <2> QED
    BY <2>5, <2>7, <2>8
<1>3. \A n \in Nat : n \in T
  <2> HIDE DEF T
  <2> QED
    BY ONLY <1>1, <1>2, Induction
<1>4. Len(c) \in Nat
  BY DEF Chains
<1> QED
  BY <1>3, <1>4

(* The stack that supplies a value is the innermost that has one.          *)
LEMMA SupplierThere ==
  ASSUME NEW S, NEW N \in Nat, NEW c, c \in Chains(S, N), Size(c) # 0
  PROVE  /\ Supplier(c) \in 1 .. Len(c) /\ c[Supplier(c)].positive # << >>
         /\ \A j \in 1 .. Len(c) : c[j].positive # << >> => Supplier(c) >= j
<1>1. PICK n \in Nat : n = Len(c) /\ DOMAIN c = 1 .. n
  BY DEF Chains
<1>2. ~ Dry(c, n)
  BY <1>1, DrySize
<1> DEFINE T == {j \in DOMAIN c : c[j].positive # << >>}
<1>3. T \subseteq 0 .. n /\ T # {}
  BY <1>1, <1>2 DEF Dry
<1>4. Max(T) \in T /\ \A y \in T : Max(T) >= y
  <2> HIDE DEF T
  <2> QED
    BY <1>3, MaxIsLargest
<1> QED
  BY <1>1, <1>4 DEF Supplier

(* It is the innermost one, or that of the parents.                        *)
LEMMA SupplierOf ==
  ASSUME NEW S, NEW N \in Nat, NEW b, NEW f, b \in Chains(S, N), f \in Frames(S, N),
         Len(b) > 0 => f.node # 0
  PROVE  /\ f.positive # << >> => Supplier(Append(b, f)) = Len(b) + 1
         /\ f.positive = << >> /\ Size(b) # 0 => Supplier(Append(b, f)) = Supplier(b)
<1>2. PICK n \in Nat : n = Len(b)
  BY DEF Chains
<1>3. PICK c : c = Append(b, f)
  OBVIOUS
<1>4. /\ c \in Chains(S, N) /\ DOMAIN c = 1 .. n + 1 /\ Len(c) = n + 1
      /\ c[n + 1] = f /\ \A j \in 1 .. n : c[j] = b[j]
  BY <1>2, <1>3, ChainOf
<1> DEFINE T == {j \in DOMAIN c : c[j].positive # << >>}
<1>5. T \subseteq 0 .. n + 1
  BY <1>4
<1>6. ASSUME f.positive # << >>
      PROVE  Max(T) = n + 1
  <2>1. n + 1 \in T /\ (\A y \in T : n + 1 >= y) /\ n + 1 \in Nat
    BY <1>4, <1>6
  <2> HIDE DEF T
  <2> QED
    BY ONLY <1>5, <2>1, MaxIs
<1>7. ASSUME f.positive = << >>, Size(b) # 0
      PROVE  Max(T) = Supplier(b)
  <2>1. /\ Supplier(b) \in 1 .. n /\ b[Supplier(b)].positive # << >>
        /\ \A j \in 1 .. n : b[j].positive # << >> => Supplier(b) >= j
    BY <1>2, <1>7, SupplierThere
  <2>2. Supplier(b) \in T
    BY <1>4, <2>1
  <2>3. \A j \in 1 .. n + 1 : j = n + 1 \/ j \in 1 .. n
    OBVIOUS
  <2>4. \A y \in T : Supplier(b) >= y
    BY <1>4, <1>7, <2>1, <2>3
  <2>5. n + 1 \in Nat
    OBVIOUS
  <2> HIDE DEF T
  <2> QED
    BY ONLY <1>5, <2>2, <2>4, <2>5, MaxIs
<1> QED
  BY <1>2, <1>3, <1>6, <1>7 DEF Supplier

(* A sequence, and what it is without its last element.                    *)
LEMMA FrontOf ==
  ASSUME NEW S, NEW s, s \in Seq(S), s # << >>
  PROVE  /\ Front(s) \in Seq(S) /\ Last(s) \in S /\ Len(s) \in Nat /\ Len(s) >= 1
         /\ Len(Front(s)) = Len(s) - 1 /\ Last(s) = s[Len(s)]
         /\ \A i \in 1 .. Len(s) - 1 : Front(s)[i] = s[i]
<1>1. PICK n \in Nat : n = Len(s) - 1 /\ Len(s) = n + 1
  <2>1. Len(s) \in Nat \ {0}
    BY EmptySeq
  <2>2. PICK l \in Nat \ {0} : l = Len(s)
    BY <2>1
  <2>3. l - 1 \in Nat /\ l = l - 1 + 1
    OBVIOUS
  <2> QED
    BY <2>2, <2>3
<1>2. \A i \in 1 .. n + 1 : s[i] \in S
  BY <1>1
<1>3. PICK f : f = SubSeq(s, 1, n)
  OBVIOUS
<1>4. /\ f \in Seq(S) /\ Len(f) = IF 1 <= n THEN n - 1 + 1 ELSE 0
      /\ \A i \in 1 .. n - 1 + 1 : f[i] = s[1 + i - 1]
  <2>1. \A i \in 1 .. n : s[i] \in S
    BY <1>2
  <2>2. 1 \in Int /\ n \in Int
    OBVIOUS
  <2> QED
    BY ONLY <1>3, <2>1, <2>2, SubSeqProperties
<1>5. Len(f) = n /\ \A i \in 1 .. n : f[i] = s[i]
  BY <1>4
<1>6. Front(s) = f
  BY <1>1, <1>3 DEF Front
<1>7. Last(s) = s[n + 1] /\ s[n + 1] \in S
  BY <1>1, <1>2 DEF Last
<1> QED
  BY <1>1, <1>4, <1>5, <1>6, <1>7

(* What is behind another one.                                             *)
LEMMA CatOf ==
  ASSUME NEW S, NEW s, NEW t, s \in Seq(S), t \in Seq(S)
  PROVE  /\ Cat(s, t) \in Seq(S) /\ Len(s) \in Nat /\ Len(t) \in Nat
         /\ Len(Cat(s, t)) = Len(s) + Len(t)
         /\ \A i \in 1 .. Len(s) : Cat(s, t)[i] = s[i]
         /\ \A i \in 1 .. Len(t) : Cat(s, t)[Len(s) + i] = t[i]
<1>1. PICK m, n : m = Len(s) /\ n = Len(t)
  OBVIOUS
<1>2. m \in Nat /\ n \in Nat
  BY <1>1
<1>3. PICK c : c = s \o t
  OBVIOUS
<1>4. /\ c \in Seq(S) /\ Len(c) = m + n
      /\ \A i \in 1 .. m + n : c[i] = IF i <= m THEN s[i] ELSE t[i - m]
  BY ONLY <1>1, <1>3, s \in Seq(S), t \in Seq(S), ConcatProperties
<1>5. \A i \in 1 .. m : c[i] = s[i]
  BY <1>2, <1>4
<1>6. \A i \in 1 .. n : c[m + i] = t[i]
  <2> SUFFICES ASSUME NEW i \in 1 .. n
               PROVE  c[m + i] = t[i]
    OBVIOUS
  <2>1. PICK k : k = m + i
    OBVIOUS
  <2>2. k \in 1 .. m + n /\ ~(k <= m) /\ k - m = i
    BY <1>2, <2>1
  <2>3. c[k] = t[k - m]
    BY ONLY <1>4, <2>2
  <2> QED
    BY <2>1, <2>2, <2>3
<1> QED
  BY <1>1, <1>2, <1>3, <1>4, <1>5, <1>6 DEF Cat

(* The end of two sequences is that of the second.                         *)
LEMMA CatFront ==
  ASSUME NEW S, NEW s, NEW t, s \in Seq(S), t \in Seq(S), t # << >>
  PROVE  /\ Cat(s, t) # << >> /\ Front(Cat(s, t)) = Cat(s, Front(t)) /\ Last(Cat(s, t)) = Last(t)
<1>1. PICK m, n \in Nat : m = Len(s) /\ n = Len(t) - 1 /\ Len(t) = n + 1
  <2>1. Len(s) \in Nat /\ Len(t) \in Nat \ {0}
    BY EmptySeq
  <2>2. PICK l \in Nat \ {0} : l = Len(t)
    BY <2>1
  <2>3. l - 1 \in Nat /\ l = l - 1 + 1
    OBVIOUS
  <2> QED
    BY <2>1, <2>2, <2>3
<1>2. PICK c : c = Cat(s, t)
  OBVIOUS
<1>3. /\ c \in Seq(S) /\ Len(c) = m + (n + 1) /\ (\A i \in 1 .. m : c[i] = s[i])
      /\ \A i \in 1 .. n + 1 : c[m + i] = t[i]
  BY ONLY <1>1, <1>2, s \in Seq(S), t \in Seq(S), CatOf
<1>4. c # << >>
  BY <1>3
<1>5. PICK f, g : f = Front(c) /\ g = Front(t)
  OBVIOUS
<1>6. /\ f \in Seq(S) /\ Len(f) = m + (n + 1) - 1 /\ Last(c) = c[m + (n + 1)]
      /\ \A i \in 1 .. m + (n + 1) - 1 : f[i] = c[i]
  BY ONLY <1>3, <1>4, <1>5, FrontOf
<1>7. /\ g \in Seq(S) /\ Len(g) = n + 1 - 1 /\ Last(t) = t[n + 1]
      /\ \A i \in 1 .. n + 1 - 1 : g[i] = t[i]
  BY ONLY <1>1, <1>5, t \in Seq(S), t # << >>, FrontOf
<1>8. PICK d : d = Cat(s, g)
  OBVIOUS
<1>9. n + 1 - 1 = n /\ m + (n + 1) - 1 = m + n
  OBVIOUS
<1>10. /\ d \in Seq(S) /\ Len(d) = m + n /\ (\A i \in 1 .. m : d[i] = s[i])
       /\ \A i \in 1 .. n : d[m + i] = g[i]
  <2>0. g \in Seq(S)
    BY <1>7
  <2>1. Len(g) = n /\ Len(s) = m
    BY <1>1, <1>7, <1>9
  <2>2. /\ d \in Seq(S) /\ Len(d) = Len(s) + Len(g) /\ (\A i \in 1 .. Len(s) : d[i] = s[i])
        /\ \A i \in 1 .. Len(g) : d[Len(s) + i] = g[i]
    BY ONLY <1>8, <2>0, s \in Seq(S), CatOf
  <2> QED
    BY <2>1, <2>2
<1>11. \A i \in 1 .. m + n : f[i] = d[i]
  <2> SUFFICES ASSUME NEW i \in 1 .. m + n
               PROVE  f[i] = d[i]
    OBVIOUS
  <2>1. f[i] = c[i]
    BY <1>6, <1>9
  <2>2. CASE i <= m
    <3>1. i \in 1 .. m
      BY <2>2
    <3> QED
      BY <1>3, <1>10, <2>1, <3>1
  <2>3. CASE ~(i <= m)
    <3>1. PICK k \in 1 .. n : i = m + k
      <4>1. i - m \in 1 .. n /\ i = m + (i - m)
        BY <2>3
      <4> QED
        BY <4>1
    <3>2. k \in 1 .. n + 1
      OBVIOUS
    <3>3. c[m + k] = t[k] /\ d[m + k] = g[k] /\ g[k] = t[k]
      BY <1>3, <1>7, <1>9, <1>10, <3>1, <3>2
    <3> QED
      BY <2>1, <3>1, <3>3
  <2> QED
    BY <2>2, <2>3
<1>12. f = d
  <2>1. Len(f) = m + n
    BY <1>6, <1>9
  <2> QED
    BY ONLY <1>6, <1>10, <1>11, <2>1, SeqEqual
<1>13. Last(c) = Last(t)
  <2>1. n + 1 \in 1 .. n + 1
    OBVIOUS
  <2> QED
    BY <1>3, <1>6, <1>7, <2>1
<1> QED
  BY <1>2, <1>4, <1>5, <1>8, <1>12, <1>13

(* A demand that the innermost stack answers, and one that it hands on.    *)
Less(f) == [f EXCEPT !.positive = Front(f.positive)]
Demanded(f, s) == [f EXCEPT !.negative = Append(f.negative, s)]

Refs(S, N) == \A n \in 1 .. N, d \in Nat : FromNode(n, d) \in S

(* The innermost stack answers.                                            *)
LEMMA LessIs ==
  ASSUME NEW S, NEW N, NEW f, f \in Frames(S, N), f.positive # << >>
  PROVE  /\ Less(f) \in Frames(S, N) /\ Less(f).positive = Front(f.positive)
         /\ Less(f).negative = f.negative /\ Less(f).node = f.node
<1>1. f.positive \in Seq(S)
  BY DEF Frames
<1>2. Front(f.positive) \in Seq(S)
  BY <1>1, FrontOf
<1> QED
  BY <1>2 DEF Less, Frames

(* It hands the demand on.                                                 *)
LEMMA DemandedIs ==
  ASSUME NEW S, NEW N, NEW f, f \in Frames(S, N), NEW s, s \in S
  PROVE  /\ Demanded(f, s) \in Frames(S, N) /\ Demanded(f, s).positive = f.positive
         /\ Demanded(f, s).negative = Append(f.negative, s) /\ Demanded(f, s).node = f.node
<1>1. f.negative \in Seq(S)
  BY DEF Frames
<1>2. PICK q : q = Append(f.negative, s)
  OBVIOUS
<1>3. q \in Seq(S)
  BY ONLY <1>1, <1>2, s \in S, AppendProperties
<1> QED
  BY <1>2, <1>3 DEF Demanded, Frames

(* What it hands out: its own last value, or a parameter of its node.      *)
LEMMA HandedBy ==
  ASSUME NEW S, NEW N, N \in Nat, NEW b, NEW f, b \in Chains(S, N), f \in Frames(S, N),
         Len(b) > 0 => f.node # 0, Size(Append(b, f)) # 0
  PROVE  /\ f.positive # << >> => Handed(Append(b, f), Len(Append(b, f))) = Last(f.positive)
         /\ f.positive = << >> =>
              Handed(Append(b, f), Len(Append(b, f))) = FromNode(f.node, Len(f.negative))
         /\ f.positive = << >> => Size(b) # 0 /\ Len(b) > 0 /\ Flat(Append(b, f)) = Flat(b)
<1>1. PICK n \in Nat : n = Len(b)
  BY DEF Chains
<1>2. PICK c : c = Append(b, f)
  OBVIOUS
<1>3. Len(c) = n + 1 /\ c[n + 1] = f /\ c \in Chains(S, N)
  BY <1>1, <1>2, ChainOf
<1>4. ASSUME f.positive = << >>
      PROVE  Size(b) # 0 /\ n > 0 /\ Flat(c) = Flat(b)
  <2>0. Flat(b) \in Seq(S) /\ Flat(c) = Cat(Flat(b), f.positive) /\ Size(b) = Len(Flat(b))
    BY <1>2, FlatAppend
  <2>1. Cat(Flat(b), << >>) = Flat(b)
    BY <2>0 DEF Cat
  <2>2. Flat(c) = Flat(b) /\ Size(b) # 0
    BY <1>2, <1>4, <2>0, <2>1 DEF Size
  <2>3. n # 0
    <3> SUFFICES ASSUME n = 0
                 PROVE  FALSE
      OBVIOUS
    <3>1. b = << >>
      BY <1>1 DEF Chains
    <3> QED
      BY <2>2, <3>1, FlatNothing
  <2> QED
    BY <2>2, <2>3
<1>5. f.positive # << >> => Supplier(c) = n + 1
  BY <1>1, <1>2, SupplierOf
<1>6. f.positive = << >> => Supplier(c) # n + 1
  <2> SUFFICES ASSUME f.positive = << >>
               PROVE  Supplier(c) # n + 1
    OBVIOUS
  <2>1. Supplier(c) = Supplier(b) /\ Supplier(b) \in 1 .. n
    BY <1>1, <1>2, <1>4, SupplierOf, SupplierThere
  <2> QED
    BY <2>1
<1> QED
  BY <1>1, <1>2, <1>3, <1>4, <1>5, <1>6 DEF Handed

(* Taking a value from a chain is one of the two.                          *)
LEMMA PoppedOf ==
  ASSUME NEW S, NEW N, N \in Nat, NEW b, NEW f, b \in Chains(S, N), f \in Frames(S, N),
         Len(b) > 0 => f.node # 0, Size(Append(b, f)) # 0
  PROVE  /\ f.positive # << >> => Popped(Append(b, f)) = Append(b, Less(f))
         /\ f.positive = << >> /\ Popped(b) \in Chains(S, N) /\ Len(Popped(b)) = Len(b)
              /\ Handed(b, Len(b)) \in S
              => Popped(Append(b, f)) = Append(Popped(b), Demanded(f, Handed(b, Len(b))))
<1>1. PICK n \in Nat : n = Len(b)
  BY DEF Chains
<1>2. PICK c : c = Append(b, f)
  OBVIOUS
<1>3. /\ DOMAIN c = 1 .. n + 1 /\ Len(c) = n + 1 /\ c[n + 1] = f /\ c \in Chains(S, N)
      /\ \A j \in 1 .. n : c[j] = b[j]
  BY <1>1, <1>2, ChainOf
<1>3a. DOMAIN b = 1 .. n
  BY <1>1 DEF Chains
<1>4. \A j \in 1 .. n + 1 : j = n + 1 \/ j \in 1 .. n
  OBVIOUS
<1>5. ASSUME f.positive # << >>
      PROVE  Popped(c) = Append(b, Less(f))
  <2>1. Supplier(c) = n + 1
    BY <1>1, <1>2, <1>5, SupplierOf
  <2>2. PICK d : d = Append(b, Less(f))
    OBVIOUS
  <2>3. Less(f) \in Frames(S, N) /\ Less(f).node = f.node
    BY <1>5, LessIs
  <2>4. /\ DOMAIN d = 1 .. n + 1 /\ d[n + 1] = Less(f) /\ d \in Chains(S, N)
        /\ \A j \in 1 .. n : d[j] = b[j]
    BY <1>1, <2>2, <2>3, ChainOf
  <2>5. d = [j \in 1 .. n + 1 |-> d[j]]
    BY <2>4 DEF Chains
  <2>6. Popped(c) = [j \in 1 .. n + 1 |->
          IF j < n + 1 THEN c[j]
          ELSE IF j = n + 1 THEN [c[j] EXCEPT !.positive = Front(@)]
          ELSE [c[j] EXCEPT !.negative = Append(@, Handed(c, j - 1))]]
    BY <1>3, <2>1 DEF Popped
  <2>7. \A j \in 1 .. n : d[j] = c[j] /\ j < n + 1
    BY <1>3, <2>4
  <2>8. d[n + 1] = [c[n + 1] EXCEPT !.positive = Front(@)]
    BY <1>3, <2>4 DEF Less
  <2>9. ASSUME NEW j \in 1 .. n + 1
        PROVE  d[j] = IF j < n + 1 THEN c[j]
                      ELSE IF j = n + 1 THEN [c[j] EXCEPT !.positive = Front(@)]
                      ELSE [c[j] EXCEPT !.negative = Append(@, Handed(c, j - 1))]
    <3>1. CASE j = n + 1
      BY <2>8, <3>1
    <3>2. CASE j \in 1 .. n
      BY <2>7, <3>2
    <3> QED
      BY <1>4, <3>1, <3>2
  <2>10. Popped(c) = d
    BY ONLY <2>5, <2>6, <2>9
  <2> QED
    BY <2>2, <2>10
<1>6. ASSUME f.positive = << >>, Popped(b) \in Chains(S, N), Len(Popped(b)) = n,
             Handed(b, n) \in S
      PROVE  Popped(c) = Append(Popped(b), Demanded(f, Handed(b, n)))
  <2>0. Size(b) # 0 /\ n > 0
    BY <1>1, <1>2, <1>6, HandedBy
  <2>1. PICK k : k = Supplier(b)
    OBVIOUS
  <2>2. Supplier(c) = k /\ k \in 1 .. n
    BY <1>1, <1>2, <1>6, <2>0, <2>1, SupplierOf, SupplierThere
  <2>3. PICK p, g : p = Popped(b) /\ g = Demanded(f, Handed(b, n))
    OBVIOUS
  <2>4. g \in Frames(S, N) /\ g.node = f.node
    BY <1>6, <2>3, DemandedIs
  <2>5. PICK d : d = Append(p, g)
    OBVIOUS
  <2>6. p \in Chains(S, N) /\ Len(p) = n /\ (Len(p) > 0 => g.node # 0)
    BY <1>1, <1>6, <2>3, <2>4
  <2>7. /\ DOMAIN d = 1 .. n + 1 /\ d[n + 1] = g /\ d \in Chains(S, N)
        /\ \A j \in 1 .. n : d[j] = p[j]
    <3>1. /\ DOMAIN d = 1 .. Len(p) + 1 /\ d[Len(p) + 1] = g /\ d \in Chains(S, N)
          /\ \A j \in 1 .. Len(p) : d[j] = p[j]
      BY ONLY N \in Nat, <2>4, <2>5, <2>6, ChainOf
    <3> QED
      BY <2>6, <3>1
  <2>8. d = [j \in 1 .. n + 1 |-> d[j]]
    BY <2>7 DEF Chains
  <2>9. ASSUME NEW j \in 1 .. n
        PROVE  Handed(c, j) = Handed(b, j)
    BY <1>3, <2>1, <2>2 DEF Handed
  <2>10. ASSUME NEW j \in 1 .. n
         PROVE  p[j] = IF j < k THEN c[j]
                       ELSE IF j = k THEN [c[j] EXCEPT !.positive = Front(@)]
                       ELSE [c[j] EXCEPT !.negative = Append(@, Handed(c, j - 1))]
    <3>1. p[j] = IF j < k THEN b[j]
                 ELSE IF j = k THEN [b[j] EXCEPT !.positive = Front(@)]
                 ELSE [b[j] EXCEPT !.negative = Append(@, Handed(b, j - 1))]
      BY <1>3a, <2>1, <2>3 DEF Popped
    <3>2. c[j] = b[j]
      BY <1>3
    <3>3. ~(j < k) /\ j # k => Handed(c, j - 1) = Handed(b, j - 1)
      <4>1. ~(j < k) /\ j # k => j - 1 \in 1 .. n
        BY <2>2
      <4> QED
        BY <2>9, <4>1
    <3> QED
      BY <3>1, <3>2, <3>3
  <2>11. g = [c[n + 1] EXCEPT !.negative = Append(@, Handed(c, n + 1 - 1))]
    <3>1. Handed(c, n) = Handed(b, n) /\ n + 1 - 1 = n
      BY <2>0, <2>9
    <3> QED
      BY <1>3, <2>3, <3>1 DEF Demanded
  <2>12. Popped(c) = [j \in 1 .. n + 1 |->
           IF j < k THEN c[j]
           ELSE IF j = k THEN [c[j] EXCEPT !.positive = Front(@)]
           ELSE [c[j] EXCEPT !.negative = Append(@, Handed(c, j - 1))]]
    BY <1>3, <2>2 DEF Popped
  <2>13. ~(n + 1 < k) /\ n + 1 # k
    BY <2>2
  <2>14. ASSUME NEW j \in 1 .. n + 1
         PROVE  d[j] = IF j < k THEN c[j]
                       ELSE IF j = k THEN [c[j] EXCEPT !.positive = Front(@)]
                       ELSE [c[j] EXCEPT !.negative = Append(@, Handed(c, j - 1))]
    <3>1. CASE j = n + 1
      <4>1. d[j] = g /\ c[j] = c[n + 1] /\ j - 1 = n + 1 - 1 /\ ~(j < k) /\ j # k
        BY <2>7, <2>13, <3>1
      <4>2. g = [c[j] EXCEPT !.negative = Append(@, Handed(c, j - 1))]
        BY ONLY <2>11, <4>1
      <4> QED
        BY ONLY <4>1, <4>2
    <3>2. CASE j \in 1 .. n
      BY <2>7, <2>10, <3>2
    <3> QED
      BY <1>4, <3>1, <3>2
  <2>15. Popped(c) = d
    BY ONLY <2>8, <2>12, <2>14
  <2> QED
    BY <2>3, <2>5, <2>15
<1> QED
  BY <1>1, <1>2, <1>5, <1>6

(* What is left of a chain of which a value was taken.                     *)
PopsOne(S, N, c) ==
  /\ Popped(c) \in Chains(S, N) /\ Len(Popped(c)) = Len(c) /\ Handed(c, Len(c)) \in S
  /\ Flat(c) # << >> /\ Flat(Popped(c)) = Front(Flat(c))
  /\ \A j \in 0 .. Len(c) : Dry(c, j) => Dry(Popped(c), j)

(* Where nothing was pushed does not depend on what is further in.         *)
LEMMA DryAppend ==
  ASSUME NEW S, NEW N, N \in Nat, NEW b, NEW f, b \in Chains(S, N), f \in Frames(S, N),
         Len(b) > 0 => f.node # 0, NEW j, j \in 0 .. Len(b)
  PROVE  Dry(Append(b, f), j) <=> Dry(b, j)
<1>1. PICK n \in Nat : n = Len(b)
  BY DEF Chains
<1>2. \A i \in 1 .. n : Append(b, f)[i] = b[i]
  BY <1>1, ChainOf
<1>3. \A i \in 1 .. j : i \in 1 .. n
  BY <1>1
<1> QED
  BY <1>2, <1>3 DEF Dry

(* A value is taken, and nothing else changes on the stack.                *)
LEMMA PoppedIs ==
  ASSUME NEW S, NEW N, N \in Nat, Refs(S, N), NEW c, c \in Chains(S, N), Size(c) # 0
  PROVE  PopsOne(S, N, c)
<1> DEFINE T == {n \in Nat : \A x \in Chains(S, N) :
                               Len(x) = n /\ Size(x) # 0 => PopsOne(S, N, x)}
<1>1. 0 \in T
  <2> SUFFICES ASSUME NEW x \in Chains(S, N), Len(x) = 0, Size(x) # 0
               PROVE  FALSE
    OBVIOUS
  <2>1. x = << >>
    BY DEF Chains
  <2> QED
    BY <2>1, FlatNothing
<1>2. ASSUME NEW n \in Nat, n \in T
      PROVE  n + 1 \in T
  <2> SUFFICES ASSUME NEW x \in Chains(S, N), Len(x) = n + 1, Size(x) # 0
               PROVE  PopsOne(S, N, x)
    OBVIOUS
  <2>1. PICK b, f : /\ b \in Chains(S, N) /\ f \in Frames(S, N) /\ (Len(b) > 0 => f.node # 0)
                    /\ x = Append(b, f) /\ Len(x) = Len(b) + 1 /\ Len(b) \in Nat
    <3>1. N \in Nat /\ x \in Chains(S, N) /\ Len(x) # 0
      OBVIOUS
    <3> QED
      BY ONLY <3>1, ChainIs
  <2>2. Len(b) = n
    BY <2>1
  <2>3. /\ Flat(b) \in Seq(S) /\ Flat(x) = Cat(Flat(b), f.positive) /\ Size(b) = Len(Flat(b))
    BY <2>1, FlatAppend
  <2>4. f.positive \in Seq(S)
    BY <2>1 DEF Frames
  <2>5. CASE f.positive # << >>
    <3>1. Popped(x) = Append(b, Less(f)) /\ Handed(x, Len(x)) = Last(f.positive)
      BY <2>1, <2>5, PoppedOf, HandedBy
    <3>2. Less(f) \in Frames(S, N) /\ Less(f).positive = Front(f.positive) /\ Less(f).node = f.node
      BY <2>1, <2>5, LessIs
    <3>3. Append(b, Less(f)) \in Chains(S, N) /\ Len(Append(b, Less(f))) = n + 1
      BY <2>1, <2>2, <3>2, ChainOf
    <3>4. Flat(Append(b, Less(f))) = Cat(Flat(b), Front(f.positive))
      BY <2>1, <3>2, FlatAppend
    <3>5. Flat(x) # << >> /\ Front(Flat(x)) = Cat(Flat(b), Front(f.positive))
      BY ONLY <2>3, <2>4, <2>5, CatFront
    <3>6. Last(f.positive) \in S
      BY ONLY <2>4, <2>5, FrontOf
    <3>7. ASSUME NEW j \in 0 .. n + 1, Dry(x, j)
          PROVE  Dry(Popped(x), j)
      <4>1. j \in 0 .. n
        <5>1. j # n + 1
          BY <3>7, DrySize
        <5> QED
          BY <5>1
      <4>2. Dry(b, j)
        BY <2>1, <2>2, <3>7, <4>1, DryAppend
      <4> QED
        BY <2>1, <2>2, <3>1, <3>2, <4>1, <4>2, DryAppend
    <3> QED
      BY <2>1, <2>2, <3>1, <3>3, <3>4, <3>5, <3>6, <3>7 DEF PopsOne
  <2>6. CASE f.positive = << >>
    <3>1. /\ Size(b) # 0 /\ Len(b) > 0 /\ Flat(x) = Flat(b)
          /\ Handed(x, Len(x)) = FromNode(f.node, Len(f.negative))
      BY <2>1, <2>6, HandedBy
    <3>2. PopsOne(S, N, b)
      BY <1>2, <2>1, <2>2, <3>1
    <3>3. PICK s, p : s = Handed(b, Len(b)) /\ p = Popped(b)
      OBVIOUS
    <3>4. s \in S /\ p \in Chains(S, N) /\ Len(p) = n
      BY <2>2, <3>2, <3>3 DEF PopsOne
    <3>5. PICK g : g = Demanded(f, s)
      OBVIOUS
    <3>6. Popped(x) = Append(p, g)
      BY <2>1, <2>6, <3>2, <3>3, <3>5, PoppedOf DEF PopsOne
    <3>7. g \in Frames(S, N) /\ g.positive = << >> /\ g.node = f.node /\ (Len(p) > 0 => g.node # 0)
      BY <2>1, <2>2, <2>6, <3>4, <3>5, DemandedIs
    <3>8. Append(p, g) \in Chains(S, N) /\ Len(Append(p, g)) = n + 1
      BY <3>4, <3>7, ChainOf
    <3>9. Flat(Append(p, g)) = Flat(p)
      <4>1. Flat(p) \in Seq(S) /\ Flat(Append(p, g)) = Cat(Flat(p), g.positive)
        BY <3>4, <3>7, FlatAppend
      <4>2. Cat(Flat(p), << >>) = Flat(p)
        BY <4>1 DEF Cat
      <4> QED
        BY <3>7, <4>1, <4>2
    <3>10. FromNode(f.node, Len(f.negative)) \in S
      <4>1. f.node \in 0 .. N /\ f.negative \in Seq(S)
        BY <2>1 DEF Frames
      <4>2. f.node \in 1 .. N /\ Len(f.negative) \in Nat
        BY <2>1, <3>1, <4>1
      <4> QED
        BY <4>2 DEF Refs
    <3>11. ASSUME NEW j \in 0 .. n + 1, Dry(x, j)
           PROVE  Dry(Popped(x), j)
      <4>1. j \in 0 .. n
        <5>1. j # n + 1
          BY <3>11, DrySize
        <5> QED
          BY <5>1
      <4>2. Dry(b, j)
        BY <2>1, <2>2, <3>11, <4>1, DryAppend
      <4>3. Dry(p, j)
        BY <2>2, <3>2, <3>3, <4>1, <4>2 DEF PopsOne
      <4>4. j \in 0 .. Len(p)
        BY <3>4, <4>1
      <4> QED
        BY <3>4, <3>6, <3>7, <4>3, <4>4, DryAppend
    <3>12. Flat(b) # << >> /\ Flat(p) = Front(Flat(b))
      BY <3>2, <3>3 DEF PopsOne
    <3> QED
      BY <3>1, <3>6, <3>8, <3>9, <3>10, <3>11, <3>12 DEF PopsOne
  <2> QED
    BY <2>5, <2>6
<1>3. \A n \in Nat : n \in T
  <2> HIDE DEF T
  <2> QED
    BY ONLY <1>1, <1>2, Induction
<1>4. Len(c) \in Nat
  BY DEF Chains
<1> QED
  BY <1>3, <1>4

(* A stack, f, whose parents are b, and what is known since it was opened: *)
(* its node, the size of its parents then, and whether the execution has   *)
(* come there.  What was demanded since and what is left of the parents    *)
(* are what was there then, which the values of the node are.              *)
Fits(v, b, f, w) ==
  /\ f.node = w.node /\ Size(b) + Len(f.negative) = w.size
  /\ w.in =>
       /\ Len(v[f.node]) = w.size
       /\ \A i \in 1 .. Size(b) : MeaningIn(v, Flat(b)[i]) = v[f.node][w.size + 1 - i]
       /\ \A i \in 1 .. Len(f.negative) : MeaningIn(v, f.negative[i]) = v[f.node][i]

Good(v, F, c) == \A j \in 2 .. Len(c) : Fits(v, SubSeq(c, 1, j - 1), c[j], F[j])

Entered(F, n) == \A j \in 2 .. n : F[j].in => F[j - 1].in

Lookups(v, N) ==
  \A n \in 1 .. N, d \in Nat :
    d + 1 <= Len(v[n]) => MeaningIn(v, FromNode(n, d)) = v[n][d + 1]

(* The beginning of a longer sequence.                                     *)
LEMMA FirstOf ==
  ASSUME NEW S, NEW b, b \in Seq(S), NEW f, f \in S, NEW k, k \in 0 .. Len(b)
  PROVE  SubSeq(Append(b, f), 1, k) = SubSeq(b, 1, k)
<1>1. PICK n \in Nat : n = Len(b)
  OBVIOUS
<1>2. PICK c : c = Append(b, f)
  OBVIOUS
<1>3. /\ c \in Seq(S) /\ \A j \in 1 .. Len(b) : c[j] = b[j]
  BY ONLY <1>2, b \in Seq(S), f \in S, AppendProperties
<1>4. PICK p, q : p = SubSeq(c, 1, k) /\ q = SubSeq(b, 1, k)
  OBVIOUS
<1>5. k \in Nat /\ 1 \in Int /\ k \in Int
  BY <1>1
<1>6. \A i \in 1 .. k : b[i] \in S /\ c[i] = b[i]
  <2>1. \A i \in 1 .. k : i \in 1 .. n
    BY <1>1
  <2> QED
    BY <1>1, <1>3, <2>1
<1>6a. (\A i \in 1 .. k : c[i] \in S) /\ (\A i \in 1 .. k : b[i] \in S)
  BY <1>6
<1>7. /\ p \in Seq(S) /\ Len(p) = IF 1 <= k THEN k - 1 + 1 ELSE 0
      /\ \A i \in 1 .. k - 1 + 1 : p[i] = c[1 + i - 1]
  BY ONLY <1>4, <1>5, <1>6a, SubSeqProperties
<1>8. /\ q \in Seq(S) /\ Len(q) = IF 1 <= k THEN k - 1 + 1 ELSE 0
      /\ \A i \in 1 .. k - 1 + 1 : q[i] = b[1 + i - 1]
  BY ONLY <1>4, <1>5, <1>6a, SubSeqProperties
<1>9. Len(p) = k /\ Len(q) = k
  BY <1>5, <1>7, <1>8
<1>10. \A i \in 1 .. Len(p) : p[i] = q[i]
  <2> SUFFICES ASSUME NEW i \in 1 .. k
               PROVE  p[i] = q[i]
    BY <1>9
  <2>1. 1 + i - 1 = i /\ k - 1 + 1 = k
    BY <1>5
  <2> QED
    BY <1>6, <1>7, <1>8, <2>1
<1>11. Len(p) = Len(q)
  BY <1>9
<1>12. p = q
  BY ONLY <1>7, <1>8, <1>10, <1>11, SeqEqual
<1> QED
  BY <1>2, <1>4, <1>12

(* What is known of a chain is what is known of its stacks.                *)
LEMMA GoodAppend ==
  ASSUME NEW S, NEW N, N \in Nat, NEW b, NEW f, b \in Chains(S, N), f \in Frames(S, N),
         Len(b) > 0 => f.node # 0, NEW v, NEW F
  PROVE  Good(v, F, Append(b, f)) <=>
           Good(v, F, b) /\ (Len(b) > 0 => Fits(v, b, f, F[Len(b) + 1]))
<1>1. PICK n \in Nat : n = Len(b)
  BY DEF Chains
<1>2. PICK c : c = Append(b, f)
  OBVIOUS
<1>3. /\ Len(c) = n + 1 /\ c[n + 1] = f /\ c \in Chains(S, N)
      /\ \A j \in 1 .. n : c[j] = b[j]
  BY <1>1, <1>2, ChainOf
<1>4. b \in Seq(Frames(S, N))
  BY DEF Chains
<1>5. \A k \in 0 .. n : SubSeq(c, 1, k) = SubSeq(b, 1, k)
  <2>1. PICK Q : Q = Frames(S, N)
    OBVIOUS
  <2> SUFFICES ASSUME NEW k \in 0 .. n
               PROVE  SubSeq(c, 1, k) = SubSeq(b, 1, k)
    OBVIOUS
  <2>2. b \in Seq(Q) /\ f \in Q /\ k \in 0 .. Len(b)
    BY <1>1, <1>4, <2>1
  <2> QED
    BY ONLY <1>2, <2>2, FirstOf
<1>6. SubSeq(b, 1, n) = b
  BY <1>1, <1>4, SubSeqFull
<1>7. \A j \in 2 .. n : /\ j \in 1 .. n /\ j \in 2 .. n + 1 /\ j - 1 \in 0 .. n
  OBVIOUS
<1>8. \A j \in 2 .. n + 1 : j = n + 1 \/ j \in 2 .. n
  OBVIOUS
<1>9. ASSUME Good(v, F, c)
      PROVE  Good(v, F, b) /\ (n > 0 => Fits(v, b, f, F[n + 1]))
  <2>1. \A j \in 2 .. n + 1 : Fits(v, SubSeq(c, 1, j - 1), c[j], F[j])
    BY <1>3, <1>9 DEF Good
  <2>2. \A j \in 2 .. n : Fits(v, SubSeq(b, 1, j - 1), b[j], F[j])
    BY <1>3, <1>5, <1>7, <2>1
  <2>3. ASSUME n > 0
        PROVE  Fits(v, b, f, F[n + 1])
    <3>1. n + 1 \in 2 .. n + 1 /\ n + 1 - 1 = n /\ n \in 0 .. n
      BY <2>3
    <3>2. Fits(v, SubSeq(c, 1, n), f, F[n + 1])
      BY <1>3, <2>1, <3>1
    <3> QED
      BY <1>5, <1>6, <3>1, <3>2
  <2> QED
    BY <1>1, <2>2, <2>3 DEF Good
<1>10. ASSUME Good(v, F, b), n > 0 => Fits(v, b, f, F[n + 1])
       PROVE  Good(v, F, c)
  <2>1. \A j \in 2 .. n : Fits(v, SubSeq(b, 1, j - 1), b[j], F[j])
    BY <1>1, <1>10 DEF Good
  <2>2. ASSUME NEW j \in 2 .. n + 1
        PROVE  Fits(v, SubSeq(c, 1, j - 1), c[j], F[j])
    <3>1. CASE j \in 2 .. n
      <4>1. SubSeq(c, 1, j - 1) = SubSeq(b, 1, j - 1) /\ c[j] = b[j]
        BY <1>3, <1>5, <1>7, <3>1
      <4> QED
        BY <2>1, <3>1, <4>1
    <3>2. CASE j = n + 1
      <4>1. n > 0 /\ j - 1 = n /\ n \in 0 .. n
        BY <3>2
      <4> QED
        BY <1>3, <1>5, <1>6, <1>10, <3>2, <4>1
    <3> QED
      BY <1>8, <3>1, <3>2
  <2> QED
    BY <1>3, <2>2 DEF Good
<1> QED
  BY <1>1, <1>2, <1>9, <1>10

(* What a stack hands out stands for the value on top.                     *)
LEMMA HandedMeans ==
  ASSUME NEW S, NEW N, N \in Nat, NEW c, c \in Chains(S, N), Size(c) # 0,
         NEW v, NEW F, Good(v, F, c), Lookups(v, N), Len(c) >= 2 => F[Len(c)].in
  PROVE  MeaningIn(v, Handed(c, Len(c))) = MeaningIn(v, Last(Flat(c)))
<1>0. Len(c) # 0
  <2> SUFFICES ASSUME Len(c) = 0
               PROVE  FALSE
    OBVIOUS
  <2>1. c = << >>
    BY DEF Chains
  <2> QED
    BY <2>1, FlatNothing
<1>1. PICK b, f : /\ b \in Chains(S, N) /\ f \in Frames(S, N) /\ (Len(b) > 0 => f.node # 0)
                  /\ c = Append(b, f) /\ Len(c) = Len(b) + 1 /\ Len(b) \in Nat
  BY <1>0, ChainIs
<1>2. /\ Flat(b) \in Seq(S) /\ Flat(c) = Cat(Flat(b), f.positive) /\ Size(b) = Len(Flat(b))
      /\ Size(b) \in Nat
  BY <1>1, FlatAppend
<1>3. f.positive \in Seq(S) /\ f.negative \in Seq(S) /\ f.node \in 0 .. N
  BY <1>1 DEF Frames
<1>4. CASE f.positive # << >>
  <2>1. Handed(c, Len(c)) = Last(f.positive)
    BY <1>1, <1>4, HandedBy
  <2>2. Last(Flat(c)) = Last(f.positive)
    BY ONLY <1>2, <1>3, <1>4, CatFront
  <2> QED
    BY <2>1, <2>2
<1>5. CASE f.positive = << >>
  <2>1. /\ Handed(c, Len(c)) = FromNode(f.node, Len(f.negative))
        /\ Size(b) # 0 /\ Len(b) > 0 /\ Flat(c) = Flat(b)
    BY <1>1, <1>5, HandedBy
  <2>2. Fits(v, b, f, F[Len(b) + 1])
    BY <1>1, <2>1, GoodAppend
  <2>3. F[Len(b) + 1].in
    BY <1>1, <2>1
  <2>4. PICK m, k : m = Size(b) /\ k = Len(f.negative)
    OBVIOUS
  <2>5. m \in Nat /\ k \in Nat /\ m # 0
    BY <1>2, <1>3, <2>1, <2>4
  <2>6. PICK z : z = F[Len(b) + 1].size
    OBVIOUS
  <2>7. /\ m + k = z /\ Len(v[f.node]) = z
        /\ \A i \in 1 .. m : MeaningIn(v, Flat(b)[i]) = v[f.node][z + 1 - i]
    BY <2>2, <2>3, <2>4, <2>6 DEF Fits
  <2>8. m \in 1 .. m /\ z + 1 - m = k + 1 /\ k + 1 <= z
    BY ONLY <2>5, <2>7
  <2>9. MeaningIn(v, Flat(b)[m]) = v[f.node][k + 1]
    BY <2>7, <2>8
  <2>10. f.node \in 1 .. N
    BY <1>1, <1>3, <2>1
  <2>11. MeaningIn(v, FromNode(f.node, k)) = v[f.node][k + 1]
    BY <2>5, <2>7, <2>8, <2>10 DEF Lookups
  <2>12. Last(Flat(c)) = Flat(b)[m]
    BY <1>2, <2>1, <2>4 DEF Last
  <2> QED
    BY <2>1, <2>4, <2>9, <2>11, <2>12
<1> QED
  BY <1>4, <1>5

(* It stays known when a value is taken.                                   *)
LEMMA PoppedGood ==
  ASSUME NEW S, NEW N, N \in Nat, Refs(S, N), NEW c, c \in Chains(S, N), Size(c) # 0,
         NEW v, NEW F, Good(v, F, c), Lookups(v, N), Entered(F, Len(c))
  PROVE  Good(v, F, Popped(c))
<1> DEFINE T == {n \in Nat : \A x \in Chains(S, N) :
                   Len(x) = n /\ Size(x) # 0 /\ Good(v, F, x) /\ Entered(F, n)
                     => Good(v, F, Popped(x))}
<1>1. 0 \in T
  <2> SUFFICES ASSUME NEW x \in Chains(S, N), Len(x) = 0, Size(x) # 0
               PROVE  FALSE
    OBVIOUS
  <2>1. x = << >>
    BY DEF Chains
  <2> QED
    BY <2>1, FlatNothing
<1>2. ASSUME NEW n \in Nat, n \in T
      PROVE  n + 1 \in T
  <2> SUFFICES ASSUME NEW x \in Chains(S, N), Len(x) = n + 1, Size(x) # 0,
                      Good(v, F, x), Entered(F, n + 1)
               PROVE  Good(v, F, Popped(x))
    OBVIOUS
  <2>1. PICK b, f : /\ b \in Chains(S, N) /\ f \in Frames(S, N) /\ (Len(b) > 0 => f.node # 0)
                    /\ x = Append(b, f) /\ Len(x) = Len(b) + 1 /\ Len(b) \in Nat
    <3>1. N \in Nat /\ x \in Chains(S, N) /\ Len(x) # 0
      OBVIOUS
    <3> QED
      BY ONLY <3>1, ChainIs
  <2>2. Len(b) = n
    BY <2>1
  <2>3. Good(v, F, b) /\ (n > 0 => Fits(v, b, f, F[n + 1]))
    BY <2>1, <2>2, GoodAppend
  <2>4. CASE f.positive # << >>
    <3>1. Popped(x) = Append(b, Less(f))
      BY <2>1, <2>4, PoppedOf
    <3>2. /\ Less(f) \in Frames(S, N) /\ Less(f).negative = f.negative /\ Less(f).node = f.node
      BY <2>1, <2>4, LessIs
    <3>3. n > 0 => Fits(v, b, Less(f), F[n + 1])
      BY <2>3, <3>2 DEF Fits
    <3> QED
      BY <2>1, <2>2, <2>3, <3>1, <3>2, <3>3, GoodAppend
  <2>5. CASE f.positive = << >>
    <3>1. Size(b) # 0 /\ n > 0
      BY <2>1, <2>2, <2>5, HandedBy
    <3>2. PopsOne(S, N, b)
      BY <2>1, <3>1, PoppedIs
    <3>3. PICK s, p, g : s = Handed(b, n) /\ p = Popped(b) /\ g = Demanded(f, s)
      OBVIOUS
    <3>4. /\ s \in S /\ p \in Chains(S, N) /\ Len(p) = n
          /\ Flat(b) # << >> /\ Flat(p) = Front(Flat(b))
      BY <2>2, <3>2, <3>3 DEF PopsOne
    <3>5. Popped(x) = Append(p, g)
      BY <2>1, <2>2, <2>5, <3>3, <3>4, PoppedOf
    <3>6. /\ g \in Frames(S, N) /\ g.negative = Append(f.negative, s) /\ g.node = f.node
      BY <2>1, <3>3, <3>4, DemandedIs
    <3>7. Entered(F, n) /\ (F[n + 1].in /\ n >= 2 => F[n].in)
      <4>1. \A j \in 2 .. n : j \in 2 .. n + 1
        OBVIOUS
      <4>2. n >= 2 => n + 1 \in 2 .. n + 1 /\ n + 1 - 1 = n
        OBVIOUS
      <4> QED
        BY <4>1, <4>2 DEF Entered
    <3>8. Good(v, F, p)
      BY <1>2, <2>1, <2>2, <2>3, <3>1, <3>3, <3>7
    <3>9. PICK w, m, k : w = F[n + 1] /\ m = Size(b) /\ k = Len(f.negative)
      OBVIOUS
    <3>10. f.negative \in Seq(S) /\ Flat(b) \in Seq(S) /\ m = Len(Flat(b)) /\ m \in Nat /\ k \in Nat
      <4>1. f.negative \in Seq(S)
        BY <2>1 DEF Frames
      <4> QED
        BY <2>1, <3>9, <4>1, FlatAppend
    <3>11. Fits(v, b, f, w)
      BY <2>3, <3>1, <3>9
    <3>12. /\ Len(Flat(p)) = m - 1 /\ Last(Flat(b)) = Flat(b)[m] /\ m >= 1
           /\ \A i \in 1 .. m - 1 : Flat(p)[i] = Flat(b)[i]
      <4>1. PICK q, r : q = Flat(b) /\ r = Front(q)
        OBVIOUS
      <4>2. q \in Seq(S) /\ q # << >>
        BY <3>4, <3>10, <4>1
      <4>3. /\ Len(q) >= 1 /\ Len(r) = Len(q) - 1 /\ Last(q) = q[Len(q)]
            /\ \A i \in 1 .. Len(q) - 1 : r[i] = q[i]
        BY ONLY <4>1, <4>2, FrontOf
      <4> QED
        BY <3>4, <3>10, <4>1, <4>3
    <3>13. /\ Len(g.negative) = k + 1 /\ g.negative[k + 1] = s
           /\ \A i \in 1 .. k : g.negative[i] = f.negative[i]
      <4>1. PICK q, r : q = f.negative /\ r = Append(q, s)
        OBVIOUS
      <4>2. q \in Seq(S) /\ s \in S
        BY <3>4, <3>10, <4>1
      <4>3. /\ Len(r) = Len(q) + 1 /\ r[Len(q) + 1] = s
            /\ \A i \in 1 .. Len(q) : r[i] = q[i]
        BY ONLY <4>1, <4>2, AppendProperties
      <4> QED
        BY <3>6, <3>9, <4>1, <4>3
    <3>14. Size(p) = m - 1
      BY <3>12 DEF Size
    <3>15. PICK z : z = w.size /\ m + k = z
      BY <3>9, <3>11 DEF Fits
    <3>16. m - 1 + (k + 1) = z
      BY ONLY <3>10, <3>15
    <3>17. ASSUME w.in
           PROVE  /\ Len(v[f.node]) = z
                  /\ \A i \in 1 .. m - 1 : MeaningIn(v, Flat(p)[i]) = v[f.node][z + 1 - i]
                  /\ \A i \in 1 .. k + 1 : MeaningIn(v, g.negative[i]) = v[f.node][i]
      <4>1. /\ Len(v[f.node]) = z
            /\ \A i \in 1 .. m : MeaningIn(v, Flat(b)[i]) = v[f.node][z + 1 - i]
            /\ \A i \in 1 .. k : MeaningIn(v, f.negative[i]) = v[f.node][i]
        BY <3>9, <3>11, <3>15, <3>17 DEF Fits
      <4>2. \A i \in 1 .. m - 1 : i \in 1 .. m
        BY <3>10
      <4>3. MeaningIn(v, s) = MeaningIn(v, Last(Flat(b)))
        BY <2>1, <2>2, <2>3, <3>1, <3>3, <3>7, <3>9, <3>17, HandedMeans
      <4>4. m \in 1 .. m /\ z + 1 - m = k + 1
        BY ONLY <3>10, <3>12, <3>15
      <4>5. MeaningIn(v, s) = v[f.node][k + 1]
        BY <3>12, <4>1, <4>3, <4>4
      <4>6. \A i \in 1 .. k + 1 : i = k + 1 \/ i \in 1 .. k
        BY <3>10
      <4>7. \A i \in 1 .. k + 1 : MeaningIn(v, g.negative[i]) = v[f.node][i]
        BY <3>13, <4>1, <4>5, <4>6
      <4>8. \A i \in 1 .. m - 1 : MeaningIn(v, Flat(p)[i]) = v[f.node][z + 1 - i]
        BY <3>12, <4>1, <4>2
      <4> QED
        BY <4>1, <4>7, <4>8
    <3>18. Fits(v, p, g, w)
      BY <3>6, <3>11, <3>13, <3>14, <3>15, <3>16, <3>17 DEF Fits
    <3> QED
      <4>1. Len(p) > 0 => g.node # 0
        BY <2>1, <2>2, <3>4, <3>6
      <4>2. Len(p) + 1 = n + 1
        BY <3>4
      <4> QED
        BY <3>4, <3>5, <3>6, <3>8, <3>9, <3>18, <4>1, <4>2, GoodAppend
  <2> QED
    BY <2>4, <2>5
<1>3. \A n \in Nat : n \in T
  <2> HIDE DEF T
  <2> QED
    BY ONLY <1>1, <1>2, Induction
<1>4. Len(c) \in Nat
  BY DEF Chains
<1> QED
  BY <1>3, <1>4

(* One more value is taken.                                                *)
OneTaken(c, a) ==
  IF Size(a.chain) = 0 THEN a
  ELSE [chain |-> Popped(a.chain),
        sources |-> Cat(<<Handed(a.chain, Len(c))>>, a.sources)]

(* PopN takes one value after the other.                                   *)
LEMMA PopNIs ==
  ASSUME NEW S, NEW N, N \in Nat, Refs(S, N), NEW c, c \in Chains(S, N)
  PROVE  /\ PopN(c, 0) = [chain |-> c, sources |-> << >>]
         /\ \A n \in Nat : PopN(c, n + 1) = OneTaken(c, PopN(c, n))
<1> DEFINE U == {a \in [chain : Chains(S, N), sources : Seq(S)] : Len(a.chain) = Len(c)}
           E == [k \in Nat |-> [a \in U |-> OneTaken(c, a)]]
           a0 == [chain |-> c, sources |-> << >>]
           IsIt(g) == g = [k \in Nat |-> IF k = 0 THEN a0 ELSE OneTaken(c, g[k - 1])]
<1>1. a0 \in U
  OBVIOUS
<1>2. ASSUME NEW a \in U
      PROVE  OneTaken(c, a) \in U
  <2>1. CASE Size(a.chain) = 0
    BY <2>1 DEF OneTaken
  <2>2. CASE Size(a.chain) # 0
    <3>1. a.chain \in Chains(S, N) /\ a.sources \in Seq(S) /\ Len(a.chain) = Len(c)
      OBVIOUS
    <3>2. PopsOne(S, N, a.chain)
      BY <2>2, <3>1, PoppedIs
    <3>3. PICK h : h = Handed(a.chain, Len(c))
      OBVIOUS
    <3>4. h \in S /\ Popped(a.chain) \in Chains(S, N) /\ Len(Popped(a.chain)) = Len(c)
      BY <3>1, <3>2, <3>3 DEF PopsOne
    <3>5. <<h>> \in Seq(S)
      BY <3>4
    <3>6. Cat(<<h>>, a.sources) \in Seq(S)
      BY ONLY <3>1, <3>5, CatOf
    <3> QED
      BY <2>2, <3>3, <3>4, <3>6 DEF OneTaken
  <2> QED
    BY <2>1, <2>2
<1>3. E \in [Nat -> [U -> U]]
  BY <1>2
<1> HIDE DEF U
<1>4. PICK f : Recurs(f, U, a0, E)
  <2> HIDE DEF a0, E
  <2> QED
    BY ONLY <1>1, <1>3, Recursion
<1>5. /\ f \in [Nat -> U] /\ f[0] = a0
      /\ \A k \in Nat : k # 0 => f[k] = E[k][f[k - 1]]
  <2> HIDE DEF a0, E
  <2> QED
    BY <1>4 DEF Recurs
<1>6. \A k \in Nat : k # 0 => f[k] = OneTaken(c, f[k - 1])
  <2> SUFFICES ASSUME NEW k \in Nat, k # 0
               PROVE  f[k] = OneTaken(c, f[k - 1])
    OBVIOUS
  <2>1. k - 1 \in Nat
    OBVIOUS
  <2>2. f[k - 1] \in U
    BY <1>5, <2>1
  <2> QED
    BY <1>5, <2>2
<1> HIDE DEF E
<1>7. IsIt(f)
  <2> HIDE DEF a0
  <2>1. \A k \in Nat : f[k] = IF k = 0 THEN a0 ELSE OneTaken(c, f[k - 1])
    BY <1>5, <1>6
  <2>2. f = [k \in Nat |-> f[k]]
    BY <1>5
  <2> QED
    BY <2>1, <2>2
<1>8. PICK g : IsIt(g) /\ \A n \in Nat : PopN(c, n) = g[n]
  <2> DEFINE g0 == CHOOSE g : IsIt(g)
  <2>1. IsIt(g0)
    BY <1>7
  <2>2. \A n \in Nat : PopN(c, n) = g0[n]
    BY DEF PopN, OneTaken, Cat
  <2> QED
    BY <2>1, <2>2
<1>9. \A k \in Nat : g[k] = IF k = 0 THEN a0 ELSE OneTaken(c, g[k - 1])
  <2> HIDE DEF a0
  <2> QED
    BY <1>8
<1>10. \A n \in Nat : PopN(c, n + 1) = OneTaken(c, PopN(c, n))
  <2> SUFFICES ASSUME NEW n \in Nat
               PROVE  PopN(c, n + 1) = OneTaken(c, PopN(c, n))
    OBVIOUS
  <2>1. n + 1 \in Nat /\ n + 1 # 0 /\ n + 1 - 1 = n
    OBVIOUS
  <2>2. g[n + 1] = OneTaken(c, g[n])
    BY <1>9, <2>1
  <2> QED
    BY <1>8, <2>1, <2>2
<1> QED
  BY <1>8, <1>9, <1>10

(* What is left of a chain of which n values were taken, and the values.   *)
PopsAll(S, N, c, n, a) ==
  /\ a.chain \in Chains(S, N) /\ Len(a.chain) = Len(c)
  /\ a.sources \in Seq(S) /\ Len(a.sources) = n /\ Size(a.chain) = Size(c) - n
  /\ \A i \in 1 .. Size(c) - n : Flat(a.chain)[i] = Flat(c)[i]
  /\ \A j \in 0 .. Len(c) : Dry(c, j) => Dry(a.chain, j)

(* A chain is a stack.                                                     *)
LEMMA SizeIs ==
  ASSUME NEW S, NEW N, NEW c, c \in Chains(S, N)
  PROVE  Flat(c) \in Seq(S) /\ Size(c) = Len(Flat(c)) /\ Size(c) \in Nat /\ Len(c) \in Nat
<1>1. CASE Len(c) = 0
  <2>1. c = << >>
    BY <1>1 DEF Chains
  <2>2. << >> \in Seq(S)
    OBVIOUS
  <2> QED
    BY <1>1, <2>1, <2>2, FlatNothing DEF Size
<1>2. CASE Len(c) # 0
  <2>1. c \in Seq(Frames(S, N)) /\ c # << >>
    BY <1>2 DEF Chains
  <2>2. c[1] \in Frames(S, N)
    BY <2>1
  <2> QED
    BY <2>2, FlatAppend
<1> QED
  BY <1>1, <1>2

(* All n of them, if there are so many, and else what there is.            *)
LEMMA PopNPops ==
  ASSUME NEW S, NEW N, N \in Nat, Refs(S, N), NEW c, c \in Chains(S, N)
  PROVE  /\ \A n \in Nat : n <= Size(c) => PopsAll(S, N, c, n, PopN(c, n))
         /\ \A n \in Nat : n > Size(c) => PopN(c, n) = PopN(c, Size(c))
<1>0. Size(c) \in Nat /\ Len(c) \in Nat /\ Flat(c) \in Seq(S) /\ Size(c) = Len(Flat(c))
  BY SizeIs
<1>1. /\ PopN(c, 0) = [chain |-> c, sources |-> << >>]
      /\ \A n \in Nat : PopN(c, n + 1) = OneTaken(c, PopN(c, n))
  BY PopNIs
<1> DEFINE T == {n \in Nat : n <= Size(c) => PopsAll(S, N, c, n, PopN(c, n))}
<1>2. 0 \in T
  <2>1. PICK a : a = PopN(c, 0)
    OBVIOUS
  <2>2. a.chain = c /\ a.sources = << >>
    BY <1>1, <2>1
  <2>3. << >> \in Seq(S) /\ Len(<< >>) = 0 /\ Size(c) - 0 = Size(c)
    BY <1>0
  <2>4. PopsAll(S, N, c, 0, a)
    BY <2>2, <2>3 DEF PopsAll
  <2> QED
    BY <2>1, <2>4
<1>3. ASSUME NEW n \in Nat, n \in T
      PROVE  n + 1 \in T
  <2> SUFFICES ASSUME n + 1 <= Size(c)
               PROVE  PopsAll(S, N, c, n + 1, PopN(c, n + 1))
    OBVIOUS
  <2>1. PICK a, e : a = PopN(c, n) /\ e = PopN(c, n + 1)
    OBVIOUS
  <2>2. PopsAll(S, N, c, n, a)
    BY <1>0, <1>3, <2>1
  <2>3. /\ a.chain \in Chains(S, N) /\ Len(a.chain) = Len(c)
        /\ a.sources \in Seq(S) /\ Len(a.sources) = n /\ Size(a.chain) = Size(c) - n
        /\ \A i \in 1 .. Size(c) - n : Flat(a.chain)[i] = Flat(c)[i]
        /\ \A j \in 0 .. Len(c) : Dry(c, j) => Dry(a.chain, j)
    BY <2>2 DEF PopsAll
  <2>4. Size(a.chain) # 0
    BY <1>0, <2>3
  <2>5. PopsOne(S, N, a.chain)
    BY <2>3, <2>4, PoppedIs
  <2>6. PICK p, h : p = Popped(a.chain) /\ h = Handed(a.chain, Len(c))
    OBVIOUS
  <2>7. /\ p \in Chains(S, N) /\ Len(p) = Len(c) /\ h \in S
        /\ Flat(a.chain) # << >> /\ Flat(p) = Front(Flat(a.chain))
        /\ \A j \in 0 .. Len(c) : Dry(a.chain, j) => Dry(p, j)
    BY <2>3, <2>5, <2>6 DEF PopsOne
  <2>8. e.chain = p /\ e.sources = Cat(<<h>>, a.sources)
    <3>1. e = OneTaken(c, a)
      BY <1>1, <2>1
    <3> QED
      BY <2>4, <2>6, <3>1 DEF OneTaken
  <2>9. e.sources \in Seq(S) /\ Len(e.sources) = n + 1
    <3>1. PICK q, r : q = <<h>> /\ r = a.sources
      OBVIOUS
    <3>2. q \in Seq(S) /\ r \in Seq(S)
      BY <2>3, <2>7, <3>1
    <3>3. Len(q) = 1 /\ Len(r) = n
      BY <2>3, <3>1
    <3>4. Cat(q, r) \in Seq(S) /\ Len(Cat(q, r)) = Len(q) + Len(r)
      BY ONLY <3>2, CatOf
    <3> QED
      BY <2>8, <3>1, <3>3, <3>4
  <2>10. PICK m \in Nat : m = Size(c) - (n + 1) /\ Size(c) - n = m + 1
    <3>1. Size(c) - (n + 1) \in Nat /\ Size(c) - n = Size(c) - (n + 1) + 1
      BY <1>0
    <3> QED
      BY <3>1
  <2>11. Len(Flat(p)) = m /\ \A i \in 1 .. m : Flat(p)[i] = Flat(a.chain)[i]
    <3>1. PICK q, r : q = Flat(a.chain) /\ r = Front(q)
      OBVIOUS
    <3>2. q \in Seq(S) /\ q # << >>
      BY <2>3, <2>7, <3>1, SizeIs
    <3>3. Len(q) = m + 1
      BY <2>3, <2>10, <3>1 DEF Size
    <3>4. Len(r) = Len(q) - 1 /\ \A i \in 1 .. Len(q) - 1 : r[i] = q[i]
      BY ONLY <3>1, <3>2, FrontOf
    <3> QED
      BY <2>7, <3>1, <3>3, <3>4
  <2>12. Size(p) = m
    BY <2>11 DEF Size
  <2>13. \A i \in 1 .. m : i \in 1 .. m + 1
    OBVIOUS
  <2>14. \A i \in 1 .. m : Flat(p)[i] = Flat(c)[i]
    BY <2>3, <2>10, <2>11, <2>13
  <2>15. PopsAll(S, N, c, n + 1, e)
    BY <2>3, <2>7, <2>8, <2>9, <2>10, <2>12, <2>14 DEF PopsAll
  <2> QED
    BY <2>1, <2>15
<1>4. \A n \in Nat : n \in T
  <2> HIDE DEF T
  <2> QED
    BY ONLY <1>2, <1>3, Induction
<1>5. PICK z \in Nat : z = Size(c)
  BY <1>0
<1> DEFINE V == {k \in Nat : PopN(c, z + k) = PopN(c, z)}
<1>6. 0 \in V
  BY <1>5
<1>7. ASSUME NEW k \in Nat, k \in V
      PROVE  k + 1 \in V
  <2>1. z + (k + 1) = z + k + 1 /\ z + k \in Nat
    OBVIOUS
  <2>2. PopN(c, z + k + 1) = OneTaken(c, PopN(c, z + k))
    BY <1>1, <2>1
  <2>3. PopsAll(S, N, c, z, PopN(c, z))
    BY <1>4, <1>5
  <2>4. Size(PopN(c, z).chain) = 0
    BY <1>5, <2>3 DEF PopsAll
  <2>5. OneTaken(c, PopN(c, z)) = PopN(c, z)
    BY <2>4 DEF OneTaken
  <2> QED
    BY <1>7, <2>1, <2>2, <2>5
<1>8. \A k \in Nat : k \in V
  <2> HIDE DEF V
  <2> QED
    BY ONLY <1>6, <1>7, Induction
<1>9. ASSUME NEW n \in Nat, n > z
      PROVE  PopN(c, n) = PopN(c, z)
  <2>1. n - z \in Nat /\ n = z + (n - z)
    BY <1>9
  <2>2. PICK k \in Nat : n = z + k
    BY <2>1
  <2> QED
    BY <1>8, <2>2
<1> QED
  BY <1>4, <1>5, <1>9

(* It stays known what the values were.                                    *)
LEMMA PopNGood ==
  ASSUME NEW S, NEW N, N \in Nat, Refs(S, N), NEW c, c \in Chains(S, N),
         NEW v, NEW F, Good(v, F, c), Lookups(v, N), Entered(F, Len(c)),
         NEW n, n \in Nat, n <= Size(c)
  PROVE  Good(v, F, PopN(c, n).chain)
<1>0. Size(c) \in Nat
  BY SizeIs
<1>1. /\ PopN(c, 0) = [chain |-> c, sources |-> << >>]
      /\ \A k \in Nat : PopN(c, k + 1) = OneTaken(c, PopN(c, k))
  BY PopNIs
<1> DEFINE T == {k \in Nat : k <= Size(c) => Good(v, F, PopN(c, k).chain)}
<1>2. 0 \in T
  BY <1>1
<1>3. ASSUME NEW k \in Nat, k \in T
      PROVE  k + 1 \in T
  <2> SUFFICES ASSUME k + 1 <= Size(c)
               PROVE  Good(v, F, PopN(c, k + 1).chain)
    OBVIOUS
  <2>1. PICK a : a = PopN(c, k)
    OBVIOUS
  <2>2. Good(v, F, a.chain)
    BY <1>0, <1>3, <2>1
  <2>3. PopsAll(S, N, c, k, a)
    BY <1>0, <2>1, PopNPops
  <2>4. a.chain \in Chains(S, N) /\ Len(a.chain) = Len(c) /\ Size(a.chain) # 0
    BY <1>0, <2>3 DEF PopsAll
  <2>5. Good(v, F, Popped(a.chain))
    BY <2>2, <2>4, PoppedGood
  <2>6. PICK e : e = PopN(c, k + 1)
    OBVIOUS
  <2>7. e = OneTaken(c, a)
    BY <1>1, <2>1, <2>6
  <2>8. e.chain = Popped(a.chain)
    BY <2>4, <2>7 DEF OneTaken
  <2> QED
    BY <2>5, <2>6, <2>8
<1>4. \A k \in Nat : k \in T
  <2> HIDE DEF T
  <2> QED
    BY ONLY <1>2, <1>3, Induction
<1> QED
  BY <1>4

(* The sources that are taken stand for the values on top.                 *)
LEMMA PopNMeans ==
  ASSUME NEW S, NEW N, N \in Nat, Refs(S, N), NEW c, c \in Chains(S, N),
         NEW v, NEW F, Good(v, F, c), Lookups(v, N), Entered(F, Len(c)),
         Len(c) >= 2 => F[Len(c)].in,
         NEW n, n \in Nat, n <= Size(c)
  PROVE  \A i \in 1 .. n : MeaningIn(v, PopN(c, n).sources[i])
                             = MeaningIn(v, Flat(c)[Size(c) - n + i])
<1>0. Size(c) \in Nat
  BY SizeIs
<1>1. /\ PopN(c, 0) = [chain |-> c, sources |-> << >>]
      /\ \A k \in Nat : PopN(c, k + 1) = OneTaken(c, PopN(c, k))
  BY PopNIs
<1> DEFINE T == {k \in Nat : k <= Size(c) =>
                   \A i \in 1 .. k : MeaningIn(v, PopN(c, k).sources[i])
                                       = MeaningIn(v, Flat(c)[Size(c) - k + i])}
<1>2. 0 \in T
  OBVIOUS
<1>3. ASSUME NEW k \in Nat, k \in T
      PROVE  k + 1 \in T
  <2> SUFFICES ASSUME k + 1 <= Size(c), NEW i \in 1 .. k + 1
               PROVE  MeaningIn(v, PopN(c, k + 1).sources[i])
                        = MeaningIn(v, Flat(c)[Size(c) - (k + 1) + i])
    OBVIOUS
  <2>1. PICK a, z : a = PopN(c, k) /\ z = Size(c)
    OBVIOUS
  <2>1a. k <= z /\ k + 1 <= z /\ z \in Nat
    BY <1>0, <2>1
  <2>2. \A j \in 1 .. k : MeaningIn(v, a.sources[j]) = MeaningIn(v, Flat(c)[z - k + j])
    BY <1>3, <2>1, <2>1a
  <2>3. PopsAll(S, N, c, k, a)
    BY <1>0, <2>1, <2>1a, PopNPops
  <2>4. /\ a.chain \in Chains(S, N) /\ Len(a.chain) = Len(c)
        /\ a.sources \in Seq(S) /\ Len(a.sources) = k /\ Size(a.chain) = z - k
        /\ \A j \in 1 .. z - k : Flat(a.chain)[j] = Flat(c)[j]
    BY <2>1, <2>3 DEF PopsAll
  <2>5. Size(a.chain) # 0
    BY <2>1a, <2>4
  <2>6. PICK h : h = Handed(a.chain, Len(c))
    OBVIOUS
  <2>7. h \in S
    BY <2>4, <2>5, <2>6, PoppedIs DEF PopsOne
  <2>8. PopN(c, k + 1).sources = Cat(<<h>>, a.sources)
    <3>1. PICK e : e = PopN(c, k + 1)
      OBVIOUS
    <3>2. e = OneTaken(c, a)
      BY <1>1, <2>1, <3>1
    <3>3. e.sources = Cat(<<h>>, a.sources)
      BY <2>5, <2>6, <3>2 DEF OneTaken
    <3> QED
      BY <3>1, <3>3
  <2>9. Good(v, F, a.chain)
    BY <2>1, <2>1a, PopNGood
  <2>10. MeaningIn(v, h) = MeaningIn(v, Flat(c)[z - k])
    <3>1. MeaningIn(v, h) = MeaningIn(v, Last(Flat(a.chain)))
      BY <2>4, <2>5, <2>6, <2>9, HandedMeans
    <3>2. Last(Flat(a.chain)) = Flat(a.chain)[z - k]
      BY <2>4 DEF Last, Size
    <3>3. z - k \in 1 .. z - k
      BY <2>1a
    <3> QED
      BY <2>4, <3>1, <3>2, <3>3
  <2>11. PICK q, e : q = <<h>> /\ e = Cat(q, a.sources)
    OBVIOUS
  <2>12. q \in Seq(S) /\ Len(q) = 1 /\ q[1] = h
    BY <2>7, <2>11
  <2>13. /\ \A j \in 1 .. 1 : e[j] = q[j]
         /\ \A j \in 1 .. k : e[1 + j] = a.sources[j]
    <3>1. /\ \A j \in 1 .. Len(q) : e[j] = q[j]
          /\ \A j \in 1 .. Len(a.sources) : e[Len(q) + j] = a.sources[j]
      <4>1. PICK r : r = a.sources
        OBVIOUS
      <4>2. q \in Seq(S) /\ r \in Seq(S) /\ e = Cat(q, r)
        BY <2>4, <2>11, <2>12, <4>1
      <4>3. /\ \A j \in 1 .. Len(q) : e[j] = q[j]
            /\ \A j \in 1 .. Len(r) : e[Len(q) + j] = r[j]
        BY ONLY <4>2, CatOf
      <4> QED
        BY <4>1, <4>3
    <3> QED
      BY <2>4, <2>12, <3>1
  <2>14. CASE i = 1
    <3>1. z - (k + 1) + 1 = z - k
      BY <2>1a
    <3> QED
      BY <2>1, <2>8, <2>10, <2>11, <2>12, <2>13, <2>14, <3>1
  <2>15. CASE i # 1
    <3>1. PICK j \in 1 .. k : i = 1 + j
      <4>1. i - 1 \in 1 .. k /\ i = 1 + (i - 1)
        BY <2>15
      <4> QED
        BY <4>1
    <3>2. z - (k + 1) + i = z - k + j
      BY <2>1a, <3>1
    <3> QED
      BY <2>1, <2>2, <2>8, <2>11, <2>13, <3>1, <3>2
  <2> QED
    BY <2>14, <2>15
<1>4. \A k \in Nat : k \in T
  <2> HIDE DEF T
  <2> QED
    BY ONLY <1>2, <1>3, Induction
<1> QED
  BY <1>4

(* Sources are pushed on the innermost stack.                              *)
More(f, q) == [f EXCEPT !.positive = Cat(f.positive, q)]

(* The innermost stack gets more.                                          *)
LEMMA MoreIs ==
  ASSUME NEW S, NEW N, NEW f, f \in Frames(S, N), NEW q, q \in Seq(S)
  PROVE  /\ More(f, q) \in Frames(S, N) /\ More(f, q).positive = Cat(f.positive, q)
         /\ More(f, q).negative = f.negative /\ More(f, q).node = f.node
<1>1. f.positive \in Seq(S)
  BY DEF Frames
<1>2. Cat(f.positive, q) \in Seq(S)
  BY ONLY <1>1, q \in Seq(S), CatOf
<1> QED
  BY <1>2 DEF More, Frames

(* Push pushes on the innermost stack only.                                *)
LEMMA PushOf ==
  ASSUME NEW S, NEW N, N \in Nat, NEW b, NEW f, b \in Chains(S, N), f \in Frames(S, N),
         Len(b) > 0 => f.node # 0, NEW q, q \in Seq(S)
  PROVE  Push(Append(b, f), q) = Append(b, More(f, q))
<1>1. PICK n \in Nat : n = Len(b)
  BY DEF Chains
<1>2. PICK c, d : c = Append(b, f) /\ d = Append(b, More(f, q))
  OBVIOUS
<1>3. /\ c \in Chains(S, N) /\ Len(c) = n + 1 /\ c[n + 1] = f /\ DOMAIN c = 1 .. n + 1
      /\ \A j \in 1 .. n : c[j] = b[j]
  BY <1>1, <1>2, ChainOf
<1>4. More(f, q) \in Frames(S, N) /\ More(f, q).node = f.node
  BY MoreIs
<1>5. /\ d \in Chains(S, N) /\ d[n + 1] = More(f, q) /\ DOMAIN d = 1 .. n + 1
      /\ \A j \in 1 .. n : d[j] = b[j]
  BY <1>1, <1>2, <1>4, ChainOf
<1>6. d = [j \in 1 .. n + 1 |-> d[j]]
  BY <1>5 DEF Chains
<1>7. PICK e : e = Push(c, q)
  OBVIOUS
<1>8. e = [c EXCEPT ![n + 1] = [c[n + 1] EXCEPT !.positive = Cat(c[n + 1].positive, q)]]
  BY <1>3, <1>7 DEF Push, Cat
<1>9. e = [j \in 1 .. n + 1 |-> IF j = n + 1 THEN More(f, q) ELSE c[j]]
  BY <1>3, <1>8 DEF More
<1>10. \A j \in 1 .. n + 1 : d[j] = IF j = n + 1 THEN More(f, q) ELSE c[j]
  <2>1. \A j \in 1 .. n + 1 : j = n + 1 \/ j \in 1 .. n
    OBVIOUS
  <2> QED
    BY <1>3, <1>5, <2>1
<1>11. e = d
  BY ONLY <1>6, <1>9, <1>10
<1> QED
  BY <1>2, <1>7, <1>11

(* What is pushed lies on top, and all that was known stays so.            *)
LEMMA PushIs ==
  ASSUME NEW S, NEW N, N \in Nat, NEW c, c \in Chains(S, N), Len(c) # 0, NEW q, q \in Seq(S)
  PROVE  /\ Push(c, q) \in Chains(S, N) /\ Len(Push(c, q)) = Len(c)
         /\ Flat(Push(c, q)) = Cat(Flat(c), q)
         /\ \A v, F : Good(v, F, c) => Good(v, F, Push(c, q))
         /\ \A j \in 0 .. Len(c) - 1 : Dry(c, j) => Dry(Push(c, q), j)
<1>1. PICK b, f : /\ b \in Chains(S, N) /\ f \in Frames(S, N) /\ (Len(b) > 0 => f.node # 0)
                  /\ c = Append(b, f) /\ Len(c) = Len(b) + 1 /\ Len(b) \in Nat
  BY ChainIs
<1>2. PICK g, d : g = More(f, q) /\ d = Push(c, q)
  OBVIOUS
<1>3. d = Append(b, g)
  BY <1>1, <1>2, PushOf
<1>4. /\ g \in Frames(S, N) /\ g.positive = Cat(f.positive, q) /\ g.negative = f.negative
      /\ g.node = f.node
  BY <1>1, <1>2, MoreIs
<1>5. d \in Chains(S, N) /\ Len(d) = Len(b) + 1
  BY <1>1, <1>3, <1>4, ChainOf
<1>6. Flat(d) = Cat(Flat(c), q)
  <2>1. PICK x, y, z : x = Flat(b) /\ y = f.positive /\ z = Flat(c)
    OBVIOUS
  <2>2. x \in Seq(S) /\ z = Cat(x, y) /\ Flat(d) = Cat(x, Cat(y, q))
    BY <1>1, <1>3, <1>4, <2>1, FlatAppend
  <2>3. y \in Seq(S)
    BY <1>1, <2>1 DEF Frames
  <2>4. (x \o y) \o q = x \o (y \o q)
    BY ONLY <2>2, <2>3, q \in Seq(S), ConcatAssociative
  <2> QED
    BY <2>1, <2>2, <2>4 DEF Cat
<1>7. ASSUME NEW v, NEW F, Good(v, F, c)
      PROVE  Good(v, F, d)
  <2>1. Good(v, F, b) /\ (Len(b) > 0 => Fits(v, b, f, F[Len(b) + 1]))
    BY <1>1, <1>7, GoodAppend
  <2>2. Len(b) > 0 => Fits(v, b, g, F[Len(b) + 1])
    BY <1>4, <2>1 DEF Fits
  <2> QED
    BY <1>1, <1>3, <1>4, <2>1, <2>2, GoodAppend
<1>8. ASSUME NEW j \in 0 .. Len(c) - 1, Dry(c, j)
      PROVE  Dry(d, j)
  <2>1. j \in 0 .. Len(b)
    BY <1>1
  <2>2. Dry(b, j)
    BY <1>1, <1>8, <2>1, DryAppend
  <2> QED
    BY <1>1, <1>3, <1>4, <2>1, <2>2, DryAppend
<1> QED
  BY <1>1, <1>2, <1>5, <1>6, <1>7, <1>8

(* A value of the parents goes through the innermost stack.                *)
Through(f, s) ==
  [f EXCEPT !.negative = Append(f.negative, s), !.positive = Cat(<<s>>, f.positive)]

(* The innermost stack takes a value and leaves it.                        *)
LEMMA ThroughIs ==
  ASSUME NEW S, NEW N, NEW f, f \in Frames(S, N), NEW s, s \in S
  PROVE  /\ Through(f, s) \in Frames(S, N) /\ Through(f, s).positive = Cat(<<s>>, f.positive)
         /\ Through(f, s).negative = Append(f.negative, s) /\ Through(f, s).node = f.node
<1>1. f.negative \in Seq(S) /\ f.positive \in Seq(S) /\ <<s>> \in Seq(S)
  BY DEF Frames
<1>2. PICK q, t, r : q = Append(f.negative, s) /\ t = <<s>> /\ r = Cat(t, f.positive)
  OBVIOUS
<1>3. q \in Seq(S)
  BY ONLY <1>1, <1>2, s \in S, AppendProperties
<1>4. t \in Seq(S) /\ f.positive \in Seq(S)
  BY <1>1, <1>2
<1>5. r \in Seq(S)
  BY ONLY <1>2, <1>4, CatOf
<1> QED
  BY <1>2, <1>3, <1>5 DEF Through, Frames

(* x is c, but that more of what lay below has gone through the innermost  *)
(* stack: its values are the same.                                         *)
Padded(S, N, v, F, c, x) ==
  /\ x \in Chains(S, N) /\ Len(x) = Len(c) /\ Size(x) = Size(c)
  /\ Size(Parents(x)) + Parameters(x) = Size(Parents(c)) + Parameters(c)
  /\ \A j \in 0 .. Len(c) - 1 : Dry(c, j) => Dry(x, j)
  /\ Good(v, F, x)
  /\ F[Len(c)].in => \A i \in 1 .. Size(c) : MeaningIn(v, Flat(x)[i]) = MeaningIn(v, Flat(c)[i])

(* PassThrough changes no value of the stack.                              *)
LEMMA PassThroughIs ==
  ASSUME NEW S, NEW N, N \in Nat, Refs(S, N), NEW c, c \in Chains(S, N), Len(c) >= 2,
         NEW v, NEW F, Good(v, F, c), Lookups(v, N), Entered(F, Len(c)),
         Size(Parents(c)) # 0
  PROVE  Padded(S, N, v, F, c, PassThrough(c)) /\ Parameters(PassThrough(c)) = Parameters(c) + 1
<1>0. Len(c) # 0 /\ Len(c) \in Nat
  BY SizeIs
<1>1. PICK b, f : /\ b \in Chains(S, N) /\ f \in Frames(S, N) /\ (Len(b) > 0 => f.node # 0)
                  /\ c = Append(b, f) /\ Len(c) = Len(b) + 1 /\ Len(b) \in Nat
  BY <1>0, ChainIs
<1>2. PICK n : n = Len(b)
  OBVIOUS
<1>3. n \in Nat /\ n >= 1 /\ Len(c) = n + 1 /\ Len(c) - 1 = n
  BY <1>1, <1>2
<1>4. Parents(c) = b /\ Last(c) = f
  BY <1>1, ChainOf
<1>5. Size(b) # 0
  BY <1>4
<1>6. PICK s, p : s = Handed(b, n) /\ p = Popped(b)
  OBVIOUS
<1>7. PopsOne(S, N, b)
  BY <1>1, <1>5, PoppedIs
<1>8. /\ s \in S /\ p \in Chains(S, N) /\ Len(p) = n /\ Flat(b) # << >> /\ Flat(p) = Front(Flat(b))
      /\ \A j \in 0 .. n : Dry(b, j) => Dry(p, j)
  BY <1>2, <1>6, <1>7 DEF PopsOne
<1>9. PICK g, x : g = Through(f, s) /\ x = PassThrough(c)
  OBVIOUS
<1>10. x = Append(p, g)
  BY <1>3, <1>4, <1>6, <1>9 DEF PassThrough, Through, Cat
<1>11. /\ g \in Frames(S, N) /\ g.positive = Cat(<<s>>, f.positive)
       /\ g.negative = Append(f.negative, s) /\ g.node = f.node
  BY <1>1, <1>8, <1>9, ThroughIs
<1>12. Len(p) > 0 => g.node # 0
  BY <1>1, <1>2, <1>8, <1>11
<1>13. x \in Chains(S, N) /\ Len(x) = n + 1 /\ Parents(x) = p /\ Last(x) = g
  BY <1>8, <1>10, <1>11, <1>12, ChainOf
<1>14. PICK m, k, l : m = Size(b) /\ k = Len(f.negative) /\ l = Len(f.positive)
  OBVIOUS
<1>15. /\ f.negative \in Seq(S) /\ f.positive \in Seq(S) /\ Flat(b) \in Seq(S)
       /\ m = Len(Flat(b)) /\ m \in Nat /\ k \in Nat /\ l \in Nat /\ Flat(p) \in Seq(S)
  <2>1. f.negative \in Seq(S) /\ f.positive \in Seq(S)
    BY <1>1 DEF Frames
  <2> QED
    BY <1>1, <1>8, <1>14, <2>1, SizeIs
<1>16. /\ Len(Flat(p)) = m - 1 /\ Last(Flat(b)) = Flat(b)[m] /\ m >= 1
       /\ \A i \in 1 .. m - 1 : Flat(p)[i] = Flat(b)[i]
  <2>1. PICK q, r : q = Flat(b) /\ r = Front(q)
    OBVIOUS
  <2>2. q \in Seq(S) /\ q # << >>
    BY <1>8, <1>15, <2>1
  <2>3. /\ Len(q) >= 1 /\ Len(r) = Len(q) - 1 /\ Last(q) = q[Len(q)]
        /\ \A i \in 1 .. Len(q) - 1 : r[i] = q[i]
    BY ONLY <2>1, <2>2, FrontOf
  <2> QED
    BY <1>8, <1>15, <2>1, <2>3
<1>17. /\ Len(g.negative) = k + 1 /\ g.negative[k + 1] = s
       /\ \A i \in 1 .. k : g.negative[i] = f.negative[i]
  <2>1. PICK q, r : q = f.negative /\ r = Append(q, s)
    OBVIOUS
  <2>2. q \in Seq(S) /\ s \in S
    BY <1>8, <1>15, <2>1
  <2>3. /\ Len(r) = Len(q) + 1 /\ r[Len(q) + 1] = s
        /\ \A i \in 1 .. Len(q) : r[i] = q[i]
    BY ONLY <2>1, <2>2, AppendProperties
  <2> QED
    BY <1>11, <1>14, <2>1, <2>3
<1>18. PICK t, y, e, d : /\ t = <<s>> /\ y = f.positive /\ e = Cat(t, y)
                         /\ d = Cat(Flat(p), e)
  OBVIOUS
<1>19. t \in Seq(S) /\ Len(t) = 1 /\ t[1] = s /\ y \in Seq(S) /\ Len(y) = l
  BY <1>8, <1>14, <1>15, <1>18
<1>20. /\ e \in Seq(S) /\ Len(e) = 1 + l /\ e[1] = s
       /\ \A i \in 1 .. l : e[1 + i] = y[i]
  <2>1. t \in Seq(S) /\ y \in Seq(S) /\ e = Cat(t, y)
    BY <1>18, <1>19
  <2>2. /\ e \in Seq(S) /\ Len(e) = Len(t) + Len(y)
        /\ \A i \in 1 .. Len(t) : e[i] = t[i]
        /\ \A i \in 1 .. Len(y) : e[Len(t) + i] = y[i]
    BY ONLY <2>1, CatOf
  <2> QED
    BY <1>19, <2>2
<1>21. /\ d \in Seq(S) /\ Len(d) = (m - 1) + (1 + l)
       /\ \A i \in 1 .. m - 1 : d[i] = Flat(p)[i]
       /\ \A i \in 1 .. 1 + l : d[m - 1 + i] = e[i]
  <2>1. PICK q : q = Flat(p)
    OBVIOUS
  <2>2. q \in Seq(S) /\ e \in Seq(S) /\ d = Cat(q, e)
    BY <1>15, <1>18, <1>20, <2>1
  <2>3. /\ d \in Seq(S) /\ Len(d) = Len(q) + Len(e)
        /\ \A i \in 1 .. Len(q) : d[i] = q[i]
        /\ \A i \in 1 .. Len(e) : d[Len(q) + i] = e[i]
    BY ONLY <2>2, CatOf
  <2> QED
    BY <1>16, <1>20, <2>1, <2>3
<1>22. Flat(x) = d
  BY <1>8, <1>10, <1>11, <1>18, FlatAppend
<1>23. PICK h : h = Cat(Flat(b), y)
  OBVIOUS
<1>24. /\ Flat(c) = h /\ h \in Seq(S) /\ Len(h) = m + l
       /\ \A i \in 1 .. m : h[i] = Flat(b)[i]
       /\ \A i \in 1 .. l : h[m + i] = y[i]
  <2>1. Flat(c) = h
    BY <1>1, <1>18, <1>23, FlatAppend
  <2>2. PICK q : q = Flat(b)
    OBVIOUS
  <2>3. q \in Seq(S) /\ y \in Seq(S) /\ h = Cat(q, y)
    BY <1>15, <1>19, <1>23, <2>2
  <2>4. /\ h \in Seq(S) /\ Len(h) = Len(q) + Len(y)
        /\ \A i \in 1 .. Len(q) : h[i] = q[i]
        /\ \A i \in 1 .. Len(y) : h[Len(q) + i] = y[i]
    BY ONLY <2>3, CatOf
  <2> QED
    BY <1>15, <1>19, <2>1, <2>2, <2>4
<1>25. Size(x) = m + l /\ Size(c) = m + l
  BY <1>15, <1>16, <1>21, <1>22, <1>24 DEF Size
<1>26. Size(p) = m - 1
  BY <1>16 DEF Size
<1>27. Parameters(x) = k + 1 /\ Parameters(c) = k
  BY <1>4, <1>13, <1>14, <1>17 DEF Parameters
<1>28. Size(p) + Parameters(x) = Size(b) + Parameters(c)
  <2>1. m - 1 + (k + 1) = m + k
    BY <1>15
  <2> QED
    BY <1>14, <1>26, <1>27, <2>1
<1>29. ASSUME NEW j \in 0 .. n, Dry(c, j)
       PROVE  Dry(x, j)
  <2>1. Dry(b, j)
    BY <1>1, <1>2, <1>29, DryAppend
  <2>2. Dry(p, j) /\ j \in 0 .. Len(p)
    BY <1>8, <2>1
  <2> QED
    BY <1>8, <1>10, <1>11, <1>12, <2>2, DryAppend
<1>30. Good(v, F, b) /\ Fits(v, b, f, F[n + 1])
  BY <1>1, <1>2, <1>3, GoodAppend
<1>31. Entered(F, n) /\ (F[n + 1].in /\ n >= 2 => F[n].in)
  <2>1. \A j \in 2 .. n : j \in 2 .. n + 1
    BY <1>3
  <2>2. n >= 2 => n + 1 \in 2 .. n + 1 /\ n + 1 - 1 = n
    BY <1>3
  <2> QED
    BY <1>3, <2>1, <2>2 DEF Entered
<1>32. Good(v, F, p)
  BY <1>1, <1>2, <1>5, <1>6, <1>30, <1>31, PoppedGood
<1>33. ASSUME F[n + 1].in
       PROVE  MeaningIn(v, s) = MeaningIn(v, Flat(b)[m])
  <2>1. MeaningIn(v, s) = MeaningIn(v, Last(Flat(b)))
    BY <1>1, <1>2, <1>5, <1>6, <1>30, <1>31, <1>33, HandedMeans
  <2> QED
    BY <1>16, <2>1
<1>34. Fits(v, p, g, F[n + 1])
  <2>1. PICK w : w = F[n + 1]
    OBVIOUS
  <2>2. PICK z : z = w.size /\ m + k = z
    BY <1>14, <1>30, <2>1 DEF Fits
  <2>3. m - 1 + (k + 1) = z
    BY ONLY <1>15, <2>2
  <2>4. ASSUME w.in
        PROVE  /\ Len(v[f.node]) = z
               /\ \A i \in 1 .. m - 1 : MeaningIn(v, Flat(p)[i]) = v[f.node][z + 1 - i]
               /\ \A i \in 1 .. k + 1 : MeaningIn(v, g.negative[i]) = v[f.node][i]
    <3>1. /\ Len(v[f.node]) = z
          /\ \A i \in 1 .. m : MeaningIn(v, Flat(b)[i]) = v[f.node][z + 1 - i]
          /\ \A i \in 1 .. k : MeaningIn(v, f.negative[i]) = v[f.node][i]
      BY <1>14, <1>30, <2>1, <2>2, <2>4 DEF Fits
    <3>2. \A i \in 1 .. m - 1 : i \in 1 .. m
      BY <1>15
    <3>3. m \in 1 .. m /\ z + 1 - m = k + 1
      BY ONLY <1>15, <1>16, <2>2
    <3>4. MeaningIn(v, s) = v[f.node][k + 1]
      BY <1>33, <2>1, <2>4, <3>1, <3>3
    <3>5. \A i \in 1 .. k + 1 : i = k + 1 \/ i \in 1 .. k
      BY <1>15
    <3>6. \A i \in 1 .. k + 1 : MeaningIn(v, g.negative[i]) = v[f.node][i]
      BY <1>17, <3>1, <3>4, <3>5
    <3>7. \A i \in 1 .. m - 1 : MeaningIn(v, Flat(p)[i]) = v[f.node][z + 1 - i]
      BY <1>16, <3>1, <3>2
    <3> QED
      BY <3>1, <3>6, <3>7
  <2>5. f.node = w.node
    BY <1>30, <2>1 DEF Fits
  <2> QED
    BY <1>11, <1>17, <1>26, <2>1, <2>2, <2>3, <2>4, <2>5 DEF Fits
<1>35. Good(v, F, x)
  BY <1>8, <1>10, <1>11, <1>12, <1>32, <1>34, GoodAppend
<1>36. ASSUME F[n + 1].in, NEW i \in 1 .. m + l
       PROVE  MeaningIn(v, Flat(x)[i]) = MeaningIn(v, Flat(c)[i])
  <2>1. CASE i < m
    <3>1. i \in 1 .. m - 1 /\ i \in 1 .. m
      BY <1>15, <2>1
    <3> QED
      BY <1>16, <1>21, <1>22, <1>24, <3>1
  <2>2. CASE i = m
    <3>1. m = m - 1 + 1 /\ 1 \in 1 .. 1 + l /\ m \in 1 .. m
      BY <1>15, <1>16
    <3>2. d[m - 1 + 1] = s
      BY <1>20, <1>21, <3>1
    <3>3. d[m] = s
      BY <3>1, <3>2
    <3> QED
      BY <1>22, <1>24, <1>33, <1>36, <2>2, <3>1, <3>3
  <2>3. CASE i > m
    <3>1. PICK j \in 1 .. l : i = m + j
      <4>1. i - m \in 1 .. l /\ i = m + (i - m)
        BY <1>15, <2>3
      <4> QED
        BY <4>1
    <3>2. PICK a : a = 1 + j
      OBVIOUS
    <3>3. a \in 1 .. 1 + l /\ m - 1 + a = i
      BY <1>15, <3>1, <3>2
    <3>4. d[i] = e[a]
      BY <1>21, <3>3
    <3> QED
      BY <1>20, <1>22, <1>24, <3>1, <3>2, <3>4
  <2> QED
    BY <1>15, <2>1, <2>2, <2>3
<1>37. Padded(S, N, v, F, c, x)
  BY <1>3, <1>4, <1>13, <1>25, <1>28, <1>29, <1>35, <1>36 DEF Padded
<1> QED
  BY <1>9, <1>27, <1>37

(* This may be done again.                                                 *)
LEMMA PaddedTwice ==
  ASSUME NEW S, NEW N, NEW v, NEW F, NEW c, NEW x, NEW y, c \in Chains(S, N),
         Padded(S, N, v, F, c, x), Padded(S, N, v, F, x, y)
  PROVE  Padded(S, N, v, F, c, y)
  BY DEF Padded

OneMoreThrough(n, a) ==
  IF Parameters(a) >= n \/ Size(Parents(a)) = 0 THEN a ELSE PassThrough(a)

(* EnsureNegatives makes the parameters n, if they are fewer.              *)
LEMMA EnsureNegativesIs ==
  ASSUME NEW S, NEW N, N \in Nat, Refs(S, N), NEW c, c \in Chains(S, N), Len(c) >= 2,
         NEW v, NEW F, Good(v, F, c), Lookups(v, N), Entered(F, Len(c)),
         NEW n, n \in Nat, n <= Size(Parents(c)) + Parameters(c)
  PROVE  /\ Padded(S, N, v, F, c, EnsureNegatives(c, n))
         /\ Parameters(EnsureNegatives(c, n)) = IF Parameters(c) >= n THEN Parameters(c) ELSE n
<1> DEFINE U == {x \in Chains(S, N) : Padded(S, N, v, F, c, x)}
           E == [k \in Nat |-> [a \in U |-> OneMoreThrough(n, a)]]
           IsIt(g) == g = [k \in Nat |-> IF k = 0 THEN c ELSE OneMoreThrough(n, g[k - 1])]
<1>1. c \in U
  BY DEF Padded
<1>2. ASSUME NEW a \in U
      PROVE  /\ OneMoreThrough(n, a) \in U
             /\ Parameters(a) < n => Parameters(OneMoreThrough(n, a)) = Parameters(a) + 1
             /\ Parameters(a) >= n => OneMoreThrough(n, a) = a
             /\ Parameters(a) \in Nat
  <2>0. a \in Chains(S, N) /\ Padded(S, N, v, F, c, a)
    OBVIOUS
  <2>1. Len(a) = Len(c) /\ Good(v, F, a) /\ Len(c) \in Nat
    BY <2>0, SizeIs DEF Padded
  <2>2. PICK b, f : /\ b \in Chains(S, N) /\ f \in Frames(S, N) /\ (Len(b) > 0 => f.node # 0)
                    /\ a = Append(b, f) /\ Len(a) = Len(b) + 1 /\ Len(b) \in Nat
    <3>1. Len(a) # 0
      BY <2>1
    <3> QED
      BY <2>0, <3>1, ChainIs
  <2>3. Parents(a) = b /\ Last(a) = f
    BY <2>2, ChainOf
  <2>4. f.negative \in Seq(S)
    BY <2>2 DEF Frames
  <2>5. Parameters(a) \in Nat /\ Size(Parents(a)) \in Nat
    BY <2>2, <2>3, <2>4, SizeIs DEF Parameters
  <2>6. CASE Parameters(a) >= n
    <3>1. OneMoreThrough(n, a) = a
      BY <2>6 DEF OneMoreThrough
    <3> QED
      BY <2>5, <2>6, <3>1
  <2>7. CASE ~(Parameters(a) >= n)
    <3>1. Size(Parents(a)) # 0
      <4>1. PICK i, j, l : i = Size(Parents(a)) /\ j = Parameters(a)
                           /\ l = Size(Parents(c)) + Parameters(c)
        OBVIOUS
      <4>2. i + j = l /\ i \in Nat /\ j \in Nat /\ n <= l /\ ~(j >= n)
        BY <2>0, <2>5, <2>7, <4>1 DEF Padded
      <4>3. i # 0
        BY ONLY <4>2, n \in Nat
      <4> QED
        BY <4>1, <4>3
    <3>2. Padded(S, N, v, F, a, PassThrough(a)) /\ Parameters(PassThrough(a)) = Parameters(a) + 1
      <4>1. Len(a) >= 2 /\ Entered(F, Len(a))
        BY <2>1
      <4> QED
        BY <2>0, <2>1, <3>1, <4>1, PassThroughIs
    <3>3. OneMoreThrough(n, a) = PassThrough(a)
      BY <2>7, <3>1 DEF OneMoreThrough
    <3>4. Padded(S, N, v, F, c, PassThrough(a))
      BY <2>0, <3>2, PaddedTwice
    <3>5. PassThrough(a) \in Chains(S, N)
      BY <3>4 DEF Padded
    <3> QED
      BY <2>5, <2>7, <3>2, <3>3, <3>4, <3>5
  <2> QED
    BY <2>6, <2>7
<1>3. E \in [Nat -> [U -> U]]
  BY <1>2
<1>U. \A x \in U : Padded(S, N, v, F, c, x)
  OBVIOUS
<1> HIDE DEF U
<1>4. PICK f : Recurs(f, U, c, E)
  <2> HIDE DEF E
  <2> QED
    BY ONLY <1>1, <1>3, Recursion
<1>5. /\ f \in [Nat -> U] /\ f[0] = c
      /\ \A k \in Nat : k # 0 => f[k] = E[k][f[k - 1]]
  <2> HIDE DEF E
  <2> QED
    BY <1>4 DEF Recurs
<1>6. \A k \in Nat : k # 0 => f[k] = OneMoreThrough(n, f[k - 1])
  <2> SUFFICES ASSUME NEW k \in Nat, k # 0
               PROVE  f[k] = OneMoreThrough(n, f[k - 1])
    OBVIOUS
  <2>1. k - 1 \in Nat
    OBVIOUS
  <2>2. f[k - 1] \in U
    BY <1>5, <2>1
  <2> QED
    BY <1>5, <2>2
<1> HIDE DEF E
<1>7. IsIt(f)
  <2>1. \A k \in Nat : f[k] = IF k = 0 THEN c ELSE OneMoreThrough(n, f[k - 1])
    BY <1>5, <1>6
  <2>2. f = [k \in Nat |-> f[k]]
    BY <1>5
  <2> QED
    BY <2>1, <2>2
<1>8. PICK g : IsIt(g) /\ EnsureNegatives(c, n) = g[n]
  <2> DEFINE g0 == CHOOSE g : IsIt(g)
  <2>1. IsIt(g0)
    BY <1>7
  <2>2. EnsureNegatives(c, n) = g0[n]
    BY DEF EnsureNegatives, OneMoreThrough, Parameters
  <2> QED
    BY <2>1, <2>2
<1>9. \A k \in Nat : g[k] = IF k = 0 THEN c ELSE OneMoreThrough(n, g[k - 1])
  BY <1>8
<1> HIDE DEF IsIt
<1>10. PICK l : l = Parameters(c)
  OBVIOUS
<1>10a. l \in Nat
  BY <1>1, <1>2, <1>10
<1> DEFINE T == {k \in Nat : /\ g[k] \in U
                             /\ l >= n => Parameters(g[k]) = l
                             /\ ~(l >= n) => /\ Parameters(g[k]) <= n
                                             /\ Parameters(g[k]) = n \/ Parameters(g[k]) >= k}
<1>11. 0 \in T
  <2>1. g[0] = c
    BY <1>9
  <2> QED
    BY <1>1, <1>10, <1>10a, <2>1
<1>12. ASSUME NEW k \in Nat, k \in T
       PROVE  k + 1 \in T
  <2>1. PICK a, e, i, j : a = g[k] /\ e = g[k + 1] /\ i = Parameters(a) /\ j = Parameters(e)
    OBVIOUS
  <2>2. /\ a \in U /\ (l >= n => i = l)
        /\ ~(l >= n) => i <= n /\ (i = n \/ i >= k)
    BY <1>12, <2>1
  <2>3. e = OneMoreThrough(n, a)
    <3>1. k + 1 \in Nat /\ k + 1 # 0 /\ k + 1 - 1 = k
      OBVIOUS
    <3> QED
      BY <1>9, <2>1, <3>1
  <2>4. e \in U /\ i \in Nat /\ (i < n => j = i + 1) /\ (i >= n => j = i)
    BY <1>2, <2>1, <2>2, <2>3
  <2>5. /\ l >= n => j = l
        /\ ~(l >= n) => j <= n /\ (j = n \/ j >= k + 1)
    BY ONLY <1>10a, <2>2, <2>4, n \in Nat, k \in Nat
  <2> QED
    BY <2>1, <2>4, <2>5
<1>13. \A k \in Nat : k \in T
  <2> HIDE DEF T
  <2> QED
    BY ONLY <1>11, <1>12, Induction
<1>14. /\ g[n] \in U
       /\ l >= n => Parameters(g[n]) = l
       /\ ~(l >= n) => Parameters(g[n]) = n
  <2>1. PICK j : j = Parameters(g[n])
    OBVIOUS
  <2>2. /\ g[n] \in U /\ (l >= n => j = l)
        /\ ~(l >= n) => j <= n /\ (j = n \/ j >= n)
    BY <1>13, <2>1
  <2>3. j \in Nat
    BY <1>2, <2>1, <2>2
  <2>4. ~(l >= n) => j = n
    BY ONLY <1>10a, <2>2, <2>3, n \in Nat
  <2> QED
    BY <2>1, <2>2, <2>4
<1> QED
  BY <1>U, <1>8, <1>10, <1>14

(* Sources by how deep they are made of others: those of a node, and those *)
(* that a word made of sources one level below.                            *)
Plain(N) == {FromNode(n, d) : n \in 1 .. N, d \in Nat}
MadeFrom(X) == {Made(w, q) : w \in Int, q \in Seq(X)}
MadeOf(X) == X \cup MadeFrom(X)

LevelsTo(g, n, N) == g = [k \in 0 .. n |-> IF k = 0 THEN Plain(N) ELSE MadeOf(g[k - 1])]
Level(N, n) == (CHOOSE g : LevelsTo(g, n, N))[n]

(* The levels up to n exist.                                               *)
LEMMA LevelsThere ==
  ASSUME NEW N
  PROVE  \A n \in Nat : \E g : LevelsTo(g, n, N)
<1> DEFINE T == {n \in Nat : \E g : LevelsTo(g, n, N)}
<1>1. 0 \in T
  <2>1. LevelsTo([k \in 0 .. 0 |-> Plain(N)], 0, N)
    BY DEF LevelsTo
  <2> QED
    BY <2>1
<1>2. ASSUME NEW n \in Nat, n \in T
      PROVE  n + 1 \in T
  <2>1. PICK g : LevelsTo(g, n, N)
    BY <1>2
  <2>2. \A k \in 0 .. n : g[k] = IF k = 0 THEN Plain(N) ELSE MadeOf(g[k - 1])
    BY <2>1 DEF LevelsTo
  <2>3. PICK h : h = [k \in 0 .. n + 1 |-> IF k <= n THEN g[k] ELSE MadeOf(g[n])]
    OBVIOUS
  <2>4. ASSUME NEW k \in 0 .. n + 1
        PROVE  h[k] = IF k = 0 THEN Plain(N) ELSE MadeOf(h[k - 1])
    <3>1. CASE k = 0
      BY <2>2, <2>3, <3>1
    <3>2. CASE k # 0 /\ k <= n
      <4>1. k \in 0 .. n /\ k - 1 \in 0 .. n /\ k - 1 \in 0 .. n + 1
        BY <3>2
      <4>2. h[k] = g[k] /\ h[k - 1] = g[k - 1]
        BY <2>3, <4>1
      <4> QED
        BY <2>2, <3>2, <4>1, <4>2
    <3>3. CASE k = n + 1
      <4>1. k - 1 = n /\ n \in 0 .. n + 1 /\ ~(k <= n) /\ k # 0
        BY <3>3
      <4>2. h[k - 1] = g[n] /\ h[k] = MadeOf(g[n])
        BY <2>3, <4>1
      <4> QED
        BY <4>1, <4>2
    <3> QED
      BY <3>1, <3>2, <3>3
  <2>5. h = [k \in 0 .. n + 1 |-> h[k]]
    BY <2>3
  <2>6. LevelsTo(h, n + 1, N)
    BY ONLY <2>4, <2>5 DEF LevelsTo
  <2> QED
    BY <2>6
<1>3. \A n \in Nat : n \in T
  <2> HIDE DEF T
  <2> QED
    BY ONLY <1>1, <1>2, Induction
<1> QED
  BY <1>3

(* And are the same, however many are asked for.                           *)
LEMMA LevelsAlike ==
  ASSUME NEW N, NEW n, n \in Nat, NEW m, m \in Nat, n <= m, NEW g, LevelsTo(g, n, N),
         NEW h, LevelsTo(h, m, N)
  PROVE  \A k \in 0 .. n : g[k] = h[k]
<1> DEFINE T == {k \in Nat : k <= n => g[k] = h[k]}
<1>0. /\ \A k \in 0 .. n : g[k] = IF k = 0 THEN Plain(N) ELSE MadeOf(g[k - 1])
      /\ \A k \in 0 .. m : h[k] = IF k = 0 THEN Plain(N) ELSE MadeOf(h[k - 1])
  BY DEF LevelsTo
<1>1. 0 \in T
  <2>1. 0 \in 0 .. n /\ 0 \in 0 .. m
    OBVIOUS
  <2> QED
    BY <1>0, <2>1
<1>2. ASSUME NEW k \in Nat, k \in T
      PROVE  k + 1 \in T
  <2> SUFFICES ASSUME k + 1 <= n
               PROVE  g[k + 1] = h[k + 1]
    OBVIOUS
  <2>1. k + 1 \in 0 .. n /\ k + 1 \in 0 .. m /\ k + 1 # 0 /\ k + 1 - 1 = k
    OBVIOUS
  <2>2. g[k] = h[k]
    BY <1>2
  <2> QED
    BY <1>0, <2>1, <2>2
<1>3. \A k \in Nat : k \in T
  <2> HIDE DEF T
  <2> QED
    BY ONLY <1>1, <1>2, Induction
<1> QED
  BY <1>3

(* So each level is made of the one below.                                 *)
LEMMA LevelIs ==
  ASSUME NEW N
  PROVE  Level(N, 0) = Plain(N) /\ \A n \in Nat : Level(N, n + 1) = MadeOf(Level(N, n))
<1> DEFINE G(n) == CHOOSE g : LevelsTo(g, n, N)
<1>1. \A n \in Nat : LevelsTo(G(n), n, N)
  BY LevelsThere
<1>2. \A n : Level(N, n) = G(n)[n]
  BY DEF Level
<1> HIDE DEF G
<1>3. Level(N, 0) = Plain(N)
  <2>1. LevelsTo(G(0), 0, N) /\ 0 \in 0 .. 0
    BY <1>1
  <2> QED
    BY <1>2, <2>1 DEF LevelsTo
<1>4. ASSUME NEW n \in Nat
      PROVE  Level(N, n + 1) = MadeOf(Level(N, n))
  <2>1. PICK g, h : g = G(n) /\ h = G(n + 1)
    OBVIOUS
  <2>2. LevelsTo(g, n, N) /\ LevelsTo(h, n + 1, N) /\ n + 1 \in Nat /\ n <= n + 1
    BY <1>1, <2>1
  <2>2a. PICK m : m = n + 1
    OBVIOUS
  <2>2b. LevelsTo(g, n, N) /\ LevelsTo(h, m, N) /\ m \in Nat /\ n <= m /\ n \in Nat
    BY <2>2, <2>2a
  <2>3. \A k \in 0 .. n : g[k] = h[k]
    BY ONLY <2>2b, LevelsAlike
  <2>4. n + 1 \in 0 .. n + 1 /\ n + 1 # 0 /\ n + 1 - 1 = n /\ n \in 0 .. n
    OBVIOUS
  <2>5. h[n + 1] = MadeOf(h[n])
    BY <2>2, <2>4 DEF LevelsTo
  <2> QED
    BY <1>2, <2>1, <2>3, <2>4, <2>5
<1> QED
  BY <1>3, <1>4

(* A level holds those below.                                              *)
LEMMA LevelGrows ==
  ASSUME NEW N, NEW k, k \in Nat, NEW m, m \in Nat, k <= m
  PROVE  Level(N, k) \subseteq Level(N, m)
<1> DEFINE T == {d \in Nat : Level(N, k) \subseteq Level(N, k + d)}
<1>1. 0 \in T
  OBVIOUS
<1>2. ASSUME NEW d \in Nat, d \in T
      PROVE  d + 1 \in T
  <2>1. k + d \in Nat /\ k + (d + 1) = k + d + 1
    OBVIOUS
  <2>2. Level(N, k + d + 1) = MadeOf(Level(N, k + d))
    BY <2>1, LevelIs
  <2> QED
    BY <1>2, <2>1, <2>2 DEF MadeOf
<1>3. \A d \in Nat : d \in T
  <2> HIDE DEF T
  <2> QED
    BY ONLY <1>1, <1>2, Induction
<1>4. PICK d \in Nat : m = k + d
  <2>1. m - k \in Nat /\ m = k + (m - k)
    OBVIOUS
  <2> QED
    BY <2>1
<1> QED
  BY <1>3, <1>4

(* More nodes, more sources.                                               *)
LEMMA LevelOfMore ==
  ASSUME NEW N, N \in Nat, NEW M, M \in Nat, N <= M
  PROVE  \A k \in Nat : Level(N, k) \subseteq Level(M, k)
<1> DEFINE T == {k \in Nat : Level(N, k) \subseteq Level(M, k)}
<1>1. 0 \in T
  <2>1. Plain(N) \subseteq Plain(M)
    <3>1. \A n \in 1 .. N : n \in 1 .. M
      OBVIOUS
    <3> QED
      BY <3>1 DEF Plain
  <2> QED
    BY <2>1, LevelIs
<1>2. ASSUME NEW k \in Nat, k \in T
      PROVE  k + 1 \in T
  <2>1. PICK X, Y : X = Level(N, k) /\ Y = Level(M, k)
    OBVIOUS
  <2>2. X \subseteq Y
    BY <1>2, <2>1
  <2>3. Level(N, k + 1) = MadeOf(X) /\ Level(M, k + 1) = MadeOf(Y)
    BY <2>1, LevelIs
  <2>4. \A q \in Seq(X) : q \in Seq(Y)
    BY <2>2, SeqMonotonic
  <2>5. MadeOf(X) \subseteq MadeOf(Y)
    BY <2>2, <2>4 DEF MadeOf, MadeFrom
  <2> QED
    BY <2>3, <2>5
<1>3. \A k \in Nat : k \in T
  <2> HIDE DEF T
  <2> QED
    BY ONLY <1>1, <1>2, Induction
<1> QED
  BY <1>3

(* A source is of a node, or made of sources of the level below.           *)
LEMMA SourceIs ==
  ASSUME NEW N, N \in Nat, NEW k, k \in Nat, NEW s, s \in Level(N, k)
  PROVE  s \in Plain(N) \/ (k # 0 /\ s \in MadeFrom(Level(N, k - 1)))
<1> DEFINE T == {n \in Nat : \A t \in Level(N, n) :
                               t \in Plain(N) \/ (n # 0 /\ t \in MadeFrom(Level(N, n - 1)))}
<1>1. 0 \in T
  BY LevelIs
<1>2. ASSUME NEW n \in Nat, n \in T
      PROVE  n + 1 \in T
  <2> SUFFICES ASSUME NEW t \in Level(N, n + 1)
               PROVE  t \in Plain(N) \/ t \in MadeFrom(Level(N, n))
    <3>1. n + 1 - 1 = n /\ n + 1 # 0
      OBVIOUS
    <3> QED
      BY <3>1
  <2>1. PICK X : X = Level(N, n)
    OBVIOUS
  <2>2. t \in MadeOf(X)
    BY <2>1, LevelIs
  <2>3. CASE t \in X
    <3>1. t \in Plain(N) \/ (n # 0 /\ t \in MadeFrom(Level(N, n - 1)))
      BY <1>2, <2>1, <2>3
    <3>2. CASE n # 0 /\ t \in MadeFrom(Level(N, n - 1))
      <4>1. n - 1 \in Nat /\ n - 1 <= n
        BY <3>2
      <4>2. Level(N, n - 1) \subseteq X
        BY <2>1, <4>1, LevelGrows
      <4>3. \A q \in Seq(Level(N, n - 1)) : q \in Seq(X)
        BY <4>2, SeqMonotonic
      <4> QED
        BY <2>1, <3>2, <4>3 DEF MadeFrom
    <3> QED
      BY <3>1, <3>2
  <2> QED
    BY <2>1, <2>2, <2>3 DEF MadeOf
<1>3. \A n \in Nat : n \in T
  <2> HIDE DEF T
  <2> QED
    BY ONLY <1>1, <1>2, Induction
<1> QED
  BY <1>3

(* What inference finds for a source of a node.                            *)
Look(v, t) ==
  IF t.depth + 1 \in DOMAIN v[t.node] THEN v[t.node][t.depth + 1] ELSE Unknown

Meant(v, g, t) ==
  IF t.node = 0 THEN Value(t.depth, [i \in DOMAIN t.of |-> g[t.of[i]]]) ELSE Look(v, t)

(* g gives every source of D its meaning.                                  *)
Solves(v, g, D) == g = [t \in D |-> Meant(v, g, t)]

Closed(D) == \A t \in D : t.node = 0 => \A i \in DOMAIN t.of : t.of[i] \in D

(* What a source is made of lies one level below.                          *)
LEMMA LevelClosed ==
  ASSUME NEW N, N \in Nat, NEW k, k \in Nat, NEW t, t \in Level(N, k), t.node = 0
  PROVE  k # 0 /\ \A i \in DOMAIN t.of : t.of[i] \in Level(N, k - 1)
<1>1. t \notin Plain(N)
  BY DEF Plain, FromNode
<1>2. k # 0 /\ t \in MadeFrom(Level(N, k - 1))
  BY <1>1, SourceIs
<1>3. PICK q \in Seq(Level(N, k - 1)) : t.of = q
  BY <1>2 DEF Made, MadeFrom
<1> QED
  BY <1>2, <1>3

(* A level holds what its sources are made of.                             *)
LEMMA LevelIsClosed ==
  ASSUME NEW N, N \in Nat, NEW k, k \in Nat
  PROVE  Closed(Level(N, k))
<1> SUFFICES ASSUME NEW t \in Level(N, k), t.node = 0, NEW i \in DOMAIN t.of
             PROVE  t.of[i] \in Level(N, k)
  BY DEF Closed
<1>1. k # 0 /\ t.of[i] \in Level(N, k - 1)
  BY LevelClosed
<1>2. k - 1 \in Nat /\ k - 1 <= k
  BY <1>1
<1> QED
  BY <1>1, <1>2, LevelGrows

(* All sources of a level have meanings.                                   *)
LEMMA LevelSolved ==
  ASSUME NEW N, N \in Nat, NEW v
  PROVE  \A k \in Nat : \E g : Solves(v, g, Level(N, k))
<1> DEFINE T == {k \in Nat : \E g : Solves(v, g, Level(N, k))}
<1>1. 0 \in T
  <2> DEFINE g == [t \in Level(N, 0) |-> Look(v, t)]
  <2>1. \A t \in Level(N, 0) : t.node # 0
    BY LevelClosed
  <2>2. \A t \in Level(N, 0) : g[t] = Meant(v, g, t)
    BY <2>1 DEF Meant
  <2>3. g = [t \in Level(N, 0) |-> g[t]]
    OBVIOUS
  <2>4. Solves(v, g, Level(N, 0))
    <3> HIDE DEF g
    <3> QED
      BY <2>2, <2>3 DEF Solves
  <2> QED
    BY <2>4
<1>2. ASSUME NEW k \in Nat, k \in T
      PROVE  k + 1 \in T
  <2>1. PICK g : Solves(v, g, Level(N, k))
    BY <1>2
  <2>2. PICK D, E : D = Level(N, k) /\ E = Level(N, k + 1)
    OBVIOUS
  <2>3. \A t \in D : g[t] = Meant(v, g, t)
    BY <2>1, <2>2 DEF Solves
  <2>4. PICK h : h = [t \in E |-> Meant(v, g, t)]
    OBVIOUS
  <2>5. \A t \in E : t.node = 0 => \A i \in DOMAIN t.of : t.of[i] \in D
    <3>1. k + 1 - 1 = k /\ k + 1 \in Nat
      OBVIOUS
    <3> QED
      BY <2>2, <3>1, LevelClosed
  <2>6. D \subseteq E
    <3>1. k <= k + 1 /\ k + 1 \in Nat
      OBVIOUS
    <3> QED
      BY <2>2, <3>1, LevelGrows
  <2>7. \A t \in D : h[t] = g[t]
    BY <2>3, <2>4, <2>6
  <2>8. ASSUME NEW t \in E
        PROVE  h[t] = Meant(v, h, t)
    <3>1. h[t] = Meant(v, g, t)
      BY <2>4
    <3>2. CASE t.node = 0
      <4>1. \A i \in DOMAIN t.of : g[t.of[i]] = h[t.of[i]]
        BY <2>5, <2>7, <3>2
      <4>2. [i \in DOMAIN t.of |-> g[t.of[i]]] = [i \in DOMAIN t.of |-> h[t.of[i]]]
        BY <4>1
      <4> QED
        BY <3>1, <3>2, <4>2 DEF Meant
    <3>3. CASE t.node # 0
      BY <3>1, <3>3 DEF Meant
    <3> QED
      BY <3>2, <3>3
  <2>9. h = [t \in E |-> h[t]]
    BY <2>4
  <2>10. Solves(v, h, E)
    BY ONLY <2>8, <2>9 DEF Solves
  <2> QED
    BY <2>2, <2>10
<1>3. \A k \in Nat : k \in T
  <2> HIDE DEF T
  <2> QED
    BY ONLY <1>1, <1>2, Induction
<1> QED
  BY <1>3

(* Only one meaning each, wherever one looks.                              *)
LEMMA SolvedAlike ==
  ASSUME NEW N, N \in Nat, NEW v, NEW D, NEW E, Closed(D), Closed(E),
         NEW g, NEW h, Solves(v, g, D), Solves(v, h, E), NEW m, m \in Nat
  PROVE  \A t \in Level(N, m) : t \in D /\ t \in E => g[t] = h[t]
<1>0. /\ \A t \in D : g[t] = Meant(v, g, t)
      /\ \A t \in E : h[t] = Meant(v, h, t)
  BY DEF Solves
<1> DEFINE T == {k \in Nat : \A t \in Level(N, k) : t \in D /\ t \in E => g[t] = h[t]}
<1>1. 0 \in T
  <2>1. \A t \in Level(N, 0) : t.node # 0
    BY LevelClosed
  <2> QED
    BY <1>0, <2>1 DEF Meant
<1>2. ASSUME NEW k \in Nat, k \in T
      PROVE  k + 1 \in T
  <2> SUFFICES ASSUME NEW t \in Level(N, k + 1), t \in D, t \in E
               PROVE  g[t] = h[t]
    OBVIOUS
  <2>1. CASE t.node # 0
    BY <1>0, <2>1 DEF Meant
  <2>2. CASE t.node = 0
    <3>1. k + 1 - 1 = k /\ k + 1 \in Nat
      OBVIOUS
    <3>2. \A i \in DOMAIN t.of : t.of[i] \in Level(N, k)
      BY <2>2, <3>1, LevelClosed
    <3>3. \A i \in DOMAIN t.of : t.of[i] \in D /\ t.of[i] \in E
      BY <2>2 DEF Closed
    <3>4. \A i \in DOMAIN t.of : g[t.of[i]] = h[t.of[i]]
      BY <1>2, <3>2, <3>3
    <3>5. [i \in DOMAIN t.of |-> g[t.of[i]]] = [i \in DOMAIN t.of |-> h[t.of[i]]]
      BY <3>4
    <3> QED
      BY <1>0, <2>2, <3>5 DEF Meant
  <2> QED
    BY <2>1, <2>2
<1>3. \A k \in Nat : k \in T
  <2> HIDE DEF T
  <2> QED
    BY ONLY <1>1, <1>2, Induction
<1> QED
  BY <1>3

(* Fewer sources have the same meanings.                                   *)
LEMMA SolvedWithin ==
  ASSUME NEW v, NEW D, NEW E, D \subseteq E, Closed(D), NEW g, Solves(v, g, E)
  PROVE  \E h : Solves(v, h, D)
<1>0. \A t \in E : g[t] = Meant(v, g, t)
  BY DEF Solves
<1>1. PICK h : h = [t \in D |-> g[t]]
  OBVIOUS
<1>2. ASSUME NEW t \in D
      PROVE  h[t] = Meant(v, h, t)
  <2>1. h[t] = Meant(v, g, t)
    BY <1>0, <1>1
  <2>2. CASE t.node = 0
    <3>1. \A i \in DOMAIN t.of : g[t.of[i]] = h[t.of[i]]
      BY <1>1, <2>2 DEF Closed
    <3>2. [i \in DOMAIN t.of |-> g[t.of[i]]] = [i \in DOMAIN t.of |-> h[t.of[i]]]
      BY <3>1
    <3> QED
      BY <2>1, <2>2, <3>2 DEF Meant
  <2>3. CASE t.node # 0
    BY <2>1, <2>3 DEF Meant
  <2> QED
    BY <2>2, <2>3
<1>3. h = [t \in D |-> h[t]]
  BY <1>1
<1>4. Solves(v, h, D)
  BY ONLY <1>2, <1>3 DEF Solves
<1> QED
  BY <1>4

(* What a source is made of does not go deeper than its level.             *)
LEMMA WithinIs ==
  ASSUME NEW N, N \in Nat, NEW K, K \in Nat, K <= MaxWords, NEW s, s \in Level(N, K)
  PROVE  s \in Within(s) /\ Within(s) \subseteq Level(N, K) /\ Closed(Within(s))
<1>0. MaxWords \in Nat
  BY UnstackingAssumption
<1>1. PICK L : L = Level(N, K)
  OBVIOUS
<1> DEFINE Parts(X) == UNION {ToSet(t.of) : t \in {u \in X : u.node = 0}}
           IsIt(g) == g = [k \in Nat |-> IF k = 0 THEN {s} ELSE g[k - 1] \cup Parts(g[k - 1])]
           E == [k \in Nat |-> [X \in SUBSET L |-> X \cup Parts(X)]]
<1>2. \A t \in L : t.node = 0 => ToSet(t.of) \subseteq L
  BY <1>1, LevelIsClosed DEF Closed, ToSet
<1>3. \A X \in SUBSET L : Parts(X) \subseteq L
  BY <1>2
<1>4. E \in [Nat -> [SUBSET L -> SUBSET L]]
  <2> HIDE DEF Parts
  <2> QED
    BY <1>3
<1>5. {s} \in SUBSET L
  BY <1>1
<1>6. PICK f : Recurs(f, SUBSET L, {s}, E)
  <2> HIDE DEF E
  <2> QED
    BY ONLY <1>4, <1>5, Recursion
<1>7. /\ f \in [Nat -> SUBSET L] /\ f[0] = {s}
      /\ \A k \in Nat : k # 0 => f[k] = E[k][f[k - 1]]
  <2> HIDE DEF E
  <2> QED
    BY <1>6 DEF Recurs
<1>8. \A k \in Nat : k # 0 => f[k] = f[k - 1] \cup Parts(f[k - 1])
  <2> SUFFICES ASSUME NEW k \in Nat, k # 0
               PROVE  f[k] = f[k - 1] \cup Parts(f[k - 1])
    OBVIOUS
  <2>1. k - 1 \in Nat
    OBVIOUS
  <2>2. f[k - 1] \in SUBSET L
    BY <1>7, <2>1
  <2> HIDE DEF Parts
  <2> QED
    BY <1>7, <2>2
<1> HIDE DEF E
<1>9. IsIt(f)
  <2> HIDE DEF Parts
  <2>1. \A k \in Nat : f[k] = IF k = 0 THEN {s} ELSE f[k - 1] \cup Parts(f[k - 1])
    BY <1>7, <1>8
  <2>2. f = [k \in Nat |-> f[k]]
    BY <1>7
  <2> QED
    BY <2>1, <2>2
<1>10. PICK g : IsIt(g) /\ Within(s) = g[MaxWords]
  <2> DEFINE g0 == CHOOSE g : IsIt(g)
  <2>1. IsIt(g0)
    <3> HIDE DEF Parts
    <3> QED
      BY <1>9
  <2>2. Within(s) = g0[MaxWords]
    BY DEF Within
  <2> QED
    BY <2>1, <2>2
<1>11. \A k \in Nat : g[k] = IF k = 0 THEN {s} ELSE g[k - 1] \cup Parts(g[k - 1])
  <2> HIDE DEF Parts
  <2> QED
    BY <1>10
<1>12. \A k \in Nat : g[k + 1] = g[k] \cup Parts(g[k])
  <2> SUFFICES ASSUME NEW k \in Nat
               PROVE  g[k + 1] = g[k] \cup Parts(g[k])
    OBVIOUS
  <2>1. PICK l : l = k + 1
    OBVIOUS
  <2>2. l \in Nat /\ l # 0 /\ l - 1 = k
    BY <2>1
  <2>3. g[l] = g[l - 1] \cup Parts(g[l - 1])
    <3> HIDE DEF Parts
    <3> QED
      BY <1>11, <2>2
  <2>4. g[l] = g[k] \cup Parts(g[k])
    <3> HIDE DEF Parts
    <3> QED
      BY <2>2, <2>3
  <2> HIDE DEF Parts
  <2> QED
    BY <2>1, <2>4
<1>13. g[0] = {s}
  BY <1>11
<1> HIDE DEF IsIt
<1> DEFINE T == {k \in Nat : \A t \in g[k] : \E j \in 0 .. k : j <= K /\ t \in g[j]
                                                             /\ t \in Level(N, K - j)}
<1>14. 0 \in T
  <2>1. K - 0 = K /\ 0 <= K /\ 0 \in 0 .. 0
    OBVIOUS
  <2> QED
    BY <1>1, <1>13, <2>1
<1>15. ASSUME NEW k \in Nat, k \in T
       PROVE  k + 1 \in T
  <2> SUFFICES ASSUME NEW t \in g[k + 1]
               PROVE  \E j \in 0 .. k + 1 : j <= K /\ t \in g[j] /\ t \in Level(N, K - j)
    OBVIOUS
  <2>0. \A j \in 0 .. k : j \in 0 .. k + 1 /\ j + 1 \in 0 .. k + 1
    OBVIOUS
  <2>1. CASE t \in g[k]
    BY <1>15, <2>0, <2>1
  <2>2. CASE t \in Parts(g[k])
    <3>1. PICK u \in g[k] : u.node = 0 /\ t \in ToSet(u.of)
      BY <2>2
    <3>2. PICK j \in 0 .. k : j <= K /\ u \in g[j] /\ u \in Level(N, K - j)
      BY <1>15
    <3>3. PICK i \in DOMAIN u.of : t = u.of[i]
      BY <3>1 DEF ToSet
    <3>4. K - j \in Nat
      BY <3>2
    <3>5. K - j # 0 /\ t \in Level(N, K - j - 1)
      BY <3>1, <3>2, <3>3, <3>4, LevelClosed
    <3>6. K - j - 1 = K - (j + 1) /\ j + 1 <= K
      BY <3>4, <3>5
    <3>7. t \in g[j + 1]
      <4>1. g[j + 1] = g[j] \cup Parts(g[j])
        <5> HIDE DEF Parts
        <5> QED
          BY <1>12
      <4>2. t \in Parts(g[j])
        BY <3>1, <3>2
      <4> QED
        BY <4>1, <4>2
    <3> QED
      BY <2>0, <3>5, <3>6, <3>7
  <2> QED
    <3> HIDE DEF Parts
    <3> QED
      BY <1>12, <2>1, <2>2
<1>16. \A k \in Nat : k \in T
  <2> HIDE DEF T
  <2> QED
    BY ONLY <1>14, <1>15, Induction
<1> DEFINE V == {k \in Nat : \A j \in 0 .. k : g[j] \subseteq g[k]}
<1>17. 0 \in V
  OBVIOUS
<1>18. ASSUME NEW k \in Nat, k \in V
       PROVE  k + 1 \in V
  <2>1. g[k] \subseteq g[k + 1]
    BY <1>12
  <2>2. \A j \in 0 .. k + 1 : j = k + 1 \/ j \in 0 .. k
    OBVIOUS
  <2> QED
    BY <1>18, <2>1, <2>2
<1>19. \A k \in Nat : k \in V
  <2> HIDE DEF V
  <2> QED
    BY ONLY <1>17, <1>18, Induction
<1>20. s \in Within(s)
  <2>1. 0 \in 0 .. MaxWords
    BY <1>0
  <2>2. g[0] \subseteq g[MaxWords]
    BY <1>0, <1>19, <2>1
  <2> QED
    BY <1>10, <1>13, <2>2
<1>21. Within(s) \subseteq Level(N, K)
  <2> SUFFICES ASSUME NEW t \in g[MaxWords]
               PROVE  t \in Level(N, K)
    BY <1>10
  <2>1. PICK j \in 0 .. MaxWords : j <= K /\ t \in Level(N, K - j)
    BY <1>0, <1>16
  <2>2. K - j \in Nat /\ K - j <= K
    BY <1>0, <2>1
  <2> QED
    BY <2>1, <2>2, LevelGrows
<1>22. Closed(Within(s))
  <2> SUFFICES ASSUME NEW t \in g[MaxWords], t.node = 0, NEW i \in DOMAIN t.of
               PROVE  t.of[i] \in g[MaxWords]
    BY <1>10 DEF Closed
  <2>1. PICK j \in 0 .. MaxWords : j <= K /\ t \in g[j] /\ t \in Level(N, K - j)
    BY <1>0, <1>16
  <2>2. K - j \in Nat /\ j \in Nat
    BY <1>0, <2>1
  <2>3. K - j # 0
    BY <2>1, <2>2, LevelClosed
  <2>4. j + 1 \in 0 .. MaxWords
    BY <1>0, <2>1, <2>2, <2>3
  <2>5. t.of[i] \in Parts(g[j])
    BY <2>1 DEF ToSet
  <2>6. t.of[i] \in g[j + 1]
    <3> HIDE DEF Parts
    <3> QED
      BY <1>12, <2>2, <2>5
  <2>7. g[j + 1] \subseteq g[MaxWords]
    BY <1>0, <1>19, <2>4
  <2> QED
    BY <2>6, <2>7
<1> QED
  BY <1>20, <1>21, <1>22

(* Sources stand for values, in their order.                               *)
Stands(v, q, w) == w = [i \in DOMAIN q |-> MeaningIn(v, q[i])]

(* So the meaning of a source is the one that solves its level.            *)
LEMMA MeaningIs ==
  ASSUME NEW N, N \in Nat, NEW K, K \in Nat, K <= MaxWords, NEW v, NEW g,
         Solves(v, g, Level(N, K)), NEW s, s \in Level(N, K)
  PROVE  MeaningIn(v, s) = g[s]
<1>1. s \in Within(s) /\ Within(s) \subseteq Level(N, K) /\ Closed(Within(s))
  BY WithinIs
<1>2. PICK D : D = Within(s)
  OBVIOUS
<1>3. PICK h0 : Solves(v, h0, D)
  BY <1>1, <1>2, SolvedWithin
<1> DEFINE h0a == CHOOSE m : Solves(v, m, D)
<1>4a. Solves(v, h0a, D)
  BY <1>3
<1>5a. MeaningIn(v, s) = h0a[s]
  BY <1>2 DEF MeaningIn, Solves, Meant, Look
<1> HIDE DEF h0a
<1>4. PICK h : Solves(v, h, D) /\ MeaningIn(v, s) = h[s]
  BY <1>4a, <1>5a
<1>5. MeaningIn(v, s) = h[s]
  BY <1>4
<1>6. Closed(Level(N, K))
  BY LevelIsClosed
<1>7. h[s] = g[s]
  <2>1. PICK L : L = Level(N, K)
    OBVIOUS
  <2>1a. /\ Closed(D) /\ s \in D /\ s \in L /\ Closed(L) /\ Solves(v, h, D) /\ Solves(v, g, L)
         /\ N \in Nat /\ K \in Nat
    BY <1>1, <1>2, <1>4, <1>6, <2>1
  <2>2. \A t \in Level(N, K) : t \in D /\ t \in L => h[t] = g[t]
    BY ONLY <2>1a, SolvedAlike
  <2> QED
    BY <2>1, <2>1a, <2>2
<1> QED
  BY <1>5, <1>7

(* A value that a word made is made of what it took.                       *)
MadeFor(v, T, w, q, a) == Made(w, q) \in T /\ MeaningIn(v, Made(w, q)) = Value(w, a)

(* The word that makes it knows what it took.                              *)
LEMMA MadeMeans ==
  ASSUME NEW N, N \in Nat, NEW K, K \in Nat, NEW L, L = K + 1, L <= MaxWords,
         NEW S, S = Level(N, K), NEW T, T = Level(N, L), NEW v, NEW w, w \in Int,
         NEW q, q \in Seq(S), NEW a, Stands(v, q, a)
  PROVE  MadeFor(v, T, w, q, a)
<1>0. MaxWords \in Nat /\ L \in Nat /\ K <= MaxWords
  BY UnstackingAssumption
<1>1. PICK s : s = Made(w, q)
  OBVIOUS
<1>2. s \in T /\ S \subseteq T
  <2>1. T = MadeOf(S)
    BY LevelIs
  <2> QED
    BY <1>1, <2>1 DEF MadeOf, MadeFrom
<1>3. PICK g : Solves(v, g, T)
  BY <1>0, LevelSolved
<1>4. \A t \in T : MeaningIn(v, t) = g[t]
  <2>1. L \in Nat /\ L <= MaxWords /\ N \in Nat /\ Solves(v, g, Level(N, L))
    BY <1>0, <1>3
  <2>2. \A t \in Level(N, L) : MeaningIn(v, t) = g[t]
    BY ONLY <2>1, MeaningIs
  <2> QED
    BY <2>2
<1>5. \A i \in DOMAIN q : q[i] \in S
  OBVIOUS
<1>6. g[s] = Meant(v, g, s)
  BY <1>2, <1>3 DEF Solves
<1>7. s.node = 0 /\ s.depth = w /\ s.of = q
  BY <1>1 DEF Made
<1>8. g[s] = Value(w, [i \in DOMAIN q |-> g[q[i]]])
  BY <1>6, <1>7 DEF Meant
<1>9. \A i \in DOMAIN q : g[q[i]] = MeaningIn(v, q[i])
  BY <1>2, <1>4, <1>5
<1>10. [i \in DOMAIN q |-> g[q[i]]] = a
  BY <1>9 DEF Stands
<1> QED
  BY <1>1, <1>2, <1>4, <1>8, <1>10 DEF MadeFor

(* Of a node, the value as deep as the source lay.                         *)
LEMMA LookupsHold ==
  ASSUME NEW N, N \in Nat, NEW v, \A n \in 1 .. N : DOMAIN v[n] = 1 .. Len(v[n])
  PROVE  Lookups(v, N)
<1> SUFFICES ASSUME NEW n \in 1 .. N, NEW d \in Nat, d + 1 <= Len(v[n])
             PROVE  MeaningIn(v, FromNode(n, d)) = v[n][d + 1]
  BY DEF Lookups
<1>0. MaxWords \in Nat /\ 0 <= MaxWords
  BY UnstackingAssumption
<1>1. PICK s : s = FromNode(n, d)
  OBVIOUS
<1>2. s \in Level(N, 0) /\ s.node = n /\ s.depth = d
  <2>1. s \in Plain(N)
    BY <1>1 DEF Plain
  <2>2. s \in Level(N, 0)
    BY <2>1, LevelIs
  <2> QED
    BY <1>1, <2>2 DEF FromNode
<1>3. PICK g : Solves(v, g, Level(N, 0))
  BY LevelSolved
<1>4. MeaningIn(v, s) = g[s]
  <2>1. PICK k : k = 0
    OBVIOUS
  <2>2. k \in Nat /\ k <= MaxWords /\ N \in Nat /\ Solves(v, g, Level(N, k))
    BY <1>0, <1>3, <2>1
  <2>3. \A t \in Level(N, k) : MeaningIn(v, t) = g[t]
    BY ONLY <2>2, MeaningIs
  <2> QED
    BY <1>2, <2>1, <2>3
<1>5. g[s] = Meant(v, g, s)
  BY <1>2, <1>3 DEF Solves
<1>6. n # 0
  OBVIOUS
<1>7. Meant(v, g, s) = Look(v, s)
  BY <1>2, <1>6 DEF Meant
<1>8. d + 1 \in DOMAIN v[n]
  <2>1. PICK l : l = Len(v[n])
    OBVIOUS
  <2>2. DOMAIN v[n] = 1 .. l /\ d + 1 <= l
    BY <2>1
  <2>3. DOMAIN v[n] = {} \/ TRUE
    OBVIOUS
  <2> QED
    BY <2>2
<1>9. Look(v, s) = v[n][d + 1]
  BY <1>2, <1>8 DEF Look
<1> QED
  BY <1>1, <1>4, <1>5, <1>7, <1>9

(* The sources of a node are in every level.                               *)
LEMMA RefsHold ==
  ASSUME NEW N, N \in Nat, NEW K, K \in Nat
  PROVE  Refs(Level(N, K), N)
<1>1. Level(N, 0) \subseteq Level(N, K)
  BY LevelGrows
<1> QED
  BY <1>1, LevelIs DEF Refs, Plain

(* The values of further nodes change no meaning.                          *)
LEMMA MeaningStays ==
  ASSUME NEW N, N \in Nat, NEW K, K \in Nat, K <= MaxWords, NEW v, NEW w,
         \A n \in 1 .. N : w[n] = v[n], NEW s, s \in Level(N, K)
  PROVE  MeaningIn(w, s) = MeaningIn(v, s)
<1>1. PICK g : Solves(v, g, Level(N, K))
  BY LevelSolved
<1>2. \A t \in Level(N, K) : t.node = 0 \/ t.node \in 1 .. N
  <2> SUFFICES ASSUME NEW t \in Level(N, K)
               PROVE  t.node = 0 \/ t.node \in 1 .. N
    OBVIOUS
  <2>1. t \in Plain(N) \/ t \in MadeFrom(Level(N, K - 1))
    BY SourceIs
  <2> QED
    BY <2>1 DEF Plain, MadeFrom, FromNode, Made
<1>3. \A t \in Level(N, K) : Meant(w, g, t) = Meant(v, g, t)
  BY <1>2 DEF Meant, Look
<1>4. Solves(w, g, Level(N, K))
  BY <1>1, <1>3 DEF Solves
<1> QED
  BY <1>1, <1>4, MeaningIs

Means(v, S) == {MeaningIn(v, s) : s \in S}

(* There are as many values as sources.                                    *)
LEMMA StandsIs ==
  ASSUME NEW v, NEW S, NEW q, q \in Seq(S), NEW w, Stands(v, q, w)
  PROVE  /\ w \in Seq(Means(v, S)) /\ Len(w) = Len(q) /\ Len(q) \in Nat
         /\ \A i \in 1 .. Len(q) : w[i] = MeaningIn(v, q[i])
<1>1. PICK n : n = Len(q)
  OBVIOUS
<1>2. n \in Nat /\ DOMAIN q = 1 .. n /\ \A i \in 1 .. n : q[i] \in S
  BY <1>1
<1>3. w = [i \in 1 .. n |-> MeaningIn(v, q[i])]
  BY <1>2 DEF Stands
<1>4. \A i \in 1 .. n : MeaningIn(v, q[i]) \in Means(v, S)
  BY <1>2 DEF Means
<1>5. \A i \in 1 .. n : w[i] = MeaningIn(v, q[i])
  BY <1>3
<1>6. w \in [1 .. n -> Means(v, S)]
  BY <1>3, <1>4
<1>7. w \in Seq(Means(v, S)) /\ Len(w) = n
  BY ONLY <1>2, <1>6
<1> QED
  BY <1>1, <1>2, <1>5, <1>7

(* And values that are as many, and theirs, are what they stand for.       *)
LEMMA StandsBy ==
  ASSUME NEW v, NEW S, NEW q, q \in Seq(S), NEW V, NEW w, w \in Seq(V), Len(w) = Len(q),
         \A i \in 1 .. Len(q) : w[i] = MeaningIn(v, q[i])
  PROVE  Stands(v, q, w)
<1>1. PICK n : n = Len(q)
  OBVIOUS
<1>2. n \in Nat /\ DOMAIN q = 1 .. n /\ DOMAIN w = 1 .. n
  BY <1>1
<1>3. \A i \in 1 .. n : w[i] = MeaningIn(v, q[i])
  BY <1>1
<1>4. w = [i \in 1 .. n |-> w[i]]
  BY ONLY <1>1, <1>2, w \in Seq(V), Len(w) = Len(q)
<1>5. w = [i \in 1 .. n |-> MeaningIn(v, q[i])]
  BY ONLY <1>3, <1>4
<1> QED
  BY <1>2, <1>5 DEF Stands

(* A piece of a sequence.                                                  *)
LEMMA PieceOf ==
  ASSUME NEW V, NEW w, w \in Seq(V), NEW m, m \in Nat, NEW n, n \in Nat, m + n <= Len(w)
  PROVE  /\ SubSeq(w, m + 1, m + n) \in Seq(V) /\ Len(SubSeq(w, m + 1, m + n)) = n
         /\ \A i \in 1 .. n : SubSeq(w, m + 1, m + n)[i] = w[m + i]
<1>1. PICK a, b, p : a = m + 1 /\ b = m + n /\ p = SubSeq(w, a, b)
  OBVIOUS
<1>2. a \in Int /\ b \in Int
  BY <1>1
<1>3. \A i \in a .. b : w[i] \in V
  <2>1. \A i \in a .. b : i \in 1 .. Len(w)
    BY <1>1
  <2> QED
    BY <2>1
<1>4. /\ p \in Seq(V) /\ Len(p) = IF a <= b THEN b - a + 1 ELSE 0
      /\ \A i \in 1 .. b - a + 1 : p[i] = w[a + i - 1]
  BY ONLY <1>1, <1>2, <1>3, SubSeqProperties
<1>5. Len(p) = n
  <2>1. a <= b => b - a + 1 = n
    BY <1>1
  <2>2. ~(a <= b) => n = 0
    BY <1>1
  <2> QED
    BY <1>4, <2>1, <2>2
<1>6. \A i \in 1 .. n : p[i] = w[m + i]
  <2> SUFFICES ASSUME NEW i \in 1 .. n
               PROVE  p[i] = w[m + i]
    OBVIOUS
  <2>1. a + i - 1 = m + i /\ b - a + 1 = n
    BY <1>1
  <2> QED
    BY <1>4, <2>1
<1> QED
  BY <1>1, <1>4, <1>5, <1>6

(* What is left below, and what was taken from the top.                    *)
LEMMA StandsBelow ==
  ASSUME NEW v, NEW S, NEW q, q \in Seq(S), NEW w, Stands(v, q, w),
         NEW n, n \in 0 .. Len(q), NEW p, p \in Seq(S), Len(p) = Len(q) - n,
         \A i \in 1 .. Len(q) - n : MeaningIn(v, p[i]) = MeaningIn(v, q[i])
  PROVE  Stands(v, p, SubSeq(w, 1, Len(w) - n))
<1>1. /\ w \in Seq(Means(v, S)) /\ Len(w) = Len(q) /\ Len(q) \in Nat
      /\ \A i \in 1 .. Len(q) : w[i] = MeaningIn(v, q[i])
  BY StandsIs
<1>2. PICK V, l, k : V = Means(v, S) /\ l = Len(q) /\ k = l - n
  OBVIOUS
<1>3. /\ l \in Nat /\ n \in Nat /\ k \in Nat /\ k <= l /\ w \in Seq(V) /\ Len(w) = l
  BY <1>1, <1>2
<1>4. PICK x : x = SubSeq(w, 1, k)
  OBVIOUS
<1>5. x \in Seq(V) /\ Len(x) = k /\ \A i \in 1 .. k : x[i] = w[i]
  <2>1. 0 \in Nat /\ 0 + k <= Len(w) /\ 0 + 1 = 1 /\ 0 + k = k
    BY <1>3
  <2>2. /\ SubSeq(w, 0 + 1, 0 + k) \in Seq(V) /\ Len(SubSeq(w, 0 + 1, 0 + k)) = k
        /\ \A i \in 1 .. k : SubSeq(w, 0 + 1, 0 + k)[i] = w[0 + i]
    BY ONLY <1>3, <2>1, PieceOf
  <2>3. \A i \in 1 .. k : 0 + i = i
    OBVIOUS
  <2> QED
    BY <1>4, <2>1, <2>2, <2>3
<1>6. \A i \in 1 .. k : x[i] = MeaningIn(v, p[i])
  <2>1. \A i \in 1 .. k : i \in 1 .. l
    BY <1>3
  <2> QED
    BY <1>1, <1>2, <1>5, <2>1
<1>7. Len(x) = Len(p) /\ \A i \in 1 .. Len(p) : x[i] = MeaningIn(v, p[i])
  BY <1>2, <1>5, <1>6
<1>8. Stands(v, p, x)
  BY ONLY <1>5, <1>7, p \in Seq(S), StandsBy
<1> QED
  BY <1>2, <1>3, <1>4, <1>8

(* What was taken.                                                         *)
LEMMA StandsAbove ==
  ASSUME NEW v, NEW S, NEW q, q \in Seq(S), NEW w, Stands(v, q, w),
         NEW n, n \in 0 .. Len(q), NEW p, p \in Seq(S), Len(p) = n,
         \A i \in 1 .. n : MeaningIn(v, p[i]) = MeaningIn(v, q[Len(q) - n + i])
  PROVE  Stands(v, p, SubSeq(w, Len(w) - n + 1, Len(w)))
<1>1. /\ w \in Seq(Means(v, S)) /\ Len(w) = Len(q) /\ Len(q) \in Nat
      /\ \A i \in 1 .. Len(q) : w[i] = MeaningIn(v, q[i])
  BY StandsIs
<1>2. PICK V, l, k : V = Means(v, S) /\ l = Len(q) /\ k = l - n
  OBVIOUS
<1>3. /\ l \in Nat /\ n \in Nat /\ k \in Nat /\ k + n = l /\ w \in Seq(V) /\ Len(w) = l
  BY <1>1, <1>2
<1>4. PICK x : x = SubSeq(w, k + 1, k + n)
  OBVIOUS
<1>5. x \in Seq(V) /\ Len(x) = n /\ \A i \in 1 .. n : x[i] = w[k + i]
  <2>1. k + n <= Len(w)
    BY <1>3
  <2>2. /\ SubSeq(w, k + 1, k + n) \in Seq(V) /\ Len(SubSeq(w, k + 1, k + n)) = n
        /\ \A i \in 1 .. n : SubSeq(w, k + 1, k + n)[i] = w[k + i]
    BY ONLY <1>3, <2>1, PieceOf
  <2> QED
    BY <1>4, <2>2
<1>6. \A i \in 1 .. n : x[i] = MeaningIn(v, p[i])
  <2>1. \A i \in 1 .. n : k + i \in 1 .. l
    BY <1>3
  <2> QED
    BY <1>1, <1>2, <1>5, <2>1
<1>7. Len(x) = Len(p) /\ \A i \in 1 .. Len(p) : x[i] = MeaningIn(v, p[i])
  BY <1>5, <1>6
<1>8. Stands(v, p, x)
  BY ONLY <1>5, <1>7, p \in Seq(S), StandsBy
<1> QED
  BY <1>2, <1>3, <1>4, <1>8

(* What is pushed, behind what was there.                                  *)
LEMMA StandsBoth ==
  ASSUME NEW v, NEW S, NEW p, p \in Seq(S), NEW q, q \in Seq(S),
         NEW a, Stands(v, p, a), NEW b, Stands(v, q, b)
  PROVE  Stands(v, Cat(p, q), Cat(a, b))
<1>1. PICK V : V = Means(v, S)
  OBVIOUS
<1>2. /\ a \in Seq(V) /\ Len(a) = Len(p) /\ Len(p) \in Nat
      /\ \A i \in 1 .. Len(p) : a[i] = MeaningIn(v, p[i])
  BY <1>1, StandsIs
<1>3. /\ b \in Seq(V) /\ Len(b) = Len(q) /\ Len(q) \in Nat
      /\ \A i \in 1 .. Len(q) : b[i] = MeaningIn(v, q[i])
  BY <1>1, StandsIs
<1>4. PICK m, n, r, c : m = Len(p) /\ n = Len(q) /\ r = Cat(p, q) /\ c = Cat(a, b)
  OBVIOUS
<1>5. /\ r \in Seq(S) /\ Len(r) = m + n
      /\ \A i \in 1 .. m : r[i] = p[i]
      /\ \A i \in 1 .. n : r[m + i] = q[i]
  <2>1. /\ Cat(p, q) \in Seq(S) /\ Len(Cat(p, q)) = Len(p) + Len(q)
        /\ \A i \in 1 .. Len(p) : Cat(p, q)[i] = p[i]
        /\ \A i \in 1 .. Len(q) : Cat(p, q)[Len(p) + i] = q[i]
    BY ONLY p \in Seq(S), q \in Seq(S), CatOf
  <2> QED
    BY <1>4, <2>1
<1>6. /\ c \in Seq(V) /\ Len(c) = m + n
      /\ \A i \in 1 .. m : c[i] = a[i]
      /\ \A i \in 1 .. n : c[m + i] = b[i]
  <2>1. /\ Cat(a, b) \in Seq(V) /\ Len(Cat(a, b)) = Len(a) + Len(b)
        /\ \A i \in 1 .. Len(a) : Cat(a, b)[i] = a[i]
        /\ \A i \in 1 .. Len(b) : Cat(a, b)[Len(a) + i] = b[i]
    <3>1. a \in Seq(V) /\ b \in Seq(V)
      BY ONLY <1>2, <1>3
    <3> QED
      BY ONLY <3>1, CatOf
  <2> QED
    BY <1>2, <1>3, <1>4, <2>1
<1>7. m \in Nat /\ n \in Nat
  BY <1>2, <1>3, <1>4
<1>8. ASSUME NEW i \in 1 .. m + n
      PROVE  c[i] = MeaningIn(v, r[i])
  <2>1. CASE i \in 1 .. m
    BY <1>2, <1>4, <1>5, <1>6, <2>1
  <2>2. CASE i \notin 1 .. m
    <3>1. PICK j : j = i - m
      OBVIOUS
    <3>2. j \in 1 .. n /\ i = m + j
      BY <1>7, <2>2, <3>1
    <3> QED
      BY <1>3, <1>4, <1>5, <1>6, <3>2
  <2> QED
    BY <2>1, <2>2
<1>9. Len(c) = Len(r) /\ \A i \in 1 .. Len(r) : c[i] = MeaningIn(v, r[i])
  BY <1>5, <1>6, <1>8
<1>10. Stands(v, r, c)
  BY ONLY <1>5, <1>6, <1>9, StandsBy
<1> QED
  BY <1>4, <1>10

(* A sequence the other way round, and back.                               *)
LEMMA ReverseOf ==
  ASSUME NEW V, NEW q, q \in Seq(V)
  PROVE  /\ Reverse(q) \in Seq(V) /\ Len(Reverse(q)) = Len(q) /\ Len(q) \in Nat
         /\ \A i \in 1 .. Len(q) : Reverse(q)[i] = q[Len(q) + 1 - i]
         /\ Reverse(Reverse(q)) = q
<1>1. PICK n, r, s : n = Len(q) /\ r = Reverse(q) /\ s = Reverse(r)
  OBVIOUS
<1>2. n \in Nat /\ \A i \in 1 .. n : q[i] \in V
  BY <1>1
<1>3. \A i \in 1 .. n : n - i + 1 \in 1 .. n /\ n - i + 1 = n + 1 - i
  BY <1>2
<1>4. r = [i \in 1 .. n |-> q[n - i + 1]]
  BY <1>1 DEF Reverse
<1>5. r \in [1 .. n -> V] /\ \A i \in 1 .. n : r[i] = q[n + 1 - i]
  BY <1>2, <1>3, <1>4
<1>6. r \in Seq(V) /\ Len(r) = n
  BY ONLY <1>2, <1>5
<1>7. s = [i \in 1 .. n |-> r[n - i + 1]]
  BY <1>1, <1>6 DEF Reverse
<1>8. s \in [1 .. n -> V] /\ \A i \in 1 .. n : s[i] = r[n + 1 - i]
  BY <1>3, <1>5, <1>7
<1>9. s \in Seq(V) /\ Len(s) = n
  BY ONLY <1>2, <1>8
<1>10. \A i \in 1 .. n : s[i] = q[i]
  <2> SUFFICES ASSUME NEW i \in 1 .. n
               PROVE  s[i] = q[i]
    OBVIOUS
  <2>1. n + 1 - i \in 1 .. n /\ n + 1 - (n + 1 - i) = i
    BY <1>2
  <2> QED
    BY <1>5, <1>8, <2>1
<1>11. s = q
  <2>1. Len(s) = Len(q) /\ \A i \in 1 .. Len(s) : s[i] = q[i]
    BY <1>1, <1>9, <1>10
  <2> QED
    BY ONLY <1>9, <2>1, q \in Seq(V), SeqEqual
<1> QED
  BY <1>1, <1>2, <1>5, <1>6, <1>11

-----------------------------------------------------------------------------
(* What is known of the sources: those of a node are among them, and what  *)
(* they stand for is found among the values of the node.                   *)
World(v, N, S) == N \in Nat /\ Refs(S, N) /\ Lookups(v, N)

(* There are more nodes and more sources, and the old ones stand for what  *)
(* they stood for.                                                         *)
Grown(v, N, S, w, M, T) ==
  /\ N \in Nat /\ M \in Nat /\ N <= M /\ S \subseteq T
  /\ \A n \in 1 .. N : w[n] = v[n]
  /\ \A s \in S : MeaningIn(w, s) = MeaningIn(v, s)

SameTo(F, G, n) == \A j \in 1 .. n : G[j] = F[j]

(* It is known of every level.                                             *)
LEMMA WorldIs ==
  ASSUME NEW N, N \in Nat, NEW K, K \in Nat, NEW v, \A n \in 1 .. N : DOMAIN v[n] = 1 .. Len(v[n])
  PROVE  World(v, N, Level(N, K))
BY LookupsHold, RefsHold DEF World

(* Further nodes, and sources of higher levels, change nothing.            *)
LEMMA WorldGrows ==
  ASSUME NEW N, N \in Nat, NEW M, M \in Nat, N <= M,
         NEW K, K \in Nat, NEW L, L \in Nat, K <= L, L <= MaxWords,
         NEW v, NEW w, \A n \in 1 .. N : w[n] = v[n]
  PROVE  Grown(v, N, Level(N, K), w, M, Level(M, L))
<1>1. Level(N, K) \subseteq Level(M, K)
  BY LevelOfMore
<1>2. Level(M, K) \subseteq Level(M, L)
  BY LevelGrows
<1>3. K <= MaxWords
  BY UnstackingAssumption
<1>4. \A s \in Level(N, K) : MeaningIn(w, s) = MeaningIn(v, s)
  BY <1>3, MeaningStays
<1> QED
  BY <1>1, <1>2, <1>4 DEF Grown

(* A chain stays one.                                                      *)
LEMMA ChainsGrow ==
  ASSUME NEW v, NEW N, NEW S, NEW w, NEW M, NEW T, Grown(v, N, S, w, M, T),
         NEW c, c \in Chains(S, N)
  PROVE  c \in Chains(T, M)
<1>1. \A n \in 0 .. N : n \in 0 .. M
  BY DEF Grown
<1>2. Seq(S) \subseteq Seq(T)
  BY SeqMonotonic DEF Grown
<1>3. Frames(S, N) \subseteq Frames(T, M)
  BY <1>1, <1>2 DEF Frames
<1>4. PICK Q, R : Q = Frames(S, N) /\ R = Frames(T, M)
  OBVIOUS
<1>5. c \in Seq(Q) /\ Q \subseteq R
  BY <1>3, <1>4 DEF Chains
<1>6. c \in Seq(R)
  BY ONLY <1>5, SeqMonotonic
<1> QED
  BY <1>4, <1>6 DEF Chains

(* What stands for values does so further on.                              *)
LEMMA StandsGrow ==
  ASSUME NEW v, NEW N, NEW S, NEW w, NEW M, NEW T, Grown(v, N, S, w, M, T),
         NEW q, q \in Seq(S), NEW a, Stands(v, q, a)
  PROVE  Stands(w, q, a) /\ q \in Seq(T)
<1>1. S \subseteq T /\ \A s \in S : MeaningIn(w, s) = MeaningIn(v, s)
  BY DEF Grown
<1>2. \A i \in DOMAIN q : MeaningIn(w, q[i]) = MeaningIn(v, q[i])
  BY <1>1
<1>3. [i \in DOMAIN q |-> MeaningIn(w, q[i])] = [i \in DOMAIN q |-> MeaningIn(v, q[i])]
  BY <1>2
<1>4. q \in Seq(T)
  BY <1>1, SeqMonotonic
<1> QED
  BY <1>3, <1>4 DEF Stands

(* The outer part of a chain.                                              *)
LEMMA OuterChain ==
  ASSUME NEW S, NEW N, NEW c, c \in Chains(S, N), NEW k, k \in 0 .. Len(c)
  PROVE  /\ SubSeq(c, 1, k) \in Chains(S, N) /\ Len(SubSeq(c, 1, k)) = k
         /\ \A i \in 1 .. k : SubSeq(c, 1, k)[i] = c[i]
<1>1. PICK Q, p : Q = Frames(S, N) /\ p = SubSeq(c, 1, k)
  OBVIOUS
<1>2. c \in Seq(Q)
  BY <1>1 DEF Chains
<1>3. PICK l : l = Len(c)
  OBVIOUS
<1>4. l \in Nat /\ k \in Nat /\ k <= l
  BY <1>2, <1>3
<1>5. 0 \in Nat /\ 0 + k <= Len(c) /\ 0 + 1 = 1 /\ 0 + k = k /\ k \in Nat
  BY <1>3, <1>4
<1>6. /\ SubSeq(c, 0 + 1, 0 + k) \in Seq(Q) /\ Len(SubSeq(c, 0 + 1, 0 + k)) = k
      /\ \A i \in 1 .. k : SubSeq(c, 0 + 1, 0 + k)[i] = c[0 + i]
  BY ONLY <1>2, <1>5, PieceOf
<1>7. \A i \in 1 .. k : 0 + i = i
  OBVIOUS
<1>8. p \in Seq(Q) /\ Len(p) = k /\ \A i \in 1 .. k : p[i] = c[i]
  BY <1>1, <1>5, <1>6, <1>7
<1>9. \A j \in 2 .. k : p[j].node # 0
  <2>1. \A j \in 2 .. k : j \in 1 .. k /\ j \in 2 .. l
    BY <1>4
  <2> QED
    BY <1>3, <1>8, <2>1 DEF Chains
<1> QED
  BY <1>1, <1>8, <1>9 DEF Chains

(* What is known of a chain stays so.                                      *)
LEMMA GoodGrows ==
  ASSUME NEW v, NEW N, NEW S, NEW w, NEW M, NEW T, Grown(v, N, S, w, M, T),
         NEW c, c \in Chains(S, N), NEW F, NEW G, SameTo(F, G, Len(c)), Good(v, F, c)
  PROVE  Good(w, G, c)
<1> SUFFICES ASSUME NEW j \in 2 .. Len(c)
             PROVE  Fits(w, SubSeq(c, 1, j - 1), c[j], G[j])
  BY DEF Good
<1>1. PICK l : l = Len(c)
  OBVIOUS
<1>2. l \in Nat /\ j \in 1 .. l /\ j - 1 \in 0 .. l
  BY <1>1 DEF Chains
<1>3. G[j] = F[j]
  BY <1>1, <1>2 DEF SameTo
<1>4. PICK b : b = SubSeq(c, 1, j - 1)
  OBVIOUS
<1>5. b \in Chains(S, N)
  BY <1>1, <1>2, <1>4, OuterChain
<1>6. Flat(b) \in Seq(S) /\ Size(b) = Len(Flat(b)) /\ Size(b) \in Nat
  BY <1>5, SizeIs
<1>7. c[j] \in Frames(S, N) /\ c[j].node # 0
  BY <1>1, <1>2 DEF Chains
<1>8. PICK f : f = c[j]
  OBVIOUS
<1>9. f.negative \in Seq(S) /\ f.node \in 1 .. N
  <2>1. N \in Nat
    BY DEF Grown
  <2> QED
    BY <1>7, <1>8, <2>1 DEF Frames
<1>10. Fits(v, b, f, F[j])
  BY <1>4, <1>8 DEF Good
<1>11. w[f.node] = v[f.node] /\ \A s \in S : MeaningIn(w, s) = MeaningIn(v, s)
  BY <1>9 DEF Grown
<1>12. /\ \A i \in 1 .. Size(b) : Flat(b)[i] \in S
       /\ \A i \in 1 .. Len(f.negative) : f.negative[i] \in S
  <2>1. PICK q, r : q = Flat(b) /\ r = f.negative
    OBVIOUS
  <2>2. q \in Seq(S) /\ r \in Seq(S)
    BY <1>6, <1>9, <2>1
  <2>3. (\A i \in 1 .. Len(q) : q[i] \in S) /\ \A i \in 1 .. Len(r) : r[i] \in S
    BY ONLY <2>2
  <2> QED
    BY <1>6, <2>1, <2>3
<1>13. Fits(w, b, f, F[j])
  BY <1>10, <1>11, <1>12 DEF Fits
<1> QED
  BY <1>3, <1>4, <1>8, <1>13

-----------------------------------------------------------------------------
(* The stack of the word that comes next, and the execution's, if it is    *)
(* there.                                                                  *)
Inner(v, N, S, F, c, h, st) ==
  /\ c \in Chains(S, N) /\ Len(c) # 0 /\ Good(v, F, c) /\ Entered(F, Len(c))
  /\ h => F[Len(c)].in /\ Stands(v, Flat(c), st)
  /\ ~h => st = << >>

(* And what is known of the innermost.                                     *)
LEMMA InnerGrows ==
  ASSUME NEW v, NEW N, NEW S, NEW w, NEW M, NEW T, Grown(v, N, S, w, M, T),
         NEW F, NEW c, NEW h, NEW st, Inner(v, N, S, F, c, h, st)
  PROVE  Inner(w, M, T, F, c, h, st)
<1>1. c \in Chains(S, N) /\ Good(v, F, c)
  BY DEF Inner
<1>2. c \in Chains(T, M)
  BY <1>1, ChainsGrow
<1>3. SameTo(F, F, Len(c))
  BY DEF SameTo
<1>4. Good(w, F, c)
  BY <1>1, <1>3, GoodGrows
<1>5. Flat(c) \in Seq(S)
  BY <1>1, SizeIs
<1>6. h => Stands(w, Flat(c), st)
  BY <1>5, StandsGrow DEF Inner
<1> QED
  BY <1>2, <1>4, <1>6 DEF Inner

(* Values are taken.                                                       *)
LEMMA InnerTakes ==
  ASSUME NEW v, NEW N, NEW S, World(v, N, S), NEW F, NEW c, NEW h, NEW st,
         Inner(v, N, S, F, c, h, st), NEW n, n \in Nat, n <= Size(c)
  PROVE  /\ PopsAll(S, N, c, n, PopN(c, n)) /\ PopN(c, n).chain # << >>
         /\ Inner(v, N, S, F, PopN(c, n).chain, h,
                  IF h THEN SubSeq(st, 1, Len(st) - n) ELSE << >>)
         /\ h => Stands(v, PopN(c, n).sources, SubSeq(st, Len(st) - n + 1, Len(st)))
         /\ h => Len(st) = Size(c)
<1>0. /\ c \in Chains(S, N) /\ Len(c) # 0 /\ Good(v, F, c) /\ Entered(F, Len(c))
      /\ h => F[Len(c)].in /\ Stands(v, Flat(c), st)
  BY DEF Inner
<1>1. N \in Nat /\ Refs(S, N) /\ Lookups(v, N)
  BY DEF World
<1>2. PICK a : a = PopN(c, n)
  OBVIOUS
<1>3. PopsAll(S, N, c, n, a)
  BY <1>0, <1>1, <1>2, PopNPops
<1>4. /\ a.chain \in Chains(S, N) /\ Len(a.chain) = Len(c)
      /\ a.sources \in Seq(S) /\ Len(a.sources) = n /\ Size(a.chain) = Size(c) - n
      /\ \A i \in 1 .. Size(c) - n : Flat(a.chain)[i] = Flat(c)[i]
  BY <1>3 DEF PopsAll
<1>5. Good(v, F, a.chain)
  BY <1>0, <1>1, <1>2, PopNGood
<1>6. PICK q, p : q = Flat(c) /\ p = Flat(a.chain)
  OBVIOUS
<1>7. q \in Seq(S) /\ p \in Seq(S) /\ Len(q) = Size(c) /\ Len(p) = Size(a.chain) /\ Len(q) \in Nat
  BY <1>0, <1>4, <1>6, SizeIs
<1>8. Len(p) = Len(q) - n /\ n \in 0 .. Len(q)
  BY <1>4, <1>7
<1>9. \A i \in 1 .. Len(q) - n : MeaningIn(v, p[i]) = MeaningIn(v, q[i])
  BY <1>4, <1>6, <1>7
<1>10. ASSUME h
       PROVE  /\ Stands(v, p, SubSeq(st, 1, Len(st) - n))
              /\ Stands(v, a.sources, SubSeq(st, Len(st) - n + 1, Len(st)))
              /\ Len(st) = Size(c)
  <2>1. Stands(v, q, st)
    BY <1>0, <1>6, <1>10
  <2>2. Stands(v, p, SubSeq(st, 1, Len(st) - n))
    BY ONLY <1>7, <1>8, <1>9, <2>1, StandsBelow
  <2>3. \A i \in 1 .. n : MeaningIn(v, a.sources[i]) = MeaningIn(v, q[Len(q) - n + i])
    <3>1. Len(c) >= 2 => F[Len(c)].in
      BY <1>0, <1>10
    <3>2. \A i \in 1 .. n : MeaningIn(v, PopN(c, n).sources[i])
                             = MeaningIn(v, Flat(c)[Size(c) - n + i])
      BY <1>0, <1>1, <3>1, PopNMeans
    <3> QED
      BY <1>2, <1>6, <1>7, <3>2
  <2>4. PICK r : r = a.sources
    OBVIOUS
  <2>5. r \in Seq(S) /\ Len(r) = n
        /\ \A i \in 1 .. n : MeaningIn(v, r[i]) = MeaningIn(v, q[Len(q) - n + i])
    BY <1>4, <2>3, <2>4
  <2>6. Stands(v, r, SubSeq(st, Len(st) - n + 1, Len(st)))
    BY ONLY <1>7, <1>8, <2>1, <2>5, StandsAbove
  <2>7. Len(st) = Len(q)
    <3>1. q \in Seq(S)
      BY <1>7
    <3>2. /\ st \in Seq(Means(v, S)) /\ Len(st) = Len(q) /\ Len(q) \in Nat
          /\ \A i \in 1 .. Len(q) : st[i] = MeaningIn(v, q[i])
      BY ONLY <2>1, <3>1, StandsIs
    <3> QED
      BY <3>2
  <2> QED
    BY <1>7, <2>2, <2>4, <2>6, <2>7
<1>11. a.chain # << >>
  BY <1>0, <1>4
<1>12. Inner(v, N, S, F, a.chain, h, IF h THEN SubSeq(st, 1, Len(st) - n) ELSE << >>)
  BY <1>0, <1>4, <1>5, <1>6, <1>10 DEF Inner
<1> QED
  BY <1>2, <1>3, <1>10, <1>11, <1>12

(* Values are left.                                                        *)
LEMMA InnerLeaves ==
  ASSUME NEW v, NEW N, NEW S, World(v, N, S), NEW F, NEW c, NEW h, NEW st,
         Inner(v, N, S, F, c, h, st), NEW q, q \in Seq(S), NEW a, h => Stands(v, q, a)
  PROVE  Inner(v, N, S, F, Push(c, q), h, IF h THEN Cat(st, a) ELSE << >>)
<1>0. /\ c \in Chains(S, N) /\ Len(c) # 0 /\ Good(v, F, c) /\ Entered(F, Len(c))
      /\ h => F[Len(c)].in /\ Stands(v, Flat(c), st)
  BY DEF Inner
<1>1. N \in Nat
  BY DEF World
<1>2. PICK d : d = Push(c, q)
  OBVIOUS
<1>3. /\ d \in Chains(S, N) /\ Len(d) = Len(c) /\ Flat(d) = Cat(Flat(c), q) /\ Good(v, F, d)
  BY <1>0, <1>1, <1>2, PushIs
<1>4. Flat(c) \in Seq(S)
  BY <1>0, SizeIs
<1>5. h => Stands(v, Cat(Flat(c), q), Cat(st, a))
  BY <1>0, <1>4, StandsBoth
<1> QED
  BY <1>0, <1>2, <1>3, <1>5 DEF Inner

=============================================================================
