-------------------------- MODULE UnstackingProofs --------------------------
(***************************************************************************)
(* The ends of branches, cases, blocks and loops, and breaks, keep what    *)
(* NestingProofs says of the stacks; so the sources on the simulated stack *)
(* always stand for the values of the execution.                           *)
(*                                                                         *)
(* A construct is closed in the way Ending says.  What its node then gives *)
(* is looked up in the branch or break by which the execution came (WayIs),*)
(* and what lies below it is what was there before, less what was taken.   *)
(***************************************************************************)
EXTENDS NestingProofs

(* A branch, block or loop ends, and b is the stack around it.             *)
Drained(x, c, b, p) ==
  /\ \A i \in 0 .. p - 2 : Dry(x.before, i) /\ Dry(c, i) => Dry(b, i)
  /\ Dry(c, p - 1) => Dry(b, p - 1)
  /\ x.done # << >> /\ Dry(x.done[1].chain, p - 1) => Dry(b, p - 1)

(* What a break took inside is not there behind it, either.                *)
LEMMA SpentClosed ==
  ASSUME NEW P, NEW c, NEW o, AllSpent(P, c, o), NEW p, p = Len(c), p \in Nat, Places(P, o, p), IsSeq(o),
         NEW l, l = Len(o), l > 1, NEW x, x = o[l], Framed(x),
         NEW b, Len(b) = p - 1, Drained(x, c, b, p),
         NEW z, Len(z) = l - 1, IsSeq(z), \A k \in 1 .. l - 1 : z[k] = o[k]
  PROVE  AllSpent(P, b, z)
<1>1. l \in Nat /\ Len(o) > 0 /\ Len(o) \in 1 .. Len(o) /\ l \in 2 .. l
  BY OneMore
<1> SUFFICES ASSUME NEW k \in 2 .. l - 1, TakesAll(z[k])
             PROVE  \E j \in P[k] .. p - 1 : Spent(P, b, z, j)
  BY DEF AllSpent
<1>2. \A i \in 2 .. l - 1 : i \in 2 .. l /\ i \in 1 .. l - 1 /\ i \in 1 .. l /\ z[i] = o[i]
  BY <1>1
<1>3. PICK j \in P[k] .. p : Spent(P, c, o, j)
  BY <1>2 DEF AllSpent
<1>4. P[l] = p /\ P \in [Nat -> Nat]
  BY DEF Places
<1>5. \A i \in 1 .. l - 1 : 1 <= P[i] /\ P[i] < p /\ P[i] \in Nat
  <2>1. \A i \in 1 .. l - 1 : i \in 1 .. l /\ i < l /\ i \in Nat
    BY <1>1
  <2>2. \A m \in 1 .. Len(o) : \A i \in 1 .. m :
           /\ 1 <= P[i] /\ P[i] <= P[m] /\ P[m] <= p
           /\ i < m /\ Framed(o[m]) => P[i] < P[m]
    BY ONLY <1>1, Places(P, o, p), IsSeq(o), PlacesRise
  <2>3. \A i \in 1 .. l : 1 <= P[i] /\ (i < l /\ Framed(o[l]) => P[i] < P[l])
    BY <1>1, <2>2
  <2> QED
    BY <1>4, <2>1, <2>3
<1>6. P[k] \in Nat /\ 1 <= P[k] /\ P[k] <= p - 1 /\ j \in Nat /\ p - 1 \in P[k] .. p - 1
  BY <1>2, <1>5
<1>7. ASSUME Dry(b, p - 1)
      PROVE  Spent(P, b, z, p - 1)
  <2>1. Dry(b, p - 1 - 1)
    <3>1. \A i \in 1 .. p - 1 - 1 : i \in 1 .. p - 1
      BY <1>6
    <3> QED
      BY <1>7, <3>1 DEF Dry
  <2>2. \A i \in 2 .. Len(z) : ~(P[i] > p - 1)
    BY <1>2, <1>5, <1>6
  <2>3. SpentNow(P, b, z, p - 1)
    BY <2>1, <2>2 DEF SpentNow
  <2> QED
    BY <2>3 DEF Spent
<1>8. CASE SpentNow(P, c, o, j)
  <2>1. Dry(c, j - 1) /\ \A i \in 2 .. l : Framed(o[i]) /\ P[i] > j => Dry(o[i].before, j - 1)
    BY <1>8 DEF SpentNow
  <2>2. CASE j = p
    <3>1. Dry(b, p - 1)
      BY <2>1, <2>2 DEF Drained
    <3> QED
      BY <1>6, <1>7, <3>1
  <2>3. CASE j # p
    <3>0. P[k] <= j /\ j <= p
      BY <1>3, <1>6
    <3>1. j \in P[k] .. p - 1 /\ P[l] > j /\ j - 1 \in 0 .. p - 2
      <4>1. j <= p - 1 /\ j - 1 >= 0
        BY <1>6, <2>3, <3>0
      <4> QED
        BY <1>4, <1>6, <3>0, <4>1
    <3>2. Dry(x.before, j - 1)
      BY <1>1, <2>1, <3>1
    <3>3. Dry(b, j - 1)
      BY <2>1, <3>1, <3>2 DEF Drained
    <3>4. \A i \in 2 .. Len(z) : Framed(z[i]) /\ P[i] > j => Dry(z[i].before, j - 1)
      BY <1>2, <2>1
    <3>5. SpentNow(P, b, z, j)
      BY <3>3, <3>4 DEF SpentNow
    <3> QED
      BY <3>1, <3>5 DEF Spent
  <2> QED
    BY <2>2, <2>3
<1>9. CASE SpentBefore(P, o, j)
  <2>1. PICK i \in 2 .. l : Framed(o[i]) /\ P[i] = j /\ o[i].done # << >> /\ Dry(o[i].done[1].chain, j - 1)
    BY <1>9 DEF SpentBefore
  <2>2. CASE i = l
    <3>1. j = p
      BY <1>4, <2>1, <2>2
    <3>2. Dry(b, p - 1)
      BY <2>1, <2>2, <3>1 DEF Drained
    <3> QED
      BY <1>6, <1>7, <3>2
  <2>3. CASE i # l
    <3>1. i \in 2 .. l - 1
      BY <1>1, <2>3
    <3>2. z[i] = o[i] /\ i \in 2 .. Len(z) /\ j <= p - 1
      BY <1>2, <1>5, <1>6, <2>1, <3>1
    <3>3. SpentBefore(P, z, j)
      BY <2>1, <3>2 DEF SpentBefore
    <3>4. j \in P[k] .. p - 1
      BY <1>6, <3>2
    <3> QED
      BY <3>3, <3>4 DEF Spent
  <2> QED
    BY <2>2, <2>3
<1> QED
  BY <1>3, <1>8, <1>9 DEF Spent

(* Who comes to the end had not missed that of a literal around it.        *)
LEMMA LiteralsClosed ==
  ASSUME NEW v, NEW N, NEW S, NEW w, NEW M, NEW T, Grown(v, N, S, w, M, T),
         NEW o, NEW h, Literal(v, S, o, h), NEW l, l = Len(o), l \in Nat, l > 1,
         NEW g, g => h \/ Late(o[l]),
         NEW z, Len(z) = l - 1, \A k \in 1 .. l - 1 : Alike(o[k], z[k])
  PROVE  Literal(w, T, z, g)
<1> SUFFICES ASSUME NEW k \in 1 .. l - 1
             PROVE  LiteralOk(w, T, z, g, k)
  BY DEF Literal
<1>1. k \in 1 .. l
  OBVIOUS
<1>2. LiteralOk(v, S, o, h, k)
  BY <1>1 DEF Literal
<1>3. Alike(o[k], z[k])
  OBVIOUS
<1>4. ASSUME Missed(o, h, k)
      PROVE  Missed(z, g, k)
  <2>1. ~h /\ \A i \in k .. l : ~Late(o[i])
    BY <1>4 DEF Missed
  <2>2. ~g
    BY <2>1
  <2>3. \A i \in k .. l - 1 : i \in k .. l /\ i \in 1 .. l - 1
    OBVIOUS
  <2>4. \A i \in k .. l - 1 : ~Late(z[i])
    BY <2>1, <2>3, AlikeKinds
  <2> QED
    BY <2>2, <2>4 DEF Missed
<1> QED
  BY ONLY <1>2, <1>3, <1>4, Grown(v, N, S, w, M, T), LiteralStays

(* What is known when a branch, block or loop ends: b is the stack around  *)
(* it, s0 the execution's, nk are the nodes with its arguments, and q, for *)
(* which a stands, is what the way taken leaves.                           *)
Closing(v, nd, wd, c, o, h, st, F, P, R, N, S, x, b, g, s0, q, r, a, nk, nx, y) ==
  /\ Sits(v, nd, wd, c, o, h, st, F, P, R) /\ Walk(o, h) /\ N = Len(v) /\ S = Level(N, R)
  /\ Len(o) > 1 /\ x = o[Len(o)] /\ Framed(x)
  /\ Inner(v, N, S, F, b, g, s0) /\ Len(b) = Len(c) - 1 /\ g \in BOOLEAN /\ (g => h \/ Late(x))
  /\ Drained(x, c, b, Len(c))
  /\ r \in Nat /\ (g => q \in Seq(S) /\ Len(q) = r /\ Stands(v, q, a))
  /\ Nodes(v, nk, S) /\ (\A i \in 1 .. N : nk[i].kind = nd[i].kind)
  /\ (\E t \in Seq(S) : Blank(nx, "exit", << >>, t))
  /\ Alike(o[Len(o) - 1], y)

ExitValues(g, r, a) == IF g /\ r > 0 THEN Reverse(a) ELSE << >>

Leaves(v, S, g, q, r, a) == r \in Nat /\ (g => q \in Seq(S) /\ Len(q) = r /\ Stands(v, q, a))
Exits(v, S, g, r, a, y) ==
  /\ DOMAIN y = 1 .. Len(y) /\ Len(y) \in Nat
  /\ g => y = Reverse(a) /\ a \in Seq(Means(v, S)) /\ Len(a) = r

(* The node of an exit has the values that leave.                          *)
LEMMA ExitValuesAre ==
  ASSUME NEW v, NEW S, NEW q, NEW g, NEW r, NEW a, Leaves(v, S, g, q, r, a),
         NEW y, y = ExitValues(g, r, a)
  PROVE  Exits(v, S, g, r, a, y)
<1> USE DEF Leaves, Exits
<1>1. CASE g /\ r > 0
  <2>1. q \in Seq(S) /\ Stands(v, q, a)
    BY <1>1
  <2>2. a \in Seq(Means(v, S)) /\ Len(a) = Len(q)
    BY ONLY <2>1, StandsIs
  <2>3. DOMAIN Reverse(a) = 1 .. Len(Reverse(a)) /\ Len(Reverse(a)) \in Nat
    BY ONLY <2>1, ReversedBack
  <2> QED
    BY <1>1, <2>2, <2>3 DEF ExitValues
<1>2. CASE ~(g /\ r > 0)
  <2>1. y = << >>
    BY <1>2 DEF ExitValues
  <2>2. ASSUME g
        PROVE  y = Reverse(a) /\ a \in Seq(Means(v, S)) /\ Len(a) = r
    <3>1. q \in Seq(S) /\ Stands(v, q, a) /\ r = 0 /\ Len(q) = 0
      BY <1>2, <2>2
    <3>2. a \in Seq(Means(v, S)) /\ Len(a) = Len(q)
      BY ONLY <3>1, StandsIs
    <3>3. a = << >>
      BY <3>1, <3>2
    <3>4. Reverse(<< >>) = << >>
      BY NothingReversed
    <3> QED
      BY <2>1, <3>1, <3>2, <3>3, <3>4
  <2>3. DOMAIN y = 1 .. Len(y) /\ Len(y) \in Nat
    BY <2>1
  <2> QED
    BY <2>2, <2>3
<1> QED
  BY <1>1, <1>2

(* Scopes of the same kinds have the same places.                          *)
LEMMA PlacesSame ==
  ASSUME NEW P, NEW o, NEW n, Places(P, o, n), NEW z, Len(z) = Len(o),
         \A k \in 2 .. Len(o) : z[k].kind = o[k].kind
  PROVE  Places(P, z, n)
<1>1. P \in [Nat -> Nat] /\ P[1] = 1 /\ P[Len(o)] = n
      /\ \A k \in 2 .. Len(o) : o[k].kind # "body" /\ P[k] = P[k - 1] + IF Framed(o[k]) THEN 1 ELSE 0
  BY DEF Places
<1>2. \A k \in 2 .. Len(o) : z[k].kind # "body" /\ (Framed(z[k]) <=> Framed(o[k]))
  BY <1>1 DEF Framed
<1> QED
  BY <1>1, <1>2 DEF Places

(* What there is behind it.                                                *)
ClosedTo(v, o, b, g, s0, N, r, a, nk, nx, y, w, ne, d, z, s) ==
  /\ w = Append(v, ExitValues(g, r, a)) /\ ne = Append(nk, nx)
  /\ d = Push(b, FromNodes(N + 1, r)) /\ z = At(Parents(o), Len(o) - 1, y)
  /\ s = IF g THEN Cat(s0, a) ELSE << >>

(* So the invariant holds behind it.                                       *)
LEMMA ClosedSits ==
  ASSUME NEW v, NEW nd, NEW wd, NEW c, NEW o, NEW h, NEW st, NEW F, NEW P, NEW R, NEW N, NEW S, NEW x,
         NEW b, NEW g, NEW s0, NEW q, NEW r, NEW a, NEW nk, NEW nx, NEW y,
         Closing(v, nd, wd, c, o, h, st, F, P, R, N, S, x, b, g, s0, q, r, a, nk, nx, y),
         NEW w, NEW ne, NEW d, NEW z, NEW s, ClosedTo(v, o, b, g, s0, N, r, a, nk, nx, y, w, ne, d, z, s)
  PROVE  SitsThen(w, ne, wd, d, z, g, s, R)
<1> DEFINE M == N + 1
<1>0. /\ M = N + 1 /\ w = Append(v, ExitValues(g, r, a)) /\ ne = Append(nk, nx)
      /\ d = Push(b, FromNodes(M, r)) /\ z = At(Parents(o), Len(o) - 1, y)
      /\ s = IF g THEN Cat(s0, a) ELSE << >>
  BY DEF ClosedTo
<1> HIDE DEF M
<1> USE <1>0
<1>1. /\ Sits(v, nd, wd, c, o, h, st, F, P, R) /\ Walk(o, h) /\ N = Len(v) /\ S = Level(N, R)
      /\ Len(o) > 1 /\ x = o[Len(o)] /\ Framed(x)
      /\ Inner(v, N, S, F, b, g, s0) /\ Len(b) = Len(c) - 1 /\ g \in BOOLEAN /\ (g => h \/ Late(x))
      /\ Drained(x, c, b, Len(c))
      /\ r \in Nat /\ (g => q \in Seq(S) /\ Len(q) = r /\ Stands(v, q, a))
      /\ Nodes(v, nk, S) /\ (\A i \in 1 .. N : nk[i].kind = nd[i].kind)
      /\ Alike(o[Len(o) - 1], y)
  BY DEF Closing
<1>2. PICK t \in Seq(S) : Blank(nx, "exit", << >>, t)
  BY DEF Closing
<1>3. PICK l, p, T, k1, e : l = Len(o) /\ p = Len(c) /\ T = Level(M, R) /\ k1 = l - 1 /\ e = ExitValues(g, r, a)
  OBVIOUS
<1>4. /\ N \in Nat /\ R \in Nat /\ R <= MaxWords /\ l \in Nat /\ p \in Nat /\ p # 0
  <2>1. Len(v) \in Nat /\ R \in Nat /\ Len(o) \in Nat /\ Len(c) \in Nat /\ Len(c) # 0 /\ R <= MaxWords
    BY ONLY <1>1, SitsIs
  <2> QED
    BY <1>1, <1>3, <2>1
<1>5. /\ DOMAIN F = Nat /\ F[1].in /\ Counted(R, wd, o, c)
      /\ Places(P, o, p) /\ Scopes(v, nd, N, S, F, P, o, l)
      /\ Literal(v, S, o, h) /\ AllSpent(P, c, o)
  BY <1>1, <1>3 DEF Sits
<1>6. IsSeq(o) /\ (\A k \in 1 .. l : Sound(o[k])) /\ l > 1 /\ k1 \in Nat /\ k1 >= 1 /\ k1 \in 1 .. k1
  BY <1>1, <1>3, <1>4 DEF Walk
<1>7. PICK z0 : z0 = Parents(o)
  OBVIOUS
<1>8. IsSeq(z0) /\ Len(z0) = k1 /\ \A k \in 1 .. k1 : z0[k] = o[k]
  <2>1. IsSeq(o) /\ Len(o) > 0 /\ k1 = Len(o) - 1
    BY <1>3, <1>4, <1>6
  <2>2. /\ IsSeq(Parents(o)) /\ Len(Parents(o)) = Len(o) - 1
        /\ \A k \in 1 .. Len(o) - 1 : Parents(o)[k] = o[k]
    BY ONLY <2>1, OneLess
  <2> QED
    BY ONLY <1>7, <2>1, <2>2
<1>9. IsSeq(z) /\ Len(z) = k1 /\ \A k \in 1 .. k1 : z[k] = IF k = k1 THEN y ELSE o[k]
  <2>1. z = At(z0, k1, y) /\ k1 \in 1 .. Len(z0)
    BY <1>3, <1>6, <1>7, <1>8
  <2>2. IsSeq(z) /\ Len(z) = Len(z0) /\ \A k \in 1 .. Len(z0) : z[k] = IF k = k1 THEN y ELSE z0[k]
    <3>1. IsSeq(z0)
      BY <1>8
    <3> QED
      BY ONLY <2>1, <3>1, OneChanged
  <2> QED
    BY <1>8, <2>2
<1>10. \A k \in 1 .. k1 : Alike(o[k], z[k]) /\ z[k].kind = o[k].kind
  <2>1. \A k \in 1 .. k1 : k # k1 => Alike(o[k], z[k])
    BY <1>9 DEF Alike
  <2>2. Alike(o[k1], z[k1])
    BY <1>1, <1>3, <1>6, <1>9
  <2>3. \A k \in 1 .. k1 : Alike(o[k], z[k])
    BY <2>1, <2>2
  <2> QED
    BY <2>3 DEF Alike
<1>11. DOMAIN e = 1 .. Len(e) /\ Len(e) \in Nat /\ (g => e = Reverse(a) /\ a \in Seq(Means(v, S)) /\ Len(a) = r)
  <2>1. Leaves(v, S, g, q, r, a) /\ e = ExitValues(g, r, a)
    BY <1>1, <1>3 DEF Leaves
  <2>2. Exits(v, S, g, r, a, e)
    BY ONLY <2>1, ExitValuesAre
  <2> QED
    BY <2>2 DEF Exits
<1>12. Added(v, nk, N, S, e, w, M, T, nx, ne)
  <2>1. N = Len(v) /\ R \in Nat /\ R <= R /\ R <= MaxWords /\ S = Level(N, R) /\ Nodes(v, nk, S)
    BY <1>1, <1>4
  <2>2. w = Append(v, e) /\ M = N + 1 /\ T = Level(M, R) /\ ne = Append(nk, nx)
    BY <1>3
  <2> QED
    BY ONLY <1>11, <2>1, <2>2, NodeAdded
<1>13. /\ Grown(v, N, S, w, M, T) /\ World(w, M, T) /\ M \in Nat /\ M = Len(w) /\ M \in 1 .. M /\ w[M] = e
       /\ (\A i \in 1 .. N : ne[i] = nk[i]) /\ DOMAIN w[M] = 1 .. Len(w[M]) /\ Len(w[M]) \in Nat
       /\ (NodeOk(w, T, M, nx) => Nodes(w, ne, T))
  BY <1>12 DEF Added
<1>14. Nodes(w, ne, T)
  <2>1. PICK kind, none : kind = "exit" /\ none = << >>
    OBVIOUS
  <2>2. Blank(nx, kind, none, t)
    BY <1>2, <2>1
  <2>3. none \in Seq(T)
    BY <2>1
  <2>4. t \in Seq(T)
    <3>1. S \subseteq T
      BY <1>13 DEF Grown
    <3> QED
      BY <1>2, <3>1, SeqMonotonic
  <2>5. kind \in {"call", "annotation"} \/ none = << >>
    BY <2>1
  <2>6. NodeOk(w, T, M, nx)
    BY ONLY <1>13, <2>2, <2>3, <2>4, <2>5, NodeIs
  <2> QED
    BY <1>13, <2>6
<1>15. \A i \in 1 .. N : ne[i].kind = nd[i].kind
  BY <1>1, <1>13
<1>16. PICK u : u = FromNodes(M, r)
  OBVIOUS
<1>17. u \in Seq(T) /\ (g => Stands(w, u, a))
  <2>1. /\ FromNodes(M, r) \in Seq(T) /\ Len(FromNodes(M, r)) = r
        /\ \A V : \A a1 \in Seq(V) :
             Len(a1) = r /\ w[M] = Reverse(a1) => Stands(w, FromNodes(M, r), a1)
    <3>1. World(w, M, T) /\ M \in 1 .. M /\ r \in Nat
      BY <1>1, <1>13
    <3> QED
      BY ONLY <3>1, FromNodesStand
  <2>2. g => w[M] = Reverse(a) /\ a \in Seq(Means(v, S)) /\ Len(a) = r
    BY <1>11, <1>13
  <2> QED
    BY <1>16, <2>1, <2>2
<1>18. Inner(w, M, T, F, d, g, s)
  <2>1. Inner(w, M, T, F, b, g, s0)
    BY ONLY <1>1, <1>13, InnerGrows
  <2>2. Inner(w, M, T, F, Push(b, u), g, IF g THEN Cat(s0, a) ELSE << >>)
    BY ONLY <1>13, <1>17, <2>1, InnerLeaves
  <2> QED
    BY <1>16, <2>2
<1>19. Len(b) = p - 1 /\ Len(d) = Len(b) /\ Len(b) \in Nat /\ \A i \in 0 .. Len(b) - 1 : Dry(b, i) => Dry(d, i)
  <2>1. b \in Chains(T, M) /\ Len(b) # 0 /\ M \in Nat
    BY <1>1, <1>13, ChainsGrow DEF Inner
  <2>2. Len(Push(b, u)) = Len(b) /\ \A j \in 0 .. Len(b) - 1 : Dry(b, j) => Dry(Push(b, u), j)
    BY ONLY <1>17, <2>1, PushIs
  <2>3. Len(b) = p - 1 /\ Len(b) \in Nat
    BY <1>1, <1>3, <1>4
  <2>4. d = Push(b, u)
    BY <1>16
  <2> QED
    BY <2>2, <2>3, <2>4
<1>20. Places(P, z0, p - 1) /\ Places(P, z, p - 1)
  <2>1. PICK m : m = P[l - 1]
    OBVIOUS
  <2>2. \A k \in 1 .. l - 1 : z0[k].kind = o[k].kind
    BY <1>3, <1>8
  <2>3. l = Len(o) /\ Len(z0) = l - 1
    BY <1>3, <1>8
  <2>4. /\ Places(P, z0, m) /\ p = m + IF Framed(o[l]) THEN 1 ELSE 0
        /\ m \in Nat /\ 1 <= m /\ m <= l - 1
    <3>1. Places(P, o, p) /\ IsSeq(o) /\ l > 1 /\ IsSeq(z0)
      BY <1>5, <1>6, <1>8
    <3> QED
      BY ONLY <2>1, <2>2, <2>3, <3>1, PlacesClose
  <2>5. m = p - 1
    BY <1>1, <1>3, <1>4, <2>4
  <2>6. \A k \in 2 .. Len(z0) : z[k].kind = z0[k].kind
    BY <1>8, <1>10
  <2>7. Places(P, z0, p - 1)
    BY <2>4, <2>5
  <2>8. Len(z) = Len(z0)
    BY <1>8, <1>9
  <2> QED
    BY <2>6, <2>7, <2>8, PlacesSame
<1>21. Scopes(w, ne, M, T, F, P, z, k1)
  <2>1. \A k \in 2 .. k1 : k \in 1 .. k1 /\ k \in 1 .. l /\ k \in 2 .. l
    BY <1>3, <1>4
  <2>2. Scopes(v, nd, N, S, F, P, o, k1)
    BY <1>5, <2>1 DEF Scopes
  <2>3. \A k \in 2 .. k1 : Sound(o[k]) /\ Resembles(o[k], z[k]) /\ P[k] = P[k] /\ SameTo(F, F, P[k])
    BY <1>6, <1>10, <2>1 DEF Resembles, SameTo
  <2>4. Grown(v, N, S, w, M, T)
    BY <1>13
  <2> QED
    BY ONLY <1>15, <2>2, <2>3, <2>4, ScopesGrow
<1>22. AllSpent(P, d, z)
  <2>1. AllSpent(P, b, z0)
    <3>1. AllSpent(P, c, o) /\ p = Len(c) /\ p \in Nat /\ Places(P, o, p) /\ IsSeq(o)
      BY <1>3, <1>4, <1>5, <1>6
    <3>2. l = Len(o) /\ l > 1 /\ x = o[l] /\ Framed(x) /\ Len(b) = p - 1 /\ Drained(x, c, b, p)
      BY <1>1, <1>3
    <3>3. Len(z0) = l - 1 /\ IsSeq(z0) /\ \A k \in 1 .. l - 1 : z0[k] = o[k]
      BY <1>3, <1>8
    <3> QED
      BY ONLY <3>1, <3>2, <3>3, SpentClosed
  <2>2. Places(P, z0, Len(b)) /\ IsSeq(z0) /\ Len(z0) > 0
    BY <1>3, <1>6, <1>8, <1>19, <1>20
  <2>3. Len(z) = Len(z0) /\ \A k \in 2 .. Len(z0) : Resembles(z0[k], z[k])
    BY <1>8, <1>9, <1>10 DEF Resembles
  <2> QED
    BY ONLY <1>19, <2>1, <2>2, <2>3, SpentStays
<1>23. Literal(w, T, z, g)
  <2>1. Grown(v, N, S, w, M, T) /\ Literal(v, S, o, h) /\ l = Len(o) /\ l \in Nat /\ l > 1
    BY <1>3, <1>4, <1>5, <1>6, <1>13
  <2>2. (g => h \/ Late(o[l])) /\ Len(z) = l - 1 /\ \A k \in 1 .. l - 1 : Alike(o[k], z[k])
    BY <1>1, <1>3, <1>9, <1>10
  <2> QED
    BY ONLY <2>1, <2>2, LiteralsClosed
<1>24. Counted(R, wd, z, d)
  <2>1. R + l - p <= wd
    BY <1>3, <1>5 DEF Counted
  <2>2. R + k1 - (p - 1) <= wd
    BY <1>3, <1>4, <2>1
  <2> QED
    BY <1>5, <1>9, <1>19, <2>2 DEF Counted
<1>25. Places(P, z, Len(d)) /\ Scopes(w, ne, M, T, F, P, z, Len(z))
  BY <1>9, <1>19, <1>20, <1>21
<1>26. M = Len(w) /\ T = Level(M, R)
  BY <1>3, <1>13
<1>27. Sits(w, ne, wd, d, z, g, s, F, P, R)
  BY ONLY <1>5, <1>14, <1>18, <1>22, <1>23, <1>24, <1>25, <1>26, SitsBy
<1> QED
  BY <1>27 DEF SitsThen

(* The stack around a branch when it has taken e values, and these.        *)
Taken(v, N, S, F, p, x, e, en) ==
  /\ PopsAll(S, N, x.before, e, en)
  /\ Inner(v, N, S, F, en.chain, F[p].in,
           IF F[p].in THEN SubSeq(Reverse(v[x.node]), 1, F[p].size - e) ELSE << >>)
  /\ F[p].in => /\ Stands(v, en.sources, SubSeq(Reverse(v[x.node]), F[p].size - e + 1, F[p].size))
                /\ Len(v[x.node]) = F[p].size /\ F[p].size \in Nat

(* They are values that its entry had.                                     *)
LEMMA BeforeTaken ==
  ASSUME NEW v, NEW N, NEW S, World(v, N, S), NEW F, NEW p, NEW x, EntryIs(v, N, S, F, p, x), Entered(F, p),
         Len(v[x.node]) \in Nat, NEW e, e \in Nat, e <= Size(x.before), NEW en, en = PopN(x.before, e)
  PROVE  Taken(v, N, S, F, p, x, e, en)
<1>1. PICK b, y, u, i : b = x.before /\ y = v[x.node] /\ u = Reverse(y) /\ i = F[p].in
  OBVIOUS
<1>2. /\ p \in Nat /\ p >= 2 /\ F[p].size = Size(b) /\ b \in Chains(S, N) /\ Len(b) = p - 1 /\ Good(v, F, b)
      /\ i => Stands(v, Flat(b), u)
  BY <1>1 DEF EntryIs
<1>3. Flat(b) \in Seq(S) /\ Size(b) = Len(Flat(b)) /\ Size(b) \in Nat
  BY <1>2, SizeIs
<1>4. PICK s : s = IF i THEN u ELSE << >>
  OBVIOUS
<1>5. Inner(v, N, S, F, b, i, s)
  <2>1. Entered(F, Len(b))
    BY <1>2 DEF Entered
  <2>2. i => F[Len(b)].in
    <3>1. p \in 2 .. p
      BY <1>2
    <3>2. F[p].in => F[p - 1].in
      BY <3>1 DEF Entered
    <3> QED
      BY <1>1, <1>2, <3>2
  <2>3. Len(b) # 0
    BY <1>2
  <2>4. (i => Stands(v, Flat(b), s)) /\ (~i => s = << >>)
    BY <1>2, <1>4
  <2> QED
    BY <1>2, <2>1, <2>2, <2>3, <2>4 DEF Inner
<1>6. e \in Nat /\ e <= Size(b)
  BY <1>1
<1>7. /\ PopsAll(S, N, b, e, PopN(b, e)) /\ PopN(b, e).chain # << >>
      /\ Inner(v, N, S, F, PopN(b, e).chain, i,
               IF i THEN SubSeq(s, 1, Len(s) - e) ELSE << >>)
      /\ i => Stands(v, PopN(b, e).sources, SubSeq(s, Len(s) - e + 1, Len(s)))
      /\ i => Len(s) = Size(b)
  BY ONLY <1>5, <1>6, World(v, N, S), InnerTakes
<1>8. en = PopN(b, e)
  BY <1>1
<1>9. i => s = u /\ Len(s) = F[p].size /\ Len(y) = F[p].size
  <2>1. Len(Reverse(y)) = Len(y)
    BY <1>1, ReversedIs
  <2> QED
    BY <1>1, <1>2, <1>4, <1>7, <2>1
<1>10. Inner(v, N, S, F, en.chain, i, IF i THEN SubSeq(u, 1, F[p].size - e) ELSE << >>)
  <2>1. (IF i THEN SubSeq(s, 1, Len(s) - e) ELSE << >>) = (IF i THEN SubSeq(u, 1, F[p].size - e) ELSE << >>)
    BY <1>9
  <2> QED
    BY <1>7, <1>8, <2>1
<1>11. i => Stands(v, en.sources, SubSeq(u, F[p].size - e + 1, F[p].size))
  BY <1>7, <1>8, <1>9
<1>12. F[p].size \in Nat
  BY <1>2, <1>3
<1> QED
  BY <1>1, <1>7, <1>8, <1>9, <1>10, <1>11, <1>12 DEF Taken

(* Its arguments, where inference looks for them.                          *)
LEMMA ArgumentsGiven ==
  ASSUME NEW v, NEW N, NEW S, NEW F, NEW p, NEW x, EntryIs(v, N, S, F, p, x),
         NEW e, e \in Nat, e <= Size(x.before), NEW en, Taken(v, N, S, F, p, x, e, en),
         NEW y, NodeOk(v, S, x.node, y), y.kind \notin {"loop"},
         NEW q, q = en.sources, NEW yy, yy = [y EXCEPT !.arguments = q]
  PROVE  NodeOk(v, S, x.node, yy) /\ yy.kind = y.kind
<1>1. PICK n, z, u, m : n = x.node /\ z = v[n] /\ u = Reverse(z) /\ m = F[p].size
  OBVIOUS
<1>2. q \in Seq(S) /\ Len(q) = e
  BY DEF Taken, PopsAll
<1>3. /\ DOMAIN y = NodeFields /\ y.next \in Seq(S) /\ y.subject \in Seq(S)
      /\ DOMAIN z = 1 .. Len(z) /\ Len(z) \in Nat /\ EntryOk(v, n, y)
  BY <1>1 DEF NodeOk
<1>4. /\ DOMAIN yy = NodeFields /\ yy.arguments = q /\ yy.next = y.next /\ yy.subject = y.subject
      /\ yy.kind = y.kind /\ yy.again = y.again
  BY <1>3 DEF NodeFields
<1>5. PICK r : r = Reverse(q)
  OBVIOUS
<1>6. r = ByDepth(yy) /\ Len(r) = e /\ DOMAIN r = 1 .. e /\ \A i \in 1 .. e : r[i] = q[e + 1 - i]
  <2>1. Reverse(q) \in Seq(S) /\ Len(Reverse(q)) = Len(q) /\ \A i \in 1 .. Len(q) : Reverse(q)[i] = q[Len(q) + 1 - i]
    BY <1>2, ReverseOf
  <2>2. r = ByDepth(yy)
    BY <1>4, <1>5 DEF ByDepth
  <2>3. DOMAIN r = 1 .. Len(r)
    BY <1>5, <2>1
  <2> QED
    BY <1>2, <1>5, <2>1, <2>2, <2>3
<1>7. ASSUME NEW d \in DOMAIN r \cap DOMAIN z
      PROVE  MeaningIn(v, r[d]) = z[d]
  <2>1. d \in 1 .. Len(z) /\ d \in 1 .. e /\ z # << >>
    BY <1>3, <1>6
  <2>2. F[p].in
    BY <1>1, <2>1 DEF EntryIs
  <2>3. PICK a : a = SubSeq(u, m - e + 1, m)
    OBVIOUS
  <2>4. Stands(v, q, a) /\ Len(z) = m /\ m \in Nat
    BY <1>1, <2>2, <2>3 DEF Taken
  <2>5. Len(a) = e /\ \A i \in 1 .. e : a[i] = MeaningIn(v, q[i])
    <3>1. a \in Seq(Means(v, S)) /\ Len(a) = Len(q) /\ \A i \in 1 .. Len(q) : a[i] = MeaningIn(v, q[i])
      BY ONLY <1>2, <2>4, StandsIs
    <3> QED
      BY <1>2, <3>1
  <2>6. PICK k : k = e + 1 - d
    OBVIOUS
  <2>7. k \in 1 .. e /\ r[d] = q[k]
    BY <1>6, <2>1, <2>6
  <2>8. a[k] = u[m - e + k]
    <3>1. PICK lo, V, f : lo = m - e /\ V = Means(v, S) /\ f = Flat(x.before)
      OBVIOUS
    <3>2. f \in Seq(S) /\ e <= m
      BY <1>1, <3>1, SizeIs DEF EntryIs
    <3>3. Stands(v, f, u)
      BY <1>1, <2>2, <3>1 DEF EntryIs
    <3>4. u \in Seq(V)
      BY ONLY <3>1, <3>2, <3>3, StandsIs
    <3>5. Len(u) = m
      BY <1>1, <1>3, <2>4, ReversedIs
    <3>6. lo \in Nat /\ lo + e <= Len(u) /\ lo + e = m /\ e \in Nat
      BY <2>4, <3>1, <3>2, <3>5
    <3>7. \A i \in 1 .. e : SubSeq(u, lo + 1, lo + e)[i] = u[lo + i]
      BY ONLY <3>4, <3>6, PieceOf
    <3> QED
      BY <2>3, <2>7, <3>1, <3>6, <3>7
  <2>9. u[m - e + k] = z[d]
    <3>1. Len(Reverse(z)) = Len(z) /\ \A i \in 1 .. Len(z) : Reverse(z)[i] = z[Len(z) + 1 - i]
      BY <1>3, ReversedIs
    <3>2. PICK j : j = m - e + k
      OBVIOUS
    <3>3. e <= m
      BY <1>1 DEF EntryIs
    <3>4. j \in 1 .. Len(z) /\ Len(z) + 1 - j = d
      BY <2>1, <2>4, <2>6, <2>7, <3>2, <3>3
    <3> QED
      BY <1>1, <3>1, <3>2, <3>4
  <2> QED
    BY <2>5, <2>7, <2>8, <2>9
<1>8. EntryOk(v, n, yy)
  <2>1. yy.kind \notin {"call", "annotation", "exit"} =>
          \A d \in DOMAIN y.again :
            y.again[d] = IF d \in DOMAIN Reverse(y.next) THEN MeaningIn(v, Reverse(y.next)[d]) ELSE v[n][d]
    BY <1>3, <1>4 DEF EntryOk
  <2> QED
    BY <1>1, <1>4, <1>6, <1>7, <2>1 DEF EntryOk
<1> QED
  BY <1>1, <1>2, <1>3, <1>4, <1>8 DEF NodeOk

(* A sequence reversed is one of the same elements.                        *)
LEMMA ReversedSeq ==
  ASSUME NEW y, Len(y) \in Nat
  PROVE  Reverse(y) \in Seq({y[i] : i \in 1 .. Len(y)})
<1>1. PICK n, T : n = Len(y) /\ T = {y[i] : i \in 1 .. n}
  OBVIOUS
<1>2. \A i \in 1 .. n : n - i + 1 \in 1 .. n /\ y[n - i + 1] \in T
  BY <1>1
<1>3. Reverse(y) = [i \in 1 .. n |-> y[n - i + 1]]
  BY <1>1 DEF Reverse
<1>4. Reverse(y) \in [1 .. n -> T]
  BY <1>2, <1>3
<1> QED
  BY <1>1, <1>4

(* Sequences of the same elements are the same.                            *)
LEMMA SameSeq ==
  ASSUME NEW V, NEW a, a \in Seq(V), NEW W, NEW b, b \in Seq(W), NEW n, n = Len(a), Len(b) = n,
         \A i \in 1 .. n : a[i] = b[i]
  PROVE  a = b
OBVIOUS

(* A sequence is what it begins and ends with.                             *)
LEMMA TwoParts ==
  ASSUME NEW V, NEW a, a \in Seq(V), NEW W, NEW u, u \in Seq(W), NEW k, k \in Nat, k <= Len(a), k <= Len(u),
         \A i \in 1 .. k : a[i] = u[i], NEW r, r = Len(a) - k
  PROVE  a = Cat(SubSeq(u, 1, k), SubSeq(a, Len(a) - r + 1, Len(a)))
<1>1. PICK b, q : b = SubSeq(u, 0 + 1, 0 + k) /\ q = SubSeq(a, k + 1, k + r)
  OBVIOUS
<1>2. r \in Nat /\ k + r = Len(a) /\ Len(a) \in Nat
  OBVIOUS
<1>3. b \in Seq(W) /\ Len(b) = k /\ \A i \in 1 .. k : b[i] = u[0 + i]
  <2>1. 0 \in Nat /\ 0 + k <= Len(u) /\ k \in Nat
    OBVIOUS
  <2>2. PICK e : e = 0
    OBVIOUS
  <2>3. e \in Nat /\ e + k <= Len(u) /\ u \in Seq(W)
    BY <2>1, <2>2
  <2>4. SubSeq(u, e + 1, e + k) \in Seq(W) /\ Len(SubSeq(u, e + 1, e + k)) = k
         /\ \A i \in 1 .. k : SubSeq(u, e + 1, e + k)[i] = u[e + i]
    BY ONLY <2>1, <2>3, PieceOf
  <2> QED
    BY <1>1, <2>2, <2>4
<1>4. q \in Seq(V) /\ Len(q) = r /\ \A i \in 1 .. r : q[i] = a[k + i]
  <2>1. k + r <= Len(a) /\ k \in Nat /\ r \in Nat /\ a \in Seq(V)
    BY <1>2
  <2> QED
    BY ONLY <1>1, <2>1, PieceOf
<1>5. PICK Z : Z = V \cup W
  OBVIOUS
<1>6. b \in Seq(Z) /\ q \in Seq(Z)
  BY <1>3, <1>4, <1>5, SeqMonotonic
<1>7. PICK s : s = Cat(b, q)
  OBVIOUS
<1>8. /\ s \in Seq(Z) /\ Len(s) = k + r
      /\ \A i \in 1 .. k : s[i] = b[i]
      /\ \A i \in 1 .. r : s[k + i] = q[i]
  <2>1. /\ Cat(b, q) \in Seq(Z) /\ Len(Cat(b, q)) = Len(b) + Len(q)
        /\ \A i \in 1 .. Len(b) : Cat(b, q)[i] = b[i]
        /\ \A i \in 1 .. Len(q) : Cat(b, q)[Len(b) + i] = q[i]
    BY ONLY <1>6, CatOf
  <2>2. Len(b) = k /\ Len(q) = r
    BY <1>3, <1>4
  <2> QED
    BY ONLY <1>7, <2>1, <2>2
<1>9. ASSUME NEW i \in 1 .. Len(a)
      PROVE  a[i] = s[i]
  <2>1. CASE i <= k
    <3>1. i \in 1 .. k /\ 0 + i = i
      BY <1>2, <2>1
    <3>2. b[i] = u[i] /\ s[i] = b[i]
      BY ONLY <1>3, <1>8, <3>1
    <3> QED
      BY <3>1, <3>2
  <2>2. CASE i > k
    <3>1. PICK j : j = i - k
      OBVIOUS
    <3>2. j \in 1 .. r /\ k + j = i
      BY <1>2, <2>2, <3>1
    <3>3. s[k + j] = q[j] /\ q[j] = a[k + j]
      BY <1>4, <1>8, <3>2
    <3> QED
      BY <3>2, <3>3
  <2> QED
    BY <2>1, <2>2
<1>10. a = s
  <2>1. Len(a) = Len(s)
    BY <1>2, <1>8
  <2> QED
    BY <1>8, <1>9, <2>1, SameSeq
<1>11. SubSeq(u, 1, k) = b /\ SubSeq(a, Len(a) - r + 1, Len(a)) = q
  <2>1. 0 + 1 = 1 /\ 0 + k = k /\ Len(a) - r + 1 = k + 1
    BY <1>2
  <2> QED
    BY ONLY <1>1, <1>2, <2>1
<1> QED
  BY <1>7, <1>10, <1>11

(* What the way taken did not take is what there was.                      *)
LEMMA ComesBack ==
  ASSUME NEW v, NEW N, NEW S, N \in Nat, NEW F, NEW p, p >= 2, NEW c, c \in Chains(S, N), Len(c) = p,
         Good(v, F, c), F[p].in, NEW a, Stands(v, Flat(c), a),
         NEW r, r \in Nat, NEW k, k \in Nat, k = Size(c) - r, k <= Size(Parents(c)),
         NEW u, u = Reverse(v[F[p].node])
  PROVE  a = Cat(SubSeq(u, 1, k), SubSeq(a, Len(a) - r + 1, Len(a)))
<1>1. Len(c) # 0 /\ p \in Nat
  BY SizeIs
<1>2. PICK b, f : /\ b \in Chains(S, N) /\ f \in Frames(S, N) /\ (Len(b) > 0 => f.node # 0)
                  /\ c = Append(b, f) /\ Len(c) = Len(b) + 1 /\ Len(b) \in Nat
  BY ONLY <1>1, c \in Chains(S, N), N \in Nat, ChainIs
<1>3. Parents(c) = b
  BY <1>2, ChainOf
<1>4. Fits(v, b, f, F[p])
  <2>1. Good(v, F, Append(b, f)) <=> Good(v, F, b) /\ (Len(b) > 0 => Fits(v, b, f, F[Len(b) + 1]))
    BY ONLY <1>2, N \in Nat, GoodAppend
  <2>2. Len(b) > 0 /\ Len(b) + 1 = p
    BY <1>1, <1>2
  <2> QED
    BY <1>2, <2>1, <2>2
<1>5. PICK y, m, q, t : y = v[F[p].node] /\ m = F[p].size /\ q = Flat(c) /\ t = Flat(b)
  OBVIOUS
<1>6. /\ Len(y) = m /\ Size(b) + Len(f.negative) = m
      /\ \A i \in 1 .. Size(b) : MeaningIn(v, t[i]) = y[m + 1 - i]
  BY <1>4, <1>5 DEF Fits
<1>7. t \in Seq(S) /\ Size(b) = Len(t) /\ Size(b) \in Nat /\ q \in Seq(S) /\ Size(c) = Len(q) /\ Size(c) \in Nat
  BY <1>2, <1>5, SizeIs
<1>8. f.positive \in Seq(S) /\ f.negative \in Seq(S)
  BY <1>2 DEF Frames
<1>9. q = Cat(t, f.positive)
  <2>1. b \in Chains(S, N) /\ f \in Frames(S, N) /\ c = Append(b, f)
    BY <1>2
  <2>2. Flat(Append(b, f)) = Cat(Flat(b), f.positive)
    BY ONLY <2>1, FlatAppend
  <2> QED
    BY ONLY <1>5, <2>1, <2>2
<1>10. \A i \in 1 .. Len(t) : q[i] = t[i]
  <2>1. t \in Seq(S) /\ f.positive \in Seq(S)
    BY <1>7, <1>8
  <2>2. \A i \in 1 .. Len(t) : Cat(t, f.positive)[i] = t[i]
    BY ONLY <2>1, CatOf
  <2> QED
    BY ONLY <1>9, <2>2
<1>11. m \in Nat /\ Size(b) <= m
  BY <1>6, <1>7, <1>8
<1>12. Len(u) = m /\ \A i \in 1 .. m : u[i] = y[m + 1 - i]
  <2>1. u = Reverse(y) /\ Len(y) = m /\ Len(y) \in Nat
    BY <1>5, <1>6, <1>11
  <2> QED
    BY ONLY <2>1, ReversedIs
<1>13. PICK W : u \in Seq(W)
  <2>1. Len(y) \in Nat
    BY <1>6, <1>11
  <2> QED
    BY <1>5, <2>1, ReversedSeq
<1>14. a \in Seq(Means(v, S)) /\ Len(a) = Len(q) /\ \A i \in 1 .. Len(q) : a[i] = MeaningIn(v, q[i])
  <2>1. Stands(v, q, a)
    BY <1>5
  <2> QED
    BY ONLY <1>7, <2>1, StandsIs
<1>15. k <= Len(a) /\ k <= Len(u) /\ r = Len(a) - k /\ k <= Len(t)
  BY <1>3, <1>7, <1>11, <1>12, <1>14
<1>16. ASSUME NEW i \in 1 .. k
       PROVE  a[i] = u[i]
  <2>1. i \in 1 .. Len(t) /\ i \in 1 .. Len(q) /\ i \in 1 .. m
    <3>1. k <= Len(t) /\ Len(t) <= m /\ k <= Len(q) /\ Len(t) \in Nat /\ m \in Nat /\ Len(q) \in Nat
      BY <1>7, <1>11, <1>14, <1>15
    <3> QED
      BY ONLY <3>1, i \in 1 .. k, k \in Nat
  <2> QED
    BY <1>6, <1>7, <1>10, <1>12, <1>14, <2>1
<1>17. a \in Seq(Means(v, S)) /\ k \in Nat /\ k <= Len(a) /\ k <= Len(u) /\ r = Len(a) - k
  BY <1>14, <1>15
<1> QED
  BY ONLY <1>13, <1>16, <1>17, TwoParts

(* One node gets its arguments.                                            *)
LEMMA NodeChanged ==
  ASSUME NEW v, NEW nd, NEW S, Nodes(v, nd, S), NEW n, n \in 1 .. Len(v), NEW y, NodeOk(v, S, n, y),
         y.kind = nd[n].kind, NEW nk, nk = At(nd, n, y)
  PROVE  Nodes(v, nk, S) /\ \A i \in 1 .. Len(v) : nk[i].kind = nd[i].kind
<1>1. IsSeq(v) /\ IsSeq(nd) /\ Len(nd) = Len(v) /\ \A i \in 1 .. Len(v) : NodeOk(v, S, i, nd[i])
  BY DEF Nodes
<1>2. n \in 1 .. Len(nd)
  BY <1>1
<1>3. IsSeq(nk) /\ Len(nk) = Len(nd) /\ \A i \in 1 .. Len(nd) : nk[i] = IF i = n THEN y ELSE nd[i]
  BY ONLY <1>1, <1>2, nk = At(nd, n, y), OneChanged
<1>4. \A i \in 1 .. Len(v) : NodeOk(v, S, i, nk[i]) /\ nk[i].kind = nd[i].kind
  BY <1>1, <1>3
<1> QED
  BY <1>1, <1>3, <1>4 DEF Nodes

(* How the innermost scope ends.                                           *)
Ending(F, P, R, N, S, p, base, args, r, ends, way, reach, over, after, g, s0, a) ==
  /\ Sits(value, nodes, words, chain, open, here, stack, F, P, R) /\ N = Len(value) /\ S = Level(N, R)
  /\ p = Len(chain) /\ Framed(Top)
  /\ Leave(base, args, r, ends, way, reach, over, after) /\ words' = words
  /\ g = Present /\ Inner(value, N, S, F, base, g, s0) /\ Len(base) = p - 1
  /\ Drained(Top, chain, base, p) /\ Leaves(value, S, g, ends[way], r, a)
  /\ NodeOk(value, S, Top.node, [nodes[Top.node] EXCEPT !.arguments = args])
  /\ (g => after = Cat(s0, a))

(* So Leave keeps the invariant.                                           *)
LEMMA LeaveKeeps ==
  ASSUME IndInv, NEW F, NEW P, NEW R, NEW N, NEW S, NEW p, NEW base, NEW args, NEW r, NEW ends, NEW way,
         NEW reach, NEW over, NEW after, NEW g, NEW s0, NEW a,
         Ending(F, P, R, N, S, p, base, args, r, ends, way, reach, over, after, g, s0, a)
  PROVE  Faithful'
<1>1. /\ Sits(value, nodes, words, chain, open, here, stack, F, P, R) /\ N = Len(value) /\ S = Level(N, R)
      /\ p = Len(chain) /\ Framed(Top)
      /\ Leave(base, args, r, ends, way, reach, over, after) /\ words' = words
      /\ g = Present /\ Inner(value, N, S, F, base, g, s0) /\ Len(base) = p - 1
      /\ Drained(Top, chain, base, p) /\ Leaves(value, S, g, ends[way], r, a)
      /\ NodeOk(value, S, Top.node, [nodes[Top.node] EXCEPT !.arguments = args])
      /\ (g => after = Cat(s0, a))
  BY DEF Ending
<1>2. PICK v, nd, wd, h, o, st, c, x : /\ v = value /\ nd = nodes /\ wd = words /\ h = here /\ o = open
                                       /\ st = stack /\ c = chain /\ x = Top
  OBVIOUS
<1>3. PICK n, q, M, t, sub, l : /\ n = x.node /\ q = ends[way] /\ M = N + 1 /\ sub = nd[n].subject
                                /\ t = ToSet(ends) /\ l = Len(o)
  OBVIOUS
<1>4. PICK yn, nx, ya : /\ yn = [nd[n] EXCEPT !.arguments = args]
                        /\ nx = [Node("exit", << >>) EXCEPT !.ends = t, !.subject = sub]
                        /\ ya = [Enclosing EXCEPT !.reachable = reach, !.over = over]
  OBVIOUS
<1>5. TopIs(F, P, N, S, p)
  BY ONLY <1>1, IndInv, TopIsKnown
<1>6. /\ EntryIs(value, N, S, F, p, Top) /\ Len(open) > 1 /\ nodes[Top.node].subject \in Seq(S)
      /\ NodeOk(value, S, Top.node, nodes[Top.node])
  BY <1>5 DEF TopIs
<1>7. n \in 1 .. N /\ l > 1 /\ sub \in Seq(S)
  BY <1>2, <1>3, <1>6 DEF EntryIs
<1>8. /\ Walk(o, h) /\ N \in Nat /\ Nodes(v, nd, S) /\ N = Len(v) /\ h \in BOOLEAN /\ Len(nd) = N
      /\ IsSeq(o) /\ l \in Nat /\ x = o[l]
  <2>1. IsSeq(o) /\ l \in Nat /\ x = o[l] /\ h \in BOOLEAN
    BY <1>2, <1>3, TopFacts
  <2>2. Walk(open, here) /\ Len(value) \in Nat /\ Nodes(value, nodes, S) /\ Len(nodes) = Len(value)
    BY <1>1, Before
  <2> QED
    BY <1>1, <1>2, <2>1, <2>2
<1>9. PICK nk : nk = At(nd, n, yn)
  OBVIOUS
<1>10. Nodes(v, nk, S) /\ \A i \in 1 .. N : nk[i].kind = nd[i].kind
  <2>1. NodeOk(v, S, n, yn)
    BY <1>1, <1>2, <1>3, <1>4
  <2>2. yn.kind = nd[n].kind
    <3>1. DOMAIN nd[n] = NodeFields
      BY <1>2, <1>3, <1>6 DEF NodeOk
    <3> QED
      BY <1>4, <3>1 DEF NodeFields
  <2>3. n \in 1 .. Len(v)
    BY <1>7, <1>8
  <2>4. Nodes(v, nk, S) /\ \A i \in 1 .. Len(v) : nk[i].kind = nd[i].kind
    BY ONLY <1>8, <1>9, <2>1, <2>2, <2>3, NodeChanged
  <2> QED
    BY <1>8, <2>4
<1>11. \E t1 \in Seq(S) : Blank(nx, "exit", << >>, t1)
  <2>1. Blank([Node("exit", << >>) EXCEPT !.subject = sub, !.ends = t], "exit", << >>, sub)
    BY BlankIs
  <2>2. nx = [Node("exit", << >>) EXCEPT !.subject = sub, !.ends = t]
    BY <1>4 DEF Node
  <2> QED
    BY <1>7, <2>1, <2>2
<1>12. Alike(o[l - 1], ya) /\ Enclosing = o[l - 1]
  <2>1. Sound(Enclosing) /\ Enclosing = o[l - 1]
    <3>1. Top.kind # "body"
      BY <1>1 DEF Framed
    <3> QED
      BY <1>2, <1>3, <3>1, TopFacts
  <2>2. PICK sc : sc = Enclosing
    OBVIOUS
  <2>3. DOMAIN sc = Fields
    BY <2>1, <2>2 DEF Sound
  <2>4. Alike(sc, ya)
    BY <1>4, <2>2, <2>3 DEF Fields, Alike
  <2> QED
    BY <2>1, <2>2, <2>4
<1>13. /\ nodes' = Append(nk, nx) /\ chain' = Push(base, FromNodes(M, r))
       /\ open' = At(Parents(o), l - 1, ya) /\ here' = g
       /\ stack' = IF g THEN after ELSE << >>
       /\ value' = Append(v, IF g /\ r > 0 THEN Reverse(Meanings(q)) ELSE << >>)
  <2>1. NextNode = M
    BY <1>2, <1>3, <1>8 DEF NextNode
  <2>2. nodes' = Append(nk, nx)
    <3>1. nk = [nd EXCEPT ![n] = [nd[n] EXCEPT !.arguments = args]]
      BY <1>4, <1>9 DEF At
    <3>2. nodes' = Append([nodes EXCEPT ![Top.node].arguments = args],
                     [Node("exit", << >>) EXCEPT !.ends = ToSet(ends), !.subject = nodes[Top.node].subject])
      BY <1>1 DEF Leave
    <3> QED
      BY <1>2, <1>3, <1>4, <3>1, <3>2
  <2>3. open' = At(Parents(o), l - 1, ya)
    <3>0. Len(o) > 0
      BY <1>3, <1>7
    <3>1. /\ IsSeq(Parents(o)) /\ Len(Parents(o)) = l - 1
          /\ \A k \in 1 .. l - 1 : Parents(o)[k] = o[k]
      BY <1>3, <1>8, <3>0, OneLess
    <3>2. PICK m \in Nat : m = l - 1 /\ m \in 1 .. m
      BY <1>7, <1>8
    <3>3. Parents(o)[m] = Enclosing
      BY <1>12, <3>1, <3>2
    <3>4. PICK Z : Parents(o) \in Seq(Z)
      BY <3>1 DEF IsSeq
    <3>5. open' = [Parents(open) EXCEPT ![Len(open) - 1] =
                [@ EXCEPT !.reachable = reach, !.over = over]]
      BY <1>1 DEF Leave
    <3> QED
      BY <1>2, <1>3, <1>4, <3>1, <3>2, <3>3, <3>4, <3>5 DEF At
  <2> QED
    BY <1>1, <1>2, <1>3, <2>1, <2>2, <2>3 DEF Leave
<1>14. r \in Nat /\ g \in BOOLEAN /\ (g => q \in Seq(S) /\ Len(q) = r /\ Stands(v, q, a))
  BY <1>1, <1>2, <1>3 DEF Leaves, Present
<1>15. value' = Append(v, ExitValues(g, r, a))
  <2>1. ASSUME g
        PROVE  a = Meanings(q)
    <3>1. Stands(v, q, a)
      BY <1>14, <2>1
    <3> QED
      BY <1>2, <3>1 DEF Stands, Meanings, Meaning
  <2>2. (IF g /\ r > 0 THEN Reverse(Meanings(q)) ELSE << >>) = ExitValues(g, r, a)
    BY <2>1 DEF ExitValues
  <2> QED
    BY <1>13, <2>2
<1>16. g => h \/ Late(x)
  BY <1>1, <1>2 DEF Present, Late
<1>17. PICK s : s = IF g THEN Cat(s0, a) ELSE << >>
  OBVIOUS
<1>18. stack' = s
  BY <1>1, <1>13, <1>17
<1>19. Closing(v, nd, wd, c, o, h, st, F, P, R, N, S, x, base, g, s0, q, r, a, nk, nx, ya)
  <2>1. Sits(v, nd, wd, c, o, h, st, F, P, R) /\ Inner(v, N, S, F, base, g, s0) /\ Len(base) = Len(c) - 1
    BY <1>1, <1>2
  <2>2. Drained(x, c, base, Len(c)) /\ Framed(x) /\ S = Level(N, R)
    BY <1>1, <1>2
  <2>3. Len(o) > 1 /\ x = o[Len(o)] /\ Alike(o[Len(o) - 1], ya)
    BY <1>3, <1>7, <1>8, <1>12
  <2> QED
    BY ONLY <1>8, <1>10, <1>11, <1>14, <1>16, <2>1, <2>2, <2>3 DEF Closing
<1>20. PICK w, ne, d, z : /\ w = Append(v, ExitValues(g, r, a)) /\ ne = Append(nk, nx)
                          /\ d = Push(base, FromNodes(M, r)) /\ z = At(Parents(o), Len(o) - 1, ya)
  OBVIOUS
<1>21. SitsThen(w, ne, wd, d, z, g, s, R)
  <2>1. M = N + 1
    BY <1>3
  <2>2. ClosedTo(v, o, base, g, s0, N, r, a, nk, nx, ya, w, ne, d, z, s)
    BY ONLY <1>17, <1>20, <2>1 DEF ClosedTo
  <2> QED
    BY ONLY <1>19, <2>2, ClosedSits
<1>22. PICK G, Q : Sits(w, ne, wd, d, z, g, s, G, Q, R)
  BY <1>21 DEF SitsThen
<1>23. Sits(value', nodes', words', chain', open', here', stack', G, Q, R)
  BY <1>1, <1>2, <1>3, <1>13, <1>15, <1>18, <1>20, <1>22
<1> QED
  BY <1>23 DEF Faithful

(* When all below is taken, all of it is an argument.                      *)
LEMMA DryTaken ==
  ASSUME NEW S, NEW N, N \in Nat, NEW c, c \in Chains(S, N), NEW v, NEW F, Good(v, F, c),
         NEW p, p = Len(c), p >= 2, NEW m, m = F[p].size, NEW e, e \in Nat, Parameters(c) <= e, e <= m,
         NEW b, b \in Chains(S, N), Len(b) = p - 1, Size(b) = m - e, Dry(c, p - 1)
  PROVE  Dry(b, p - 1)
<1>1. /\ Size(Parents(c)) + Parameters(c) = m /\ Size(Parents(c)) \in Nat /\ Parameters(c) \in Nat
      /\ Parents(c) \in Chains(S, N) /\ Len(Parents(c)) = p - 1
  BY SumOf
<1>2. Len(c) \in Nat
  BY SizeIs
<1>3. Dry(Parents(c), p - 1)
  <2>1. PICK k \in 0 .. Len(c) : k = p - 1
    BY <1>2
  <2>2. \A i \in 1 .. k : SubSeq(c, 1, k)[i] = c[i]
    BY OuterChain
  <2> QED
    BY <2>1, <2>2 DEF Parents, Dry
<1>4. Size(Parents(c)) = 0
  BY <1>1, <1>3, DrySize
<1>5. Size(b) = 0
  BY <1>1, <1>4
<1> QED
  BY <1>5, DrySize

(* The way taken through an if or a match, of which r values are left.     *)
WayIs(v, N, S, F, p, e, r, c, q, a, m) ==
  /\ c \in Chains(S, N) /\ Len(c) = p /\ Good(v, F, c) /\ Stands(v, Flat(c), a)
  /\ Parameters(c) <= e /\ r <= Size(c) /\ Size(c) - r = m - e
  /\ q \in Seq(S) /\ Len(q) = r
  /\ \A i \in 1 .. r : MeaningIn(v, q[i]) = MeaningIn(v, Flat(c)[Size(c) - r + i])

BranchEnd(F, P, R, N, S, p, e, en, cw, r, ends, way, reach, over) ==
  /\ Sits(value, nodes, words, chain, open, here, stack, F, P, R) /\ N = Len(value) /\ S = Level(N, R)
  /\ p = Len(chain) /\ Top.kind \in {"else", "rest", "last"}
  /\ e \in Nat /\ Parameters(chain) <= e /\ Parameters(Top.done[1].chain) <= e
  /\ e <= Size(Top.before) /\ en = PopN(Top.before, e)
  /\ Leave(en.chain, en.sources, r, ends, way, reach, over, Arrived) /\ words' = words
  /\ r \in Nat /\ (Present => WayIs(value, N, S, F, p, e, r, cw, ends[way], Arrived, Size(Top.before)))

(* So the end of an if or a match keeps the invariant.                     *)
LEMMA BranchLeaves ==
  ASSUME IndInv, NEW F, NEW P, NEW R, NEW N, NEW S, NEW p, NEW e, NEW en, NEW cw, NEW r, NEW ends,
         NEW way, NEW reach, NEW over,
         BranchEnd(F, P, R, N, S, p, e, en, cw, r, ends, way, reach, over)
  PROVE  Faithful'
<1>1. /\ Sits(value, nodes, words, chain, open, here, stack, F, P, R) /\ N = Len(value)
      /\ S = Level(N, R) /\ p = Len(chain) /\ Top.kind \in {"else", "rest", "last"}
      /\ e \in Nat /\ Parameters(chain) <= e /\ Parameters(Top.done[1].chain) <= e
      /\ e <= Size(Top.before) /\ en = PopN(Top.before, e)
      /\ Leave(en.chain, en.sources, r, ends, way, reach, over, Arrived) /\ words' = words
      /\ r \in Nat /\ (Present => WayIs(value, N, S, F, p, e, r, cw, ends[way], Arrived, Size(Top.before)))
  BY DEF BranchEnd
<1>2. Framed(Top)
  BY <1>1 DEF Framed
<1>3. TopIs(F, P, N, S, p)
  BY ONLY <1>1, <1>2, IndInv, TopIsKnown
<1>4. /\ EntryIs(value, N, S, F, p, Top) /\ DoneIs(value, N, S, F, p, Top)
      /\ nodes[Top.node].kind = NodeKind(Top.kind)
      /\ Entered(F, p) /\ Len(value[Top.node]) \in Nat
      /\ NodeOk(value, S, Top.node, nodes[Top.node])
  BY <1>3 DEF TopIs
<1>5. /\ World(value, N, S) /\ N \in Nat /\ Inner(value, N, S, F, chain, here, stack)
  <2>1. /\ World(value, Len(value), Level(Len(value), R)) /\ Len(value) \in Nat
        /\ Inner(value, Len(value), Level(Len(value), R), F, chain, here, stack)
    BY <1>1, Before
  <2> QED
    BY <1>1, <2>1
<1>6. PICK v, x, b, m : v = value /\ x = Top /\ b = Top.before /\ m = Size(b)
  OBVIOUS
<1>7. /\ p \in Nat /\ p >= 2 /\ x.node \in 1 .. N /\ F[p].node = x.node /\ F[p].size = m
      /\ b \in Chains(S, N) /\ Len(b) = p - 1 /\ Good(v, F, b) /\ m \in Nat
  BY <1>4, <1>6, SizeIs DEF EntryIs
<1>8. Taken(v, N, S, F, p, x, e, en)
  <2>1. EntryIs(v, N, S, F, p, x) /\ Len(v[x.node]) \in Nat /\ World(v, N, S) /\ Entered(F, p)
        /\ e \in Nat /\ e <= Size(x.before) /\ en = PopN(x.before, e)
    BY <1>1, <1>4, <1>5, <1>6
  <2> QED
    BY ONLY <2>1, BeforeTaken
<1>9. PICK g, st0, s0, a :
        /\ g = Present
        /\ st0 = (IF F[p].in THEN SubSeq(Reverse(v[x.node]), 1, F[p].size - e) ELSE << >>)
        /\ s0 = (IF g THEN st0 ELSE << >>)
        /\ a = SubSeq(Arrived, Len(Arrived) - r + 1, Len(Arrived))
  OBVIOUS
<1>10. g => F[p].in
  <2>1. here => F[p].in
    BY <1>1, <1>5 DEF Inner
  <2>2. Top.way # 0 => F[p].in
    BY <1>4 DEF EntryIs
  <2> QED
    BY <1>9, <2>1, <2>2 DEF Present
<1>11. PopsAll(S, N, b, e, en) /\ Inner(v, N, S, F, en.chain, F[p].in, st0)
  BY <1>6, <1>8, <1>9 DEF Taken
<1>12. /\ en.chain \in Chains(S, N) /\ Len(en.chain) = p - 1 /\ Size(en.chain) = m - e
       /\ \A j \in 0 .. p - 1 : Dry(b, j) => Dry(en.chain, j)
  BY <1>6, <1>7, <1>11 DEF PopsAll
<1>13. Inner(v, N, S, F, en.chain, g, s0)
  BY <1>9, <1>10, <1>11, InnerGone
<1>14. Drained(Top, chain, en.chain, p)
  <2>1. \A i \in 0 .. p - 2 : Dry(x.before, i) => Dry(en.chain, i)
    <3>1. \A i \in 0 .. p - 2 : i \in 0 .. p - 1
      BY <1>7
    <3> QED
      BY <1>6, <1>12, <3>1
  <2>2. ASSUME NEW c, c \in Chains(S, N), Len(c) = p, Good(v, F, c), Parameters(c) <= e, Dry(c, p - 1)
        PROVE  Dry(en.chain, p - 1)
    <3>1. e \in Nat /\ e <= m /\ m = F[p].size /\ p = Len(c)
      BY <1>1, <1>6, <1>7, <2>2
    <3> QED
      BY ONLY <1>5, <1>7, <1>12, <2>2, <3>1, DryTaken
  <2>3. chain \in Chains(S, N) /\ Good(v, F, chain)
    BY <1>5, <1>6 DEF Inner
  <2>4. Top.done[1].chain \in Chains(S, N) /\ Len(Top.done[1].chain) = p /\ Good(v, F, Top.done[1].chain)
    BY <1>1, <1>4, <1>6 DEF DoneIs
  <2> QED
    BY <1>1, <1>6, <2>1, <2>2, <2>3, <2>4 DEF Drained
<1>15. NodeOk(value, S, Top.node, [nodes[Top.node] EXCEPT !.arguments = en.sources])
  <2>1. PICK y, q, yy : y = nodes[x.node] /\ q = en.sources /\ yy = [y EXCEPT !.arguments = q]
    OBVIOUS
  <2>2. EntryIs(v, N, S, F, p, x) /\ NodeOk(v, S, x.node, y) /\ y.kind \notin {"loop"}
        /\ e \in Nat /\ e <= Size(x.before)
    BY <1>1, <1>4, <1>6, <2>1 DEF NodeKind
  <2>3. NodeOk(v, S, x.node, yy)
    BY ONLY <1>8, <2>1, <2>2, ArgumentsGiven
  <2> QED
    BY <1>6, <2>1, <2>3
<1>16. ASSUME g
       PROVE  /\ ends[way] \in Seq(S) /\ Len(ends[way]) = r /\ Stands(v, ends[way], a)
              /\ Arrived = Cat(s0, a)
  <2>1. WayIs(v, N, S, F, p, e, r, cw, ends[way], Arrived, m)
    BY <1>1, <1>6, <1>9, <1>16
  <2>2. PICK q, t : q = ends[way] /\ t = Arrived
    OBVIOUS
  <2>3. /\ cw \in Chains(S, N) /\ Len(cw) = p /\ Good(v, F, cw) /\ Stands(v, Flat(cw), t)
        /\ Parameters(cw) <= e /\ r <= Size(cw) /\ Size(cw) - r = m - e /\ q \in Seq(S) /\ Len(q) = r
        /\ \A i \in 1 .. r : MeaningIn(v, q[i]) = MeaningIn(v, Flat(cw)[Size(cw) - r + i])
    BY <2>1, <2>2 DEF WayIs
  <2>4. Flat(cw) \in Seq(S) /\ Size(cw) = Len(Flat(cw)) /\ Size(cw) \in Nat
    BY <2>3, SizeIs
  <2>5. PICK f : f = Flat(cw)
    OBVIOUS
  <2>6. /\ f \in Seq(S) /\ Stands(v, f, t) /\ r \in 0 .. Len(f)
        /\ \A i \in 1 .. r : MeaningIn(v, q[i]) = MeaningIn(v, f[Len(f) - r + i])
    BY <1>1, <2>3, <2>4, <2>5
  <2>7. Stands(v, q, SubSeq(t, Len(t) - r + 1, Len(t)))
    BY ONLY <2>3, <2>6, StandsAbove
  <2>8. PICK k : k = Size(cw) - r
    OBVIOUS
  <2>9. k \in Nat /\ k <= Size(Parents(cw))
    <3>1. Size(Parents(cw)) + Parameters(cw) = F[p].size /\ Size(Parents(cw)) \in Nat /\ Parameters(cw) \in Nat
      BY <1>5, <1>7, <2>3, SumOf
    <3> QED
      <4>1. k = m - e /\ m \in Nat /\ e \in Nat /\ e <= m /\ m = F[p].size /\ Parameters(cw) <= e
        BY <1>1, <1>6, <1>7, <2>3, <2>8
      <4> QED
        BY ONLY <3>1, <4>1
  <2>10. PICK u : u = Reverse(v[F[p].node])
    OBVIOUS
  <2>11. /\ cw \in Chains(S, N) /\ Len(cw) = p /\ Good(v, F, cw) /\ F[p].in /\ Stands(v, Flat(cw), t)
         /\ r \in Nat /\ N \in Nat /\ p >= 2
    BY <1>1, <1>5, <1>7, <1>10, <1>16, <2>3
  <2>12. t = Cat(SubSeq(u, 1, k), SubSeq(t, Len(t) - r + 1, Len(t)))
    BY ONLY <2>8, <2>9, <2>10, <2>11, ComesBack
  <2>13. s0 = SubSeq(u, 1, k)
    <3>1. k = F[p].size - e
      BY <1>7, <2>3, <2>8
    <3> QED
      BY <1>7, <1>9, <1>10, <1>16, <2>10, <3>1
  <2> QED
    BY <1>9, <2>2, <2>3, <2>7, <2>12, <2>13
<1>17. Ending(F, P, R, N, S, p, en.chain, en.sources, r, ends, way, reach, over, Arrived, g, s0, a)
  <2>1. Inner(value, N, S, F, en.chain, g, s0) /\ g = Present /\ Len(en.chain) = p - 1
    BY <1>6, <1>9, <1>12, <1>13
  <2>2. Leaves(value, S, g, ends[way], r, a) /\ (g => Arrived = Cat(s0, a))
    BY <1>1, <1>6, <1>16 DEF Leaves
  <2> QED
    BY ONLY <1>1, <1>2, <1>14, <1>15, <2>1, <2>2 DEF Ending
<1> QED
  BY ONLY <1>17, IndInv, LeaveKeeps

(* The largest of two numbers.                                             *)
LEMMA LargestOf ==
  ASSUME NEW a, a \in Nat, NEW b, b \in Nat, NEW T, T = {a, b}
  PROVE  Largest(T) \in T /\ Largest(T) \in Nat /\ a <= Largest(T) /\ b <= Largest(T)
<1>1. PICK n : n = a + b
  OBVIOUS
<1>2. n \in Nat /\ T \cup {0} \subseteq 0 .. n /\ T \cup {0} # {}
  BY <1>1
<1>3. Largest(T) \in T \cup {0} /\ \A y \in T \cup {0} : Largest(T) >= y
  BY <1>2, MaxIsLargest DEF Largest
<1> QED
  BY <1>3

(* What a stack has pushed lies on top.                                    *)
LEMMA SizeOf ==
  ASSUME NEW S, NEW N, N \in Nat, NEW c, c \in Chains(S, N), Len(c) # 0
  PROVE  /\ Size(c) = Size(Parents(c)) + Returns(c) /\ Returns(c) \in Nat
         /\ Size(Parents(c)) \in Nat
         /\ Last(c).positive \in Seq(S) /\ Len(Last(c).positive) = Returns(c)
         /\ \A i \in 1 .. Returns(c) : Flat(c)[Size(c) - Returns(c) + i] = Last(c).positive[i]
<1>1. PICK b, f : /\ b \in Chains(S, N) /\ f \in Frames(S, N) /\ (Len(b) > 0 => f.node # 0)
                  /\ c = Append(b, f)
  BY ChainIs
<1>2. Parents(c) = b /\ Last(c) = f
  BY <1>1, ChainOf
<1>3. f.positive \in Seq(S)
  BY <1>1 DEF Frames
<1>4. Flat(b) \in Seq(S) /\ Flat(c) = Cat(Flat(b), f.positive) /\ Size(b) = Len(Flat(b)) /\ Size(c) = Len(Flat(c))
  BY <1>1, FlatAppend, SizeIs
<1>5. PICK s, t : s = Flat(b) /\ t = f.positive
  OBVIOUS
<1>6. /\ Len(s) \in Nat /\ Len(t) \in Nat /\ Len(Cat(s, t)) = Len(s) + Len(t)
      /\ \A i \in 1 .. Len(t) : Cat(s, t)[Len(s) + i] = t[i]
  <2>1. s \in Seq(S) /\ t \in Seq(S)
    BY ONLY <1>3, <1>4, <1>5
  <2> QED
    BY ONLY <2>1, CatOf
<1>7. Returns(c) = Len(t) /\ Size(c) = Len(s) + Len(t) /\ Size(b) = Len(s) /\ Flat(c) = Cat(s, t)
  BY <1>2, <1>4, <1>5, <1>6 DEF Returns
<1>8. \A i \in 1 .. Len(t) : Size(c) - Returns(c) + i = Len(s) + i
  BY <1>6, <1>7
<1> QED
  BY <1>2, <1>3, <1>5, <1>6, <1>7, <1>8

(* Values are taken at the end of the way.                                 *)
LEMMA WayPopped ==
  ASSUME NEW v, NEW N, NEW S, World(v, N, S), NEW F, NEW p, p \in Nat, p >= 2,
         NEW c, NEW a, Inner(v, N, S, F, c, TRUE, a), Len(c) = p,
         NEW e, e \in Nat, NEW r, r \in Nat, NEW m, Parameters(c) <= e, r <= Size(c), Size(c) - r = m - e,
         NEW q, q = PopN(c, r).sources
  PROVE  WayIs(v, N, S, F, p, e, r, c, q, a, m)
<1>1. /\ c \in Chains(S, N) /\ Good(v, F, c) /\ Entered(F, Len(c)) /\ F[Len(c)].in
      /\ Stands(v, Flat(c), a)
  BY DEF Inner
<1>2. N \in Nat /\ Refs(S, N) /\ Lookups(v, N)
  BY DEF World
<1>3. PopsAll(S, N, c, r, PopN(c, r))
  BY <1>1, <1>2, PopNPops
<1>4. \A i \in 1 .. r : MeaningIn(v, PopN(c, r).sources[i]) = MeaningIn(v, Flat(c)[Size(c) - r + i])
  BY ONLY <1>1, <1>2, r \in Nat, r <= Size(c), PopNMeans
<1> QED
  BY <1>1, <1>3, <1>4 DEF WayIs, PopsAll

(* A way on which all parameters are taken.                                *)
LEMMA WayPadded ==
  ASSUME NEW v, NEW N, NEW S, World(v, N, S), NEW F, NEW p, p \in Nat, p >= 2,
         NEW c, c \in Chains(S, N), Len(c) = p, Good(v, F, c), Entered(F, p),
         NEW e, e \in Nat, Parameters(c) <= e, NEW m, m = F[p].size, e <= m,
         NEW x, x = EnsureNegatives(c, e)
  PROVE  /\ x \in Chains(S, N) /\ Len(x) = p /\ Parameters(x) = e /\ Returns(x) \in Nat
         /\ Size(c) - Returns(x) = m - e /\ Returns(x) <= Size(c) /\ Size(x) = Size(c)
         /\ Size(c) \in Nat /\ m \in Nat /\ Padded(S, N, v, F, c, x)
<1>1. N \in Nat /\ Refs(S, N) /\ Lookups(v, N)
  BY DEF World
<1>2. Size(Parents(c)) + Parameters(c) = m /\ Size(Parents(c)) \in Nat /\ Parameters(c) \in Nat
  BY <1>1, SumOf
<1>3. /\ c \in Chains(S, N) /\ Len(c) >= 2 /\ Good(v, F, c) /\ Entered(F, Len(c))
      /\ e \in Nat /\ e <= Size(Parents(c)) + Parameters(c)
  BY <1>2
<1>4. Padded(S, N, v, F, c, x) /\ Parameters(x) = IF Parameters(c) >= e THEN Parameters(c) ELSE e
  BY ONLY <1>1, <1>3, x = EnsureNegatives(c, e), EnsureNegativesIs
<1>5. /\ x \in Chains(S, N) /\ Len(x) = Len(c) /\ Size(x) = Size(c)
      /\ Size(Parents(x)) + Parameters(x) = Size(Parents(c)) + Parameters(c)
  BY <1>4 DEF Padded
<1>6. Parameters(x) = e
  BY <1>2, <1>4
<1>7. Size(x) = Size(Parents(x)) + Returns(x) /\ Returns(x) \in Nat /\ Size(Parents(x)) \in Nat
  BY <1>1, <1>5, SizeOf
<1>8. Size(c) \in Nat
  BY SizeIs
<1>9. Size(c) - Returns(x) = m - e /\ Returns(x) <= Size(c) /\ m \in Nat
  <2>1. PICK i, j, k, l, n : /\ i = Size(Parents(x)) /\ j = Size(Parents(c)) /\ k = Returns(x)
                             /\ l = Size(c) /\ n = Parameters(c)
    OBVIOUS
  <2>2. /\ l = i + k /\ i + e = m /\ j + n = m /\ i \in Nat /\ j \in Nat /\ k \in Nat
        /\ n \in Nat /\ l \in Nat
    BY <1>2, <1>5, <1>6, <1>7, <1>8, <2>1
  <2>3. l - k = m - e /\ k <= l /\ m \in Nat
    BY <2>2
  <2> QED
    BY <2>1, <2>3
<1> QED
  BY <1>4, <1>5, <1>6, <1>7, <1>8, <1>9

(* What is known of both branches.                                         *)
BothAre(F, P, R, N, S, p, t, m) ==
  /\ Sits(value, nodes, words, chain, open, here, stack, F, P, R) /\ N = Len(value) /\ S = Level(N, R)
  /\ p = Len(chain) /\ p \in Nat /\ p >= 2 /\ World(value, N, S) /\ N \in Nat /\ t = Top.done[1].chain
  /\ chain \in Chains(S, N) /\ t \in Chains(S, N) /\ Len(t) = p
  /\ Good(value, F, chain) /\ Good(value, F, t) /\ Entered(F, p)
  /\ m = F[p].size /\ m = Size(Top.before) /\ m \in Nat
  /\ Parameters(chain) \in Nat /\ Parameters(chain) <= m /\ Parameters(t) \in Nat /\ Parameters(t) <= m
  /\ (here => Inner(value, N, S, F, chain, TRUE, stack))
  /\ (Top.way # 0 => Inner(value, N, S, F, t, TRUE, Top.arrived))
  /\ here \in BOOLEAN /\ (here => Top.reachable) /\ WayIsReachable(Top)

(* The invariant says so.                                                  *)
LEMMA Both ==
  ASSUME IndInv, NEW F, NEW P, NEW R, Sits(value, nodes, words, chain, open, here, stack, F, P, R),
         Top.kind \in {"else", "rest", "last"}
  PROVE  \E N, S, p, t, m : BothAre(F, P, R, N, S, p, t, m)
<1>1. PICK N, S, p, t, m : /\ N = Len(value) /\ S = Level(N, R) /\ p = Len(chain)
                           /\ t = Top.done[1].chain /\ m = Size(Top.before)
  OBVIOUS
<1>2. Framed(Top)
  BY DEF Framed
<1>3. TopIs(F, P, N, S, p)
  BY ONLY <1>1, <1>2, Sits(value, nodes, words, chain, open, here, stack, F, P, R), IndInv, TopIsKnown
<1>4. EntryIs(value, N, S, F, p, Top) /\ DoneIs(value, N, S, F, p, Top) /\ Entered(F, p)
  BY <1>3 DEF TopIs
<1>5. /\ World(value, N, S) /\ N \in Nat /\ Inner(value, N, S, F, chain, here, stack)
  <2>1. /\ World(value, Len(value), Level(Len(value), R)) /\ Len(value) \in Nat
        /\ Inner(value, Len(value), Level(Len(value), R), F, chain, here, stack)
    BY Before
  <2> QED
    BY <1>1, <2>1
<1>6. /\ p \in Nat /\ p >= 2 /\ F[p].size = m /\ (Top.way # 0 => F[p].in)
      /\ Top.before \in Chains(S, N)
  BY <1>1, <1>4 DEF EntryIs
<1>7. m \in Nat
  BY <1>1, <1>6, SizeIs
<1>8. /\ t \in Chains(S, N) /\ Len(t) = p /\ Good(value, F, t)
      /\ Top.way # 0 => Stands(value, Flat(t), Top.arrived)
  BY <1>1, <1>4 DEF DoneIs
<1>9. chain \in Chains(S, N) /\ Good(value, F, chain)
  BY <1>5 DEF Inner
<1>10. here => Inner(value, N, S, F, chain, TRUE, stack)
  BY <1>5
<1>11. Top.way # 0 => Inner(value, N, S, F, t, TRUE, Top.arrived)
  BY <1>4, <1>6, <1>8 DEF Inner
<1>12. ASSUME NEW c, c \in Chains(S, N), Len(c) = p, Good(value, F, c)
       PROVE  Parameters(c) \in Nat /\ Parameters(c) <= m
  <2>1. Size(Parents(c)) + Parameters(c) = F[p].size /\ Size(Parents(c)) \in Nat /\ Parameters(c) \in Nat
    BY <1>5, <1>6, <1>12, SumOf
  <2> QED
    BY <1>6, <1>7, <2>1
<1>13. Parameters(chain) \in Nat /\ Parameters(chain) <= m /\ Parameters(t) \in Nat /\ Parameters(t) <= m
  BY <1>1, <1>8, <1>9, <1>12
<1>14. here \in BOOLEAN /\ (here => Top.reachable) /\ WayIsReachable(Top)
  BY TopFacts DEF Sound
<1>15. BothAre(F, P, R, N, S, p, t, m)
  BY <1>1, <1>4, <1>5, <1>6, <1>7, <1>8, <1>9, <1>10, <1>11, <1>13, <1>14 DEF BothAre
<1> QED
  BY <1>15

(* The remaining words end, and with them what is around.                  *)
LEMMA LeaveRestKeeps ==
  ASSUME Faithful, IndInv, LeaveRest
  PROVE  Faithful'
<1>1. PICK F, P, R : Sits(value, nodes, words, chain, open, here, stack, F, P, R)
  BY DEF Faithful
<1>2. Top.kind = "rest"
  BY DEF LeaveRest, Kind
<1>3. PICK N, S, p, t, m : BothAre(F, P, R, N, S, p, t, m)
  BY <1>1, <1>2, Both
<1>4. /\ Sits(value, nodes, words, chain, open, here, stack, F, P, R) /\ N = Len(value) /\ S = Level(N, R)
      /\ p = Len(chain) /\ p \in Nat /\ p >= 2 /\ World(value, N, S) /\ N \in Nat /\ t = Top.done[1].chain
      /\ chain \in Chains(S, N) /\ Good(value, F, chain) /\ Entered(F, p)
      /\ m = F[p].size /\ m = Size(Top.before) /\ m \in Nat
      /\ Parameters(chain) \in Nat /\ Parameters(chain) <= m /\ Parameters(t) \in Nat /\ Parameters(t) <= m
      /\ (here => Inner(value, N, S, F, chain, TRUE, stack))
      /\ here \in BOOLEAN /\ (here => Top.reachable) /\ WayIsReachable(Top)
  BY <1>3 DEF BothAre
<1>5. PICK e, T : T = {Parameters(t), Parameters(chain)} /\ e = Largest(T)
  OBVIOUS
<1>6. e \in Nat /\ Parameters(chain) <= e /\ Parameters(t) <= e /\ e <= m
  <2>1. e \in T /\ e \in Nat /\ Parameters(t) <= e /\ Parameters(chain) <= e
    BY <1>4, <1>5, LargestOf
  <2> QED
    BY <1>4, <1>5, <2>1
<1>7. PICK rest : rest = EnsureNegatives(chain, e)
  OBVIOUS
<1>8. PICK v, c : v = value /\ c = chain
  OBVIOUS
<1>9. /\ rest \in Chains(S, N) /\ Len(rest) = p /\ Parameters(rest) = e /\ Returns(rest) \in Nat
      /\ Size(c) - Returns(rest) = m - e /\ Returns(rest) <= Size(c) /\ Size(rest) = Size(c)
      /\ Size(c) \in Nat /\ m \in Nat /\ Padded(S, N, v, F, c, rest)
  <2>1. /\ World(v, N, S) /\ p \in Nat /\ p >= 2 /\ c \in Chains(S, N) /\ Len(c) = p /\ Good(v, F, c)
        /\ Entered(F, p) /\ e \in Nat /\ Parameters(c) <= e /\ m = F[p].size /\ e <= m
        /\ rest = EnsureNegatives(c, e)
    BY <1>4, <1>6, <1>7, <1>8
  <2> QED
    BY ONLY <2>1, WayPadded
<1>10. PICK r, ends, en : /\ r = (IF Top.reachable THEN Returns(rest) ELSE 0)
                          /\ ends = <<Last(rest).positive>> /\ en = PopN(Top.before, e)
  OBVIOUS
<1>11. Present => here
  BY <1>2, <1>4 DEF Present, WayIsReachable
<1>12. Present => WayIs(v, N, S, F, p, e, r, rest, ends[1], Arrived, m)
  <2> SUFFICES ASSUME here, Present
               PROVE  WayIs(v, N, S, F, p, e, r, rest, ends[1], Arrived, m)
    BY <1>11
  <2>1. r = Returns(rest) /\ ends[1] = Last(rest).positive /\ Arrived = stack
    BY <1>4, <1>10 DEF Arrived
  <2>2. Inner(v, N, S, F, rest, TRUE, stack)
    <3>1. Inner(v, N, S, F, c, TRUE, stack) /\ Padded(S, N, v, F, c, rest)
      BY <1>4, <1>8, <1>9
    <3> QED
      BY ONLY <3>1, PaddedInner
  <2>3. /\ Size(rest) = Size(Parents(rest)) + Returns(rest)
        /\ Last(rest).positive \in Seq(S) /\ Len(Last(rest).positive) = Returns(rest)
        /\ \A i \in 1 .. Returns(rest) : Flat(rest)[Size(rest) - Returns(rest) + i] = Last(rest).positive[i]
    <3>1. N \in Nat /\ rest \in Chains(S, N) /\ Len(rest) # 0
      BY <1>4, <1>9
    <3> QED
      BY ONLY <3>1, SizeOf
  <2>4. Good(v, F, rest) /\ Stands(v, Flat(rest), stack)
    BY <2>2 DEF Inner
  <2>5. /\ rest \in Chains(S, N) /\ Len(rest) = p
        /\ Parameters(rest) <= e /\ Returns(rest) <= Size(rest) /\ Size(rest) - Returns(rest) = m - e
    BY <1>6, <1>9
  <2>6. WayIs(v, N, S, F, p, e, Returns(rest), rest, Last(rest).positive, stack, m)
    BY <2>3, <2>4, <2>5 DEF WayIs
  <2> QED
    BY <2>1, <2>6
<1>13. Leave(en.chain, en.sources, r, ends, 1, Top.reachable, TRUE, Arrived) /\ words' = words
  BY <1>4, <1>5, <1>7, <1>10 DEF LeaveRest, Leave
<1>14. r \in Nat
  BY <1>9, <1>10
<1>15. BranchEnd(F, P, R, N, S, p, e, en, rest, r, ends, 1, Top.reachable, TRUE)
  BY <1>2, <1>4, <1>6, <1>8, <1>10, <1>12, <1>13, <1>14 DEF BranchEnd
<1> QED
  BY ONLY <1>15, IndInv, BranchLeaves

(* Two branches that leave equally many values: the one that takes more    *)
(* pushes more.                                                            *)
AtOneLevel(S, N, v, F, p, m, c, t, T, e, U, r) ==
  /\ N \in Nat /\ p \in Nat /\ p >= 2 /\ m = F[p].size /\ m \in Nat
  /\ c \in Chains(S, N) /\ Len(c) = p /\ Good(v, F, c)
  /\ t \in Chains(S, N) /\ Len(t) = p /\ Good(v, F, t) /\ Size(c) = Size(t)
  /\ T = {Parameters(t), Parameters(c)} /\ e = Largest(T)
  /\ U = {Returns(t), Returns(c)} /\ r = Largest(U)

(* So both leave the same of what lies below.                              *)
LEMMA Levelled ==
  ASSUME NEW S, NEW N, NEW v, NEW F, NEW p, NEW m, NEW c, NEW t, NEW T, NEW e, NEW U, NEW r,
         AtOneLevel(S, N, v, F, p, m, c, t, T, e, U, r)
  PROVE  /\ e \in Nat /\ r \in Nat /\ e <= m /\ r <= Size(c) /\ Size(c) - r = m - e
         /\ Parameters(c) <= e /\ Parameters(t) <= e
<1>0. /\ N \in Nat /\ p \in Nat /\ p >= 2 /\ m = F[p].size /\ m \in Nat
      /\ c \in Chains(S, N) /\ Len(c) = p /\ Good(v, F, c)
      /\ t \in Chains(S, N) /\ Len(t) = p /\ Good(v, F, t) /\ Size(c) = Size(t)
      /\ T = {Parameters(t), Parameters(c)} /\ e = Largest(T)
      /\ U = {Returns(t), Returns(c)} /\ r = Largest(U)
  BY DEF AtOneLevel
<1>1. /\ Size(Parents(c)) + Parameters(c) = m /\ Size(Parents(c)) \in Nat /\ Parameters(c) \in Nat
      /\ Size(Parents(t)) + Parameters(t) = m /\ Size(Parents(t)) \in Nat /\ Parameters(t) \in Nat
  BY <1>0, SumOf
<1>2. /\ Size(c) = Size(Parents(c)) + Returns(c) /\ Returns(c) \in Nat
      /\ Size(t) = Size(Parents(t)) + Returns(t) /\ Returns(t) \in Nat
  BY <1>0, SizeOf
<1>3. T = {Parameters(t), Parameters(c)} /\ U = {Returns(t), Returns(c)}
  BY <1>0
<1>4. e \in T /\ e \in Nat /\ Parameters(t) <= e /\ Parameters(c) <= e
  BY <1>0, <1>1, LargestOf
<1>5. r \in U /\ r \in Nat /\ Returns(t) <= r /\ Returns(c) <= r
  BY <1>0, <1>2, LargestOf
<1>6. PICK i, j, k, l, n, q, z : /\ i = Size(Parents(c)) /\ j = Size(Parents(t)) /\ k = Parameters(c)
                                 /\ l = Parameters(t) /\ n = Returns(c) /\ q = Returns(t) /\ z = Size(c)
  OBVIOUS
<1>7. /\ i + k = m /\ j + l = m /\ z = i + n /\ z = j + q /\ (e = k \/ e = l) /\ k <= e /\ l <= e
      /\ (r = n \/ r = q) /\ n <= r /\ q <= r
      /\ i \in Nat /\ j \in Nat /\ k \in Nat /\ l \in Nat /\ n \in Nat /\ q \in Nat /\ e \in Nat /\ r \in Nat
  BY <1>0, <1>1, <1>2, <1>3, <1>4, <1>5, <1>6
<1>8. e <= m /\ r <= z /\ z - r = m - e
  <2>1. m \in Nat /\ z \in Nat
    BY <1>0, <1>7
  <2>2. e <= m /\ r <= z
    BY ONLY <1>7, <2>1
  <2>3. CASE e = k /\ r = n
    BY ONLY <1>7, <2>1, <2>3
  <2>4. CASE e = l /\ r = q
    BY ONLY <1>7, <2>1, <2>4
  <2>5. CASE e = k /\ r = q
    <3>1. e = l
      BY ONLY <1>7, <2>1, <2>5
    <3> QED
      BY <2>4, <2>5, <3>1
  <2>6. CASE e = l /\ r = n
    <3>1. e = k
      BY ONLY <1>7, <2>1, <2>6
    <3> QED
      BY <2>3, <2>6, <3>1
  <2> QED
    BY ONLY <1>7, <2>2, <2>3, <2>4, <2>5, <2>6
<1> QED
  BY <1>4, <1>5, <1>6, <1>8

(* An if ends.                                                             *)
LEMMA LeaveElseKeeps ==
  ASSUME Faithful, IndInv, ~DivergingElse, OnlyBalanced, LeaveElse
  PROVE  Faithful'
<1>1. PICK F, P, R : Sits(value, nodes, words, chain, open, here, stack, F, P, R)
  BY DEF Faithful
<1>2. Top.kind = "else" /\ Top.done[1].reachable /\ Top.reachable
  BY DEF LeaveElse, Kind
<1>3. PICK N, S, p, t, m : BothAre(F, P, R, N, S, p, t, m)
  BY <1>1, <1>2, Both
<1>4. /\ Sits(value, nodes, words, chain, open, here, stack, F, P, R) /\ N = Len(value) /\ S = Level(N, R)
      /\ p = Len(chain) /\ p \in Nat /\ p >= 2 /\ World(value, N, S) /\ N \in Nat /\ t = Top.done[1].chain
      /\ chain \in Chains(S, N) /\ t \in Chains(S, N) /\ Len(t) = p
      /\ Good(value, F, chain) /\ Good(value, F, t) /\ Entered(F, p)
      /\ m = F[p].size /\ m = Size(Top.before) /\ m \in Nat
      /\ (here => Inner(value, N, S, F, chain, TRUE, stack))
      /\ (Top.way # 0 => Inner(value, N, S, F, t, TRUE, Top.arrived))
      /\ here \in BOOLEAN /\ WayIsReachable(Top)
  BY <1>3 DEF BothAre
<1>5. PICK v, c, T, U, e, r : /\ v = value /\ c = chain /\ T = {Parameters(t), Parameters(c)}
                              /\ U = {Returns(t), Returns(c)} /\ e = Largest(T) /\ r = Largest(U)
  OBVIOUS
<1>6. Size(c) = Size(t)
  <2>1. Balanced({Top.done[1], This})
    BY DEF LeaveElse
  <2>2. Size(Top.done[1].chain) = Size(This.chain)
    BY <1>2, <2>1 DEF Balanced, This
  <2> QED
    BY <1>4, <1>5, <2>2 DEF This
<1>7. /\ e \in Nat /\ r \in Nat /\ e <= m /\ r <= Size(c) /\ Size(c) - r = m - e
      /\ Parameters(c) <= e /\ Parameters(t) <= e
  <2>1. /\ c \in Chains(S, N) /\ Len(c) = p /\ Good(v, F, c) /\ Good(v, F, t)
    BY <1>4, <1>5
  <2>2. /\ N \in Nat /\ p \in Nat /\ p >= 2 /\ m = F[p].size /\ m \in Nat
        /\ t \in Chains(S, N) /\ Len(t) = p
    BY <1>4
  <2>3. /\ T = {Parameters(t), Parameters(c)} /\ U = {Returns(t), Returns(c)}
        /\ e = Largest(T) /\ r = Largest(U)
    BY <1>5
  <2> QED
    <3>1. AtOneLevel(S, N, v, F, p, m, c, t, T, e, U, r)
      BY ONLY <1>6, <2>1, <2>2, <2>3 DEF AtOneLevel
    <3> QED
      BY ONLY <3>1, Levelled
<1>8. PICK ends, en, way, cw, reach :
           /\ ends = <<PopN(t, r).sources, PopN(c, r).sources>> /\ en = PopN(Top.before, e)
           /\ way = Way(2) /\ cw = (IF here THEN c ELSE t) /\ reach = Enclosing.reachable
  OBVIOUS
<1>9. Present => WayIs(v, N, S, F, p, e, r, cw, ends[way], Arrived, m)
  <2>1. CASE here
    <3>1. cw = c /\ ends[way] = PopN(c, r).sources /\ Arrived = stack
      BY <1>8, <2>1 DEF Way, Arrived
    <3>2. World(v, N, S) /\ Inner(v, N, S, F, c, TRUE, stack) /\ Len(c) = p
      BY <1>4, <1>5, <2>1
    <3>3. PICK q : q = PopN(c, r).sources
      OBVIOUS
    <3>4. WayIs(v, N, S, F, p, e, r, c, q, stack, m)
      BY ONLY <1>4, <1>7, <3>2, <3>3, WayPopped
    <3> QED
      BY <3>1, <3>3, <3>4
  <2>2. CASE ~here /\ Present
    <3>1. Top.way = 1
      BY <1>2, <1>4, <2>2 DEF Present, WayIsReachable
    <3>2. cw = t /\ ends[way] = PopN(t, r).sources /\ Arrived = Top.arrived
      BY <1>8, <2>2, <3>1 DEF Way, Arrived
    <3>3. World(v, N, S) /\ Inner(v, N, S, F, t, TRUE, Top.arrived) /\ r <= Size(t) /\ Size(t) - r = m - e
      <4>1. Top.way # 0
        BY <3>1
      <4>2. World(v, N, S) /\ Inner(v, N, S, F, t, TRUE, Top.arrived)
        BY ONLY <1>4, <1>5, <4>1
      <4> QED
        BY ONLY <1>6, <1>7, <4>2
    <3>4. PICK q, a : q = PopN(t, r).sources /\ a = Top.arrived
      OBVIOUS
    <3>5. WayIs(v, N, S, F, p, e, r, t, q, a, m)
      BY ONLY <1>4, <1>7, <3>3, <3>4, WayPopped
    <3> QED
      BY <3>2, <3>4, <3>5
  <2> QED
    BY <2>1, <2>2
<1>10. Leave(en.chain, en.sources, r, ends, way, reach, FALSE, Arrived) /\ words' = words
  BY <1>4, <1>5, <1>8 DEF LeaveElse, Leave
<1>11. BranchEnd(F, P, R, N, S, p, e, en, cw, r, ends, way, reach, FALSE)
  BY <1>2, <1>4, <1>5, <1>7, <1>8, <1>9, <1>10 DEF BranchEnd
<1> QED
  BY ONLY <1>11, IndInv, BranchLeaves

(* The largest of numbers that are all the same.                           *)
LEMMA LargestSame ==
  ASSUME NEW a, a \in Nat, NEW b, b \in Nat, NEW T, T \subseteq {a, b}
  PROVE  /\ Largest(T) \in Nat
         /\ \A x \in T : (\A y \in T : y = x) => Largest(T) = x
<1>1. PICK n : n = a + b
  OBVIOUS
<1>2. n \in Nat /\ T \cup {0} \subseteq 0 .. n /\ T \cup {0} # {}
  BY <1>1
<1>3. Largest(T) \in T \cup {0} /\ \A y \in T \cup {0} : Largest(T) >= y
  BY <1>2, MaxIsLargest DEF Largest
<1>4. ASSUME NEW x \in T, \A y \in T : y = x
      PROVE  Largest(T) = x
  <2>1. x \in Nat /\ Largest(T) \in {x, 0} /\ Largest(T) >= x
    BY <1>3, <1>4
  <2> QED
    BY <2>1
<1>5. Largest(T) \in Nat
  <2>1. Largest(T) \in 0 .. n
    BY <1>2, <1>3
  <2> QED
    BY <2>1
<1> QED
  BY ONLY <1>4, <1>5

(* The cases of the match that ends.                                       *)
LEMMA CasesAre ==
  ASSUME Sound(Top), Kind("last"), NEW cs, cs = Append(Top.done, This)
  PROVE  /\ DOMAIN cs = 1 .. 2 /\ cs[1] = Top.done[1] /\ cs[2] = This
         /\ ToSet(cs) = {cs[1], cs[2]}
<1>1. PICK d : d = Top.done
  OBVIOUS
<1>2. IsSeq(d) /\ Len(d) = 1
  BY <1>1 DEF Sound, WayIsReachable, Kind
<1>3. /\ IsSeq(cs) /\ Len(cs) = Len(d) + 1 /\ \A k \in 1 .. Len(d) : cs[k] = d[k]
      /\ cs[Len(d) + 1] = This
  <2>1. PICK x : x = This
    OBVIOUS
  <2>2. cs = Append(d, x)
    BY <1>1, <2>1
  <2>3. /\ IsSeq(cs) /\ Len(cs) = Len(d) + 1 /\ \A k \in 1 .. Len(d) : cs[k] = d[k]
        /\ cs[Len(d) + 1] = x
    <3>1. IsSeq(d)
      BY <1>2
    <3>2. /\ IsSeq(Append(d, x)) /\ Len(Append(d, x)) = Len(d) + 1
          /\ \A k \in 1 .. Len(d) : Append(d, x)[k] = d[k]
          /\ Append(d, x)[Len(d) + 1] = x
      BY ONLY <3>1, OneMore
    <3> QED
      BY ONLY <2>2, <3>2
  <2> QED
    BY <2>1, <2>3
<1>4. Len(cs) = 2 /\ cs[1] = d[1] /\ cs[2] = This
  <2>1. 1 \in 1 .. Len(d) /\ Len(d) + 1 = 2
    BY <1>2
  <2> QED
    BY <1>3, <2>1
<1>5. DOMAIN cs = 1 .. 2
  BY <1>3, <1>4 DEF IsSeq
<1> QED
  BY <1>1, <1>4, <1>5 DEF ToSet

(* Of the cases that end, one is the way taken; r are left.                *)
Cases(v, N, S, F, p, m, c, t, e, pd, live, r) ==
  /\ World(v, N, S) /\ p \in Nat /\ p >= 2 /\ m = F[p].size /\ e \in Nat /\ e <= m
  /\ Entered(F, p)
  /\ c \in Chains(S, N) /\ Len(c) = p /\ Good(v, F, c) /\ Parameters(c) <= e
  /\ t \in Chains(S, N) /\ Len(t) = p /\ Good(v, F, t) /\ Parameters(t) <= e
  /\ pd[1] = EnsureNegatives(t, e) /\ pd[2] = EnsureNegatives(c, e)
  /\ live \subseteq 1 .. 2 /\ (1 \in live /\ 2 \in live => Size(c) = Size(t))
  /\ r = Largest({Returns(pd[i]) : i \in live})

(* Whichever case is taken leaves r of its values, and what it did not     *)
(* take.                                                                   *)
LEMMA CasesLeave ==
  ASSUME NEW v, NEW N, NEW S, NEW F, NEW p, NEW m, NEW c, NEW t, NEW e, NEW pd, NEW live, NEW r,
         Cases(v, N, S, F, p, m, c, t, e, pd, live, r)
  PROVE  /\ r \in Nat
         /\ \A a : 2 \in live /\ Inner(v, N, S, F, c, TRUE, a)
                     => WayIs(v, N, S, F, p, e, r, pd[2], PopN(pd[2], r).sources, a, m)
         /\ \A a : 1 \in live /\ Inner(v, N, S, F, t, TRUE, a)
                     => WayIs(v, N, S, F, p, e, r, pd[1], PopN(pd[1], r).sources, a, m)
<1>1. /\ World(v, N, S) /\ p \in Nat /\ p >= 2 /\ m = F[p].size /\ e \in Nat /\ e <= m
      /\ Entered(F, p)
      /\ c \in Chains(S, N) /\ Len(c) = p /\ Good(v, F, c) /\ Parameters(c) <= e
      /\ t \in Chains(S, N) /\ Len(t) = p /\ Good(v, F, t) /\ Parameters(t) <= e
      /\ pd[1] = EnsureNegatives(t, e) /\ pd[2] = EnsureNegatives(c, e)
      /\ live \subseteq 1 .. 2 /\ (1 \in live /\ 2 \in live => Size(c) = Size(t))
      /\ r = Largest({Returns(pd[i]) : i \in live})
  BY DEF Cases
<1>2. PICK x, y : x = EnsureNegatives(c, e) /\ y = EnsureNegatives(t, e)
  OBVIOUS
<1>3. /\ x \in Chains(S, N) /\ Len(x) = p /\ Parameters(x) = e /\ Returns(x) \in Nat
      /\ Size(c) - Returns(x) = m - e /\ Returns(x) <= Size(c) /\ Size(x) = Size(c)
      /\ Size(c) \in Nat /\ m \in Nat /\ Padded(S, N, v, F, c, x)
  BY ONLY <1>1, <1>2, WayPadded
<1>4. /\ y \in Chains(S, N) /\ Len(y) = p /\ Parameters(y) = e /\ Returns(y) \in Nat
      /\ Size(t) - Returns(y) = m - e /\ Returns(y) <= Size(t) /\ Size(y) = Size(t)
      /\ Size(t) \in Nat /\ m \in Nat /\ Padded(S, N, v, F, t, y)
  BY ONLY <1>1, <1>2, WayPadded
<1>5. PICK T, a, b : T = {Returns(pd[i]) : i \in live} /\ a = Returns(y) /\ b = Returns(x)
  OBVIOUS
<1>6. T \subseteq {a, b} /\ (1 \in live => a \in T) /\ (2 \in live => b \in T)
  BY <1>1, <1>2, <1>5
<1>7. /\ Largest(T) \in Nat
      /\ \A z \in T : (\A w \in T : w = z) => Largest(T) = z
  BY <1>3, <1>4, <1>5, <1>6, LargestSame
<1>8. ASSUME 1 \in live, 2 \in live
      PROVE  a = b
  <2>1. Size(c) - b = Size(c) - a /\ a \in Nat /\ b \in Nat /\ Size(c) \in Nat
    BY <1>1, <1>3, <1>4, <1>5, <1>8
  <2> QED
    BY <2>1
<1>9. ASSUME NEW i \in live
      PROVE  \A w \in T : w = Returns(pd[i])
  BY <1>1, <1>2, <1>5, <1>8, <1>9
<1>10. ASSUME NEW i \in live
       PROVE  r = Returns(pd[i])
  BY <1>1, <1>5, <1>7, <1>9
<1>11. ASSUME NEW d, NEW z, NEW a1, Inner(v, N, S, F, d, TRUE, a1), Padded(S, N, v, F, d, z),
              Size(d) - r = m - e, r <= Size(d), Size(z) = Size(d), Parameters(z) = e, Len(z) = p,
              r \in Nat
       PROVE  WayIs(v, N, S, F, p, e, r, z, PopN(z, r).sources, a1, m)
  <2>1. Inner(v, N, S, F, z, TRUE, a1)
    BY <1>11, PaddedInner
  <2>2. PICK q : q = PopN(z, r).sources
    OBVIOUS
  <2>3. World(v, N, S) /\ p \in Nat /\ p >= 2 /\ e \in Nat /\ Parameters(z) <= e
        /\ r <= Size(z) /\ Size(z) - r = m - e /\ Len(z) = p /\ r \in Nat
    BY <1>1, <1>11
  <2>4. WayIs(v, N, S, F, p, e, r, z, q, a1, m)
    BY ONLY <2>1, <2>2, <2>3, WayPopped
  <2> QED
    BY <2>2, <2>4
<1>12. ASSUME 2 \in live, NEW a1, Inner(v, N, S, F, c, TRUE, a1)
       PROVE  WayIs(v, N, S, F, p, e, r, pd[2], PopN(pd[2], r).sources, a1, m)
  <2>1. r = Returns(x) /\ pd[2] = x
    BY <1>1, <1>2, <1>10, <1>12
  <2>2. /\ Size(c) - r = m - e /\ r <= Size(c) /\ Size(x) = Size(c) /\ Parameters(x) = e /\ Len(x) = p
        /\ r \in Nat /\ Padded(S, N, v, F, c, x)
    BY ONLY <1>3, <2>1
  <2>3. WayIs(v, N, S, F, p, e, r, x, PopN(x, r).sources, a1, m)
    BY ONLY <1>11, <1>12, <2>2
  <2> QED
    BY <2>1, <2>3
<1>13. ASSUME 1 \in live, NEW a1, Inner(v, N, S, F, t, TRUE, a1)
       PROVE  WayIs(v, N, S, F, p, e, r, pd[1], PopN(pd[1], r).sources, a1, m)
  <2>1. r = Returns(y) /\ pd[1] = y
    BY <1>1, <1>2, <1>10, <1>13
  <2>2. /\ Size(t) - r = m - e /\ r <= Size(t) /\ Size(y) = Size(t) /\ Parameters(y) = e /\ Len(y) = p
        /\ r \in Nat /\ Padded(S, N, v, F, t, y)
    BY ONLY <1>4, <2>1
  <2>3. WayIs(v, N, S, F, p, e, r, y, PopN(y, r).sources, a1, m)
    BY ONLY <1>11, <1>13, <2>2
  <2> QED
    BY <2>1, <2>3
<1> QED
  BY <1>1, <1>5, <1>7, <1>12, <1>13

(* A match ends.                                                           *)
MatchEnds(cs, e, pd, live, r, ends, en) ==
  /\ cs = Append(Top.done, This)
  /\ e = Largest({Parameters(cs[i].chain) : i \in 1 .. 2})
  /\ pd = [i \in 1 .. 2 |-> EnsureNegatives(cs[i].chain, e)]
  /\ live = Live(cs)
  /\ r = Largest({Returns(pd[i]) : i \in live})
  /\ ends = [i \in 1 .. 2 |-> IF i \in live THEN PopN(pd[i], r).sources ELSE << >>]
  /\ en = PopN(Top.before, e)
  /\ Leave(en.chain, en.sources, r, ends, Way(2), live # {} /\ Enclosing.reachable, FALSE, Arrived)

(* What the end of a match does, step by step.                             *)
LEMMA LeaveMatchIs ==
  ASSUME LeaveMatch
  PROVE  \E cs, e, pd, live, r, ends, en : MatchEnds(cs, e, pd, live, r, ends, en)
<1> DEFINE cs == Append(Top.done, This)
<1> DEFINE e == Largest({Parameters(cs[i].chain) : i \in 1 .. 2})
<1> DEFINE pd == [i \in 1 .. 2 |-> EnsureNegatives(cs[i].chain, e)]
<1> DEFINE live == Live(cs)
<1> DEFINE r == Largest({Returns(pd[i]) : i \in live})
<1> DEFINE ends == [i \in 1 .. 2 |-> IF i \in live THEN PopN(pd[i], r).sources ELSE << >>]
<1> DEFINE en == PopN(Top.before, e)
<1>1. Leave(en.chain, en.sources, r, ends, Way(2), live # {} /\ Enclosing.reachable, FALSE, Arrived)
  BY DEF LeaveMatch
<1>2. /\ cs = Append(Top.done, This)
      /\ e = Largest({Parameters(cs[i].chain) : i \in 1 .. 2})
      /\ pd = [i \in 1 .. 2 |-> EnsureNegatives(cs[i].chain, e)]
      /\ live = Live(cs)
      /\ r = Largest({Returns(pd[i]) : i \in live})
      /\ ends = [i \in 1 .. 2 |-> IF i \in live THEN PopN(pd[i], r).sources ELSE << >>]
      /\ en = PopN(Top.before, e)
  OBVIOUS
<1> HIDE DEF cs, e, pd, live, r, ends, en
<1>3. MatchEnds(cs, e, pd, live, r, ends, en)
  BY ONLY <1>1, <1>2 DEF MatchEnds
<1> QED
  BY ONLY <1>3

(* So the end of a match keeps the invariant.                              *)
LEMMA LeaveMatchKeeps ==
  ASSUME Faithful, IndInv, LeaveMatch
  PROVE  Faithful'
<1>1. PICK F, P, R : Sits(value, nodes, words, chain, open, here, stack, F, P, R)
  BY DEF Faithful
<1>2. Top.kind = "last" /\ Kind("last") /\ Sound(Top)
  BY TopFacts DEF LeaveMatch, Kind
<1>3. PICK N, S, p, t, m : BothAre(F, P, R, N, S, p, t, m)
  BY <1>1, <1>2, Both
<1>4. /\ Sits(value, nodes, words, chain, open, here, stack, F, P, R) /\ N = Len(value) /\ S = Level(N, R)
      /\ p = Len(chain) /\ p \in Nat /\ p >= 2 /\ World(value, N, S) /\ N \in Nat /\ t = Top.done[1].chain
      /\ chain \in Chains(S, N) /\ t \in Chains(S, N) /\ Len(t) = p
      /\ Good(value, F, chain) /\ Good(value, F, t) /\ Entered(F, p)
      /\ m = F[p].size /\ m = Size(Top.before) /\ m \in Nat
      /\ Parameters(chain) \in Nat /\ Parameters(chain) <= m /\ Parameters(t) \in Nat /\ Parameters(t) <= m
      /\ (here => Inner(value, N, S, F, chain, TRUE, stack))
      /\ (Top.way # 0 => Inner(value, N, S, F, t, TRUE, Top.arrived))
      /\ here \in BOOLEAN /\ (here => Top.reachable) /\ WayIsReachable(Top)
  BY <1>3 DEF BothAre
<1>0. PICK cs, e, pd, live, r, ends, en : MatchEnds(cs, e, pd, live, r, ends, en)
  BY ONLY LeaveMatch, LeaveMatchIs
<1>5. /\ cs = Append(Top.done, This)
      /\ e = Largest({Parameters(cs[i].chain) : i \in 1 .. 2})
      /\ pd = [i \in 1 .. 2 |-> EnsureNegatives(cs[i].chain, e)]
      /\ live = Live(cs)
      /\ r = Largest({Returns(pd[i]) : i \in live})
      /\ ends = [i \in 1 .. 2 |-> IF i \in live THEN PopN(pd[i], r).sources ELSE << >>]
      /\ en = PopN(Top.before, e)
      /\ Leave(en.chain, en.sources, r, ends, Way(2), live # {} /\ Enclosing.reachable, FALSE, Arrived)
  BY ONLY <1>0 DEF MatchEnds
<1>6. DOMAIN cs = 1 .. 2 /\ cs[1] = Top.done[1] /\ cs[2] = This /\ ToSet(cs) = {cs[1], cs[2]}
  BY <1>2, <1>5, CasesAre
<1>7. PICK v, c :
         /\ v = value /\ c = chain /\ e = Largest({Parameters(cs[i].chain) : i \in 1 .. 2})
         /\ live = Live(cs) /\ pd = [i \in 1 .. 2 |-> EnsureNegatives(cs[i].chain, e)]
  BY ONLY <1>5
<1>8. e \in Nat /\ Parameters(c) <= e /\ Parameters(t) <= e /\ e <= m
  <2>1. PICK T : T = {Parameters(t), Parameters(c)}
    OBVIOUS
  <2>2. {Parameters(cs[i].chain) : i \in 1 .. 2} = T
    <3>1. 1 .. 2 = {1, 2}
      OBVIOUS
    <3>2. cs[1].chain = t /\ cs[2].chain = c
      BY <1>4, <1>6, <1>7 DEF This
    <3> QED
      BY <2>1, <3>1, <3>2
  <2>3. e \in T /\ e \in Nat /\ Parameters(t) <= e /\ Parameters(c) <= e
    BY <1>4, <1>7, <2>1, <2>2, LargestOf
  <2> QED
    BY <1>4, <1>7, <2>1, <2>3
<1>9. PICK way, cw, reach :
        /\ r = Largest({Returns(pd[i]) : i \in live})
        /\ ends = [i \in 1 .. 2 |-> IF i \in live THEN PopN(pd[i], r).sources ELSE << >>]
        /\ en = PopN(Top.before, e) /\ way = Way(2) /\ cw = pd[way]
        /\ reach = (live # {} /\ Enclosing.reachable)
  BY ONLY <1>5
<1>10. Cases(v, N, S, F, p, m, c, t, e, pd, live, r)
  <2>1. pd[1] = EnsureNegatives(t, e) /\ pd[2] = EnsureNegatives(c, e)
    BY <1>4, <1>6, <1>7 DEF This
  <2>2. live \subseteq 1 .. 2
    BY <1>6, <1>7 DEF Live
  <2>3. 1 \in live /\ 2 \in live => Size(c) = Size(t)
    <3>1. Balanced(ToSet(cs))
      BY <1>5 DEF LeaveMatch
    <3>2. 1 \in live /\ 2 \in live => cs[1].reachable /\ cs[2].reachable
      BY <1>7 DEF Live
    <3>3. cs[1] \in ToSet(cs) /\ cs[2] \in ToSet(cs)
      BY <1>6
    <3>4. 1 \in live /\ 2 \in live => Size(cs[1].chain) = Size(cs[2].chain)
      BY <3>1, <3>2, <3>3 DEF Balanced
    <3> QED
      BY <1>4, <1>6, <1>7, <3>4 DEF This
  <2> QED
    BY <1>4, <1>7, <1>8, <1>9, <2>1, <2>2, <2>3 DEF Cases
<1>11. /\ r \in Nat
       /\ \A a : 2 \in live /\ Inner(v, N, S, F, c, TRUE, a)
                   => WayIs(v, N, S, F, p, e, r, pd[2], PopN(pd[2], r).sources, a, m)
       /\ \A a : 1 \in live /\ Inner(v, N, S, F, t, TRUE, a)
                   => WayIs(v, N, S, F, p, e, r, pd[1], PopN(pd[1], r).sources, a, m)
  BY ONLY <1>10, CasesLeave
<1>12. Present => WayIs(v, N, S, F, p, e, r, cw, ends[way], Arrived, m)
  <2>1. CASE here
    <3>1. 2 \in live
      BY <1>4, <1>6, <1>7, <2>1 DEF Live, This
    <3>2. way = 2 /\ cw = pd[2] /\ ends[way] = PopN(pd[2], r).sources /\ Arrived = stack
      BY <1>9, <2>1, <3>1 DEF Way, Arrived
    <3>3. Inner(v, N, S, F, c, TRUE, stack)
      BY <1>4, <1>7, <2>1
    <3> QED
      BY <1>11, <3>1, <3>2, <3>3
  <2>2. CASE ~here /\ Present
    <3>1. Top.way = 1 /\ Top.done[1].reachable
      BY <1>2, <1>4, <2>2 DEF Present, WayIsReachable
    <3>2. 1 \in live
      BY <1>6, <1>7, <3>1 DEF Live
    <3>3. way = 1 /\ cw = pd[1] /\ ends[way] = PopN(pd[1], r).sources /\ Arrived = Top.arrived
      BY <1>9, <2>2, <3>1, <3>2 DEF Way, Arrived
    <3>4. Inner(v, N, S, F, t, TRUE, Top.arrived)
      <4>1. Top.way # 0
        BY <3>1
      <4> QED
        BY ONLY <1>4, <1>7, <4>1
    <3> QED
      BY <1>11, <3>2, <3>3, <3>4
  <2> QED
    BY <2>1, <2>2
<1>13. Leave(en.chain, en.sources, r, ends, way, reach, FALSE, Arrived) /\ words' = words
  <2>1. words' = words
    BY DEF LeaveMatch, Leave
  <2>2. Leave(en.chain, en.sources, r, ends, way, reach, FALSE, Arrived)
    BY ONLY <1>5, <1>9
  <2> QED
    BY <2>1, <2>2
<1>14. BranchEnd(F, P, R, N, S, p, e, en, cw, r, ends, way, reach, FALSE)
  BY <1>2, <1>4, <1>7, <1>8, <1>9, <1>11, <1>12, <1>13 DEF BranchEnd
<1> QED
  BY ONLY <1>14, IndInv, BranchLeaves

(* What is left of the stack on which a block or a loop works, b, is what  *)
(* there was, and what it demanded, too.                                   *)
Below(v, N, S, F, p, c, n, b, f, u, m) ==
  /\ b \in Chains(S, N) /\ Len(b) = p - 1 /\ f \in Frames(S, N)
  /\ Size(b) \in Nat /\ Len(f.negative) \in Nat /\ f.negative \in Seq(S) /\ Size(b) + Len(f.negative) = m
  /\ Inner(v, N, S, F, b, F[p].in, IF F[p].in THEN SubSeq(u, 1, Size(b)) ELSE << >>)
  /\ F[p].in => /\ Len(v[n]) = m
                /\ \A i \in 1 .. Len(f.negative) : MeaningIn(v, f.negative[i]) = v[n][i]
  /\ \A i \in 0 .. p - 1 : Dry(c, i) => Dry(b, i)

(* It is.                                                                  *)
LEMMA BelowIs ==
  ASSUME NEW v, NEW N, N \in Nat, NEW S, NEW F, NEW p, p \in Nat, p >= 2, NEW c, c \in Chains(S, N), Len(c) = p,
         Good(v, F, c), Entered(F, p), NEW n, n = F[p].node, NEW m, m = F[p].size, m \in Nat,
         Len(v[n]) \in Nat, NEW b, b = Parents(c), NEW f, f = Last(c), NEW u, u = Reverse(v[n])
  PROVE  Below(v, N, S, F, p, c, n, b, f, u, m)
<1>1. PICK bb, ff : /\ bb \in Chains(S, N) /\ ff \in Frames(S, N) /\ (Len(bb) > 0 => ff.node # 0)
                    /\ c = Append(bb, ff) /\ Len(c) = Len(bb) + 1 /\ Len(bb) \in Nat
  <2>1. Len(c) # 0
    OBVIOUS
  <2> QED
    BY ONLY <2>1, N \in Nat, c \in Chains(S, N), ChainIs
<1>2. Parents(Append(bb, ff)) = bb /\ Last(Append(bb, ff)) = ff
      /\ \A j \in 1 .. Len(bb) : Append(bb, ff)[j] = bb[j]
  BY <1>1, ChainOf
<1>3. b = bb /\ f = ff
  BY <1>1, <1>2
<1>4. /\ b \in Chains(S, N) /\ f \in Frames(S, N) /\ (Len(b) > 0 => f.node # 0)
      /\ c = Append(b, f) /\ Len(b) = p - 1 /\ Len(b) > 0 /\ Len(b) + 1 = p
      /\ \A j \in 1 .. Len(b) : c[j] = b[j]
  BY <1>1, <1>2, <1>3
<1>5. Good(v, F, b) /\ Fits(v, b, f, F[p])
  <2>1. Good(v, F, Append(b, f)) <=> Good(v, F, b) /\ (Len(b) > 0 => Fits(v, b, f, F[Len(b) + 1]))
    BY <1>4, GoodAppend
  <2> QED
    BY <1>4, <2>1
<1>6. f.negative \in Seq(S) /\ Len(f.negative) \in Nat
  BY <1>4 DEF Frames
<1>7. Flat(b) \in Seq(S) /\ Size(b) = Len(Flat(b)) /\ Size(b) \in Nat
  BY <1>4, SizeIs
<1>8. Size(b) + Len(f.negative) = m /\ f.node = n
  BY <1>5 DEF Fits
<1>9. ASSUME F[p].in
      PROVE  /\ Len(v[n]) = m /\ \A i \in 1 .. Len(f.negative) : MeaningIn(v, f.negative[i]) = v[n][i]
             /\ \A i \in 1 .. Size(b) : MeaningIn(v, Flat(b)[i]) = v[n][m + 1 - i]
  BY <1>5, <1>8, <1>9 DEF Fits
<1>10. \A i \in 0 .. p - 1 : Dry(c, i) => Dry(b, i)
  BY <1>4 DEF Dry
<1>11. Entered(F, p - 1) /\ (F[p].in => F[p - 1].in)
  BY DEF Entered
<1>12. ASSUME F[p].in
       PROVE  Stands(v, Flat(b), SubSeq(u, 1, Size(b)))
  <2>1. PICK y, k, q : y = v[n] /\ k = Size(b) /\ q = Flat(b)
    OBVIOUS
  <2>2. Len(y) = m /\ k \in Nat /\ k <= m /\ Len(q) = k /\ q \in Seq(S)
        /\ \A i \in 1 .. k : MeaningIn(v, q[i]) = y[m + 1 - i]
    BY <1>6, <1>7, <1>8, <1>9, <1>12, <2>1
  <2>3. Len(u) = m /\ \A i \in 1 .. m : u[i] = y[m + 1 - i]
    <3>1. u = Reverse(y) /\ Len(y) = m /\ Len(y) \in Nat
      BY <2>1, <2>2
    <3> QED
      BY ONLY <3>1, ReversedIs
  <2>4. PICK V : u \in Seq(V)
    BY <2>1, <2>2, ReversedSeq
  <2>5. PICK w, l : w = SubSeq(u, l + 1, l + k) /\ l = 0
    OBVIOUS
  <2>6. w \in Seq(V) /\ Len(w) = k /\ \A i \in 1 .. k : w[i] = u[l + i]
    <3>1. l \in Nat /\ l + k <= Len(u)
      BY <2>2, <2>3, <2>5
    <3> QED
      BY ONLY <2>2, <2>4, <2>5, <3>1, PieceOf
  <2>7. \A i \in 1 .. Len(q) : w[i] = MeaningIn(v, q[i])
    <3>1. \A i \in 1 .. k : i \in 1 .. m /\ l + i = i
      BY <2>2, <2>5
    <3> QED
      BY ONLY <2>2, <2>3, <2>6, <3>1
  <2>8. Stands(v, q, w)
    BY ONLY <2>2, <2>6, <2>7, StandsBy
  <2>9. w = SubSeq(u, 1, k)
    BY <2>2, <2>5
  <2> QED
    BY <2>1, <2>8, <2>9
<1>13. Inner(v, N, S, F, b, F[p].in, IF F[p].in THEN SubSeq(u, 1, Size(b)) ELSE << >>)
  <2>1. Len(b) # 0 /\ Len(b) = p - 1
    BY <1>4
  <2> QED
    BY <1>4, <1>5, <1>11, <1>12, <2>1 DEF Inner
<1> QED
  BY <1>4, <1>6, <1>7, <1>8, <1>9, <1>10, <1>13 DEF Below

(* The arguments of a block or a loop.                                     *)
LEMMA DemandsGiven ==
  ASSUME NEW v, NEW N, NEW S, NEW F, NEW p, NEW c, NEW n, NEW b, NEW f, NEW u, NEW m,
         Below(v, N, S, F, p, c, n, b, f, u, m), ~F[p].in => v[n] = << >>,
         NEW y, NodeOk(v, S, n, y), NEW q, q \in Seq(S),
         (y.kind = "loop" /\ q = f.negative) \/ (y.kind # "loop" /\ Reverse(q) = f.negative),
         NEW yy, yy = [y EXCEPT !.arguments = q]
  PROVE  NodeOk(v, S, n, yy) /\ yy.kind = y.kind
<1>1. DOMAIN y = NodeFields
  BY DEF NodeOk
<1>2. /\ DOMAIN yy = NodeFields /\ yy.kind = y.kind /\ yy.arguments = q /\ yy.next = y.next
      /\ yy.again = y.again /\ yy.subject = y.subject
  BY <1>1 DEF NodeFields
<1>3. PICK z : z = f.negative
  OBVIOUS
<1>4. ByDepth(yy) = z
  BY <1>2, <1>3 DEF ByDepth
<1>5. z \in Seq(S) /\ (F[p].in => \A i \in 1 .. Len(z) : MeaningIn(v, z[i]) = v[n][i])
  BY <1>3 DEF Below
<1>6. \A d \in DOMAIN z \cap DOMAIN v[n] : MeaningIn(v, z[d]) = v[n][d]
  <2>1. CASE F[p].in
    BY <1>5, <2>1
  <2>2. CASE ~F[p].in
    BY <2>2
  <2> QED
    BY <2>1, <2>2
<1>7. EntryOk(v, n, yy)
  <2>1. EntryOk(v, n, y)
    BY DEF NodeOk
  <2> QED
    BY <1>2, <1>4, <1>6, <2>1 DEF EntryOk
<1> QED
  BY <1>2, <1>7 DEF NodeOk

(* Where nothing was pushed, nothing is.                                   *)
LEMMA DryParents ==
  ASSUME NEW S, NEW N, N \in Nat, NEW b, b \in Chains(S, N), NEW n, n = Len(b), Dry(b, n)
  PROVE  Size(b) = 0
BY DrySize

(* What a break took that took the whole stack is not there any more.      *)
LEMMA TopSpent ==
  ASSUME NEW P, NEW c, NEW o, AllSpent(P, c, o), NEW p, p = Len(c), p \in Nat, Places(P, o, p), IsSeq(o),
         NEW l, l = Len(o), l > 1, NEW x, x = o[l], TakesAll(x), P[l] = p, x.done = << >>
  PROVE  Dry(c, p - 1)
<1>1. l \in Nat
  BY DEF IsSeq
<1>2. l \in 2 .. Len(o)
  BY <1>1
<1>3. PICK j \in P[l] .. Len(c) : Spent(P, c, o, j)
  BY <1>2 DEF AllSpent
<1>4. j = p
  BY <1>3
<1>5. CASE SpentNow(P, c, o, j)
  BY <1>4, <1>5 DEF SpentNow
<1>6. ASSUME SpentBefore(P, o, j)
      PROVE  FALSE
  <2>1. PICK k \in 2 .. Len(o) : Framed(o[k]) /\ P[k] = j /\ o[k].done # << >>
    BY <1>6 DEF SpentBefore
  <2>2. Framed(x)
    BY DEF TakesAll, Framed
  <2>3. \A n \in 1 .. Len(o) : \A i \in 1 .. n :
           /\ 1 <= P[i] /\ P[i] <= P[n] /\ P[n] <= p
           /\ i < n /\ Framed(o[n]) => P[i] < P[n]
    <3>1. Len(o) > 0
      BY <1>1
    <3> QED
      BY ONLY <3>1, Places(P, o, p), IsSeq(o), PlacesRise
  <2>4. k # l
    BY <2>1
  <2>5. k \in 1 .. Len(o) /\ k < l /\ l \in 1 .. Len(o) /\ k \in 1 .. l
    BY <1>1, <2>1, <2>4
  <2>6. P[k] < P[l]
    BY <2>2, <2>3, <2>5
  <2>7. p < p
    BY <1>4, <2>1, <2>6
  <2> QED
    BY <2>7
<1> QED
  BY <1>3, <1>5, <1>6 DEF Spent

(* The block or loop that ends.                                            *)
BlockIs(F, P, R, N, S, p, b, f, u, m) ==
  /\ Sits(value, nodes, words, chain, open, here, stack, F, P, R) /\ N = Len(value) /\ S = Level(N, R)
  /\ p = Len(chain) /\ p \in Nat /\ p >= 2 /\ Framed(Top) /\ World(value, N, S) /\ N \in Nat
  /\ TopIs(F, P, N, S, p) /\ b = Parents(chain) /\ f = Last(chain) /\ u = Reverse(value[Top.node])
  /\ m \in Nat /\ Below(value, N, S, F, p, chain, Top.node, b, f, u, m) /\ Top.node = F[p].node
  /\ (~F[p].in => value[Top.node] = << >>)
  /\ (here => F[p].in /\ Inner(value, N, S, F, chain, TRUE, stack)) /\ (Top.way # 0 => F[p].in)
  /\ Drained(Top, chain, b, p) /\ (TakesAll(Top) => Size(b) = 0)
  /\ here \in BOOLEAN /\ (here => Top.reachable) /\ WayIsReachable(Top) /\ IsSeq(Top.breaks)

(* The invariant says so.                                                  *)
LEMMA Blocks ==
  ASSUME IndInv, NEW F, NEW P, NEW R, Sits(value, nodes, words, chain, open, here, stack, F, P, R),
         Top.kind \in {"block", "loop"}
  PROVE  \E N, S, p, b, f, u, m : BlockIs(F, P, R, N, S, p, b, f, u, m)
<1>1. PICK N, S, p, b, f, u, m :
        /\ N = Len(value) /\ S = Level(N, R) /\ p = Len(chain) /\ b = Parents(chain) /\ f = Last(chain)
        /\ u = Reverse(value[Top.node]) /\ m = Size(Top.before)
  OBVIOUS
<1>2. Framed(Top)
  BY DEF Framed
<1>3. TopIs(F, P, N, S, p)
  BY ONLY <1>1, <1>2, Sits(value, nodes, words, chain, open, here, stack, F, P, R), IndInv, TopIsKnown
<1>4. /\ EntryIs(value, N, S, F, p, Top) /\ DoneIs(value, N, S, F, p, Top) /\ Entered(F, p)
      /\ P[Len(open)] = p /\ Len(open) > 1 /\ Len(value[Top.node]) \in Nat
      /\ NodeOk(value, S, Top.node, nodes[Top.node])
  BY <1>3 DEF TopIs
<1>5. /\ World(value, N, S) /\ N \in Nat /\ Inner(value, N, S, F, chain, here, stack)
  <2>1. /\ World(value, Len(value), Level(Len(value), R)) /\ Len(value) \in Nat
        /\ Inner(value, Len(value), Level(Len(value), R), F, chain, here, stack)
    BY Before
  <2> QED
    BY <1>1, <2>1
<1>6. /\ p \in Nat /\ p >= 2 /\ F[p].size = m /\ (Top.way # 0 => F[p].in) /\ F[p].node = Top.node
      /\ Top.before \in Chains(S, N) /\ (value[Top.node] # << >> => F[p].in)
  BY <1>1, <1>4 DEF EntryIs
<1>7. m \in Nat
  BY <1>1, <1>6, SizeIs
<1>8. chain \in Chains(S, N) /\ Good(value, F, chain) /\ (here => F[p].in /\ Inner(value, N, S, F, chain, TRUE, stack))
  BY <1>1, <1>5 DEF Inner
<1>9. PICK v, c, n : v = value /\ c = chain /\ n = Top.node
  OBVIOUS
<1>10. Below(v, N, S, F, p, c, n, b, f, u, m)
  <2>1. /\ N \in Nat /\ p \in Nat /\ p >= 2 /\ c \in Chains(S, N) /\ Len(c) = p /\ Good(v, F, c) /\ Entered(F, p)
        /\ n = F[p].node /\ m = F[p].size /\ m \in Nat /\ Len(v[n]) \in Nat
        /\ b = Parents(c) /\ f = Last(c) /\ u = Reverse(v[n])
    BY <1>1, <1>4, <1>5, <1>6, <1>7, <1>8, <1>9
  <2> QED
    BY ONLY <2>1, BelowIs
<1>11. Top.done = << >>
  BY <1>4 DEF DoneIs
<1>12. /\ \A i \in 0 .. p - 1 : Dry(c, i) => Dry(b, i)
       /\ b \in Chains(S, N) /\ Len(b) = p - 1
  BY <1>10 DEF Below
<1>13. Drained(Top, chain, b, p)
  <2>1. \A i \in 0 .. p - 2 : i \in 0 .. p - 1
    BY <1>6
  <2>2. p - 1 \in 0 .. p - 1
    BY <1>6
  <2> QED
    BY <1>9, <1>11, <1>12, <2>1, <2>2 DEF Drained
<1>14. ASSUME TakesAll(Top)
       PROVE  Size(b) = 0
  <2>1. AllSpent(P, chain, open) /\ Places(P, open, Len(chain))
    BY DEF Sits
  <2>2. PICK o, x, l : o = open /\ x = Top /\ l = Len(open)
    OBVIOUS
  <2>3. IsSeq(o) /\ x = o[l]
    BY <2>2, TopFacts
  <2>4. /\ AllSpent(P, c, o) /\ p = Len(c) /\ p \in Nat /\ Places(P, o, p) /\ l = Len(o) /\ l > 1
        /\ TakesAll(x) /\ P[l] = p /\ x.done = << >>
    BY <1>1, <1>4, <1>6, <1>9, <1>11, <1>14, <2>1, <2>2
  <2>5. Dry(c, p - 1)
    BY ONLY <2>3, <2>4, TopSpent
  <2>6. p - 1 \in 0 .. p - 1
    BY <1>6
  <2>7. Dry(b, p - 1)
    BY <1>12, <2>5, <2>6
  <2> QED
    BY <1>5, <1>12, <2>7, DryParents
<1>15. /\ here \in BOOLEAN /\ (here => Top.reachable) /\ WayIsReachable(Top) /\ IsSeq(Top.breaks)
  BY TopFacts DEF Sound
<1>16. ~F[p].in => value[Top.node] = << >>
  BY <1>6
<1>17. BlockIs(F, P, R, N, S, p, b, f, u, m)
  <2>1. Below(value, N, S, F, p, chain, Top.node, b, f, u, m)
    BY <1>9, <1>10
  <2> QED
    BY ONLY Sits(value, nodes, words, chain, open, here, stack, F, P, R),
       <1>1, <1>2, <1>3, <1>5, <1>6, <1>7, <1>8, <1>13, <1>14, <1>15, <1>16, <2>1 DEF BlockIs
<1> QED
  BY <1>17

(* What leaves, q, and what the execution has below.                       *)
Comes(S, q, r, args, st, u, k) ==
  \E a : q \in Seq(S) /\ Len(q) = r /\ Stands(value, q, a) /\ LeftOf(st, r, args) = Cat(SubSeq(u, 1, k), a)

OnTop(st, r) == SubSeq(st, Len(st) - r + 1, Len(st))

(* What an annotated block leaves lies on what it did not take.            *)
LEMMA LeftAnnotated ==
  ASSUME NEW F, NEW P, NEW R, NEW N, NEW S, NEW p, NEW b, NEW f, NEW u, NEW m,
         BlockIs(F, P, R, N, S, p, b, f, u, m), F[p].in, Top.annotation # None,
         NEW st, NEW r, NEW args, Len(args) = Len(f.negative)
  PROVE  LeftOf(st, r, args) = Cat(SubSeq(u, 1, Size(b)), OnTop(st, r))
<1>1. Below(value, N, S, F, p, chain, Top.node, b, f, u, m) /\ u = Reverse(value[Top.node]) /\ m \in Nat
  BY DEF BlockIs
<1>2. PICK y, k, n : y = value[Top.node] /\ k = Size(b) /\ n = Len(f.negative)
  OBVIOUS
<1>3. Len(y) = m /\ k \in Nat /\ n \in Nat /\ k + n = m
  BY <1>1, <1>2 DEF Below
<1>4. Len(u) = m
  BY <1>1, <1>2, <1>3, ReversedIs
<1>5. Len(u) - Len(args) = k
  BY <1>2, <1>3, <1>4
<1>6. EntryStack(Top.node) = u
  BY <1>1 DEF EntryStack
<1> QED
  BY <1>2, <1>5, <1>6 DEF LeftOf, Cat, OnTop

(* By a break.                                                             *)
LEMMA BreakOut ==
  ASSUME NEW F, NEW P, NEW R, NEW N, NEW S, NEW p, NEW b, NEW f, NEW u, NEW m,
         BlockIs(F, P, R, N, S, p, b, f, u, m), Top.kind \in {"block", "loop"}, Top.way # 0,
         NEW r, NEW args, Len(args) = Len(f.negative), NEW q, q = Top.breaks[Top.way].sources, Len(q) = r
  PROVE  Comes(S, q, r, args, Top.arrived, u, Size(b))
<1>1. /\ TopIs(F, P, N, S, p) /\ WayIsReachable(Top) /\ F[p].in /\ (TakesAll(Top) => Size(b) = 0)
      /\ u = Reverse(value[Top.node]) /\ Below(value, N, S, F, p, chain, Top.node, b, f, u, m) /\ m \in Nat
  BY DEF BlockIs
<1>2. PICK x, v, st : x = Top /\ v = value /\ st = Top.arrived
  OBVIOUS
<1>3. x.way \in 1 .. Len(x.breaks)
  BY <1>1, <1>2 DEF WayIsReachable
<1>4. BreaksAre(v, S, x)
  BY <1>1, <1>2 DEF TopIs
<1>5. q \in Seq(S) /\ (x.annotation # None => Len(q) = x.annotation)
  BY <1>2, <1>3, <1>4 DEF BreaksAre
<1>6. CASE x.annotation = None
  <2>1. Stands(v, q, st)
    BY <1>2, <1>4, <1>6 DEF BreaksAre
  <2>2. LeftOf(st, r, args) = st
    BY <1>2, <1>6 DEF LeftOf
  <2>3. Size(b) = 0
    BY <1>1, <1>2, <1>6 DEF TakesAll
  <2>4. SubSeq(u, 1, Size(b)) = << >>
    <3>1. Len(v[x.node]) \in Nat
      BY <1>1, <1>2 DEF Below
    <3>2. PICK y : y = v[x.node]
      OBVIOUS
    <3>3. PICK V : u \in Seq(V)
      BY <1>1, <1>2, <3>1, <3>2, ReversedSeq
    <3> QED
      BY <2>3, <3>3
  <2>5. PICK V : st \in Seq(V)
    BY <1>5, <2>1, StandsIs
  <2>6. Cat(<< >>, st) = st
    BY <2>5, CatSeq
  <2>7. LeftOf(st, r, args) = Cat(SubSeq(u, 1, Size(b)), st)
    BY <2>2, <2>4, <2>6
  <2> QED
    BY <1>2, <1>5, <2>1, <2>7 DEF Comes
<1>7. CASE x.annotation # None
  <2>1. Len(q) = r /\ x.annotation = r
    BY <1>5, <1>7
  <2>2. PICK a : a = SubSeq(st, Len(st) - r + 1, Len(st))
    OBVIOUS
  <2>3. Stands(v, q, a)
    BY <1>2, <1>4, <1>7, <2>1, <2>2 DEF BreaksAre
  <2>4. LeftOf(st, r, args) = Cat(SubSeq(u, 1, Size(b)), a)
    <3>1. BlockIs(F, P, R, N, S, p, b, f, u, m) /\ F[p].in /\ Top.annotation # None
          /\ Len(args) = Len(f.negative)
      BY <1>1, <1>2, <1>7
    <3>2. LeftOf(st, r, args) = Cat(SubSeq(u, 1, Size(b)), OnTop(st, r))
      BY ONLY <3>1, LeftAnnotated
    <3> QED
      BY <2>2, <3>2 DEF OnTop
  <2> QED
    BY <1>2, <1>5, <2>3, <2>4 DEF Comes
<1> QED
  BY <1>6, <1>7

(* By the end.                                                             *)
LEMMA EndOut ==
  ASSUME NEW F, NEW P, NEW R, NEW N, NEW S, NEW p, NEW b, NEW f, NEW u, NEW m,
         BlockIs(F, P, R, N, S, p, b, f, u, m), here,
         NEW r, NEW args, Len(args) = Len(f.negative), NEW q, q = f.positive, Len(q) = r
  PROVE  Comes(S, q, r, args, stack, u, Size(b))
<1>1. /\ F[p].in /\ Inner(value, N, S, F, chain, TRUE, stack) /\ N \in Nat /\ p = Len(chain) /\ p \in Nat /\ p >= 2
      /\ u = Reverse(value[Top.node]) /\ b = Parents(chain) /\ f = Last(chain) /\ Top.node = F[p].node
  BY DEF BlockIs
<1>2. PICK c, v, st : c = chain /\ v = value /\ st = stack
  OBVIOUS
<1>3. c \in Chains(S, N) /\ Good(v, F, c) /\ Stands(v, Flat(c), st) /\ Len(c) # 0
  BY <1>1, <1>2 DEF Inner
<1>4. /\ Size(c) = Size(Parents(c)) + Returns(c) /\ Returns(c) \in Nat /\ Size(Parents(c)) \in Nat
      /\ Last(c).positive \in Seq(S) /\ Len(Last(c).positive) = Returns(c)
      /\ \A i \in 1 .. Returns(c) : Flat(c)[Size(c) - Returns(c) + i] = Last(c).positive[i]
  BY <1>1, <1>3, SizeOf
<1>5. /\ Size(c) = Size(b) + r /\ r \in Nat /\ Size(b) \in Nat /\ q \in Seq(S)
      /\ \A i \in 1 .. r : Flat(c)[Size(c) - r + i] = q[i]
  BY <1>1, <1>2, <1>4
<1>6. Flat(c) \in Seq(S) /\ Size(c) = Len(Flat(c)) /\ Size(c) \in Nat
  BY <1>3, SizeIs
<1>7. PICK fl, a : fl = Flat(c) /\ a = SubSeq(st, Len(st) - r + 1, Len(st))
  OBVIOUS
<1>8. Stands(v, q, a)
  <2>1. fl \in Seq(S) /\ Stands(v, fl, st) /\ r \in 0 .. Len(fl)
    BY <1>3, <1>5, <1>6, <1>7
  <2>2. \A i \in 1 .. r : MeaningIn(v, q[i]) = MeaningIn(v, fl[Len(fl) - r + i])
    BY <1>5, <1>6, <1>7
  <2>3. q \in Seq(S) /\ Len(q) = r
    BY <1>5
  <2> QED
    BY ONLY <1>7, <2>1, <2>2, <2>3, StandsAbove
<1>9. LeftOf(st, r, args) = Cat(SubSeq(u, 1, Size(b)), a)
  <2>1. CASE Top.annotation # None
    <3>1. BlockIs(F, P, R, N, S, p, b, f, u, m) /\ F[p].in /\ Len(args) = Len(f.negative)
      BY <1>1
    <3>2. LeftOf(st, r, args) = Cat(SubSeq(u, 1, Size(b)), OnTop(st, r))
      BY ONLY <2>1, <3>1, LeftAnnotated
    <3> QED
      BY <1>7, <3>2 DEF OnTop
  <2>2. CASE Top.annotation = None
    <3>1. LeftOf(st, r, args) = st
      BY <2>2 DEF LeftOf
    <3>2. PICK k : k = Size(b)
      OBVIOUS
    <3>3. /\ N \in Nat /\ p >= 2 /\ c \in Chains(S, N) /\ Len(c) = p /\ Good(v, F, c) /\ F[p].in
          /\ Stands(v, Flat(c), st) /\ r \in Nat /\ u = Reverse(v[F[p].node])
      BY <1>1, <1>2, <1>3, <1>5
    <3>4. k \in Nat /\ k = Size(c) - r /\ k <= Size(Parents(c))
      BY <1>1, <1>2, <1>5, <3>2
    <3>5. st = Cat(SubSeq(u, 1, k), SubSeq(st, Len(st) - r + 1, Len(st)))
      BY ONLY <3>3, <3>4, ComesBack
    <3> QED
      BY <1>7, <3>1, <3>2, <3>5
  <2> QED
    BY <2>1, <2>2
<1> QED
  BY <1>2, <1>5, <1>8, <1>9 DEF Comes

(* What leaves a block: the ends are its breaks, and its end if it is      *)
(* reachable.                                                              *)
LEMMA EndsAre ==
  ASSUME NEW br, IsSeq(br), NEW x, NEW es, es = Append(br, x) \/ es = br
  PROVE  /\ DOMAIN es = 1 .. Len(es) /\ Len(br) \in Nat
         /\ \A i \in 1 .. Len(br) : i \in DOMAIN es /\ es[i] = br[i]
         /\ \A i \in DOMAIN es : i \in 1 .. Len(br) \/ es[i] = x
         /\ es = Append(br, x) => /\ Len(es) = Len(br) + 1 /\ es[Len(es)] = x /\ Len(es) \in DOMAIN es
<1>1. /\ IsSeq(Append(br, x)) /\ Len(br) \in Nat /\ Len(Append(br, x)) = Len(br) + 1
      /\ \A k \in 1 .. Len(br) : Append(br, x)[k] = br[k]
      /\ Append(br, x)[Len(br) + 1] = x
  BY OneMore
<1>2. PICK ap, n : ap = Append(br, x) /\ n = Len(br)
  OBVIOUS
<1>3. /\ IsSeq(ap) /\ n \in Nat /\ Len(ap) = n + 1 /\ (\A k \in 1 .. n : ap[k] = br[k]) /\ ap[n + 1] = x
  BY <1>1, <1>2
<1>4. DOMAIN ap = 1 .. n + 1 /\ DOMAIN br = 1 .. n
  BY <1>2, <1>3 DEF IsSeq
<1>5. CASE es = ap
  <2>1. \A i \in 1 .. n + 1 : i \in 1 .. n \/ i = n + 1
    BY <1>3
  <2>2. \A i \in 1 .. n : i \in 1 .. n + 1
    BY <1>3
  <2>3. n + 1 \in 1 .. n + 1
    BY <1>3
  <2> QED
    BY <1>2, <1>3, <1>4, <1>5, <2>1, <2>2, <2>3
<1>6. CASE es = br /\ es # ap
  BY <1>2, <1>3, <1>4, <1>6
<1> QED
  BY <1>2, <1>5, <1>6

(* It leaves as many values as each of its ends.                           *)
LEMMA ReturnedIs ==
  ASSUME NEW es, NEW S, \A i \in DOMAIN es : es[i].sources \in Seq(S), NEW r,
         \A i \in DOMAIN es : Len(es[i].sources) = r
  PROVE  r = Returned(es) => r \in Nat
<1>1. PICK T : T = {Len(es[i].sources) : i \in DOMAIN es}
  OBVIOUS
<1>2. CASE DOMAIN es # {}
  <2>1. PICK i \in DOMAIN es : TRUE
    BY <1>2
  <2> QED
    BY <2>1
<1>3. CASE DOMAIN es = {}
  <2>1. T = {}
    BY <1>1, <1>3
  <2>2. 0 \in Nat /\ T \subseteq {0, 0}
    BY <2>1
  <2>3. Largest(T) \in Nat
    BY <2>2, LargestSame
  <2> QED
    BY <1>1, <2>3 DEF Returned
<1> QED
  BY <1>2, <1>3

(* A block ends.                                                           *)
LEMMA LeaveBlockKeeps ==
  ASSUME Faithful, IndInv, LeaveBlock
  PROVE  Faithful'
<1>1. PICK F, P, R : Sits(value, nodes, words, chain, open, here, stack, F, P, R)
  BY DEF Faithful
<1>2. Top.kind = "block"
  BY DEF LeaveBlock, Kind
<1>3. PICK N, S, p, b, f, u, m : BlockIs(F, P, R, N, S, p, b, f, u, m)
  BY <1>1, <1>2, Blocks
<1>4. /\ Sits(value, nodes, words, chain, open, here, stack, F, P, R) /\ N = Len(value) /\ S = Level(N, R)
      /\ p = Len(chain) /\ p \in Nat /\ p >= 2 /\ Framed(Top) /\ World(value, N, S) /\ N \in Nat
      /\ TopIs(F, P, N, S, p) /\ b = Parents(chain) /\ f = Last(chain) /\ u = Reverse(value[Top.node])
      /\ Below(value, N, S, F, p, chain, Top.node, b, f, u, m)
      /\ (~F[p].in => value[Top.node] = << >>)
      /\ (here => F[p].in) /\ (Top.way # 0 => F[p].in)
      /\ Drained(Top, chain, b, p)
      /\ here \in BOOLEAN /\ (here => Top.reachable) /\ WayIsReachable(Top) /\ IsSeq(Top.breaks)
  BY <1>3 DEF BlockIs
<1>5. PICK es, r, args, way, x, br, ss :
         /\ es = BlockEnds /\ r = (IF Top.annotation = None THEN Returned(es) ELSE Top.annotation)
         /\ args = Reverse(f.negative) /\ way = Way(Len(es)) /\ br = Top.breaks
         /\ x = [sources |-> f.positive, reachable |-> TRUE] /\ ss = Sources(es)
  OBVIOUS
<1>6. (Top.reachable => es = Append(br, x)) /\ (~Top.reachable => es = br)
  BY <1>4, <1>5 DEF BlockEnds
<1>7. /\ DOMAIN es = 1 .. Len(es) /\ Len(br) \in Nat
      /\ \A i \in 1 .. Len(br) : i \in DOMAIN es /\ es[i] = br[i]
      /\ \A i \in DOMAIN es : i \in 1 .. Len(br) \/ es[i] = x
      /\ es = Append(br, x) => /\ Len(es) = Len(br) + 1 /\ es[Len(es)] = x /\ Len(es) \in DOMAIN es
  <2>1. IsSeq(br) /\ (es = Append(br, x) \/ es = br)
    BY <1>4, <1>5, <1>6
  <2> QED
    BY ONLY <2>1, EndsAre
<1>8. \A i \in DOMAIN es : Len(es[i].sources) = r
  BY <1>5 DEF LeaveBlock
<1>9. BreaksAre(value, S, Top) /\ NodeOk(value, S, Top.node, nodes[Top.node])
      /\ nodes[Top.node].kind = "block"
  BY <1>2, <1>4 DEF TopIs, NodeKind
<1>10. /\ f \in Frames(S, N) /\ Len(b) = p - 1 /\ f.negative \in Seq(S)
       /\ Inner(value, N, S, F, b, F[p].in, IF F[p].in THEN SubSeq(u, 1, Size(b)) ELSE << >>)
  BY <1>4 DEF Below
<1>11. \A i \in DOMAIN es : es[i].sources \in Seq(S)
  <2>1. \A i \in 1 .. Len(br) : br[i].sources \in Seq(S)
    BY <1>2, <1>5, <1>9 DEF BreaksAre
  <2>2. x.sources \in Seq(S)
    BY <1>5, <1>10 DEF Frames
  <2> QED
    BY <1>7, <2>1, <2>2
<1>12. r \in Nat
  <2>1. CASE Top.annotation = None
    <3>1. r = Returned(es)
      BY <1>5, <2>1
    <3> QED
      BY ONLY <1>8, <1>11, <3>1, ReturnedIs
  <2>2. CASE Top.annotation # None
    BY <1>2, <1>5, <1>9, <2>2 DEF BreaksAre
  <2> QED
    BY <2>1, <2>2
<1>13. args \in Seq(S) /\ Len(args) = Len(f.negative) /\ Reverse(args) = f.negative
  <2>1. PICK z : z = f.negative
    OBVIOUS
  <2> QED
    BY <1>5, <1>10, <2>1, ReverseOf
<1>14. Present => way \in DOMAIN es /\ Comes(S, es[way].sources, r, args, Arrived, u, Size(b))
  <2>1. CASE here
    <3>1. es = Append(br, x) /\ way = Len(es) /\ Arrived = stack
      BY <1>4, <1>5, <1>6, <2>1 DEF Way, Arrived
    <3>2. way \in DOMAIN es /\ es[way] = x
      BY <1>7, <3>1
    <3>3. PICK q : q = f.positive
      OBVIOUS
    <3>4. es[way].sources = q
      BY <1>5, <3>2, <3>3
    <3>5. Len(q) = r /\ Len(args) = Len(f.negative)
      BY <1>8, <1>13, <3>2, <3>4
    <3>6. Comes(S, q, r, args, stack, u, Size(b))
      BY ONLY <1>3, <2>1, <3>3, <3>5, EndOut
    <3> QED
      BY <3>1, <3>2, <3>4, <3>6
  <2>2. CASE ~here /\ Present
    <3>1. Top.way # 0 /\ way = Top.way /\ Arrived = Top.arrived
      BY <1>5, <2>2 DEF Present, Way, Arrived
    <3>2. way \in 1 .. Len(br)
      BY <1>2, <1>4, <1>5, <3>1 DEF WayIsReachable
    <3>3. way \in DOMAIN es /\ es[way] = br[way]
      BY <1>7, <3>2
    <3>4. PICK q : q = Top.breaks[Top.way].sources
      OBVIOUS
    <3>5. es[way].sources = q
      BY <1>5, <3>1, <3>3, <3>4
    <3>6. Len(q) = r /\ Len(args) = Len(f.negative) /\ Top.way # 0
      BY <1>8, <1>13, <3>1, <3>3, <3>5
    <3>7. Top.kind \in {"block", "loop"}
      BY <1>2
    <3>8. Comes(S, q, r, args, Top.arrived, u, Size(b))
      BY ONLY <1>3, <3>4, <3>6, <3>7, BreakOut
    <3> QED
      BY <3>1, <3>3, <3>5, <3>8
  <2> QED
    BY <2>1, <2>2
<1>15. PICK g, s0, after, reach :
         /\ g = Present /\ s0 = (IF g THEN SubSeq(u, 1, Size(b)) ELSE << >>)
         /\ after = LeftOf(Arrived, r, args)
         /\ reach = ((Top.annotation # None \/ \E i \in DOMAIN es : es[i].reachable) /\ Enclosing.reachable)
  OBVIOUS
<1>16. \E a : Leaves(value, S, g, ss[way], r, a) /\ (g => after = Cat(s0, a))
  <2>1. CASE g
    <3>1. PICK q : q = es[way].sources
      OBVIOUS
    <3>2. Comes(S, q, r, args, Arrived, u, Size(b)) /\ ss[way] = q
      BY <1>5, <1>14, <1>15, <2>1, <3>1 DEF Sources
    <3>3. PICK a : q \in Seq(S) /\ Len(q) = r /\ Stands(value, q, a)
                   /\ LeftOf(Arrived, r, args) = Cat(SubSeq(u, 1, Size(b)), a)
      BY <3>2 DEF Comes
    <3> QED
      BY <1>12, <1>15, <2>1, <3>2, <3>3 DEF Leaves
  <2>2. CASE ~g
    BY <1>12, <2>2 DEF Leaves
  <2> QED
    BY <2>1, <2>2
<1>17. PICK a : Leaves(value, S, g, ss[way], r, a) /\ (g => after = Cat(s0, a))
  BY <1>16
<1>18. Inner(value, N, S, F, b, g, s0)
  <2>1. g => F[p].in
    BY <1>4, <1>15 DEF Present
  <2>2. PICK st0 : st0 = (IF F[p].in THEN SubSeq(u, 1, Size(b)) ELSE << >>)
    OBVIOUS
  <2>3. Inner(value, N, S, F, b, F[p].in, st0)
    BY <1>10, <2>2
  <2>4. Inner(value, N, S, F, b, g, IF g THEN st0 ELSE << >>)
    BY <2>1, <2>3, InnerGone
  <2>5. (IF g THEN st0 ELSE << >>) = s0
    BY <1>15, <2>1, <2>2
  <2> QED
    BY <2>4, <2>5
<1>19. NodeOk(value, S, Top.node, [nodes[Top.node] EXCEPT !.arguments = args])
  <2>1. PICK v, y, n, yy, c : v = value /\ n = Top.node /\ y = nodes[n] /\ yy = [y EXCEPT !.arguments = args]
                              /\ c = chain
    OBVIOUS
  <2>2. Below(v, N, S, F, p, c, n, b, f, u, m) /\ (~F[p].in => v[n] = << >>) /\ NodeOk(v, S, n, y)
    BY <1>4, <1>9, <2>1
  <2>3. y.kind # "loop" /\ Reverse(args) = f.negative /\ args \in Seq(S)
    BY <1>9, <1>13, <2>1
  <2>4. NodeOk(v, S, n, yy)
    BY ONLY <2>1, <2>2, <2>3, DemandsGiven
  <2> QED
    BY <2>1, <2>4
<1>20. Leave(b, args, r, ss, way, reach, FALSE, after) /\ words' = words
  <2>1. words' = words
    BY DEF LeaveBlock, Leave
  <2>2. Leave(b, args, r, ss, way, reach, FALSE, after)
    BY ONLY LeaveBlock, <1>4, <1>5, <1>15 DEF LeaveBlock, BlockArguments
  <2> QED
    BY <2>1, <2>2
<1>21. Ending(F, P, R, N, S, p, b, args, r, ss, way, reach, FALSE, after, g, s0, a)
  BY ONLY <1>4, <1>10, <1>15, <1>17, <1>18, <1>19, <1>20 DEF Ending
<1> QED
  BY ONLY <1>21, IndInv, LeaveKeeps

(* The values of a loop's next iteration lie where those of the first did. *)
Again(v, n, z, ag) ==
  \A d \in DOMAIN ag : ag[d] = IF d \in DOMAIN Reverse(z) THEN MeaningIn(v, Reverse(z)[d]) ELSE v[n][d]

(* They do: its end leaves as many as its beginning took.                  *)
LEMMA AgainIs ==
  ASSUME NEW v, NEW N, N \in Nat, NEW S, NEW F, NEW p, p \in Nat, p >= 2, NEW c, c \in Chains(S, N), Len(c) = p,
         Good(v, F, c), F[p].in, NEW st, Stands(v, Flat(c), st), NEW n, n = F[p].node,
         NEW m, m = F[p].size, m \in Nat, Len(v[n]) = m, Returns(c) = Parameters(c),
         NEW z, z = Last(c).positive, NEW ag, ag = Reverse(st)
  PROVE  Again(v, n, z, ag)
<1>1. PICK k, r, q, u, y : k = Size(Parents(c)) /\ r = Returns(c) /\ q = Flat(c) /\ u = Reverse(v[n]) /\ y = v[n]
  OBVIOUS
<1>2. k + r = m /\ k \in Nat /\ r \in Nat
  <2>1. /\ Size(Parents(c)) + Parameters(c) = F[p].size
        /\ Size(Parents(c)) \in Nat /\ Parameters(c) \in Nat
    BY SumOf
  <2> QED
    BY <1>1, <2>1
<1>3. /\ Size(c) = m /\ z \in Seq(S) /\ Len(z) = r /\ \A i \in 1 .. r : q[m - r + i] = z[i]
  <2>1. /\ Size(c) = Size(Parents(c)) + Returns(c)
        /\ Last(c).positive \in Seq(S) /\ Len(Last(c).positive) = Returns(c)
        /\ \A i \in 1 .. Returns(c) : Flat(c)[Size(c) - Returns(c) + i] = Last(c).positive[i]
    BY SizeOf
  <2> QED
    BY <1>1, <1>2, <2>1
<1>4. q \in Seq(S) /\ Len(q) = m
  BY <1>1, <1>3, SizeIs
<1>5. PICK W : st \in Seq(W) /\ Len(st) = m /\ \A i \in 1 .. m : st[i] = MeaningIn(v, q[i])
  <2>1. Stands(v, q, st) /\ q \in Seq(S)
    BY <1>1, <1>4
  <2>2. /\ st \in Seq(Means(v, S)) /\ Len(st) = Len(q) /\ Len(q) \in Nat
        /\ \A i \in 1 .. Len(q) : st[i] = MeaningIn(v, q[i])
    BY ONLY <2>1, StandsIs
  <2> QED
    BY <1>4, <2>2
<1>6. /\ Len(ag) = m /\ DOMAIN ag = 1 .. m /\ \A d \in 1 .. m : ag[d] = st[m + 1 - d]
  <2>1. /\ Reverse(st) \in Seq(W) /\ Len(Reverse(st)) = Len(st)
        /\ \A i \in 1 .. Len(st) : Reverse(st)[i] = st[Len(st) + 1 - i]
    BY <1>5, ReverseOf
  <2> QED
    BY <1>5, <2>1
<1>7. /\ DOMAIN Reverse(z) = 1 .. r /\ \A d \in 1 .. r : Reverse(z)[d] = z[r + 1 - d]
  <2>1. /\ Reverse(z) \in Seq(S) /\ Len(Reverse(z)) = Len(z)
        /\ \A i \in 1 .. Len(z) : Reverse(z)[i] = z[Len(z) + 1 - i]
    <3>1. z \in Seq(S)
      BY <1>3
    <3> QED
      BY ONLY <3>1, ReverseOf
  <2> QED
    BY <1>3, <2>1
<1>8. ASSUME NEW d \in 1 .. r
      PROVE  ag[d] = MeaningIn(v, Reverse(z)[d])
  <2>1. PICK i, j : i = r + 1 - d /\ j = m + 1 - d
    OBVIOUS
  <2>2. i \in 1 .. r /\ j \in 1 .. m /\ j = m - r + i /\ d \in 1 .. m
    <3>1. d \in Int /\ r \in Int /\ m \in Int /\ r <= m /\ 1 <= d /\ d <= r /\ k \in Int
      BY <1>2
    <3> QED
      BY ONLY <2>1, <3>1
  <2>3. ag[d] = st[j] /\ st[j] = MeaningIn(v, q[j]) /\ q[j] = z[i] /\ Reverse(z)[d] = z[i]
    <3>1. ag[d] = st[j] /\ Reverse(z)[d] = z[i]
      BY <1>6, <1>7, <2>1, <2>2
    <3>2. st[j] = MeaningIn(v, q[j])
      BY <1>5, <2>2
    <3>3. q[m - r + i] = z[i]
      BY <1>3, <2>2
    <3> QED
      BY <2>2, <3>1, <3>2, <3>3
  <2> QED
    BY <2>3
<1>9. ASSUME NEW d \in 1 .. m, d \notin 1 .. r
      PROVE  ag[d] = v[n][d]
  <2>1. PICK i, l : i = m + 1 - d /\ l = 0
    OBVIOUS
  <2>2. i \in 1 .. k /\ i \in 1 .. m /\ m + 1 - i = d /\ l \in Nat /\ l + i = i
    <3>1. d \in Int /\ r \in Int /\ m \in Int /\ k + r = m /\ r < d /\ d <= m /\ k \in Int /\ r >= 0
      <4>1. d \in Int /\ 1 <= d /\ d <= m /\ r \in Int
        BY <1>2
      <4>2. r < d
        BY ONLY <1>9, <4>1
      <4> QED
        BY <1>2, <4>1, <4>2
    <3> QED
      BY ONLY <2>1, <3>1
  <2>3. PICK Y : st = Cat(SubSeq(u, 1, k), Y) /\ Y = SubSeq(st, Len(st) - r + 1, Len(st))
    <3>1. /\ N \in Nat /\ p >= 2 /\ c \in Chains(S, N) /\ Len(c) = p /\ Good(v, F, c) /\ F[p].in
          /\ Stands(v, Flat(c), st) /\ r \in Nat /\ u = Reverse(v[F[p].node])
      BY <1>1, <1>2
    <3>2. k \in Nat /\ k = Size(c) - r /\ k <= Size(Parents(c))
      BY <1>1, <1>2, <1>3
    <3>3. st = Cat(SubSeq(u, 1, k), SubSeq(st, Len(st) - r + 1, Len(st)))
      BY ONLY <3>1, <3>2, ComesBack
    <3> QED
      BY <3>3
  <2>4. Len(y) = m /\ y = v[n]
    BY <1>1
  <2>5. Len(u) = m /\ \A j \in 1 .. m : u[j] = y[m + 1 - j]
    <3>1. u = Reverse(y) /\ Len(y) = m /\ Len(y) \in Nat
      BY <1>1, <2>4
    <3> QED
      BY ONLY <3>1, ReversedIs
  <2>6. PICK V : u \in Seq(V)
    BY <1>1, <2>4, ReversedSeq
  <2>7. PICK X : X = SubSeq(u, l + 1, l + k)
    OBVIOUS
  <2>8. X \in Seq(V) /\ Len(X) = k /\ \A j \in 1 .. k : X[j] = u[l + j]
    <3>1. l + k <= Len(u) /\ k \in Nat
      BY <1>2, <2>1, <2>5
    <3> QED
      <4>1. u \in Seq(V) /\ l \in Nat
        BY <2>2, <2>6
      <4> QED
        BY ONLY <2>7, <3>1, <4>1, PieceOf
  <2>9. X = SubSeq(u, 1, k) /\ st = Cat(X, Y)
    BY <1>2, <2>1, <2>3, <2>7
  <2>10. st[i] = X[i]
    <3>1. Y \in Seq(W)
      <4>1. k + r <= Len(st) /\ k \in Nat /\ r \in Nat
        BY <1>2, <1>5
      <4>2. SubSeq(st, k + 1, k + r) \in Seq(W)
        BY ONLY <1>5, <4>1, PieceOf
      <4>3. Len(st) - r + 1 = k + 1 /\ Len(st) = k + r
        BY <1>2, <1>5
      <4> QED
        BY <2>3, <4>2, <4>3
    <3>2. PICK Z : Z = V \cup W
      OBVIOUS
    <3>3. X \in Seq(Z) /\ Y \in Seq(Z)
      BY <2>8, <3>1, <3>2
    <3>4. \A j \in 1 .. Len(X) : Cat(X, Y)[j] = X[j]
      BY ONLY <3>3, CatOf
    <3> QED
      BY <2>2, <2>8, <2>9, <3>4
  <2>11. X[i] = u[i] /\ u[i] = y[d]
    BY <2>2, <2>5, <2>8
  <2>12. ag[d] = st[i]
    BY <1>6, <2>1
  <2> QED
    BY <2>4, <2>10, <2>11, <2>12
<1> QED
  BY <1>6, <1>7, <1>8, <1>9 DEF Again

(* The node of a loop that ends.                                           *)
LoopEnds(v, S, n, y, args, yy, z, ag, yn) ==
  /\ NodeOk(v, S, n, y) /\ y.kind = "loop" /\ yy = [y EXCEPT !.arguments = args] /\ NodeOk(v, S, n, yy)
  /\ z \in Seq(S) /\ Again(v, n, z, ag)
  /\ yn = [y EXCEPT !.arguments = args, !.next = z, !.again = ag]

(* Its arguments and those of its next iteration.                          *)
LEMMA LoopNode ==
  ASSUME NEW v, NEW S, NEW n, NEW y, NEW args, NEW yy, NEW z, NEW ag, NEW yn,
         LoopEnds(v, S, n, y, args, yy, z, ag, yn)
  PROVE  NodeOk(v, S, n, yn) /\ yn.kind = y.kind
<1>0. /\ NodeOk(v, S, n, y) /\ y.kind = "loop" /\ yy = [y EXCEPT !.arguments = args] /\ NodeOk(v, S, n, yy)
      /\ z \in Seq(S) /\ Again(v, n, z, ag)
      /\ yn = [y EXCEPT !.arguments = args, !.next = z, !.again = ag]
  BY DEF LoopEnds
<1>1. DOMAIN y = NodeFields
  BY <1>0 DEF NodeOk
<1>2. /\ DOMAIN yy = NodeFields /\ yy.kind = y.kind /\ yy.arguments = args /\ yy.next = y.next
      /\ yy.again = y.again /\ yy.subject = y.subject
  BY <1>0, <1>1 DEF NodeFields
<1>3. /\ DOMAIN yn = NodeFields /\ yn.kind = y.kind /\ yn.arguments = args /\ yn.next = z
      /\ yn.again = ag /\ yn.subject = y.subject
  BY <1>0, <1>1 DEF NodeFields
<1>4. ByDepth(yn) = ByDepth(yy)
  BY <1>2, <1>3 DEF ByDepth
<1>5. EntryOk(v, n, yy)
  BY <1>0 DEF NodeOk
<1>6. \A d \in DOMAIN ByDepth(yn) \cap DOMAIN v[n] : MeaningIn(v, ByDepth(yn)[d]) = v[n][d]
  <2>1. PICK q : q = ByDepth(yy)
    OBVIOUS
  <2>2. yy.kind \notin {"call", "annotation", "exit"}
    BY <1>0, <1>2
  <2>3. \A d \in DOMAIN q \cap DOMAIN v[n] : MeaningIn(v, q[d]) = v[n][d]
    BY <1>5, <2>1, <2>2 DEF EntryOk
  <2> QED
    BY <1>4, <2>1, <2>3
<1>7. EntryOk(v, n, yn)
  BY <1>0, <1>3, <1>6 DEF EntryOk, Again
<1> QED
  BY <1>0, <1>2, <1>3, <1>7 DEF NodeOk

(* The node of the loop that ends.                                         *)
Looped(f, y, args, z, yn) ==
  /\ args = f.negative /\ z = f.positive /\ y = nodes[Top.node]
  /\ yn = [y EXCEPT !.arguments = args, !.next = z, !.again = Reverse(stack)]

(* They are what the loop took and what it left.                           *)
LEMMA LoopNodes ==
  ASSUME NEW F, NEW P, NEW R, NEW N, NEW S, NEW p, NEW b, NEW f, NEW u, NEW m,
         BlockIs(F, P, R, N, S, p, b, f, u, m), Kind("loop"),
         Top.reachable => Returns(chain) = Parameters(chain),
         NEW args, NEW z, NEW y, NEW yn, Looped(f, y, args, z, yn)
  PROVE  NodeOk(value, S, Top.node, yn) /\ yn.kind = y.kind
<1>0. /\ args = f.negative /\ z = f.positive /\ y = nodes[Top.node]
      /\ yn = [y EXCEPT !.arguments = args, !.next = z, !.again = Reverse(stack)]
  BY DEF Looped
<1>1. /\ N \in Nat /\ p = Len(chain) /\ p \in Nat /\ p >= 2 /\ TopIs(F, P, N, S, p)
      /\ Below(value, N, S, F, p, chain, Top.node, b, f, u, m) /\ (~F[p].in => value[Top.node] = << >>)
      /\ f = Last(chain) /\ m \in Nat /\ Top.node = F[p].node
      /\ (here => F[p].in /\ Inner(value, N, S, F, chain, TRUE, stack))
      /\ here \in BOOLEAN /\ (here => Top.reachable)
      /\ Sits(value, nodes, words, chain, open, here, stack, F, P, R) /\ N = Len(value) /\ S = Level(N, R)
  BY DEF BlockIs
<1>2. PICK v, n, yy, ag, c, st : /\ v = value /\ n = Top.node /\ yy = [y EXCEPT !.arguments = args]
                                 /\ ag = Reverse(stack) /\ c = chain /\ st = stack
  OBVIOUS
<1>3. NodeOk(v, S, n, y) /\ y.kind = "loop"
  BY <1>0, <1>1, <1>2 DEF TopIs, NodeKind, Kind
<1>4. f.negative \in Seq(S) /\ z \in Seq(S)
  BY <1>0, <1>1 DEF Below, Frames
<1>5. NodeOk(v, S, n, yy)
  <2>1. Below(v, N, S, F, p, c, n, b, f, u, m) /\ (~F[p].in => v[n] = << >>)
    BY <1>1, <1>2
  <2>2. y.kind = "loop" /\ args = f.negative /\ args \in Seq(S)
    BY <1>0, <1>3, <1>4
  <2>3. yy = [y EXCEPT !.arguments = args]
    BY <1>2
  <2> QED
    BY ONLY <1>3, <2>1, <2>2, <2>3, DemandsGiven
<1>6. Again(v, n, z, ag)
  <2>1. CASE here
    <3>1. /\ N \in Nat /\ p \in Nat /\ p >= 2 /\ Len(c) = p /\ F[p].in /\ n = F[p].node
          /\ Inner(v, N, S, F, c, TRUE, st) /\ z = Last(c).positive
          /\ Returns(c) = Parameters(c) /\ ag = Reverse(st)
      BY <1>0, <1>1, <1>2, <2>1
    <3>2. c \in Chains(S, N) /\ Good(v, F, c) /\ Stands(v, Flat(c), st)
      BY <3>1 DEF Inner
    <3>3. Len(v[n]) = m /\ m = F[p].size
      <4>1. EntryIs(v, N, S, F, p, Top)
        BY <1>1, <1>2 DEF TopIs
      <4>2. Size(b) + Len(f.negative) = m /\ b = Parents(c)
        BY <1>1, <1>2 DEF Below, BlockIs
      <4>3. Size(Parents(c)) + Parameters(c) = F[p].size
        BY <3>1, <3>2, SumOf
      <4>4. m = F[p].size
        BY <1>1, <1>2, <4>2, <4>3 DEF Parameters
      <4>5. Len(v[n]) = m
        BY <1>1, <1>2, <3>1 DEF Below
      <4> QED
        BY <4>4, <4>5
    <3>4. m \in Nat
      BY <1>1
    <3> QED
      BY ONLY <3>1, <3>2, <3>3, <3>4, AgainIs
  <2>2. CASE ~here
    <3>1. stack = << >>
      <4>1. Inner(value, Len(value), Level(Len(value), R), F, chain, here, stack)
        BY <1>1 DEF Sits
      <4> QED
        BY <2>2, <4>1 DEF Inner
    <3>2. ag = << >>
      BY <1>2, <3>1, NothingReversed
    <3> QED
      BY <3>2 DEF Again
  <2> QED
    BY <1>1, <2>1, <2>2
<1>7. yn = [y EXCEPT !.arguments = args, !.next = z, !.again = ag] /\ yy = [y EXCEPT !.arguments = args]
  BY <1>0, <1>2
<1>8. NodeOk(v, S, n, yn) /\ yn.kind = y.kind
  <2>1. LoopEnds(v, S, n, y, args, yy, z, ag, yn)
    BY ONLY <1>3, <1>4, <1>5, <1>6, <1>7 DEF LoopEnds
  <2> QED
    BY ONLY <2>1, LoopNode
<1> QED
  BY <1>2, <1>8

(* The exit of a loop has no arguments.                                    *)
LEMMA ExitBlank ==
  ASSUME NEW e, NEW S
  PROVE  \E t \in Seq(S) : Blank([Node("exit", << >>) EXCEPT !.ends = e], "exit", << >>, t)
<1>1. PICK none : none = << >>
  OBVIOUS
<1>2. none \in Seq(S)
  BY <1>1
<1>3. Blank([Node("exit", << >>) EXCEPT !.ends = e], "exit", << >>, none)
  BY <1>1 DEF Blank, Node, NodeFields
<1> QED
  BY <1>2, <1>3

(* A loop ends.                                                            *)
LEMMA LeaveLoopKeeps ==
  ASSUME Faithful, IndInv, LeaveLoop
  PROVE  Faithful'
<1>1. PICK F, P, R : Sits(value, nodes, words, chain, open, here, stack, F, P, R)
  BY DEF Faithful
<1>2. Top.kind = "loop" /\ Kind("loop")
  BY DEF LeaveLoop, Kind
<1>3. PICK N, S, p, b, f, u, m : BlockIs(F, P, R, N, S, p, b, f, u, m)
  BY <1>1, <1>2, Blocks
<1>4. /\ Sits(value, nodes, words, chain, open, here, stack, F, P, R) /\ N = Len(value) /\ S = Level(N, R)
      /\ p = Len(chain) /\ p \in Nat /\ p >= 2 /\ Framed(Top) /\ World(value, N, S) /\ N \in Nat
      /\ TopIs(F, P, N, S, p) /\ b = Parents(chain) /\ f = Last(chain) /\ u = Reverse(value[Top.node])
      /\ Below(value, N, S, F, p, chain, Top.node, b, f, u, m)
      /\ (Top.way # 0 => F[p].in)
      /\ Drained(Top, chain, b, p)
      /\ here \in BOOLEAN /\ WayIsReachable(Top) /\ IsSeq(Top.breaks)
  BY <1>3 DEF BlockIs
<1>5. PICK es, r, args, g, q, z, s0 :
         /\ es = Top.breaks /\ r = Returned(es) /\ args = f.negative /\ g = (Top.way # 0)
         /\ q = Top.breaks[Top.way].sources /\ z = f.positive
         /\ s0 = (IF g THEN SubSeq(u, 1, Size(b)) ELSE << >>)
  OBVIOUS
<1>6. /\ BreaksAre(value, S, Top) /\ EntryIs(value, N, S, F, p, Top) /\ Len(open) > 1
  BY <1>4 DEF TopIs
<1>7. /\ f \in Frames(S, N) /\ Len(b) = p - 1 /\ f.negative \in Seq(S)
      /\ Inner(value, N, S, F, b, F[p].in, IF F[p].in THEN SubSeq(u, 1, Size(b)) ELSE << >>)
  BY <1>4 DEF Below
<1>8. DOMAIN es = 1 .. Len(es)
  BY <1>4, <1>5 DEF IsSeq
<1>9. \A i \in DOMAIN es : Len(es[i].sources) = r
  BY <1>5 DEF LeaveLoop
<1>10. r \in Nat
  <2>1. \A i \in DOMAIN es : es[i].sources \in Seq(S)
    BY <1>2, <1>5, <1>6, <1>8 DEF BreaksAre
  <2>2. r = Returned(es)
    BY <1>5
  <2> QED
    BY ONLY <1>9, <2>1, <2>2, ReturnedIs
<1>11. g => Comes(S, q, r, args, Top.arrived, u, Size(b))
  <2> SUFFICES ASSUME g
               PROVE  Comes(S, q, r, args, Top.arrived, u, Size(b))
    OBVIOUS
  <2>1. Top.way # 0
    BY <1>5
  <2>2. Top.way \in 1 .. Len(es)
    BY <1>2, <1>4, <1>5, <2>1 DEF WayIsReachable
  <2>3. Len(q) = r /\ Len(args) = Len(f.negative) /\ Top.kind \in {"block", "loop"}
        /\ q = Top.breaks[Top.way].sources
    BY <1>2, <1>5, <1>8, <1>9, <2>2
  <2> QED
    BY ONLY <1>3, <2>1, <2>3, BreakOut
<1>12. PICK a : g => /\ q \in Seq(S) /\ Len(q) = r /\ Stands(value, q, a)
                     /\ LeftOf(Top.arrived, r, args) = Cat(SubSeq(u, 1, Size(b)), a)
  BY <1>11 DEF Comes
<1>13. Inner(value, N, S, F, b, g, s0)
  <2>1. g => F[p].in
    BY <1>4, <1>5
  <2>2. PICK st0 : st0 = (IF F[p].in THEN SubSeq(u, 1, Size(b)) ELSE << >>)
    OBVIOUS
  <2>3. Inner(value, N, S, F, b, F[p].in, st0)
    BY <1>7, <2>2
  <2>4. Inner(value, N, S, F, b, g, IF g THEN st0 ELSE << >>)
    BY <2>1, <2>3, InnerGone
  <2>5. (IF g THEN st0 ELSE << >>) = s0
    BY <1>5, <2>1, <2>2
  <2> QED
    BY <2>4, <2>5
<1>14. PICK v, nd, wd, c, o, h, st, x, n, y, yn, nk, nx, ya, e :
         /\ v = value /\ nd = nodes /\ wd = words /\ c = chain /\ o = open /\ h = here /\ st = stack /\ x = Top
         /\ n = Top.node /\ y = nodes[Top.node]
         /\ yn = [y EXCEPT !.arguments = args, !.next = z, !.again = Reverse(stack)]
         /\ nk = At(nd, n, yn) /\ e = ToSet(Sources(es)) /\ nx = [Node("exit", << >>) EXCEPT !.ends = e]
         /\ ya = [Enclosing EXCEPT !.reachable = Enclosing.reachable /\ Top.breaks # << >>]
  OBVIOUS
<1>15. /\ Walk(o, h) /\ Nodes(v, nd, S) /\ N = Len(v) /\ Len(nd) = N /\ IsSeq(nd)
       /\ IsSeq(o) /\ Len(o) \in Nat /\ x = o[Len(o)] /\ Sound(Enclosing) /\ Enclosing = o[Len(o) - 1]
  <2>1. Top.kind # "body"
    BY <1>2
  <2>2. IsSeq(o) /\ Len(o) \in Nat /\ x = o[Len(o)] /\ Sound(Enclosing) /\ Enclosing = o[Len(o) - 1]
    BY <1>14, <2>1, TopFacts
  <2>3. Walk(open, here) /\ Nodes(value, nodes, S) /\ Len(nodes) = Len(value) /\ IsSeq(nodes)
    BY <1>4, Before
  <2> QED
    BY <1>4, <1>14, <2>2, <2>3
<1>16. Nodes(v, nk, S) /\ \A i \in 1 .. N : nk[i].kind = nd[i].kind
  <2>1. NodeOk(v, S, n, yn) /\ yn.kind = nd[n].kind
    <3>1. Top.reachable => Returns(chain) = Parameters(chain)
      BY DEF LeaveLoop
    <3>2. args = f.negative /\ z = f.positive /\ y = nodes[Top.node]
          /\ yn = [y EXCEPT !.arguments = args, !.next = z, !.again = Reverse(stack)]
      BY <1>5, <1>14
    <3>3. NodeOk(value, S, Top.node, yn) /\ yn.kind = y.kind
      <4>1. Looped(f, y, args, z, yn)
        BY ONLY <3>2 DEF Looped
      <4>2. Kind("loop")
        BY <1>2
      <4> QED
        BY ONLY <1>3, <3>1, <4>1, <4>2, LoopNodes
    <3> QED
      BY <1>14, <3>3
  <2>2. n \in 1 .. Len(v)
    BY <1>6, <1>14, <1>15 DEF EntryIs
  <2>3. nk = At(nd, n, yn)
    BY <1>14
  <2>4. Nodes(v, nk, S) /\ \A i \in 1 .. Len(v) : nk[i].kind = nd[i].kind
    BY ONLY <1>15, <2>1, <2>2, <2>3, NodeChanged
  <2> QED
    BY <1>15, <2>4
<1>17. \E t \in Seq(S) : Blank(nx, "exit", << >>, t)
  BY <1>14, ExitBlank
<1>18. Alike(o[Len(o) - 1], ya)
  <2>1. PICK sc : sc = Enclosing
    OBVIOUS
  <2>2. DOMAIN sc = Fields
    BY <1>15, <2>1 DEF Sound
  <2>3. Alike(sc, ya)
    BY <1>14, <2>1, <2>2 DEF Fields, Alike
  <2> QED
    BY <1>15, <2>1, <2>3
<1>19. Closing(v, nd, wd, c, o, h, st, F, P, R, N, S, x, b, g, s0, q, r, a, nk, nx, ya)
  <2>1. Sits(v, nd, wd, c, o, h, st, F, P, R) /\ Walk(o, h) /\ N = Len(v) /\ S = Level(N, R)
        /\ Len(o) > 1 /\ x = o[Len(o)] /\ Framed(x)
    BY <1>4, <1>6, <1>14, <1>15
  <2>2. Inner(v, N, S, F, b, g, s0) /\ Len(b) = Len(c) - 1 /\ g \in BOOLEAN /\ (g => h \/ Late(x))
    BY <1>4, <1>5, <1>7, <1>13, <1>14 DEF Late
  <2>3. Drained(x, c, b, Len(c))
    BY <1>4, <1>14
  <2>4. r \in Nat /\ (g => q \in Seq(S) /\ Len(q) = r /\ Stands(v, q, a))
    BY <1>10, <1>12, <1>14
  <2> QED
    BY ONLY <1>16, <1>17, <1>18, <2>1, <2>2, <2>3, <2>4 DEF Closing
<1>20. PICK M, w, ne, d, zz, s :
         /\ M = N + 1 /\ w = Append(v, ExitValues(g, r, a)) /\ ne = Append(nk, nx)
         /\ d = Push(b, FromNodes(M, r)) /\ zz = At(Parents(o), Len(o) - 1, ya)
         /\ s = IF g THEN Cat(s0, a) ELSE << >>
  OBVIOUS
<1>21. SitsThen(w, ne, wd, d, zz, g, s, R)
  <2>1. ClosedTo(v, o, b, g, s0, N, r, a, nk, nx, ya, w, ne, d, zz, s)
    BY ONLY <1>20 DEF ClosedTo
  <2> QED
    BY ONLY <1>19, <2>1, ClosedSits
<1>22. PICK G, Q : Sits(w, ne, wd, d, zz, g, s, G, Q, R)
  BY <1>21 DEF SitsThen
<1>23. NextNode = M
  BY <1>14, <1>15, <1>20 DEF NextNode
<1>24. words' = wd /\ here' = g
  BY <1>5, <1>14 DEF LeaveLoop
<1>25. chain' = d
  BY <1>4, <1>5, <1>20, <1>23 DEF LeaveLoop
<1>26. stack' = s
  <2>1. stack' = IF here' THEN LeftOf(Top.arrived, r, args) ELSE << >>
    BY <1>4, <1>5 DEF LeaveLoop
  <2> QED
    BY <1>5, <1>12, <1>20, <1>24, <2>1
<1>27. value' = w
  <2>1. value' = Append(v, IF g /\ r > 0 THEN Reverse(Meanings(q)) ELSE << >>)
    BY <1>5, <1>14, <1>24 DEF LeaveLoop
  <2>2. ASSUME g
        PROVE  a = Meanings(q)
    <3>1. Stands(v, q, a)
      BY <1>12, <1>14, <2>2
    <3> QED
      BY <1>14, <3>1 DEF Stands, Meanings, Meaning
  <2>3. (IF g /\ r > 0 THEN Reverse(Meanings(q)) ELSE << >>) = ExitValues(g, r, a)
    BY <2>2 DEF ExitValues
  <2> QED
    BY <1>20, <2>1, <2>3
<1>28. nodes' = ne
  <2>1. nodes' = Append([nodes EXCEPT ![Top.node] =
                          [nodes[Top.node] EXCEPT !.arguments = args, !.next = z, !.again = Reverse(stack)]],
                        [Node("exit", << >>) EXCEPT !.ends = e])
    BY <1>4, <1>5, <1>14 DEF LeaveLoop
  <2>2. nk = [nd EXCEPT ![n] = yn]
    BY <1>14 DEF At
  <2> QED
    BY <1>14, <1>20, <2>1, <2>2
<1>29. open' = zz
  <2>1. PICK l : l = Len(o) - 1
    OBVIOUS
  <2>2. open' = [Parents(o) EXCEPT ![l].reachable = @ /\ Top.breaks # << >>]
    BY <1>14, <2>1 DEF LeaveLoop
  <2>3. Len(o) > 0
    BY <1>6, <1>14
  <2>4. /\ IsSeq(Parents(o)) /\ Len(Parents(o)) = Len(o) - 1
        /\ \A k \in 1 .. Len(o) - 1 : Parents(o)[k] = o[k]
    BY <1>15, <2>3, OneLess
  <2>5. l \in 1 .. l /\ l \in 1 .. Len(o) - 1
    BY <1>6, <1>14, <1>15, <2>1
  <2>6. Parents(o)[l] = Enclosing
    BY <1>15, <2>1, <2>4, <2>5
  <2>7. [Parents(o) EXCEPT ![l].reachable = @ /\ Top.breaks # << >>] = [Parents(o) EXCEPT ![l] = ya]
    BY <1>14, <2>6
  <2> QED
    BY <1>20, <2>1, <2>2, <2>7 DEF At
<1>30. Sits(value', nodes', words', chain', open', here', stack', G, Q, R)
  BY <1>14, <1>22, <1>24, <1>25, <1>26, <1>27, <1>28, <1>29
<1> QED
  BY <1>30 DEF Faithful

(* A break out of the block or loop a, which leaves q and takes the        *)
(* execution along, if it is there, with st.                               *)
Broken(a, y, q, e, h, st) ==
  /\ a.kind \in {"block", "loop"} /\ y.kind = a.kind /\ y.node = a.node /\ y.before = a.before
  /\ y.done = a.done /\ y.annotation = a.annotation /\ y.branch = a.branch
  /\ e.sources = q /\ y.breaks = Append(a.breaks, e)
  /\ (h => y.way = Len(a.breaks) + 1 /\ y.arrived = st)
  /\ (~h => y.way = a.way /\ y.arrived = a.arrived)

BreaksOut(o, x, b, q, e, h, st) ==
  /\ IsSeq(o) /\ Len(o) \in Nat /\ b \in 2 .. Len(o) /\ Len(x) = Len(o)
  /\ \A k \in 1 .. Len(o) : k # b => Alike(o[k], x[k])
  /\ Broken(o[b], x[b], q, e, h, st)

(* What a break leaves, and that the execution comes with it.              *)
LeftBy(v, S, q, annotation, h, st) ==
  /\ q \in Seq(S) /\ (annotation # None => Len(q) = annotation)
  /\ h => IF annotation = None THEN Stands(v, q, st)
          ELSE annotation <= Len(st)
               /\ Stands(v, q, SubSeq(st, Len(st) - annotation + 1, Len(st)))

(* One more break, by which the execution leaves if it is there.           *)
LEMMA BrokenBreaks ==
  ASSUME NEW v, NEW S, NEW a, Sound(a), BreaksAre(v, S, a), NEW q, NEW e, NEW h, h \in BOOLEAN, NEW st,
         NEW y, Broken(a, y, q, e, h, st), LeftBy(v, S, q, a.annotation, h, st)
  PROVE  BreaksAre(v, S, y)
<1>1. PICK l, bs, n, t : l = Len(bs) /\ bs = a.breaks /\ n = a.annotation /\ t = y.breaks
  OBVIOUS
<1>2. /\ IsSeq(bs) /\ t = Append(bs, e) /\ e.sources = q /\ y.annotation = n
      /\ a.kind \in {"block", "loop"}
  BY <1>1 DEF Sound, Broken
<1>3. IsSeq(t) /\ l \in Nat /\ Len(t) = l + 1 /\ t[l + 1] = e /\ \A k \in 1 .. l : t[k] = bs[k]
  BY <1>1, <1>2, OneMore
<1>4. /\ \A i \in 1 .. l : bs[i].sources \in Seq(S) /\ (n # None => Len(bs[i].sources) = n)
      /\ n = None \/ n \in Nat
  BY <1>1, <1>2 DEF BreaksAre
<1>5. q \in Seq(S) /\ (n # None => Len(q) = n)
  BY <1>1 DEF LeftBy
<1>6. \A i \in 1 .. l + 1 : t[i].sources \in Seq(S) /\ (n # None => Len(t[i].sources) = n)
  <2> SUFFICES ASSUME NEW i \in 1 .. l + 1
               PROVE  t[i].sources \in Seq(S) /\ (n # None => Len(t[i].sources) = n)
    OBVIOUS
  <2>1. i \in 1 .. l \/ i = l + 1
    BY <1>3
  <2> QED
    BY <1>2, <1>3, <1>4, <1>5, <2>1
<1>7. ASSUME y.way # 0
      PROVE  IF n = None THEN Stands(v, t[y.way].sources, y.arrived)
             ELSE /\ n <= Len(y.arrived)
                  /\ Stands(v, t[y.way].sources,
                       SubSeq(y.arrived, Len(y.arrived) - n + 1, Len(y.arrived)))
  <2>1. CASE h
    <3>1. t[y.way].sources = q /\ y.arrived = st
      BY <1>1, <1>2, <1>3, <2>1 DEF Broken
    <3> QED
      BY <1>1, <2>1, <3>1 DEF LeftBy
  <2>2. CASE ~h
    <3>1. y.way = a.way /\ y.arrived = a.arrived /\ a.way # 0
      BY <1>7, <2>2 DEF Broken
    <3>2. a.way \in 1 .. l
      BY <1>1, <1>2, <3>1 DEF Sound, WayIsReachable
    <3>3. t[y.way] = bs[a.way]
      BY <1>3, <3>1, <3>2
    <3> QED
      BY <1>1, <1>2, <3>1, <3>3 DEF BreaksAre
  <2> QED
    BY <2>1, <2>2
<1> QED
  BY <1>1, <1>2, <1>3, <1>4, <1>6, <1>7 DEF BreaksAre

(* Nothing else of the block or loop changes.                              *)
LEMMA BrokenScope ==
  ASSUME NEW v, NEW N, NEW S, NEW F, NEW p, NEW a, Sound(a), ScopeOk(v, N, S, F, p, a),
         NEW q, NEW e, NEW h, h \in BOOLEAN, NEW st, h => F[p].in,
         NEW y, Broken(a, y, q, e, h, st), LeftBy(v, S, q, a.annotation, h, st)
  PROVE  ScopeOk(v, N, S, F, p, y) /\ Framed(a) /\ Framed(y)
<1>1. Framed(a) /\ Framed(y) /\ y.kind \in {"block", "loop"}
  BY DEF Broken, Framed
<1>2. EntryIs(v, N, S, F, p, a) /\ DoneIs(v, N, S, F, p, a) /\ BreaksAre(v, S, a)
  BY <1>1 DEF ScopeOk
<1>3. BreaksAre(v, S, y)
  BY <1>2, BrokenBreaks
<1>4. EntryIs(v, N, S, F, p, y)
  <2>1. y.node = a.node /\ y.before = a.before /\ y.branch = a.branch /\ (h \/ y.way = a.way)
    BY DEF Broken
  <2> QED
    BY <1>2, <2>1 DEF EntryIs
<1>5. DoneIs(v, N, S, F, p, y)
  BY <1>1, <1>2 DEF DoneIs, Broken
<1> QED
  BY <1>1, <1>3, <1>4, <1>5 DEF ScopeOk

(* Nor of what else is open.                                               *)
LEMMA BrokenScopes ==
  ASSUME NEW v, NEW nd, NEW N, NEW S, NEW F, NEW P, NEW o, Scopes(v, nd, N, S, F, P, o, Len(o)),
         NEW x, NEW b, NEW q, NEW e, NEW h, h \in BOOLEAN, NEW st, BreaksOut(o, x, b, q, e, h, st),
         Sound(o[b]), h => F[P[b]].in, LeftBy(v, S, q, o[b].annotation, h, st)
  PROVE  Scopes(v, nd, N, S, F, P, x, Len(x))
<1>1. /\ b \in 2 .. Len(o) /\ Len(x) = Len(o) /\ Broken(o[b], x[b], q, e, h, st)
      /\ \A k \in 1 .. Len(o) : k # b => Alike(o[k], x[k])
  BY DEF BreaksOut
<1> SUFFICES ASSUME NEW k \in 2 .. Len(o)
             PROVE  /\ ScopeOk(v, N, S, F, P[k], x[k])
                    /\ Framed(x[k]) => nd[x[k].node].kind = NodeKind(x[k].kind)
  BY <1>1 DEF Scopes
<1>2. PICK a, y, p : a = o[k] /\ y = x[k] /\ p = P[k]
  OBVIOUS
<1>3. ScopeOk(v, N, S, F, p, a) /\ (Framed(a) => nd[a.node].kind = NodeKind(a.kind))
  BY <1>2 DEF Scopes
<1>4. CASE k = b
  <2>1. /\ Sound(a) /\ (h => F[p].in) /\ Broken(a, y, q, e, h, st)
        /\ LeftBy(v, S, q, a.annotation, h, st)
    BY <1>1, <1>2, <1>4
  <2>2. ScopeOk(v, N, S, F, p, y) /\ Framed(a)
    BY <1>3, <2>1, BrokenScope
  <2>3. y.node = a.node /\ y.kind = a.kind
    BY <2>1 DEF Broken
  <2> QED
    BY <1>2, <1>3, <2>2, <2>3
<1>5. CASE k # b
  <2>1. k \in 1 .. Len(o)
    OBVIOUS
  <2>2. Alike(a, y)
    BY <1>1, <1>2, <1>5, <2>1
  <2>3. ScopeOk(v, N, S, F, p, y) /\ (Framed(y) <=> Framed(a))
    BY <1>3, <2>2, ScopeAlike, AlikeKinds
  <2> QED
    BY <1>2, <1>3, <2>2, <2>3 DEF Alike
<1> QED
  BY <1>4, <1>5

(* Behind a break nobody comes to the literals inside the block.           *)
LEMMA LiteralsBroken ==
  ASSUME NEW v, NEW N, NEW S, Grown(v, N, S, v, N, S), NEW o, NEW h, Literal(v, S, o, h),
         NEW x, NEW b, NEW q, NEW e, NEW st, BreaksOut(o, x, b, q, e, h, st)
  PROVE  Literal(v, S, x, FALSE)
<1>1. /\ b \in 2 .. Len(o) /\ Len(x) = Len(o) /\ Broken(o[b], x[b], q, e, h, st) /\ Len(o) \in Nat
      /\ \A k \in 1 .. Len(o) : k # b => Alike(o[k], x[k])
  BY DEF BreaksOut
<1> SUFFICES ASSUME NEW k \in 1 .. Len(o), x[k].kind = "literal"
             PROVE  LiteralOk(v, S, x, FALSE, k)
  BY <1>1 DEF Literal, LiteralOk
<1>2. k # b
  BY <1>1 DEF Broken
<1>3. Alike(o[k], x[k]) /\ LiteralOk(v, S, o, h, k)
  BY <1>1, <1>2 DEF Literal
<1>4. Missed(o, h, k) => Missed(x, FALSE, k)
  <2> SUFFICES ASSUME Missed(o, h, k), NEW j \in k .. Len(o)
               PROVE  ~Late(x[j])
    BY <1>1 DEF Missed
  <2>1. ~h /\ ~Late(o[j])
    BY DEF Missed
  <2>2. CASE j = b
    BY <1>1, <2>1, <2>2 DEF Broken, Late
  <2>3. CASE j # b
    <3>1. j \in 1 .. Len(o)
      BY <1>1
    <3> QED
      BY <1>1, <2>1, <2>3, <3>1 DEF Alike, Late
  <2> QED
    BY <2>2, <2>3
<1> QED
  BY <1>3, <1>4, LiteralStays

(* A break takes, it leaves nothing where there was nothing.               *)
LEMMA SpentBroken ==
  ASSUME NEW P, NEW c, NEW o, AllSpent(P, c, o), NEW p, p = Len(c), p \in Nat, Places(P, o, p),
         NEW x, NEW b, NEW q, NEW e, NEW h, h \in BOOLEAN, NEW st, BreaksOut(o, x, b, q, e, h, st),
         NEW d, Len(d) = p, \A i \in 0 .. p - 1 : Dry(c, i) => Dry(d, i),
         h /\ o[b].annotation = None => Dry(d, p - 1)
  PROVE  AllSpent(P, d, x)
<1>1. /\ b \in 2 .. Len(o) /\ Len(x) = Len(o) /\ Broken(o[b], x[b], q, e, h, st) /\ Len(o) \in Nat
      /\ \A k \in 1 .. Len(o) : k # b => Alike(o[k], x[k])
      /\ IsSeq(o)
  BY DEF BreaksOut
<1>2. PICK l : l = Len(o)
  OBVIOUS
<1>3. l \in Nat /\ l > 0 /\ Len(x) = l /\ \A k \in 2 .. l : k \in 1 .. l
  BY <1>1, <1>2
<1>4. \A m \in 1 .. l : \A k \in 1 .. m :
           /\ 1 <= P[k] /\ P[k] <= P[m] /\ P[m] <= p
           /\ k < m /\ Framed(o[m]) => P[k] < P[m]
  <2>1. Len(o) > 0
    BY <1>2, <1>3
  <2>2. \A m \in 1 .. Len(o) : \A k \in 1 .. m :
           /\ 1 <= P[k] /\ P[k] <= P[m] /\ P[m] <= p
           /\ k < m /\ Framed(o[m]) => P[k] < P[m]
    BY ONLY <1>1, <2>1, Places(P, o, p), PlacesRise
  <2> QED
    BY <1>2, <2>2
<1>5. \A k \in 2 .. l : P[k] \in Nat /\ 1 <= P[k] /\ P[k] <= p
  <2> SUFFICES ASSUME NEW k \in 2 .. l
               PROVE  P[k] \in Nat /\ 1 <= P[k] /\ P[k] <= p
    OBVIOUS
  <2>1. P \in [Nat -> Nat]
    BY DEF Places
  <2>2. k \in Nat /\ k \in 1 .. l /\ k \in 1 .. k
    BY <1>3
  <2>3. P[k] \in Nat
    BY ONLY <2>1, <2>2
  <2>4. 1 <= P[k] /\ P[k] <= p
    BY ONLY <1>4, <2>2
  <2> QED
    BY ONLY <2>3, <2>4
<1>6. \A k \in 2 .. l :
        /\ Framed(x[k]) <=> Framed(o[k])
        /\ Framed(x[k]) => x[k].before = o[k].before /\ x[k].done = o[k].done
  <2> SUFFICES ASSUME NEW k \in 2 .. l
               PROVE  /\ Framed(x[k]) <=> Framed(o[k])
                      /\ x[k].before = o[k].before /\ x[k].done = o[k].done
    OBVIOUS
  <2>1. CASE k = b
    BY <1>1, <2>1 DEF Broken, Framed
  <2>2. CASE k # b
    BY <1>1, <1>2, <1>3, <2>2 DEF Alike, Framed
  <2> QED
    BY <2>1, <2>2
<1>7. ASSUME NEW j, j \in 1 .. p, Spent(P, c, o, j)
      PROVE  Spent(P, d, x, j)
  <2>1. j - 1 \in 0 .. p - 1
    BY <1>7
  <2>2. CASE SpentNow(P, c, o, j)
    <3>1. Dry(c, j - 1) /\ \A k \in 2 .. l : Framed(o[k]) /\ P[k] > j => Dry(o[k].before, j - 1)
      BY <1>2, <2>2 DEF SpentNow
    <3>2. Dry(d, j - 1) /\ \A k \in 2 .. l : Framed(x[k]) /\ P[k] > j => Dry(x[k].before, j - 1)
      BY <1>6, <2>1, <3>1
    <3>3. SpentNow(P, d, x, j)
      BY <1>3, <3>2 DEF SpentNow
    <3> QED
      BY <3>3 DEF Spent
  <2>3. CASE SpentBefore(P, o, j)
    <3>1. PICK k \in 2 .. l :
            Framed(o[k]) /\ P[k] = j /\ o[k].done # << >> /\ Dry(o[k].done[1].chain, j - 1)
      BY <1>2, <2>3 DEF SpentBefore
    <3>2. Framed(x[k]) /\ P[k] = j /\ x[k].done # << >> /\ Dry(x[k].done[1].chain, j - 1)
      BY <1>6, <3>1
    <3>3. SpentBefore(P, x, j)
      BY <1>3, <3>2 DEF SpentBefore
    <3> QED
      BY <3>3 DEF Spent
  <2> QED
    BY <1>7, <2>2, <2>3 DEF Spent
<1> SUFFICES ASSUME NEW k \in 2 .. l, TakesAll(x[k])
             PROVE  \E j \in P[k] .. p : Spent(P, d, x, j)
  BY <1>3 DEF AllSpent
<1>8. ASSUME TakesAll(o[k])
      PROVE  \E j \in P[k] .. p : Spent(P, d, x, j)
  <2>1. PICK j \in P[k] .. p : Spent(P, c, o, j)
    BY <1>2, <1>8 DEF AllSpent
  <2>2. j \in 1 .. p
    BY <1>5
  <2> QED
    BY <1>7, <2>1, <2>2
<1>9. CASE k # b
  <2>1. Alike(o[k], x[k])
    BY <1>1, <1>2, <1>3, <1>9
  <2> QED
    BY <1>8, <2>1, AlikeKinds
<1>10. CASE k = b /\ ~h
  BY <1>1, <1>8, <1>10 DEF Broken, TakesAll
<1>11. CASE k = b /\ h
  <2>1. o[b].annotation = None
    BY <1>1, <1>11 DEF Broken, TakesAll
  <2>2. Dry(d, p - 1)
    BY <1>11, <2>1
  <2>3. \A i \in 2 .. l : ~(P[i] > p)
    BY <1>5
  <2>4. SpentNow(P, d, x, p)
    BY <1>3, <2>2, <2>3 DEF SpentNow
  <2>5. p \in P[k] .. p
    BY <1>5
  <2> QED
    BY <2>4, <2>5 DEF Spent
<1> QED
  BY <1>9, <1>10, <1>11

(* Who is somewhere is in all that is around.                              *)
LEMMA OuterEntered ==
  ASSUME NEW F, NEW n, n \in Nat, Entered(F, n), F[n].in, NEW p, p \in 1 .. n
  PROVE  F[p].in
<1> DEFINE T == {d \in Nat : d < n => F[n - d].in}
<1>1. 0 \in T
  <2>1. n - 0 = n
    OBVIOUS
  <2> QED
    BY <2>1
<1>2. ASSUME NEW d \in Nat, d \in T
      PROVE  d + 1 \in T
  <2> SUFFICES ASSUME d + 1 < n
               PROVE  F[n - (d + 1)].in
    OBVIOUS
  <2>1. PICK j : j = n - d
    OBVIOUS
  <2>2. j \in 2 .. n /\ d < n /\ j - 1 = n - (d + 1)
    BY <2>1
  <2>3. F[j].in
    BY <1>2, <2>1, <2>2
  <2>4. F[j - 1].in
    BY <2>2, <2>3 DEF Entered
  <2> QED
    BY <2>2, <2>4
<1>3. \A d \in Nat : d \in T
  <2> HIDE DEF T
  <2> QED
    BY ONLY <1>1, <1>2, Induction
<1>4. PICK d : d = n - p
  OBVIOUS
<1>5. d \in Nat /\ d < n /\ n - d = p
  BY <1>4
<1> QED
  BY <1>3, <1>5

(* What a break does to the scopes that are open.                          *)
Jump(b, n, dump) ==
  /\ Len(open) \in Nat /\ b \in 2 .. Len(open)
  /\ open[b].kind \in {"block", "loop"} /\ Sound(open[b])
  /\ n = (IF open[b].annotation = None THEN Size(chain) ELSE open[b].annotation)
  /\ dump = PopN(chain, n) /\ Size(chain) >= n /\ words' = words + 1 /\ words < MaxWords
  /\ chain' = dump.chain /\ here' = FALSE /\ stack' = << >> /\ UNCHANGED << nodes, value >>
  /\ \E e : BreaksOut(open, open', b, dump.sources, e, here, stack)

(* Break goes out of the innermost block or loop.                          *)
LEMMA BreakJumps ==
  ASSUME IndInv, Break
  PROVE  \E b, n, dump : Jump(b, n, dump)
<1> DEFINE targets == {k \in DOMAIN open : open[k].kind \in {"block", "loop"}}
<1>1. PICK l \in Nat : l = Len(open) /\ l \in 1 .. l
  BY TopFacts
<1>2. PICK S : open \in Seq(S)
  BY TopFacts DEF IsSeq
<1>3. PICK b : b = Max(targets)
  OBVIOUS
<1>4. b \in 1 .. l /\ open[b].kind \in {"block", "loop"}
  <2>1. targets \subseteq 1 .. l /\ targets # {}
    <3>1. targets # {}
      BY DEF Break
    <3>2. DOMAIN open = 1 .. l
      BY <1>1, <1>2
    <3> QED
      BY <3>1, <3>2
  <2>2. b \in targets
    BY <1>3, <2>1, MaxIsThere
  <2> QED
    BY <2>1, <2>2
<1>5. b \in 2 .. l /\ Sound(open[b])
  <2>1. Sound(open[b]) /\ open[1].kind = "body"
    BY <1>1, <1>4 DEF IndInv, Walk
  <2>2. b # 1
    BY <1>4, <2>1
  <2> QED
    BY <1>4, <2>1, <2>2
<1>6. PICK n, dump : /\ n = (IF open[b].annotation = None THEN Size(chain) ELSE open[b].annotation)
                     /\ dump = PopN(chain, n)
  OBVIOUS
<1>7. /\ Walking /\ Size(chain) >= n /\ words' = words + 1 /\ chain' = dump.chain
      /\ here' = FALSE /\ stack' = << >> /\ UNCHANGED << nodes, value >>
      /\ open' = [open EXCEPT ![b] = Left(@, dump.sources), ![Len(open)].reachable = FALSE]
  BY <1>3, <1>6 DEF Break
<1>8. PICK e, q, h, st : e = [sources |-> q, reachable |-> Top.reachable] /\ q = dump.sources
                         /\ h = here /\ st = stack
  OBVIOUS
<1> DEFINE x == Left(open[b], q)
           mid == At(open, b, x)
           y == [mid[l] EXCEPT !.reachable = FALSE]
<1>9. DOMAIN open[b] = Fields
  BY <1>5 DEF Sound
<1>10. h \in BOOLEAN /\ IsSeq(open)
  BY <1>8, TopFacts
<1>11. Broken(open[b], x, q, e, h, st) /\ DOMAIN x = Fields
  BY <1>4, <1>8, <1>9, <1>10 DEF Left, Fields, Broken
<1>12. open' = At(mid, l, y)
  BY <1>1, <1>2, <1>4, <1>7, <1>8 DEF At
<1> HIDE DEF x
<1>13. /\ IsSeq(mid) /\ Len(mid) = l
       /\ \A k \in 1 .. l : mid[k] = IF k = b THEN x ELSE open[k]
  <2>1. PICK z : z = mid
    OBVIOUS
  <2>2. /\ IsSeq(z) /\ Len(z) = Len(open)
        /\ \A k \in 1 .. Len(open) : z[k] = IF k = b THEN x ELSE open[k]
    BY <1>1, <1>4, <1>10, <2>1, OneChanged
  <2> QED
    BY <1>1, <2>1, <2>2
<1>14. \A k \in 1 .. l : DOMAIN mid[k] = Fields
  BY <1>1, <1>11, <1>13 DEF IndInv, Walk, Sound
<1> HIDE DEF mid
<1>15. /\ DOMAIN y = Fields /\ Alike(mid[l], y)
  BY <1>1, <1>14 DEF Fields, Alike
<1> HIDE DEF y
<1>16. PICK z : z = open'
  OBVIOUS
<1>17. Len(z) = l /\ \A k \in 1 .. l : z[k] = IF k = l THEN y ELSE mid[k]
  BY <1>1, <1>12, <1>13, <1>16, OneChanged
<1>18. \A k \in 1 .. l : Alike(mid[k], z[k])
  BY <1>15, <1>17 DEF Alike
<1>19. \A k \in 1 .. l : k # b => Alike(open[k], z[k])
  BY <1>13, <1>18
<1>20. Broken(open[b], z[b], q, e, h, st)
  <2>1. Alike(x, z[b])
    BY <1>4, <1>13, <1>18
  <2> QED
    BY <1>11, <2>1 DEF Alike, Broken
<1>21. BreaksOut(open, z, b, q, e, h, st)
  BY <1>1, <1>5, <1>10, <1>17, <1>19, <1>20 DEF BreaksOut
<1>22. Jump(b, n, dump)
  BY <1>1, <1>4, <1>5, <1>6, <1>7, <1>8, <1>16, <1>21 DEF Jump, Walking
<1> QED
  BY <1>22

Amount(c, t, n) ==
  /\ t = None \/ t \in Nat
  /\ n = (IF t = None THEN Size(c) ELSE t) /\ n <= Size(c) /\ Size(c) \in Nat
Split(v, N, S, F, c, n, a, t, h, st) ==
  /\ LeftBy(v, S, a.sources, t, h, st) /\ Inner(v, N, S, F, a.chain, FALSE, << >>)
  /\ PopsAll(S, N, c, n, a) /\ (t = None => Size(a.chain) = 0)

(* What leaves with a break, and what stays.                               *)
LEMMA BreakLeft ==
  ASSUME NEW v, NEW N, NEW S, World(v, N, S), NEW F, NEW c, NEW h, h \in BOOLEAN, NEW st,
         Inner(v, N, S, F, c, h, st), NEW annotation, NEW n, Amount(c, annotation, n),
         NEW a, a = PopN(c, n)
  PROVE  Split(v, N, S, F, c, n, a, annotation, h, st)
<1>0. /\ annotation = None \/ annotation \in Nat
      /\ n = (IF annotation = None THEN Size(c) ELSE annotation) /\ n <= Size(c) /\ Size(c) \in Nat
  BY DEF Amount
<1>1. n \in Nat /\ n <= Size(c)
  BY <1>0
<1>2. PICK w : w = IF h THEN SubSeq(st, 1, Len(st) - n) ELSE << >>
  OBVIOUS
<1>3. /\ PopsAll(S, N, c, n, a) /\ Inner(v, N, S, F, a.chain, h, w)
      /\ h => Stands(v, a.sources, SubSeq(st, Len(st) - n + 1, Len(st)))
      /\ h => Len(st) = Size(c)
  BY <1>1, <1>2, InnerTakes
<1>4. Inner(v, N, S, F, a.chain, FALSE, << >>)
  <2>1. PICK g : g = FALSE
    OBVIOUS
  <2>2. g => h
    BY <2>1
  <2>3. Inner(v, N, S, F, a.chain, g, IF g THEN w ELSE << >>)
    BY ONLY <1>3, <2>2, InnerGone
  <2> QED
    BY <2>1, <2>3
<1>5. a.sources \in Seq(S) /\ Len(a.sources) = n /\ Size(a.chain) = Size(c) - n
  BY <1>3 DEF PopsAll
<1>6. annotation = None => n = Size(c)
  BY <1>0
<1>7. annotation # None => n = annotation
  BY <1>0
<1>8. ASSUME h, annotation = None
      PROVE  Stands(v, a.sources, st)
  <2>1. PICK W, q, k : /\ W = Means(v, S) /\ q = Flat(c) /\ k = Len(st)
    OBVIOUS
  <2>2. c \in Chains(S, N) /\ Stands(v, q, st)
    BY <1>8, <2>1 DEF Inner
  <2>3. q \in Seq(S)
    BY <2>1, <2>2, SizeIs
  <2>4. /\ st \in Seq(Means(v, S)) /\ Len(st) = Len(q) /\ Len(q) \in Nat
        /\ \A i \in 1 .. Len(q) : st[i] = MeaningIn(v, q[i])
    <3>1. Stands(v, q, st)
      BY <2>2
    <3> QED
      BY ONLY <2>3, <3>1, StandsIs
  <2>5. st \in Seq(W) /\ k \in Nat /\ n = k /\ Len(st) - n = 0
    BY <1>3, <1>6, <1>8, <2>1, <2>4
  <2>6. SubSeq(st, Len(st) - n + 1, Len(st)) = st
    <3>1. PICK z : z = 0
      OBVIOUS
    <3>2. z \in Nat /\ z + k <= Len(st) /\ k \in Nat
      BY <2>1, <2>5, <3>1
    <3>3. /\ SubSeq(st, z + 1, z + k) \in Seq(W) /\ Len(SubSeq(st, z + 1, z + k)) = k
          /\ \A i \in 1 .. k : SubSeq(st, z + 1, z + k)[i] = st[z + i]
      BY ONLY <2>5, <3>2, PieceOf
    <3>4. z + 1 = Len(st) - n + 1 /\ z + k = Len(st) /\ \A i \in 1 .. k : z + i = i
      BY <2>1, <2>5, <3>1
    <3>5. PICK u : u = SubSeq(st, Len(st) - n + 1, Len(st))
      OBVIOUS
    <3>6. u \in Seq(W) /\ Len(u) = k /\ \A i \in 1 .. k : u[i] = st[i]
      BY <3>3, <3>4, <3>5
    <3>7. u = st
      <4>1. Len(u) = Len(st) /\ \A i \in 1 .. Len(u) : u[i] = st[i]
        BY <2>1, <3>6
      <4> QED
        BY ONLY <2>5, <3>6, <4>1, SeqEqual
    <3> QED
      BY <3>5, <3>7
  <2> QED
    BY <1>3, <1>8, <2>6
<1>9. LeftBy(v, S, a.sources, annotation, h, st)
  <2>1. ASSUME h, annotation # None
        PROVE  /\ annotation <= Len(st)
               /\ Stands(v, a.sources, SubSeq(st, Len(st) - annotation + 1, Len(st)))
    BY <1>1, <1>3, <1>7, <2>1
  <2> QED
    BY <1>5, <1>7, <1>8, <2>1 DEF LeftBy
<1>10. annotation = None => Size(a.chain) = 0
  BY <1>0, <1>5, <1>6
<1> QED
  BY <1>3, <1>4, <1>9, <1>10 DEF Split

(* So a break keeps the invariant.                                         *)
LEMMA BreakKeeps ==
  ASSUME Faithful, IndInv, Break
  PROVE  Faithful'
<1>0. PICK F, P, R : Sits(value, nodes, words, chain, open, here, stack, F, P, R)
  BY DEF Faithful
<1>1. PICK b, n, dump : Jump(b, n, dump)
  BY BreakJumps
<1>2. PICK v, nd, wd, c, o, h, st : /\ v = value /\ nd = nodes /\ wd = words /\ c = chain
                                     /\ o = open /\ h = here /\ st = stack
  OBVIOUS
<1>3. PICK x, d, t : x = open' /\ d = dump.chain /\ t = o[b].annotation
  OBVIOUS
<1>4. PICK N, S, p : N = Len(v) /\ S = Level(N, R) /\ p = Len(c)
  OBVIOUS
<1>5. /\ Len(o) \in Nat /\ b \in 2 .. Len(o) /\ o[b].kind \in {"block", "loop"} /\ Sound(o[b])
      /\ n = (IF t = None THEN Size(c) ELSE t) /\ dump = PopN(c, n) /\ Size(c) >= n
      /\ words' = wd + 1 /\ wd < MaxWords
      /\ chain' = d /\ here' = FALSE /\ stack' = << >> /\ value' = v /\ nodes' = nd
  BY <1>1, <1>2, <1>3 DEF Jump
<1>6. PICK e : BreaksOut(o, x, b, dump.sources, e, h, st)
  BY <1>1, <1>2, <1>3 DEF Jump
<1>7. /\ DOMAIN F = Nat /\ F[1].in /\ Counted(R, wd, o, c) /\ Inner(v, N, S, F, c, h, st)
      /\ Places(P, o, p) /\ Scopes(v, nd, N, S, F, P, o, Len(o)) /\ AllSpent(P, c, o)
      /\ Literal(v, S, o, h) /\ Nodes(v, nd, S)
  BY <1>0, <1>2, <1>4 DEF Sits
<1>8. /\ N \in Nat /\ R \in Nat /\ R <= MaxWords /\ World(v, N, S) /\ Size(c) \in Nat /\ p \in Nat
      /\ p # 0 /\ wd \in Nat /\ wd <= MaxWords /\ MaxWords \in Nat /\ h \in BOOLEAN /\ IsSeq(o)
  BY <1>0, <1>2, <1>4, Before, TopFacts
<1>9. ScopeOk(v, N, S, F, P[b], o[b])
  BY <1>5, <1>7 DEF Scopes
<1>10. t = None \/ t \in Nat
  BY <1>3, <1>5, <1>9 DEF ScopeOk, Framed, BreaksAre
<1>11. /\ LeftBy(v, S, dump.sources, t, h, st) /\ Inner(v, N, S, F, d, FALSE, << >>)
       /\ PopsAll(S, N, c, n, dump) /\ (t = None => Size(d) = 0)
  <2>1. n = (IF t = None THEN Size(c) ELSE t) /\ n <= Size(c) /\ dump = PopN(c, n)
    <3>1. n \in Nat
      BY <1>5, <1>8, <1>10
    <3> QED
      BY <1>5, <1>8, <3>1
  <2>2. /\ LeftBy(v, S, dump.sources, t, h, st) /\ Inner(v, N, S, F, dump.chain, FALSE, << >>)
        /\ PopsAll(S, N, c, n, dump) /\ (t = None => Size(dump.chain) = 0)
    <3>1. World(v, N, S) /\ h \in BOOLEAN /\ Inner(v, N, S, F, c, h, st) /\ Size(c) \in Nat
      BY <1>7, <1>8
    <3>2. PICK m, a : m = n /\ a = dump
      OBVIOUS
    <3>3. Amount(c, t, m) /\ a = PopN(c, m)
      BY <1>8, <1>10, <2>1, <3>2 DEF Amount
    <3>4. Split(v, N, S, F, c, m, a, t, h, st)
      BY ONLY <3>1, <3>3, BreakLeft
    <3> QED
      BY <3>2, <3>4 DEF Split
  <2> QED
    BY <1>3, <2>2
<1>12. d \in Chains(S, N) /\ Len(d) = p /\ \A j \in 0 .. p : Dry(c, j) => Dry(d, j)
  BY <1>3, <1>4, <1>11 DEF PopsAll
<1>13. t = None => Dry(d, p - 1)
  <2>1. t = None => Dry(d, p)
    BY <1>8, <1>11, <1>12, DrySize
  <2>2. 1 .. p - 1 \subseteq 1 .. p
    BY <1>8
  <2> QED
    BY <2>1, <2>2 DEF Dry
<1>14. AllSpent(P, d, x)
  <2>1. \A i \in 0 .. p - 1 : Dry(c, i) => Dry(d, i)
    BY <1>8, <1>12
  <2>2. h /\ o[b].annotation = None => Dry(d, p - 1)
    BY <1>3, <1>13
  <2>3. PICK q : q = dump.sources
    OBVIOUS
  <2>4. BreaksOut(o, x, b, q, e, h, st)
    BY <1>6, <2>3
  <2>5. p = Len(c) /\ p \in Nat /\ Len(d) = p /\ h \in BOOLEAN /\ AllSpent(P, c, o) /\ Places(P, o, p)
    BY <1>4, <1>7, <1>8, <1>12
  <2> QED
    BY ONLY <2>1, <2>2, <2>4, <2>5, SpentBroken
<1>15. h => F[P[b]].in
  <2>1. ASSUME h
        PROVE  F[P[b]].in
    <3>1. Entered(F, p) /\ F[p].in
      BY <1>4, <1>7, <2>1 DEF Inner
    <3>2. \A m \in 1 .. Len(o) : \A k \in 1 .. m :
           /\ 1 <= P[k] /\ P[k] <= P[m] /\ P[m] <= p
           /\ k < m /\ Framed(o[m]) => P[k] < P[m]
      <4>1. Len(o) > 0
        BY <1>5
      <4> QED
        BY ONLY <1>7, <1>8, <4>1, PlacesRise
    <3>3. b \in 1 .. Len(o) /\ b \in 1 .. b
      BY <1>5
    <3>4. 1 <= P[b] /\ P[b] <= p
      BY <3>2, <3>3
    <3>5. P[b] \in Nat
      BY <1>5, <1>7 DEF Places
    <3>6. PICK k : k = P[b]
      OBVIOUS
    <3>7. k \in 1 .. p
      BY <1>8, <3>4, <3>5, <3>6
    <3>8. F[k].in
      BY ONLY <1>8, <3>1, <3>7, OuterEntered
    <3> QED
      BY <3>6, <3>8
  <2> QED
    BY <2>1
<1>16. Scopes(v, nd, N, S, F, P, x, Len(x))
  <2>1. PICK q : q = dump.sources
    OBVIOUS
  <2>2. BreaksOut(o, x, b, q, e, h, st) /\ LeftBy(v, S, q, o[b].annotation, h, st)
    BY <1>3, <1>6, <1>11, <2>1
  <2>3. Scopes(v, nd, N, S, F, P, o, Len(o)) /\ h \in BOOLEAN /\ Sound(o[b]) /\ (h => F[P[b]].in)
    BY <1>5, <1>7, <1>8, <1>15
  <2> QED
    BY ONLY <2>2, <2>3, BrokenScopes
<1>17. Literal(v, S, x, FALSE)
  <2>1. \A i \in 1 .. N : v[i] = v[i]
    OBVIOUS
  <2>2. N <= N /\ R <= R
    BY <1>8
  <2>3. Grown(v, N, Level(N, R), v, N, Level(N, R))
    BY ONLY <1>8, <2>1, <2>2, WorldGrows
  <2>4. Grown(v, N, S, v, N, S)
    BY <1>4, <2>3
  <2>5. PICK q : q = dump.sources
    OBVIOUS
  <2>6. BreaksOut(o, x, b, q, e, h, st) /\ Literal(v, S, o, h)
    BY <1>6, <1>7, <2>5
  <2> QED
    BY ONLY <2>4, <2>6, LiteralsBroken
<1>18. Len(x) = Len(o) /\ \A k \in 2 .. Len(o) : x[k].kind = o[k].kind
  <2>1. /\ Len(x) = Len(o) /\ x[b].kind = o[b].kind
        /\ \A k \in 1 .. Len(o) : k # b => Alike(o[k], x[k])
    BY <1>6 DEF BreaksOut, Broken
  <2>2. \A k \in 2 .. Len(o) : k \in 1 .. Len(o)
    BY <1>5
  <2> QED
    BY <2>1, <2>2 DEF Alike
<1>19. Places(P, x, Len(d))
  <2>1. Places(P, x, p)
    BY ONLY <1>7, <1>18, PlacesSame
  <2> QED
    BY <1>12, <2>1
<1>20. Counted(R, wd + 1, x, d)
  BY <1>4, <1>5, <1>7, <1>8, <1>12, <1>18 DEF Counted
<1>21. PICK g, s : g = FALSE /\ s = << >>
  OBVIOUS
<1>22. Sits(v, nd, wd + 1, d, x, g, s, F, P, R)
  <2>1. Inner(v, N, S, F, d, g, s) /\ Literal(v, S, x, g)
    BY <1>11, <1>17, <1>21
  <2>2. DOMAIN F = Nat /\ F[1].in /\ Nodes(v, nd, S)
    BY <1>7
  <2>3. N = Len(v) /\ S = Level(N, R)
    BY <1>4
  <2> QED
    BY ONLY <1>14, <1>16, <1>19, <1>20, <2>1, <2>2, <2>3, SitsBy
<1>23. Sits(value', nodes', words', chain', open', here', stack', F, P, R)
  BY <1>3, <1>5, <1>21, <1>22
<1> QED
  BY <1>23 DEF Faithful

(* The stack of the function, before its first word.                       *)
LEMMA OneFrame ==
  ASSUME NEW S, NEW c, c = << Frame(0) >>
  PROVE  /\ c \in Chains(S, 0) /\ Len(c) = 1 /\ Flat(c) = << >>
         /\ \A v, F : Good(v, F, c) /\ Entered(F, Len(c))
<1>1. PICK f, q : f = Frame(0) /\ q = << >>
  OBVIOUS
<1>2. 0 \in 0 .. 0
  OBVIOUS
<1>3. f \in Frames(S, 0) /\ f.positive = q
  BY <1>1, <1>2, FrameIs
<1>4. c = << f >> /\ c \in Seq(Frames(S, 0)) /\ Len(c) = 1 /\ c[1] = f
  BY <1>1, <1>3
<1>5. c \in Chains(S, 0)
  BY <1>4 DEF Chains
<1>6. Dry(c, Len(c))
  BY <1>1, <1>3, <1>4 DEF Dry
<1>7. Size(c) = 0 /\ Flat(c) \in Seq(S) /\ Size(c) = Len(Flat(c))
  <2>1. 0 \in Nat
    OBVIOUS
  <2> QED
    BY <1>5, <1>6, <2>1, DrySize, SizeIs
<1>8. Flat(c) = << >>
  <2>1. PICK u : u = Flat(c)
    OBVIOUS
  <2>2. u \in Seq(S) /\ Len(u) = 0
    BY <1>7, <2>1
  <2>3. u = << >>
    BY ONLY <2>2
  <2> QED
    BY <2>1, <2>3
<1>9. \A v, F : Good(v, F, c) /\ Entered(F, Len(c))
  BY <1>4 DEF Good, Entered
<1> QED
  BY <1>4, <1>5, <1>8, <1>9

(* The function begins with nothing on the stack.                          *)
LEMMA InitFaithful ==
  ASSUME Init
  PROVE  Faithful
<1>1. PICK F : F = [n \in Nat |-> [in |-> TRUE, node |-> 0, size |-> 0]]
  OBVIOUS
<1>2. DOMAIN F = Nat /\ F[1].in
  BY <1>1
<1>3. PICK P : P = [n \in Nat |-> 1]
  OBVIOUS
<1>4. P \in [Nat -> Nat] /\ P[1] = 1
  BY <1>3
<1>5. PICK R, N, S, x, q : /\ R = 0 /\ N = 0 /\ S = Level(N, R) /\ q = << >>
                            /\ x = Scope("body", 0, << >>)
  OBVIOUS
<1>6. PICK v, nd, wd, c, o, h, st :
        /\ v = value /\ nd = nodes /\ wd = words /\ c = chain /\ o = open /\ h = here /\ st = stack
  OBVIOUS
<1>7. /\ v = q /\ nd = q /\ wd = 0 /\ c = << Frame(0) >> /\ o = << x >> /\ h = TRUE /\ st = q
  BY <1>5, <1>6 DEF Init
<1>8. IsSeq(q) /\ Len(q) = 0
  BY <1>5, EmptySeq DEF IsSeq
<1>9. Nodes(v, nd, S)
  BY <1>7, <1>8 DEF Nodes
<1>10. c \in Chains(S, N) /\ Len(c) = 1 /\ Flat(c) = q /\ Good(v, F, c) /\ Entered(F, Len(c))
  BY <1>5, <1>7, OneFrame
<1>11. Inner(v, N, S, F, c, h, st)
  <2>1. Stands(v, q, q)
    BY <1>5, NothingStands
  <2> QED
    BY <1>2, <1>7, <1>10, <2>1 DEF Inner
<1>12. Len(o) = 1 /\ o[1] = x /\ x.kind = "body"
  <2>1. Len(o) = 1 /\ o[1] = x
    BY <1>7
  <2> QED
    BY <1>5, <2>1 DEF Scope
<1>13. Places(P, o, Len(c))
  BY <1>4, <1>10, <1>12 DEF Places
<1>14. Scopes(v, nd, N, S, F, P, o, Len(o))
  BY <1>12 DEF Scopes
<1>15. Literal(v, S, o, h)
  BY <1>12 DEF Literal, LiteralOk
<1>16. AllSpent(P, c, o)
  BY <1>12 DEF AllSpent
<1>17. Counted(R, wd, o, c)
  BY <1>5, <1>7, <1>10, <1>12, UnstackingAssumption DEF Counted
<1>18. N = Len(v)
  BY <1>5, <1>7, <1>8
<1>19. Sits(v, nd, wd, c, o, h, st, F, P, R)
  BY ONLY <1>2, <1>5, <1>9, <1>11, <1>13, <1>14, <1>15, <1>16, <1>17, <1>18, SitsBy
<1> QED
  BY <1>6, <1>19 DEF Faithful

(* Whatever the next word does.                                            *)
LEMMA NextFaithful ==
  ASSUME ~DivergingElse, OnlyBalanced, \A c \in IndirectCalls : c[2] <= 1,
         Faithful, IndInv, [Next]_vars
  PROVE  Faithful'
<1>1. CASE \/ Number \/ GetLocal \/ RefLocal \/ FunRef \/ Cast \/ Load \/ GetField \/ MakeStruct
           \/ \E has \in BOOLEAN : MakeVariant(has)
  <2>1. \E n \in Nat : Make(n)
    BY <1>1 DEF Number, GetLocal, RefLocal, FunRef, Cast, Load, GetField, MakeStruct, MakeVariant
  <2> QED
    BY <2>1, MakeKeeps
<1>2. CASE InitLocal \/ SetLocal \/ StoreLocal \/ MatchVoid
  BY <1>2, ConsumeKeeps DEF InitLocal, SetLocal, StoreLocal, MatchVoid
<1>3. CASE \/ String
           \/ (\E c \in Calls : Call(c[1], c[2])) \/ (\E c \in IndirectCalls : IndirectCall(c[1], c[2]))
           \/ \E n \in Annotations : StackAnnotation(n)
  BY <1>3, StringKeeps, CallKeeps, IndirectCallKeeps, StackAnnotationKeeps
<1>4. CASE MakeStructNamed \/ LeaveLiteral \/ \E f \in 1 .. 2 : FieldInit(f)
  BY <1>4, MakeStructNamedKeeps, LeaveLiteralKeeps, FieldInitKeeps
<1>5. CASE If \/ \E has \in BOOLEAN : Match(has)
  BY <1>5, IfKeeps, MatchKeeps
<1>6. CASE \E annotation \in {None} \cup Annotations : Block(annotation) \/ Loop(annotation)
  <2>1. PICK annotation \in {None} \cup Annotations : Block(annotation) \/ Loop(annotation)
    BY <1>6
  <2>2. annotation = None \/ annotation \in Nat
    BY <2>1, UnstackingAssumption
  <2>3. \E kind \in {"block", "loop"} : Start(kind, annotation)
    BY <2>1 DEF Block, Loop
  <2> QED
    BY <2>2, <2>3, StartKeeps
<1>7. CASE Else \/ TakeRest \/ \E has \in BOOLEAN : NextCase(has)
  BY <1>7, ElseKeeps, TakeRestKeeps, NextCaseKeeps
<1>8. CASE LeaveElse \/ LeaveRest \/ LeaveMatch
  BY <1>8, LeaveElseKeeps, LeaveRestKeeps, LeaveMatchKeeps
<1>9. CASE LeaveBlock \/ LeaveLoop \/ Break
  BY <1>9, LeaveBlockKeeps, LeaveLoopKeeps, BreakKeeps
<1>10. CASE UNCHANGED vars
  BY <1>10 DEF vars, Faithful
<1> QED
  BY <1>1, <1>2, <1>3, <1>4, <1>5, <1>6, <1>7, <1>8, <1>9, <1>10 DEF Next

(* So both parts of the invariant hold always.                             *)
LEMMA AlwaysFaithful ==
  ASSUME ~DivergingElse, OnlyBalanced, \A c \in IndirectCalls : c[2] <= 1
  PROVE  Spec => [](IndInv /\ Faithful)
<1>1. Init => IndInv /\ Faithful
  BY InitWalks, InitFaithful
<1>2. IndInv /\ Faithful /\ [Next]_vars => IndInv' /\ Faithful'
  BY NextWalks, NextFaithful
<1> QED
  BY <1>1, <1>2, PTL DEF Spec

(* Wherever the execution is, each source on the simulated stack stands    *)
(* for the value that lies in its place on the real one: pop, pop_n,       *)
(* ensure_negatives and what branches, blocks, loops and breaks do with    *)
(* them never mix values up (stack.py:43-71, unstacker.py).  Where they    *)
(* do is known: an else behind or before a branch that diverges, branches  *)
(* that leave unequally many values, and indirect calls with several       *)
(* results.                                                                *)
THEOREM StackFaithfulHolds ==
  ASSUME ~DivergingElse, OnlyBalanced, \A c \in IndirectCalls : c[2] <= 1
  PROVE  Spec => []StackFaithful
<1>1. IndInv /\ Faithful => StackFaithful
  <2> SUFFICES ASSUME IndInv, Faithful, here
               PROVE  Meanings(Flat(chain)) = stack
    BY DEF StackFaithful
  <2>1. PICK F, P, R : Sits(value, nodes, words, chain, open, here, stack, F, P, R)
    BY DEF Faithful
  <2>2. Stands(value, Flat(chain), stack)
    BY <2>1 DEF Sits, Inner
  <2> QED
    BY <2>2 DEF Stands, Meanings, Meaning
<1> QED
  BY <1>1, AlwaysFaithful, PTL

(* Under the same conditions, the arguments that the node of a branch,     *)
(* block or loop keeps are the values it was entered with, each where      *)
(* inference looks for it, and those of a loop's next iteration lie where  *)
(* those of the first did (unstacker.py, infer_from_node).                 *)
THEOREM EntriesFaithfulHolds ==
  ASSUME ~DivergingElse, OnlyBalanced, \A c \in IndirectCalls : c[2] <= 1
  PROVE  Spec => []EntriesFaithful
<1>1. IndInv /\ Faithful => EntriesFaithful
  <2> SUFFICES ASSUME IndInv, Faithful
               PROVE  EntriesFaithful
    OBVIOUS
  <2>1. PICK F, P, R : Sits(value, nodes, words, chain, open, here, stack, F, P, R)
    BY DEF Faithful
  <2>2. PICK S : Nodes(value, nodes, S)
    BY <2>1 DEF Sits
  <2>3. DOMAIN nodes = 1 .. Len(value)
    BY <2>2 DEF Nodes, IsSeq
  <2>4. \A n \in DOMAIN nodes : EntryOk(value, n, nodes[n])
    BY <2>2, <2>3 DEF Nodes, NodeOk
  <2> QED
    BY <2>4 DEF EntriesFaithful, EntryOk, ByDepth, Meaning
<1> QED
  BY <1>1, AlwaysFaithful, PTL

=============================================================================
