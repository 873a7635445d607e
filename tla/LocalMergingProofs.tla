------------------------- MODULE LocalMergingProofs -------------------------
(***************************************************************************)
(* Merging locals is sound: proofs about LocalMerging, for functions of    *)
(* any size.                                                               *)
(***************************************************************************)
EXTENDS LocalMerging, FiniteSetTheorems, TLAPS

Depths == 1 .. Len(open)

(* Scopes are numbered in the order they start; none starts twice, and the *)
(* function's body goes on to the end.                                     *)
ScopesNumbered ==
  /\ open[1].kind = "body"
  /\ \A d \in Depths : open[d].id \in 1 .. count /\ open[d].sibling \in 1 .. count
  /\ \A d, e \in Depths : open[d].id = open[e].id => d = e
  /\ ToSet(scopes) \subseteq 1 .. count
  /\ \A l \in declared : l.scope \in 1 .. count

(* What is offered for reuse has ended.                                    *)
OfferedScopesEnded ==
  /\ \A d \in Depths : open[d].id \notin ToSet(scopes)
  /\ \A d, e \in Depths : open[d].kind = "false" => open[d].sibling # open[e].id

(* Inner scopes start with all that outer scopes reuse.                    *)
OutersNest ==
  \A d \in Depths :
    /\ open[d].outer <= Len(reused)
    /\ \A e \in Depths : d < e => open[d].outer <= open[e].outer

(* Every alias in a scope that goes on is recorded among the reused where  *)
(* the end of no inner scope truncates it.                                 *)
AliasesRecorded ==
  \A l \in DOMAIN substitutions : \A d \in Depths : l.scope = open[d].id =>
    \E p \in 1 .. Len(reused) :
      /\ reused[p] = substitutions[l]
      /\ \A e \in Depths : d < e => p <= open[e].outer

(* What is aliased belongs to a scope that has ended.                      *)
AliasedEnded ==
  \A l \in DOMAIN substitutions : \A d \in Depths :
    open[d].id # substitutions[l].scope

AliasedKept ==
  \A l \in DOMAIN substitutions :
    substitutions[l] \in locals /\ substitutions[l].shape = l.shape

(* A local that is initialised next is new.                                *)
LocalsNumbered ==
  /\ IsFiniteSet(declared)
  /\ \A l \in declared : l.number < Cardinality(declared)

IndInv ==
  /\ TypeOK
  /\ ScopesNumbered
  /\ OfferedScopesEnded
  /\ OutersNest
  /\ AliasesRecorded
  /\ AliasedEnded
  /\ AliasedKept
  /\ LocalsNumbered
  /\ LiveLocalsApart

(* The elements of a longer and of a shorter list.                         *)
LEMMA AppendElements ==
  ASSUME NEW S, NEW s \in Seq(S), NEW x \in S
  PROVE  /\ Append(s, x) \in Seq(S)
         /\ Len(Append(s, x)) = Len(s) + 1
         /\ \A n \in 1 .. Len(s) : Append(s, x)[n] = s[n]
         /\ Append(s, x)[Len(s) + 1] = x
         /\ ToSet(Append(s, x)) = ToSet(s) \cup {x}
<1>1. /\ Append(s, x) \in Seq(S) /\ Len(s) \in Nat
      /\ Len(Append(s, x)) = Len(s) + 1
      /\ \A n \in 1 .. Len(s) : Append(s, x)[n] = s[n]
      /\ Append(s, x)[Len(s) + 1] = x
      /\ DOMAIN s = 1 .. Len(s) /\ DOMAIN Append(s, x) = 1 .. Len(s) + 1
  OBVIOUS
<1>2. \A n \in 1 .. Len(s) + 1 : n \in 1 .. Len(s) \/ n = Len(s) + 1
  BY <1>1
<1>3. 1 .. Len(s) \subseteq 1 .. Len(s) + 1 /\ Len(s) + 1 \in 1 .. Len(s) + 1
  BY <1>1
<1>4. ToSet(Append(s, x)) \subseteq ToSet(s) \cup {x}
  BY <1>1, <1>2 DEF ToSet
<1>5. ToSet(s) \cup {x} \subseteq ToSet(Append(s, x))
  BY <1>1, <1>3 DEF ToSet
<1> QED
  BY <1>1, <1>4, <1>5

LEMMA FrontElements ==
  ASSUME NEW S, NEW s \in Seq(S)
  PROVE  Front(s) \in Seq(S) /\ ToSet(Front(s)) \subseteq ToSet(s)
<1>1. /\ Len(s) \in Nat /\ DOMAIN s = 1 .. Len(s)
      /\ Front(s) = SubSeq(s, 1, Len(s) - 1)
  BY DEF Front
<1>2. CASE Len(s) = 0
  <2>1. Front(s) = << >>
    BY <1>1, <1>2
  <2> QED
    BY <2>1 DEF ToSet
<1>3. CASE Len(s) > 0
  <2>1. /\ Front(s) \in Seq(S) /\ DOMAIN Front(s) = 1 .. Len(s) - 1
        /\ \A n \in 1 .. Len(s) - 1 : Front(s)[n] = s[n] /\ n \in 1 .. Len(s)
    BY <1>1, <1>3
  <2> QED
    BY <1>1, <2>1 DEF ToSet
<1> QED
  BY <1>1, <1>2, <1>3

LEMMA Typed ==
  ASSUME TypeOK
  PROVE  /\ Len(open) \in Nat \ {0} /\ Depths = 1 .. Len(open)
         /\ Len(open) \in Depths /\ Top = open[Len(open)]
         /\ \A d \in Depths : open[d] \in OpenScope
         /\ Len(reused) \in Nat
         /\ \A p \in 1 .. Len(reused) : reused[p] \in Local
         /\ ToSet(reused) = {reused[p] : p \in 1 .. Len(reused)}
<1>1. open \in Seq(OpenScope) /\ open # << >> /\ reused \in Seq(Local)
  BY DEF TypeOK
<1>2. Len(open) \in Nat \ {0} /\ Depths = 1 .. Len(open) /\ Len(open) \in Depths
  BY <1>1 DEF Depths
<1>3. \A d \in Depths : open[d] \in OpenScope
  BY <1>1, <1>2
<1>4. /\ Len(reused) \in Nat /\ DOMAIN reused = 1 .. Len(reused)
      /\ \A p \in 1 .. Len(reused) : reused[p] \in Local
  BY <1>1
<1> QED
  BY <1>2, <1>3, <1>4 DEF Top, ToSet

LEMMA InitInv == Init => IndInv
<1> SUFFICES ASSUME Init PROVE IndInv
  OBVIOUS
<1> DEFINE body == [id |-> 1, kind |-> "body", outer |-> 0, sibling |-> 1]
<1>1. /\ open = <<body>> /\ scopes = << >> /\ reused = << >>
      /\ DOMAIN substitutions = {} /\ locals = {} /\ declared = {} /\ count = 1
  BY DEF Init
<1>2. body \in OpenScope
  BY DEF OpenScope
<1>3. /\ body.id = 1 /\ body.kind = "body" /\ body.outer = 0 /\ body.sibling = 1
  OBVIOUS
<1> HIDE DEF body
<1>4. Depths = {1} /\ open[1] = body /\ open \in Seq(OpenScope) /\ open # << >>
  BY <1>1, <1>2 DEF Depths
<1>5. ToSet(scopes) = {} /\ Len(reused) = 0
  BY <1>1 DEF ToSet
<1>6. TypeOK
  <2>1. << >> \in Seq(Nat) /\ << >> \in Seq(Local)
    OBVIOUS
  <2> QED
    BY <1>1, <1>4, <2>1 DEF TypeOK
<1>7. ScopesNumbered
  BY <1>1, <1>3, <1>4, <1>5 DEF ScopesNumbered
<1>8. OfferedScopesEnded
  BY <1>3, <1>4, <1>5 DEF OfferedScopesEnded
<1>9. OutersNest
  BY <1>3, <1>4, <1>5 DEF OutersNest
<1>10. AliasesRecorded /\ AliasedEnded /\ AliasedKept /\ LiveLocalsApart
  BY <1>1 DEF AliasesRecorded, AliasedEnded, AliasedKept, LiveLocalsApart, Live
<1>11. LocalsNumbered
  BY <1>1, FS_EmptySet DEF LocalsNumbered
<1> QED
  BY <1>6, <1>7, <1>8, <1>9, <1>10, <1>11 DEF IndInv

(* A local that takes over no storage.                                     *)
LEMMA DeclareStep ==
  ASSUME IndInv, NEW shape \in Shapes, InitLocal(shape)
  PROVE  IndInv'
<1>0. PICK local : local = [scope |-> Top.id, number |-> Cardinality(declared),
                            shape |-> shape]
  OBVIOUS
<1>1. /\ Len(open) \in Nat \ {0} /\ Depths = 1 .. Len(open)
      /\ Len(open) \in Depths /\ Top = open[Len(open)] /\ Top \in OpenScope
      /\ Len(reused) \in Nat
      /\ ToSet(reused) = {reused[p] : p \in 1 .. Len(reused)}
  BY Typed DEF IndInv
<1>2. /\ declared' = declared \cup {local}
      /\ UNCHANGED <<open, scopes, count>>
      /\ Depths' = Depths
      /\ \/ \E old \in DisjointLocals(shape) : Substitute(local, old)
         \/ /\ locals' = locals \cup {local}
            /\ UNCHANGED <<reused, substitutions>>
  BY <1>0 DEF InitLocal, Depths
<1>3. /\ IsFiniteSet(declared) /\ Cardinality(declared) \in Nat
      /\ local \in Local /\ local \notin declared
      /\ local.scope = Top.id /\ local.shape = shape
      /\ local.number = Cardinality(declared)
  <2>1. IsFiniteSet(declared) /\ Cardinality(declared) \in Nat
    BY FS_CardinalityType DEF IndInv, LocalsNumbered
  <2>2. Top.id \in Nat
    BY <1>1 DEF OpenScope
  <2>3. local \in Local
    BY <1>0, <2>1, <2>2 DEF Local
  <2>4. local.number = Cardinality(declared)
    BY <1>0
  <2>5. local \notin declared
    BY <2>1, <2>4 DEF IndInv, LocalsNumbered
  <2> QED
    BY <1>0, <2>1, <2>3, <2>5
<1>4. /\ declared \subseteq Local /\ locals = declared \ DOMAIN substitutions
      /\ DOMAIN substitutions \subseteq declared
      /\ \A l \in DOMAIN substitutions :
           substitutions[l] \in locals /\ substitutions[l].shape = l.shape
  BY DEF IndInv, TypeOK, AliasedKept
<1>5. LocalsNumbered'
  <2>1. IsFiniteSet(declared') /\ Cardinality(declared') = Cardinality(declared) + 1
    BY <1>2, <1>3, FS_AddElement
  <2>2. ASSUME NEW l \in declared PROVE l.number < Cardinality(declared) + 1
    <3>1. l.number \in Nat
      BY <1>4 DEF Local
    <3>2. l.number < Cardinality(declared)
      BY DEF IndInv, LocalsNumbered
    <3> QED
      BY <1>3, <3>1, <3>2
  <2> QED
    BY <1>2, <1>3, <2>1, <2>2 DEF LocalsNumbered
<1>6. Top.id \in 1 .. count
  BY <1>1 DEF IndInv, ScopesNumbered
<1>7. ScopesNumbered' /\ OfferedScopesEnded'
  BY <1>2, <1>3, <1>6 DEF IndInv, ScopesNumbered, OfferedScopesEnded
<1>8. CASE locals' = locals \cup {local} /\ UNCHANGED <<reused, substitutions>>
  <2>1. TypeOK'
    BY <1>2, <1>3, <1>4, <1>8 DEF IndInv, TypeOK
  <2>2. OutersNest' /\ AliasesRecorded' /\ AliasedEnded' /\ AliasedKept'
    BY <1>2, <1>8
       DEF IndInv, OutersNest, AliasesRecorded, AliasedEnded, AliasedKept
  <2>3. LiveLocalsApart'
    <3>1. \A l \in declared : /\ Storage(l)' = Storage(l)
                              /\ Storage(l) # local
      BY <1>3, <1>4, <1>8 DEF Storage
    <3>2. Storage(local)' = local
      BY <1>3, <1>4, <1>8 DEF Storage
    <3>3. Live' \subseteq Live \cup {local} /\ Live \subseteq declared
      BY <1>2, <1>8 DEF Live
    <3> QED
      BY <3>1, <3>2, <3>3 DEF IndInv, LiveLocalsApart
  <2> QED
    BY <1>5, <1>7, <2>1, <2>2, <2>3 DEF IndInv
<1>9. ASSUME NEW old \in DisjointLocals(shape), Substitute(local, old)
      PROVE  IndInv'
  <2>1. /\ reused' = Append(reused, old) /\ locals' = locals
        /\ DOMAIN substitutions' = DOMAIN substitutions \cup {local}
        /\ substitutions'[local] = old
        /\ \A l \in DOMAIN substitutions : substitutions'[l] = substitutions[l]
    BY <1>3, <1>4, <1>9 DEF Substitute
  <2>2. /\ old \in locals /\ old \in declared /\ old \in Local /\ old.shape = shape
        /\ old.scope \in ToSet(scopes) /\ old \notin ToSet(reused)
    BY <1>4 DEF DisjointLocals
  <2>3. /\ reused' \in Seq(Local) /\ Len(reused') = Len(reused) + 1
        /\ \A p \in 1 .. Len(reused) :
             reused'[p] = reused[p] /\ p \in 1 .. Len(reused')
        /\ reused'[Len(reused) + 1] = old
        /\ Len(reused) + 1 \in 1 .. Len(reused')
    <3>1. reused \in Seq(Local)
      BY DEF IndInv, TypeOK
    <3>2. /\ reused' \in Seq(Local) /\ Len(reused') = Len(reused) + 1
          /\ \A p \in 1 .. Len(reused) : reused'[p] = reused[p]
          /\ reused'[Len(reused) + 1] = old
      BY <2>1, <2>2, <3>1, AppendElements
    <3> QED
      BY <1>1, <3>2
  <2>4. TypeOK'
    BY <1>2, <1>3, <1>4, <2>1, <2>2, <2>3 DEF IndInv, TypeOK
  <2>5. OutersNest'
    <3> SUFFICES ASSUME NEW d \in Depths PROVE open[d].outer <= Len(reused')
      BY <1>2 DEF IndInv, OutersNest
    <3>1. open[d].outer \in Nat
      BY Typed DEF IndInv, OpenScope
    <3>2. open[d].outer <= Len(reused)
      BY DEF IndInv, OutersNest
    <3> QED
      BY <1>1, <2>3, <3>1, <3>2
  <2>6. AliasesRecorded'
    <3> SUFFICES ASSUME NEW l \in DOMAIN substitutions \cup {local},
                        NEW d \in Depths, l.scope = open[d].id
                 PROVE  \E p \in 1 .. Len(reused') :
                          /\ reused'[p] = substitutions'[l]
                          /\ \A e \in Depths : d < e => p <= open[e].outer
      BY <1>2, <2>1 DEF AliasesRecorded
    <3>1. CASE l \in DOMAIN substitutions
      <4>1. PICK p \in 1 .. Len(reused) :
              /\ reused[p] = substitutions[l]
              /\ \A e \in Depths : d < e => p <= open[e].outer
        BY <3>1 DEF IndInv, AliasesRecorded
      <4>2. reused'[p] = substitutions'[l] /\ p \in 1 .. Len(reused')
        BY <2>1, <2>3, <3>1, <4>1
      <4> QED
        BY <4>1, <4>2
    <3>2. CASE l = local
      <4>1. d = Len(open)
        BY <1>1, <1>3, <3>2 DEF IndInv, ScopesNumbered
      <4>2. \A e \in Depths : ~(d < e)
        BY <1>1, <4>1
      <4> QED
        BY <2>1, <2>3, <3>2, <4>2
    <3> QED
      BY <3>1, <3>2
  <2>7. AliasedEnded'
    BY <1>2, <2>1, <2>2 DEF IndInv, AliasedEnded, OfferedScopesEnded
  <2>8. AliasedKept'
    BY <1>3, <1>4, <2>1, <2>2 DEF AliasedKept
  <2>9. LiveLocalsApart'
    <3>1. \A l \in declared : Storage(l)' = Storage(l)
      BY <1>3, <1>4, <2>1 DEF Storage
    <3>2. Storage(local)' = old
      BY <2>1 DEF Storage
    <3>3. Live' \subseteq Live \cup {local} /\ Live \subseteq declared
      BY <1>2 DEF Live
    <3>4. ASSUME NEW k \in Live PROVE Storage(k) # old
      <4>1. PICK d \in Depths : open[d].id = k.scope
        BY DEF Live, Depths
      <4>2. CASE k \in DOMAIN substitutions
        <5>1. \E p \in 1 .. Len(reused) : reused[p] = substitutions[k]
          BY <4>1, <4>2 DEF IndInv, AliasesRecorded
        <5> QED
          BY <1>1, <2>2, <4>2, <5>1 DEF Storage
      <4>3. CASE k \notin DOMAIN substitutions
        <5>1. k.scope \notin ToSet(scopes)
          BY <4>1 DEF IndInv, OfferedScopesEnded
        <5> QED
          BY <2>2, <4>3, <5>1 DEF Storage
      <4> QED
        BY <4>2, <4>3
    <3> QED
      BY <3>1, <3>2, <3>3, <3>4 DEF IndInv, LiveLocalsApart
  <2> QED
    BY <1>5, <1>7, <2>4, <2>5, <2>6, <2>7, <2>8, <2>9 DEF IndInv
<1> QED
  BY <1>2, <1>8, <1>9

(* A scope starts inside another one.                                      *)
LEMMA EnterStep ==
  ASSUME IndInv, NEW kind \in {"block", "true"}, Enter(kind)
  PROVE  IndInv'
<1>1. /\ Len(open) \in Nat \ {0} /\ Depths = 1 .. Len(open)
      /\ \A d \in Depths : open[d] \in OpenScope
      /\ Len(reused) \in Nat
  BY Typed DEF IndInv
<1>2. PICK new : new = [id |-> count + 1, kind |-> kind, outer |-> Len(reused),
                        sibling |-> count + 1]
  OBVIOUS
<1>3. /\ count' = count + 1 /\ open' = Append(open, new)
      /\ UNCHANGED <<scopes, reused, substitutions, locals, declared>>
  BY <1>2 DEF Enter
<1>4. count \in Nat /\ open \in Seq(OpenScope)
  BY DEF IndInv, TypeOK
<1>5. /\ new \in OpenScope /\ new.id = count + 1 /\ new.kind # "false"
      /\ new.outer = Len(reused) /\ new.sibling = count + 1
  BY <1>1, <1>2, <1>4 DEF OpenScope
<1>6. /\ open' \in Seq(OpenScope) /\ Len(open') = Len(open) + 1
      /\ \A d \in Depths : open'[d] = open[d]
      /\ open'[Len(open) + 1] = new
  BY <1>1, <1>3, <1>4, <1>5, AppendElements
<1>7. /\ Depths' = 1 .. Len(open) + 1
      /\ Depths \subseteq Depths' /\ Len(open) + 1 \in Depths'
      /\ \A d \in Depths' : d \in Depths \/ d = Len(open) + 1
      /\ \A d \in Depths : d < Len(open) + 1
  BY <1>1, <1>6 DEF Depths
<1>8. \A n \in 1 .. count : n \in 1 .. count + 1 /\ n # count + 1
  BY <1>4
<1>9. TypeOK'
  <2>1. open' # << >>
    BY <1>1, <1>6
  <2> QED
    BY <1>3, <1>4, <1>6, <2>1 DEF IndInv, TypeOK
<1>10. \A d \in Depths : open[d].id \in 1 .. count /\ open[d].sibling \in 1 .. count
  BY DEF IndInv, ScopesNumbered
<1>11. ScopesNumbered'
  <2>1. \A d \in Depths' : /\ open'[d].id \in 1 .. count + 1
                           /\ open'[d].sibling \in 1 .. count + 1
    BY <1>4, <1>5, <1>6, <1>7, <1>8, <1>10
  <2>2. ASSUME NEW d \in Depths', NEW e \in Depths', open'[d].id = open'[e].id
        PROVE  d = e
    BY <1>5, <1>6, <1>7, <1>8, <1>10, <2>2 DEF IndInv, ScopesNumbered
  <2>3. open'[1].kind = "body"
    BY <1>1, <1>6 DEF IndInv, ScopesNumbered
  <2> QED
    BY <1>3, <1>8, <2>1, <2>2, <2>3 DEF IndInv, ScopesNumbered
<1>12. OfferedScopesEnded'
  <2>1. ASSUME NEW d \in Depths' PROVE open'[d].id \notin ToSet(scopes)
    BY <1>5, <1>6, <1>7, <1>8 DEF IndInv, ScopesNumbered, OfferedScopesEnded
  <2>2. ASSUME NEW d \in Depths', NEW e \in Depths', open'[d].kind = "false"
        PROVE  open'[d].sibling # open'[e].id
    BY <1>5, <1>6, <1>7, <1>8, <1>10, <2>2 DEF IndInv, OfferedScopesEnded
  <2> QED
    BY <1>3, <2>1, <2>2 DEF OfferedScopesEnded
<1>13. OutersNest'
  <2>1. ASSUME NEW d \in Depths' PROVE open'[d].outer <= Len(reused)
    BY <1>1, <1>5, <1>6, <1>7 DEF IndInv, OutersNest
  <2>2. ASSUME NEW d \in Depths', NEW e \in Depths', d < e
        PROVE  open'[d].outer <= open'[e].outer
    <3>1. d \in Depths
      BY <1>1, <1>7, <2>2
    <3>2. CASE e \in Depths
      BY <1>6, <2>2, <3>1, <3>2 DEF IndInv, OutersNest
    <3>3. CASE e = Len(open) + 1
      BY <1>5, <1>6, <2>1, <3>3
    <3> QED
      BY <1>7, <3>2, <3>3
  <2> QED
    BY <1>3, <2>1, <2>2 DEF OutersNest
<1>14. \A l \in declared : l.scope \in 1 .. count
  BY DEF IndInv, ScopesNumbered
<1>15. DOMAIN substitutions \subseteq declared /\ locals \subseteq declared
  BY DEF IndInv, TypeOK
<1>16. AliasesRecorded'
  <2> SUFFICES ASSUME NEW l \in DOMAIN substitutions, NEW d \in Depths',
                      l.scope = open'[d].id
               PROVE  \E p \in 1 .. Len(reused) :
                        /\ reused[p] = substitutions[l]
                        /\ \A e \in Depths' : d < e => p <= open'[e].outer
    BY <1>3 DEF AliasesRecorded
  <2>1. d \in Depths /\ open'[d] = open[d]
    BY <1>5, <1>6, <1>7, <1>8, <1>14, <1>15
  <2>2. PICK p \in 1 .. Len(reused) :
          /\ reused[p] = substitutions[l]
          /\ \A e \in Depths : d < e => p <= open[e].outer
    BY <2>1 DEF IndInv, AliasesRecorded
  <2>3. ASSUME NEW e \in Depths', d < e PROVE p <= open'[e].outer
    <3>1. CASE e \in Depths
      BY <1>6, <2>2, <2>3, <3>1
    <3>2. CASE e = Len(open) + 1
      BY <1>1, <1>5, <1>6, <3>2
    <3> QED
      BY <1>7, <3>1, <3>2
  <2> QED
    BY <2>2, <2>3
<1>17. AliasedEnded'
  <2> SUFFICES ASSUME NEW l \in DOMAIN substitutions, NEW d \in Depths'
               PROVE  open'[d].id # substitutions[l].scope
    BY <1>3 DEF AliasedEnded
  <2>1. substitutions[l].scope \in 1 .. count
    BY <1>14, <1>15 DEF IndInv, AliasedKept
  <2>2. CASE d \in Depths
    BY <1>6, <2>2 DEF IndInv, AliasedEnded
  <2>3. CASE d = Len(open) + 1
    BY <1>5, <1>6, <1>8, <2>1, <2>3
  <2> QED
    BY <1>7, <2>2, <2>3
<1>18. AliasedKept' /\ LocalsNumbered'
  BY <1>3 DEF IndInv, AliasedKept, LocalsNumbered
<1>19. LiveLocalsApart'
  <2>1. ASSUME NEW l \in Live' PROVE l \in Live
    <3>1. PICK d \in Depths' : l \in declared /\ open'[d].id = l.scope
      BY <1>3 DEF Live, Depths
    <3>2. d \in Depths /\ open'[d] = open[d]
      BY <1>5, <1>6, <1>7, <1>8, <1>14, <3>1
    <3> QED
      BY <3>1, <3>2 DEF Live, Depths
  <2> QED
    BY <1>3, <2>1 DEF IndInv, LiveLocalsApart, Storage
<1> QED
  BY <1>9, <1>11, <1>12, <1>13, <1>16, <1>17, <1>18, <1>19 DEF IndInv

(* What is left when a scope ends: the scopes around it, and what they     *)
(* reuse.                                                                  *)
LEMMA LeaveFacts ==
  ASSUME IndInv
  PROVE  /\ Outer \in Seq(OpenScope) /\ Len(Outer) = Len(open) - 1
         /\ \A d \in 1 .. Len(open) - 1 : Outer[d] = open[d] /\ d \in Depths
         /\ Truncated \in Seq(Local) /\ Len(Truncated) = Top.outer
         /\ Top.outer \in Nat /\ Top.outer <= Len(reused)
         /\ \A p \in 1 .. Top.outer :
              Truncated[p] = reused[p] /\ p \in 1 .. Len(reused)
<1>1. /\ Len(open) \in Nat \ {0} /\ Depths = 1 .. Len(open)
      /\ Len(open) \in Depths /\ Top = open[Len(open)] /\ Top \in OpenScope
      /\ Len(reused) \in Nat
      /\ open \in Seq(OpenScope) /\ reused \in Seq(Local)
  BY Typed DEF IndInv, TypeOK
<1>2. Top.outer \in Nat /\ Top.outer <= Len(reused)
  BY <1>1 DEF IndInv, OutersNest, OpenScope
<1>3. /\ Outer \in Seq(OpenScope) /\ Len(Outer) = Len(open) - 1
      /\ \A d \in 1 .. Len(open) - 1 : Outer[d] = open[d] /\ d \in Depths
  <2>1. Outer = SubSeq(open, 1, Len(open) - 1)
    BY DEF Outer
  <2>2. /\ Outer \in Seq(OpenScope) /\ Len(Outer) = Len(open) - 1
        /\ \A d \in 1 .. Len(open) - 1 : Outer[d] = open[d]
    <3>1. /\ open \in Seq(OpenScope) /\ Len(open) \in Nat \ {0}
      BY <1>1
    <3>2. SubSeq(open, 1, Len(open) - 1) \in Seq(OpenScope)
      BY <3>1
    <3>3. Len(SubSeq(open, 1, Len(open) - 1)) = Len(open) - 1
      <4>1. PICK n \in Nat : n = Len(open) - 1
        BY <3>1
      <4>2. n <= Len(open)
        BY <3>1, <4>1
      <4>3. Len(SubSeq(open, 1, n)) = n
        BY <3>1, <4>2
      <4> QED
        BY <4>1, <4>3
    <3>4. \A d \in 1 .. Len(open) - 1 : SubSeq(open, 1, Len(open) - 1)[d] = open[d]
      BY <3>1
    <3> QED
      BY <2>1, <3>2, <3>3, <3>4
  <2>3. \A d \in 1 .. Len(open) - 1 : d \in Depths
    BY <1>1
  <2> QED
    BY <2>2, <2>3
<1>4. /\ Truncated \in Seq(Local) /\ Len(Truncated) = Top.outer
      /\ \A p \in 1 .. Top.outer :
           Truncated[p] = reused[p] /\ p \in 1 .. Len(reused)
  BY <1>1, <1>2 DEF Truncated
<1> QED
  BY <1>2, <1>3, <1>4

(* A block or an if ends; the scopes offered anew are none of those that   *)
(* go on.                                                                  *)
LEMMA LeaveStep ==
  ASSUME IndInv, Len(open) > 1,
         open' = Outer, reused' = Truncated, scopes' \in Seq(Nat),
         ToSet(scopes') \subseteq 1 .. count,
         \A d \in 1 .. Len(open) - 1 : open[d].id \notin ToSet(scopes'),
         UNCHANGED <<substitutions, locals, declared, count>>
  PROVE  IndInv'
<1>1. /\ Len(open) \in Nat /\ Depths = 1 .. Len(open)
      /\ Len(open) \in Depths /\ Top = open[Len(open)]
      /\ Len(reused) \in Nat
  BY Typed DEF IndInv
<1>2. /\ open' \in Seq(OpenScope) /\ Len(open') = Len(open) - 1
      /\ reused' \in Seq(Local) /\ Len(reused') = Top.outer /\ Top.outer \in Nat
      /\ \A p \in 1 .. Top.outer : reused'[p] = reused[p]
  BY LeaveFacts
<1>3. /\ Depths' = 1 .. Len(open) - 1
      /\ \A d \in Depths' : open'[d] = open[d] /\ d \in Depths /\ d < Len(open)
  BY <1>1, <1>2, LeaveFacts DEF Depths
<1>4. TypeOK'
  <2>1. open' # << >>
    BY <1>1, <1>2
  <2> QED
    BY <1>2, <2>1 DEF IndInv, TypeOK
<1>5. ScopesNumbered' /\ OfferedScopesEnded'
  <2>1. 1 \in Depths'
    BY <1>1, <1>3
  <2>2. ScopesNumbered'
    <3>1. open'[1].kind = "body"
      BY <1>3, <2>1 DEF IndInv, ScopesNumbered
    <3>2. \A d \in Depths' :
            open'[d].id \in 1 .. count /\ open'[d].sibling \in 1 .. count
      BY <1>3 DEF IndInv, ScopesNumbered
    <3>3. ASSUME NEW d \in Depths', NEW e \in Depths', open'[d].id = open'[e].id
          PROVE  d = e
      <4>1. d \in Depths /\ e \in Depths /\ open[d].id = open[e].id
        BY <1>3, <3>3
      <4> QED
        BY <4>1 DEF IndInv, ScopesNumbered
    <3>4. \A l \in declared : l.scope \in 1 .. count
      BY DEF IndInv, ScopesNumbered
    <3> QED
      BY <3>1, <3>2, <3>3, <3>4 DEF ScopesNumbered
  <2>3. \A d \in Depths' : open'[d].id \notin ToSet(scopes)'
    BY <1>3
  <2>4. ASSUME NEW d \in Depths', NEW e \in Depths', open'[d].kind = "false"
        PROVE  open'[d].sibling # open'[e].id
    <3>1. /\ open'[d] = open[d] /\ open'[e] = open[e]
          /\ d \in Depths /\ e \in Depths
      BY <1>3
    <3> QED
      BY <2>4, <3>1 DEF IndInv, OfferedScopesEnded
  <2> QED
    BY <2>2, <2>3, <2>4 DEF OfferedScopesEnded
<1>6. OutersNest'
  BY <1>1, <1>2, <1>3 DEF IndInv, OutersNest
<1>7. AliasesRecorded'
  <2> SUFFICES ASSUME NEW l \in DOMAIN substitutions, NEW d \in Depths',
                      l.scope = open[d].id
               PROVE  \E p \in 1 .. Top.outer :
                        /\ reused'[p] = substitutions[l]
                        /\ \A e \in Depths' : d < e => p <= open[e].outer
    <3>1. substitutions' = substitutions /\ Len(reused') = Top.outer
      BY <1>2
    <3>2. \A d \in Depths' : open'[d] = open[d]
      BY <1>3
    <3>3. SUFFICES ASSUME NEW l \in DOMAIN substitutions, NEW d \in Depths',
                          l.scope = open'[d].id
                   PROVE  \E p \in 1 .. Top.outer :
                            /\ reused'[p] = substitutions[l]
                            /\ \A e \in Depths' : d < e => p <= open'[e].outer
      BY <3>1 DEF AliasesRecorded
    <3>4. l.scope = open[d].id
      BY <3>2, <3>3
    <3>5. PICK p \in 1 .. Top.outer :
            /\ reused'[p] = substitutions[l]
            /\ \A e \in Depths' : d < e => p <= open[e].outer
      BY <3>4
    <3>6. \A e \in Depths' : d < e => p <= open'[e].outer
      BY <3>2, <3>5
    <3> QED
      BY <3>5, <3>6
  <2>1. PICK p \in 1 .. Len(reused) :
          /\ reused[p] = substitutions[l]
          /\ \A e \in Depths : d < e => p <= open[e].outer
    BY <1>3 DEF IndInv, AliasesRecorded
  <2>2. p <= Top.outer
    BY <1>1, <1>3, <2>1
  <2>3. p \in 1 .. Top.outer
    BY <1>2, <2>2
  <2> QED
    BY <1>2, <1>3, <2>1, <2>3
<1>8. AliasedEnded' /\ AliasedKept' /\ LocalsNumbered'
  BY <1>3 DEF IndInv, AliasedEnded, AliasedKept, LocalsNumbered
<1>9. LiveLocalsApart'
  <2>1. Live' \subseteq Live
    BY <1>3 DEF Live, Depths
  <2> QED
    BY <2>1 DEF IndInv, LiveLocalsApart, Storage
<1> QED
  BY <1>4, <1>5, <1>6, <1>7, <1>8, <1>9 DEF IndInv

(* The true branch ends and the false branch starts.                       *)
LEMMA ElseStep ==
  ASSUME IndInv, Else
  PROVE  IndInv'
<1>1. /\ Len(open) \in Nat \ {0} /\ Depths = 1 .. Len(open)
      /\ Len(open) \in Depths /\ Top = open[Len(open)] /\ Top \in OpenScope
      /\ Len(reused) \in Nat
  BY Typed DEF IndInv
<1>2. PICK new : new = [id |-> count + 1, kind |-> "false",
                        outer |-> Top.outer, sibling |-> Top.id]
  OBVIOUS
<1>3. /\ Top.kind = "true" /\ count' = count + 1 /\ reused' = Truncated
      /\ scopes' = Append(scopes, Top.id) /\ open' = Append(Outer, new)
      /\ UNCHANGED <<substitutions, locals, declared>>
  BY <1>2 DEF Else
<1>4. /\ count \in Nat /\ scopes \in Seq(Nat)
      /\ Top.id \in 1 .. count /\ Top.id \in Nat /\ Top.outer \in Nat
  BY <1>1 DEF IndInv, TypeOK, ScopesNumbered, OpenScope
<1>5. /\ new \in OpenScope /\ new.id = count + 1 /\ new.kind = "false"
      /\ new.outer = Top.outer /\ new.sibling = Top.id
  BY <1>2, <1>4 DEF OpenScope
<1>6. /\ open' \in Seq(OpenScope) /\ Len(open') = Len(open)
      /\ \A d \in 1 .. Len(open) - 1 : open'[d] = open[d]
      /\ open'[Len(open)] = new
  <2>1. /\ Outer \in Seq(OpenScope) /\ Len(Outer) = Len(open) - 1
        /\ \A d \in 1 .. Len(open) - 1 : Outer[d] = open[d]
    BY LeaveFacts
  <2>2. Len(Outer) + 1 = Len(open)
    BY <1>1, <2>1
  <2> QED
    BY <1>3, <1>5, <2>1, <2>2, AppendElements
<1>7. /\ Depths' = Depths
      /\ \A d \in Depths : d \in 1 .. Len(open) - 1 \/ d = Len(open)
      /\ \A d \in 1 .. Len(open) - 1 : d \in Depths /\ d # Len(open) /\ d < Len(open)
  BY <1>1, <1>6 DEF Depths
<1>8. /\ reused' \in Seq(Local) /\ Len(reused') = Top.outer
      /\ \A p \in 1 .. Top.outer : reused'[p] = reused[p]
  BY <1>3, LeaveFacts
<1>9. scopes' \in Seq(Nat) /\ ToSet(scopes') = ToSet(scopes) \cup {Top.id}
  <2>1. scopes \in Seq(Nat) /\ Top.id \in Nat
    BY <1>4
  <2>2. /\ Append(scopes, Top.id) \in Seq(Nat)
        /\ ToSet(Append(scopes, Top.id)) = ToSet(scopes) \cup {Top.id}
    BY <2>1, AppendElements
  <2> QED
    BY <1>3, <2>2
<1>10. \A n \in 1 .. count : n \in 1 .. count + 1 /\ n # count + 1
  BY <1>4
<1>11. TypeOK'
  <2>1. open' # << >>
    BY <1>1, <1>6
  <2>2. count' \in Nat
    BY <1>3, <1>4
  <2> QED
    BY <1>3, <1>6, <1>8, <1>9, <2>1, <2>2 DEF IndInv, TypeOK
<1>12. \A d \in Depths : open[d].id \in 1 .. count /\ open[d].sibling \in 1 .. count
  BY DEF IndInv, ScopesNumbered
<1>13. \A d \in 1 .. Len(open) - 1 : open[d].id # Top.id
  BY <1>1, <1>7 DEF IndInv, ScopesNumbered
<1>14. ScopesNumbered'
  <2>1. \A d \in Depths : /\ open'[d].id \in 1 .. count + 1
                          /\ open'[d].sibling \in 1 .. count + 1
    <3> SUFFICES ASSUME NEW d \in Depths
                 PROVE  /\ open'[d].id \in 1 .. count + 1
                        /\ open'[d].sibling \in 1 .. count + 1
      OBVIOUS
    <3>1. CASE d \in 1 .. Len(open) - 1
      BY <1>6, <1>10, <1>12, <3>1
    <3>2. CASE d = Len(open)
      BY <1>4, <1>5, <1>6, <1>10, <3>2
    <3> QED
      BY <1>7, <3>1, <3>2
  <2>2. ASSUME NEW d \in Depths, NEW e \in Depths, open'[d].id = open'[e].id
        PROVE  d = e
    <3>1. ASSUME NEW a \in 1 .. Len(open) - 1
          PROVE  open'[a].id # count + 1
      BY <1>6, <1>7, <1>10, <1>12
    <3>2. open'[Len(open)].id = count + 1
      BY <1>5, <1>6
    <3>3. CASE d \in 1 .. Len(open) - 1 /\ e \in 1 .. Len(open) - 1
      <4>1. open[d].id = open[e].id
        BY <1>6, <2>2, <3>3
      <4> QED
        BY <4>1 DEF IndInv, ScopesNumbered
    <3>4. CASE d = Len(open) \/ e = Len(open)
      BY <1>7, <2>2, <3>1, <3>2, <3>4
    <3> QED
      BY <1>7, <3>3, <3>4
  <2>3. open'[1].kind = "body"
    <3>1. open[1].kind = "body"
      BY DEF IndInv, ScopesNumbered
    <3>2. Len(open) # 1
      BY <1>1, <1>3, <3>1
    <3>3. 1 \in 1 .. Len(open) - 1
      BY <1>1, <3>2
    <3> QED
      BY <1>6, <3>1, <3>3
  <2>4. ToSet(scopes') \subseteq 1 .. count + 1
    BY <1>4, <1>9, <1>10 DEF IndInv, ScopesNumbered
  <2>5. \A l \in declared : l.scope \in 1 .. count + 1
    BY <1>10 DEF IndInv, ScopesNumbered
  <2> QED
    BY <1>3, <1>7, <2>1, <2>2, <2>3, <2>4, <2>5 DEF ScopesNumbered
<1>15. OfferedScopesEnded'
  <2>1. ASSUME NEW d \in Depths PROVE open'[d].id \notin ToSet(scopes')
    <3>1. CASE d \in 1 .. Len(open) - 1
      BY <1>6, <1>7, <1>9, <1>13, <3>1 DEF IndInv, OfferedScopesEnded
    <3>2. CASE d = Len(open)
      <4>1. count + 1 \notin ToSet(scopes) /\ count + 1 # Top.id
        BY <1>4, <1>10 DEF IndInv, ScopesNumbered
      <4> QED
        BY <1>5, <1>6, <1>9, <3>2, <4>1
    <3> QED
      BY <1>7, <3>1, <3>2
  <2>2. ASSUME NEW d \in Depths, NEW e \in Depths, open'[d].kind = "false"
        PROVE  open'[d].sibling # open'[e].id
    <3>1. open'[d].sibling \in 1 .. count
      BY <1>4, <1>5, <1>6, <1>7, <1>12
    <3>2. CASE e = Len(open)
      BY <1>5, <1>6, <1>10, <3>1, <3>2
    <3>3. CASE e \in 1 .. Len(open) - 1 /\ d \in 1 .. Len(open) - 1
      BY <1>6, <1>7, <2>2, <3>3 DEF IndInv, OfferedScopesEnded
    <3>4. CASE e \in 1 .. Len(open) - 1 /\ d = Len(open)
      BY <1>5, <1>6, <1>13, <3>4
    <3> QED
      BY <1>7, <3>2, <3>3, <3>4
  <2> QED
    BY <1>3, <1>7, <2>1, <2>2 DEF OfferedScopesEnded
<1>16. \A d \in Depths : open'[d].outer = open[d].outer
  BY <1>1, <1>5, <1>6, <1>7
<1>17. OutersNest'
  <2>1. ASSUME NEW d \in Depths PROVE open'[d].outer <= Len(reused')
    <3>1. open[d].outer <= Top.outer
      <4>1. CASE d = Len(open)
        BY <1>1, <1>4, <4>1
      <4>2. CASE d \in 1 .. Len(open) - 1
        BY <1>1, <1>7, <4>2 DEF IndInv, OutersNest
      <4> QED
        BY <1>7, <4>1, <4>2
    <3> QED
      BY <1>8, <1>16, <3>1
  <2>2. \A d, e \in Depths : d < e => open'[d].outer <= open'[e].outer
    BY <1>16 DEF IndInv, OutersNest
  <2> QED
    BY <1>7, <2>1, <2>2 DEF OutersNest
<1>18. \A l \in declared : l.scope \in 1 .. count
  BY DEF IndInv, ScopesNumbered
<1>19. DOMAIN substitutions \subseteq declared /\ locals \subseteq declared
  BY DEF IndInv, TypeOK
<1>20. AliasesRecorded'
  <2> SUFFICES ASSUME NEW l \in DOMAIN substitutions, NEW d \in Depths,
                      l.scope = open'[d].id
               PROVE  \E p \in 1 .. Top.outer :
                        /\ reused'[p] = substitutions[l]
                        /\ \A e \in Depths : d < e => p <= open'[e].outer
    <3>1. /\ substitutions' = substitutions /\ Len(reused') = Top.outer
          /\ Depths' = Depths
      BY <1>3, <1>7, <1>8
    <3> QED
      BY <3>1 DEF AliasesRecorded
  <2>1. d # Len(open)
    BY <1>5, <1>6, <1>10, <1>18, <1>19
  <2>2. d \in 1 .. Len(open) - 1 /\ open'[d] = open[d] /\ d < Len(open)
    BY <1>6, <1>7, <2>1
  <2>3. PICK p \in 1 .. Len(reused) :
          /\ reused[p] = substitutions[l]
          /\ \A e \in Depths : d < e => p <= open[e].outer
    BY <2>2 DEF IndInv, AliasesRecorded
  <2>4. p <= Top.outer
    BY <1>1, <2>2, <2>3
  <2>5. p \in 1 .. Top.outer
    BY <1>4, <2>4
  <2> QED
    BY <1>8, <1>16, <2>3, <2>5
<1>21. AliasedEnded'
  <2> SUFFICES ASSUME NEW l \in DOMAIN substitutions, NEW d \in Depths
               PROVE  open'[d].id # substitutions[l].scope
    BY <1>3, <1>7 DEF AliasedEnded
  <2>1. substitutions[l].scope \in 1 .. count
    BY <1>18, <1>19 DEF IndInv, AliasedKept
  <2>2. CASE d \in 1 .. Len(open) - 1
    BY <1>6, <1>7, <2>2 DEF IndInv, AliasedEnded
  <2>3. CASE d = Len(open)
    BY <1>5, <1>6, <1>10, <2>1, <2>3
  <2> QED
    BY <1>7, <2>2, <2>3
<1>22. AliasedKept' /\ LocalsNumbered'
  BY <1>3 DEF IndInv, AliasedKept, LocalsNumbered
<1>23. LiveLocalsApart'
  <2>1. ASSUME NEW l \in Live' PROVE l \in Live
    <3>1. PICK d \in Depths : l \in declared /\ open'[d].id = l.scope
      BY <1>3, <1>7 DEF Live, Depths
    <3>2. d # Len(open)
      BY <1>5, <1>6, <1>10, <1>18, <3>1
    <3>3. open'[d] = open[d]
      BY <1>6, <1>7, <3>2
    <3> QED
      BY <3>1, <3>3 DEF Live, Depths
  <2> QED
    BY <1>3, <2>1 DEF IndInv, LiveLocalsApart, Storage
<1> QED
  BY <1>11, <1>14, <1>15, <1>17, <1>20, <1>21, <1>22, <1>23 DEF IndInv

(* Every step keeps the invariant.                                         *)
LEMMA NextInv == IndInv /\ [Next]_vars => IndInv'
<1> SUFFICES ASSUME IndInv, [Next]_vars PROVE IndInv'
  OBVIOUS
<1>1. /\ Len(open) \in Nat \ {0} /\ Depths = 1 .. Len(open)
      /\ Len(open) \in Depths /\ Top = open[Len(open)]
      /\ open[1].kind = "body"
      /\ scopes \in Seq(Nat) /\ ToSet(scopes) \subseteq 1 .. count /\ count \in Nat
      /\ \A d \in Depths : open[d].id \in 1 .. count /\ open[d].sibling \in 1 .. count
      /\ \A d \in 1 .. Len(open) - 1 : d \in Depths /\ d # Len(open)
  BY Typed DEF IndInv, TypeOK, ScopesNumbered
<1>2. \A d \in 1 .. Len(open) - 1 :
        open[d].id # Top.id /\ open[d].id \notin ToSet(scopes)
  BY <1>1 DEF IndInv, ScopesNumbered, OfferedScopesEnded
<1>3. Top.id \in 1 .. count /\ Top.sibling \in 1 .. count
      /\ Top.id \in Nat /\ Top.sibling \in Nat
  BY <1>1
<1>4. CASE \E shape \in Shapes : InitLocal(shape)
  BY <1>4, DeclareStep
<1>5. CASE \E kind \in {"block", "true"} : Enter(kind)
  BY <1>5, EnterStep
<1>6. CASE LeaveBlock
  <2>1. /\ Top.kind = "block" /\ open' = Outer /\ reused' = Truncated
        /\ scopes' = Append(scopes, Top.id)
        /\ UNCHANGED <<substitutions, locals, declared, count>>
    BY <1>6 DEF LeaveBlock
  <2>2. Len(open) > 1
    <3>1. Len(open) # 1
      BY <1>1, <2>1
    <3>2. PICK n \in Nat \ {0} : n = Len(open)
      BY <1>1
    <3>3. n > 1
      BY <3>1, <3>2
    <3> QED
      BY <3>2, <3>3
  <2>3. scopes' \in Seq(Nat) /\ ToSet(scopes') = ToSet(scopes) \cup {Top.id}
    <3>1. scopes \in Seq(Nat) /\ Top.id \in Nat
      BY <1>1, <1>3
    <3>2. /\ Append(scopes, Top.id) \in Seq(Nat)
          /\ ToSet(Append(scopes, Top.id)) = ToSet(scopes) \cup {Top.id}
      BY <3>1, AppendElements
    <3> QED
      BY <2>1, <3>2
  <2> QED
    BY <1>1, <1>2, <1>3, <2>1, <2>2, <2>3, LeaveStep
<1>7. CASE Else
  BY <1>7, ElseStep
<1>8. CASE LeaveIf
  <2>1. /\ Top.kind = "false" /\ open' = Outer /\ reused' = Truncated
        /\ scopes' = Front(scopes) \o <<Top.sibling, Top.id>>
        /\ UNCHANGED <<substitutions, locals, declared, count>>
    BY <1>8 DEF LeaveIf
  <2>2. Len(open) > 1
    <3>1. Len(open) # 1
      BY <1>1, <2>1
    <3>2. PICK n \in Nat \ {0} : n = Len(open)
      BY <1>1
    <3>3. n > 1
      BY <3>1, <3>2
    <3> QED
      BY <3>2, <3>3
  <2>3. Front(scopes) \in Seq(Nat) /\ ToSet(Front(scopes)) \subseteq ToSet(scopes)
    BY <1>1, FrontElements
  <2>4. scopes' = Append(Append(Front(scopes), Top.sibling), Top.id)
    BY <1>3, <2>1, <2>3
  <2>5. /\ scopes' \in Seq(Nat)
        /\ ToSet(scopes') = ToSet(Front(scopes)) \cup {Top.sibling} \cup {Top.id}
    <3>1. /\ Append(Front(scopes), Top.sibling) \in Seq(Nat)
          /\ ToSet(Append(Front(scopes), Top.sibling))
               = ToSet(Front(scopes)) \cup {Top.sibling}
      BY <1>3, <2>3, AppendElements
    <3>2. PICK s : s = Append(Front(scopes), Top.sibling)
      OBVIOUS
    <3>3. /\ Append(s, Top.id) \in Seq(Nat)
          /\ ToSet(Append(s, Top.id)) = ToSet(s) \cup {Top.id}
      <4>1. s \in Seq(Nat) /\ Top.id \in Nat
        BY <1>3, <3>1, <3>2
      <4> QED
        BY <4>1, AppendElements
    <3> QED
      BY <2>4, <3>1, <3>2, <3>3
  <2>6. \A d \in 1 .. Len(open) - 1 : open[d].id # Top.sibling
    BY <1>1, <2>1 DEF IndInv, OfferedScopesEnded
  <2>7. ToSet(scopes') \subseteq 1 .. count
    BY <1>1, <1>3, <2>3, <2>5
  <2>8. \A d \in 1 .. Len(open) - 1 : open[d].id \notin ToSet(scopes')
    BY <1>2, <2>3, <2>5, <2>6
  <2> QED
    BY <2>1, <2>2, <2>5, <2>7, <2>8, LeaveStep
<1>9. CASE UNCHANGED vars
  <2>1. UNCHANGED <<open, scopes, reused, substitutions, locals, declared, count>>
    BY <1>9 DEF vars
  <2>2. TypeOK' /\ Depths' = Depths
    BY <2>1 DEF IndInv, TypeOK, Depths
  <2>3. /\ ScopesNumbered' /\ OfferedScopesEnded' /\ OutersNest'
        /\ AliasesRecorded' /\ AliasedEnded' /\ AliasedKept' /\ LocalsNumbered'
    BY <2>1, <2>2
       DEF IndInv, ScopesNumbered, OfferedScopesEnded, OutersNest,
           AliasesRecorded, AliasedEnded, AliasedKept, LocalsNumbered
  <2>4. LiveLocalsApart'
    BY <2>1 DEF IndInv, LiveLocalsApart, Live, Storage
  <2> QED
    BY <2>2, <2>3, <2>4 DEF IndInv
<1> QED
  BY <1>4, <1>5, <1>6, <1>7, <1>8, <1>9 DEF Next

(* Every reachable state satisfies the inductive invariant.                *)
THEOREM Invariance == Spec => []IndInv
<1> QED
  BY InitInv, NextInv, PTL DEF Spec

(* Locals in scope together never share storage, in functions of any size  *)
(* (local-merging.watim:160-225, local_merging.py:96-112).                 *)
THEOREM MergingIsSound == Spec => []LiveLocalsApart
<1>1. IndInv => LiveLocalsApart
  BY DEF IndInv
<1> QED
  BY <1>1, Invariance, PTL

(* An alias has the size and the kind of the local it stands for.          *)
THEOREM AliasesFit == Spec => []StorageFits
<1>1. IndInv => StorageFits
  BY DEF IndInv, AliasedKept, StorageFits, Storage
<1> QED
  BY <1>1, Invariance, PTL
=============================================================================
