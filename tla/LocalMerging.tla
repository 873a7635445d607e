---------------------------- MODULE LocalMerging ----------------------------
(***************************************************************************)
(* The optimisation that lets locals share storage: native/                *)
(* local-merging.watim and bootstrap/local_merging.py, one algorithm.  The *)
(* pass walks the words of a function once.  When it meets the word that   *)
(* initialises a local it looks for an older local of the same size and    *)
(* kind whose scope has ended, and if there is one makes the new local an  *)
(* alias of it.                                                            *)
(*                                                                         *)
(* The function is chosen while it is walked: every action is the next     *)
(* word, or the end of a scope.  Blocks, loops, struct literals, match     *)
(* cases and match defaults are treated alike, as a block.                 *)
(***************************************************************************)
EXTENDS Integers, SequencesExt

CONSTANTS
  Shapes,     (* size of the type, and whether it must live in memory      *)
  MaxScopes,  (* bound: scopes of the function                             *)
  MaxLocals   (* bound: locals of the function                             *)

ASSUME MergingAssumption == MaxScopes \in Nat \ {0} /\ MaxLocals \in Nat

VARIABLES
  open,           (* the scopes being walked, outermost first; each holds  *)
                  (* reused.len at its start                               *)
  scopes,         (* disjoint.scopes                                       *)
  reused,         (* disjoint.reused                                       *)
  substitutions,  (* disjoint.substitutions                                *)
  locals,         (* function.locals without those not initialised yet     *)
  declared,       (* ghost: the locals initialised so far                  *)
  count           (* ghost: the scopes so far                              *)

vars == <<open, scopes, reused, substitutions, locals, declared, count>>

Top == open[Len(open)]
Outer == SubSeq(open, 1, Len(open) - 1)

Init ==
  /\ open = << [id |-> 1, kind |-> "body", outer |-> 0, sibling |-> 1] >>
  /\ scopes = << >> /\ reused = << >>
  /\ substitutions = [l \in {} |-> l]
  /\ locals = {} /\ declared = {}
  /\ count = 1

-----------------------------------------------------------------------------
(* find-disjoint-local: the locals it may answer; it answers the first of  *)
(* them in the order of function.locals, which is left open.               *)
DisjointLocals(shape) ==
  {l \in locals : /\ l.shape = shape
                  /\ l.scope \in ToSet(scopes)
                  /\ l \notin ToSet(reused)}

Substitute(local, old) ==
  /\ reused' = Append(reused, old)
  /\ substitutions' =
       [l \in DOMAIN substitutions \cup {local} |->
          IF l = local THEN old ELSE substitutions[l]]
  /\ UNCHANGED locals

InitLocal(shape) ==
  LET local == [scope |-> Top.id, number |-> Cardinality(declared), shape |-> shape]
  IN
  /\ Cardinality(declared) < MaxLocals
  /\ declared' = declared \cup {local}
  /\ \/ \E old \in DisjointLocals(shape) : Substitute(local, old)
     \/ /\ DisjointLocals(shape) = {}
        /\ locals' = locals \cup {local}
        /\ UNCHANGED <<reused, substitutions>>
  /\ UNCHANGED <<open, scopes, count>>

(* A block starts, or the true branch of an if.                            *)
Enter(kind) ==
  /\ count < MaxScopes
  /\ count' = count + 1
  /\ open' = Append(open, [id |-> count + 1, kind |-> kind,
                           outer |-> Len(reused), sibling |-> count + 1])
  /\ UNCHANGED <<scopes, reused, substitutions, locals, declared>>

(* What was reused inside a scope may be reused again behind it.           *)
Truncated == SubSeq(reused, 1, Top.outer)

(* A slip: all that was reused may be reused again.                        *)
LeaveBlockForgetful ==
  /\ Top.kind = "block"
  /\ open' = Outer
  /\ reused' = << >>
  /\ scopes' = Append(scopes, Top.id)
  /\ UNCHANGED <<substitutions, locals, declared, count>>

LeaveBlock ==
  /\ Top.kind = "block"
  /\ open' = Outer
  /\ reused' = Truncated
  /\ scopes' = Append(scopes, Top.id)
  /\ UNCHANGED <<substitutions, locals, declared, count>>

(* The false branch may use what the true branch did.                      *)
Else ==
  /\ Top.kind = "true" /\ count < MaxScopes
  /\ count' = count + 1
  /\ reused' = Truncated
  /\ scopes' = Append(scopes, Top.id)
  /\ open' = Append(Outer, [id |-> count + 1, kind |-> "false",
                            outer |-> Top.outer, sibling |-> Top.id])
  /\ UNCHANGED <<substitutions, locals, declared>>

(* Popping drops the last scope, which is a scope inside the false branch  *)
(* if there was one; the true branch's is pushed again in any case.        *)
LeaveIf ==
  /\ Top.kind = "false"
  /\ open' = Outer
  /\ reused' = Truncated
  /\ scopes' = Front(scopes) \o <<Top.sibling, Top.id>>
  /\ UNCHANGED <<substitutions, locals, declared, count>>

Next ==
  \/ \E shape \in Shapes : InitLocal(shape)
  \/ \E kind \in {"block", "true"} : Enter(kind)
  \/ LeaveBlock
  \/ Else
  \/ LeaveIf

Spec == Init /\ [][Next]_vars

-----------------------------------------------------------------------------
(* What must hold.                                                         *)

Local == [scope : Nat, number : Nat, shape : Shapes]
OpenScope == [id : Nat, kind : {"body", "block", "true", "false"},
              outer : Nat, sibling : Nat]

TypeOK ==
  /\ open \in Seq(OpenScope) /\ open # << >>
  /\ scopes \in Seq(Nat)
  /\ reused \in Seq(Local)
  /\ declared \subseteq Local
  /\ DOMAIN substitutions \subseteq declared
  /\ locals = declared \ DOMAIN substitutions
  /\ \A l \in DOMAIN substitutions : substitutions[l] \in Local
  /\ count \in Nat

(* fixup-var: the local whose storage a word about l uses.                 *)
Storage(l) == IF l \in DOMAIN substitutions THEN substitutions[l] ELSE l

(* The locals a word may still use.                                        *)
Live == {l \in declared : \E d \in 1 .. Len(open) : open[d].id = l.scope}

(* No two locals in scope at the same time share storage, however blocks   *)
(* and branches nest: a local is reused only once its scope has ended and  *)
(* while nothing in scope reuses it (local-merging.watim:160-225).         *)
LiveLocalsApart ==
  \A k, l \in Live : Storage(k) = Storage(l) => k = l

(* A local's storage has its size, and is in memory if it must be: code    *)
(* for the alias addresses the frame only for locals that have a place in  *)
(* it.                                                                     *)
StorageFits == \A l \in declared : Storage(l).shape = l.shape
=============================================================================
