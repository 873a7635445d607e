------------------------------ MODULE Inference ------------------------------
(***************************************************************************)
(* How the types of a function are inferred (bootstrap/inference), from    *)
(* the sources that bootstrap/unstacking leaves: what infer and check do   *)
(* with each kind of source.  FunctionInference has the function itself    *)
(* and what drives them.                                                   *)
(*                                                                         *)
(* Every value has a source.  infer asks a source for its type, which may  *)
(* be none yet; check tells a source the type it must have.  Both go on to *)
(* the sources that a source is made of, and fill holes, from which the    *)
(* words get their types in the end.  What takes values and leaves none is *)
(* a void; voids that cannot be typed yet are put off as long as there is  *)
(* progress.                                                               *)
(***************************************************************************)
EXTENDS Integers, SequencesExt

CONSTANTS
  Vocabularies, (* bound: how many words of which kinds a function may     *)
                (* have, how many in all, and how many values on the stack:*)
                (* a set of records with kinds, kind -> how many, left and *)
                (* height                                                  *)
  Structs,      (* name -> [generics, fields], the fields' types           *)
  Variants,     (* name -> [generics, cases], a case's type or None        *)
  Functions,    (* name -> [generics, parameters, returns, allowed, adds]  *)
  Locals,       (* the type of each parameter; None of another local       *)
  Globals,      (* name -> the type of a global                            *)
  Paths,        (* the sequences of fields that are accessed               *)
  Annotations,  (* types for annotations, casts and results                *)
  MaxScopes,    (* bound: nesting of branches, blocks and loops            *)
  MaxQueue,     (* bound: voids waiting                                    *)
  MaxDepth      (* how deep infer may recur: more than any source needs    *)

VARIABLES
  sources,      (* the sources and nodes; they name each other by number   *)
  voids,        (* function.voids                                          *)
  locals,       (* function.locals: hole and assignments                   *)
  stack,        (* the sources on the stack, the top last                  *)
  open,         (* the branches, blocks and loops that are open            *)
  words,        (* ghost: the vocabulary, and how many words may follow    *)
  results,      (* function.signature.returns, a sequence of types         *)
  phase,        (* what is next                                            *)
  ctx           (* the Ctx: see NewCtx                                     *)

vars == <<sources, voids, locals, stack, open, words, results, phase, ctx>>
function == <<sources, voids, locals, stack, open, words, results>>

-----------------------------------------------------------------------------
(* Types.                                                                  *)

None == [k |-> "none"]
I8 == [k |-> "i8"]
I32 == [k |-> "i32"]
I64 == [k |-> "i64"]
Bool == [k |-> "bool"]
Ptr(t) == [k |-> "ptr", of |-> t]
Custom(d, args) == [k |-> "custom", d |-> d, args |-> args]
Fun(params, rets) == [k |-> "fun", params |-> params, rets |-> rets]
Generic(i) == [k |-> "generic", i |-> i]

IsPtr(t) == t.k = "ptr"
Pointee(t) == IF IsPtr(t) THEN t.of ELSE t
PtrIf(byRef, t) == IF byRef THEN Ptr(t) ELSE t

(* try_with_generics, of what the generic arguments are so far; None if    *)
(* one that is needed is missing.                                          *)
RECURSIVE TryWithGenerics(_, _)
TryWithGenerics(t, args) ==
  LET all(ts) == [i \in DOMAIN ts |-> TryWithGenerics(ts[i], args)]
      orNone(parts, whole) ==
        IF None \in {parts[i] : i \in DOMAIN parts} THEN None ELSE whole
  IN CASE t.k = "generic" -> args[t.i]
       [] t.k = "ptr" -> orNone(all(<<t.of>>), Ptr(all(<<t.of>>)[1]))
       [] t.k = "custom" -> orNone(all(t.args), Custom(t.d, all(t.args)))
       [] t.k = "fun" -> orNone(all(t.params) \o all(t.rets),
                                Fun(all(t.params), all(t.rets)))
       [] OTHER -> t

WithGenerics(t, args) == TryWithGenerics(t, args)

RECURSIVE ContainsGeneric(_)
ContainsGeneric(t) ==
  CASE t.k = "generic" -> TRUE
    [] t.k = "ptr" -> ContainsGeneric(t.of)
    [] t.k = "custom" -> \E i \in DOMAIN t.args : ContainsGeneric(t.args[i])
    [] t.k = "fun" -> \E i \in DOMAIN (t.params \o t.rets) :
                        ContainsGeneric((t.params \o t.rets)[i])
    [] OTHER -> FALSE

Generics(n) == [i \in 1..n |-> Generic(i)]

(* signature_of_struct and signature_of_variant.                           *)
SignatureOfStruct(d) ==
  [generics |-> Structs[d].generics, parameters |-> Structs[d].fields,
   returns |-> <<Custom(d, Generics(Structs[d].generics))>>,
   allowed |-> {}, adds |-> FALSE]

SignatureOfVariant(d, tag) ==
  [generics |-> Variants[d].generics,
   parameters |-> SelectSeq(<<Variants[d].cases[tag]>>, LAMBDA t : t # None),
   returns |-> <<Custom(d, Generics(Variants[d].generics))>>,
   allowed |-> {}, adds |-> FALSE]

-----------------------------------------------------------------------------
(* The context, and how its operations follow each other: what an          *)
(* operation answers is ret, and once it has failed nothing follows.       *)

Unseen == [s |-> "unseen"]
BeingInferred == [s |-> "being inferred"]
BeingChecked == [s |-> "being checked"]
Known(t) == [s |-> "known", type |-> t]

NewCtx ==
  [hole |-> << >>,       (* the holes' types                               *)
   state |-> << >>,      (* the sources' states                            *)
   checked |-> {},       (* the locals with assignments_checked            *)
   queue |-> << >>,      (* deferred_infers: the void, whether there was no *)
                         (* progress since it was put off, and (ghost) the *)
                         (* holes that were filled then, how many other    *)
                         (* voids there were, and whether a source stalled *)
                         (* since: see Stall                               *)
   again |-> 0,          (* ghost: how often, while infer and check are at *)
                         (* work, a hole was filled that had been before   *)
   depth |-> 0,          (* ghost: of the recursion                        *)
   expected |-> {},      (* ghost: what check was told and let pass         *)
   failed |-> "",        (* why inference ended                            *)
   unified |-> TRUE,     (* what unify_types answered                      *)
   ret |-> None,
   solve |-> << >>]      (* infer and check, while they are at work         *)

Abort(c, why) == [c EXCEPT !.failed = why]
Mismatch(c) == Abort(c, "mismatch")
Return(c, t) == [c EXCEPT !.ret = t]
CheckType(c, known, t) == IF known # t THEN Mismatch(c) ELSE c

Then(c, F(_)) == IF c.failed # "" THEN c ELSE F(c)
IfType(c, F(_, _)) == IF c.failed # "" \/ c.ret = None THEN c ELSE F(c, c.ret)
Each(c, seq, F(_, _)) ==
  LET after[i \in 0..Len(seq)] ==
        IF i = 0 THEN c ELSE Then(after[i - 1], LAMBDA a : F(a, seq[i]))
  IN after[Len(seq)]

Progress(c) == [c EXCEPT !.queue =
                  [i \in DOMAIN c.queue |-> [c.queue[i] EXCEPT !.fresh = FALSE]]]

Fill(c, h, t) ==
  [Progress(c) EXCEPT !.hole[h] = t, !.again = IF c.hole[h] = None THEN @ ELSE @ + 1]

(* Ghost: between c and a a source has filled a hole again; if it still    *)
(* has no type, it does so whenever it is asked.                           *)
Stall(c, a) ==
  IF a.failed # "" \/ a.ret # None \/ a.again = c.again THEN a
  ELSE [a EXCEPT !.queue = [i \in DOMAIN a.queue |-> [a.queue[i] EXCEPT !.stalled = TRUE]]]

LetPass(c, s, known) == [c EXCEPT !.expected = @ \cup {<<s, known>>}]

FillAll(c, holes, types) ==
  Each(c, [i \in DOMAIN holes |-> i], LAMBDA a, i : Fill(a, holes[i], types[i]))

LookupAll(c, holes) == [i \in DOMAIN holes |-> c.hole[holes[i]]]
AllFilled(c, holes) == \A i \in DOMAIN holes : c.hole[holes[i]] # None

(* unify_types and unify_types_all.                                        *)
RECURSIVE Unify(_, _, _, _)
UnifyAll(c, generics, holey, known) ==
  Each(c, [i \in DOMAIN holey |-> i],
       LAMBDA a, i : IF a.unified THEN Unify(a, generics, holey[i], known[i])
                                  ELSE a)

Unify(c, generics, holey, known) ==
  LET answer(b) == [c EXCEPT !.unified = b] IN
  CASE holey.k = "generic" ->
         IF c.hole[generics[holey.i]] = None
         THEN [Fill(c, generics[holey.i], known) EXCEPT !.unified = TRUE]
         ELSE answer(known = c.hole[generics[holey.i]])
    [] holey.k = "ptr" /\ IsPtr(known) ->
         Unify(c, generics, holey.of, known.of)
    [] holey.k = "custom" /\ known.k = "custom" /\ known.d = holey.d ->
         UnifyAll(answer(TRUE), generics, holey.args, known.args)
    [] holey.k = "fun" /\ known.k = "fun" ->
         UnifyAll(answer(TRUE), generics, holey.params \o holey.rets,
                  known.params \o known.rets)
    [] OTHER -> answer(holey = known)

(* A slip: types that do not unify go unnoticed.                           *)
UnifyAnyway(c, generics, holey, known) == Unify(c, generics, holey, known)

UnifyOrAbort(c, generics, holey, known) ==
  LET u == Unify(c, generics, holey, known)
  IN IF u.unified THEN u ELSE Mismatch(u)

(* traverse_fields: answers the type of the field.                         *)
Traverse(c, t, fields) ==
  Each(Return(c, t), fields, LAMBDA a, f :
    LET struct == Pointee(a.ret) IN
    IF struct.k # "custom" THEN Abort(a, "assertion")
    ELSE IF struct.d \notin DOMAIN Structs THEN Mismatch(a)
    ELSE IF f.field \notin DOMAIN Structs[struct.d].fields THEN Mismatch(a)
    ELSE LET type == WithGenerics(Structs[struct.d].fields[f.field], struct.args)
         IN Return(Fill(Fill(a, f.source, a.ret), f.target, type), type))

-----------------------------------------------------------------------------
(* infer and check.                                                        *)

(* The methods infer and check call each other through self; here, through *)
(* the function solve of the context (Solve, at the end).                  *)
Infer(c, s) == c.solve[[ctx |-> c, source |-> s, known |-> None]]
Check(c, s, known) == c.solve[[ctx |-> c, source |-> s, known |-> known]]

CheckAll(c, ss, types) ==
  Each(c, [i \in DOMAIN ss |-> i], LAMBDA a, i : Check(a, ss[i], types[i]))
CheckEach(c, ss, type) == Each(c, ss, LAMBDA a, s : Check(a, s, type))

(* infer_over_array: the types beside the context.                         *)
InferAll(c, ss) ==
  LET after[i \in 0..Len(ss)] ==
        IF i = 0 THEN [ctx |-> c, types |-> << >>]
        ELSE LET a == after[i - 1]
                 b == Then(a.ctx, LAMBDA x : Infer(x, ss[i]))
             IN [ctx |-> b, types |-> Append(a.types, b.ret)]
  IN after[Len(ss)]

FirstType(types) == LET known == SelectSeq(types, LAMBDA t : t # None)
                    IN IF known = << >> THEN None ELSE known[1]

(* check_local_assignments.                                                *)
CheckLocalAssignments(c, v, type) ==
  IF v \in c.checked THEN c
  ELSE Each([c EXCEPT !.checked = @ \cup {v}], locals[v].assignments,
         LAMBDA a, as : Then(Traverse(a, type, as.fields), LAMBDA b :
           IF as.store /\ ~IsPtr(b.ret) THEN Abort(b, "assertion")
           ELSE LET t == IF as.store THEN b.ret.of ELSE b.ret
                IN Check(Fill(b, as.hole, t), as.source, t)))

(* infer_local: the first assignment of all of it that has a type.         *)
InferLocal(c, v) ==
  Each(Return(c, c.hole[locals[v].hole]), locals[v].assignments,
    LAMBDA a, as :
      IF a.ret # None \/ as.fields # << >> THEN a
      ELSE IfType(Infer(a, as.source), LAMBDA b, t : Return(b, PtrIf(as.store, t))))

InferFromLocal(c, s, src) ==
  IF c.hole[src.hole] # None THEN Return(c, c.hole[src.hole])
  ELSE IfType(InferLocal(c, src.var), LAMBDA a, local :
    Then(Traverse(Fill(a, locals[src.var].hole, local), local, src.fields),
      LAMBDA b : LET t == PtrIf(src.byRef, b.ret) IN
        Then(CheckLocalAssignments([b EXCEPT !.state[s] = Known(t)], src.var, local),
             LAMBDA d : Return(Fill(d, src.hole, t), t))))

CheckFromLocal(c, s, src, known) ==
  LET v == src.var
      type == c.hole[locals[v].hole]
      init == locals[v].assignments[1]
  IN
  CASE c.hole[src.hole] # None ->
         IF c.hole[src.hole] # known THEN Mismatch(c) ELSE c
    [] c.hole[src.hole] = None /\ type # None ->
         Then(Traverse(c, type, src.fields), LAMBDA a :
           CheckLocalAssignments(
             LetPass(Fill(a, src.hole, PtrIf(src.byRef, a.ret)), s, known), v, type))
    [] c.hole[src.hole] = None /\ type = None /\ src.fields # << >> ->
         Then(Infer([c EXCEPT !.state[s] = Unseen], s), LAMBDA a :
           IF a.ret # known THEN Mismatch(a) ELSE a)
    [] OTHER ->
         IF src.byRef /\ ~IsPtr(known) THEN Abort(c, "assertion")
         ELSE LET t == IF src.byRef THEN known.of ELSE known IN
              Then(Check(Fill(c, locals[v].hole, t), init.source, t),
                   LAMBDA a : CheckLocalAssignments(Fill(a, src.hole, known), v, t))

(* check_generic_parameter_constraints, of an intrinsic.                   *)
CheckConstraints(c, src) ==
  LET sig == Functions[src.f]
      first == IF sig.allowed = {} THEN None ELSE c.hole[src.generics[1]]
  IN IF first # None /\ first \notin sig.allowed THEN Mismatch(c)
     ELSE IF ~sig.adds THEN c
     ELSE LET a == InferAll(c, src.args) IN
       Then(a.ctx, LAMBDA b :
         IF \/ None \in {a.types[1], a.types[2]}
            \/ IF IsPtr(a.types[1]) THEN a.types[2] = I32
                                    ELSE a.types[1] = a.types[2]
         THEN b ELSE Mismatch(b))

(* infer_signature_application.                                            *)
InferApplication(c, generics, args, sig) ==
  Then(Each(c, [i \in DOMAIN args |-> i], LAMBDA a, i :
         IfType(Infer(a, args[i]), LAMBDA b, t :
           UnifyOrAbort(b, generics, sig.parameters[i], t))),
       LAMBDA a : Return(a, TryWithGenerics(sig.returns[1], LookupAll(a, generics))))

InferFromCall(c, s, src) ==
  LET applied == InferApplication(c, src.generics, src.args, Functions[src.f])
      constrained == Then(applied, LAMBDA a : CheckConstraints(a, src))
  IN IfType(Then(constrained, LAMBDA a :
              Return(a, TryWithGenerics(Functions[src.f].returns[1],
                                        LookupAll(a, src.generics)))),
       LAMBDA a, t :
         Then(Check([a EXCEPT !.state[s] = IF @ = BeingInferred THEN Unseen ELSE @],
                    s, t),
              LAMBDA b : Return(b, t)))

CheckFromCall(c, src, known) ==
  LET sig == Functions[src.f]
      inferred == InferAll(c, src.args)
      argument(a, i) ==
        LET t == inferred.types[i]
            param == TryWithGenerics(sig.parameters[i], LookupAll(a, src.generics))
        IN CASE param = None /\ t = None -> Mismatch(a)
             [] param = None /\ t # None ->
                  UnifyOrAbort(a, src.generics, sig.parameters[i], t)
             [] param # None /\ t = None -> Check(a, src.args[i], param)
             [] OTHER -> IF param # t THEN Mismatch(a) ELSE a
  IN Then(inferred.ctx, LAMBDA a :
       Then(UnifyOrAbort(a, src.generics, sig.returns[1], known), LAMBDA b :
         Then(Each(b, [i \in DOMAIN src.args |-> i], argument),
              LAMBDA d : CheckConstraints(d, src))))

(* check_make_struct_fields.                                               *)
CheckMakeStructFields(c, src, type) ==
  CheckAll(c, src.args,
    [i \in DOMAIN src.args |-> WithGenerics(Structs[src.d].fields[i], type.args)])

InferFromMakeStruct(c, src) ==
  IfType(InferApplication(c, src.generics, src.args, SignatureOfStruct(src.d)),
    LAMBDA a, t : Then(CheckMakeStructFields(Fill(a, src.hole, t), src, t),
                       LAMBDA b : Return(b, t)))

CheckFromMakeStruct(c, src, known) ==
  IF known.k # "custom" THEN Mismatch(c)
  ELSE IF known.d # src.d THEN Mismatch(c)
  ELSE CheckMakeStructFields(Fill(c, src.hole, known), src, known)

(* check_from_make_variant; the source of a case without a type is << >>.  *)
CheckFromMakeVariant(c, src, known) ==
  LET case == Variants[src.d].cases[src.tag]
      sig == SignatureOfVariant(src.d, src.tag)
  IN IF known.k # "custom" THEN Mismatch(c)
     ELSE IF case # None /\ known.d # src.d THEN Mismatch(c)
     ELSE Then(CheckEach(c, src.args, WithGenerics(case, known.args)), LAMBDA a :
            Then(UnifyOrAbort(a, src.generics, sig.returns[1], known),
                 LAMBDA b : Fill(b, src.hole, known)))

InferFromMakeVariant(c, src) ==
  LET generics == LookupAll(c, src.generics)
      t == Custom(src.d, generics)
  IN CASE c.hole[src.hole] # None -> Return(c, c.hole[src.hole])
       [] c.hole[src.hole] = None /\ AllFilled(c, src.generics) ->
            Then(CheckFromMakeVariant(Fill(c, src.hole, t), src, t), LAMBDA a :
              Then(CheckEach(a, src.args,
                     WithGenerics(Variants[src.d].cases[src.tag], generics)),
                   LAMBDA b : Return(b, t)))
       [] c.hole[src.hole] = None /\ ~AllFilled(c, src.generics) ->
            IF src.args = << >> THEN Return(c, None)
            ELSE IfType(InferApplication(c, src.generics, src.args,
                                         SignatureOfVariant(src.d, src.tag)),
                        LAMBDA a, u : Return(Fill(a, src.hole, u), u))

InferFromFunRef(c, src) ==
  LET sig == Functions[src.f]
      all(ts) == [i \in DOMAIN ts |-> WithGenerics(ts[i], LookupAll(c, src.generics))]
  IN Return(c, IF AllFilled(c, src.generics)
               THEN Fun(all(sig.parameters), all(sig.returns)) ELSE None)

CheckFromFunRef(c, src, known) ==
  LET sig == Functions[src.f] IN
  IF known.k # "fun" THEN Mismatch(c)
  ELSE IF \/ Len(known.params) # Len(sig.parameters)
          \/ Len(known.rets) # Len(sig.returns) THEN Mismatch(c)
  ELSE Each(c, [i \in DOMAIN (known.params \o known.rets) |-> i], LAMBDA a, i :
         UnifyOrAbort(a, src.generics, (sig.parameters \o sig.returns)[i],
                      (known.params \o known.rets)[i]))

(* The scrutinee's type goes into its hole when it is first asked for.     *)
Scrutinee(c, src) ==
  IF c.hole[src.scrutineeHole] # None THEN Return(c, c.hole[src.scrutineeHole])
  ELSE IfType(Infer(c, src.scrutinee), LAMBDA a, t : Fill(a, src.scrutineeHole, t))

IsVariant(t, d) == Pointee(t).k = "custom" /\ Pointee(t).d = d

CaseType(t, src) == PtrIf(IsPtr(t),
  WithGenerics(Variants[src.d].cases[src.tag], Pointee(t).args))

InferFromCase(c, src) ==
  IfType(Scrutinee(c, src), LAMBDA a, t :
    IF ~IsVariant(t, src.d) THEN Mismatch(a) ELSE Return(a, CaseType(t, src)))

CheckFromCase(c, s, src, known) ==
  Then(Scrutinee(c, src), LAMBDA a :
    IF a.ret = None THEN LetPass(a, s, known)
    ELSE IF ~IsVariant(a.ret, src.d) THEN Mismatch(a)
    ELSE CheckType(a, known, CaseType(a.ret, src)))

(* The hole is filled before the scrutinee is asked.                       *)
InferFromMatchEntry(c, src) ==
  IfType(Infer(c, src.arg), LAMBDA a, t :
    Stall(a, Then(Scrutinee(Fill(a, src.hole, t), src), LAMBDA b :
      IF b.ret = None THEN b ELSE Return(b, t))))

(* A match asks for its scrutinee once its own type is clear.              *)
MatchScrutinee(c, src) ==
  IF c.hole[src.scrutineeHole] # None THEN c
  ELSE Then(Scrutinee(c, src), LAMBDA a :
         IF a.ret = None THEN Abort(a, "cannot infer")
         ELSE IF ~IsVariant(a.ret, src.d) THEN Mismatch(a) ELSE a)

(* The arms that know their type must agree; it is the type of all.        *)
Agreed(types) == {None, FirstType(types)} \cup {types[i] : i \in DOMAIN types}
                   = {None, FirstType(types)}

InferFromMatchExit(c, src) ==
  LET arms == InferAll(c, src.args)
      t == FirstType(arms.types)
  IN Then(arms.ctx, LAMBDA a :
       IF t = None THEN Return(a, None)
       ELSE IF ~Agreed(arms.types) THEN Mismatch(a)
       ELSE Then(CheckEach(Fill(a, src.hole, t), src.args, t), LAMBDA b :
              Then(MatchScrutinee(b, src), LAMBDA d : Return(d, t))))

CheckFromMatchExit(c, src, known) ==
  Then(CheckEach(Fill(c, src.hole, known), src.args, known),
       LAMBDA a : MatchScrutinee(a, src))

(* infer_block_exit, from the breaks; a block or a loop that is left.      *)
InferBlockExit(c, src) ==
  LET breaks == InferAll(c, src.args)
      t == FirstType(breaks.types)
      untyped == SelectSeq([i \in DOMAIN src.args |-> i],
                           LAMBDA i : breaks.types[i] = None)
  IN Then(breaks.ctx, LAMBDA a :
       IF t = None THEN Return(a, None)
       ELSE IF ~Agreed(breaks.types) THEN Mismatch(Fill(a, src.hole, t))
       ELSE Then(Each(Fill(a, src.hole, t), untyped,
                      LAMBDA b, i : Check(b, src.args[i], t)),
                 LAMBDA b : Return(b, t)))

CheckFromBlockExit(c, src, known) ==
  Then(InferBlockExit(c, src), LAMBDA a :
    IF a.ret = None THEN CheckEach(Fill(a, src.hole, known), src.args, known)
    ELSE IF a.ret # known THEN Mismatch(a) ELSE a)

(* infer_if_exit; args are the results of the branches that do not diverge.*)
(* The condition is checked whenever the type is asked for.                *)
InferIfExit(c, src) ==
  Then(Check(c, src.cond, Bool), LAMBDA a :
    Stall(c, Then(Infer(a, src.args[1]), LAMBDA b :
      IF Len(src.args) = 1
      THEN IfType(b, LAMBDA d, t : Fill(d, src.hole, t))
      ELSE LET t == b.ret IN
        Then(Infer(b, src.args[2]), LAMBDA d :
          CASE t # None /\ d.ret # None ->
                 IF t # d.ret THEN Mismatch(d) ELSE Fill(d, src.hole, t)
            [] t # None /\ d.ret = None ->
                 Then(Check(Fill(d, src.hole, t), src.args[2], t),
                      LAMBDA e : Return(e, t))
            [] t = None /\ d.ret # None ->
                 Then(Check(Fill(d, src.hole, d.ret), src.args[1], d.ret),
                      LAMBDA e : Return(e, d.ret))
            [] OTHER -> d))))

CheckFromIfExit(c, src, known) ==
  Then(InferIfExit(c, src), LAMBDA a :
    IF a.ret # None THEN IF a.ret # known THEN Mismatch(a) ELSE a
    ELSE Then(CheckEach(Fill(a, src.hole, known), Reverse(src.args), known),
              LAMBDA b : Check(b, src.cond, Bool)))

(* infer_loop_entry: from before the loop, or from the end of its body.    *)
InferLoopEntry(c, src) ==
  LET before == Infer(c, src.arg)
      inferred == Then(before, LAMBDA a :
                    IF a.ret = None THEN Infer(a, src.next) ELSE a)
  IN IfType(inferred, LAMBDA a, t :
       Then(CheckEach(a, <<src.arg, src.next>>, t),
            LAMBDA b : Return(Fill(b, src.hole, t), t)))

(* Calling a function that is a value: its type fills the call's holes.    *)
Called(c, src) ==
  IfType(Infer(c, src.f), LAMBDA a, t :
    IF t.k # "fun" THEN Mismatch(a)
    ELSE IF \/ Len(t.params) # Len(src.params)
            \/ Len(t.rets) # Len(src.rets) THEN Mismatch(a)
    ELSE Then(CheckAll(FillAll(FillAll(a, src.params, t.params), src.rets, t.rets),
                       src.args, t.params),
              LAMBDA b : Return(b, t.rets[1])))

InferFromIndirectCall(c, src) ==
  IF c.hole[src.rets[1]] # None THEN Return(c, c.hole[src.rets[1]])
  ELSE Called(c, src)

CheckFromIndirectCall(c, src, known) ==
  Then(InferFromIndirectCall(c, src), LAMBDA a :
    IF a.ret = None THEN Abort(a, "cannot infer")
    ELSE IF a.ret # known THEN Mismatch(a) ELSE a)

(* What a block or a branch was entered with.                              *)
InferEntry(c, src) ==
  IfType(Infer(c, src.arg), LAMBDA a, t : Fill(a, src.hole, t))

InferIfEntry(c, src) ==
  IfType(InferEntry(c, src), LAMBDA a, t :
    Then(Check(a, src.cond, Bool), LAMBDA b : Return(b, t)))

InferFromStackAnnotation(c, src) ==
  Then(Infer(c, src.arg), LAMBDA a :
    IF a.ret = None
    THEN Then(Check(a, src.arg, src.type), LAMBDA b : Return(b, src.type))
    ELSE IF a.ret # src.type THEN Mismatch(a) ELSE a)

InferFromCast(c, src) ==
  Then(Infer(c, src.arg), LAMBDA a :
    IF a.ret = None THEN Abort(a, "cannot infer")
    ELSE Return(Fill(a, src.hole, a.ret), src.type))

InferFromLoad(c, src) ==
  Then(Infer(c, src.arg), LAMBDA a :
    IF ~IsPtr(a.ret) THEN Mismatch(a)
    ELSE Return(Fill(a, src.hole, a.ret.of), a.ret.of))

InferFromGlobal(c, src) ==
  Then(Traverse(c, Globals[src.var], src.fields), LAMBDA a :
    LET t == PtrIf(src.byRef, a.ret) IN Return(Fill(a, src.hole, t), t))

InferFromGetField(c, src) ==
  IfType(Infer(c, src.arg), LAMBDA a, t :
    IF Pointee(t).k # "custom" THEN Mismatch(a)
    ELSE IF Pointee(t).d \notin DOMAIN Structs THEN Mismatch(a)
    ELSE Then(Traverse(Fill(a, src.hole, t), t, src.fields),
              LAMBDA b : Return(b, PtrIf(IsPtr(t), b.ret))))

(* infer_inner.                                                            *)
InferInner(c, s) ==
  LET src == sources[s] IN
  CASE src.k = "number" -> Return(c, I32)
    [] src.k = "string" -> Return(c, Ptr(I8))
    [] src.k = "local" -> InferFromLocal(c, s, src)
    [] src.k = "global" -> InferFromGlobal(c, src)
    [] src.k = "call" -> InferFromCall(c, s, src)
    [] src.k = "struct" -> InferFromMakeStruct(c, src)
    [] src.k = "variant" -> InferFromMakeVariant(c, src)
    [] src.k = "funref" -> InferFromFunRef(c, src)
    [] src.k = "indirect" -> InferFromIndirectCall(c, src)
    [] src.k = "cast" -> InferFromCast(c, src)
    [] src.k = "load" -> InferFromLoad(c, src)
    [] src.k = "getfield" -> InferFromGetField(c, src)
    [] src.k = "annotation" -> InferFromStackAnnotation(c, src)
    [] src.k = "if entry" -> InferIfEntry(c, src)
    [] src.k \in {"block entry", "proxied"} -> InferEntry(c, src)
    [] src.k = "loop entry" -> InferLoopEntry(c, src)
    [] src.k = "match entry" -> InferFromMatchEntry(c, src)
    [] src.k = "case" -> InferFromCase(c, src)
    [] src.k = "if exit" -> InferIfExit(c, src)
    [] src.k = "block exit" -> InferBlockExit(c, src)
    [] src.k = "match exit" -> InferFromMatchExit(c, src)

(* What the rest of check_inner and check_from_node do.                    *)
CheckFromCast(c, src, known) ==
  IF known # src.type THEN Mismatch(c) ELSE InferFromCast(c, src)

CheckFromGetField(c, s, known) ==
  Then(Infer([c EXCEPT !.state[s] = BeingInferred], s), LAMBDA a :
    IF a.ret # known THEN Mismatch(a) ELSE a)

CheckEntry(c, src, known) == Check(Fill(c, src.hole, known), src.arg, known)

CheckInner(c, s, known) ==
  LET src == sources[s] IN
  CASE src.k = "number" -> CheckType(c, known, I32)
    [] src.k = "string" -> CheckType(c, known, Ptr(I8))
    [] src.k = "local" -> CheckFromLocal(c, s, src, known)
    [] src.k = "global" ->
         Then(InferFromGlobal(c, src), LAMBDA a : CheckType(a, known, a.ret))
    [] src.k = "call" -> CheckFromCall(c, src, known)
    [] src.k = "struct" -> CheckFromMakeStruct(c, src, known)
    [] src.k = "variant" -> CheckFromMakeVariant(c, src, known)
    [] src.k = "funref" -> CheckFromFunRef(c, src, known)
    [] src.k = "indirect" -> CheckFromIndirectCall(c, src, known)
    [] src.k = "cast" -> CheckFromCast(c, src, known)
    [] src.k = "load" -> Check(Fill(c, src.hole, known), src.arg, Ptr(known))
    [] src.k = "getfield" -> CheckFromGetField(c, s, known)
    [] src.k = "annotation" ->
         Then(CheckType(c, known, src.type), LAMBDA a : Check(a, src.arg, known))
    [] src.k = "if entry" ->
         Then(CheckEntry(c, src, known), LAMBDA a : Check(a, src.cond, Bool))
    [] src.k \in {"block entry", "match entry"} -> CheckEntry(c, src, known)
    [] src.k = "loop entry" ->
         CheckEach(Fill(c, src.hole, known), <<src.arg, src.next>>, known)
    [] src.k = "proxied" ->
         Then(Check(c, src.arg, known), LAMBDA a : Fill(a, src.hole, known))
    [] src.k = "case" -> CheckFromCase(c, s, src, known)
    [] src.k = "if exit" -> CheckFromIfExit(c, src, known)
    [] src.k = "block exit" -> CheckFromBlockExit(c, src, known)
    [] src.k = "match exit" -> CheckFromMatchExit(c, src, known)

CheckSource(c, s, known) ==
  IF c.state[s] \in {BeingChecked, BeingInferred} THEN LetPass(c, s, known)
  ELSE IF c.state[s] \notin {Unseen, Known(known)} THEN Mismatch(c)
  ELSE Then(CheckInner([c EXCEPT !.state[s] = BeingChecked], s, known),
            LAMBDA a : [a EXCEPT !.state[s] = Known(known)])

InferSource(c, s) ==
  LET state == c.state[s] IN
  CASE state = BeingChecked -> Return(c, None)
    [] state \in {Unseen, BeingInferred} ->
         IF c.depth = MaxDepth THEN Abort(c, "recursion")
         ELSE Then(InferInner([c EXCEPT !.state[s] = BeingInferred, !.depth = @ + 1], s),
           LAMBDA a : [a EXCEPT !.depth = @ - 1, !.state[s] =
             IF a.ret # None THEN Known(a.ret)
             ELSE IF @ = BeingInferred THEN Unseen ELSE @])
    [] OTHER -> Return(c, state.type)

Solve[q \in Any] == IF q.known = None THEN InferSource(q.ctx, q.source)
                    ELSE CheckSource(q.ctx, q.source, q.known)

AtWork(c) == [c EXCEPT !.solve = Solve]
AtRest(c) == [c EXCEPT !.solve = << >>, !.again = 0]
=============================================================================
