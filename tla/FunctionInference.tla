------------------------- MODULE FunctionInference --------------------------
(***************************************************************************)
(* The inference of a whole function: its words are chosen and unstacked   *)
(* (bootstrap/unstacking/unstacker.py), one action for each, and then      *)
(* infer_function goes over the results, the voids and the locals, with    *)
(* the operators of Inference.                                             *)
(*                                                                         *)
(* Branches, blocks and loops take at most one value and leave at most     *)
(* one.  Left out are words that find too little on the stack, values that *)
(* nothing uses and branches that drop what they took (see Unstacking for  *)
(* what becomes of those), and explicit type arguments.                    *)
(***************************************************************************)
EXTENDS Inference

(* The function: unstacking its words.                                     *)

Hole(i) == Len(ctx.hole) + i
Holes(i, n) == [j \in 1..n |-> Hole(i + j - 1)]

(* A word has made these sources, with so many holes.                      *)
Grow(made, holes) ==
  /\ sources' = sources \o made
  /\ ctx' = [ctx EXCEPT !.hole = @ \o [i \in 1..holes |-> None],
                        !.state = @ \o [i \in DOMAIN made |-> Unseen]]

Base == IF open = << >> THEN 0 ELSE Last(open).base
Height == Len(stack) - Base
Top(n) == SubSeq(stack, Len(stack) - n + 1, Len(stack))
Below(n) == SubSeq(stack, 1, Len(stack) - n)
New(n) == [i \in 1..n |-> Len(sources) + i]

(* The next word is of this kind; a call, a constructor and a match are of *)
(* the kind of what they name, a match of "match" as well.                 *)
Word(kind) ==
  /\ phase = "words" /\ kind \in DOMAIN words.kinds
  /\ words.kinds[kind] > 0 /\ words.left > 0
  /\ words' = [words EXCEPT !.left = @ - 1, !.kinds[kind] = @ - 1]

SomePath == IF "field" \in DOMAIN words.kinds THEN Paths ELSE {<< >>}
Same == UNCHANGED <<results, phase>>

(* A word that takes n values and leaves those of its sources.             *)
Simple(n, made, holes) ==
  /\ Height >= n /\ Len(stack) - n + Len(made) <= words.height
  /\ Grow(made, holes)
  /\ stack' = Below(n) \o New(Len(made))
  /\ UNCHANGED <<voids, locals, open>> /\ Same

Void(n, void, holes) ==
  /\ Height >= n /\ Grow(<< >>, holes)
  /\ stack' = Below(n) /\ voids' = Append(voids, void)
  /\ UNCHANGED <<locals, open>> /\ Same

(* unstack_field_accesses, with holes from the i-th on.                    *)
Accesses(path, i) ==
  [j \in DOMAIN path |-> [field |-> path[j], source |-> Hole(i + 2 * j - 2),
                          target |-> Hole(i + 2 * j - 1)]]

NumberWord == Word("number") /\ Simple(0, <<[k |-> "number"]>>, 0)
StringWord == Word("string") /\ Simple(0, <<[k |-> "string"], [k |-> "number"]>>, 0)

Written(v) == Locals[v] # None \/ locals[v].assignments # << >>

GetLocal == Word("get") /\ \E v \in DOMAIN Locals, path \in SomePath, byRef \in BOOLEAN :
  /\ Written(v)
  /\ Simple(0, <<[k |-> "local", var |-> v, fields |-> Accesses(path, 2),
                  hole |-> Hole(1), byRef |-> byRef]>>, 1 + 2 * Len(path))

GetGlobal == \E v \in DOMAIN Globals, path \in SomePath, byRef \in BOOLEAN : Word(v) /\
  Simple(0, <<[k |-> "global", var |-> v, fields |-> Accesses(path, 2),
               hole |-> Hole(1), byRef |-> byRef]>>, 1 + 2 * Len(path))

Assign(v, hole, fields, store, holes) ==
  /\ Height >= 1 /\ Grow(<< >>, holes)
  /\ stack' = Below(1)
  /\ locals' = [locals EXCEPT ![v].assignments =
       Append(@, [source |-> Last(stack), hole |-> hole, fields |-> fields,
                  store |-> store])]
  /\ UNCHANGED <<voids, open>> /\ Same

InitLocal == Word("set") /\ \E v \in DOMAIN Locals :
  ~Written(v) /\ Assign(v, locals[v].hole, << >>, FALSE, 0)

SetLocal == Word("set") /\ \E v \in DOMAIN Locals, path \in SomePath :
  /\ Written(v)
  /\ Assign(v, IF path = << >> THEN Hole(1) ELSE Hole(1 + 2 * Len(path)),
            Accesses(path, 2), FALSE, 1 + 2 * Len(path))

StoreLocal == Word("store") /\ \E v \in DOMAIN Locals, path \in SomePath :
  Written(v) /\ Assign(v, Hole(1), Accesses(path, 2), TRUE, 1 + 2 * Len(path))

SetGlobal == \E v \in DOMAIN Globals, path \in SomePath : Word(v) /\ Height >= 1 /\
  Void(1, [k |-> "set global", var |-> v, source |-> Last(stack),
           fields |-> Accesses(path, 2),
           hole |-> IF path = << >> THEN Hole(1) ELSE Hole(1 + 2 * Len(path))],
       1 + 2 * Len(path))

Call == \E f \in DOMAIN Functions : Word(f) /\
  LET sig == Functions[f]
      n == Len(sig.parameters)
      call == [k |-> "call", f |-> f, generics |-> Holes(1, sig.generics), args |-> Top(n)]
  IN Height >= n /\ IF sig.returns = << >> THEN Void(n, call, sig.generics)
                                          ELSE Simple(n, <<call>>, sig.generics)

MakeStruct == \E d \in DOMAIN Structs : Word(d) /\
  LET n == Len(Structs[d].fields) IN Height >= n /\
  Simple(n, <<[k |-> "struct", d |-> d, args |-> Top(n), hole |-> Hole(1),
               generics |-> Holes(2, Structs[d].generics)]>>, 1 + Structs[d].generics)

MakeVariant == \E d \in DOMAIN Variants : Word(d) /\ \E tag \in DOMAIN Variants[d].cases :
  LET n == IF Variants[d].cases[tag] = None THEN 0 ELSE 1 IN Height >= n /\
  Simple(n, <<[k |-> "variant", d |-> d, tag |-> tag, args |-> Top(n), hole |-> Hole(1),
               generics |-> Holes(2, Variants[d].generics)]>>, 1 + Variants[d].generics)

Unary(kind) == Height >= 1 /\
  Simple(1, <<[k |-> kind, arg |-> Last(stack), hole |-> Hole(1)]>>, 1)

Cast == Word("cast") /\ Height >= 1 /\ \E t \in Annotations :
  Simple(1, <<[k |-> "cast", arg |-> Last(stack), hole |-> Hole(1), type |-> t]>>, 1)
Load == Word("load") /\ Unary("load")
GetField == Word("field") /\ Height >= 1 /\ \E path \in SomePath : path # << >> /\
  Simple(1, <<[k |-> "getfield", arg |-> Last(stack), hole |-> Hole(1),
               fields |-> Accesses(path, 2)]>>, 1 + 2 * Len(path))
StackAnnotation == Word("annotation") /\ Height >= 1 /\ \E t \in Annotations :
  Simple(1, <<[k |-> "annotation", arg |-> Last(stack), type |-> t]>>, 0)

FunRef == Word("funref") /\ \E f \in DOMAIN Functions :
  /\ Functions[f].allowed = {}
  /\ Simple(0, <<[k |-> "funref", f |-> f, generics |-> Holes(1, Functions[f].generics)]>>,
            Functions[f].generics)

(* A call of a function that is a value, of one argument.                  *)
IndirectCall == Word("indirect") /\ Height >= 2 /\
  Simple(2, <<[k |-> "indirect", f |-> Last(stack), args |-> <<Top(2)[1]>>,
               params |-> <<Hole(1)>>, rets |-> <<Hole(2)>>]>>, 2)

(* The same, when it leaves nothing: a void for the argument and one for   *)
(* the function.                                                           *)
IndirectCallOfNone == Word("indirect") /\ Height >= 2 /\ \E t \in Annotations \cup {None} :
  /\ Grow(<< >>, 1) /\ stack' = Below(2)
  /\ voids' = voids \o
       <<[k |-> "source", source |-> Top(2)[1], type |-> t, hole |-> Hole(1)],
         [k |-> "indirect", f |-> Last(stack), params |-> <<Hole(1)>>, rets |-> << >>]>>
  /\ UNCHANGED <<locals, open>> /\ Same

MatchVoid == Word("match void") /\ Height >= 1 /\
  Void(1, [k |-> "impossible", source |-> Last(stack)], 0)

-----------------------------------------------------------------------------
(* Branches, blocks and loops.  A scope is where its words work on the     *)
(* stack; entry is the source of the value it takes, 0 if it takes none.   *)

Scope(kind, taken, entry) ==
  [kind |-> kind, base |-> Len(stack) - taken, entry |-> entry, cond |-> 0,
   hole |-> 0, arms |-> << >>, results |-> << >>]

Entered(scope, made, pushed) ==
  /\ Len(open) < MaxScopes
  /\ stack' = SubSeq(stack, 1, scope.base) \o pushed
  /\ open' = Append(open, scope)
  /\ UNCHANGED <<voids, locals>> /\ Same

Entry(kind, arg) == [k |-> kind, arg |-> arg, hole |-> Hole(1)]

IfWord == Word("if") /\ \E n \in {0, 1} : Height >= n + 1 /\
  LET cond == Last(stack)
      made == IF n = 0 THEN << >>
              ELSE <<Entry("if entry", Top(2)[1]) @@ [cond |-> cond]>>
  IN Grow(made, n) /\
     Entered([Scope("if", n + 1, IF n = 0 THEN 0 ELSE New(1)[1]) EXCEPT !.cond = cond],
             made, New(n))

(* The arms of a match: all cases, or all but one and the default (0); a   *)
(* match of only a default is no match (resolve_match_word).               *)
ArmsOf(d) ==
  LET all == [i \in DOMAIN Variants[d].cases |-> i]
  IN {all, Append(Front(all), 0), Append(Tail(all), 0)} \ {<<0>>}

MatchWord == Word("match") /\
  \E d \in DOMAIN Variants \cap DOMAIN words.kinds, n \in {0, 1} : Height >= n + 1 /\
  \E arms \in ArmsOf(d) :
  LET x == Last(stack)
      entry == [Entry("match entry", Top(n + 1)[1]) EXCEPT !.hole = Hole(2)]
               @@ [scrutinee |-> x, scrutineeHole |-> Hole(1)]
      made == [i \in 1..n |-> entry] \o
              [i \in DOMAIN arms |->
                 IF arms[i] = 0 THEN [k |-> "proxied", arg |-> x, hole |-> Hole(1)]
                 ELSE [k |-> "case", d |-> d, tag |-> arms[i], scrutinee |-> x,
                       scrutineeHole |-> Hole(1)]]
      payload(i) == IF arms[i] # 0 THEN IF Variants[d].cases[arms[i]] = None
                                        THEN << >> ELSE <<New(n + i)[n + i]>>
                    ELSE <<New(n + i)[n + i]>>
  IN Grow(made, n + 1) /\
     Entered([Scope("match", n + 1, IF n = 0 THEN 0 ELSE New(1)[1]) EXCEPT
                !.cond = x, !.hole = Hole(1),
                !.arms = <<d, [i \in DOMAIN arms |-> payload(i)]>>],
             made, New(n) \o payload(1))

BlockWord == Word("block") /\ \E n \in {0, 1} : Height >= n /\
  LET made == [i \in 1..n |-> Entry("block entry", Last(stack))] IN
  Grow(made, n) /\
  Entered(Scope("block", n, IF n = 0 THEN 0 ELSE New(1)[1]), made, New(n))

LoopWord == Word("loop") /\ Height >= 1 /\
  LET made == <<Entry("loop entry", Last(stack)) @@ [next |-> 0]>> IN
  Grow(made, 1) /\ Entered(Scope("loop", 1, New(1)[1]), made, New(1))

(* if { break } in a block or a loop.  The break takes the whole stack, one*)
(* value, along; the remaining words are the other branch.                 *)
BreakWord == Word("break") /\ open # << >> /\ Last(open).kind \in {"block", "loop"} /\
  Height = 2 /\ Len(stack) = 2 /\ Last(open).cond = 0 /\
  LET made == <<Entry("if entry", Top(2)[1]) @@ [cond |-> Last(stack)]>> IN
  /\ Grow(made, 1)
  /\ stack' = Below(1)
  /\ open' = Front(open) \o <<[Last(open) EXCEPT !.cond = Last(stack),
                                                 !.results = Append(@, New(1))]>>
  /\ UNCHANGED <<voids, locals>> /\ Same

(* What a branch leaves.  A case that does not touch what the match takes  *)
(* hands on what was there before the match (ensure_negatives).            *)
End(scope) ==
  IF scope.kind = "match" /\ scope.entry # 0 /\ Top(Height) = <<scope.entry>>
  THEN <<sources[scope.entry].arg>> ELSE Top(Height)

(* The end of a branch or of a case that is not the last.                  *)
NextBranch == phase = "words" /\ open # << >> /\
  LET scope == Last(open)
      arms == IF scope.kind = "match" THEN scope.arms[2] ELSE << << >>, << >> >>
      i == Len(scope.results) + 1
  IN /\ scope.kind \in {"if", "match"} /\ i < Len(arms) /\ Height \in {0, 1}
     /\ open' = Front(open) \o <<[scope EXCEPT !.results = Append(@, End(scope))]>>
     /\ stack' = Below(Height) \o (IF scope.entry = 0 THEN << >> ELSE <<scope.entry>>)
                              \o arms[i + 1]
     /\ UNCHANGED <<sources, voids, locals, words, ctx>> /\ Same

(* Every branch leaves as much, and one that takes a value leaves one; the *)
(* value it takes is not handed on by every branch.                        *)
Balanced(scope, ends) ==
  /\ \A i, j \in DOMAIN ends : Len(ends[i]) = Len(ends[j])
  /\ scope.entry # 0 => \E i \in DOMAIN ends :
       ends[i] \notin {<< >>, <<scope.entry>>, <<sources[scope.entry].arg>>}

Closed(made, holes, void) ==
  /\ Grow(made, holes)
  /\ stack' = SubSeq(stack, 1, Base) \o New(Len(made))
  /\ open' = Front(open) /\ voids' = voids \o void
  /\ UNCHANGED <<locals, words>> /\ Same

Ends == Append(Last(open).results, End(Last(open)))

EndIf == phase = "words" /\ open # << >> /\
  LET scope == Last(open) IN
  /\ scope.kind = "if" /\ Len(Ends) = 2 /\ Height \in {0, 1} /\ Balanced(scope, Ends)
  /\ IF Height = 0
     THEN Closed(<< >>, 0, <<[k |-> "source", source |-> scope.cond, type |-> Bool, hole |-> 0]>>)
     ELSE Closed(<<[k |-> "if exit", cond |-> scope.cond, args |-> FlattenSeq(Ends),
                    hole |-> Hole(1)]>>, 1, << >>)

EndMatch == phase = "words" /\ open # << >> /\
  LET scope == Last(open) IN
  /\ scope.kind = "match" /\ Len(Ends) = Len(scope.arms[2])
  /\ Height \in {0, 1} /\ Balanced(scope, Ends)
  /\ IF Height = 0
     THEN Closed(<< >>, 0, <<[k |-> "source", source |-> scope.cond, type |-> None,
                              hole |-> scope.hole]>>)
     ELSE Closed(<<[k |-> "match exit", d |-> scope.arms[1], args |-> FlattenSeq(Ends),
                    hole |-> Hole(1), scrutinee |-> scope.cond,
                    scrutineeHole |-> scope.hole]>>, 1, << >>)

(* What follows a break in a block or a loop is the other branch of an if; *)
(* with its results the body ends.                                         *)
Body == LET scope == Last(open) IN
  IF scope.cond = 0 THEN [made |-> << >>, end |-> Last(stack)]
  ELSE [made |-> <<[k |-> "if exit", cond |-> scope.cond, args |-> <<Last(stack)>>,
                    hole |-> Hole(1)]>>, end |-> New(1)[1]]

EndBlock == phase = "words" /\ open # << >> /\ Last(open).kind = "block" /\ Height = 1 /\
  LET scope == Last(open)
      n == Len(Body.made)
      exit == [k |-> "block exit", args |-> FlattenSeq(scope.results) \o <<Body.end>>,
               hole |-> Hole(n + 1)]
  IN /\ scope.entry = 0 \/ scope.results # << >> \/ Last(stack) # scope.entry
     /\ Grow(Append(Body.made, exit), n + 1)
     /\ stack' = Append(Below(1), New(n + 1)[n + 1])
     /\ open' = Front(open)
     /\ UNCHANGED <<voids, locals, words>> /\ Same

(* A loop that nothing leaves ends the function; what it takes is a void.  *)
EndLoop == phase = "words" /\ open # << >> /\ Last(open).kind = "loop" /\ Height = 1 /\
  LET scope == Last(open)
      left == scope.results # << >>
      exit == [k |-> "block exit", args |-> FlattenSeq(scope.results),
               hole |-> Hole(Len(Body.made) + 1)]
      made == Body.made \o (IF left THEN <<exit>> ELSE << >>)
  IN /\ Last(stack) # scope.entry \/ left
     /\ left \/ Len(open) = 1
     /\ sources' = [sources EXCEPT ![scope.entry].next = Body.end] \o made
     /\ ctx' = [ctx EXCEPT !.hole = @ \o [i \in DOMAIN made |-> None],
                           !.state = @ \o [i \in DOMAIN made |-> Unseen]]
     /\ stack' = Below(1) \o (IF left THEN <<New(Len(made))[Len(made)]>> ELSE << >>)
     /\ open' = Front(open)
     /\ voids' = voids \o (IF left THEN << >> ELSE
          <<[k |-> "source", source |-> scope.entry, type |-> None,
             hole |-> sources[scope.entry].hole]>>)
     /\ phase' = IF left THEN phase ELSE "endless"
     /\ UNCHANGED <<locals, words, results>>

-----------------------------------------------------------------------------
(* infer_function.                                                         *)

(* The function ends, and says what it returns.                            *)
EndFunction ==
  /\ phase = "endless" \/ (phase = "words" /\ open = << >>)
  /\ results' \in [DOMAIN stack -> Annotations]
  /\ phase' = "returns"
  /\ LET params == SelectSeq([v \in DOMAIN Locals |-> v], LAMBDA v : Locals[v] # None)
     IN ctx' = Each(ctx, params, LAMBDA c, v : Fill(c, locals[v].hole, Locals[v]))
  /\ UNCHANGED <<sources, voids, locals, stack, open, words>>

After(c, next) == IF c.failed # "" THEN "done" ELSE next

Filled(c) == {h \in DOMAIN c.hole : c.hole[h] # None}

Waiting(i, fresh, knew) == [void |-> i, fresh |-> fresh, knew |-> knew, stalled |-> FALSE]

CheckReturns ==
  /\ phase = "returns"
  /\ LET c == CheckAll(AtWork(ctx), stack, results)
     IN /\ ctx' = [AtRest(c) EXCEPT !.queue =
                     [i \in DOMAIN voids |-> Waiting(i, FALSE, << >>)]]
        /\ phase' = After(c, "voids")
  /\ UNCHANGED function

(* A slip: putting a void off counts as progress.                          *)
DeferAsProgress(c, i) ==
  [c EXCEPT !.queue = <<Waiting(i, FALSE, <<Filled(c), Len(@)>>)>> \o @]

Defer(c, i) ==
  [c EXCEPT !.queue = <<Waiting(i, TRUE, <<Filled(c), Len(@)>>)>> \o @]

(* A void is taken from the end and put off to the front.                  *)
VoidStep(kind, Infers(_, _, _)) ==
  /\ phase = "voids" /\ ctx.queue # << >> /\ voids[Last(ctx.queue).void].k = kind
  /\ Len(ctx.queue) <= MaxQueue
  /\ LET popped == [AtWork(ctx) EXCEPT !.queue = Front(@)]
         i == Last(ctx.queue).void
         c == IF Last(ctx.queue).fresh THEN Abort(popped, "cannot infer")
              ELSE Infers(popped, i, voids[i])
     IN ctx' = AtRest(c) /\ phase' = After(c, "voids")
  /\ UNCHANGED function

NonSpecificVoid == VoidStep("source", LAMBDA c, i, void :
  LET fill(a, t) == IF void.hole = 0 THEN a ELSE Fill(a, void.hole, t) IN
  IF void.type # None
  THEN Then(Check(c, void.source, void.type), LAMBDA a : fill(a, void.type))
  ELSE Then(Infer(c, void.source), LAMBDA a :
         IF a.ret = None THEN Defer(a, i) ELSE fill(a, a.ret)))

(* Arguments against parameters without generics, and then against all.    *)
Argument(c, s, t, param) ==
  IF t = None THEN Check(c, s, param) ELSE CheckType(c, t, param)

CallVoid == VoidStep("call", LAMBDA c, i, void :
  LET sig == Functions[void.f]
      inferred == InferAll(c, void.args)
      numbers == [j \in DOMAIN void.args |-> j]
      generic == \E j \in DOMAIN void.args : ContainsGeneric(sig.parameters[j])
      first(a, j) ==
        LET t == inferred.types[j] IN
        IF ~ContainsGeneric(sig.parameters[j])
        THEN Argument(a, void.args[j], t, sig.parameters[j])
        ELSE IF t = None THEN a
        ELSE UnifyOrAbort(a, void.generics, sig.parameters[j], t)
      again(a, j) ==
        IF inferred.types[j] = None THEN Defer(a, i)
        ELSE Unify(a, void.generics, sig.parameters[j], inferred.types[j])
  IN Then(Then(inferred.ctx, LAMBDA a : Each(a, numbers, first)), LAMBDA a :
       IF ~generic THEN a
       ELSE IF AllFilled(a, void.generics)
       THEN LET types == LookupAll(a, void.generics) IN
            Each(a, numbers, LAMBDA b, j :
              Argument(b, void.args[j], inferred.types[j],
                       WithGenerics(sig.parameters[j], types)))
       ELSE Each(a, numbers, again)))

ImpossibleMatchVoid == VoidStep("impossible", LAMBDA c, i, void :
  Then(Infer(c, void.source), LAMBDA a :
    IF a.ret = None THEN Defer(a, i)
    ELSE IF Pointee(a.ret).k # "custom" THEN Mismatch(a)
    ELSE IF Pointee(a.ret).d \notin DOMAIN Variants THEN Mismatch(a)
    ELSE IF Variants[Pointee(a.ret).d].cases # << >> THEN Mismatch(a) ELSE a))

SetGlobalVoid == VoidStep("set global", LAMBDA c, i, void :
  Then(Traverse(c, Globals[void.var], void.fields), LAMBDA a :
    Check(Fill(a, void.hole, a.ret), void.source, a.ret)))

IndirectCallVoid == VoidStep("indirect", LAMBDA c, i, void :
  IF ~AllFilled(c, void.params \o void.rets) THEN Defer(c, i)
  ELSE Check(c, void.f, Fun(LookupAll(c, void.params), LookupAll(c, void.rets))))

CheckLocals ==
  /\ phase = "voids" /\ ctx.queue = << >>
  /\ LET c == Each(AtWork(ctx), [v \in DOMAIN Locals |-> v], LAMBDA a, v :
                IF ~Written(v) THEN a     (* there is no such local *)
                ELSE Then(InferLocal(a, v), LAMBDA b :
                  IF b.ret = None THEN Abort(b, "assertion")
                  ELSE CheckLocalAssignments(b, v, b.ret)))
     IN ctx' = AtRest(c) /\ phase' = After(c, "fill")
  /\ UNCHANGED function

-----------------------------------------------------------------------------
(* The holes that the words' types are taken from (fill_holes_word).       *)

OfFields(fields) == {fields[i].source : i \in DOMAIN fields}
               \cup {fields[i].target : i \in DOMAIN fields}

HolesOf(src) ==
  CASE src.k \in {"local", "global"} ->
         OfFields(src.fields) \cup (IF src.byRef THEN {} ELSE {src.hole})
    [] src.k = "getfield" -> {src.hole} \cup OfFields(src.fields)
    [] src.k \in {"call", "funref"} -> {src.generics[i] : i \in DOMAIN src.generics}
    [] src.k = "indirect" -> {src.params[1], src.rets[1]}
    [] src.k = "case" -> {src.scrutineeHole}
    [] src.k \in {"number", "string", "annotation"} -> {}
    [] src.k = "match entry" -> {src.hole, src.scrutineeHole}
    [] OTHER -> {src.hole}

HolesOfVoid(void) ==
  CASE void.k = "source" -> {void.hole} \ {0}
    [] void.k = "call" -> {void.generics[i] : i \in DOMAIN void.generics}
    [] void.k = "set global" -> {void.hole} \cup OfFields(void.fields)
    [] void.k = "indirect" -> {void.params[1]}
    [] void.k = "impossible" -> {}

HolesOfLocal(v) == {locals[v].hole} \cup
  UNION {{locals[v].assignments[i].hole} \cup OfFields(locals[v].assignments[i].fields) :
           i \in DOMAIN locals[v].assignments}

NeededHoles ==
  UNION {HolesOf(sources[s]) : s \in DOMAIN sources} \cup
  UNION {HolesOfVoid(voids[i]) : i \in DOMAIN voids} \cup
  UNION {HolesOfLocal(v) : v \in {w \in DOMAIN Locals : Written(w)}}

(* Match is asserted to have a variant's type by now.                      *)
Matchable(t) == Pointee(t).k = "custom" /\ Pointee(t).d \in DOMAIN Variants

FillHoles ==
  /\ phase = "fill" /\ phase' = "done"
  /\ ctx' = IF /\ \A h \in NeededHoles : ctx.hole[h] # None
               /\ \A s \in DOMAIN sources : sources[s].k = "case" =>
                    Matchable(ctx.hole[sources[s].scrutineeHole])
            THEN ctx ELSE Abort(ctx, "assertion")
  /\ UNCHANGED function

-----------------------------------------------------------------------------

Init ==
  /\ sources = << >> /\ voids = << >> /\ stack = << >> /\ open = << >>
  /\ locals = [v \in DOMAIN Locals |-> [hole |-> v, assignments |-> << >>]]
  /\ words \in Vocabularies /\ results = << >> /\ phase = "words"
  /\ ctx = [NewCtx EXCEPT !.hole = [v \in DOMAIN Locals |-> None]]

Unstacks ==
  \/ NumberWord \/ StringWord \/ GetLocal \/ GetGlobal \/ InitLocal \/ SetLocal
  \/ StoreLocal \/ SetGlobal \/ Call \/ MakeStruct \/ MakeVariant \/ Cast \/ Load
  \/ GetField \/ StackAnnotation \/ FunRef \/ IndirectCall \/ IndirectCallOfNone
  \/ MatchVoid \/ IfWord \/ MatchWord \/ BlockWord \/ LoopWord \/ BreakWord
  \/ NextBranch \/ EndIf \/ EndMatch \/ EndBlock \/ EndLoop \/ EndFunction

Infers ==
  \/ CheckReturns \/ NonSpecificVoid \/ CallVoid \/ ImpossibleMatchVoid
  \/ SetGlobalVoid \/ IndirectCallVoid \/ CheckLocals \/ FillHoles

Next == Unstacks \/ Infers

Spec == Init /\ [][Next]_vars

-----------------------------------------------------------------------------
(* What the types ought to be: a definition that knows nothing of the way  *)
(* they are found.                                                         *)

FieldType(t, fields) ==
  FoldLeft(LAMBDA a, f : WithGenerics(Structs[Pointee(a).d].fields[f.field],
                                      Pointee(a).args), t, fields)

Instance(types, holes) ==
  [i \in DOMAIN types |-> WithGenerics(types[i], LookupAll(ctx, holes))]

TypeOf(s) ==
  LET src == sources[s]
      filled == ctx.hole[src.hole]
  IN CASE src.k = "number" -> I32
       [] src.k = "string" -> Ptr(I8)
       [] src.k \in {"annotation", "cast"} -> src.type
       [] src.k = "call" -> Instance(Functions[src.f].returns, src.generics)[1]
       [] src.k = "funref" -> Fun(Instance(Functions[src.f].parameters, src.generics),
                                  Instance(Functions[src.f].returns, src.generics))
       [] src.k = "indirect" -> ctx.hole[src.rets[1]]
       [] src.k = "getfield" -> PtrIf(IsPtr(filled), FieldType(filled, src.fields))
       [] src.k = "case" -> CaseType(ctx.hole[src.scrutineeHole], src)
       [] src.k = "local" -> PtrIf(src.byRef,
            FieldType(ctx.hole[locals[src.var].hole], src.fields))
       [] src.k = "global" -> PtrIf(src.byRef, FieldType(Globals[src.var], src.fields))
       [] OTHER -> filled

Types(ss) == [i \in DOMAIN ss |-> TypeOf(ss[i])]
AllOf(ss, t) == \A i \in DOMAIN ss : TypeOf(ss[i]) = t

(* The type in a source's hole is its own, and what it is made of has the  *)
(* types that it needs.                                                    *)
Fits(s) ==
  LET src == sources[s]
      filled == ctx.hole[src.hole]
  IN CASE src.k = "call" ->
            /\ Types(src.args) = Instance(Functions[src.f].parameters, src.generics)
            /\ Functions[src.f].allowed = {} \/
                 ctx.hole[src.generics[1]] \in Functions[src.f].allowed
       [] src.k = "struct" ->
            Types(src.args) = [i \in DOMAIN src.args |->
                                 WithGenerics(Structs[src.d].fields[i], filled.args)]
       [] src.k = "variant" ->
            AllOf(src.args, WithGenerics(Variants[src.d].cases[src.tag], filled.args))
       [] src.k = "indirect" ->
            TypeOf(src.f) = Fun(Types(src.args), LookupAll(ctx, src.rets))
       [] src.k = "load" -> TypeOf(src.arg) = Ptr(filled)
       [] src.k = "annotation" -> TypeOf(src.arg) = src.type
       [] src.k \in {"local", "global"} -> src.byRef \/ filled = TypeOf(s)
       [] src.k = "case" /\ Variants[src.d].cases[src.tag] # None ->
            /\ IsVariant(ctx.hole[src.scrutineeHole], src.d)
            /\ TypeOf(src.scrutinee) = ctx.hole[src.scrutineeHole]
       [] src.k \in {"cast", "getfield", "proxied", "block entry"} ->
            TypeOf(src.arg) = filled
       [] src.k = "match entry" ->
            /\ TypeOf(src.arg) = filled
            /\ TypeOf(src.scrutinee) = ctx.hole[src.scrutineeHole]
       [] src.k = "if entry" -> TypeOf(src.arg) = filled /\ TypeOf(src.cond) = Bool
       [] src.k = "loop entry" -> AllOf(<<src.arg, src.next>>, filled)
       [] src.k = "if exit" -> AllOf(src.args, filled) /\ TypeOf(src.cond) = Bool
       [] src.k = "block exit" -> AllOf(src.args, filled)
       [] src.k = "match exit" ->
            /\ AllOf(src.args, filled)
            /\ TypeOf(src.scrutinee) = ctx.hole[src.scrutineeHole]
       [] OTHER -> TRUE

VoidFits(void) ==
  CASE void.k = "source" ->
         /\ void.type \in {None, TypeOf(void.source)}
         /\ void.hole = 0 \/ ctx.hole[void.hole] = TypeOf(void.source)
    [] void.k = "call" ->
         Types(void.args) = Instance(Functions[void.f].parameters, void.generics)
    [] void.k = "set global" ->
         /\ TypeOf(void.source) = FieldType(Globals[void.var], void.fields)
         /\ ctx.hole[void.hole] = TypeOf(void.source)
    [] void.k = "indirect" -> TypeOf(void.f) = Fun(LookupAll(ctx, void.params), << >>)
    [] void.k = "impossible" -> Variants[Pointee(TypeOf(void.source)).d].cases = << >>

AssignmentsFit(v) ==
  \A i \in DOMAIN locals[v].assignments :
    LET as == locals[v].assignments[i] IN
    PtrIf(as.store, TypeOf(as.source)) =
      FieldType(ctx.hole[locals[v].hole], as.fields)

Success == phase = "done" /\ ctx.failed = ""

(* check says of a value that is being inferred or checked, of a local     *)
(* whose type is known and of a case whose scrutinee is not, that it has   *)
(* the type asked for, and relies on what comes to light elsewhere.  What  *)
(* it let pass is so in the end.                                           *)
ExpectationsMet == \A e \in ctx.expected : TypeOf(e[1]) = e[2]

FunctionFits ==
  /\ \A s \in DOMAIN sources : Fits(s)
  /\ \A i \in DOMAIN voids : VoidFits(voids[i])
  /\ \A v \in DOMAIN Locals : AssignmentsFit(v)
  /\ Len(results) = Len(stack) => Types(stack) = results

(* A match is on a value of the variant that its cases are of.             *)
MatchesFit ==
  \A s \in DOMAIN sources : sources[s].k \in {"case", "match exit"} =>
    IsVariant(TypeOf(sources[s].scrutinee), sources[s].d)

(* But for what check lets pass, a function whose inference succeeds is    *)
(* well typed: every word has a type, and every value has the type that    *)
(* all of its uses ask for, on every way through branches, blocks and      *)
(* loops.  Matches are not among the uses: see Sound.                      *)
WellTyped == Success /\ ExpectationsMet => FunctionFits

(* A function whose inference succeeds is well typed, and its matches are  *)
(* on what they are meant for: what the messages of inference.py promise   *)
(* to complain about.  The code does not keep this: check lets too much    *)
(* pass, and cases that take no value are compared with what they are      *)
(* matched on only if the match's result is asked for before its operands. *)
Sound == Success => ExpectationsMet /\ FunctionFits /\ MatchesFit

(* A void that was put off is tried again only if a hole has been filled   *)
(* that was empty then, or if there are fewer voids left, of which neither *)
(* can go on for ever, or if a source has stalled since then.  Only two    *)
(* kinds of source stall, and where none does, inference ends.  An if and  *)
(* a match that takes a value may have no type yet and fill, whenever they *)
(* are asked, a hole they filled before: the if by checking its condition  *)
(* (inference.py:1111), which fills one every time unless it is a local,   *)
(* the match by the value it takes.  Two voids that wait for such a source *)
(* keep each other going, and inference does not end.                      *)
OnNews == phase = "voids" => \A i \in DOMAIN ctx.queue :
  LET d == ctx.queue[i] IN
  \/ d.fresh \/ d.knew = << >> \/ d.stalled
  \/ d.knew[1] # Filled(ctx) \/ Len(ctx.queue) <= d.knew[2]
=============================================================================
