--------------------------- MODULE CodeGeneration ---------------------------
(***************************************************************************)
(* Generated code against what words mean.  The words of one function come *)
(* one after the other; each is given its place in the copy space          *)
(* (CopySpaceCtx of bootstrap/monomorphization/monomizer.py), translated   *)
(* (GeneratedCode) and run at once on a machine (Wasm).  Beside the        *)
(* machine are kept the values a reader of the program expects: of every   *)
(* variable, and of every item on the stack.                               *)
(*                                                                         *)
(* Of a branch that is not taken only the copy space counts.  A body of a  *)
(* loop runs once.                                                         *)
(*                                                                         *)
(* A value is a record: the bytes of a primitive or the tag of a variant;  *)
(* the parts of a struct, one for each field, or of a variant, one for     *)
(* each case; and what a pointer points to, which is a variable and the    *)
(* numbers of the parts to go through.                                     *)
(*                                                                         *)
(* A function is a record: its variables; the structs and variants it      *)
(* makes values of; the types it casts to; the signatures of the functions *)
(* it calls; the bytes of copy space that branches not taken may need and  *)
(* those that the whole body may; the kinds of words it is made of, and    *)
(* how many it has at most.                                                *)
(*                                                                         *)
(* What the function needs is measured before code is generated.  Here it  *)
(* is guessed at the call, and the function returns only when its words    *)
(* have come to need just that.                                            *)
(***************************************************************************)
EXTENDS Wasm, Layout, GeneratedCode

CONSTANTS
  Functions,       (* what is compiled *)
  MaxHeight,       (* of the stack *)
  MaxFields,       (* of an access *)
  WithFaults       (* whether words are used that are known to go wrong *)

VARIABLES
  function,
  measured,        (* what its body needs: bytes of copy space, and locals *)
                   (* for what calls return                                *)
  vars,            (* the values of its variables *)
  values,          (* what is on the stack: types and values *)
  literals,        (* the struct literals that are open *)
  offset,          (* how much of the copy space is given away *)
  receivers,       (* how many results a call had at most that needed some *)
  count,           (* of the words so far *)
  m,               (* the machine *)
  returned

variables ==
  << function, measured, vars, values, literals, offset, receivers, count, m, returned >>

frame == function.vars

---------------------------------------------------------------------------
(* Values.                                                                 *)

Value(bytes, parts, to) == [bytes |-> bytes, parts |-> parts, to |-> to]
Nothing == Value(<< >>, << >>, << >>)
PartOf(v, i) == IF v.parts = << >> THEN Nothing ELSE v.parts[i]

RECURSIVE Within(_, _)
Within(v, path) ==
  IF path = << >> THEN v ELSE Within(PartOf(v, Head(path)), Tail(path))

RECURSIVE TypeWithin(_, _)
TypeWithin(t, path) ==
  IF path = << >> THEN t ELSE TypeWithin(t.of[Head(path)], Tail(path))

RECURSIVE Replaced(_, _, _, _)
Replaced(t, v, path, new) ==
  IF path = << >> THEN new
  ELSE LET i == Head(path)
           parts == [k \in DOMAIN t.of |-> PartOf(v, k)]
       IN Value(v.bytes, [parts EXCEPT ![i] = Replaced(t.of[i], @, Tail(path), new)], << >>)

(* Whether the cases of variants on the way are the ones the variants have. *)
RECURSIVE Alive(_, _, _)
Alive(t, v, path) ==
  IF path = << >> THEN TRUE
  ELSE (t.kind = "variant" => v.bytes = << Head(path) - 1 >>)
         /\ Alive(t.of[Head(path)], PartOf(v, Head(path)), Tail(path))

RECURSIVE Displacement(_, _)
Displacement(t, path) ==
  IF path = << >> THEN 0
  ELSE (IF t.kind = "struct" THEN FieldOffset(t, Head(path)) ELSE 4)
         + Displacement(t.of[Head(path)], Tail(path))

(* The bytes of a value in memory; where base says variables are.  Those   *)
(* that do not matter are Stale.                                           *)
RECURSIVE Encode(_, _, _)
Encode(base, t, v) ==
  LET nothing == [k \in 1..Size(t) |-> Stale]
      put(bytes, at, part) ==
        [k \in DOMAIN bytes |-> IF k - at \in DOMAIN part THEN part[k - at] ELSE bytes[k]]
      part(i) == Encode(base, t.of[i], PartOf(v, i))
  IN CASE v = Nothing -> nothing
       [] v # Nothing /\ t.kind = "ptr" ->
            Word32(base[Head(v.to)] + Displacement(frame[Head(v.to)].type, Tail(v.to)))
       [] v # Nothing /\ t.kind = "struct" ->
            FoldLeft(LAMBDA bytes, i : put(bytes, FieldOffset(t, i), part(i)),
                     nothing, [i \in DOMAIN t.of |-> i])
       [] v # Nothing /\ t.kind = "variant" ->
            put(put(nothing, 0, Word32(v.bytes[1])), 4, part(v.bytes[1] + 1))
       [] OTHER -> v.bytes

(* The bytes of a value in a register.                                     *)
InReg(base, t, v) ==
  LET bytes == Encode(base, t, v)
  IN IF Size(t) = 1 THEN Pad(bytes, 4)
     ELSE bytes \o [k \in 1..(Width(t) - Len(bytes)) |-> Stale]

(* A value of which nothing is known but that it is this one.              *)
RECURSIVE Opaque(_, _, _)
Opaque(f, t, id) ==
  CASE t.kind = "ptr" ->
         Value(<< >>, << >>, << CHOOSE v \in DOMAIN f : f[v].type = t.of[1]
                                                     /\ f[v].kind = "global" >>)
    [] t.kind = "struct" ->
         Value(<< >>, [i \in DOMAIN t.of |-> Opaque(f, t.of[i], id + FieldOffset(t, i))], << >>)
    [] t.kind = "variant" ->
         LET tag == Len(t.of) - 1
         IN Value(<< tag >>, [i \in DOMAIN t.of |-> IF i = tag + 1 THEN Opaque(f, t.of[i], id)
                                                    ELSE Nothing], << >>)
    [] OTHER -> Value([k \in 1..Size(t) |-> id + k - 1], << >>, << >>)

Fresh(t, k) == Opaque(frame, t, 1000 + 100 * count + 20 * k)

---------------------------------------------------------------------------
(* The call of the function.                                               *)

InMemory(f, v) == LocalLivesInMemory(f[v])
(* Parameters that come in a register too wide for the address they get.   *)
Renamed(f, v) == f[v].kind = "parameter" /\ f[v].reffed /\ IsI64(f[v].type)

(* Globals that live in memory come after the static data, then what the   *)
(* callers have on the stack.                                              *)
StaticEnd == 4
Placed(f) == SelectSeq([v \in DOMAIN f |-> v], LAMBDA v : f[v].kind = "global" /\ InMemory(f, v))
             \o SelectSeq([v \in DOMAIN f |-> v],
                          LAMBDA v : f[v].kind = "parameter" /\ ~CanLiveInReg(f[v].type))
EndOf(f, list) == FoldLeft(LAMBDA a, v : a + Size(f[v].type), StaticEnd, list)
Base(f) ==
  [v \in DOMAIN f |->
     LET k == SelectInSeq(Placed(f), LAMBDA w : w = v)
     IN IF k = 0 THEN 0 ELSE EndOf(f, SubSeq(Placed(f), 1, k - 1))]
EntrySp(f) == AlignTo(EndOf(f, Placed(f)), 4)

Entering(f, v) ==   (* the locals of the machine there are for a variable *)
  LET given == f[v].kind # "local" /\ Base(f)[v] = 0
      value == IF given THEN InReg(Base(f), f[v].type, vars[v]) ELSE Word32(Base(f)[v])
  IN IF given /\ Renamed(f, v)
     THEN (Incoming(v) :> value) @@ (Var(v) :> Zeros(4))
     ELSE Var(v) :> IF f[v].kind = "local" /\ ~InMemory(f, v) THEN Zeros(Width(f[v].type)) ELSE value

MemorySlot(name, size) ==
  << I("sp.get", 0), I("sp.get", 0), Const(AlignTo(size, 4)), I("add", 0), I("sp.set", 0),
     I("set", name) >>

MemorySlotFor(v) ==
  LET t == frame[v].type
  IN CASE frame[v].kind = "parameter" /\ InMemory(frame, v) /\ CanLiveInReg(t) ->
            << I("sp.get", 0), I("sp.get", 0),
               I("get", IF Renamed(frame, v) THEN Incoming(v) ELSE Var(v)),
               Store(Width(t), Width(t)), I("set", Var(v)), I("get", Var(v)),
               Const(Size(t)), I("add", 0), I("sp.set", 0) >>
       [] frame[v].kind = "local" /\ InMemory(frame, v) -> MemorySlot(Var(v), Size(t))
       [] OTHER -> << >>

UsesStack ==
  measured.space # 0 \/ \E v \in DOMAIN frame : frame[v].kind # "global" /\ InMemory(frame, v)

Prologue ==
  (IF UsesStack THEN << I("sp.get", 0), I("set", SavedStack),
                        I("sp.get", 0), I("align", 8), I("sp.set", 0) >> ELSE << >>)
  \o (IF measured.space # 0 THEN MemorySlot(CopySpace, AlignTo(measured.space, 8)) ELSE << >>)
  \o Concat(MemorySlotFor, [v \in DOMAIN frame |-> v])

(* A slip: the stack is left as high as it was.                            *)
StackLeft == << >>

Epilogue == IF UsesStack THEN << I("get", SavedStack), I("sp.set", 0) >> ELSE << >>

(* The locals of the machine that are for no variable.                     *)
Declared ==
  {Returned(i, w) : i \in 1..measured.receivers, w \in {4, 8}}
    \cup (IF measured.space # 0 THEN {CopySpace} ELSE {})
    \cup (IF UsesStack THEN {SavedStack} ELSE {})
WidthOf(name) == IF name[3] = 8 THEN 8 ELSE 4

BeforePrologue ==
  [stack |-> << >>, sp |-> EntrySp(frame), valid |-> TRUE,
   locals |-> FoldLeft(LAMBDA all, v : Entering(frame, v) @@ all,
                [name \in Declared |-> Zeros(WidthOf(name))],
                [v \in DOMAIN frame |-> v]),
   mem |-> FoldLeft(LAMBDA mem, v : Write(mem, Base(frame)[v],
                                          Encode(Base(frame), frame[v].type, vars[v])),
                    [a \in 0..(Top - 1) |-> Stale], Placed(frame))]

Init ==
  /\ function \in Functions
  /\ measured \in [space : function.spaces,
                   receivers : {0} \cup {Len(s.returns) : s \in function.signatures}]
  /\ vars = [v \in DOMAIN frame |->
               IF frame[v].kind = "local" THEN Nothing
               ELSE Opaque(frame, frame[v].type, 256 + 20 * v)]
  /\ values = << >> /\ literals = << >> /\ offset = 0 /\ receivers = 0 /\ count = 0 /\ returned = FALSE
  /\ m = Run(BeforePrologue, Prologue)

---------------------------------------------------------------------------
(* Fields.                                                                 *)

FieldAccess(t, i) ==
  [source |-> t, index |-> i,
   target |-> (IF t.kind = "ptr" THEN t.of[1] ELSE t).of[i]]
HasFields(t) == t.kind = "struct" \/ (t.kind = "ptr" /\ t.of[1].kind = "struct")
FieldsOf(t) == IF HasFields(t) THEN DOMAIN StructOf([source |-> t]).of ELSE {}

RECURSIVE Paths(_, _)
Paths(t, n) ==
  IF n = 0 THEN {}
  ELSE UNION {{<< f >>} \cup {<< f >> \o rest : rest \in Paths(f.target, n - 1)} :
                f \in {FieldAccess(t, i) : i \in FieldsOf(t)}}

ValueAt(to) == Within(vars[Head(to)], Tail(to))
AliveAt(to) == to # << >> /\ Alive(frame[Head(to)].type, vars[Head(to)], Tail(to))
TypeAt(to) == TypeWithin(frame[Head(to)].type, Tail(to))
Assigned(to, new) ==
  [vars EXCEPT ![Head(to)] = Replaced(frame[Head(to)].type, @, Tail(to), new)]

(* Where a path of fields leads, from a value and the place it is at.  It  *)
(* leads nowhere by a pointer that was never set.                          *)
Follow(from, fields) ==
  FoldLeft(LAMBDA at, f :
             CASE ThroughPointer(f) /\ AliveAt(at.value.to) ->
                    LET to == at.value.to \o << f.index >>
                    IN [value |-> ValueAt(to), to |-> to, leads |-> at.leads]
               [] ThroughPointer(f) /\ ~AliveAt(at.value.to) -> [at EXCEPT !.leads = FALSE]
               [] OTHER -> [value |-> PartOf(at.value, f.index), to |-> at.to \o << f.index >>,
                            leads |-> at.leads],
           from, fields)
FollowVar(v, fields) == Follow([value |-> vars[v], to |-> << v >>, leads |-> TRUE], fields)

Target(t, fields) == IF fields = << >> THEN t ELSE Last(fields).target
VarPaths(v) == {<< >>} \cup Paths(frame[v].type, MaxFields)

(* Paths that are translated to the wrong address: one that goes by a      *)
(* pointer into a small struct in a struct is followed by loading the      *)
(* small struct, and of a variable in memory the address is taken for its  *)
(* value.                                                                  *)
LoadsStruct(fields) ==
  \E k \in 1..(Len(fields) - 1) :
    /\ ThroughPointer(fields[k]) /\ ~ThroughPointer(fields[k + 1])
    /\ CanLiveInReg(fields[k].target)
(* Writing to a part of a register of four bytes is done in eight.         *)
CutsWord(fields) ==
  \E k \in DOMAIN fields :
    ~ThroughPointer(fields[k]) /\ Size(fields[k].source) <= 4
      /\ Size(fields[k].target) # Size(fields[k].source)
(* Of some fields of structs in registers no code is made at all.          *)
Fails(fields, justRef, inMem) == FailedAssert \in Range(DetermineLoads(fields, justRef, inMem))
AddressForValue(v) == frame[v].reffed /\ CanLiveInReg(frame[v].type)
Unless(fault) == WithFaults \/ ~fault

---------------------------------------------------------------------------
(* Words.  Each takes n items from the stack, and leaves others.           *)

Item(t, v) == [type |-> t, value |-> v]
Ith(n, k) == values[Len(values) - n + k]   (* the k-th of the upper n *)
Takes(types) ==
  /\ Len(values) >= Len(types)
  /\ \A k \in DOMAIN types : Ith(Len(types), k).type = types[k]

(* A slip: the space for a word starts where the last one's did.           *)
GivenTwice(size) == offset' = IF offset = 0 THEN size ELSE offset

(* A word is given its part of the copy space.                             *)
Given(size) == offset' = offset + size

Needs(t) == IF CanLiveInReg(t) THEN 0 ELSE Size(t)

Compile(n, leaves, size, code) ==
  /\ Len(values) >= n /\ Len(values) - n + Len(leaves) <= MaxHeight
  /\ Given(size) /\ offset' <= measured.space
  /\ values' = SubSeq(values, 1, Len(values) - n) \o leaves
  /\ count' = count + 1
  /\ m' = Run(m, code)
  /\ UNCHANGED << function, measured, returned >>

Going(kind) == ~returned /\ count < function.words /\ kind \in function.uses
Plain == UNCHANGED << vars, literals, receivers >>

(* A number, or the place of a function in the table.                      *)
Constant(kind, t) ==
  /\ Going(kind)
  /\ Compile(0, << Item(t, Fresh(t, 0)) >>, 0, << I("const", Fresh(t, 0).bytes) >>)
  /\ Plain
Number == Constant("Number", I32)
FunRef == Constant("FunRef", Fun)

Uninit(t) ==
  /\ Going("Uninit")
  /\ Compile(0, << Item(t, Nothing) >>, Needs(t), GenerateUninit(t, offset))
  /\ Plain

Drop == Going("Drop") /\ values # << >> /\ Compile(1, << >>, 0, << I("drop", 0) >>) /\ Plain

FlipItems ==
  /\ Going("Flip")
  /\ Len(values) >= 2
  /\ Compile(2, << Ith(2, 2), Ith(2, 1) >>, 0, GenerateFlip(Ith(2, 1).type, Ith(2, 2).type))
  /\ Plain

GetLocal(v, fields) ==
  LET t == Target(frame[v].type, fields)
      at == FollowVar(v, fields)
  IN /\ Going("GetLocal")
     /\ at.leads /\ Unless(Fails(fields, FALSE, InMemory(frame, v)))
     /\ Compile(0, << Item(t, at.value) >>, Needs(t), GenerateGetLocal(frame, v, fields, t, offset))
     /\ Plain

InitLocal(v) ==
  /\ Going("InitLocal")
  /\ frame[v].kind = "local" /\ Takes(<< frame[v].type >>)
  /\ Compile(1, << >>, 0, GenerateSet(v, frame[v].type, InMemory(frame, v), << >>))
  /\ vars' = [vars EXCEPT ![v] = Ith(1, 1).value]
  /\ UNCHANGED << literals, receivers >>

SetLocal(v, fields) ==
  LET t == Target(frame[v].type, fields)
      at == FollowVar(v, fields)
  IN /\ Going("SetLocal")
     /\ Takes(<< t >>) /\ at.leads /\ AliveAt(at.to)
     /\ Unless(LoadsStruct(fields) \/ CutsWord(fields) \/ Fails(fields, FALSE, InMemory(frame, v)))
     /\ Compile(1, << >>, 0, GenerateSetLocal(frame, v, fields, t))
     /\ vars' = Assigned(at.to, Ith(1, 1).value)
     /\ UNCHANGED << literals, receivers >>

RefLocal(v, fields) ==
  LET at == FollowVar(v, fields)
      t == Target(frame[v].type, fields)
  IN /\ Going("RefLocal")
     /\ frame[v].reffed \/ FieldsGoThroughPtr(fields)
     /\ at.leads /\ Unless(LoadsStruct(fields) \/ (AddressForValue(v) /\ fields # << >>))
     /\ Compile(0, << Item(Ptr(t), Value(<< >>, << >>, at.to)) >>, 0, GenerateRefLocal(v, fields))
     /\ Plain

(* Assigns to what a pointer in a variable points to.                      *)
StoreLocal(v, fields) ==
  LET t == Target(frame[v].type, fields)
      at == FollowVar(v, fields)
  IN /\ Going("StoreLocal")
     /\ t.kind = "ptr" /\ Takes(t.of) /\ at.leads /\ AliveAt(at.value.to)
     /\ Unless(AddressForValue(v))
     /\ Compile(1, << >>, 0, GenerateStoreLocal(v, fields, t.of[1]))
     /\ vars' = Assigned(at.value.to, Ith(1, 1).value)
     /\ UNCHANGED << literals, receivers >>

GetField(fields) ==
  LET onPtr == ThroughPointer(fields[1])
      at == Follow([value |-> Ith(1, 1).value, to |-> << >>, leads |-> TRUE], fields)
      t == Last(fields).target
  IN /\ Going("GetField")
     /\ at.leads /\ Unless((onPtr /\ LoadsStruct(fields)) \/ Fails(fields, onPtr, FALSE))
     /\ Compile(1, << IF onPtr THEN Item(Ptr(t), Value(<< >>, << >>, at.to))
                               ELSE Item(t, at.value) >>,
                IF onPtr THEN 0 ELSE Needs(t), GenerateGetField(fields, onPtr, t, offset))
     /\ Plain

LoadWord ==
  LET to == Ith(1, 1).value.to
      t == Ith(1, 1).type.of[1]
  IN /\ Going("Load")
     /\ values # << >> /\ Ith(1, 1).type.kind = "ptr" /\ AliveAt(to)
     /\ Compile(1, << Item(t, ValueAt(to)) >>, Needs(t), GenerateWordLoad(t, offset))
     /\ Plain

StoreWord ==
  /\ Going("Store")
  /\ Len(values) >= 2 /\ Ith(2, 1).type = Ptr(Ith(2, 2).type) /\ AliveAt(Ith(2, 1).value.to)
  /\ Compile(2, << >>, 0, GenerateStore(Ith(2, 2).type))
  /\ vars' = Assigned(Ith(2, 1).value.to, Ith(2, 2).value)
  /\ UNCHANGED << literals, receivers >>

MakeStruct(t) ==
  LET n == Len(t.of)
  IN /\ Going("MakeStruct")
     /\ Takes(t.of)
     /\ Compile(n, << Item(t, Value(<< >>, [k \in 1..n |-> Ith(n, k).value], << >>)) >>,
                Needs(t), GenerateMakeStruct(t, offset))
     /\ Plain

MakeStructNamed(t) ==
  /\ Going("MakeStructNamed") /\ Size(t) # 0
  /\ Compile(0, << >>, Size(t), << >>)
  /\ literals' = Append(literals, [type |-> t, at |-> offset, inited |-> {},
                                   parts |-> [i \in DOMAIN t.of |-> Nothing]])
  /\ UNCHANGED << vars, receivers >>

FieldInit(i) ==
  LET literal == Last(literals)
      t == literal.type
  IN /\ Going("MakeStructNamed")
     /\ literals # << >> /\ i \in DOMAIN t.of \ literal.inited /\ Takes(<< t.of[i] >>)
     /\ Compile(1, << >>, 0, GenerateFieldInit(t.of[i], literal.at + FieldOffset(t, i)))
     /\ literals' = [literals EXCEPT ![Len(literals)] =
                       [@ EXCEPT !.inited = @ \cup {i}, !.parts[i] = Ith(1, 1).value]]
     /\ UNCHANGED << vars, receivers >>

EndOfLiteral ==
  LET literal == Last(literals)
  IN /\ Going("MakeStructNamed")
     /\ literals # << >> /\ literal.inited = DOMAIN literal.type.of
     /\ Compile(0, << Item(literal.type, Value(<< >>, literal.parts, << >>)) >>, 0,
                GenerateMakeStructNamed(literal.type, literal.at))
     /\ literals' = Front(literals)
     /\ UNCHANGED << vars, receivers >>

(* The literal of a struct without bytes whose body only takes what was on *)
(* the stack before.  Any other word of it would be missing.               *)
MakeEmptyNamed(t) ==
  LET n == Len(t.of)
  IN /\ Going("MakeStructNamed") /\ Size(t) = 0
     /\ Takes(t.of)
     /\ Compile(n, << Item(t, Value(<< >>, [k \in 1..n |-> Ith(n, k).value], << >>)) >>, 0,
                GenerateMakeStructNamed(t, offset))
     /\ Plain

MakeVariant(t, tag) ==
  LET payload == IF t.of[tag + 1] = Unit THEN << >> ELSE << t.of[tag + 1] >>
  IN /\ Going("MakeVariant")
     /\ Takes(payload)
     /\ Compile(Len(payload),
                << Item(t, Value(<< tag >>, [i \in DOMAIN t.of |->
                     IF i = tag + 1 /\ payload # << >> THEN Ith(1, 1).value ELSE Nothing], << >>)) >>,
                Needs(t), GenerateMakeVariant(t, tag, offset))
     /\ Plain

(* A match comes to one of its cases: the machine decides for itself       *)
(* whether to take it.  If not, the next case is tried.                    *)
Match(tag) ==
  LET subject == Ith(1, 1)
      byRef == subject.type.kind = "ptr"
      t == IF byRef THEN subject.type.of[1] ELSE subject.type
      v == IF byRef THEN ValueAt(subject.value.to) ELSE subject.value
      payload == t.of[tag + 1]
      left == CASE v.bytes # << tag >> -> << subject >>
                [] v.bytes = << tag >> /\ payload = Unit -> << >>
                [] v.bytes = << tag >> /\ payload # Unit /\ byRef ->
                     << Item(Ptr(payload), Value(<< >>, << >>, subject.value.to \o << tag + 1 >>)) >>
                [] OTHER -> << Item(payload, PartOf(v, tag + 1)) >>
      taken == Last(Run(m, GenerateMatch(t, byRef, tag)).stack) = Word32(1)
  IN /\ Going("Match")
     /\ values # << >>
     /\ byRef => AliveAt(subject.value.to)
     /\ t.kind = "variant" /\ v # Nothing /\ tag + 1 \in DOMAIN t.of
     /\ Compile(1, left, 0,
                GenerateMatch(t, byRef, tag) \o << I("drop", 0) >>
                  \o (IF taken THEN GenerateCase(t, byRef, tag) ELSE << >>))
     /\ Plain

(* A branch: the condition is taken away, and the words of the branch that *)
(* is not taken have their part of the copy space too.                     *)
If(other) ==
  /\ Going("If")
  /\ Takes(<< Bool >>)
  /\ Compile(1, << >>, other, << I("drop", 0) >>)
  /\ Plain

Cast(to) ==
  LET from == Ith(1, 1).type
      bytes == Ith(1, 1).value.bytes
  IN /\ Going("Cast")
     /\ values # << >> /\ from \in {I8, I32, I64} /\ from # to /\ bytes # << >>
     /\ Unless(from = I64 /\ to = I8)
     /\ Compile(1, << Item(to, Value(SubSeq(Pad(bytes, 8), 1, Size(to)), << >>, << >>)) >>, 0,
                GenerateCast(from, to))
     /\ Plain

(* Of two numbers of the same type another one comes, or a condition.      *)
Binary(result) ==
  LET t == Ith(2, 1).type
      to == IF result = Bool THEN Bool ELSE t
  IN /\ Going("Binary")
     /\ Len(values) >= 2 /\ t = Ith(2, 2).type /\ t \in {I32, I64}
     /\ Compile(2, << Item(to, Fresh(to, 0)) >>, 0,
                << I("binary", [width |-> Width(t), result |-> Fresh(to, 0).bytes]) >>)
     /\ Plain

Arithmetic == Binary(I32)
Comparison == Binary(Bool)

SumOfNeeds(types) == FoldLeft(LAMBDA n, t : n + Needs(t), 0, types)

(* A call, by the name of a function or of one that is on the stack.       *)
Call(s, indirect) ==
  LET takes == s.takes \o (IF indirect THEN << Fun >> ELSE << >>)
      results == [k \in DOMAIN s.returns |-> Fresh(s.returns[k], k)]
      base == [v \in DOMAIN frame |-> m.locals[Var(v)][1]]
      gives == [k \in DOMAIN results |->
                  IF CanLiveInReg(s.returns[k]) THEN InReg(base, s.returns[k], results[k])
                  ELSE Encode(base, s.returns[k], results[k])]
      needs == SumOfNeeds(s.returns)
  IN /\ Going("Call")
     /\ Takes(takes)
     /\ receivers' = IF needs # 0 THEN Max({receivers, Len(s.returns)}) ELSE receivers
     /\ receivers' <= measured.receivers
     /\ Compile(Len(takes), [k \in DOMAIN results |-> Item(s.returns[k], results[k])],
                needs, GenerateCall(takes, s.returns, gives, offset))
     /\ UNCHANGED << vars, literals >>

Return ==
  /\ ~returned /\ literals = << >>
  /\ measured = [space |-> offset, receivers |-> receivers]
  /\ returned' = TRUE
  /\ m' = Run(m, Epilogue)
  /\ UNCHANGED << function, measured, vars, values, literals, offset, receivers, count >>

Cases(t) == 0..(Len(t.of) - 1)

Next ==
  \/ Return
  \/ Number \/ FunRef \/ Drop \/ FlipItems \/ LoadWord \/ StoreWord \/ EndOfLiteral
  \/ Arithmetic \/ Comparison
  \/ \E t \in function.structs \cup function.variants : Uninit(t)
  \/ \E v \in DOMAIN frame :
       \/ InitLocal(v)
       \/ \E fields \in VarPaths(v) :
            \/ GetLocal(v, fields)
            \/ SetLocal(v, fields)
            \/ RefLocal(v, fields)
            \/ StoreLocal(v, fields)
  \/ \E fields \in IF values = << >> THEN {} ELSE Paths(Ith(1, 1).type, MaxFields) : GetField(fields)
  \/ \E t \in function.structs : MakeStruct(t) \/ MakeStructNamed(t) \/ MakeEmptyNamed(t)
  \/ \E t \in function.variants : \E tag \in Cases(t) : MakeVariant(t, tag)
  \/ \E i \in IF literals = << >> THEN {} ELSE DOMAIN Last(literals).parts : FieldInit(i)
  \/ \E tag \in UNION {Cases(t) : t \in function.variants} : Match(tag)
  \/ \E other \in function.others : If(other)
  \/ \E to \in function.casts : Cast(to)
  \/ \E s \in function.signatures, indirect \in BOOLEAN : Call(s, indirect)

Spec == Init /\ [][Next]_variables

---------------------------------------------------------------------------
(* Properties.                                                             *)

Agrees(bytes, want) ==
  /\ Len(bytes) = Len(want)
  /\ \A k \in DOMAIN want : want[k] \in {Stale, bytes[k]}

Bases == [v \in DOMAIN frame |-> IF InMemory(frame, v) THEN m.locals[Var(v)][1] ELSE 0]

(* Whether what the machine has for an item, a register or the address of  *)
(* a place in memory, is a value.                                          *)
Holds(register, t, v, inMem) ==
  IF inMem
  THEN /\ InBounds(<< register, Size(t) >>)
       /\ Agrees(Read(m.mem, register[1], Size(t)), Encode(Bases, t, v))
  ELSE Agrees(register, InReg(Bases, t, v))

(* The code of every word is valid: operands are there and have the types  *)
(* the instructions want, the locals it uses are declared, what the words  *)
(* need having been measured right, and addresses are numbers.             *)
CodeValid ==
  /\ m.valid
  /\ Len(m.stack) = Len(values)
  /\ returned => m.sp = EntrySp(frame)

(* Whatever words are written one after the other, every item on the stack *)
(* and every variable has the value the program gave it, also when it is a *)
(* copy or lies in memory that others write near, at the end of the copy   *)
(* space too.                                                              *)
ValuesFaithful ==
  /\ \A k \in DOMAIN values :
       Holds(m.stack[k], values[k].type, values[k].value, ~CanLiveInReg(values[k].type))
  /\ \A v \in DOMAIN frame :
       Holds(m.locals[Var(v)], frame[v].type, vars[v], InMemory(frame, v))
=============================================================================
