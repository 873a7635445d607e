--------------------------- MODULE GeneratedCode ----------------------------
(***************************************************************************)
(* The instructions generated for a word (bootstrap/codegen/words.py and   *)
(* common.py), for one function whose variables are the sequence frame: of *)
(* each its type, whether it is a "global", a "parameter" or a "local",    *)
(* and whether a reference to it is taken somewhere.                       *)
(*                                                                         *)
(* An access to a field is a record: the type it is a field of, which may  *)
(* be a pointer to a struct, the number of the field and its type.         *)
(***************************************************************************)
LOCAL INSTANCE Integers
LOCAL INSTANCE SequencesExt
LOCAL INSTANCE Layout
LOCAL INSTANCE Wasm WITH Top <- 0

Width(t) == IF IsI64(t) THEN 8 ELSE 4

(* The names of a function's locals in the machine.                        *)
Var(v) == << "var", v, 0 >>
Incoming(v) == << "v:", v, 0 >>
CopySpace == << "locl-copy-spac:e", 0, 0 >>
SavedStack == << "stac:k", 0, 0 >>
Returned(i, width) == << "s", i, width >>

Const(n) == I("const", Word32(n))
Flip(lower, upper) == I("flip", [lower |-> lower, upper |-> upper])
Shr(width, bytes) ==
  IF bytes = 0 THEN << >> ELSE << I("shift", [width |-> width, by |-> -bytes]) >>
Shl(width, bytes) ==
  IF bytes = 0 THEN << >> ELSE << I("shift", [width |-> width, by |-> bytes]) >>
Mask(width, keep) == I("mask", [width |-> width, keep |-> keep])
Load(width, bytes, offset) ==
  I("load", [width |-> width, bytes |-> bytes, offset |-> offset])
Store(width, bytes) == I("store", [width |-> width, bytes |-> bytes])
Dup(width) == I("dup", [width |-> width])

InCopySpace(offset) == << I("get", CopySpace), Const(offset), I("add", 0) >>

(* What comes of an assertion of the compiler that fails: no code.         *)
NoCode == I("none", 0)

GenerateFlip(lower, upper) == << Flip(Width(lower), Width(upper)) >>

GenerateStore(t) ==
  CASE Size(t) > 8 -> << Const(Size(t)), I("copy", 0) >>
    [] IsI64(t) -> << Store(8, 8) >>
    [] Size(t) = 1 -> << Store(4, 1) >>
    [] Size(t) = 0 -> << I("drop", 0), I("drop", 0) >>
    [] OTHER -> << Store(4, 4) >>

---------------------------------------------------------------------------
(* Accesses to fields.  A step towards a field is an offset to be added, a *)
(* load from an address with an offset, or a part to be cut out of a value *)
(* that is in a register.                                                  *)

ThroughPointer(f) == f.source.kind = "ptr"
StructOf(f) == IF ThroughPointer(f) THEN f.source.of[1] ELSE f.source
FieldsGoThroughPtr(fields) == \E k \in DOMAIN fields : ThroughPointer(fields[k])

Offsetting(n) == [kind |-> "Offset", type |-> I32, offset |-> n]
OffsetLoad(t, n) == [kind |-> "OffsetLoad", type |-> t, offset |-> n]
BitShift(kind, n) == [kind |-> kind, type |-> I32, offset |-> n]
FailedAssert == [kind |-> "FailedAssert", type |-> Unit, offset |-> 0]   (* and failed *)
Shifts == {"I32InI64", "I8InI32", "I16InI32", "I8InI64"}

MergeLoads(loads) ==
  IF Len(loads) <= 1 THEN loads
  ELSE LET first == loads[1]
           second == loads[2]
           both == first.offset + second.offset
           merged(l) == << l >> \o SubSeq(loads, 3, Len(loads))
       IN CASE first.kind = "OffsetLoad" /\ second.kind \in Shifts ->
                 merged(OffsetLoad(I32, both))
            [] first.kind = "Offset" /\ second.kind = "Offset" -> merged(Offsetting(both))
            [] first.kind = "Offset" /\ second.kind = "OffsetLoad" ->
                 merged(OffsetLoad(second.type, both))
            [] first.kind = "I16InI32" /\ second.kind = "I8InI32" ->
                 merged(BitShift("I8InI32", both))
            [] OTHER -> loads

RECURSIVE DetermineLoads(_, _, _)
DetermineLoads(fields, justRef, inMem) ==
  IF fields = << >> THEN << >>
  ELSE
  LET f == Head(fields)
      last == Len(fields) = 1
      offset == FieldOffset(StructOf(f), f.index)
      source == Size(f.source)
      target == Size(f.target)
      rest(mem) == DetermineLoads(Tail(fields), justRef, mem)
      then(l, mem) == MergeLoads(<< l >> \o rest(mem))
  IN IF ThroughPointer(f)
     THEN CASE inMem -> MergeLoads(<< OffsetLoad(f.source, 0) >>
                                     \o DetermineLoads(fields, justRef, FALSE))
            [] ~inMem /\ justRef /\ last ->
                 IF offset = 0 THEN << >> ELSE << Offsetting(offset) >>
            [] ~inMem /\ ~(justRef /\ last) /\ (target <= 8 \/ last) ->
                 then(OffsetLoad(f.target, offset), FALSE)
            [] OTHER -> then(Offsetting(offset), TRUE)
     ELSE IF inMem \/ source > 8
          THEN CASE last /\ ~justRef -> then(OffsetLoad(f.target, offset), TRUE)
                 [] offset = 0 /\ (justRef \/ ~last) -> rest(TRUE)
                 [] OTHER -> then(Offsetting(offset), TRUE)
          ELSE CASE target = 8 \/ (source = 4 /\ target = 4) -> rest(FALSE)
                 [] source > 4 /\ target = 1 -> then(BitShift("I8InI64", offset), FALSE)
                 [] source > 4 /\ target = 4 -> then(BitShift("I32InI64", offset), FALSE)
                 [] source <= 4 /\ source # 1 /\ target = 1 ->
                      then(BitShift("I8InI32", offset), FALSE)
                 [] source <= 4 /\ source # 2 /\ target = 2 ->
                      then(BitShift("I16InI32", offset), FALSE)
                 [] OTHER -> << FailedAssert >>

GenerateLoad(l) ==
  CASE l.kind = "I8InI32" -> Shr(4, l.offset) \o << Mask(4, {1}) >>
    [] l.kind = "I16InI32" -> Shr(4, l.offset) \o << Mask(4, {1, 2}) >>
    [] l.kind = "I32InI64" -> Shr(8, l.offset) \o << I("wrap", 0) >>
    [] l.kind = "I8InI64" -> Shr(8, l.offset) \o << I("wrap", 0), Mask(4, {1}) >>
    [] l.kind = "FailedAssert" -> << NoCode >>
    [] l.kind = "Offset" -> << Const(l.offset), I("add", 0) >>
    [] l.kind = "OffsetLoad" /\ CanLiveInReg(l.type) ->
         << CASE Size(l.type) = 1 -> Load(4, 1, l.offset)
              [] Size(l.type) \in {0} \cup 2..4 -> Load(4, 4, l.offset)
              [] OTHER -> Load(8, 8, l.offset) >>
    [] OTHER ->
         (IF l.offset = 0 THEN << >> ELSE << Const(l.offset), I("add", 0) >>)
           \o << Const(Size(l.type)), I("copy", 0) >>

Concat(S(_), list) == FoldLeft(LAMBDA code, x : code \o S(x), << >>, list)
GenerateLoads(loads) == Concat(GenerateLoad, loads)

---------------------------------------------------------------------------
(* Words that read and write variables.  The number at is where a word's   *)
(* place in the copy space begins.                                         *)

(* A load of the whole of a value that fits a register.                    *)
WholeLoad(t) == << Load(Width(t), Width(t), 0) >>

GenerateGetLocal(frame, v, fields, result, at) ==
  LET inMem == LocalLivesInMemory(frame[v])
      loads == DetermineLoads(fields, FALSE, inMem)
  IN (IF CanLiveInReg(result) THEN << >> ELSE InCopySpace(at) \o << Dup(4) >>)
     \o << I("get", Var(v)) >> \o GenerateLoads(loads)
     \o (CASE loads = << >> /\ ~CanLiveInReg(result) -> << Const(Size(result)), I("copy", 0) >>
           [] loads = << >> /\ CanLiveInReg(result) /\ inMem -> WholeLoad(result)
           [] OTHER -> << >>)

(* The part of a register that a field is to be put into, in bytes.        *)
Part(l) ==
  (l.offset + 1)..(l.offset + CASE l.kind = "I32InI64" -> 4 [] l.kind = "I16InI32" -> 2 [] OTHER -> 1)

GenerateSet(v, t, inMem, loads) ==
  LET whole == IF Last(loads).kind \in {"I32InI64", "I8InI64"} THEN 8 ELSE 4
      cut == SelectLastInSeq(loads, LAMBDA l : l.kind \notin Shifts)
  IN CASE FailedAssert \in Range(loads) -> << NoCode >>
       [] loads = << >> /\ ~inMem -> << I("set", Var(v)) >>
       [] loads # << >> /\ ~inMem /\ Last(loads).kind \in Shifts ->
            << I("get", Var(v)) >> \o GenerateLoads(SubSeq(loads, 1, cut - 1))
            \o << Mask(whole, (1..whole) \ Part(Last(loads))), Flip(4, 8), I("extend", 0) >>
            \o Shl(whole, Last(loads).offset)
            \o << I("or", [width |-> whole]), I("set", Var(v)) >>
       [] OTHER ->
            << I("get", Var(v)) >> \o GenerateLoads(loads)
            \o << Flip(Width(t), 4) >> \o GenerateStore(t)

GenerateSetLocal(frame, v, fields, t) ==
  LET inMem == LocalLivesInMemory(frame[v])
      targetInMem == inMem \/ FieldsGoThroughPtr(fields)
  IN GenerateSet(v, t, targetInMem, DetermineLoads(fields, targetInMem, inMem))

GenerateRefLocal(v, fields) ==
  << I("get", Var(v)) >> \o GenerateLoads(DetermineLoads(fields, TRUE, FALSE))

GenerateStoreLocal(v, fields, t) ==
  << I("get", Var(v)) >> \o GenerateLoads(DetermineLoads(fields, FALSE, FALSE))
    \o GenerateFlip(t, I32) \o GenerateStore(t)

GenerateGetField(fields, onPtr, t, at) ==
  LET loads == DetermineLoads(fields, onPtr, FALSE)
  IN (IF loads # << >> /\ ~onPtr /\ ~CanLiveInReg(t)
      THEN InCopySpace(at) \o << Dup(4), I("rotate", 0) >> ELSE << >>)
     \o GenerateLoads(loads)

GenerateWordLoad(t, at) ==
  CASE t.kind = "i8" -> << Load(4, 1, 0) >>
    [] t.kind # "i8" /\ CanLiveInReg(t) -> WholeLoad(t)
    [] OTHER -> InCopySpace(at) \o << Dup(4), I("rotate", 0), Const(Size(t)), I("copy", 0) >>

---------------------------------------------------------------------------
(* Words that make values.                                                 *)

GenerateUninit(t, at) ==
  CASE Size(t) <= 4 -> << Const(0) >>
    [] IsI64(t) -> << I("const", Zeros(8)) >>
    [] OTHER -> InCopySpace(at)

(* A field of a struct of at most eight bytes, put to those after it.      *)
InRegister(t, i) ==
  LET offset == FieldOffset(t, i)
      first == i = Len(t.of)       (* the last field comes first *)
      width == Width(t)
  IN (IF ~first /\ (offset # 0 \/ width = 8) THEN << Flip(4, width) >> ELSE << >>)
     \o (IF width = 8 THEN << I("extend", 0) >> ELSE << >>)
     \o Shl(width, offset)
     \o (IF first THEN << >> ELSE << I("or", [width |-> width]) >>)

IntoMemory(t, at) == InCopySpace(at) \o << Flip(Width(t), 4) >> \o GenerateStore(t)

GenerateMakeStruct(t, at) ==
  LET backwards == Reverse([i \in DOMAIN t.of |-> i])
  IN CASE Size(t) = 0 -> Concat(LAMBDA i : << I("drop", 0) >>, backwards) \o << Const(0) >>
       [] Size(t) \in 1..8 ->
            IF Len(t.of) = 1 THEN << >> ELSE Concat(LAMBDA i : InRegister(t, i), backwards)
       [] OTHER ->
            Concat(LAMBDA i : IntoMemory(t.of[i], at + FieldOffset(t, i)), backwards)
              \o InCopySpace(at)

(* The end of a struct literal whose fields have been initialised.  Of one *)
(* without bytes that is all: what its body says is not generated.         *)
GenerateMakeStructNamed(t, at) ==
  IF Size(t) = 0 THEN Concat(LAMBDA f : << I("drop", 0) >>, t.of) \o << Const(0) >>
  ELSE InCopySpace(at) \o (IF CanLiveInReg(t) THEN WholeLoad(t) ELSE << >>)
GenerateFieldInit(t, at) == IntoMemory(t, at)

GenerateMakeVariant(t, tag, at) ==
  LET payload == t.of[tag + 1]
      has == payload # Unit
  IN CASE Size(t) <= 4 -> (IF has THEN << I("drop", 0) >> ELSE << >>) \o << Const(tag) >>
       [] Size(t) \in 5..8 ->
            IF has THEN << I("extend", 0) >> \o Shl(8, 4)
                          \o << I("const", Pad(Word32(tag), 8)), I("or", [width |-> 8]) >>
            ELSE << I("const", Pad(Word32(tag), 8)) >>
       [] OTHER ->
            InCopySpace(at) \o << Const(tag), Store(4, 4) >>
              \o (IF has THEN IntoMemory(payload, at + 4) ELSE << >>)
              \o InCopySpace(at)

(* Whether a match takes a case, and what the case then begins with.       *)
GenerateMatch(t, byRef, tag) ==
  (CASE Size(t) > 8 \/ byRef -> << Dup(4), Load(4, 4, 0) >>
     [] ~byRef /\ Size(t) \in 5..8 -> << Dup(8), I("wrap", 0) >>
     [] OTHER -> << Dup(4) >>)
  \o << Const(tag), I("eq", 0) >>

GenerateCase(t, byRef, tag) ==
  LET payload == t.of[tag + 1]
      inMem == byRef \/ Size(t) > 8
  IN CASE payload = Unit -> << I("drop", 0) >>
       [] payload # Unit /\ Size(payload) = 0 ->
            IF inMem \/ Size(t) <= 4 THEN << >> ELSE << I("wrap", 0) >>
       [] Size(payload) # 0 /\ inMem ->
            << Const(4), I("add", 0) >>
              \o (IF ~byRef /\ CanLiveInReg(payload) THEN WholeLoad(payload) ELSE << >>)
       [] OTHER -> Shr(8, 4) \o << I("wrap", 0) >>

GenerateCast(from, to) ==
  LET s == Size(from)
      d == Size(to)
  IN CASE s = d -> << >>
       [] s <= 4 /\ d \in 5..8 -> << I("extend", 0) >>
       [] s \in 5..8 /\ d <= 4 -> << I("wrap", 0) >>
       [] s <= 4 /\ d = 1 /\ s # d -> << Mask(4, {1}) >>
       [] OTHER -> << >>

---------------------------------------------------------------------------
(* Calls.  What a function returns in memory is moved to the copy space,   *)
(* and the results are put back in the order they had.                     *)

(* A slip: the results are put back in the order they were taken away.     *)
ReceiversReversed(returns, at) ==
  LET backwards == Reverse([i \in DOMAIN returns |-> i])
  IN Concat(LAMBDA i : << I("set", Returned(i, Width(returns[i]))) >>, backwards)
       \o Concat(LAMBDA i : << I("get", Returned(i, Width(returns[i]))) >>, backwards)

GenerateReturnReceivers(returns, at) ==
  LET indices == [i \in DOMAIN returns |-> i]
      big(i) == ~CanLiveInReg(returns[i])
      place(i) == FoldLeft(LAMBDA n, k : IF big(k) THEN n + Size(returns[k]) ELSE n,
                           at, SubSeq(indices, 1, i - 1))
      receive(i) ==
        IF big(i)
        THEN InCopySpace(place(i))
               \o << Dup(4), I("get", Returned(i, 4)), Const(Size(returns[i])), I("copy", 0) >>
        ELSE << I("get", Returned(i, Width(returns[i]))) >>
  IN IF \A i \in DOMAIN returns : ~big(i) THEN << >>
     ELSE Concat(LAMBDA i : << I("set", Returned(i, Width(returns[i]))) >>, Reverse(indices))
            \o Concat(receive, indices)

GenerateCall(takes, returns, gives, at) ==
  << I("call", [takes |-> [i \in DOMAIN takes |-> Width(takes[i])], gives |-> gives]) >>
    \o GenerateReturnReceivers(returns, at)
=============================================================================
