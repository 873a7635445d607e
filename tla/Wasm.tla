-------------------------------- MODULE Wasm --------------------------------
(***************************************************************************)
(* The part of a WebAssembly machine that the generated code needs         *)
(* (external).  An i32 is a sequence of four bytes, an i64 of eight, the   *)
(* lowest first.  A byte below 256 is itself; greater ones stand for bytes *)
(* of which nothing is known but where they came from, and -1 for one that *)
(* is left over from what was there before.  The functions $intrinsic:...  *)
(* that code generation adds are single instructions here.                 *)
(*                                                                         *)
(* A machine is valid as long as locals are declared, operands have the    *)
(* types that instructions want, and addresses are numbers below Top.      *)
(***************************************************************************)
EXTENDS Integers, SequencesExt

CONSTANT Top

Stale == -1
Zeros(n) == [k \in 1..n |-> 0]
Word32(n) == << n >> \o Zeros(3)
IsNumber(v) == v[1] \in 0..255 /\ Tail(v) = Zeros(Len(v) - 1)
Pad(bytes, width) == bytes \o Zeros(width - Len(bytes))

Or(a, b) ==
  [k \in DOMAIN a |-> IF a[k] = 0 THEN b[k] ELSE IF b[k] = 0 THEN a[k] ELSE Stale]
Shifted(v, n) ==  (* by n bytes to the left, to the right if n is negative *)
  [k \in DOMAIN v |-> IF k - n \in DOMAIN v THEN v[k - n] ELSE 0]
Masked(v, keep) == [k \in DOMAIN v |-> IF k \in keep THEN v[k] ELSE 0]

Read(mem, a, n) == [k \in 1..n |-> mem[a + k - 1]]
Write(mem, a, bytes) ==
  [b \in DOMAIN mem |-> IF b \in a..(a + Len(bytes) - 1) THEN bytes[b - a + 1] ELSE mem[b]]

(* An instruction and what is written after it.                            *)
I(op, n) == [op |-> op, n |-> n]

(* What an instruction takes from the stack, as widths in bytes.           *)
Operands(m, i) ==
  CASE i.op \in {"const", "get", "sp.get"} -> << >>
    [] i.op = "drop" -> << Len(Last(m.stack)) >>
    [] i.op = "set" -> << Len(m.locals[i.n]) >>
    [] i.op \in {"dup", "shift", "mask"} -> << i.n.width >>
    [] i.op \in {"sp.set", "align", "load", "extend"} -> << 4 >>
    [] i.op = "wrap" -> << 8 >>
    [] i.op \in {"add", "eq"} -> << 4, 4 >>
    [] i.op \in {"or", "binary"} -> << i.n.width, i.n.width >>
    [] i.op = "flip" -> << i.n.lower, i.n.upper >>
    [] i.op \in {"rotate", "copy"} -> << 4, 4, 4 >>
    [] i.op = "store" -> << 4, i.n.width >>
    [] i.op = "call" -> i.n.takes

Typed(m, i) ==
  /\ i.op # "none"
  /\ i.op \in {"get", "set"} => i.n \in DOMAIN m.locals
  /\ i.op = "drop" => m.stack # << >>
  /\ LET want == Operands(m, i)
         n == Len(want)
     IN /\ Len(m.stack) >= n
        /\ \A k \in 1..n : Len(m.stack[Len(m.stack) - n + k]) = want[k]

(* The places in memory an instruction uses: an address and how far.       *)
Accesses(i, args) ==
  CASE i.op = "load" -> { << args[1], i.n.offset + i.n.bytes >> }
    [] i.op = "store" -> { << args[1], i.n.bytes >> }
    [] i.op = "copy" -> { << args[1], args[3][1] >>, << args[2], args[3][1] >> }
    [] i.op \in {"add", "eq"} -> { << args[1], 0 >>, << args[2], 0 >> }
    [] OTHER -> {}

InBounds(access) == IsNumber(access[1]) /\ access[1][1] + access[2] <= Top

(* Results above the stack pointer, where a function that was called left  *)
(* them: each where the ones before it end.                                *)
LeftAt(sp, results, k) ==
  FoldLeft(LAMBDA a, r : a + Len(r), sp, SubSeq(results, 1, k - 1))

Pushed(m, i, args) ==
  CASE i.op = "const" -> << i.n >>
    [] i.op = "get" -> << m.locals[i.n] >>
    [] i.op = "sp.get" -> << Word32(m.sp) >>
    [] i.op = "dup" -> args \o args
    [] i.op = "flip" -> << args[2], args[1] >>
    [] i.op = "rotate" -> << args[2], args[3], args[1] >>
    [] i.op = "shift" -> << Shifted(args[1], i.n.by) >>
    [] i.op = "mask" -> << Masked(args[1], i.n.keep) >>
    [] i.op = "or" -> << Or(args[1], args[2]) >>
    [] i.op = "extend" -> << Pad(args[1], 8) >>
    [] i.op = "wrap" -> << SubSeq(args[1], 1, 4) >>
    [] i.op = "add" -> << Word32(args[1][1] + args[2][1]) >>
    [] i.op = "align" -> << Word32(((args[1][1] + i.n - 1) \div i.n) * i.n) >>
    [] i.op = "eq" -> << Word32(IF args[1] = args[2] THEN 1 ELSE 0) >>
    [] i.op = "binary" -> << i.n.result >>
    [] i.op = "load" ->
         << Pad(Read(m.mem, args[1][1] + i.n.offset, i.n.bytes), i.n.width) >>
    [] i.op = "call" ->
         [k \in DOMAIN i.n.gives |->
            IF Len(i.n.gives[k]) > 8 THEN Word32(LeftAt(m.sp, i.n.gives, k)) ELSE i.n.gives[k]]
    [] OTHER -> << >>

(* What a call leaves in memory above the stack pointer.                   *)
Clobbered(m, results) ==
  FoldLeft(LAMBDA mem, k : Write(mem, LeftAt(m.sp, results, k), results[k]),
           [a \in DOMAIN m.mem |-> IF a >= m.sp THEN Stale ELSE m.mem[a]],
           [k \in DOMAIN results |-> k])

Step(m, i) ==
  LET n == Len(Operands(m, i))
      args == SubSeq(m.stack, Len(m.stack) - n + 1, Len(m.stack))
  IN IF ~m.valid \/ ~Typed(m, i) \/ \E a \in Accesses(i, args) : ~InBounds(a)
     THEN [m EXCEPT !.valid = FALSE]
     ELSE [m EXCEPT
            !.stack = SubSeq(@, 1, Len(@) - n) \o Pushed(m, i, args),
            !.locals = IF i.op = "set" THEN [@ EXCEPT ![i.n] = args[1]] ELSE @,
            !.sp = IF i.op = "sp.set" THEN args[1][1] ELSE @,
            !.mem = CASE i.op = "store" ->
                           Write(@, args[1][1], SubSeq(args[2], 1, i.n.bytes))
                      [] i.op = "copy" ->
                           Write(@, args[1][1], Read(@, args[2][1], args[3][1]))
                      [] i.op = "call" -> Clobbered(m, i.n.gives)
                      [] OTHER -> @]

Run(m, code) == FoldLeft(Step, m, code)
=============================================================================
