----------------------------- MODULE Unstacking -----------------------------
(***************************************************************************)
(* How the compilers follow the stack of a function at compile time:       *)
(* bootstrap/unstacking/{stack,unstacker}.py and native/unstacking.  Every *)
(* word takes sources from a simulated stack and leaves sources on it, by  *)
(* which the types of the values are inferred later.  A branch, block or   *)
(* loop works on a child of the stack; when it needs more than it has      *)
(* pushed it demands a value of its parent, and what it demanded are its   *)
(* parameters.                                                             *)
(*                                                                         *)
(* The function is chosen while it is walked: every action is the next     *)
(* word, or the end of a branch, block or loop.  One execution of the      *)
(* function goes along with the walk, and what it has on its stack is what *)
(* the sources must stand for.  Of a loop it goes through one iteration.   *)
(*                                                                         *)
(* Types, names and paths of fields are left out, and so are words that    *)
(* nothing can reach.  Structs have two fields.                            *)
(***************************************************************************)
EXTENDS Integers, SequencesExt

CONSTANTS
  DivergingElse,    (* explicit else branches where a branch diverges      *)
  OnlyBalanced,     (* only ifs whose branches leave equally many values   *)
  EndlessLoops,     (* loops that no break leaves                          *)
  Calls,            (* what calls take and leave, as pairs of numbers      *)
  IndirectCalls,    (* what indirect calls take and leave                  *)
  Annotations,      (* the numbers of values that are annotated            *)
  MaxWords,         (* bound: words of the function                        *)
  MaxScopes,        (* bound: nesting of branches, blocks and loops        *)
  MaxHeight         (* bound: values on the stack                          *)

ASSUME UnstackingAssumption ==
  /\ {DivergingElse, OnlyBalanced, EndlessLoops} \subseteq BOOLEAN
  /\ Calls \cup IndirectCalls \subseteq Nat \X Nat /\ Annotations \subseteq Nat
  /\ {MaxWords, MaxScopes, MaxHeight} \subseteq Nat

VARIABLES
  chain,  (* the stack and its parents, outermost first                    *)
  open,   (* the function and what is open in it, outermost first          *)
  nodes,  (* unstacker.multi_return_nodes                                  *)
  kept,   (* the sources in unstacker.voids and in locals' assignments     *)
  words,  (* the words so far                                              *)
  here,   (* ghost: the execution is where the walk is                     *)
  stack,  (* ghost: its stack, the top last                                *)
  value   (* ghost: what a node's sources stand for in it, by their depth  *)

vars == <<chain, open, nodes, kept, words, here, stack, value>>

-----------------------------------------------------------------------------
(* Sources, and the values they stand for.                                 *)

Made(w, of) == [node |-> 0, depth |-> w, of |-> of]   (* by word w         *)
FromNode(n, d) == [node |-> n, depth |-> d]     (* d: how deep it lay      *)

FromNodes(n, len) == [i \in 1..len |-> FromNode(n, len - i)]

Result(n, i) == [result |-> n, number |-> i]    (* the i-th of a call      *)
Value(w, of) == [word |-> w, of |-> of]
Unknown == Result(-1, -1)

(* What a source is made of, which was made by other words.                *)
Within(s) ==
  LET parts[k \in Nat] ==
        IF k = 0 THEN {s}
        ELSE parts[k - 1] \cup UNION {ToSet(t.of) : t \in {u \in parts[k - 1] : u.node = 0}}
  IN parts[MaxWords]

(* Inference looks a node's results up by their depth, the top having 0.   *)
MeaningIn(v, s) ==
  LET means[t \in Within(s)] ==
        IF t.node = 0 THEN Value(t.depth, [i \in DOMAIN t.of |-> means[t.of[i]]])
        ELSE IF t.depth + 1 \in DOMAIN v[t.node] THEN v[t.node][t.depth + 1]
        ELSE Unknown
  IN means[s]
Meaning(s) == MeaningIn(value, s)
Meanings(sources) == [i \in DOMAIN sources |-> Meaning(sources[i])]

-----------------------------------------------------------------------------
(* The simulated stack.                                                    *)

Frame(n) == [positive |-> << >>, negative |-> << >>, node |-> n]

Parents(c) == SubSeq(c, 1, Len(c) - 1)
Flat(c) == FlattenSeq([j \in DOMAIN c |-> c[j].positive])
Size(c) == Len(Flat(c))

Push(c, sources) == [c EXCEPT ![Len(c)].positive = @ \o sources]

(* The stack that answers a demand.                                        *)
Supplier(c) == Max({j \in DOMAIN c : c[j].positive # << >>})

(* A slip: a demand is numbered after it is noted.                         *)
HandedOffByOne(c, j) ==
  IF j = Supplier(c) THEN Last(c[j].positive)
  ELSE FromNode(c[j].node, Len(c[j].negative) + 1)

(* What the j-th stack hands to its child, or to the word.                 *)
Handed(c, j) ==
  IF j = Supplier(c) THEN Last(c[j].positive)
  ELSE FromNode(c[j].node, Len(c[j].negative))

Popped(c) ==
  LET k == Supplier(c) IN
  [j \in DOMAIN c |->
     IF j < k THEN c[j]
     ELSE IF j = k THEN [c[j] EXCEPT !.positive = Front(@)]
     ELSE [c[j] EXCEPT !.negative = Append(@, Handed(c, j - 1))]]

(* pop-n stops where there is nothing left.                                *)
PopN(c, n) ==
  LET after[k \in Nat] ==
        IF k = 0 THEN [chain |-> c, sources |-> << >>]
        ELSE LET a == after[k - 1] IN
             IF Size(a.chain) = 0 THEN a
             ELSE [chain |-> Popped(a.chain),
                   sources |-> <<Handed(a.chain, Len(c))>> \o a.sources]
  IN after[n]

(* One value of the parent goes through the child untouched.               *)
PassThrough(c) ==
  LET s == Handed(Parents(c), Len(c) - 1)
      top == Last(c)
  IN Append(Popped(Parents(c)),
            [top EXCEPT !.negative = Append(@, s), !.positive = <<s>> \o @])

EnsureNegatives(c, n) ==
  LET after[k \in Nat] ==
        IF k = 0 THEN c
        ELSE LET a == after[k - 1] IN
             IF Len(Last(a).negative) >= n \/ Size(Parents(a)) = 0 THEN a
             ELSE PassThrough(a)
  IN after[n]

Parameters(c) == Len(Last(c).negative)
Returns(c) == Len(Last(c).positive)
Largest(S) == Max(S \cup {0})

-----------------------------------------------------------------------------
(* What is open.                                                           *)

None == -1

Scope(kind, n, c) ==
  [kind       |-> kind,
   node       |-> n,       (* its entry                                    *)
   before     |-> c,       (* the stack it was cloned from                 *)
   start      |-> words,
   reachable  |-> TRUE,    (* unstacker.reachable                          *)
   over       |-> FALSE,   (* its remaining words were taken by an if      *)
   done       |-> << >>,   (* the branches before this one                 *)
   breaks     |-> << >>,   (* unstacker.break_stacks                       *)
   annotation |-> None,    (* unstacker.block_returns, or none             *)
   slots      |-> << >>,   (* unstacker.struct_field_init_arguments        *)
   branch     |-> 0,       (* ghost: the branch the execution takes        *)
   way        |-> 0,       (* ghost: the way it came to the end            *)
   arrived    |-> << >>]   (* ghost: its stack there                       *)

Top == Last(open)
Kind(k) == Top.kind = k
Walking == Top.reachable /\ ~Top.over /\ words < MaxWords

Init ==
  /\ words = 0 /\ nodes = << >> /\ value = << >> /\ kept = {}
  /\ chain = << Frame(0) >>
  /\ open = << Scope("body", 0, << >>) >>
  /\ here = TRUE /\ stack = << >>

-----------------------------------------------------------------------------
(* Words that only take and leave.                                         *)

NextNode == Len(nodes) + 1
Node(kind, arguments) ==
  [kind |-> kind, arguments |-> arguments, next |-> << >>, again |-> << >>,
   subject |-> << >>,  (* the condition or scrutinee                       *)
   ends |-> {}]        (* of an exit: what its branches or breaks leave    *)

Keep(n) == SubSeq(stack, 1, Len(stack) - n)
Upper(n) == SubSeq(stack, Len(stack) - n + 1, Len(stack))

(* The next word takes n values and leaves some.                           *)
Word(n, left, values) ==
  /\ Walking /\ Size(chain) >= n /\ Size(chain) - n + Len(left) <= MaxHeight
  /\ words' = words + 1
  /\ chain' = Push(PopN(chain, n).chain, left)
  /\ stack' = IF here THEN Keep(n) \o values ELSE stack
  /\ UNCHANGED here

(* A word that makes one value of those it takes.                          *)
Make(n) ==
  /\ Word(n, << Made(words + 1, PopN(chain, n).sources) >>,
             << Value(words + 1, Upper(n)) >>)
  /\ UNCHANGED <<open, nodes, kept, value>>

(* A word whose operand inference starts from.                             *)
Consume ==
  /\ Word(1, << >>, << >>)
  /\ kept' = kept \cup ToSet(PopN(chain, 1).sources)
  /\ UNCHANGED <<open, nodes, value>>

Number == Make(0)       (* sizeof too *)
GetLocal == Make(0)
RefLocal == Make(0)
FunRef == Make(0)
MakeVariant(has) == Make(IF has THEN 1 ELSE 0)
Cast == Make(1)
Load == Make(1)
GetField == Make(1)
MakeStruct == Make(2)
InitLocal == Consume
SetLocal == Consume
StoreLocal == Consume
MatchVoid == ~here /\ Consume    (* of a variant without cases *)

(* A string is its address and, on top of it, its length.                  *)
String ==
  /\ Word(0, << Made(words + 1, << >>), Made(-(words + 1), << >>) >>,
             << Value(words + 1, << >>), Value(-(words + 1), << >>) >>)
  /\ UNCHANGED <<open, nodes, kept, value>>

(* The results of a node, which the execution gets as values.              *)
Called(kind, p, pushed, values) ==
  LET arguments == PopN(chain, p).sources IN
  /\ Word(p, pushed, values)
  /\ nodes' = Append(nodes, Node(kind, arguments))
  /\ value' = Append(value, IF here THEN Reverse(values) ELSE << >>)
  /\ kept' = IF pushed = << >> THEN kept \cup ToSet(arguments) ELSE kept
  /\ UNCHANGED open

Results(r) == [i \in 1..r |-> Result(NextNode, i)]

(* Calls of functions, and of intrinsics.                                  *)
Call(p, r) == Called("call", p, FromNodes(NextNode, r), Results(r))

(* The results of an indirect call are pushed the other way round.  The    *)
(* function itself is one of the p values.                                 *)
IndirectCall(p, r) ==
  Called("call", p, [i \in 1..r |-> FromNode(NextNode, i - 1)], Results(r))

StackAnnotation(n) == Called("annotation", n, FromNodes(NextNode, n), Upper(n))

(* A struct literal's fields are set in any order, on the stack around it. *)
Unset == FromNode(-1, -1)

MakeStructNamed ==
  /\ Walking /\ Len(open) < MaxScopes
  /\ words' = words + 1
  /\ open' = Append(open, [Scope("literal", words', << >>) EXCEPT
                             !.slots = [f \in 1..2 |-> Unset],
                             !.arrived = [f \in 1..2 |-> Unknown]])
  /\ UNCHANGED <<chain, nodes, kept, here, stack, value>>

(* The remaining words an if has taken may still be those of a literal.    *)
Literals == {k \in DOMAIN open : open[k].kind = "literal"
               /\ \A j \in (k + 1)..Len(open) : open[j].kind = "rest"}

FieldInit(f) ==
  \E k \in Literals :
    /\ open[k].slots[f] = Unset
    /\ Word(1, << >>, << >>)
    /\ open' = [open EXCEPT ![k].slots[f] = PopN(chain, 1).sources[1],
                            ![k].arrived[f] = IF here THEN Last(stack) ELSE @]
    /\ UNCHANGED <<nodes, kept, value>>

LeaveLiteral ==
  /\ Kind("literal") /\ Unset \notin ToSet(Top.slots)
  /\ Size(chain) < MaxHeight
  /\ chain' = Push(chain, << Made(Top.node, Top.slots) >>)
  /\ stack' = IF here THEN Append(stack, Value(Top.node, Top.arrived)) ELSE stack
  /\ open' = Parents(open)
  /\ UNCHANGED <<nodes, kept, words, here, value>>

-----------------------------------------------------------------------------
(* The parts every construct with branches is made of.                     *)

(* A branch is walked on a clone of the stack.                             *)
Branch(payload) ==
  Push(Append(Top.before, Frame(Top.node)), payload)

(* The execution enters with the values its entry saw.                     *)
EntryStack(n) == Reverse(value[n])

Subject == PopN(chain, 1).sources[1]

(* if and match take the condition or the scrutinee; the payload of a case *)
(* lies on top.                                                            *)
Fork(kind, payload) ==
  LET c == Popped(chain) IN
  /\ Walking /\ Size(chain) > 0 /\ Len(open) < MaxScopes
  /\ Size(c) + Len(payload) <= MaxHeight
  /\ words' = words + 1
  /\ nodes' = Append(nodes, [Node(kind, << >>) EXCEPT !.subject = <<Subject>>])
  /\ chain' = Push(Append(c, Frame(NextNode)), payload)
  /\ \E b \in IF here THEN {1, 2} ELSE {0} :
       /\ open' = Append(open, [Scope(kind, NextNode, c) EXCEPT !.branch = b])
       /\ here' = (b = 1)
  /\ value' = Append(value, IF here THEN Reverse(Front(stack)) ELSE << >>)
  /\ stack' = IF here' THEN Front(stack) \o [i \in DOMAIN payload |-> Value(words', Upper(1))]
              ELSE << >>
  /\ UNCHANGED kept

This == [chain |-> chain, reachable |-> Top.reachable]

(* One branch ends and another begins.                                     *)
NextBranch(kind, c, payload) ==
  /\ open' = [open EXCEPT ![Len(open)] =
       [Top EXCEPT !.kind = kind, !.start = words, !.reachable = TRUE, !.over = FALSE,
                   !.done = Append(@, This),
                   !.way = IF here THEN 1 ELSE @,
                   !.arrived = IF here THEN stack ELSE @]]
  /\ chain' = c
  /\ here' = (Top.branch = 2)
  /\ stack' = IF here' THEN EntryStack(Top.node) \o payload ELSE << >>
  /\ UNCHANGED <<nodes, kept, value>>

(* What the execution has at the end of a construct, and the way it came:  *)
(* the last one, if it is there now.                                       *)
Present == here \/ Top.way # 0
Way(last) == IF here THEN last ELSE Top.way
Arrived == IF here THEN stack ELSE Top.arrived

(* The construct's entry gets its arguments, and a node for its exit       *)
(* stands for what the way taken left.                                     *)
Leave(base, arguments, r, ends, way, reachable, over, after) ==
  /\ nodes' = Append([nodes EXCEPT ![Top.node].arguments = arguments],
                     [Node("exit", << >>) EXCEPT !.ends = ToSet(ends),
                                                 !.subject = nodes[Top.node].subject])
  /\ chain' = Push(base, FromNodes(NextNode, r))
  /\ open' = [Parents(open) EXCEPT ![Len(open) - 1] =
                [@ EXCEPT !.reachable = reachable, !.over = over]]
  /\ here' = Present
  /\ stack' = IF Present THEN after ELSE << >>
  /\ value' = Append(value, IF Present /\ r > 0
                            THEN Reverse(Meanings(ends[way])) ELSE << >>)
  /\ UNCHANGED words

Enclosing == open[Len(open) - 1]

(* Inference starts from the condition or scrutinee, or from a parameter,  *)
(* when nothing else leads to it.                                          *)
Void(unused) == kept' = IF unused THEN kept \cup ToSet(nodes[Top.node].subject) ELSE kept
VoidParameters(p, unused) ==
  kept' = IF unused
          THEN kept \cup ToSet(nodes[Top.node].subject \o FromNodes(Top.node, p))
          ELSE kept

-----------------------------------------------------------------------------
(* if.                                                                     *)

If == Fork("true", << >>)

Else ==
  /\ Kind("true") /\ (Top.reachable \/ DivergingElse)
  /\ NextBranch("else", Branch(<< >>), << >>)
  /\ UNCHANGED words

(* Without an else, behind a true branch that diverges, the remaining      *)
(* words of the enclosing scope become the false branch.                   *)
TakeRest ==
  /\ Kind("true") /\ ~Top.reachable
  /\ NextBranch("rest", EnsureNegatives(Branch(<< >>), Parameters(chain)), << >>)
  /\ UNCHANGED words

(* What inference compares of the branches, and what the language asks.    *)
SameReturns(a, b, r) ==
  Len(PopN(a, r).sources) = r /\ Len(PopN(b, r).sources) = r
Balanced(S) == \A a, b \in S : a.reachable /\ b.reachable => Size(a.chain) = Size(b.chain)

LeaveElse ==
  LET true == Top.done[1].chain
      p == Largest({Parameters(true), Parameters(chain)})
      r == Largest({Returns(true), Returns(chain)})
      entry == PopN(Top.before, p)
  IN
  /\ Kind("else")
  /\ DivergingElse \/ (Top.done[1].reachable /\ Top.reachable)
  /\ Top.done[1].reachable \/ words > Top.start
  /\ SameReturns(true, chain, r)
  /\ OnlyBalanced => Balanced({Top.done[1], This})
  /\ Leave(entry.chain, entry.sources, r, <<PopN(true, r).sources, PopN(chain, r).sources>>,
           Way(2), Enclosing.reachable, FALSE, Arrived)
  /\ Void(p = 0 /\ r = 0)

LeaveRest ==
  LET p == Largest({Parameters(Top.done[1].chain), Parameters(chain)})
      rest == EnsureNegatives(chain, p)
      r == IF Top.reachable THEN Returns(rest) ELSE 0
      entry == PopN(Top.before, p)
  IN
  /\ Kind("rest")
  /\ Leave(entry.chain, entry.sources, r, <<Last(rest).positive>>, 1,
           Top.reachable, TRUE, Arrived)
  /\ VoidParameters(p, r = 0)

-----------------------------------------------------------------------------
(* match, with two cases, the last of which may be the default.            *)

(* The payload is made of the scrutinee, in the default it is the scrutinee. *)
Payload(has, w, scrutinee) == IF has THEN << Made(w, scrutinee) >> ELSE << >>

Match(has) == Fork("case", Payload(has, words + 1, PopN(chain, 1).sources))

NextCase(has) ==
  LET scrutinee == nodes[Top.node].subject IN
  /\ Kind("case") /\ words < MaxWords
  /\ Size(Top.before) < MaxHeight
  /\ words' = words + 1
  /\ NextBranch("last", Branch(Payload(has, words + 1, scrutinee)),
                IF has THEN << Value(words + 1, Meanings(scrutinee)) >> ELSE << >>)

(* A slip: one case that diverges is enough.                               *)
LiveTogether(cases) ==
  IF \A i \in DOMAIN cases : cases[i].reachable THEN DOMAIN cases ELSE {}

Live(cases) == {i \in DOMAIN cases : cases[i].reachable}

(* Every case gets as many parameters as the one that takes most; what it  *)
(* does not take goes through it.                                          *)
LeaveMatch ==
  LET cases == Append(Top.done, This)
      p == Largest({Parameters(cases[i].chain) : i \in 1..2})
      padded == [i \in 1..2 |-> EnsureNegatives(cases[i].chain, p)]
      live == Live(cases)
      r == Largest({Returns(padded[i]) : i \in live})
      entry == PopN(Top.before, p)
  IN
  /\ Kind("last")
  /\ Balanced(ToSet(cases))
  /\ Leave(entry.chain, entry.sources, r,
           [i \in 1..2 |-> IF i \in live THEN PopN(padded[i], r).sources ELSE << >>],
           Way(2), live # {} /\ Enclosing.reachable, FALSE, Arrived)
  /\ Void(p = 0 /\ r = 0)

-----------------------------------------------------------------------------
(* block, loop and break.                                                  *)

(* A block works on the stack itself, not on a clone.                      *)
Start(kind, annotation) ==
  /\ Walking /\ Len(open) < MaxScopes
  /\ words' = words + 1
  /\ nodes' = Append(nodes, Node(kind, << >>))
  /\ chain' = Append(chain, Frame(NextNode))
  /\ open' = Append(open, [Scope(kind, NextNode, chain) EXCEPT !.annotation = annotation])
  /\ value' = Append(value, Reverse(stack))
  /\ UNCHANGED <<kept, here, stack>>

Block(annotation) == Start("block", annotation)
Loop(annotation) == Start("loop", annotation)

(* A slip: what an annotated break leaves behind is forgotten.             *)
NothingLeftBehind(left) == kept

LeftBehind(left) == kept \cup ToSet(left)

(* What leaves a block or loop is one of its breaks.                       *)
Left(scope, sources) ==
  [scope EXCEPT
     !.breaks = Append(@, [sources |-> sources, reachable |-> Top.reachable]),
     !.way = IF here THEN Len(scope.breaks) + 1 ELSE @,
     !.arrived = IF here THEN stack ELSE @]

(* A break takes the whole stack with it, or what the annotation asks for. *)
Break ==
  LET targets == {k \in DOMAIN open : open[k].kind \in {"block", "loop"}}
      b == Max(targets)
      n == IF open[b].annotation = None THEN Size(chain) ELSE open[b].annotation
      dump == PopN(chain, n)
  IN
  /\ Walking /\ targets # {} /\ Size(chain) >= n
  /\ words' = words + 1
  /\ chain' = dump.chain
  /\ kept' = LeftBehind(Flat(dump.chain))
  /\ open' = [open EXCEPT ![b] = Left(@, dump.sources), ![Len(open)].reachable = FALSE]
  /\ here' = FALSE /\ stack' = << >>
  /\ UNCHANGED <<nodes, value>>

(* An annotated block or loop leaves what it was annotated with in the     *)
(* place of what it took.                                                  *)
LeftOf(stackThere, r, arguments) ==
  LET entry == EntryStack(Top.node) IN
  IF Top.annotation = None THEN stackThere
  ELSE SubSeq(entry, 1, Len(entry) - Len(arguments))
         \o SubSeq(stackThere, Len(stackThere) - r + 1, Len(stackThere))

(* The end of a block is one more break, which takes only what the block   *)
(* has pushed.                                                             *)
BlockEnds ==
  IF Top.reachable
  THEN Append(Top.breaks, [sources |-> Last(chain).positive, reachable |-> TRUE])
  ELSE Top.breaks

Sources(ends) == [i \in DOMAIN ends |-> ends[i].sources]
Returned(ends) == Largest({Len(ends[i].sources) : i \in DOMAIN ends})

(* A slip: the last one demanded last.                                     *)
BlockArgumentsAsDemanded(frame) == frame.negative

BlockArguments(frame) == Reverse(frame.negative)

LeaveBlock ==
  LET ends == BlockEnds
      r == IF Top.annotation = None THEN Returned(ends) ELSE Top.annotation
      left == Top.annotation # None \/ \E i \in DOMAIN ends : ends[i].reachable
      arguments == BlockArguments(Last(chain))
  IN
  /\ Kind("block")
  /\ \A i \in DOMAIN ends : Len(ends[i].sources) = r
  /\ Leave(Parents(chain), arguments, r, Sources(ends), Way(Len(ends)),
           left /\ Enclosing.reachable, FALSE, LeftOf(Arrived, r, arguments))
  /\ UNCHANGED kept

(* The arguments of a loop are kept in the order they were demanded in.  An *)
(* execution that comes to its end goes on in another iteration.           *)
LeaveLoop ==
  LET r == Returned(Top.breaks)
      arguments == Last(chain).negative
      unused == Top.breaks = << >> \/ r = 0
  IN
  /\ Kind("loop")
  /\ Top.breaks = << >> => EndlessLoops
  /\ Top.reachable => Returns(chain) = Parameters(chain)
  /\ \A i \in DOMAIN Top.breaks : Len(Top.breaks[i].sources) = r
  /\ nodes' = Append([nodes EXCEPT ![Top.node] =
                        [@ EXCEPT !.arguments = arguments,
                                  !.next = Last(chain).positive,
                                  !.again = Reverse(stack)]],
                     [Node("exit", << >>) EXCEPT !.ends = ToSet(Sources(Top.breaks))])
  /\ chain' = Push(Parents(chain), FromNodes(NextNode, r))
  /\ open' = [Parents(open) EXCEPT ![Len(open) - 1].reachable = @ /\ Top.breaks # << >>]
  /\ here' = (Top.way # 0)
  /\ stack' = IF here' THEN LeftOf(Top.arrived, r, arguments) ELSE << >>
  /\ value' = Append(value, IF here' /\ r > 0
                            THEN Reverse(Meanings(Top.breaks[Top.way].sources)) ELSE << >>)
  /\ VoidParameters(Len(arguments), unused)
  /\ UNCHANGED words

Next ==
  \/ Number \/ String \/ GetLocal \/ RefLocal \/ FunRef
  \/ InitLocal \/ SetLocal \/ StoreLocal \/ Cast \/ Load \/ GetField \/ MatchVoid
  \/ MakeStruct \/ MakeStructNamed \/ LeaveLiteral
  \/ \E f \in 1..2 : FieldInit(f)
  \/ \E c \in Calls : Call(c[1], c[2])
  \/ \E c \in IndirectCalls : IndirectCall(c[1], c[2])
  \/ \E n \in Annotations : StackAnnotation(n)
  \/ If \/ Else \/ TakeRest \/ LeaveElse \/ LeaveRest
  \/ \E has \in BOOLEAN : MakeVariant(has) \/ Match(has) \/ NextCase(has)
  \/ LeaveMatch
  \/ \E annotation \in {None} \cup Annotations : Block(annotation) \/ Loop(annotation)
  \/ Break \/ LeaveBlock \/ LeaveLoop

Spec == Init /\ [][Next]_vars

-----------------------------------------------------------------------------
(* What must hold.                                                         *)

TypeOK ==
  /\ Len(open) \in 1..MaxScopes /\ words \in 0..MaxWords
  /\ Len(nodes) = Len(value)
  /\ \A k \in DOMAIN open : open[k].kind # "literal" => open[k].node \in 0..Len(nodes)
  /\ \A j \in DOMAIN chain : \A s \in ToSet(chain[j].positive \o chain[j].negative) :
       s.node \in 0..Len(nodes)
  /\ here => Len(stack) <= MaxHeight
  /\ ~here => stack = << >>

(* Wherever the execution is, each source on the simulated stack stands    *)
(* for the value that lies in its place on the real one, however branches, *)
(* blocks and loops nest and whatever they take from the stacks around     *)
(* them (stack.py:43-71).                                                  *)
StackFaithful == here => Meanings(Flat(chain)) = stack

(* The arguments of a branch, block or loop are the values it was entered  *)
(* with, the i-th of them where inference looks for a source i deep, and   *)
(* those of a loop's next iteration lie where those of the first did.      *)
EntriesFaithful ==
  \A n \in DOMAIN nodes :
    LET node == nodes[n]
        byDepth == IF node.kind = "loop" THEN node.arguments ELSE Reverse(node.arguments)
        again == Reverse(node.next)
    IN node.kind \notin {"call", "annotation", "exit"} =>
         /\ \A d \in DOMAIN byDepth \cap DOMAIN value[n] : Meaning(byDepth[d]) = value[n][d]
         /\ \A d \in DOMAIN node.again :
              node.again[d] = IF d \in DOMAIN again THEN Meaning(again[d]) ELSE value[n][d]

(* Code the execution reaches is not taken for unreachable: inference and  *)
(* code generation leave the results of such code out.                     *)
ReachedIsReachable == here => Top.reachable

(* The sources whose types inference needs for that of s.                  *)
Needed(s) ==
  IF s.node = 0 THEN ToSet(s.of)
  ELSE LET node == nodes[s.node]
           at(sources) == {sources[i] : i \in {Len(sources) - s.depth} \cap DOMAIN sources}
       IN CASE node.kind = "call" -> ToSet(node.arguments)
            [] node.kind = "loop" -> at(Reverse(node.arguments)) \cup at(node.next)
            [] node.kind = "exit" -> UNION {at(e) : e \in node.ends} \cup ToSet(node.subject)
            [] OTHER -> at(node.arguments) \cup ToSet(node.subject)

Inferred(roots) ==
  LET from[k \in 0..(3 * MaxWords)] ==
        IF k = 0 THEN roots
        ELSE LET S == from[k - 1] IN S \cup UNION {Needed(s) : s \in S}
      all == from[3 * MaxWords]
  IN \A n \in DOMAIN nodes : nodes[n].arguments # << >> => \E s \in all : s.node = n

Ended == Len(open) = 1 /\ Top.reachable
Roots == kept \cup ToSet(Flat(chain))

(* Whatever words leave on the stack gets its type: when the function ends, *)
(* inference comes from the voids, the assignments and what the function   *)
(* returns to every node with arguments.  The assertion that no hole is    *)
(* left says so (inference.py:1344).                                       *)
EverythingInferred == Ended => Inferred(Roots)

(* It does, but for what only goes round in a loop.                        *)
InferredButForLoops ==
  Ended => Inferred(Roots \cup {FromNode(n, d) : d \in 0..MaxHeight,
                                n \in {m \in DOMAIN nodes : nodes[m].kind = "loop"}})
=============================================================================
