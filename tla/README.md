# Watim in TLA+

Watim is a small stack language that compiles to WebAssembly text. This
repository holds two compilers for it: the *bootstrap* compiler in Python
(`bootstrap/`) and the *native* compiler, written in Watim itself (`native/`)
over a standard library (`std/`). `test.py` runs the test programs of `tests/`
against either.

This directory holds TLA+ modules that model the parts of that code where
correctness depends on the order of many steps, configurations with which TLC
checks them on small instances, and proofs, checked by TLAPS, of what matters
most for instances of any size. Line numbers refer to the sources of this
commit.

Contents

1. The system
2. The modules, and how they correspond to the code
3. What is checked: runs, bounds, fairness
4. What is proved, and from what
5. Where the code is not what it says
6. What is not modelled, and the plan
7. Running it

## 1. The system

A program is compiled in stages. Each stage takes what the stages before have
made, allocates its own result in an arena, and may keep references into older
arenas.

```
 files --load--> modules --order--> resolve --> [unstack --> infer] --> monomize
   (FS:normalize)                                per function             |
                                                            merge locals <--
                                                                  |
                                                                codegen --> WAT
```

There are no threads in either compiler; the hard behaviours are long sequences
of legal calls on shared state: pages, arenas, restore points, the simulated
stack, tables whose order matters. The test script is the one concurrent
program.

| Component | State | Operations | What could go wrong, and must not |
|---|---|---|---|
| page allocator (`std/page-alloc.watim`) | free list threaded through the pages, count of active pages, the memory's size | allocate a page, allocate adjacent pages, discard | a page lent twice or lost; memory grown though the pages were there; the count wrong |
| arenas (`std/arena.watim`, `native/active-memory.watim`) | list of blocks, bump position, size per arena; total of all | allocate, save, restore, clear | ranges that overlap; a restore that frees too much or too little; a wrong total, which is the compiler's exit status |
| scratch arenas (`std/arena.watim:217-241`) | two static arenas that all functions share | pick the one that is not the caller's, save, restore on return | a return that frees what a caller two frames up still needs |
| driver (`native/main.watim`) | the arenas of the stages, the tables of intrinsics | one sequence of calls per command | reading what was freed; exit status that does not tell the truth; tables used out of turn |
| loading and ordering (`native/main.watim:829-960`, `bootstrap/__main__.py`) | map of modules, the unprocessed, the ordered, the import stack | load recursively, order by rounds, detect cycles | a module loaded twice, left out, ordered before an import; a loop without end; a cycle not found, or found where none is |
| paths (`std/fs.watim:121-`, `bootstrap/util.py`) | none: a module's key is a function of its path | normalize in loader, ordering and resolver | one file under two keys; a key under which nothing was loaded |
| resolving | scopes and environments | names to handles | only how imports are found is modelled |
| unstacking (`native/unstacking`, `bootstrap/unstacking`) | simulated stack with parents, nodes with several results, the reachable flag | one handler per word | sources that stand for another value than the one that is there; code taken for unreachable that is not |
| inference (`bootstrap/inference`, `native/inference`) | holes, the state of every source, the queue of deferred words, a measure of progress | infer a type from where a value comes from, check it against where it goes, unify, retry | inference that goes round for ever; a function accepted though types do not fit |
| monomorphization (`bootstrap/monomorphization`) | tables of types, definitions and instances; layout of types, space for copies | make an instance for each list of type arguments; compute sizes and offsets, measure the copy space of every word | an instance or a definition that is not the one its type arguments make; recursion without end; fields that overlap or reach past their struct; a copy written over a value still in use |
| merging of locals (`native/local-merging.watim`, `bootstrap/local_merging.py`) | scopes that have ended, what is reused, substitutions | one walk over a function's words | two live locals in one place |
| code generation (`bootstrap/codegen`) | the function's frame, WebAssembly's stack | entry, one handler per word, exit | invalid code; a value, variable or result that is not the one the program means |
| test script (`test.py`) | pool of threads, lock, temporary files, exit status | one task per test | tests that share a file judged by each other's program; status 0 though one failed; a lock never given back |

How they interact: arenas take pages from the page allocator and report bytes
to active memory; every pass works in scratch arenas; the driver decides when
the arena of a stage is given back, and its exit status is 0 only when active
memory is 0. Loader, ordering and resolver each compute a module's key for
themselves. What unstacking makes is read by inference, by the depth of a value
or by its number.

`PROJECT.json` lists every component with its files and what is not modelled of
it, and under `hazards` each place of the code where one of these things can go
wrong, with the properties that would show it.

## 2. The modules

| Module | Models | Abstraction |
|---|---|---|
| `PagePool` | what a page allocator promises its clients | abstract specification |
| `PageAlloc` | `std/page-alloc.watim` | implements `PagePool`; the free list is a sequence of page numbers |
| `Arena` | `std/arena.watim`, `native/active-memory.watim` | takes pages from `PagePool`; a page has few bytes |
| `ScratchArenas` | `temp`, save and restore around every call | an arena is a sequence of allocations |
| `CompilationPlan` | what loading and ordering promise | abstract specification |
| `SourceFiles` | the files a program may be made of | shared by the two loaders |
| `ModuleLoading` | `load-modules-recursively`, `determine-compilation-order` | implements `CompilationPlan`; a file is what its path normalizes to |
| `BootstrapLoading` | the same two functions of `bootstrap/__main__.py` | as above; the import stack that finds cycles |
| `Loaders` | the two loaders, one after the other, on the same files | the second finds in a file what the first has found |
| `ImportPaths` | the three places that make a module's key, in both compilers | a path is the sequence of its segments |
| `Pipeline` | the commands of `native/main.watim` | a command is a sequence of calls; a call is one action |
| `Unstacking` | the simulated stack and every kind of word (`bootstrap/unstacking`, `native/unstacking`) | types, names and paths of fields are left out |
| `Inference` | holes, `infer`, `check`, unification (`bootstrap/inference/inference.py`) | a type is a record; the methods that call one another are one recursive function |
| `FunctionInference` | the words of a function, its signature, the queue of deferred words, the final pass | the function is chosen word by word, from a vocabulary |
| `Monomorphization` | the tables of types, definitions and instances (`bootstrap/monomorphization/monomizer.py`) | a word is a type or a call; the body of a function is chosen while its first instance is made |
| `MonomorphicTypes` | the types that go in | records |
| `Layout` | sizes, alignment, offsets (`bootstrap/monomorphization/monomizer.py`) | a type is a record that has its size |
| `GeneratedCode` | what code is generated for a word (`bootstrap/codegen/words.py`, `generator.py`) | instructions are records, never text |
| `Wasm` | the machine that runs it: stack, locals, memory by bytes | external; only the instructions that are generated |
| `CodeGeneration` | the space for copies, and a function that is compiled and run word by word beside the values the program means | branches not taken only count; loops run once |
| `LocalMerging` | the pass that lets locals share storage | the function is chosen while it is walked |
| `TestHarness` | `test.py` | a test is what is wrong with it |
| `*Proofs` | theorems about the module of that name; `LoadersProofs` has those about `ModuleLoading`, `BootstrapLoading` and `ImportPaths` as well | |
| `StackProofs`, `NestingProofs` | what `UnstackingProofs` rests on: the stack, and what is open | |
| `MC*` | constants for model checking; `MCArenas`, `MCDrivers` and `MCFunctions` put modules side by side | |

**PageAlloc.** `freeList` is the list one meets following `next` from
`ALLOCATOR.free-list`, `activePages` is `ACTIVE_PAGES`, `memPages` what
`memory.size` answers. `AllocFreePage` and `AllocNewPage` are `alloc-page` with
and without a free page, `ContiguousPages(n)` is `contiguous-pages` with the
search, the sort, the second search, the unlinking or the growing inside, and
`DiscardPage` is `discard-page`. `held` is a ghost, the pages clients own. A
failing `memory.grow` and a failing assertion end the program, in the middle of
the operation.

**Arena.** `used[a]` lists the blocks of an arena, first the one `used-pages`
points to; a block of several pages is a `MULTIPLE_PAGE`. `live` and `points`
are ghosts: the byte ranges handed out, and the restore points clients hold,
which they use last in, first out and forget when they clear the arena, as all
callers under `native/` do. An arena without pages reads the bump position through the null pointer;
`Garbage` is what may stand there.

**ScratchArenas.** A frame records the arena its result goes to, the frame that
arena's content is for, its scratch arena, and its restore point. `Return`
restores; `ReturnEarly` is the early return of the few functions that do not
(`resolving/resolver.watim:175`) and sets `leaked`.

**ModuleLoading / BootstrapLoading.** What a file holds is chosen when it is
read: missing, not parsable, or a list of imports. Recursion is the sequence
`calls`. `unprocessed` is changed while it is walked, as in the code: what
follows the element that is taken out moves up, and the position stays.

**Pipeline.** `Stages` says of each stage which arenas it reads and fills and
what its result points into; `ProjectWideCalls` and `SingleFileCalls` write the
driver's calls down in their order, `EndOn` how the process ends on each fault. Reading a stage's result when an arena it points into was given back
adds that arena to the ghost `dangling`.

**ImportPaths.** The key is followed along chains of imports. The inputs are
imports in which `.` and empty segments do not stand next to one another and no
path starts with an empty segment. Outside of these the normalizers do not
agree, nor each with itself: `.//a` becomes `/a` natively, and `././x` leaves a
`.` in the bootstrap compiler's `normalize_path` where `normpath` leaves none,
so that the resolver fails with a `KeyError`. No program of the repository has
such imports. `PathsAssumption` says so, and that no import ends in `-`, which
`main.watim` and `__main__.py` keep for the standard input.

**Unstacking.** `chain` is a stack with its parents; `positive`, `negative` and
the numbering of demands are those of `stack.py`. Each word is an action and so
is the end of a branch, case, block, loop or literal, which is the part of the
handler that comes after the recursive call. The ghosts `here`, `stack` and
`value` are one execution of the function that goes along with the walk: which
branch it takes is chosen at each `if` and `match`, and `Meaning` looks a source
up in it the way inference looks up types. Code behind a word that diverges is
walked only where the code itself goes on there: the rest of a scope behind an
`if` that breaks becomes its false branch.

**Inference and FunctionInference.** In the first phase a function is put
together word by word; each adds the source, hole or void that the unstacker
would leave for it. The second phase is `infer_function`: results are inferred
and checked against the signature, the queue of voids is gone through, with
`progress` as in the code, and the holes are filled in. `ctx` is the object the
Python methods share: its `hole` and `state` tables, the queue, whether it has
aborted. Since `infer`, `check` and those they call are mutually recursive,
they are written as operators that call one recursive function, `ctx.solve`,
defined over the sources; `AtWork` and `AtRest` carry it in and out of an
action. Ghosts record what every word demands (`expected`), how deep calls are
nested and whether an `if` or a match without a type has filled a hole again
(`stalled`, section 5).

**Monomorphization.** `tables` has the list `types` that all modules share, with
places that are taken but not filled, `mine` for the `types_dict` of the `Ctx` of
the module at hand, and the type definitions of each module. `frames` are the
calls of `monomize_function` in progress. A first call of an instance
(`CallNew`) enters it, makes it and comes back to the same word, which then
finds it (`Call`). `Meaning` reads a number back as a type, which is how the
properties compare what was made with what its function says. Functions pass
type parameters on within a module as they are, because at ever larger types the
recursion has no end: neither compiler rejects that, and neither ends.
`CallsExported` lets exported functions be called, which fails (section 5).

**Layout, Wasm, GeneratedCode, CodeGeneration.** A function's words come one at
a time. Each is given its place in the copy space (`word_measure_copy_space`),
translated to instructions (`generate_word`), and the instructions run at once
on `m`, a machine with a stack of typed items, locals and a memory of bytes.
Beside it the module keeps what a reader of the program expects: `vars`, the
value of every variable, and `values`, types and values on the stack. Values of
up to eight bytes are items of the stack, larger ones addresses. Pointers are
compared by what they lead to. Bytes are symbols, so a copy that is one byte
short or lies one byte off shows. How much copy space a function needs, and how
many locals for what calls return, is measured before its code is generated
(`function_measure_copy_space`): `Init` guesses it, and the function returns only
when its words have come to need just that (`measured`), so an overrun behind the
last word meets what lies there. Known faults (section 5) are guarded by `Unless`,
and `WithFaults = TRUE` makes `CodeValid` fail at once; where an assertion of the
compiler fails (`FailedAssert`) no valid code comes. Left out: strings,
intrinsics over whole memory, `not`, `sizeof`, matches on variants that have no
values, the second round of a loop, and words in the literal of a struct without
bytes.

**LocalMerging.** Blocks, loops, matches, cases and struct literals open a scope
alike and are one action; an `if` has two scopes that may share storage. The
native pass and the Python pass are one algorithm. One detail is kept as it is
in the code although it loses an optimisation: at the end of the false branch
(`local-merging.watim:102`) the scope taken off the list is the last one there,
which need not be the true branch.

**TestHarness.** A thread's test goes through reading, compiling, acquiring the
lock, comparing, writing and running. `Wat` maps tests to file names and is not
injective: eight pairs of the repository's tests share one.

`PROJECT.json` maps every definition to its lines. Definitions preceded by "A
slip" are plausible mistakes in the code below them. They are not used by the
specifications; replacing a definition by its slip must break a property, which
shows that the property watches over that code.

## 3. What is checked

| Run | Question | Bounds | States |
|---|---|---|---|
| `page_alloc` | Are pages lent once and never lost, is the count right, is memory grown only for want of pages, does the allocator implement `PagePool`? | 1 reserved page, 5 more | 662 |
| `arenas` | Are ranges disjoint, restores exact, the total exact, over two arenas? Are two scratch arenas enough? | 4 pages of 3 bytes, 2 restore points; 4 calls deep, 2 allocations each arena | 790 132 |
| `drivers` | Do both compilers load and order a program alike, as `CompilationPlan` asks, and end? One key per file? Nothing read after it was freed, and status 0 exactly when all is well? Does the test script judge each test by its own program, and end? | 4 files of up to 2 imports; files 6 segments away, imports of 3 + 1 segments; every command on every fault; 3 tests, 2 of one file name, 2 threads | 101 576 |
| `bootstrap_cycles` | Is every cycle reported? (no) | as above | |
| `unstacking` | Do the sources stand for the values that are there, and does inference come to all of them? | 5 words, 4 scopes, 3 values | 475 535 |
| `unstacking_else` | And when a branch of an `if` with an `else` breaks? (no) | as above | |
| `unstacking_forgotten` | Does inference also come to what only goes round in a loop? (no) | as above | |
| `inference` | Is what is accepted well typed, and is nothing asked again without news? | 4 or 5 words of each of ten vocabularies, 10 of two `if`s | 1.1 million |
| `inference_unsound` | Is everything accepted well typed? (no) | as above | |
| `code_generation` | Is the code valid, and does every word leave what it means? | six functions of 3 to 6 words, up to 56 bytes of copy space, stack of 3, paths of 2 fields | 437 505 |
| `functions` | Is every instance what its type arguments make of its function, and made once? Do live locals share storage? | 6 functions, 3 definitions, 4 items in all bodies; 6 scopes, 4 locals, 2 shapes | 4.2 million |
| `functions_exported` | And when exported functions are called? (no) | as above | |

Why the bounds are enough. *Pages*: five pages hold every shape of free list the
unlinking tells apart (a run at the head, in the middle, at the end, runs that
become adjacent only by sorting), and memory reaches its limit. *Arena*: with
three bytes to a page, one of them header, the sizes 0 to 3 are the empty
request, one that fits, one that fills a page and one that needs two. *Scratch*:
with depth four each scratch arena serves two frames, so a restore runs over an
arena with allocations of a frame below and a result of a frame above; the
proofs cover the rest. *Files*: with four there are cycles of every length up to
four, on and off the main module, diamonds, and a file imported twice by one
module. *Words*: in five words fit two nested constructs with a break and
something taken from below. *Vocabularies*: kinds of words that bear on one
another are put together (matches with what they match on and what makes it
known, locals with stores and loads, loops with what is compared in them), since
all kinds at once would leave room for two words only. One has just the words that
two `if`s without a type take whose results are dropped, a function on which
inference does not end. *Functions compiled*: one
is three words of any kind, the others are about literals, matches, pointers,
calls of several results and structs of single bytes or of none, and long enough for the result of one word to lie in
copy space while another writes there, or behind it. The copy space is as much as
one, two or three copies of the function's types take. *Height*: three values are more than any word of the
model takes. *Instances*: each module has a generic function and exported ones; four items are
enough for a generic function that calls itself at another type from inside a
call from the other module, and for a type to be met first inside another. The
recursion never comes to `MaxFrames`. *Tests*: two tests that share a file and a third that does not,
with two threads, give every way in which the shared file could be overwritten.

The model checker's deadlock check is off where the system stops: on traps, at
exit, when a bound on words is reached.

**Invariants and action properties.** Each stands in its module behind a comment
that says what it means for the code. The ones to read first are
`PageAlloc!PagesAccounted`, `Arena!AllocationsIntact`, `Arena!RestoreUndoes`,
`ScratchArenas!NothingNeededIsFreed`, `ModuleLoading!PlanSpec`,
`LocalMerging!LiveLocalsApart`, `Unstacking!StackFaithful`,
`FunctionInference!OnNews`, `CodeGeneration!ValuesFaithful`,
`Loaders!LoadersAgree`,
`Monomorphization!InstancesFaithful`, `Pipeline!ExitStatusDeserved` and `TestHarness!VerdictsDeserved`.

**Runs over several modules.** `MCArenas`, `MCDrivers` and `MCFunctions` each choose
in the initial state what a behaviour is about, and leave the other modules at rest. In
`MCDrivers` the two loaders are more than side by side (`Loaders`): the second loads
the files the first has read, and finds the same in them, so that `LoadersAgree` can
compare what they make of a program.

**Liveness and fairness.** `drivers` assumes weak fairness of the loaders'
steps: one process that runs on as long as it can. For the test script it
assumes weak fairness of each thread and of the main thread, as `TestHarness`
does, which is the scheduling of the operating system; the lock need not be fair, since there are
only finitely many tests. Nothing else needs fairness, and no property assumes
more than the next step of a process that is able to take one.

**Refinement.** `PageAlloc` implements `PagePool` with `lent <- held` and
`size <- memPages`; `Arena` is built on `PagePool`, so what it shows holds over
any allocator that keeps that promise. `ModuleLoading` implements
`CompilationPlan` with `known` the set of loaded modules, `plan` the ordered
paths and `outcome` the phase; giving up is allowed only when no order exists.

## 4. What is proved

TLAPS checks about 26 000 obligations. The only assumptions are the named `ASSUME`
on the constants of each module, which say that bounds are natural numbers, that
arenas are finitely many, that the main module is a file, that paths are ones on which
the normalizers agree (section 2), and that model values such as `None` differ from
others. Every run whose module extends the module evaluates them.

| Module | Theorem | Statement |
|---|---|---|
| `PageAllocProofs` | `WellTyped`, `NoPageLost`, `CountExact`, `AssertionHolds` | `TypeOK`, `PagesAccounted`, `ActiveMatchesHeld`, `NeverTraps` are invariants |
| | `GrowsOnlyForWant` | `GrowsOnlyWhenNeeded` |
| | `ImplementsPagePool` | `Spec => PoolSpec` |
| `ArenaProofs` | `PagesSafe`, `RestoresSafe`, `BytesSafe` | `PagesOwnedOnce`, `NoRestoreTraps`, `AllocationsIntact` are invariants |
| | `CountExact`, `WellTyped` | `ActiveMemoryExact`, `ArenaTypeOK` are invariants |
| | `RestoresExactly` | `RestoreUndoes` |
| | `RestoreFreesItsOwn`, `RestorePointsNest`, `ScratchEmptyInMain` | `FreesOnlyItsOwn`, `MarksNest`, `ScratchGivenBack` are invariants |
| | `ReturnKeepsWhatIsNeeded` | `NothingNeededIsFreed` |
| `LocalMergingProofs` | `MergingIsSound`, `AliasesFit` | `LiveLocalsApart`, `StorageFits` are invariants |
| `LoadersProofs` | `WellTyped`, `MainIsLast` | `LoadingTypeOK`, `MainComesLast` are invariants |
| | `ImplementsPlan` | `LoadingSpec => PlanSpec` |
| | `BootWellTyped`, `CyclesReported`, `InOrder` | `BootTypeOK`, `ReportsCycles`, `CompilesInOrder` are invariants |
| | `LoadersSafe` | `LoadersSpec => []LoadersAgree` |
| | `OneKeyHolds`, `ResolverFindsHolds`, `PathsTypeCorrect` | `OneKeyPerFile`, `ResolverFindsModule`, `PathsTypeOK` are invariants |
| `NestingProofs` | `ReachedStaysReachable` | `ReachedIsReachable` is an invariant |
| `UnstackingProofs` | `StackFaithfulHolds`, `EntriesFaithfulHolds` | `StackFaithful`, `EntriesFaithful` are invariants, where no known fault applies |
| `TestHarnessProofs` | `WellTyped`, `JudgedByItsOwnProgram`, `StatusTellsTheTruth`, `AllDoneAtExit` | `TypeOK`, `VerdictsDeserved`, `ExitStatusDeserved`, `NobodyAtWorkAfterExit` are invariants |

**Pages.** The invariant is the conjunction of the four properties. The work is
in the lemmas about the search: what it finds is a run of the free list whose
pages are adjacent, so the assertion in the unlinking loop holds and exactly its
pages leave the list; and on a sorted list without repetitions it finds a run
whenever the free pages contain one. Sortedness is established by the sort
before the second search, so it is no part of the invariant.

**Arenas.** What a restore frees is right only if nothing a point remembers has
been written since. `ArenaInv` says that of one arena, in terms of its blocks,
its size, the ranges handed out and its restore points: every range lies in a
block, blocks have no page in common, and from each restore point to the next,
and from the latest to now, the arena has only *grown* (`Later`): blocks were put
in front, and none but the first of those it had was filled further. This is what
`alloc-bytes` must keep by never placing anything in a block that is not the
first, and what makes the walk of `restore` come to the block it looks for.
`IInv` adds that arenas have no page in common and that the pages lent are those
of their blocks. The lemmas are about values, not steps: what an arena is after
an allocation in the first block, after a new block, after going back to a point;
the step of an action is then one of these for one arena and none for the others.
Arithmetic enters once, in `AreasApart`: blocks without a common page have no
common byte. For the total, bytes are counted one by one (`BytesInUse`), so that
what an operation adds to the size of its arena or takes from it is a fact about
cardinalities (`BytesChange`), and `Told` says that every operation reports it.

**Native loader.** `LoadInv` says what the calls in progress are for: each is for
the import its caller has just passed, every import of a loaded module is loaded
or some call has yet to come to it (`ImportsAttended`), and each module but the
main one is imported by one that is loaded. When no call is left, all that is
imported is loaded, and ordering begins with every module exactly once.
`OrderInv` keeps unprocessed and ordered a partition with imports first; as long
as a round has ordered nothing, none of the modules it has passed is ready, so a
round without progress means that no order exists. The main module comes last
because anything behind it would, by `ModulesNeeded`, have to be followed by a
module that imports it. Each step of the code is then a step of `CompilationPlan`
or leaves it as it is.

**Bootstrap loader.** Here the invariant also tells apart modules that are being
loaded and `Finished` ones. A finished module imports only finished ones, or the
main one, which the import stack does not hold; so when a call returns and its
module is finished too, no circle closes unless some module imports `Main`
(`NoFinishedCycle`). Conversely the calls on the stack form a chain of imports,
and an import of one of them closes it to a cycle. That both hold without
anything said about the order of loading is why this is the loader's promise in
spite of the missing main module.

**Both loaders.** That they agree is not a matter of equal steps: one asks for a file
again that is loaded and returns, the other does not ask, and their ordering passes
over their lists a different number of times. What both do is determined by what
they have done. `ComesNext` says which file is loaded after the first `q` modules of
a table: the first import not loaded of the latest module that has one. The native
loader only loads what comes next (`NextWalks`), because the calls in progress stand
in the order their modules were loaded in (`CallsInOrder`) and an import that is not
loaded is one that some call has yet to come to (`NoneForgotten`). For the other loader
the same two facts follow from the invariant of its own. As only one file comes next
(`OneComesNext`), its table is always a beginning of the native one (`SamePrefix`), and
the whole of it when no call is left (`LoadedAlike`). In the same way `ListedNext` says
which module is listed after the first `q`: the first that is ready when one goes round
the table from behind the last that was listed. `Scanned` is what makes a loop over a
list of those left do that, whether the position is behind the last one listed or a
new round has begun, and however many rounds have passed without progress
(`ScanFinds`, `ScanWraps`). `ListsAgree` says it of the numbers of the modules the
other ordering has left, with the native list as it ended; so what it lists is the
next of that list (`OrderAgrees`), and it has one, since nothing that is ready was left
behind. Where a cycle is reported the native order cannot be complete: the first
module of the cycle in it would have an import before it (`CycleAgrees`).

**Keys of modules.** The invariant is `Found`: every key is the shortest path to
the file, behind `./` where it should be. What has to be proved is that three ways
to normalize compute the same function. `NormPath` enters the segments of a path
one by one, so that what precedes a position matters only by where it leads
(`NormAppend`). Each thing the other two do to a path, `str-replace` and the loop
over `..`, is a loop over its segments, for which `Between` and `Raised` say what
it has made of the first `k`: a path that leads where those lead, shorter unless
nothing was left out. A round therefore keeps the file, and either shortens the
path or finds it the shortest (`RoundIs`, `LedUps`); with as many rounds as there
are segments `Normalize` and `normalize_path` end, and since the shortest path is
its own `NormPath` (`NormShortest`) they end with that (`NormalizeIs`,
`ResolvedIs`). The assumption on the paths is used in one place each: natively, no
blank may follow a dot that is stripped, and in the resolver no two idle segments
may meet behind the dot (`Spaced`), for it replaces once when nothing leads up.

**Scratch arenas.** `FreesOnlyItsOwn` is not inductive: to know that a result
put on the scratch arena of an outer frame is not freed on the way, one needs
that the frame it is for is the *innermost* with that scratch arena. This is
`ResultsGoToInnermost`: every frame between was given that arena, and `temp`
answered the other one. With `MarksNest` (restore points on one arena do not
decrease with depth) every return frees only what lies behind all marks of
outer frames. `ScratchGivenBack` needs `FirstMarkIsZero`: the outermost user of
a scratch arena found it empty.

**Merging of locals.** Two live locals could share storage if a local became an
alias of one that is still in scope, or of one that another live local has
already been made an alias of. The first is excluded by `OfferedScopesEnded`,
the second by `AliasesRecorded`: what a live local is an alias of stands in
`reused` at a place that no end of an inner scope cuts off. That this survives
the truncation at the end of a branch needs `OutersNest`.

**Unstacking.** That code which is reached is never taken for unreachable is a
matter of what is open alone, not of what lies on the stack. `Walk` says that
every open scope but the innermost is reachable, because only a reachable word
opens one, and that the way by which the execution came to the end of a construct
was reachable itself (`WayIsReachable`): a branch that did not diverge, or a break
that the block or loop counts. So where branches meet again, or a block ends, what
the code takes for reachable includes that way; and it never came to the end of a
branch behind which the rest of the words becomes the other branch.

That the simulated stack is right (`StackFaithfulHolds`, `EntriesFaithfulHolds`) is
proved for functions of any size, any nesting, calls that take and leave any number
of values, and any annotation. The hypotheses are what the run's constants say,
and each keeps out one fault of section 5: no `else` beside a branch that diverges
(`~DivergingElse`), no `if` whose branches leave unequally many values
(`OnlyBalanced`), no indirect call with several results. Without any one of them TLC
finds `StackFaithful` violated. The argument has three layers.

*What a source stands for* (`StackProofs`). `MeaningIn(v, s)` is defined by
recursion over what `s` is made of, so it is known only of sources that are made in
finitely many steps: `Level(N, n)` has those of depth `n` over `N` nodes, and
every source a function can get to is in one, because making one takes a word.
That `MeaningIn` has its defining equations there, and that it stays the same
when nodes are added (`Grown`), is shown by an induction of our own (`Induction`),
over sets of numbers, since the library's take operators.

*What an operation of the stack does.* `Flat(c)` is what lies on a chain of
stacks, from the outermost parent to the innermost stack. `pop` takes its last
element, whichever stack that comes from; where a parent supplies it, the
innermost stack hands out a parameter of its node and notes the demand. `Good`
says that this is sound: what a stack has demanded, and what is left of its
parents, is what was there when it was opened, in the order of the node's values
(`Fits`). `PopN`, `EnsureNegatives` and pushing keep it, and take and add what they should.

*What is open* (`NestingProofs`). `Faithful` says of one moment of the walk: the stack at hand is good
and stands for the execution's, if that is there (`Inner`); so is the stack each
construct was opened on, what its first branch has left, and what its breaks have
taken (`Scopes`), as far as the execution went that way; a struct literal has
in its slots what its fields were set to, or the execution never comes to its
end (`Literal`); and where the execution left by a break that takes the whole stack
along, nothing is left below (`AllSpent`), so that behind the block lies what the
break took and nothing else. `NextFaithful` has one lemma for each action (`IfKeeps`, `BreakKeeps`,
`LeaveLoopKeeps` ...). They come down to five cases: values are made or taken, a
construct is opened (`Opening`), it turns to its next branch (`Turning`), or it is
closed (`Closing`), and its results are looked up in the branch or break by which
the execution came (`WayIs`).

**Test script.** `LockHeld` (the thread that compares, writes or runs has the
lock) gives `OwnCode`: the file a thread is about to run holds the code of its
own test. `Accounted` and `MainKnows` tie the results to what the main thread
has awaited.

Only model-checked: `Pipeline`, which has no constants, so that the run covers every behaviour it has;
`InferredButForLoops` of `Unstacking`, which follows what inference asks for by a
recursive definition; inference, monomorphization and code
generation as a whole; all liveness. That
inference ends is checked as the safety property `OnNews`, by which every round
of the queue has more holes filled or fewer voids left, unless an `if` or a match
has stalled (section 5); that monomorphization
does, as `MadeOnce`, by which nothing is made inside its own making. The proof system cannot reason about
`ENABLED`, so fairness and what must eventually happen stay with TLC, and neither
can it reason about recursive operators: no module that is proved about declares
one. Recursive functions are in its reach. The library's induction theorems take
an operator as a parameter, which its provers cannot instantiate; `Induction` and
`Recursion` of `StackProofs` and `LoadersProofs` say the same of sets, from the
least element that a set of numbers has. Invariants that are proved and whose
module has deeper ones in its run (`TypeOK`, `NeverTraps`, `MarksNest`,
`StorageFits`, `NobodyAtWorkAfterExit`) are left out of the configurations, and
so are the type invariants of modules that are checked for deeper ones only.

## 5. Where the code is not what it says

Five disagreements are runs of their own, and all were confirmed with the
bootstrap compiler:

* `bootstrap_cycles`: a cycle of imports through the main module is not
  detected, because the import stack starts without it
  (`bootstrap/__main__.py:28`, `46-52`). Ordering then never ends. The native
  compiler stops (`native/main.watim:954`).
* `unstacking_else`: when one branch of an `if` with an `else` breaks, the values
  the break took along are missing behind the `if`
  (`native/unstacking/unstacking.watim:1653`, `bootstrap/unstacking/unstacker.py:993`).
  `block { 5 0 1 = if { } else { break } drop 3 }` is rejected, while the same
  program without the `else` is a test (`tests/divergence/diverging-if-not-pop-from-stack.watim`).
* `unstacking_forgotten`: a value that only goes round in a loop and is taken
  apart there is inferred by nobody (`bootstrap/unstacking/unstacker.py:597`);
  the assertion at `bootstrap/inference/inference.py:1344` ends the compiler.
* `inference_unsound`: a type that is known already is not compared with the one
  that is asked for: a local's (`bootstrap/inference/inference.py:452-455`), a
  match's result (`509-511`), a source that is being looked at (`768-771`), and
  the scrutinee of a match whose cases take no value, unless the result is asked
  for first (`1007-1011`). `fn f "f" (p: i64) -> i32 { $p }` is accepted.

* `functions_exported`: an exported function that is called by one that is
  exported before it is entered twice, and the assertion at
  `bootstrap/monomorphization/monomizer.py:550` ends the compiler:
  `fn g "g" () { f } fn f "f" () { }`. The native compiler has no such assertion
  and makes the function again in the same place.

Others were met while modelling. Those of unstacking are excluded by the run's
constants, and changing the constant shows them as violations of `StackFaithful`;
those of code generation by `WithFaults = FALSE`:

* `IndirectCalls <- TwoForOne`: the results of an indirect call are pushed in the
  opposite order of those of a direct call (`unstacking.watim:908`,
  `unstacker.py:537`), so a function pointer with two results of different types
  is typed in reverse.
* `OnlyBalanced = FALSE`: an `if` whose branches take unequally many values and
  leave none is accepted, because only results are compared
  (`7 8 0 1 = if { drop } else { }`); the generated code is not valid.
* Behind an `if` with an `else` both of whose branches break, code still counts
  as reachable (`unstacking.watim:1647-1697` never writes the flag), although
  the comment at 1571 says what it should be.
* Inference of a loop whose initial value has no type yet recurses without end
  (a `RecursionError` of the bootstrap compiler), one of a loop whose body ends in
  a break fails with an `IndexError`.
* Inference goes round for ever on two words that drop what nobody types, if it
  comes from an `if` or a match that takes a value: these fill a hole again
  whenever they are asked, the `if` by checking its condition
  (`inference.py:1111`), the match by what it takes, and filling a hole counts as
  progress (`382-386`) although it was full. Only a condition that is a local fills
  its hole just once (`422-426`). `OnNews` leaves voids that waited meanwhile out
  (`stalled`) and says that nothing else does this.
* Fields of type `i8` in structs of up to eight bytes, `i8` variables whose address
  is taken, and the address of a field of such a struct: loads and stores of the
  wrong width, or an address taken where there is none. Structs of 3 or 5 to 7
  bytes are written as 4 or 8 and overwrite what follows. A write, or a reference,
  through a pointer to a field of a small struct, and a `=>` to a variable that is
  itself a parameter whose address is taken, produce code that is not valid.
* A field cannot be read from a struct in a register if its size is not 1, 4 or 8
  in a struct of 5 to 8 bytes, not 1 or 2 in a smaller one, or that of a whole
  struct of fewer than 4: `struct Byte { b: i8 }` with `$x.b` fails an assertion
  (`words.py:648`, `657`, `659`). A field smaller than a struct of up to four bytes
  cannot be set: the code extends it to eight (`824-825`).
* Of a literal of a struct without bytes the body is not generated, only a drop for
  each field (`words.py:120-124`): right if the fields are there already, but
  words in the body are lost and the drops take something else.
* The copy space of a word is the same in every round of a loop, so a copy made in
  one round is overwritten in the next while a pointer to it may be on the stack.
* `visit-mem` (`std/arena.watim:57-63`) counts the pages of a block of several
  from `num` down to 1, so shredding overwrites the page behind the block and
  never its first. No model holds the content of freed pages.

## 6. What is not modelled, and the plan

Straight-line code, output and formats, the command line and the WASI calls are
left out: nothing about them depends on an order of steps. So are the lexers and
parsers, which keep nothing but a position. The compilers' passes are modelled
from the Python sources, which the native ones were translated from; of the
native passes only what is named in section 2 was read line by line. Of what
remains, in this order:

1. Resolving: scopes and environments.
2. Code generation: strings, later rounds of loops, the guard of the stack.
3. The free list at the level of pointers, implementing `PageAlloc`'s sequence.

Of what is modelled, the next to be proved would be `DefinitionsFaithful` and `MadeOnce`
of `Monomorphization`, whose recursive operators would first have to become
functions.

## 7. Running it

```
tlc -workers 2 -config MCPageAlloc.cfg MCPageAlloc.tla     # and likewise for each MC module
tlc -workers 2 -config MCUnstackingElse.cfg MCUnstacking.tla   # and the other runs that fail
tlapm PageAllocProofs.tla                                  # and likewise for each *Proofs module
```

The longest runs are `functions` and `code_generation`, of some minutes; the
proofs together take about half an hour from nothing.
