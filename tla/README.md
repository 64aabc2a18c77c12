# Verification of cinrs

cinrs translates C to Rust: the procedural macros (`c99!` and its kin) expand C
source in place, and `ccinrs` is a C compiler driver that runs the translation
and then rustc. This directory holds TLA+ models of the parts of it whose
correctness is a matter of order, state and structure, the TLC configurations
that check them on small instances, and TLAPS proofs of what holds for every
instance.

Paths of the source are given without their prefix: `codegen.rs` is
`crates/cinrs-core/src/codegen.rs`, `runtime.rs` is
`crates/ccinrs/src/runtime.rs`.

## 1. The system

    capture -> lex -> pp -> parse -> sema -> ir
       -> regions (structured)  or  cfg: lower, thread_jumps, merge_chains, renumber
       -> reloop (graphs only) -> reach -> codegen -> Rust tokens
    ccinrs: args -> the above for each file -> rustc -> link -> deliver
            with the runtime kept in a cache directory

| Component | State | Operations | What is hard | What makes it correct |
|---|---|---|---|---|
| capture, lex (`capture.rs`, `lex.rs`) | position in the text | recover C text from Rust tokens, cut it into tokens | text | each token once, at its place |
| preprocessor (`pp.rs`, `include.rs`, `clock.rs`) | macro table, hide sets, stack of conditionals, include depth, budgets | define, expand, include, `#if` | termination, conditionals across files | its output is the standard's; groups nest per file |
| search cache (`locate.rs`) | process-wide map of listings and stamps behind a mutex | look up a crate directory, list, refresh | staleness, concurrent searches | an answer is no older than its window |
| parser (`parse.rs`, `ast.rs`) | tokens left, scopes of typedef names | one function per production | a name's meaning depends on what came before | a name is a type for it exactly when it is one for sema |
| semantic analysis (`sema/*`) | scopes, tags, types, constant values, initializer cursor | declare, check, convert, fold | order of declarations, linkage, inline functions, widths, designators | names, types and values mean what C says |
| goto regions (`regions.rs`) | items of a statement list, needs | analyze, restructure | crossing regions | a jump leaves a construct that is around it |
| graph lowering (`cfg.rs` 384-1248) | blocks, current block, loops, switches, labels, cleanups | one method per statement | jumps across cleanups, `switch`, computed `goto` | the graph runs as the statements do |
| clean-up passes (`cfg.rs` 1250-1388) | blocks, predecessor counts | thread_jumps, merge_chains, renumber | counts kept while blocks move, empty cycles | the same runs; what the relooper relies on |
| relooper (`reloop.rs`) | graph, hidden edges, shapes, calls in progress | process, make_simple, make_multiple, make_loop | irreducible regions, nesting | every block once, every jump can be written |
| code for shapes (`codegen.rs` 5180-5560) | labels open, state variables | shape_seq, enter_shape, goto_shape | `break` from the wrong depth, stale state variables | the emitted code runs the graph |
| `setjmp` runtime (`codegen.rs` 3510-4040) | per thread and unit: list of live frames, serial numbers; the buffers | new, save, land, drop, reach, longjmp | frames leaving out of order, threads, address reuse | a jump lands where its buffer was filled in, or is refused |
| VLA and `alloca` arena (`codegen.rs` 4110-4400) | chunks, position, floor, marks; spare chunks of a thread | bytes, grow, release, redefine, alloca, drop | declarations reached again, chunk reuse between calls | live objects keep their bytes |
| reachability (`reach.rs`) | work-list, sets reached | follow functions, objects, bodies | a missed edge, symbols only an `asm` names | nothing needed is dropped; the symbols are the unit's |
| atomics (`sema/atomics.rs`, parts of `codegen.rs`) | the program's: an object and the threads' temporaries | load, store, exchange, compare-exchange, read-modify-write, operators | a loop's load is old by its exchange; orders that panic | each operation is one access; it ends |
| rest of codegen, `ir.rs`, `complex.rs` | none between nodes | one node to tokens | volume | - |
| `ccinrs` driver (`driver.rs`) | work directory, objects, stamps | compile, check_stamp, link, deliver | concurrent runs, hard links, failure between steps | an output is whole; what was checked is linked; inputs are only read |
| runtime cache (`runtime.rs`) | directories shared by every run | look, build in scratch, rename, recheck, sweep | races, crashes, process ids used again | nobody sees half a runtime; nobody is refused without cause |
| tables and output (`target.rs`, `x86*`, `gnu.rs`, `diag.rs`, `dump.rs`, `args.rs`, `print.rs`, `deps.rs`, `elf.rs`, ...) | none | look up, format | - | - |
| `cinrs-rt`, `cinrs-macros`, `src/lib.rs` | none | complex arithmetic; entry points | - | - |

Interactions: the clean-up passes hand the relooper a numbered graph (their
contract is `SmallGraphs`, below); the relooper hands codegen a tree of shapes;
what codegen emits for `setjmp` and for arrays is itself a little runtime inside
the program, run by the program's threads; the driver calls the runtime cache,
which shares nothing with other runs but a directory.

## 2. Modules

| Module | Models | Built on |
|---|---|---|
| `Reloop` | `process` and its `make_*`: the shapes of a graph | - |
| `ReloopPlan` | `plan`'s checks, labels, falls, nesting | `Reloop` |
| `ShapeRun` | the code emitted for the shapes, running | `ReloopPlan`, `CfgRun` |
| `CfgRun` | abstract: a graph running | - |
| `SmallGraphs` | every graph the passes can hand to the relooper | - |
| `CStmt` | abstract: a tree of C statements running | - |
| `CfgLower` | `lower` and the `Lowerer`: a tree's basic blocks | `CStmt` |
| `LowerRun` | the graph running beside the statements | `CfgLower` |
| `CfgClean` | `finish`: the clean-up passes | `SmallGraphs` |
| `RuntimeCache` | `Runtime::library` by many runs of `ccinrs` | `RuntimeStore` |
| `RuntimeStore` | abstract: a store of finished runtimes | - |
| `NonLocalJump` | the items emitted for `setjmp` and `longjmp` | - |
| `VlaArena` | the items emitted for arrays and `alloca` | - |
| `Preprocess` | `Pp`: directives, groups, includes, expansion | `IfExpr` |
| `IfExpr` | the evaluator of `#if` expressions | - |
| `PreprocessMeaning` | abstract: the output of a tree of groups, by Prosser's algorithm | `Preprocess` |
| `CUnit` | abstract: the declarations of a unit as C reads them | - |
| `Declarations` | the parser's and sema's scopes, tables, `reach`, the items and symbols | `CUnit` |
| `CInit` | abstract: what an initialiser gives an object, by one walk over the object | - |
| `Initializers` | `initializer` and all it calls: the descent, the cursor, the slots, the steps | `CInit` |
| `AtomicObject` | abstract: an object whose operations are indivisible | `AtomicCalls` |
| `AtomicCalls` | abstract: the operations C has, their values and orders | - |
| `AtomicCode` | the Rust written for each operation, run by threads | `AtomicCalls` |
| `Driver` | `run`, `compile`, `check_stamp`, `link`, `deliver` by many runs of `ccinrs` | - |
| `ReloopProofs`, `CfgCleanProofs`, `DeclarationProofs`, `RuntimeProofs`, `AtomicProofs`, `DriverProofs`, `VlaProofs`, `NonLocalProofs` | theorems | the modules they name |
| `MCShapeRun`, `MCLowerRun`, `MCCfgClean`, `MCRuntimeCache`, `MCNonLocalJump`, `MCVlaArena`, `MCPreprocess`, `MCDeclarations`, `MCInitializers`, `MCAtomicCode`, `MCDriver` | instances for TLC | |

Operators beside a definition that a comment introduces with "A faulty ..."
are what a plausible mistake in that code would make of it. PROJECT.json
pairs each with a property that it breaks; nothing else uses them.

### Relooper and emitted shapes

*State.* `graph` is the function's blocks by their targets. A call of `process`
in progress is a frame of `stack`; what it appends to is a run of shapes in
`runs`, named by a number, and a Loop, a Multiple's arm or a branch's arm names
the run inside it. `cut` is the set of edges the code hides when a loop's body
is processed; `states` counts the state variables given out.
*Actions.* `make_simple`, `make_multiple`, `make_loop`, `make_dispatch` (the
inner dispatch of an irreducible loop), `process_group` (the recursive calls,
in the order of the entries) and `return`. Sets that the source keeps ordered
are sets here; where the order matters (which group is processed first) it is a
guard. Walks such as `reaching` and `widen_loop` are defined by what they
compute, the least set closed under a step, and not as work-lists.
*Running.* `ShapeRun` emits `code` once the plan is made: for each edge whether
it falls, breaks or continues and what it assigns, for each run where its end
leads. Then control moves over places; nothing consults the graph except for
which target a terminator picks, and `ExecutesGraph` is the refinement of
`CfgRun`, whose fairness says that a graph that has chosen a target gets there.

### Lowering to a graph

*The statements.* `CStmt` executes the tree of `ir::Stmt` as C does. A place is
a path in the tree; control is at a place, about to do the statement, to test
its condition or to take its step, or done with it, with the calls of cleanups
still to be made. The cleanups owed at a place are those registered before it in
the scopes around it, so what a jump leaves is a comparison of two lists *by
identity*. What can be observed is an event: a call, a test and its outcome, the
value a `switch` is given, a `setjmp`, the target of a computed `goto`.
*The lowering.* `CfgLower` is the `Lowerer`, method by method: each operator
takes the lowerer's state and returns it changed (`lower(fn)` is done in the
initial states). An expression is the call it makes, at most with a `setjmp`;
`and` and `or` stand for conditions that hold one.
*Beside each other.* In `LowerRun` an event happens in both at once, or a
`longjmp` sets both back: the statements to the place of the `setjmp`, the graph
to its entry with the site's number. `SameEvents` says that the two can then do
the same events. Both are deterministic given the event, so this is equality of
their behaviours. A loop that does nothing has no event in either.

### Clean-up passes

*State.* `blocks` with their statements (names of the block they came from, as
a sequence), the terminator's targets as a sequence with repetitions, `preds`,
and the depth-first walk of `renumber` as an explicit stack. `orig` and `start`
are kept for the properties: they compare the runs of the graph as it is with
those of the graph as lowered. `who` names a choice, so two blocks that choose
alike are not confused. `start` may be any block a resumed function starts from.
*Actions.* `ThreadJumps`, `CountPredecessors`, `Absorb` and `NextBlock`,
`StartNumbering`, `Explore`, `Leave`, `Renumber`. `Absorb` merges into a block the one it
jumps to, when that has no other way in. `Resolve(b)` is where a walk of `Along`,
jump by jump over empty blocks, first stops; `Reachable` is the least set that holds
the entry and is closed under `Edges`, as `count_predecessors` leaves it.

### Runtime cache

*State.* For each run a program counter, a process id and where it keeps the
runtime; the shared directories by place, and the scratch directories by place
and process id. A directory holds three items (the sources, the runtime crate,
the facade), each absent, half written or whole.
*Actions.* One for each call the source makes: the look, clearing the scratch
directory, writing (begun and finished), the two compiles (begun, finished,
failed), the rename (done, refused, denied), the recheck, the sweep; `Crash` at
any of them. `RuntimeStore` is what a user of the cache may rely on: a runtime
is kept once, whole, and given to whoever asks.

### setjmp and longjmp

*State.* The stacks with their frames, the thread that has each stack, each
thread's registry (`head`, `count` by unit), the buffers, the unwind in
progress. A frame's address is a stack and a depth, so addresses come back as
they do on a real stack. A coroutine is another stack of the same thread.
`Linked` is what the links lead to from a frame, the smallest set that they do
not lead out of.
*Actions.* `Call`, `SetJmp` (`save`), `Return` and `Unwind` (which drop the
frame object), `LongJmp` with all of its checks in order, and the environment:
threads start and end, coroutines are made, switched to and freed.

### Arena

*State.* The calls in progress, each with its chunks, position, floor, marks
and the objects it has taken, and the thread's spare lists of chunks. A chunk
has an address of its own, of which alignment sees the remainder, and one of the
names in `Chunks`, by which the allocator's chunks are told apart.
*Actions.* `Call`, `Return`, `Enter` and `Leave` (structured lowering: a frame
per declaration), `Declare` (graph lowering: `redefine`, then the allocation),
`alloca`. In a graph no end of a scope is executed; the model ends a lifetime
when control is next seen at a declaration outside that scope, which is the
first moment the arena could know.

### Preprocessor

*State.* `pp` is the struct `Pp`: the open files, each with its position and its
first conditional, the conditionals, the macros and the saved ones, the tokens
pushed back, the expansion depth, the budget spent, the guards remembered and
the output. A token is its spelling and its hide set.
*Actions.* A step is a turn of the loop of `run`: a directive obeyed (or skipped
over), a macro replaced, a token passed on, a file closed. The recursive
functions (`expand_padded`, `subst`, `collect_args`) are recursive operators
that take the state and return it. `Units` are whole translation units.
*Meaning.* `PreprocessMeaning` reads the same unit as a tree: it knows which group an
`#elif` belongs to because it is there in the tree, not because of a stack, and
expands a text by the algorithm the standard was written from, with neither
state nor budgets. `#if` expressions are written out of trees too, so that the
evaluator's precedence, short circuits and signedness are compared with a tree's
value.

### Declarations

*The unit.* `CUnit` is a list of declarations and uses, each with what C makes
of it as soon as it is written: its scope, linkage and *entity*. An entity is a
linked name of the unit, or one unlinked declaration. Only what C allows is
written (`Agrees`, `Usable`, `MayEnd`).
*The code.* Beside it `Declarations` has `Parser::scopes` (`syms`),
`Sema::scopes`, and the program's tables: objects with their storage, functions
with their flags, `externs`, `statics`, `initialized`. `means` records what each
name was taken for. There is an action for each form of declaration, for the
opening and closing of functions, blocks and statements, for a use, and for a
file-scope `asm`. `EndUnit` classifies the inline definitions and finds the
roots; `Walk` is the work-list; the operators after it say what codegen writes
for the objects and functions reached.
The parser reads a unit before sema does. What it knows at a name depends only
on what precedes, so the model reads both along together.

A scope's number is what was written when it began, and two blocks that open with
nothing between them have the same. `Here` is therefore the depth and the number. The
proof of `MeansTheSame` is what showed that the number alone does not tell scopes
apart: the inner block's names stayed visible when it had closed.

### Initialisers

*The list.* `items` grows by one item at a time, of those listed for the object's
`type`: an expression, a string, a list in braces or a compound literal, behind
designators or none. Each expression has a number, so that the object's contents
say where each went; the number 0 is the constant zero, which the code treats
apart. What an expression of a struct's type gives is its parts.
*C's account.* `CInit` has one walk with one current place, a path in the whole
object. The next place is computed from the last one (`After`), and an expression
goes down from there until it fits (`Down`); braces start a walk of their own. It
was compared with GCC 12 on all lists of up to three items, at run time and by
what is refused; GCC alone replaces the rest of an aggregate that an expression
gave as a whole when a part of it is named later.
*The code.* `Initializers` descends through the type, an operator for each
function of init.rs, each returning a value and the cursor. Each level has slots,
an index and the steps below it (`sub`); the levels whose braces were left out
take items from the same cursor and must give it back at the right one.
`Code` is what this makes of the list so far. Checking an expression appends its
number to the cursor's `log`.

### Atomics

*State.* The object as the Rust atomic holds it (a bool as a byte, a floating
object as its bits, a pointer as an address), and for each thread the operation
it performs, the temporaries of the code and its place in it.
*Actions.* `Begin` (only what sema accepts), `Hoist` (the operand is evaluated),
`Access` (the one method call), `LoopLoad`, `LoopTry` and `LoopFails` (the
compare-exchange loop, spurious failures included), `Finish` (the value of the
expression, from the temporaries). `Order`, `FailureOrder` and their kind are
the memory orders written. `Promise == INSTANCE AtomicObject` is the refinement.

### Driver

*State.* Names and inodes (a hard link is a second name), what a link can read
in each, where the work directory is, and for each run its command, its place,
the file it is writing, what it has found out of the objects' marks.
*Actions.* One for each call of the file system or of rustc that the driver
makes, in its order; each may fail, and a run may be killed before any. A
delivery is a rename, or across file systems a removal, an open and a copy.
rustc and the cache of runtimes are seen from outside.
`AskedFor` is what a run was asked to write; `overlapped` marks a run while whose
inputs another run, or it itself (by a rule written over an object that it links),
writes one of them.

## 3. What the runs check

| Run | Question | Instance |
|---|---|---|
| `shape_run` | Is every graph recovered without loss, and does the emitted code run it? | four blocks, up to three targets each, a repeated default at the entry; nesting bound 1, so that many graphs fall back to the state machine |
| `shape_run_5` | The same where regions nest, and: is the state variable a jump assigns the one its dispatch reads? | the irreducible graphs of five blocks, two targets each, no fall-back |
| `cfg_lower` | Does the graph do what the statements do, cleanups, `longjmp` and computed `goto` included? | two nested constructs of nine kinds, each with a cleanup, a label and one of twelve jumps in its scope, a jump from outside to the inner label, five conditions with and without `setjmp`: 5866 functions |
| `cfg_clean` | Do the passes keep the runs, and hand over graphs of `SmallGraphs`? | all graphs of three blocks with up to two targets, four blocks of which one branches, every subset of them empty |
| `runtime_cache` | Races, crashes and failures: half a runtime, refusals, litter, progress, refinement of the store | two runs, two process ids, two keys, and the runs' own directories |
| `longjmp` | Is the registry exact, and does an accepted jump reach the activation it is meant for? Does an unwind that was walked first land? | two threads, two stacks (one each, or a thread with a coroutine), two buffers, two frames a stack, two serial numbers a thread; with and without the stack walk |
| `vla_arena` | Do live objects keep their bytes, in every order? | two nested calls, three declarations of which two are in sibling blocks, three live objects, sizes 1 and 2, alignments 1 and 2, chunks of 4 to 8 |
| `preprocess` | Is the output what the unit means? Do headers leave their includer's groups alone, and does expansion end by itself? | every text of a list with every three macros of a list; every file with every header, included twice, in loops, before the unit; two-operator `#if` trees, trees nested to the bound and past it; `defined` in every form, right and wrong; a macro defined three times, by the program, bundled and platform headers in every order; budgets of 6 and 100 tokens |
| `declarations` | Does each name mean in each scope what C says, are the object's symbols C's, and is nothing dropped that is needed? | units of four to seven items over seven vocabularies (below) |
| `initializers` | Does every value of a list land where C puts it, and is each expression checked once? | nine objects, nested and with strings, unions, members without a name and arrays without a length; every list of up to four of five to twelve items for each |
| `atomics` | Is each operation one access, of the right orders, that never panics and ends? | two threads, one call each, on each class of object; two bits, four when widened; every builtin, operator and order |
| `driver` | Do outputs stay whole, inputs stay as they are, and links see what was checked, whatever fails or is killed? | a link with `-flto` of an object, a C file and an `-flto` object, beside four other commands, on one file system and on two |

*Why the bounds are enough.* The relooper decides by a few relations between
entries: which reach which, which blocks two of them reach. With four blocks
every combination of single and multiple entries, natural and irreducible loops,
branches that hold their targets and branches that cannot occurs; five two-way
blocks are the least with an irreducible region inside another one, which the
nested properties need (with fewer, the mutant that gives all regions one state
variable survives). The lowering decides by the construct a statement stands in,
the one around that, and the cleanups of both: each pair of constructs occurs
with each pair of jumps, and labels and cases of the outer one stand in the
inner one. A `goto` that leaves one cleanup's scope and enters another's, and
labels of different scopes in a computed `goto`, are left out of it: the code
is wrong for them (below). For the clean-up passes three blocks give every way two
blocks and an entry relate, four give a chain or a cycle beside them. In the
cache, two runs give a race and a dead run followed by another with its id; that
more runs bring nothing new is proved. For `longjmp`, out-of-order leaving needs
two stacks and two frames, and a stale buffer two buffers and two serial
numbers. For the arena, two nested declarations and a sibling make every kind of
stale mark; the chunk sizes make growth, giving back and reuse happen. For the
preprocessor the texts and macros were chosen so that every way a name can come
back is there: through its own replacement, an argument, a paste, a parenthesis
read from behind the end of the replacement; the headers, so that every kind of
guard, unfinished group and inclusion of itself is. The vocabularies of
`declarations` are the declarations of one object in every storage, with
initialisers, in three scopes; those of one function; the inline ones at greater
length, since a classification reads all of them; two objects and two functions
that refer to each other, for chains through initialisers; enumerators, locals
and functions that hide each other; types beside values; and one object in blocks
within blocks. For an atomic two
threads suffice to put a write between any two accesses, which is all an operation
can meet; the theorem says so. In `initializers` the
first item sets up a place, the next ones go on from it or come back to it, and
the last shows where the walk has got to; five items bring nothing new (checked by
hand). The commands of `driver` share an object, a C
file and an output in every combination of who makes and who reads. Each
property is broken by its mutant within the same bounds.

*Bounds by name.* `MaxNesting` is the source's MAX_NESTING. `MaxDepth` and
`MaxSerial` bound frames and serial numbers, `MaxCalls`, `MaxLive` and
`MaxChunk` bound the calls, live objects and chunk sizes; they are guards of the
model only. `Chunks` never runs out within them. `MinChunk` and `MaxSpare` are the source's 4096 and 64, made small, as `Budgets`,
`MaxExpansionDepth`, `MaxIncludeDepth` and `MaxEvalDepth` are the preprocessor's limits. `Width` is
the width of `#if` arithmetic (64 in the source). `most` and `deep` of an alphabet
bound a unit's items and its scopes. `MaxItems` is the length of a list, and
`Room`, 8, the elements C's walk sees of an array without a length, more than any
list reaches. `MaxCalls` and `MaxSpurious` bound a
thread's operations and the failures of one exchange that have no cause.
`MaxInputs` is the longest command.

*Fairness.* `WF(Process)`: the relooper is a loop that runs. `WF(Run)` in
`ShapeRun` and in `CfgRun`: a program that runs goes on. `WF(Step(r))` in the
cache: a process that is not killed is scheduled; nothing is assumed of the
others, so a run may never wait for one. `Driver` has the same. `WF(Step(t))` in
`AtomicCode`: a thread that runs is scheduled. `WF(Unwind(t))`: an unwind that has
begun goes on frame by frame. There is no strong fairness and none on failures,
crashes, calls or jumps.

*Deadlock.* `cfg_clean` ends when the graph is numbered, the arena's and the
jumps' programs may end at their bounds, or be stopped by a refusal; a unit is
complete, a list at its bound; the threads of `atomics` and the runs of `driver` end. Their
configurations say CHECK_DEADLOCK FALSE. In the others a deadlock is an error.

### What the models found

Each is a configuration to be run by hand, or a change of a run's; the passing
runs leave out just what it needs. Each ends in a violation of the property named.

* `MCLowerSideways`, `CleansWhatItLeaves`: **a `goto` into a sibling scope runs no
  cleanup.** The code compares how many cleanups are owed at its two ends
  (cfg.rs:718), so one left and one entered cancel out, against the comment at
  cfg.rs:716.
* `MCLowerMixed`, `CleansOnlyWhatItLeaves`: **a computed `goto` cleans a scope it
  stays in.** It runs what is owed below the shallowest label whose address is taken
  (cfg.rs:789); cfg.rs:767-772 says that a scope some target is in is left alone.
* `MCVlaArena` with `Requests <- MCEmpty`, `Within <- MCChain`, `Slots = {0, 1}`,
  `Bases = {0}`, `MinChunk = 8`, `MaxChunk = 16`, `MaxCalls = 1`, `MaxLive = 2` and
  `LiveApart`: **a zero-length array in a graph loses its neighbour's mark.** `redefine` forgets every mark not below its own (codegen.rs:4363). An
  enclosing array of no bytes has the same mark, is forgotten while it is live,
  and two passes later the inner array is put over the outer one.
* `MCNonLocalJump` with `Reuses = TRUE`, `JumpsToItsSetJmp`: **`longjmp` accepts a finished thread's
  buffer.** Serial numbers start over with each thread; with the stack an address
  comes back too, so the check that doc/limitations.md:273 promises does not
  refuse it.
* `MCNonLocalJump` with `Abandons = TRUE`, `RegistryIsLive`: **the registry names an abandoned
  coroutine's frame**, against codegen.rs:3745-3748, when a coroutine is freed in
  mid-call.
* `MCDriver` with the property `LinksOnlyRead` alone: **a link may write into its
  input.** Two objects of one crate (an object moved aside, and the one compiled
  again at its path) have one name in the work directory. The second `hard_link`
  is refused there, and the copy that is tried instead (driver.rs:1520) goes
  through the first one's link into the user's object, and so into what any other link
  checked that was given this object. `CratesClash` excuses these commands in the
  properties of `driver`; `CheckedIsLinked` asks that no run clashes.
* `MCPreprocess` with `Units <- StrayUnits`, `HeadersKeepGroups`: **an `#endif`,
  `#else` or `#elif` in a header acts on its includer's group** (pp.rs:4351),
  where C's groups are each within one file; compilers report it.
* `MCPreprocess` with `Units <- ElseUnits`, `SameOutput`: **a guard with an
  `#else` counts as a guard** (pp.rs:4773-4817): the second inclusion gives
  nothing instead of the `#else` part.
* `MCAtomicCode` with `Thread = {t1}`, `MaxSpurious = 0`, `Operations <-
  AllAndUntyped` and the invariant `OperandTyped`: **`p += n` on an atomic pointer
  and some shifts declare the operand's temporary with the type the operation is
  computed in** (codegen.rs:8215) and give it a value of the operand's own type,
  which does not compile.
* `MCDeclarations` with `Alphabets <- Enumerators`, `MeansTheSame` (one vocabulary
  for each; `-continue` shows all): an enumerator at file scope beside an `extern`
  of its name in a block is overwritten, since `declare_extern_object` takes file
  scope to hold linked names only (mod.rs:1356-1366, decl.rs:2121); `enum { T =
  sizeof(T) }` where T is a type outside is refused, since the parser declares the
  enumerator before it reads its value (parse.rs:2596; C11 6.2.1p7 has it begin
  after); and an enumerator declared in the condition of an `if` or a `while`
  stays a value for the parser after that statement, when for sema it has gone
  (stmt.rs:227).
* `MCInitializers` with a case in `Shown`, `SameObject` (`CInit!Unlike` defines them):
  - "part of a copy": **`{ .a = s, .a.y = 2 }` loses `s.x`**, as in GCC. The comment at
    init.rs:1233-1239 has the second update the first, but an expression's value is
    not a `RecordLit` that could be (init.rs:1265).
  - "opened again": **a value that goes on into an aggregate which an earlier
    designator reached begins it anew**: `int m[2][2] = { [1][1] = 5, [0] = {1}, 7 }` has
    `m[1]` be {7, 0} where C and GCC have {7, 5} (init.rs:715 replaces the slot).
  - "member again": **a union's member named again after another keeps what it had**
    (the slot at init.rs:892 is of the first time), where the object held the other.

## 4. What is proved

`tlapm` checks every leaf; there are no assumptions but the constants' own.

**Relooper** (`ReloopProofs`). For every number of blocks and
every set of graphs whose blocks are all reached from the entry
(`NAssumption`, `GraphsAssumption`):

* `NoBlockLost`: once the shapes are made, every block is in exactly one.
* `HeadsAlwaysSplit`: the heads of an irreducible region split into one group
  each, so `make_loop`'s "cannot happen" does not.
* `ChecksHold`: every jump of the shapes has a construct to leave, and the walk of
  the tree counts each block once. Of what `plan` checks, only `MAX_NESTING` can fail.
* `LabelsAlwaysAgree`: the labelled blocks `nesting` counts are those that are opened.
* `EntryAlwaysInScope`: what a jump assigns is what the dispatch it goes to reads.
* `ShapesRunTheGraph`: the emitted code takes the steps of the graph, in shapes as
  in the state machine: `ExecutesGraph` without its fairness (`CfgRun`'s `CfgSteps`).
* `RelooperInvariant`, `PlanInvariant`, `RunInvariant`: the inductive invariants.

None of the properties is inductive. That no block is lost needs to know that each
call's blocks are all reached from its entries without leaving them (the code
appends nothing for a block no entry reaches), that the calls in progress hold
disjoint sets, and that these and the placed blocks are the whole graph.
`StackInv` says so through `Span`, "every closed set that holds the entries holds
the blocks", which is what survives cutting edges, splitting off groups and
leaving a loop: `SpanRemainder` and `SpanPart` are those three facts about
relations alone. `StackStep` reduces each action to what it does to the sets the
top call holds; then there is a lemma per action. TLC checked the parts first.

That every jump can be written is a second invariant, `JInv`, on top of it. The runs
are a tree (`TreeOK`). An edge out of a placed block is `Served`: its target is an
arm of its own block, begins a shape further on in its run or in one around it, or
is the head of a loop around it (`Escapes`); or a call in progress around it still
has it among its entries or groups. For a step to keep this, the edges left must
lead only to what the same call or a call below it *begins* with (`EdgesInv`), a
hidden edge to the head of a loop around (`CutInv`), and the calls must be nested as
their runs are (`ChainInv`). `KInv` adds what labels and state variables rest on:
no two shapes that follow another begin with one block, and no two loops share a
variable. `RunFall`, `RunScopes` and `RunsAround` are defined along the way to the
root: `Climb` shows that such a function exists, and `ParentInduction` what holds
of all its values. TLC checked these parts, too, before they were proved.

`ShapesRunTheGraph` needs of the plan one thing more, `LInv`: the run that an arm or a
loop's body names *begins* with a shape of the entries, and the state variable, that
its holder counts on (`Begins`), also where no shape has been put in it yet. Then
`RunInv` says of the code while it runs where control may stand: at a shape or at
the end of a run whose exit leads to the block chosen, the state variable read there
holding that block (`Standing`). Each way on keeps it. A fall into an arm or a body and
a step past a run's end do by `LInv`; a `break` or `continue` because the construct it
leaves is the one `JInv` says there is, and no declaration between takes back what was
assigned (`Lands`); a branch on a state variable because an arm or what follows has
every entry. A block that is run is then one that the terminator chose.

**Clean-up passes** (`CfgCleanProofs`). For any number of blocks and any graph the
lowering may make (`BlocksAssumption`, `LoweredAssumption`: a block holds its own
statement or none, every target is a block, and a jump has one and no choice):

* `PassesKeepRuns`: whatever the passes have done so far, from the start the graph
  does the same statements in the same order, with the same choices, as the one lowered.
* `NumberedAsPromised`: after `renumber` the entry is 0, every block is reached, and
  the numbers are the reverse postorder of a depth-first walk: there is a tree that has
  them so and whose branches every edge keeps to. `ShapeRun` takes its graphs so.
* `TypeCorrect`: the type invariant, and that every target stays a block.

`SameRuns` compares what two walks settle on, so it rests on where a walk of jumps
stops. Of `N` steps two are at one block (`FS_PigeonHole`), so a walk that does not
stop in that time never does: `Settles` is then independent of the number of
steps, and threading a jump (`ThreadingSettles`) or merging a block that has one way
in (`MergeInv`) changes no place where a walk stops. The way in is counted by
`preds`, which is why `PassInv` says that they are right *while* blocks are absorbed,
although each absorption moves edges. For the numbers, `Walked` says what the stack
of a depth-first walk is: a path of a tree (`Tracked`, `Rooted`, `TreeOf`), what has
been left being below what has not, so that `order` holds a block before all
below it; read backwards it gives numbers that keep every edge (`Renamed`). TLC
checked `PassInv` and `Walked` on three blocks first.

**Declarations** (`DeclarationProofs`). For any names, any vocabularies of which
`AlphabetsAssumption` says only what kinds of items there are, and units of any
length and depth:

* `MeansTheSameHolds`: two names are taken for one thing exactly when C has them mean
  the same, and nothing C allows is refused, if the vocabularies keep `NamesApart`:
  no name is both an enumerator's or a type's and a function's or `extern` object's, nor
  both an enumerator's and a type's where the unit has statements or the one's value is
  the size of the other. Each clause leaves out one of the three differences of
  section 3, *Enumerators*; without it the property is false.
* `ClosedHolds`, likewise: every name in a generated item has an item or a declaration,
  and so has every definition that an `asm` names.
* `SymbolsAsCHolds`, likewise: the object file exports what C says the unit defines for
  others, imports what C says it takes from them, and gives each object that is defined
  one item, with the value of the one declaration that has one.

`MeansTheSame` compares every pair of names, so that one wrong lookup breaks it, and what a
lookup gives depends on all scopes there are. The invariant `Reads` says how sema's
scopes stand to C's. `Scoped`: what is in an inner scope was written after what is in
those around it, so that C's latest declaration is sema's innermost. `Denoted`: a scope
denotes what was declared in it, but a function is in the file scope only, wherever it was
declared, and an object with linkage in both. Hence nothing may stand between (the code
refuses it) and the file scope may hold what C does not let a name see there.
`Linkages` and `Allowed` are what C guarantees of the declarations before, `Told` is the
property itself, `Numbered` that ids are never used twice. `Parsed` is the parser's side: it
has a scope for each of sema's but those of statements (`Aligned`), in which no name
is declared that is a type elsewhere. `Values` and `Bodies` are why nothing is
"redefined": what has a value or a body has a declaration in the unit that gave it. There
is a lemma for one more declaration (`AddsGood`), one for one
more use, and one per action on top. TLC checked `Reads` first.

The other two are about the tables. From `Reads` the unit is a set of rows (`Rows`,
`Usages`: what was written, where, and what it was taken for) that are `Consistent`: two
rows have one meaning when they have one entity, linked rows of one name agree, and one
of them at most defines. `Tabled` says what the tables hold in these terms alone, not in
the order of the declarations: an object is `extern` as long as all its rows are
(`ObjectsAs`), a function has the flags its rows at file scope give (`FunctionsAs`), an
object that is stored has one item (`StaticsAs`), and a use is known to the body or the
initialiser that C says it is in (`UsesAs`). A step adds one row, and there is a lemma
for each thing it may do to a table. At the end of the unit a flag of a function
or the storage of an object *is* what C says of its name (`FunctionEndsAs`,
`ObjectEndsAs`). `Walked` is the invariant of the walk: the roots are reached, what was
reached and is not in the work-list has had its uses reached (`Followed`), and nothing
reached is unneeded (`Wanted`). When the list is empty the first two make what is
reached a set that C's `Needed`, the least one, is within (`NeededFound`); `Wanted` is
the other half.

**Runtime cache** (`RuntimeProofs`). For any number of runs, ids and keys
(`PlacesDiffer`, `SomePid`): `NoHalfRuntime`, `NoFalseFailure`, `ScratchOwned`,
`PlacedStays`, and `CacheIsStore`, the step-by-step refinement of the store. The
invariant adds what each step of a build has in its scratch directory
(`BuiltInOrder`), that a directory in place is empty or finished
(`PlacedFinished`), and `PidsApart`: living runs have different ids, so nobody
writes into another's scratch directory. A crashed run's leftovers are excused
by `Blame`, which is why clearing the directory first is needed.

**Atomics** (`AtomicProofs`). For any threads, numbers of calls and operations,
any number of values of the types, and any arithmetic:

* `Typed`: the inductive invariant `IInv`: the object holds a value of its class,
  and each thread has, at each place of its code, the temporaries that the code
  up to there gives values to (`ThreadOK`).
* `OrdersAreKept`: the orders written are at least those asked for, and none is one
  that its method panics at.
* `Implements`: the code implements `AtomicObject`: one step of each operation
  is the access, which sees and leaves what C says, and the others leave the
  object alone. What the temporaries hold after it is the answer.

Assumed is that a type has two values at least and their number divides that of
the type it is widened to (`SizeAssumption`), that operators take integers to
integers and floating values to floating values (`ArithmeticAssumption`), and
that the operations are records of C's, the byte
builtins on bytes (`OperationsAssumption`). The crux is
`UpdatedIsComputed`: computing in the representation, then converting, is
converting, then computing as C says (`CutTwice`, `RoundTrip`); and
`ReprTellsApart`: a comparison of representations is one of values, which is why
a loop over a NaN ends. A loop's exchange implements the access only because it
compares with `current`, from which the new value was computed.

**Driver** (`DriverProofs`). For any number of runs,
files, compilers and inputs, and any commands:

* `InputsAreKept`: a user's file changes only when a run that was asked for it
  writes it.
* `OutputsAreWhole`, on one file system, and `BrokenIsBlamed`, on two.
* `CheckedAreLinked`: a link hands rustc the objects it checked.
* `DriverInvariant`: the inductive invariant `IInv` below them.

Assumed is that commands and what is in the files before are records of their
kinds (`BuildsAssumption`), and that a name is no inode's and no content's
(`NamesApart`). All four are about who else can reach a file. `IInv` says what
each place of the code knows (`Control`); that a run has made no name or inode
that it has not come to (`NoneAhead`); that a user's name is never for an inode
of a work directory but one delivered there (`FilesApart`, `Homes`), nor two
runs' names for an inode of one of them (`Private`, `Apart`); that a run
delivers and writes what is its own or what it was asked for (`Hands`); and that
a crate's name is taken only when two objects are of one crate (`Libs`), which is
why only a clash writes through a link. `Steady` adds that a whole file stays
whole under a rename; `Blamed`, that what is broken has a run that opened it.
`CheckedAreLinked` follows an object through its three names: the user's, the
work directory's and its crate's. `Matched` says that the first of them keeps
what was checked (`Agreed`) because nobody who writes it works beside the link
(`Overlaps`), that the inode behind the others is written by no one (`Guarded`),
and that a crate's name leads to it (`Loads`). TLC checked each part first.
`RuleFollowsObject` is not general: two runs asked for one object break it, so
it stays with TLC and the commands of the run.

**Arena** (`VlaProofs`). For any number of calls, declarations, chunks and
requests:

* `ListsAreApart`: a chunk is in one list, of a call or spare, and there once.
* `LiveStaysInPlace`, `LiveStaysApart`, where no array is empty: no object that is
  alive is above its call's position or shares a byte with another.
* `LoopsDoNotGrow`, likewise: declarations that are reached again and again hold one
  array's room each.

Assumed is that scopes nest (`ScopesNest`), and that sizes are numbers of which one
is the largest (`SizesAssumption`). `NonEmpty` is a hypothesis of the last three and not
of the first: with sizes of zero they are false, which is the zero-length array above.
None is inductive. `Chunked` adds that a position is in a chunk of its call
(`Settling`). `Orderly` says of a call why giving back is safe: allocas end below
the floor (`Floored`); blocks' frames are stacked, each mark above all that the blocks
around it hold (`Stacked`); and a graph, which has no stack, keeps its marks sorted
by scope (`Sorted`): the arrays in whose scope a declaration stands are marked below
it, and an array ends below every mark that is above its own. So a declaration that
is reached again, and forgets every mark not below its own, forgets none that is in
scope there. An object ends at a position (`Ends`) in a chunk that stays while the
position is there or above, and `GivenAbove` says that a new one is above all that
end there, whether `bytes` found room, went on to a chunk or took a spare list. That
arrays are not empty is needed only for two marks never to be the same.
`Packed` counts the marks below a position. Each part was checked by TLC first.

**setjmp and longjmp** (`NonLocalProofs`). For any threads, stacks, units and
buffers, and any depth and serial numbers:

* `RegistryNamesTheLive`, unless coroutines are freed in mid-call: a thread's list
  for a unit is exactly its live frames there.
* `JumpsAreMeant`, where moreover no thread gets a finished one's stack: a jump
  that is not refused goes to the activation that filled its buffer in.
* `WalkedJumpsAreNotLost`, unless coroutines are freed in mid-call: an unwind that
  was walked first never comes to a frame it cannot leave, which is what
  is safety in `JumpsLand`; that it goes on is liveness.
* `StacksAreOwned`: the type invariant, and who has which stack, without either
  hypothesis.

Assumed is that there is a stack and a unit (`JumpBounds`). The hypotheses are those
whose absence the two findings above are about: with `Abandons` or `Reuses` the
properties are false. The registry cannot be followed link by link in a proof, so
`Registry` says what it is: a `Chain`, in which each frame links to the newest of
those older than it, and the head is the newest of all. `ChainIsReached` is why that is
enough: were a frame not linked from the head, the oldest linked one that is newer
would link to it. `save` puts a frame before all (`ChainGrows`), since the next serial
number is later than all of a chain's; `drop` hands the frame's link to the one that
named it (`ChainLosesHead`, `ChainLosesOther`). An address and a number tell an
activation because numbers are given once by a thread (`Holds`) and a stack stays
its thread's (`StacksAreKept`). `Aimed` follows a walked unwind: its frame stands on the
stack that unwinds, nothing before it blocks, and no other thread's step disturbs
either (`ElsewhereStays`), though `drop` relinks frames of other stacks.

Beyond this prover stay with TLC: liveness (`EveryRunAnswered`, `JumpsLand`,
`EveryCallEnds`, `EveryRunCleansUp`, the fairness half of `ExecutesGraph`), ENABLED,
and what recursive definitions compute for every input (`SameEvents`, which runs what
the recursive lowering made, and all of `Preprocess` and `Initializers`).

## 5. What the models assume and leave out

* A terminator's condition is a nondeterministic choice among its targets.
* The relooper's labels are places; the Rust text of a label is left out. The
  statements of a block, and calls out of it, are the block's name.
* Process ids are different for runs that live at once on one file system; two
  containers that share a cache directory can break this. A killed run's rustc
  dies with it. `rename` of a directory is atomic, and refused when the target
  is not empty.
* In the lowering a computed `goto` reads its target where the code does, after
  the cleanups it runs; an operand that such a cleanup changes is not modelled.
  The names and initialisers of hoisted locals are left out.
* A coroutine stays on its thread. A `jmp_buf` is not written by two threads at
  once. Signal masks and the site number that a landing dispatches on are left
  out. A frame that a signal interrupted and one that cannot unwind are one kind.
* The arena's overflow checks, its zeroing of memory and the pointers' types are
  left out. One thread: each has an arena and a spare list of its own.

* The preprocessor's tokens have no white space, places or literals. A macro carries
  the kind of file it was defined in, which a unit gives, not the search path. `_Pragma`,
  `__VA_OPT__`, the built-in macros, `#embed`, `#line`, `#error`, poison and the
  `__has_` tests are left out, and a file is found by its name.
* Units of `Declarations` are those C allows, of objects, functions, enumerators
  and typedefs without types: what depends on the compatibility of types is left
  out, as are tags, weak, thread-local, section and constructor attributes, nested
  functions, GNU89 inline, implicit declarations and `asm` in functions. The model
  is of an object file (`reachable_only`); the macros keep everything. The code declares
  what the unit does not define when its name stands anywhere in the text written, the
  model when something means it: the code may declare more, never less. A function
  declared in a block where its name means something else is refused by the code
  (decl.rs:2746) and not written in the model.
* Initialisers of vectors and of flexible array members, the limit on elements, and
  what may be folded are left out. In a list that is refused only that it is refused
  is compared. What a scalar's list holds after its first item is dropped, as in GCC.
  Outside the items of the run, the code differs from GCC in these: a string for a
  designated struct that begins with a character array, or for a member that is an
  array of such arrays with its braces left out, is refused; so is a compound
  literal where the braces of a struct of another type were left out (init.rs:537
  takes it for the whole); after a range within a designator,
  `.a[0 ... 1].x = 1, 2`, the code goes on in all the elements and GCC in the last.
* What GCC does not say of a `nand` on a `_Bool` is taken from the code: the logical
  one. The refusals that depend on an operand's type are left out of `Refused`.
* A loop around `compare_exchange_weak` sees one order of all accesses to the
  object: memory orders are compared, not executed.
* In the driver the crate's name is what is hashed into it, a command's files
  exist, and archives, shared libraries, the linker's own LTO
  (`linker_lto`: bitcode that lld optimises as one program), `-save-temps` and the stages that stop
  before an object are left out.

### Not modelled

Each with what its behaviour is; none has an order of events that these runs
could vary.

* *Source capture and lexing*: pure functions from tokens to text to tokens.
* *Expression and statement code generation, complex numbers*: one node of the
  tree to Rust tokens at a time, most of codegen.rs by volume.
* *Structured goto regions, setjmp placement*: walks of one function's tree; in
  the plan, since what they accept is what the lowering relies on.
* *Types, conversions, constant folding, builtins*: sema's other half, a typed
  translation of a node at a time.
* *Crate directory search cache*: in the plan.
* *Tables*: targets, registers, intrinsics (x86/table.rs is generated), attributes,
  options; *output*: diagnostics, dumps, the printer, dependency files, ELF.
* *Runtime arithmetic*: complex floating-point arithmetic, which TLC has no
  values for. *Entry points*: no state.

## 6. Plan

In this order; an item ends with its runs, mutants and README section.

1. `CfgLower` over the trees of `Regions` too, so that both lowerings are
   compared with `CStmt`; the names of hoisted locals. `Regions`: which lists of
   statements keep their structure; that every jump is left with a construct
   around it.
2. `Locate`: the cache of listings under concurrent searches and changing files.
3. `Declarations` with tags and with types that are composed; nested functions.
4. The lowering as recursive functions instead of operators, so that what it makes of
   each statement can be proved about.
