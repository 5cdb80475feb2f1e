# BuildLang: a TLA+ model

BuildLang is a compiler written in Rust (`src/compiler/src`) for a language with
algebraic effects. It comes with a C runtime that is linked into every compiled program,
a Rust runtime library (async tasks, garbage collection, FFI tables), a language
server and a package manager. This directory holds TLA+ modules that model the
parts of it whose correctness depends on the order of steps, TLC configurations
that check them on small instances, and TLAPS proofs about them.

1. [The system](#1-the-system)
2. [The modules](#2-the-modules)
3. [The runs](#3-the-runs)
4. [Where the code and its documentation disagree](#4-where-the-code-and-its-documentation-disagree)
5. [Proofs](#5-proofs)
6. [What is not modelled](#6-what-is-not-modelled)
7. [Plan](#7-plan)

How to run: `tlc -config <run>.cfg <module>` in this directory (the table of runs
names both), and `tlapm <module>Proofs.tla` for each module of proofs.

## 1. The system

`ARCHITECTURE.md` says that the Rust compiler is the implementation; `future/`,
`buildlang/` and the `.bld` files at the top are written in the language itself.
`compiler/src/runtime/STATUS.md` says that the Rust runtime library (`async_rt`,
`gc`, `ffi`) is not linked into compiled programs: it is a library with its own
callers and tests.

| Part | State | Operations | Correct when | Hard because |
|---|---|---|---|---|
| **Effect handlers** (C runtime `codegen/runtime.rs`, lowering `codegen/lower`, effect check `types/infer.rs`) | `__build_handler_stack`, the linked `BuildHandler` locals (effect, parent, `jmp_buf`, arguments), the C stack | push, pop, perform (walk + `longjmp`); lowered `handle`, `perform`, `return`, `?`, `break` | a perform reaches the nearest enclosing handler's clause; the linked stack mirrors control; no pointer to a dead struct is followed; an unhandled effect aborts | non-local jumps, structs that die with their function, exits that skip the pop, a static check that has to match |
| **Executor** (`runtime/async_rt.rs`) | task states, `tasks`, `global_queue`, each task's children and waiters | spawn, spawn_child, cancel, block_on/run_task, wake, join | no wake of a waiting task is lost, no task is polled by two threads, a finished task stays finished, block_on returns | threads, wakes at any time, a lock held over a whole poll |
| **Channel, semaphore, oneshot** (`runtime/async_rt.rs`) | buffer/permits/value, flags, lists of wakers | try_*, register_*, close, release, send | values keep their order, permits are conserved, nobody sleeps beside what it waits for | atomics outside the locks, stale wakers |
| **MIR: lowering, analyses, string frees** (`codegen/lower`, `builder.rs`, `codegen/analysis`, `backend/c.rs`) | the blocks and locals of a function; dominators, live sets, move states; owners, frees, drop flags | lower a statement; dominators, liveness, drops, flags, linear check, structuring; the frees printed | each analysis is what its definition says; each buffer is freed at most once and not used after; a linear value is spent once | fixpoints on graphs, four placement rules that must agree on every path |
| **Hash maps of the C runtime** (`codegen/runtime.rs`) | a table, a count, a sequence number | insert, get, contains, remove, keys, grow | a map is the ordered map it looks like | probe chains that removals cut, growth |
| **Language server** (`lsp/`) | documents, lifecycle state, two channels, three threads | initialize .. exit, didOpen/Change/Save/Close, requests | answers come in order, about the text of their time; shutdown ends the process | pipes that close at any point, messages under way |
| **Unifier** (`types/unify.rs`, `ty.rs`) | one substitution | unify, bind, substitute, occurs check | bindings are acyclic and most general; nothing accepted is broken later | calls that fail half-way keep their bindings; coercions that hold for values only |
| **Origins of callbacks** (`types/infer.rs`) | scopes of access paths with sources, open loop frames | let, assignment, patterns, branches, loops, break | the receipt of a call through a variable names every function it may reach, and no function it cannot | snapshots and merges at every exit, scopes, shadowing |
| Timer wheel, deque, workers (`runtime/async_rt.rs`) | timers by deadline, a per-worker ring | add, cancel, process; push, pop, steal | every due timer fires once; no task is lost | locks held while waking |
| Garbage collector (`runtime/gc.rs`) | strong/weak counts, colours, candidate buffer; arena chunks; pool | rc_inc/dec, collect; alloc; free | no header is used after it is freed, cycles are collected | long sequences of legal calls |
| Expression inference, effect rows, capabilities (`types/`) | types, rows, capability sources | infer, row union, check | no effect escapes | recursion over data |
| Package manager (`pkg/`) | dependency graph, lock file, registry index and cache | resolve, lock, update, publish, yank, fetch | a resolution satisfies every requirement; a lock file is reused only when it still fits | backtracking |
| Macro expansion, module graph, BQL | hygiene marks, import graph, flow store | expand, build graph, rename, drift | expansion ends, cycles are found | depth limits |
| Lexer, parser, AST, formatter, diagnostics, other backends, CLI, receipts, GPU and numeric tables | none that outlives a call | pure functions and I/O | output tests | not order-dependent |

The parts in bold have modules.

**How they interact.** The type checker's unifier and effect rows decide which
programs are accepted; its record of callback origins goes into the check receipts.
The lowering turns the accepted program into MIR, the analyses decide where frees,
drop flags and merge blocks go, and the C backend prints the result with calls of the
C runtime: the handler functions, strings and maps. `EffectHandlers` spans check,
lowering and runtime of effects; `MirPrograms` spans lowering, analyses, backend and
execution of strings and linear values; `CallbackPrograms` spans inference and
execution of callbacks. In the async runtime the channel, semaphore, oneshot, timers
and joins keep `Waker`s and call `Waker::wake`, which enters the executor
(`wake_task`) on whatever thread the caller is; the executor polls tasks, which call
the others. The language server runs the front end on a document's text.

`PROJECT.json` lists all components (with the reason where one is not modelled) and
the hazards with their lines and the properties aimed at them.

## 2. The modules

| Module | Models |
|---|---|
| `NestedHandlers` | the abstract promise of `handle`/`perform`: scopes nest, the nearest answers |
| `EffectHandlers` | the C runtime's handler stack driven by any lowered program |
| `AsyncExecutor` | executor, wakers, joins, cancellation |
| `AsyncChannel`, `AsyncSemaphore`, `AsyncOneshot` | the three synchronisation primitives |
| `MirCfg` | the control-flow graph; reachability, dominators, liveness, move chains |
| `StructuredCfg`, `DropInsertion`, `LinearMoves` | merge blocks of branches and loops; where strings are freed; the check of linear values |
| `MirLowering` | statements lowered to MIR, one action each |
| `MirPrograms` | all of these composed, and the compiled function run |
| `OrderedMap`, `HashMap` | what a map promises; open addressing, which implements it |
| `LanguageServer` | the editor, the pipes, the reader, writer and main thread |
| `Unifier` | unification over one substitution |
| `CallSources` | the inference of statements with callback variables |
| `CallbackPrograms` | the same functions, run |
| `MC*` | constants for TLC |
| `EffectHandlersProofs`, `AsyncExecutorProofs`, `AsyncChannelProofs`, `HashMapProofs`, `LanguageServerProofs` | theorems about the module they are named after |
| `AsyncPrimitivesProofs` | theorems about `AsyncSemaphore` and `AsyncOneshot` |
| `MirProgramsProofs` | theorems about `MirPrograms` and the modules it composes |
| `SetInduction` | induction, recursive functions and remainders, for the proofs |

### EffectHandlers

Three layers act on one state. *The runtime*: `top` is
`__build_handler_stack`, `parent[h]`, `env[h]` and `data[h]` are the fields of the
`BuildHandler` local of handle expression `h`; `PushHandler`, `PopHandler` and the
`Walk*`/`Jump` actions are `build_push_handler`, `build_pop_handler` and the loop of
`build_perform`, one step for each iteration. *The lowered code*: `EnterHandle`
(`lower_handle` up to the body), `LeaveHandle` (the end of the body or of a clause:
pop and merge), `Perform` (`lower_perform`), `Return` (`lower_return` and the error
path of `?`) and `Break`; the last two emit only a `ret` or `goto`. *C itself*
(external): `calls` is the C stack, `Context` what `setjmp` saves, and a struct dies
(`env[h] = NULL`) when its function's activation ends, by `Return` or by `longjmp`.
Following a pointer to a dead struct ends in `pc = "undefined"`, since C gives that
no meaning.

The program is not fixed. `text` is chosen in `Init` among all well-nested
placements of the handle expressions, and a step may call, return, enter or perform
wherever the text and the effect check (`Checked`) allow. `Checked` is the rule of
`infer_handle`/`infer_perform`: an effect is accepted in a body that handles it, in
a function that declares it, and in any clause, because `infer_handle` infers the
clauses' effects without adding them to the row. Three switches select classes of
programs: `EarlyExits`, `OuterPerforms` (perform an effect past a nearer handler of
another one) and `Reenter` (evaluate a handle expression again).

A handler is popped at the end of its clause, so a clause that performs its own effect
is answered by its own handler again; `NestedHandlers` states it that way, as nothing
in the documentation says otherwise. `resume(v)` is lowered to the value of the clause, so a clause that resumes and one
that does not are the same action.

`NestedHandlers` has no pointers: a list of scopes, the effect asked for, an
outcome. The refinement maps `scopes <- active`, `outcome` and `asked` from `pc` and
`walk`; walking the list stutters, `Jump` is `Answer` and `WalkEnd` is `Abort`. For
disciplined programs (no early exit, no perform past a nearer handler, one operation
for each effect) `EffectHandlers` implements it (`ImplementsNestedHandlers`).

### AsyncExecutor

Each thread has a list of operations still to do (`todo`), innermost first, so that
`block_on` → `run_task` → `notify_waiters` → `wake_task` nests as in the code and
every load, store and critical section is an action another thread can come
before. `qlock` is `global_queue`'s guard where it outlives one action: in
`block_on` the guard is a temporary of `if let Some(task) = ....lock().unwrap()
.pop_front()`, which Rust 2021 drops at the end of the whole `if let`, after
`run_task`. `tlock` is `tasks`' guard where it does: in `wake_task`, between the
load of the state and the store of `Ready`. A task's `poll` is any future: it
completes, waits for an event (an I/O source that then holds its waker), or joins
another task the way `JoinHandle` asks for (`register_wait`, then `is_finished`).
`spawn` makes tasks without a poll function; those complete at once, as `Task::poll`
says. `EarlyWake` lets an event wake a task before its poll has returned, and again.

`wake_task` acts on a Waiting task and drops every other wake, that of a Running task
which `run_task` is about to store Waiting of included. The history variable `missed`
has the tasks that this happened to since they last began to run; it guards nothing.

### AsyncChannel, AsyncSemaphore, AsyncOneshot

The primitives only offer `try_*` and `register_*`; the clients use them as the
interface asks: try, register, try again, wait (the retry is what closes the window
between a failed try and the registration). One action is one critical section or
atomic access; `compare_exchange_weak` may fail spuriously. `try_send` tests `closed`
before it takes the buffer's lock, so `TrySend` and `Send` are two actions. Waiter
lists are popped at the back, as `Vec::pop` does.

A client is a task of the executor, so its wait and its wakes are `run_task`'s and
`wake_task`'s: `Park` stores Waiting whatever happened before, and a wake of a client
that is not asleep is dropped (`GoWaking`, `WakingLast`, `SendWake`). The history variables
`missed` and `dropped` remember such wakes and guard no action of these modules. Clients interleave freely, as
tasks polled by several threads do; one `block_on` at a time polls one task at a time
(it holds the queue while it polls), which is a part of these behaviours.

### MirCfg, StructuredCfg, DropInsertion, LinearMoves, MirLowering, MirPrograms

A function body is a sequence of blocks as in `ir.rs`, with the statements that move,
borrow or read a string or a linear value. *MirLowering* is the compiler's front half:
`blocks`, `current` and `scope` are the fields of `MirBuilder` and of the lowering
context, and every action is one source statement lowered the way `expr.rs` lowers it,
with the blocks it creates (`OpenIf`, `OpenWhile`, `OpenLoop`, `OpenFor`, `Close`), the
jumps and the unreachable block that lowering leaves behind a jump. The analyses of
`MirCfg` are loops that run until nothing changes, written as such (`Fixpoint`, and
`Closure` for a worklist): recursive functions, which proofs can speak about. Conditions are
opaque. The programs are not fixed: TLC writes every program of a *small language*, a
set of kinds of statements and a size.

When the body ends (`Finished`), `Generate` does what `generate_function` does: it
runs the analyses, each an operator on the graph, and chooses the frees in the order
of the code: owners freed at every return, in their block, at death sites on several
blocks, or guarded by a drop flag. A function that the linear check rejects goes no
further. The `Run*` actions execute what the backend prints, a block at a
time, either way at every branch: `vals` and `heap` are C's locals and buffers, and
`heap` counts the frees of each buffer and remembers a use after one. Helpers that
take a reference to a linear value are tables (`bodies`): what they return is fresh, what the
reference points to, or what another helper returns.

`StructuredCfg` recovers merge blocks; the ghost variable `intent` remembers what
each branch was lowered from, which the code does not.

### HashMap, OrderedMap

`slots`, `len` and `next_seq` are the fields of the C struct, `hash` the hash function
at the keys in use: TLC chooses it freely from a few values, since the code can tell no
more of two keys than whether they collide, and where. `Insert` grows the table
first, as the code does even when it only replaces a value. `Repairs` is the string-keyed map,
whose removal takes the rest of a cluster out and places it again; without it the
module is the i32- and i64-keyed maps. `OrderedMap` says what a program sees: a
function and the keys in insertion order. The refinement maps them to `Get` and
`KeyList`, where `m.keys()` collects the seqs and keys of the entries (`SeqKeys`) and sorts them
by seq (`Sorted`: the n-th key is the one with n - 1 before it).

### LanguageServer

One action is one turn of a thread's loop: `read_message` (reader), `Write` (writer),
and the handlers of `handle_raw_message` (main), each with its replies. The channels
are unbounded, as `mpsc::channel` is. The editor opens, changes, saves and closes
documents, asks, sends requests the server cannot read, and may close either pipe
at any moment, one of them within a message. A text is a sequence of characters; a feature's
answer carries the text it was computed from, which is all the properties ask of it.
`owed` and `text` belong to the editor: what it is entitled to, and what it believes
the document to be. `due` and `heard` are history: the same two for a reader of its messages
that takes a change for the text of its first edit, as `decode_did_change` does.

### Unifier

`subst` is the field of `Unifier`, and `unify` its method, called on any two types of
a small set; `unify_impl` has the arms of the Rust match in their order. A call that
fails half-way leaves its bindings in `subst`, and inference calls again. `accepted`, `asked`
(the last call and the bindings before it) and `calls` are history.

### CallSources, CallbackPrograms

`source_bindings` is the field of the type checker: a stack of scopes, each from access
paths (`ops.loader`) to sources. A path is a sequence of a name and a member. Each writing
action is a statement and what the `infer_*` function does with it: `Let`,
`LetPattern`, `Assign`, `Open` (if, if let, match, while, while let, loop, block),
`NextArm`, `Break`, `Continue`, `Close`. The operators carry the names of the Rust
functions. `for` loops bind callbacks in ways section 4 lists and are left out; so are
tuples, arrays and nested structs, whose members are bound as a struct's are.

`CallbackPrograms` then runs the function (external: `env` is what C's locals hold)
down every path, with loops run any number of times, and compares: `seen` keeps the
bindings inference had before each statement, `Recorded` what
`record_effectful_callee_sources` would list there. Inference sees a loop's body once, so a
value remembers of each open loop whether it was stored in this pass of it (`now`) or in
an earlier one (`before`), and whether it came one of the ways that section 4 lists as
misread (`lost`); an assignment's attribute `astray` says that it is booked in another scope
than its variable's. Every program of the languages is written and run; these marks
only say of which values `OriginsRecorded` speaks.

## 3. The runs

Ten runs finish without an error. `PROJECT.json` names for each of their properties a
change of one definition, like a bug somebody could make there, under which TLC finds
the property violated. Two runs, `executor_blocks` and `origins_promised`, end with a
counterexample: they check a promise of a comment or of the guide that the code does not keep.

| Run | Instance | Shows |
|---|---|---|
| `effects_disciplined` | 3 handle expressions (2 in main, 1 in a callee), 2 effects, every nesting, re-entry | the stack mirrors control, nothing dangles, every walk ends, nested handlers are implemented |
| `effects_once` | the same with early exits, outer performs, an effect of 2 operations; each expression evaluated once | handlers still in scope are never lost, "Unhandled effect" is never a false alarm |
| `executor_races` | 3 tasks, 4 threads: two in block_on, one delivering events early and repeatedly, one cancelling; joins; a child spawned | each task is in exactly one place (queue or hand) when it is Ready, in none when Waiting; a waiting task that has missed no wake has one to come; a completed task is never brought back |
| `executor_blocks` (violation) | 2 tasks, one thread in block_on, one delivering their events at any time | a wake between the poll and the store of Waiting is dropped, and block_on spins for ever |
| `channel_close` | 2 senders, 2 receivers, 3 values, capacity 2, a close anywhere | first in, first out; the capacity holds; a close wakes every task that sleeps when it gets there, and only who missed a wake sleeps on |
| `async_primitives` | 3 tasks, 1 permit, 2 rounds; then 3 senders and a receiver | permits are conserved; the receiver never takes `None`; who waits is served unless a wake went to a task that was not asleep |
| `mir_programs` | nine small languages of 3 to 5 statements, nested up to 3 deep, 3 values at run time | no buffer is freed twice, freed before it exists or used after its free; flags mean what they say; a loop holds one buffer at a time; dominators and liveness equal their definitions on paths; merge blocks are those the source has but for `while a && b`, which is misread in one way; linear values are spent once |
| `string_map` | 4 keys, first capacity 4, hashes 0, 3 and 7, up to 5 new keys | probes end, every entry is found, the ordered map is implemented |
| `language_server` | one document, 4 messages of 11 kinds, either pipe closed anywhere | answers in order and about the right text, current diagnostics, nothing lost or reordered on the way, every request answered, shutdown ends the process |
| `unifier` | 14 types over 2 variables and 2 literals, 3 calls | acyclic bindings, nothing accepted is broken, literals become numbers or references, what a call adds is most general |
| `call_sources` | twelve small languages of 2 to 7 statements after the declarations, loops run any number of times | a call's recorded sources include what it reaches, unless the value came one of five named ways; in straight code they include nothing else |
| `origins_promised` (violation) | `while`, `if`, `break` and assignments, 7 statements | what a break of a `while` loop leaves in a variable is not recorded |

**Bounds.** *Handlers*: three expressions over two functions give every relation two
handlers can have (nested in the same function, in a caller, in a clause, abandoned
in a dead function) with a third to be the nearer or the abandoned one; `calls`,
`active` and the stack are bounded by one activation per function. Effect ids are
distinct model values; `OpId` is the hash the compiler computes for short names.
*Executor*: `MaxPending` (1) bounds how often a poll may answer Pending: a task is polled,
parks, is woken, perhaps twice, and polled again. Two block_on threads are
enough for two to hold the same task; three tasks for a joiner, its target and a child.
*Channel, semaphore*: `Rounds`, `Sends` and `Receives` bound the traffic; two rounds
let a task come back to a list it left a waker in, and with three tasks one holds the
permit, one sleeps and one has such a waker. The oneshot starts when the semaphore's tasks
are done, so that the two do not multiply; they share nothing.
*MIR*: each language has the statements of one question (loops with moves; exits with
frees; linear values with references) and is explored to its end; five statements are
a definition, a loop, a definition in it, a move and a use after it. `MaxValues` ends an execution that
would go round its loop for ever: three buffers are two passes of the body and
one from before the loop.
*HashMap*: with capacity 4 the table grows at the fourth key, with two keys of one
hash and one that wraps around its end; `MaxSeq` 5 lets removed keys come back.
*Language server*: the properties relate a message to those still under way; four are
an open, a change, a request and a close or shutdown.
*Unifier*: two calls that set up bindings and a third that meets them; each coercion
has a type that calls for it.
*CallSources*: five or six statements hold two nested constructs with an assignment in each;
seven a loop with an assignment, a branch that breaks and another assignment.

**Fairness.** Effects: weak fairness of `build_perform`'s loop, a C loop that runs.
Nothing is assumed of the program, which may stop. Executor: strong fairness of each
thread's next step, which stands for three things: the OS schedules threads, a mutex
released over and over is eventually acquired, and an event a task waits for happens.
Channel, semaphore, oneshot: weak fairness of each client that is not asleep, of a
close that has begun, and, in the semaphore, strong fairness of a compare-exchange
that succeeds (`compare_exchange_weak` retries in a loop, and does not fail
spuriously for ever). No fairness is assumed of `close` itself: it may never be called.
Language server: weak fairness of each of the three threads; the editor owes nothing.

**Deadlock** is not reported (`CHECK_DEADLOCK FALSE`): programs exit, abort or end,
clients stop. A wait that should end is checked as a liveness property or as an
invariant (`NoLostWakeup`, `CloseReleasesAll`).

## 4. Where the code and its documentation disagree

Two of these are runs of their own. Of the others, those that a constant or a class of
programs keeps out of the passing runs are listed with it (changing it and checking the property
makes TLC show the disagreement), and those that are in the runs with the property whose
statement has them.

**Effects.**

- *Jump past inner handlers* (`OuterPerforms = TRUE`, `NoDanglingHandler`):
  `longjmp` to an outer handler leaves the inner ones linked (`runtime.rs:2121`). The
  clause's pop then removes an inner one, and once the inner handler's function is gone
  its struct is read after its lifetime. `docs/EFFECTS_GUIDE.md:637` says that handlers
  can be nested.
- *Early exits* (`EarlyExits = TRUE`): `return`, `?`, `break` and `continue` out of
  `handle` do not pop, though `lower_handle`'s comment says every exit path does; a
  later perform may reach a handler control has left.
- *Two operations*: `lower_perform` passes a hash of the operation's name,
  `lower_handle` switches on `clause number + 1`; with two or more clauses none is
  reached. (With one clause the default branch hides it.)
- *Effects of clauses*: a clause may perform what nothing handles and the checker
  accepts it (`infer.rs:5524`): the program aborts.
- `handler_data` points into the performing function's frame, which has ended when the
  handler is in a caller.
- `handle FileSystem { .. } with { }` removes a built-in capability from the row although no
  operation of it is handled (`infer.rs:5518`); a call of an overloaded function takes
  no effects from its candidate (`infer.rs:5133`); a call through a parameter of a
  generic type `F` records none.

**Async runtime.**

- *block_on against itself* (`Joins <- JoinA`, `EarlyWake = FALSE`, `BlockOnReturns`): completing a joined task inside block_on wakes the
  joiner, and the wake locks the queue block_on still holds (`async_rt.rs:610`).
- *Dropped wakes* (run `executor_blocks`): `Waker::wake` is documented as "scheduling it
  for execution" (`async_rt.rs:108`), but `wake_task` (`:432`) drops the wake of a Running
  task, which `run_task` then stores Waiting of (`:639`). `block_on` never returns.
  Every primitive inherits it: a task whose wake falls between its second try and its
  sleep sleeps on, beside a value, a permit or a closed channel. `NoLostWakeup`,
  `NobodySleepsOnClosed`, `CloseReleasesAll`, `EveryoneAcquires` and `ReceiverServed` say that
  nobody else does.
- *Stale wakers* (`EveryoneAcquires`, its `missed`): a waker registered before a
  successful retry stays in the list; a later release pops it, its task is not
  asleep, and the sleeper stays asleep beside a free permit. The channel's lists work the same way.
- `Cancelled` is overwritten when the task is being polled or woken, and a child
  linked after its parent's children were read is not cancelled: hence
  `CompletedStaysFinished` speaks of Completed only.
- A send that passed its test of `closed` may store a value after receivers have learnt that the channel is
  closed and drained. Two sends of a oneshot can both return `Ok`.

**MIR and strings.**

- *Moved strings* (`UsesAfterMove = TRUE`, `Grammars <- MCCareless`,
  `FreedAtMostOnce`): `let p = c;` in a loop acquires the buffer of an outer `c` once
  per pass, and the frees release it once per pass. The front end accepts it:
  `docs/MEMORY-PILLAR-DESIGN.md:202` says the checker forbids a use after a move,
  line 269 of the same document says it does not.
- *Conditions with `&&`* (`MergesAsWritten`, which says what happens): in
  `while a && b` both arms of the branch on `a` lie in the loop, the case that
  `structured_cfg.rs:116` calls ambiguous and says should not fire. The branch is
  taken for a loop over `b` that ends when `a` is false, and the loop's own branch for a selection.
- The linear check follows references into functions it knows; `f(&coin)` through a
  function value is accepted whatever `f` does with it (the helpers' entry "indirect" is
  what `escaping_params_fixpoint` does when a *known* helper makes such a call).

**Maps.** *Integer keys* (`Repairs = FALSE`, `EntriesFound`): `build_map_remove`
(`runtime.rs:938`) and its i64 twin only clear the slot, so a key behind the removed
one in its chain is no longer found. The comment at `runtime.rs:1092`, on the
string-keyed map, describes the defect.

**Language server.**

- *Incremental edits* (`Messages <- Ranges`, `TextInSync`, `AnswersAsOwed`): `decode_did_change`
  (`raw_params.rs:89`) drops the range of a change and all changes but the first;
  `server.rs:1021` asks every client for incremental changes. `ServesWhatItHeard` holds there
  too: this reading of a change is the only thing between the server's texts and the editor's.
- `exit` without `shutdown` does not end the process, `shutdown` does (the protocol has
  it the other way round), and no handler looks at the lifecycle state.
- At the end of the input after a complete message the reader thread spins
  (`transport.rs:204`: an empty line ends the headers), and the process stays.
- After a message without a Content-Length its body is read as headers, so the reader
  does not find the next message's beginning by itself.

**Inference.**

- `coerce_arg` (`infer.rs:2965`) drops the references of a `&mut T` passed as `&T` and
  unifies the rest as values: widths that `unify` keeps apart behind a reference
  (`unify.rs:78`) coerce.
- *Literals* (`LiteralsStayNumbers`, which says so): `literal_cannot_be` (`unify.rs:19`) does not
  look behind references, so a literal may become `&str` by way of `&a` and a binding of
  `a` that a failing call left, which the comment at `unify.rs:140` rules out; and a float literal
  may end as an integer when it meets an integer literal first. A
  variable that meets `!` is bound to it and accepts any type afterwards.
- *Residue of failing calls* (`MostGeneral`, which speaks of the bindings in force): a call
  that fails half-way, such as `fn(b) -> str` of effect `io` with `fn(a) -> b` of none,
  keeps what it has bound, and a later call may refuse a pair that could be
  solved together with all those accepted.
- *Origins of callbacks*. The guide says that merges are conservative
  (`docs/EFFECTS_GUIDE.md:212-229`, `301-316`, `360-366`). What they lose (in all of it the
  function that a call reaches is not among its recorded sources; `OriginsRecorded`
  excepts the value):
  - *Exits of loops* (run `origins_promised`): a `break` or `continue` of a `while` loop leaves no
    snapshot (`infer.rs:1125`), so in `while c { a = g; if d { break; } a = f; }` the `g` that
    a break leaves in `a` is lost; a break out of a `loop` from inside another loop
    leaves its snapshot with the inner one.
  - *Later passes*: a body is inferred once. In
    `loop { if stop { break; } loader = load_secret; }` the exit of the second pass
    has an origin that nothing recorded, and so has a call or a copy before the assignment.
  - *Assignments gone astray* (`infer.rs:1068`): one in a nested block to a
    variable without a binding (declared without a value, a parameter, or holding a
    closure) is booked in the block and lost, or in an outer variable of the same name.
  - *Structs read where they are assigned*: `ops = ops` and `let ops = Ops { saver: g, ..ops }`
    clear the tree before they read it.
  - *Selected structs*: `ops = if c { x } else { y }` keeps the members of the last branch only.
- `for f in [a, b] { f() }` records no origin for `f`; `f` bound to a callee
  without a name shows the origins of an outer `f`.

## 5. Proofs

Each theorem holds for every value of the constants that satisfies the assumption of
its module and the hypotheses named here. TLC evaluates the assumptions in every run, and checked
each inductive invariant on the instance of the run before it was proved.

**`EffectHandlersProofs`** (assumption: `ProgramAssumption`, that is, finite handlers,
each the local of one function, each with a clause for every operation of its effect):

- `TypeCorrect`: `Spec => []TypeOK`, for every program and every switch. The
  interesting cases are `Jump`, which restores a saved context, and `Return`, which
  kills structs.
- `StackFollowsControl`, `NoDangling`, `AbortsOnlyUnhandled`, for disciplined
  programs: the linked stack is the chain of active handle expressions, no dead struct
  is read, and only an effect nothing handles aborts. None is inductive. `MirrorInv`
  adds that active regions and calls nest as the text does and every active handler's
  function is running, that an active handler's `env` holds the context with exactly
  the calls and regions below it (this is what makes the state right *after* a
  `longjmp`), that an expression is active at most once, and that the walk has not
  passed the handler it looks for. Its parts are preserved action by action
  (`MirrorCall`, `MirrorReturn`, `MirrorEnter`, `MirrorLeave`, `MirrorJump`,
  `MirrorWalkOn`).
- `Refinement`: disciplined programs implement `NestedHandlers`, from the same
  invariant: the initial state maps to an initial state and each action to one of
  the abstract actions or a stutter.
- `AbortsOnlyUnhandledOnce`, `ActiveNeverPopped`, for programs that evaluate each handle
  expression at most once (`~Reenter`), with early exits and jumps past inner handlers:
  such a program may leave abandoned handlers on the linked stack, and pop one of them
  instead of its own, but it never loses a handler that is still active. The stack no
  longer mirrors control, so the invariant `OnceInv` speaks of which structs lie below
  which: some assignment `B` of the set of structs below each one follows the links (`Linked`);
  the active handlers lie on the stack in the order they were entered
  (`Nests`), and so they do in every context that is saved (`SavedNest`), which is what
  a jump restores; a walk has the handler it looks for still ahead of it (`Ahead`). Programs
  that evaluate an expression again have a struct linked to itself, and both theorems fail.

**`AsyncExecutorProofs`** (assumption: `ExecutorAssumption`: finitely many tasks; the
threads' calls name tasks; each task is spawned at most once, since `spawn` draws a new
id from `next_task_id`, `async_rt.rs:454`). The inductive invariant `Inv` says of each
lock which operation, innermost on some thread, still has to release it (`LockInv`),
and of each task which one of the places it can be in holds it: the queue, or one operation of
one thread (`ClaimInv`).

- `TypeCorrect`, and `TasksHeldOnce`: a Ready task is in one place, the others are in none.
- `CompletedIsFinal`: no wake, event, join or cancel makes a completed task run again.
- `WakeupsNotLost`: a wake is lost in one way only, by finding its task still running. The wake of
  a waiting task that has missed none is with an event source, in a thread that is about
  to make it, or in the waiters of a task it joins that has not finished or not yet
  notified them. Events come early and repeatedly, tasks join, are cancelled and spawned; the
  invariant follows the waker of a joiner through `register_wait`, the store of
  Completed or Cancelled, and the list that `notify_waiters` takes.

**`AsyncChannelProofs`** (assumption: `ChannelAssumption`: a capacity, numbers of sends
and receives, and senders, receivers and closers that are different tasks):

- `TypeCorrect`, with the capacity: a sender sees room and stores under one lock.
- `ChannelIsFifo`: accepted values are delivered in order, closes included.
- `SleepersAlwaysListed`: a sleeping task has a waker of its own in its list, or a wake of
  it was dropped since it registered. Wakes pop the last waker, often one of a task that no
  longer waits, so what is kept is about the waker of each task: from its registration on
  it is in the list or its wake has been made.
- `CloseReachesSleepers`: once a close has returned nobody is asleep but those whose wake came
  before they slept. The invariant
  follows a close through its three steps: which tasks, at which place of their loop,
  can still be unaware of `closed`, before and after each list is emptied.

**`AsyncPrimitivesProofs`** (assumptions: `SemaphoreAssumption`, finitely many tasks;
`OneshotAssumption`, no sender is `None`):

- `TypeCorrect` and `PermitsAlwaysConserved`: permits free and held add up to the number
  the semaphore was made with, for any number of tasks, permits and rounds. The
  inductive invariant `Inv` is the shape of the state and the sum together: that a
  successful exchange cannot go below zero needs `seen > 0` for a task about to exchange,
  and that a release cannot exceed the maximum needs the sum.
- `ReceiverTakesAValue`, since every sender stores a value before it stores `completed`
  and only the receiver takes one; `SleeperAlwaysWoken`: a receiver asleep on a
  completed oneshot has a sender that is about to wake it, or was woken before it slept.

**`HashMapProofs`** (assumption: `MapAssumption`: a capacity that is a positive multiple of four,
hashes that are natural numbers, a fallback of `get` that is no key):

- `ProbesAlwaysEnd`, for the maps of every kind of key: `len` counts the occupied slots and a quarter of
  every table is unoccupied.
- `EntriesAlwaysFound`, for the string-keyed map (`Repairs`): every entry is found
  by the probe for its key. The invariant `MapInv` says that no key has two slots and that
  the probe for an entry meets no unoccupied slot before it (`Good`). Growth keeps that
  because each entry goes to the first unoccupied slot of its probe (`PlaceGood`,
  `RegrowGood`). Removal is the hard case: while the cluster behind the gap is being placed again,
  the entries that are still to be moved are not reachable. `Moving` is the
  invariant of that loop: with the table laid out as a line that ends at the
  cluster's end, every entry up to the one moved last has its home behind it and no
  unoccupied slot between, the entries from there on are where they were, and none has its
  home beyond the end. `MoveOne` shows that an entry placed again goes to the gap or
  stays where it was, and `ClosedGood` that the map is sound when the loop ends.
- `MapIsOrderedMap`, for the string-keyed map: it implements `OrderedMap`. The three loops
  move entries about and neither lose nor change one (`Entries`, what the table holds wherever
  it is, in `RegrowGood`, `PlaceGood` and `ClosedGood`), and a table of which every entry is found
  is to a program no more than its entries (`SameEntries`, `GetIs`). The invariant
  `ListInv` adds that the entries' seqs are distinct and below `next_seq`. The list of the
  keys then follows the entries: a new greatest seq is sorted last (`SortedAdd`), a seq taken out
  leaves the others in their order (`SortedDrop`), and a replaced value changes no seq
  (`ReplaceLists`).

**`LanguageServerProofs`** (assumption: `MessageAssumption`, on what a message of the
editor consists of):

- `AlwaysServesWhatItHeard`, for every editor, one that sends ranges too: what is written are
  the answers due by the server's reading of the messages, in order, and when all are handled the
  store holds what that reading amounts to. Up to any
  number of messages lie in the pipe and in the channel between what the editor said and the server's
  document, and replies in the other channel. The invariant `ServerInv`
  says that these messages lead from the one to the other: applied one by one (`Effect`) to the
  documents they end in `heard`, and the answers due on the way (`Due`),
  after those already sent, end in `due` (`Leads`). Each handler takes one message off
  the front and makes its effect and its answer real (`LeadsTail`, `Turn`); the
  editor puts one at the end (`LeadsAppend`). Once the writer has stopped only the
  written part need be right, and it is a prefix of what was (`AnswersExtend`).
- `AnswersAlwaysInOrder`, `DiagnosticsStayCurrent`, for an editor that changes a
  document by sending its new text (`SendsWholeTexts`, as the run's does): what it says and what is
  read of it are then the same (`HeardRight`). With ranges both fail (section 4).

**`MirProgramsProofs`** (assumptions: `HelpersAssumption`, finitely many helpers, none with
the name of a runtime function; `TablesAssumption`, a helper returns one of the four things listed
there), for every small language, of any size and depth, and any run of its programs:

- `BodyAlwaysGood`: the body under construction is well-formed and well-typed at every
  moment, and every reference comes about through a statement of the body (`LowerInv`, one
  lemma for each action of the lowering). The others rest on it.
- `DominatorsAlwaysCut`: the loop of `compute_dominators` ends, and x is in the set of y exactly
  when every path from the entry to y goes through x. That such a loop ends at a
  fixpoint is a lemma of its own (`FixpointReached`: each round that changes something climbs a
  bounded rank). That the sets are right is then two directions: what all paths go through
  survives every round (`SweepStays`), and a block that some path avoids is
  struck off along that path (`DominatorsCut`).
- `LivenessAlwaysExact`: the live-in sets are the locals that some path uses before it
  defines them. `LiveBeforeIs` says what the walk back through a block
  computes, `RoundIs` what one round does; each set grows up to the
  set of paths and no further, and at the fixpoint it is closed under steps back (`LivenessIs`).
- `LinearAlwaysSpentOnce`: what the linear check accepts never passes a linear value by value
  twice and never uses a moved local, helpers included. The check is a fixpoint over the
  blocks (`MovedSettled`), and the execution follows it: `LinearInv` says that the locals
  that are moved out of are among those that the check has as moved at `pc`, and that each
  value not yet spent is in at most one local that is not (`Held`). A statement, a block, and
  each kind of call keep that (`StatementFollows`, `BlockFollows`, `RunSpendStep`,
  `RunHelperStep`). A helper may take the value out of a
  reference, and what it comes down to is found by the check and by the execution in two ways:
  `EndsEscape` says they agree, and `RefsShared` that every reference whose referent can be
  taken out was counted as one by the check.
- `FlagAlwaysHeld`, `NeverUsedAfterFree`, for programs that use no string after they moved it
  (`~UsesAfterMove`, as in the run; section 4 has what happens otherwise). Nothing in the
  placement rules knows which locals own a buffer; the lowering does. So there are two
  invariants. `OwnedInv`: the body can be annotated with the strings that own a buffer before
  every statement, such that only owners are read and a successor counts on no more than it is
  passed (`OwnedIn`); every action of the lowering extends the annotation (`StringsStep`), and for a
  construct that is still open, the blocks that are yet to be entered are owed what is in scope.
  `BuffersInv` is about the execution: the annotated strings hold a buffer, no two
  of them or of the candidates for a free the same one, and what is set as a flag, or
  owned and no candidate, or a candidate that the live sets say is still to be read, was not
  freed (`Sound`). A free keeps that because no rule frees at the start of a block what the
  block still needs (`FreesUnneeded`: `ScopedUnneeded` from the one definition and its
  block's one successor, `DeathUnneeded` from the live sets, which are exact), and a read finds what
  was not freed since what a block reads it owns (`BlockSound`).
- `ScopedAlwaysFreedBefore`, for the same programs: a block-scoped owner is freed at the start of
  the one block its own block goes on to, and by nothing else (`ScopedPlanIs`). So wherever an
  execution is, its last buffer was freed once, but for the start of that block, where it was
  not (`ScopedAt`); no other free can be of that buffer, since no two candidates hold the same one
  (`Sound`). What a block defines holds a fresh buffer when the block ends (`BlockScoped`), whether
  a call made it or a move handed it on.

**`SetInduction`** has what the library states for an operator, and no installed prover can
instantiate, stated for sets: induction up to a number (`UpTo`), that a recursive function exists
(`Iteration`), what is kept along one (`Stays`), and remainders. The recursions
of `HashMap` (`Regrow`, `Closed`), of the linked stack (`StackAt`) and of
`LanguageServer` (`Answers`) are handled with them.

**Only model-checked.** Liveness (`PerformEnds`, `BlockOnReturns`,
`CloseReleasesAll`, `EveryoneAcquires`, `ReceiverServed`, `RequestsAnswered`,
`ShutdownEnds`) is out of the prover's reach. Of `MirPrograms`, `FreedAtMostOnce` and
`MergesAsWritten`: the multi-block placement and the merge blocks are right only for graphs whose loops have one
entry, which lowering makes, but which an invariant of the lowering would have to say. The properties of
`Unifier` are about recursion over type trees, by recursive operators, and those of `CallbackPrograms` about folds
over scopes and sources of any number; what a recursive operator
computes for every input is beyond the prover. `NamesDiffer` is an assumption only TLC uses.

## 6. What is not modelled

- *Effects*: the values performs and clauses pass, string hashing of effect names,
  locals that C leaves indeterminate after a jump.
- *Executor*: `on_complete` callbacks, panics (nothing in the executor catches one),
  `park_condvar` (it is notified, nothing waits on it), the workers (there is no worker
  loop), statistics.
- *Memory order*: the flags and counters of the channel, semaphore and oneshot are
  atomics with `Acquire` loads and `Release` or `AcqRel` writes, the rest is under
  mutexes; the models are sequentially consistent. `Relaxed` appears only in the id
  counter, the steal order's random numbers and statistics.
- *MIR*: match, closures, methods, containers, arithmetic, types; rvalues that neither
  move nor borrow. The runtime functions that allocate or borrow strings are
  represented by one of each kind (`concat`, `printf`).
- *Maps*: iteration while the map changes has no form in the language. Insertion of a
  key whose allocation fails: the C code does not test `malloc`.
- *Language server*: the results of features, the workspace index, JSON.
- *Unifier*: annotations, unit dimensions, lifetimes, ABIs, projections, higher kinds;
  the inference of expressions, traits and generics around it.
- *Callbacks*: closures, async blocks, tuples, arrays, enum payloads, nested structs, `for`.
- *Other components*. The timer wheel and the deque have no caller in the repository,
  `gc.rs` is not linked into programs and nothing but its tests calls it, the registry's
  HTTP always answers with an error: they come after the parts programs depend on.
  Lexer, parser, macro expansion, formatter, diagnostics, the LLVM, SPIR-V, WASM, Rust
  and assembly backends, the scientific runtime, receipts and the CLI are pure
  functions or I/O, for which tests of the output say more than a model: they are most
  of the source lines.

## 7. Plan

1. *Done*: effects, the executor, the channel, semaphore and oneshot, the maps, all with
   proofs of their safety invariants, and so the language server; MIR from lowering to
   execution, with proofs of its analyses, of the linear check and of what is read after a
   free; the unifier; origins of callbacks.
2. Proofs: what remains of `MirPrograms` (that no buffer is freed twice), from an invariant of the lowering
   on the shape of loops; the merge blocks from the same.
3. A module that composes the executor with the timer wheel and the channel, whose
   wakes happen under their own locks (lock order).
4. `RefCounts` (strong, weak, candidates, collection against a reference definition of
   garbage), `MemoryPool`, `Arena`; package resolution against "some assignment
   satisfies all requirements" and lock file reuse.
