# TLA+ models of HaoLang

HaoLang is a compiled language: a C++ compiler (`src/src`) that emits LLVM IR, a
C runtime (`src/stdlib/runtime_*.c`) and a standard library written in HaoLang
(`src/stdlib/src`). Three things in it are hard to get right and hard to test.
The runtime has a concurrent, generational mark and sweep collector with a
cooperative stop-the-world handshake, channels with `select`, a thread pool,
native handles with finalizers. The compiler makes promises to that collector
and to the programmer which no single line of its output shows: that operands
are rooted, that a `finally` runs once, that a value keeps its meaning through
promotions, conversions, closures and reflection. And the library has data
structures, parsers and server loops whose errors show only after long
sequences of legal calls. These modules model all three. TLC checks small
instances of them; TLAPS proves the central facts about the handshake, marking,
the mark epoch, the sweep, channels, the thread pool, native handles, the
segmented map, exceptions and `finally`, static initialisation, the lock file and
the HTTP server for every size.

Contents: 1 inventory, 2 modules and their code, 3 runs, 4 deviations, 5 proofs,
6 what is not modelled, 7 plan, 8 how to run.

## 1. Inventory

Paths are relative to `src/`. The state of a component is what its C globals,
structs or thread locals hold; for the compiler, what its generator keeps while
it walks a function, or what the code it emits keeps while it runs.

### The collector, `stdlib/runtime_gc.c`

*Stop-the-world handshake and collection cycle.* State: the thread table
`gc_threads`, the GC mutex, `gc_stw_request`, `gc_stw_release`, a thread-local
`g_parked` per thread, the watchdog trip, `gc_phase`, `gc_collecting`,
`gc_scanned_tids`. Operations: register and unregister a thread, safepoint,
park, enter and leave an OS block (and `arm`/`disarm` for waits on condition
variables), the SIGUSR2 handler of the POSIX build, a collection with its root
and termination handshakes, abort. Threads and collector talk through flags
read without a lock. Hard: the collector counts flags while the mutex is free,
threads come and go meanwhile, every wait has a wall-clock budget that may run
out anywhere, a cycle can give up at five places. Correct if: the sweep follows
only a handshake that scanned everybody; every way out leaves no request, no
open barrier and no parked thread; flags are read only of threads that exist.

*Concurrent marking, write barrier, generations.* State: colours, the grey
worklist, roots and root slots, the remembered set, generations and ages.
Operations: allocate (black while marking), barrier then store, roots, seed,
scan a parked thread, drain (collector, workers or allocating threads), decide
termination, sweep, promote. The compiler emits the barrier in front of the
store (`src/irgen/IRGenValue.cpp`), so a mark may begin or a thread may park
between the two only where the code allows it. Correct if: nothing a program
can reach is freed; a scanned block never points at a white one; what was
garbage when a major cycle began is gone when it ends.

*Concurrent sweep, doomed list, finalizers, weak references.* State: the list
`gc_heap` and the sweep's pointer into it, the doomed list, pending finalizers,
the weak table. The sweep gives the mutex up every 2 ms; allocation pushes at
the list head meanwhile; finalizers run on whatever thread collected or
allocated and may resurrect. Correct if: no reachable block leaves the heap, no
white block is skipped, no mutex is left owned, weak references hand out live
objects only.

*Mark epoch counter.* One byte. A cycle takes a new value instead of clearing
colours, a cycle that gives up takes another. Correct if an old colour never
becomes current again.

*Span allocator, page index.* State: spans and their allocation bits, the lists
of spans per size class, the page index that turns an address into a block, the
count of free bytes. Spans are got with the mutex given up, freed when their
last block goes, scavenged, and their addresses used again; an allocation that
finds no memory collects, up to three times. Correct if the index finds the
blocks there are and no other, and the count is that of the spans there are.

### Channels, `stdlib/runtime_channel.c`

State per channel: a ring (or one slot), `closed`, a mutex, two condition
variables, the list of enrolled selects; per select a waiter on the caller's
stack with its flag. Operations: make, send, recv, trySend, tryRecv, close,
drop, select. Payloads that are heap objects are rooted in the collector before
the mutex is taken and unrooted after it is given back. A blocked thread counts
as parked for the collector (`hao_gc_os_block_arm`, `disarm`). Correct if: it is
a FIFO queue in which every call takes effect once; no wake-up is lost although
a signal wakes one sleeper of whichever kind; roots balance on every path; no
waiter outlives its select.

### Thread pool and handles, `stdlib/runtime_thread.c`, `runtime_handle.c`

Pool: a list of closures, a mutex, a condition variable, worker threads,
`shutdown`, `joined`. Submit roots the closure, the worker unroots it after the
run. Shutdown comes from the program or from the finalizer of the pool's handle,
which joins the workers and frees the pool. Correct if: closures stay rooted
while needed, work is not left lying, nobody touches a freed pool, shutdown
ends and accepted tasks run.

Handle: `raw`, `drop`, `closed`, and a finalizer on the object; nothing is
locked. Correct if a resource is released once, not used afterwards and never
forgotten.

### What generated code does: `src/irgen`, with `runtime_exception.c`, `runtime_reflect.c`

*Exceptions.* A thread's stack of frames (`g_excStack`), the shadow stack of
root slots, and per function one slot `unwind.reason` for all its try
statements. Every way out of a try (normal end, return, break, continue, a throw,
a throw in a catch) goes through one cleanup block, which runs the finally and
dispatches on that slot. Correct if it does what structured exceptions promise
and the object in flight stays rooted.

*Operands and spill slots.* A pointer that an expression holds in a register
across a safepoint must be in a root slot before (contract R9 of
`docs/IR与GC契约.md`). About fifty constructs do this by hand; slots in loops come
from a pool with a cursor, marks and pins. Correct if no operand is freed, given
up or overwritten before it is read.

*Layout and dispatch, static initialisation.* Stages of `IRGen::generate` that
copy fields, number slots and fill tables; a guard per class with static fields.
Correct if a call reaches the nearest override, a base's part comes first, and a
class is initialised before it is used.

*Numbers, types, calls, closures.* Eleven number types with promotions, written
three times (evaluation, inference, compound assignment); assignability and
conversion, two pieces of code that must agree; binding of positional, named and
rest arguments and the choice of overloads; variables that lambdas capture in
cells or copies. Correct if a value keeps its meaning.

*Reflection.* A table the compiler writes, look-ups by name, calls through
generated functions of one shape whose arguments travel as an array of Long.
Correct if what is done by name is what would be written in the language.

### The library, `stdlib/src`, with `runtime_regex.c`, `runtime_net.c`

*Collections.* A hash map with linear probing and tombstones whose entries also
hang in a list, a map of sixteen locked segments, a red-black tree. Correct if
each is the abstract map it stands for, after any sequence of calls.

*Regular expressions.* A compiler to nodes and a backtracking matcher with
limits on nodes, groups and steps. Correct if a match reported is one, with its
groups, and matches come in order.

*HTTP.* A reader that finds messages in a stream that comes in any pieces; an
application with routes bound from annotations, filters, interceptors, pipeline
and static mounts; accept loops on one thread, several, or a boss with a pool;
`close()` from any thread. Correct if messages come out as they were put in,
requests are answered by what their route declares, connections are served once
and closed, and the loops end.

*JSON.* A parser, values, paths, beans, and a writer the compiler generates for
every class. Correct if text that is JSON is read and what is written is read
back as it was.

### Packages, `src/mod`

Version order and constraints, a walk of the dependency graph that picks
versions, sources in order, a local repository, a lock file with hashes. Correct
if the lock meets every constraint met on the way and holds nothing else.

### The rest

| Component | State and operations | Why not here |
| --- | --- | --- |
| Mutex primitives (`runtime_sync.c`, `sync.hao`) | a mutex and a condition behind a handle | the spin lock is in `ConcurrentHashMap`; the rest are calls of pthread |
| Strings, arrays, boxes, printing, metrics | data conversion | no state machine |
| Processes, files, time | system calls | pure I/O |
| Text, math, Html packages | sequential data handling | wording |
| Grammar, AST, symbol tables | generated parser, look-ups | section 6 |
| Driver, linker, tools, scripts, docs, examples | | not part of what a program does |

`PROJECT.json` lists all of them with their files, and under `hazards` the 40
places where this code can go wrong in a way a test would hardly reach.

## 2. Modules and their code

The runtime:

| Module | Models | Lines of the source it stands for |
| --- | --- | --- |
| `GcStw` | handshake and control flow of a collection | `runtime_gc.c`: registration, safepoints, parking, `gc_stw_enter_and_scan_soft`, `gc_collect_inner`, abort |
| `GcMark` | marking, barrier, roots, remembered set, sweep decision | `runtime_gc.c`: `gc_enqueue`, `hao_gc_barrier`, seeding, scanning, drain, promotion |
| `GcSweep` | unlink loop, doomed list, finalizers, weak table | `runtime_gc.c`: second half of `gc_collect_inner`, drain, `gc_drain_finalizers`, `hao_weak_*`, `set_finalizer` |
| `GcEpoch` | the 8-bit epoch | `runtime_gc.c`: `gc_bump_mark_epoch` and its users |
| `MarkSet` | abstract: a set of marks that is emptied when a cycle begins | what `GcMark` assumes, what `GcEpoch` implements |
| `SpanHeap` | spans, page index, free bytes, the out-of-memory path | `runtime_gc.c`: `gc_mspan_*`, page index, `gc_alloc_ex`, drain, scavenging |
| `Channel` | channels and select | `runtime_channel.c`, nearly all |
| `Mailbox` | abstract: FIFO queues, calls that take effect once | what `channel.hao` promises |
| `ThreadPool` | pool, workers, shutdown | second half of `runtime_thread.c` |
| `NativeHandle` | handles, and join | `runtime_handle.c`, `hao_thread_join` |

The compiler and the code it emits:

| Module | Models | Lines of the source it stands for |
| --- | --- | --- |
| `ExcFrames` | try, catch, finally as compiled | `IRGenExcept.cpp`, `runtime_exception.c` |
| `TryFinally` | abstract: structured completions | what the language promises of try |
| `SpillPool` | the slots that nested loops share | `IRGenValue.cpp`, `IRGenControl.cpp`: scopes, cursor, pins, recycling |
| `TempRoots` | operands across safepoints, construct by construct | `IRGenExpr.cpp`, `IRGenCall*`, `IRGenValue.cpp`: where `rootGcOperand` is and is not called |
| `StaticInit` | guards and initialisers of static fields | `IRGenClass.cpp`: `ensureInit`, `staticinit` |
| `ClassLayout` | fields, slots, tables of methods | `IRGenClass.cpp`: stages of `IRGen::generate` |
| `Arithmetic` | operators and their types | `IRGenExpr.cpp`, `IRGenValue.cpp`, `Type.h` |
| `TypeRules` | assignability, conversion, casts, overload costs | `Type.h`, `IRGenValue.cpp`, `IRGenClass.cpp` |
| `CallBinding` | arguments to parameters | `IRGen.cpp`: binding, packing, passing by reference |
| `Captures` | variables that lambdas use | `IRGenLambda.cpp`, hoisting in `IRGenControl.cpp` |
| `Reflection` | calls, objects and fields by name | `runtime_reflect.c`, `reflect.hao`, `emitClassMeta` |

The library and the package tool:

| Module | Models | Lines of the source it stands for |
| --- | --- | --- |
| `LinkedHashMap`, abstract `OrderedMap` | the hash map with a list through it | `LinkedHashMap.hao` (and `HashMap.hao`, which is the same without the list) |
| `ConcurrentHashMap`, abstract `AtomicMap` | segments and their spin locks | `ConcurrentHashMap.hao`, `sync.hao` |
| `RedBlackTree` | insertion, removal, repair | `RedBlackTree.hao` |
| `Regex` | pattern compiler and matcher | `runtime_regex.c`, `Pattern.hao` |
| `HttpWire` | messages in a stream | `Http.hao`, `ByteBuf.hao` |
| `HttpApp` | routing, binding, filters, answers | `Mvc.hao`, `Channel.hao`, annotations in `IRGen.cpp`, scans in `reflect.hao` |
| `HttpServer` | accept loops, threads, close | `Mvc.hao`, `Http.hao`, `Channel.hao`, `runtime_net.c` |
| `Json` | writer, parser, beans, paths | `JSON.hao`, `JSONObject.hao`, `JSONPath.hao`, `emitJsonWrite` |
| `ModTidy` | resolution, lock, verification | `src/mod` |

`MC*` are the instances for TLC (sets, symmetry, search bounds; `PoolSafe` needs
none and runs `ThreadPool` itself) and `*_proof` the theorems. `MCRuntime` and `MCCompiler` each instantiate eleven modules that
share no state: a variable `part` says which one runs, the others keep their
first state, and each property speaks of its part alone. They are one run each
because the questions are independent and small, not because the parts interact.

How they compose. `GcStw` abstracts marking to "the worklist is empty or not"
and keeps every flag, unlock and budget. `GcMark` abstracts the handshake to
what `GcStw` shows it guarantees and does not guarantee: threads park one by
one, a thread counted as parked may run away before it is scanned, the recount
is honest (unless `RootSlip`), a termination that passed has scanned everybody
(`SweepSeesAllStacks` there, `Terminated` here). `GcSweep` abstracts marking to
its result: a superset of what is reachable; `SpanHeap` abstracts both to "some
blocks are doomed". `GcEpoch` implements `MarkSet`, whose set is the variable
`marked` of `GcMark`. `Channel` implements `Mailbox`. `Channel`, `ThreadPool` and
`GcStw` meet in one variable, the stop request: in the first two it is an
environment that raises and releases it. `GcMark` takes from the compiler that
everything a thread may still use is on its shadow stack: that is what
`TempRoots`, `SpillPool` and `ExcFrames` are about. `HttpServer` takes a message
for granted, which `HttpWire` delivers, and a handler for one step, which is what
`HttpApp` decides. `ConcurrentHashMap` takes its segments for maps, which
`LinkedHashMap` shows of the table they are.

Conventions. A critical section is one step from lock to unlock; a mutex is a
variable only where the code keeps it over something that can block or is seen
without it. A read without a lock that later decides something is a step of its
own. Wall-clock budgets, stalls and watchdogs are "may happen at any time". A
variable marked *history* exists for a property only. Operators named "Mutant:"
are altered copies of the definition behind them, each a plausible bug that the
property it is listed with must catch; no specification uses them.

*Gaps.* Nine modules have a set `Gaps` and a constant `Known`. A gap is something
the code does that its property forbids; the model does it too, as long as the
gap is not in `Known` (`Open(gap)`). With a gap in `Known` the model leaves that
case out (the input, the path or the outcome), and the property is checked on
everything else. Taking any one of them out of `Known` makes TLC print a
counterexample. Section 4 says what each one is. The earlier modules do the same
with one constant each (`CatchNests`, `FinallyNests`, `LaterClauses`, `Untried`,
`Late`, `Twins`, `Renamed`, `RehashThrows`, `TornEnd`, `Recursive`, `Ordered`,
`ClientsOrdered`, `RootSlip`).

### Correspondence, module by module

**GcStw.** `threads` = `gc_threads`; `parked[t]` = `g_parked`; `request`,
`release`, `trip` the flags of the same name; `pc` is where a mutator stands
between two flag accesses: `poll` (before reading the request), `park` (before
raising the flag), `wait` (`gc_mutator_wait_stw_release`), `clear` (before
lowering it), `blocked` (in the OS), `lock`, `crit`. The read and the store of
`hao_gc_os_block_leave` are two steps (`OsBlockLeave`, `Unpark`), because the
code has two accesses there. `cpc` is the collector: `round`, `window` (waiting
unlocked), `relock`, `between`, `scan`, `judge`, `drain`, `retry`, `sweep`,
`reclaim`, `abort`. `Signals` adds `gc_park_handler`; `StwSweep` is
`HAO_GC_STW_SWEEP=1`.

**GcMark.** `gap[t]` holds the store between `hao_gc_barrier` and the machine
store. `stack[t]` is everything the conservative and the shadow scan would find.
`Enqueued` has the asymmetry of `gc_enqueue`: a minor mark scans an old block on
the spot. `Doomed`, `Promoted` and `Sweep` are the decisions of the unlink loop;
ages are abstracted to "some marked young blocks are promoted".

**GcSweep.** `prev = Nil` is `&gc_heap`; `Cursor` is the position of `*prev` in
the list. `Yield` and `Relock` are
`gc_sweep_yield_locked`. `fin[t]` holds the three parts of
`hao_gc_set_finalizer` around its two reads of `gc_in_collect`. `pending` and
`called` are the two halves of `gc_drain_finalizers`, whose callback runs
without the mutex and may put its object in a root slot.

**SpanHeap.** A span is a place that is in use or not, with a class, bits and
the slots the index finds. `th[t]` is where an allocation stands: popping a slot
under the mutex, waiting for memory with the mutex given up, or collecting on the
out-of-memory path; the drain frees one doomed slot per step.

**Channel.** `pc` follows a call: `enter` (before the mutex), `asleep`, `wake`
(signalled, mutex not yet back), `disarm` (mutex back, waiting for a stop to
end), `unroot`, `return`; a select walks `next`, `enrol`, `next` again,
`parked`, `leave`. `call` is the primitive in progress, either the program's
call or one case of its select. The refinement mapping to `Mailbox` is
`queue <- Contents`, and `offered` is the senders that wait for a rendezvous.

**ThreadPool.** `wpc` is the worker loop, `pc` a call on the pool, made by a
client or from inside a task. `fate` is the history of a task.

**NativeHandle.** Each unlocked group of reads and writes is a step. `owed` and
`released` are history.

**ExcFrames.** `acts` are the activations with their open constructs, their
unwind slots (`reason`, `ret`) and shadow stack height; the generator's own
stacks (`tryStack_`, `loops_`, `catchDepth_`) are functions of the open
constructs. `exc` is `g_excStack`, `shadow` is `g_shadow`. The steps are the
statements a program may execute next and the dispatch after a cleanup. The
mapping to `TryFinally` reads the completion out of the slots.

**SpillPool.** A behaviour walks the text of a function as the generator does:
it opens, fills and closes loops, tries, conditions and calls in any order.
`pool` has the generator's cursor, high mark, scopes and pins; `hit` and `left`
remember a null store that met a slot still to be read.

**TempRoots.** A path is the sequence of steps, among those that concern
pointers, of the code one way through the generator emits; `Constructs` lists
the paths. A register's content is kept, loose or dead; a safepoint kills what
is loose.

**StaticInit.** A `staticinit` is a sequence of pieces: the initialisers of the
fields, then the body of the explicit static constructor if there is one; what a
piece uses is picked by `Init`. `reg[t]` is the guard a thread loaded before it
compares it; `stack[t]` the `staticinit` calls it is in. An exception is caught in
a piece below, which goes on, or outside all of them. `early` and `runs` are
history.

**ClassLayout.** `stage` walks the stages of `IRGen::generate`; `info` is
`classes_`, `vt` the tables; a slot is the key it is numbered by: the first class
of the chain to declare the method, and what follows the class in the name of the
method, which is bare for the first method of a name and in a generic instance.
`Twins` and `Renamed` admit the programs for which that key is wrong.

**Arithmetic.** `type` and the operands so far are what the generator knows,
bits are what the emitted code holds. The meaning of an expression is computed
on integers and compared with the bits; the foretold type (`inferNodeType`) and
the compound assignments are definitions of their own, as in the code.

**TypeRules.** A state is a value, its static type, and where it was stored. A
step assigns, unwraps, casts, boxes, puts into a generic object or reads from
one, as `isAssignable` and `coerce` let it.

**CallBinding.** `bind`, `evaluate`, `pass` are the three walks of the generator
over the arguments; `trace` is the order of evaluation and `received` what the
parameters get.

**Captures.** `meant` is a memory in which every execution of a declaration makes
a variable; `memory` has the stack slot, cells and copies the code makes. Steps
turn the loop, make a lambda, call one, assign.

**Reflection.** `metas` is the table; a request is looked up, checked, called
through its generated function and answered; a collection may happen in between.

**LinkedHashMap, ConcurrentHashMap, RedBlackTree.** One action per operation; an
entry of the first stays in its slot, so the list is linked by slots; `op[t]` of
the second is where a call stands among the segments; a turn of a repair loop of
the third is a step, its mirror images told apart by a side.

**Regex.** The parser and `re_try_at` are recursive operators, the `Matcher`
object is the state. `WaysFrom`, the meaning of a pattern, is a set of positions
and groups computed without backtracking.

**HttpWire.** The stream is a sequence of tokens that comes in any pieces;
`inbound` is the buffer, `exact` the blocking read of a body.

**HttpApp.** Registrations are carried out one after the other, then requests are
answered. A request is one step: its filter chain and contexts are its own.

**HttpServer.** `pc[t]` is where a thread's loop stands: its test of `running`,
the accept (on the one descriptor), the connection it serves; `tasks` and `pool`
are the event loop group; `closer` is another thread in `close()`.

**Json.** Objects are addresses into `memory`; a text is a sequence of
characters. `Sound` texts are compared with the grammar, what was parsed with
what was written.

**ModTidy.** One step per edge of the breadth first walk and per file that is
copied, so a command can be cut short anywhere; `pub` grows meanwhile.

## 3. Runs

Each run is a `.cfg` with its MC module (`PoolSafe` runs `ThreadPool`). Times are for two workers.

| Run | Instance and bounds | Checks |
| --- | --- | --- |
| `GcStwCoop` | cooperative parking, 3 threads, 2 collections, 2 rounds, 2 retries, symmetry in the two threads that come and go; 2.3M states, 2 min | `ParkedSafely`, `NothingLeftBehind`, `SweepSeesAllStacks` |
| `GcStwPosix` | signal parking, sweep inside the stop, 2 threads, 2 collections, fairness; 217k states | `ReleasedUnlessWedged` |
| `GcMarkMajor` | 2 blocks that are freed and used again, 1 field, 1 slot, 2 threads, 2 major cycles, no search bound; 799k states | `TypeOK`, `NoDangling`, `TriColour`, `MajorFreesGarbage` |
| `GcMarkMinor` | 3 blocks, minor, major, minor cycle; search bounds below; 649k states | `NoDangling` |
| `GcSweepSafe` | 3 blocks, 1 mutator, concurrent sweep; search bounds below; 590k states | `CallersSafe`, `SweepComplete`, `WeakIsLive` |
| `ChanQueue` | capacity 2, 2 senders, 2 receivers, close, drop, stops, fairness; 50k states | `RootBalance`, `NoLostWakeup`, `KeepsPromise`, `CloseReleases` |
| `ChanSelect` | an unbuffered and a buffered channel, select against blocking and trying peers, close of one; 288k states | `NoDanglingWaiter`, `RendezvousTaken` |
| `PoolSafe` | 2 workers, 2 clients, 2 tasks that may submit, failing creation, shutdown by client or finalizer, stops, fairness; 15k states | `MemorySafe`, `WorkersAvailable`, `ShutdownEnds`, `AcceptedFinishes` |
| `RuntimeParts` | the eleven parts of `MCRuntime`; 558k states, 3 min | see below |
| `CompilerParts` | the eleven parts of `MCCompiler`; 480k states, 2 min | see below |
| `ChanTwoSenders` | expected violation | `NoLostWakeup` |
| `GcSweepHead` | expected violation | `NoUseAfterFree` |

The parts of the two composite runs:

| Part | Instance and bounds | Checked by |
| --- | --- | --- |
| epoch | 10 colours, 2 blocks, 2 minor cycles, 3 aborts between majors | `WhiteAtSetup`, `ImplementsMarkSet` |
| spans | 2 places for spans, one size class of two slots and large objects, 2 threads | `HeapSound` |
| linked | 3 keys, hashes that collide or not (up to renaming the keys), capacity 2 growing to 7 | `ImplementsOrderedMap` |
| segmented | 2 threads, 2 segments, 2 keys, all operations, keys that throw, but not while a table grows | `ImplementsAtomicMap`, `SomeoneMoves` |
| balanced | every tree of up to 8 keys | `RedBlack` |
| patterns | every pattern of 3 tokens and five nested ones, every text of 3 bytes, 12 steps | `LibrarySound` |
| wire | two or three requests of every framing, a response of every framing, every cut | `LibrarySound` |
| json | two containers and a leaf of every kind in every way, chains of three, texts of three characters, numbers of four, three texts with one character changed, paths of three steps | `LibrarySound` |
| web | a mapping with every way to write its annotations, handlers of every type and result, two registrations in any order, scans, filters, interceptors, pipelines, mounts; one request each | `LibrarySound` |
| server | 4 modes, 2 clients of 2 requests, 1 thread beside the main one, one failure | `LibrarySound` |
| tidy | 3 manifests over a cyclic graph of 3 modules in 3 versions, 2 sources, one package that appears | `LockSound` |
| handle | 3 resources through one handle, 2 threads, ordered calls | `ReleasedOnce`, `NoLeak` |
| frames | nests of 3 tries, loops and calls; tries with one catch clause, with and without finally, and with two; 2 values | `UnwindSound`, `ImplementsTryFinally` |
| spill | nests of 3, 4 slots of which 3 preallocated | `OperandsSound` |
| temps | every path of every construct, lists of two | `OperandsSound` |
| static | 2 classes of 2 pieces that use each other in every way, exceptions caught in any of them | `InitBeforeUse` |
| layout | every hierarchy of 3 classes, of which one is the instance of a generic class and mentioned in a header; two overloads declared together in either order, one of them, or none; an interface and its child | `LayoutSound` |
| numbers | every operator on 2 and 3 operands of every type, values at the ends of their ranges | `RulesSound` |
| types | every walk through assignments and casts over 3 classes, an interface, wildcards, arrays, functions | `RulesSound` |
| calls | up to 3 arguments in every form, named or not, a rest, two overloads | `RulesSound` |
| captures | every kind and place of a variable, two lambdas one in the other, 2 turns, 4 writes, 3 closures | `MeaningKept` |
| mirror | tables of one to three classes with every type of parameter, result and field; 2 threads that ask for Class objects | `MeaningKept` |

**Why the bounds are enough.** `Rounds` and `TermRetries` have the values of the
code (`GC_STW_ROUNDS`, `GC_STW_TERM_RETRIES`, both 2). Three threads give a
collector, a thread that is scanned and one that registers or exits between two
rounds; a second collection shows what the first one left behind. Marking errors
need a block that hides another one behind a scanned block, so two blocks and a
slot suffice, which the mutants confirm; generations need a third block (an old
container, an old carrier and its young child). The theorems of section 5 cover
any number of all of them, in major and minor cycles. A ring of size two is the smallest that
wraps with an element in it. The epoch behaves the same for any `Last` that
exceeds `EnoughEpochs`, which is proved. Eight
keys give red-black trees in which a removal repairs more than one level and
leaves something for the next call to stumble over.
Three colliding keys in a table of two to seven slots give a tombstone between
two live entries, its reuse and a rehash with it. Try, loop and spill errors are
about two constructs and what is around them: nests of three. The steps of
`TempRoots`, and the constructs of `TypeRules`, are closed under composition: as
long as no construct hands on something wrong, what holds of one holds of every
nest, which is what the property says. `Arithmetic` has scaled widths (8, 16, 32
and 64 bits become fewer) with the patterns around every limit; what happens at
one operator depends on the types and bits at hand, three operands show one
promotion feeding another. Two clients and two requests give a connection that
waits while another is served and one that is kept alive; one extra thread gives
two accepts at once.

**Bounds on the search** of single runs. What only keeps an instance small is in the MC modules; what
the code relies on is a predicate of the module itself, and a hypothesis of its
theorems (section 5):

- `GcMarkMinor`: `NoRoots` and `SmallStacks` (at most two blocks held) keep the
  instance small; `Alternating` fixes the order minor, major, minor, one
  collecting and one mutating thread, and idles the mutator while the first two
  cycles build up the old generation. `NoStoreAtSetup` (of `GcMark`: no store is
  between its barrier and its write when a minor mark is set up) is an
  assumption, not a reduction: without it the code fails (section 4).
- `GcSweepSafe`: `WeakOrFinalizers` keeps weak references and finalizers apart,
  to save states; the theorems need only `NoWeakInFinalizer` (no weak reference
  from or to an object while it is finalized), because a finalizer that
  registers one for its own object leaves an entry behind (`runtime_gc.c:3950`).
  `HandlesAreLeaves` (objects with finalizers hold no references, as the handles
  of the runtime), `NoTornFinalizer` (no `set_finalizer` straddles the begin or
  end of a sweep) and `NoPauseAtHead` (no pause before the first survivor) are
  assumptions of `GcSweep` (`Disciplined`); section 4 says what happens without
  each.
- `PoolSafe`: `ClientsOrdered` says the program orders its submits before its
  shutdown; tasks may submit but leave shutting down to clients and the
  finalizer. The part handle: `Ordered`, one thread at a time calls on a handle.
- `captures`, `numbers`, `server`, `web`: `MaxWrites`, `MaxClosures`,
  `MaxOperands`, `MAX_REQUESTS`, `MAX_FAILURES`, `MAX_ASKED` end the behaviours.
  `frames`, `spill`: `MaxDepth`, `MaxNest`, `MaxTries`, `MaxShadow`, `MaxSlots`.

**Fairness.** `GcStwPosix` assumes weak fairness of the collector and of each
thread's own steps: both are straight-line code or bounded waits. Nothing is
assumed of the program (it need not call anything), of the operating system (a
blocking call need not return), of the clock, or of the order in which a
contended mutex is granted. `ChanQueue` assumes weak fairness of every thread,
strong fairness of the poll in `disarm` (it yields briefly and repeatedly, stops
are far apart, so it sees one of the releases) and that every stop ends, which is
what `GcStwPosix` checks. `PoolSafe` assumes strong fairness of workers and calls
for the same reason: a worker gives the mutex back, waits for the stop and takes
it again, and a mutex that is free again and again is eventually had. It assumes
that tasks return. The composite runs use symmetry and state no liveness; that
the segmented map does not deadlock is the invariant `SomeoneMoves`, and of
the server it is checked what `close()` must leave behind for its loops to end
(`CloseEnds`), not that they end.

**What the runs show.** Handshake: with cooperative parking no thread announces
itself parked while it owns the mutex; the flags the collector counts belong to
registered threads, because a thread that wants to exit sees the request first
(`ParkedSafely` has both); a sweep follows only a handshake in which everybody
was scanned, although the snapshot is refreshed and the budgets may run out; and
all five ways out clean up. Under signals every parked thread is let go, with one
exception named in the property. Marking: no interleaving of barrier, store,
parking, run-away threads, abort and drain frees a reachable block, and a barrier
that shades both ends keeps the colours right although it is a step of its own.
Sweep: a pause after any survivor is harmless (`CallersSafe`: no reachable block
is freed, and no call returns with the mutex). Spans: two threads that wait for
memory without the mutex, a drain and a scavenger between them leave an index
that finds what there is. Channels: a queue of capacity two behaves as `Mailbox`
under every choice of whom a signal wakes, roots balance on every path, close
releases every caller; select takes effect as exactly one of its cases and its
look, enrol, look again order loses nothing. Pool: signalling after the unlock is
sound (`WorkersAvailable`), queued tasks survive a shutdown, and a pool whose
creation failed half way is taken down properly (`MemorySafe`: closures are
rooted while needed and nobody uses a freed pool). Handle: close, attach, join
and finalizer together release once.

Compiler: one reason slot per function implements structured try statements, as
long as catch and finally bodies stay simple and what is caught matches the first
clause; the cursor discipline of the spill
pool never recycles a slot that is still to be read; of the paths through the
constructs all but six root their operands; guards make mutual static
initialisation safe on one thread; every class sees its slots where its users
look, if a method keeps one name along its chain. Arithmetic, types and calls agree with their meaning outside the cases of
section 4, which includes all the mixed and boxed ones that are not named there.

Library: the hash map is an ordered map and the segmented one is atomic, whole
map operations included, because they hold all locks before they look, unless a
key throws while a table grows; the tree
stays balanced; a match that is reported is one; a request behind another is
found wherever the pieces are cut. The server's loops close what they accept.
The lock meets the constraints, also those met late.

Every property has a mutant (`PROJECT.json`, `mutants`): an altered definition
under which TLC finds that property violated in the same configuration. For the
properties that are conjunctions over modules or parts the mutant is in one of
them.

**Deadlock** is checked except where the system may stop: the runs with a bound
on collections, tasks or resources (`GcStwPosix`, `GcMark*`, `PoolSafe`), and the
composite runs, whose parts walk a finite program, call or request to its end.

## 4. Where the code does something else than it says

Two runs are expected to fail and are part of `PROJECT.json`:

- `ChanTwoSenders`. The `cv_send` of an unbuffered channel serves senders that
  wait for the slot and the sender that waits to be taken
  (`runtime_channel.c:273`, `:283`); a receive signals one of them. It may wake
  the one that just returns, and the other sleeps on beside a free slot.
- `GcSweepHead`. Until the sweep passed a survivor, `prev` is `&gc_heap`
  (`runtime_gc.c:3080-3146`). A pause there lets an allocation link an unmarked
  block where `prev` points, and the sweep dooms it although a thread holds it.
  The comment at line 3138 says `prev` stays valid because allocation only
  pushes at the head.

The rest are not runs. To see one, change the configuration as the first column
says (a constraint named here is left out, a constant is changed, or a gap is
taken out of `Known` in the MC module) and ask for the property; each was
reproduced with TLC.

### Runtime

| Change | Property | What happens |
| --- | --- | --- |
| `GcStwCoop` | `HeldUntilLeave` | A thread reads the request (574), the stop begins and scans it as parked, the thread lowers its flag (582) and runs. The comment at 570 says this order prevents it. Marking survives it: `GcMark` has the run-away thread. |
| `GcStwCoop` | `NoMissedRootIntoMark` | A budget spent before the first round leaves the loop with `missing = 0` (951): marking begins with unscanned threads. The comment at 2984 forbids it. |
| `GcMarkMajor`, `RootSlip = TRUE` | `NoDangling` | Its consequence: a store whose barrier ran before the mark hides a block from it. |
| `GcMarkMinor` without `NoStoreAtSetup` | `NoDangling` | A minor mark scans old blocks inside `gc_enqueue` (1874), while seeding, before any thread was stopped. A store that straddles the setup hides an old block behind one already scanned; its young child is swept. |
| `GcStwPosix` | `Released` | SIGUSR2 parks the owner of the GC mutex, the collector cannot take it back (968, 1002); the second watchdog period ends the process. |
| `GcSweepSafe` without `HandlesAreLeaves` | `NoUseAfterFree` | A finalizer resurrects an object whose referents were freed just before (2312); the comment at 2279 says "完整复活". |
| `GcSweepSafe` without `NoTornFinalizer` | `NoLockOutside` | `hao_gc_set_finalizer` reads `gc_in_collect` twice (3531, 3537) and returns with the mutex. |
| `GcSweepSafe`, two blocks, without `WeakOrFinalizers` | `WeakIsLive` | A finalizer puts its object in a root, a mutator takes it out, registers a weak reference to it and drops it; the block is freed and the entry stays (3950). With `NoWeakInFinalizer` in its place it holds. |
| epoch, `Last = 255`, `MaxAborts = 127` | `WhiteAtSetup` | 127 cycles given up in a row take 254 epochs: the colours of the last completed cycle are current again (1894). |
| spans | `MutexGivenBack` | The out-of-memory path takes the GC mutex it already holds (3918): a recursive mutex (Windows) is left owned, with any other (`Recursive <- FALSE`) the thread waits for itself. |
| `ChanQueue` with `Requests <- Closing`, `Cap <- Cap0` | `RendezvousTaken` | A rendezvous cut short by close reports success while its value is still in the slot (`runtime_channel.c:283`). |
| `ChanQueue` | `NoStopWhileLocked` | A woken thread waits for the end of a stop with the channel mutex (106); another one blocked on that mutex cannot park. The budget of the handshake gives the stop up. |
| `ChanSelect` with `Requests <- SelectClosing` | `SelectReleased` | A select with only send cases stays parked when its channels are closed (451). |
| `PoolSafe` with `TaskCalls <- TasksFinalize` | `NoUseAfterFree` | The finalizer of the pool's handle runs on a worker of that pool, joins itself in vain and frees the pool under it. |
| `PoolSafe`, `ClientsOrdered = FALSE` | `JoinOnce` | Two shutdowns race: `joined` is tested before and set after the joins. |
| handle, `Ordered = FALSE` | `DropOnce` | Two closes of one handle race and both drop (`runtime_handle.c:31`). |

### Compiler

| Change | Property | What happens |
| --- | --- | --- |
| frames, `CatchNests = TRUE` | `ImplementsTryFinally` | In a catch body a throw is written to the slot and jumps to the nearest cleanup; a try, or a call that throws, inside it uses the same slot or the runtime frame and loses the completion. |
| frames, `FinallyNests = TRUE` | `ImplementsTryFinally` | A finally that was entered by a return, a break or a throw overwrites `unwind.reason` when it has a try or leaves a loop of its own: the completion it owes is lost. |
| frames, `LaterClauses = TRUE` | `ImplementsTryFinally` | Of several catch clauses only the first is tested: the mismatch of clause i branches to the body of clause i+1, and the type test of clause i+1 is emitted behind the branch that ends the body before it, where nothing leads (`IRGenExcept.cpp:309-337`). What no clause matches enters the second one. (The text behind that branch also begins a block without a label, whose number `IREmitter::nextTemp`, `IREmitter.h:81`, does not count, so a module with such a try may not assemble at all; no `.hao` test has a try with two clauses.) |
| frames | `NoDeadRoots` | After a `longjmp` the shadow stack keeps slots of frames that are gone until the catcher returns (`runtime_exception.c:102`). |
| spill, `Untried = TRUE` | `OperandsSound` | `continue` outside every try recycles on the spot, although the construct around it still holds its slot on the other way through: what comes behind it in the text is given the same slot. |
| spill | `NothingLeft` | After a `break` the end of a loop nulls fewer slots than `IRGenControl.cpp:132` says: the recycling at the step lowered the high mark before (`IRGenValue.cpp:804`), and what the body acquired before the `break` keeps its object until the slot is used again. |
| static | `InitDespiteThrow` | A class whose initialiser or static constructor threw keeps its guard at "in progress": later accesses find fields unset. |
| layout, `Late = TRUE` | `LayoutSound` | A generic instance first mentioned in a function body is made after the inheritance was merged: it has its own members only. |
| layout, `Renamed = TRUE` | `LayoutSound` | The key of a slot ends with the name of the method, which has its parameter types in it only for the second overload of a class (`IRGenClass.cpp:2578`). An override of only the second overload gets the first one's key, and an override declared behind another overload of its class a key of its own (`IRGenClass.cpp:814-833`): a call through the base reaches the wrong method or an empty entry. |
| layout, `Twins = TRUE` | `LayoutSound` | In a generic instance both overloads have the bare name (`IRGenClass.cpp:500`): one symbol and one slot. |
| layout | `ValidAccepted` | `fillVtableEntries` looks for a method of an interface by name: a class that declares another overload of it ahead of the one it has is refused. |
| temps, "boxed arguments", "boxed elements", "boxed variable" | `OperandsSound` | The box `hao_box_*` made for an argument, an element or a captured variable is not rooted while the next one is evaluated. |
| temps, "number plus text" | `OperandsSound` | The text made from the left number is not rooted while the right side is evaluated. |
| temps, "interface property", "setter result" | `OperandsSound` | The receiver of a property reached through an interface, and the value an assignment through a setter yields, are used after a call without a root. |
| numbers, "unsigned with narrower signed" | `RulesSound` | A `UInt` or `ULong` that meets a narrower signed number is read as signed. |
| numbers, "unequal to NaN" | `RulesSound` | `!=` is emitted as the ordered comparison, which is false when an operand is NaN. |
| numbers, "foretold unsigned" | `RulesSound` | The inferred type of an operator knows no unsigned kinds; the computed one does. |
| numbers, "compound of no number" | `RulesSound` | `i += true` is accepted. |
| types, "nullable inside", "function arguments" | `RulesSound` | `Box<Int>` and `Box<Int?>`, or two instances for different function types, are one name and one layout: a box is read as a number. |
| types, "bounds unchecked", "wildcard over values" | `RulesSound` | A wildcard accepts, through an interface or for value types, what its bound refuses. |
| types, "write by another name" | `RulesSound` | An object seen through a reading wildcard is written by methods other than the three names the rule knows. |
| types, "cast without arguments" | `RulesSound` | A cast to a generic class without arguments yields one of `Object`. |
| types, "three arguments" | `RulesSound` | The cost of three conversions outweighs the penalty for one narrowing, and the narrowing overload is called. |
| calls, "rest by reference" | `RulesSound` | Of several packed arguments the address of the first variable is passed instead of the new array; `docs/RFC/0006-可变参数.md:39` says the packed array is an independent one. |
| calls, "receiver twice" | `RulesSound` | The receiver of an array field that is passed by reference is evaluated again for the address. |
| calls, "rest after named" | `RulesSound` | Before a rest, named arguments are evaluated in the order of the parameters. |
| captures, "one cell for a loop" | `MeaningKept` | A variable of a loop body has one cell for all turns: closures made in two turns share it. |
| captures, "through a lambda", "named like a function" | `MeaningKept` | What only an inner lambda uses, or what is named like a function, is not captured by the outer one. |
| captures, "val assigned" | `MeaningKept` | A lambda may assign to the copy of a `val`. |
| captures, "captured array parameter" | `MeaningKept` | The address an array parameter was passed by is kept after the call. |
| captures, "roots after a lambda" | `MeaningKept` | After generating a lambda the function forgot where its roots began, and leaves them at its end. |
| mirror, "overloads by name", "foreign receiver", "suffix before name" | `MeaningKept` | The first method of a name is called whatever its parameters; the receiver's class is not compared; a name finds a class whose name ends with it. |
| mirror, "arrays by reference", "references in slots", "thrown through" | `MeaningKept` | An array is passed where its address is expected; objects in the slots of an argument array are not rooted (`hao_gc_refl_i64_pin` has no caller); the roots of a call that throws stay. |
| mirror, "base constructor", "arguments for none" | `MeaningKept` | A class without a constructor is made although its base asks for arguments; arguments for a constructor without parameters are dropped, where `reflect.hao:237` says the length must be `ctorParamCount`. |
| mirror, "typed without check", "static fields" | `MeaningKept` | `invokeInt` returns the bits of what is no `Int`; a static field is read at a slot of the object. |

### Library and packages

| Change | Property | What happens |
| --- | --- | --- |
| segmented, `RehashThrows = TRUE` | `ImplementsAtomicMap` | `put` grows the table first: `resize` has put an empty table in its place and set `count` to 0 when it hashes and compares the keys again (`HashMap.hao:45-60`). A key that throws there leaves the map with the entries already moved, the others are lost; `LinkedHashMap.hao:95` does the same. |
| wire, `TornEnd = TRUE` | `LibrarySound` | A piece that ends right before the last line end of a chunked message is taken for its end; the line end is the beginning of the next message. |
| wire | `WholeOrNone` | A response that breaks off is returned as if it were whole. |
| patterns | `NoRepeat` | `find` steps over an empty match only where it began to search (`Pattern.hao:155`): one found further on is reported twice. |
| patterns | `Complete` | `matches` asks where the first way to match ends (`a` of `a\|ab` on `ab`) and does not look for one that ends where the text does. |
| tidy | `LockPins` | A build that tidies because something is missing may change versions that the lock had; `docs/hao命令.md:231` says the lock pins them. |
| tidy, a chain of replacements | `LockSound` | A manifest replaces `a` by a version of `b` and `b` by a directory: the edge that was sent on to `b` is resolved from a registry, since `modTidy` (`ModResolve.cpp:620`) does not look whether `b` is replaced too, and where `b` is required directly the branch for directories finds it resolved and does not compare the version: the lock has a version of `b` that a constraint refuses. The manifests of the run have no chain. |
| tidy | `WholePackages` | A copy cut short stays in the local repository and the next tidy takes it for the package. |
| json, "written as fields" | `LibrarySound` | `$jsonWrite` is generated for every class, and the writer looks for it first: boxes, `ArrayList`, nested `JSONObject` and `JSONArray` are written as their private fields. |
| json, "cycles of beans" | `LibrarySound` | The generated writer does not see a cycle of beans. |
| json, "unsigned as signed", "arrays in beans", "box by reflection", "boxes of other numbers", "not a number" | `LibrarySound` | Unsigned fields are written signed, arrays and enums as null, the box of an `Int?` inside a map, or of a number that is no Int, Double or Bool, as a bean, NaN as a word. |
| json, "null as text", "nullable text", "beans in beans" | `LibrarySound` | `parseInto` fills a `String` with the text `null`, a `String?` never, and no bean inside a bean. |
| json, "surrogates", "control characters", "long integers" | `LibrarySound` | A pair of `\u` escapes is two characters; control characters are neither escaped nor refused; an integer longer than a Long is refused. |
| web, "method alone", "root of nothing", "first literal", "separators in values" | `LibrarySound` | An annotation with a method and no path takes its whole text for the path; a base of "/" and no path is the empty text; of an expression the first literal counts; ";" and "path=" inside a value split it. |
| web, "unknown annotations", "overloads by name" | `LibrarySound` | What is no annotation is ignored; of two methods of one name the first is called for both routes. |
| web, "answers of numbers", "named like a response" | `LibrarySound` | A handler whose result is a number ends the program; a class whose name contains `HttpResponse` is taken for one. |
| web, "forwarded twice", "proceeds twice", "thrown past post" | `LibrarySound` | A pipeline handler that forwards and returns has the rest run twice; a filter that proceeds twice skips those behind it; an exception goes past `postHandle`. |
| web, "routes without a slash" | `LibrarySound` | An explicit route is not given the slash an annotated one gets. |
| server, "closed_before_served" | `LibrarySound` | `serve` sets `running` (`Mvc.hao:519`): a `close()` before it is lost and the loop goes round on a closed socket. |
| server, "accept_outlives_close" | `LibrarySound` | On POSIX a blocked accept does not see that its socket was closed and stays; the run has an accept that wakes, as on Windows. |
| server, "threads_left_running" | `LibrarySound` | `serveParallel` returns while its threads go on. |
| server, "thrown_by_handler" | `LibrarySound` | On a worker an exception of a handler ends the process; on the accepting thread it leaves the connection open and the pool running. |
| server, "descriptor_0" | `LibrarySound` | With stdin closed the socket is descriptor 0, which `listen` reports as failure and the handle takes for none. |

## 5. Proofs

TLAPS checks eight modules, about 24,000 obligations. TLC checks the same
properties on small instances (section 3). `RuntimeParts_proof` and
`CompilerParts_proof` hold the proofs of several modules each; all but the first
of each are instances (`Tidy`, `Server`, `Memory`, `Spill`, `Static`, `Frames`). A hypothesis of a theorem is either a
range of a constant or a rule without which section 4, or a run with an expected
violation, shows the property broken.

**`GcStw_proof`**, for any number of threads, rounds, retries and collections, in
both builds unless noted:

- `TypeCorrect`: `Spec => []TypeOK`.
- `AllStacksSeen`: `Spec => SweepSeesAllStacks`: no sweep without a handshake
  that scanned every other thread.
- `CleanEnd`: `Spec => []NothingLeftBehind`.
- `SnapshotLives`: `Spec => []SnapshotAlive`: the flags the collector reads
  without the mutex are those of threads that exist.
- `SafelyParked`: `Spec => []ParkedSafely` assuming `~Signals`; a signal may park
  the owner of the mutex (section 4).

The invariant `StwInv` says who has the mutex at each place of the collector
(`Owned`), where a stop is requested (`Asked`), what the phase and the scan
record are between handshakes (`Cleared`), that rounds are counted (`Bounded`)
and that the record is of the threads seen in this handshake (`Recorded`).
Its heart is `Snapped`: while the collector waits without the mutex, what it
took a snapshot of is still registered, because a thread that wants to
unregister takes the mutex, sees the request and parks first. `SafelyParked` adds
`Cooperative`, that a thread is parked only where it waits.

**`GcMark_proof`**, for heaps, stacks, roots and threads of any number:

- `TypeCorrect`: `Spec => []TypeOK`, slipped handshakes included.
- `NoUseAfterFree` and `Tricolour`: `Spec /\ []NoStoreAtSetup => []NoDangling`
  and `... => []TriColour` assuming `~RootSlip`, in major and in minor cycles.
- `MajorSafe`: both without the rule, assuming `~Minor` and `~RootSlip`.
- `GarbageFreed`: `Spec /\ []NoStoreAtSetup => MajorFreesGarbage` assuming
  `~RootSlip`.

Section 4 has counterexamples without `~RootSlip` and without the rule, which
concerns minor marks only. The invariant `IInv` has six parts, because
`NoDangling` says nothing of colours and does not survive a sweep by itself.
`HeapInv`: some set of linked blocks holds every stack, root and slot and is
closed under fields. In a heap that knows only major cycles that is the whole
heap; a minor cycle keeps old blocks nobody reaches and frees the young ones they
point at, so a linked block may well have a field that dangles, and the
tricolour invariant speaks of fields that lead to linked blocks.
`ColourInv` is the tricolour invariant plus "in a major cycle nothing is black
before the root handshake is over", which a minor one breaks at once: it scans
the old blocks it meets. `GapInv` says a thread between barrier and store runs
and still holds both ends of the store. `ShadeInv` is the heart: a root
handshake that missed nobody caught every thread outside such a gap, so a store
still pending later had its barrier run during the mark and both its ends are
shaded; a minor mark, which is black before that handshake, has no such store at
all. A run-away thread does not matter, because what it does next it does with a
barrier that shades. `TermInv` says that once the worklist is empty a thread
scanned in the termination handshake holds only what is in every set that has
the marked blocks, roots and slots and is closed under fields; the second
seeding then makes the marked blocks such a set. (Quantifying over closed sets
replaces reachability, a least fixed point the prover could only reach by
induction.) `CtlInv` ties the variables of the control flow. No part speaks of
the remembered set: because a minor mark goes through the old blocks it meets,
safety does not rest on it. `GarbageFreed` follows from `LostInv`: what nobody
could reach when the cycle began is never shaded, stored or loaded again.

**`RuntimeParts_proof`: the mark epoch**, under `EnoughEpochs == 2 * MaxAborts + MaxMinors + 1 < Last`:

- `FreshEpoch`: `Spec => WhiteAtSetup`.
- `Refinement`: `Spec => ImplementsMarkSet`, that is, colours that are compared
  with the epoch implement `MarkSet`.

With 255 epochs and 8 minor cycles between majors (`GC_MINORS_BEFORE_MAJOR`)
the bound admits 122 cycles given up between two completed major ones. The code
does not enforce it; section 4 shows 127. The invariant is `TypeOK`, `AgeBound`
(a colour in the heap is at most two epochs old per cycle given up, one per
minor cycle and one for the cycle under way) and `MinorRoom` (a minor cycle is
under way only if one more may complete).

**`RuntimeParts_proof`: the module tool** (`ModTidy`), for any modules, versions,
manifests, registries and publications:

- `LockIsSound`: `Tidy!Spec => Tidy!LockSound` assuming `WellFormed` (what
  manifests and packages look like) and `NoChain` (no manifest replaces a module
  by one that it replaces by a directory). Section 4 says what a chain does.

A lock is what the walk over the queue of edges leaves in `resolved`. The
invariant of the walk says what `resolved` holds is replaced by a directory
exactly when the manifest says so (`Kinds`), that a version meets every
constraint met so far (`Fitting`), that every edge of the project and of what is
resolved was followed or is still in the queue (`Covering`), and that what is
resolved was asked for (`Wanted`). `Copying` carries this through a fetch, while
the edge at hand is neither in the queue nor resolved.

**`RuntimeParts_proof`: the HTTP server** (`HttpServer`), for any clients,
threads of the pool, requests and failures:

- `ServerIsSound`: `Server!Spec => []Server!HttpServerSound` assuming `Setting`:
  a pool has a thread, and the five gaps of section 4 are left out.

`Placed` is the heart: a connection is in the backlog, in the pool's queue or
with one thread, in one of them and once, exactly while it is connected, across
the four ways to serve, `close`, failing accepts and handlers that throw.
`Closing` says who still has a connection whose last request was read, `Roles`
and `Pooled` what each thread does in each mode and stage of the pool, `Closed`
what a `close` has done and a returned server left behind.

**`RuntimeParts_proof`: memory** (`SpanHeap`), for any threads, spans, classes and
sizes:

- `HeapIsSound`: `Memory!Spec => []Memory!HeapSound` assuming `Memories`: spans
  are finitely many, a span has a slot, the mark `None` is no class.

The page index is the set of linked blocks, each in a taken slot of a mapped
span, no slot is two blocks, no span is kept without a block, and
`g_freelist_bytes` is exactly what the free slots add up to, so the clamps at zero
in `gc_span_push_locked` and `gc_span_pop_locked` never act. The invariant adds
that the taken slots of a span are slots it has (`Mapped`) and where blocks and
threads can be (`Located`). The sum is a fold over the spans. It is proved equal
to the number of pairs of a span and a number up to its free bytes (`SumIsTotal`:
the recursive function the fold chooses exists because those counts are one, and
a smallest set on which it differed would have a smaller one); what a step adds
to one span it then adds to the whole (`TotalChange`).

**`RuntimeParts_proof`: spill slots of the compiler** (`SpillPool`), for any
nesting of constructs, any number of slots and of slots made in advance:

- `OperandsAreKept`: `Spill!Spec => []Spill!OperandsKept` assuming `Planned`:
  `~Untried`, without which section 4 has a counterexample.

What is live at one place of the text is in different slots, and no null store
that the generator emits meets a slot still to be read. `OperandsKept` says
nothing of the cursor, so the invariant `Kept` does: slots ascend within a
construct and from outer constructs to inner ones, all of them below the cursor
(`Ascend`, from which no slot is shared: `LiveIs`, by induction over the pieces
that `Live` joins); there is a list of the open loops from the outermost in
(`Numbered`), as long as the stacks of scopes and pins (`Stacked`); and the scope
of a loop starts above all that is held outside of it, its pins lie between those
of its neighbours, and those of a `for` are above what it holds (`PoolFits`). So
clearing to a scope, recycling to a pin or leaving a loop reach nothing an outer
construct still reads. A `continue` goes back over constructs that hold nothing
(`BackTo`), which is all that `~Untried` is for.

**`GcSweep_proof`**, for any number of blocks and threads:

- `TypeCorrect`: `Spec => []TypeOK`: the list holds each of its blocks once.
- `NoneSkipped`: `Spec => SweepComplete`, whatever the program does.
- `SweepIsSafe`: `Spec /\ []Disciplined => []CallersSafe`.
- `WeakIsAlive`: `Spec /\ []Disciplined => []WeakIsLive`.

`Disciplined` is the conjunction of four rules the code relies on
(`HandlesAreLeaves`, `NoWeakInFinalizer`, `NoTornFinalizer`, `NoPauseAtHead`);
section 4 says what breaks the first three, and the run `GcSweepHead` shows the
last one broken. `ListInv` is about the list alone: the sweep's pointer is at a block of
it (`Pointer`), nothing white is behind the pointer (`Passed`), white blocks are
in the list or just unlinked (`Whites`). It needs lemmas on sequences without
repetition: what linking at the head, unlinking in the middle and putting a
block back do to the position of the pointer. `SafeInv` says there is a set that
holds all a program can reach, through fields and weak references, in which
nothing is white or being freed (`SomeAlive`), and that all the sweep has before
it was there when marking ended (`Ahead`), which is what a block linked during a
pause at the head would break.

**`Channel_proof`**, for any threads, calls, capacities and payloads:

- `TypeCorrect`: `Spec => []TypeOK`: no ring holds more than its size.
- `Refinement`: `Spec => KeepsPromise`: `Channel` implements `Mailbox`.
- `RootsBalance`: `Spec => []RootBalance`.
- `NoDanglingWaiters`: `Spec => []NoDanglingWaiter`.
- `NoWakeupLost`: `Spec => []NoLostWakeup` assuming `LoneSenders` (an unbuffered
  channel has one sender); the run `ChanTwoSenders` shows two lose one.
- `RendezvousIsTaken`: `Spec => RendezvousTaken` assuming `UnbufferedStayOpen`
  (no call closes an unbuffered channel); section 4 has the counterexample.

The invariant ties each thread's place to its call and answer (`Control`), each
node in a select queue to a select that is enrolled (`Nodes`), and each payload
to a place in the ring (`RingFilled`). `Watching` says that a select which parks
has looked at every case after it enrolled; `ReceiversWoken` and `SendersWoken`
count: while a receiver sleeps, as many receivers are on their way as there are
values, and likewise for senders and room. `RootsBalance` is a sum per payload
over rings and calls, proved by showing that a step changes both sides alike.
In the refinement a ring is read as the sequence of its elements; each step of
a mutex section maps to one call of `Mailbox` or to none.

**`ThreadPool_proof`**, for any number of workers, clients and tasks:

- `TypeCorrect`: `Spec => []TypeOK`, and `ClosuresRooted`:
  `Spec => []RootedWhileNeeded`, both whatever clients and tasks call.
- `WorkIsTaken`: `Spec => []WorkersAvailable`: while a worker sleeps, as many
  workers or signals are on their way as there are tasks in the list.
- `MemoryHolds`: `Spec => []MemorySafe` assuming `Disciplined`: clients order
  their submits before their shutdown (`ClientsOrdered`), tasks only submit.
  Section 4 says what other calls do.

`PoolInv` says where a task is (`Queued`, `Held`, `Offered`): in the list, with
one worker, or with one call. `WorkIsTaken` counts signals under way against the
tasks in the list. `MemoryInv` adds that one actor makes or ends the pool at a
time (`OneOwner`), what each stage of its life excludes (`Stages`) and that a
worker the joiner is done with is gone (`Joined`).

**`CompilerParts_proof`: native handles**, for any number of threads and resources:

- `TypeCorrect`: `Spec => []TypeOK`, also when calls race.
- `OneRelease`: `Spec => []ReleasedOnce` assuming `Ordered`.
- `NothingForgotten`: `Spec => []NoLeak` assuming `Ordered`.

Without `Ordered` section 4 has a counterexample. The invariant says where a
resource can be: in the handle, or in the call that attaches or joins it, or
released, once (`LedgerInv`, `FreshInv`); that the fields agree (`FieldsInv`) and
what each point of a call knows of them (`CallInv`); that an open handle has its
finalizer except inside a call that is about to set it or to empty the handle
(`GuardInv`); and that calls and the finalizer do not overlap (`OneActive`).

**`CompilerParts_proof`: static initialisation** (`StaticInit`), for any classes,
fields and static constructors that refer to each other in any way, and exceptions
caught in any of them or outside:

- `Initialised`: `Static!Spec => [](Static!InitOnce /\ Static!InitBeforeUse)`
  assuming `OneThread`. The guard is a plain load and store, so two threads may
  both run an initialiser.

The invariant ties the guards to the stack of running initialisers: a class that
was not begun has no field set and no frame (`Untouched`), one that was begun is
done, failed or under way (`Begun`), the initialisers under way are of different
classes and have done the pieces before their own (`Nested`), and on one thread a
guard that was loaded is not stale (`Loaded`).

**`CompilerParts_proof`: try, catch and finally** (`ExcFrames`), for any number of
activations, of loops and tries in them, of statements and exception values:

- `FramesMatch`: `Frames!Spec => [](end = "run" => FramesSound(acts, exc))`: the
  runtime's frames are the open try bodies, each once and outermost first, with
  the depth they were entered at. This is `FramesAreOpenBodies` said with
  quantifiers; the form with `FlattenSeq`, a fold, stays with TLC.
- `PendingIsRooted`: `Frames!Spec => []Frames!PendingRooted`.
- `FramesRefinement`: `Frames!Spec => Frames!ImplementsTryFinally`.

All three assume `PlainProgram`: `~CatchNests`, `~FinallyNests` and
`~LaterClauses` (an exception that reaches a try with several catch clauses matches
the first), without each of which section 4 shows the refinement broken, and what
the constants are. So `FramesRefinement` says nothing of the second clause of a
try, which the code enters without its test. The difficulty
is that the code keeps one set of unwind slots per function where `TryFinally` has
a completion for each finally. `ActsSound` therefore says that in each activation
at most one finally owes a completion, that it is the one in the slots, that only
loops are open in it, and that what the slots say can still be done from there
(the loop a `break` aims at is still around it: `SlotsHold`); in the middle of a
dispatch no finally owes anything and the slots hold for the whole activation.
`FramesSound` and `Numbered` (a try has an id of its own) make `hao_throw`'s jump
to the top frame the jump to the innermost open body, wherever on the stack that
is; the activations above it are those `TryFinally` abandons. `Marked` ties the
shadow stack to the watermarks. The refinement then reads each construct with
its pending completion from the activation, and the dispatch blocks map to the
steps by which a completion leaves the constructs one after the other: a step of
the code is a statement of `TryFinally`, one leaving of a finally, or a stutter.

**`ConcurrentHashMap_proof`**, for any threads, keys, values, segments and calls:

- `SomeoneAlwaysMoves`: `Spec => []SomeoneMoves`: the locks of the segments never
  block everybody. Of the threads that wait, the one at the highest segment waits
  for one that does not wait, because `lockAll` takes them in ascending order.
- `Refinement`: `Spec => ImplementsAtomicMap`. A call on a key takes effect in
  its critical section; `keys` at the last segment and `clear` at the first, when
  it holds them all.

Both assume `Parameters` (there is a segment, every key has one, no value or key
is the marker of a pending answer). `Refinement` assumes `~RehashThrows` besides: a
key that throws while its table grows loses entries (section 4), so that the call
neither took effect nor changed nothing. The locks do not depend on it. `Parameters` is a hypothesis and no `ASSUME` of the
module because the only run that checks the module instantiates it, in
`MCRuntime`; the properties of that run are these formulas for its part.

**Model-checked only.** Liveness (`ReleasedUnlessWedged`, `CloseReleases`,
`ShutdownEnds`, `AcceptedFinishes`): fairness and ENABLED are out of the
prover's reach. What `Json`, `Arithmetic` and `RedBlackTree` compute: induction
over data. `HttpWire`, `Regex`, `TypeRules` and others that use recursive
operators, which keep the prover out of their modules. Properties of the
composite runs that are conjunctions over parts (`HeapSound`, `LibrarySound`,
`RulesSound` and so on) are not stated as theorems as such:
those for `SpanHeap`, `SpillPool`, `ExcFrames`, `StaticInit`, `ModTidy`, `HttpServer` and
`ConcurrentHashMap` are proved for their part above, under the names they have
there. `FramesAreOpenBodies` as a fold over the stack. Within reach and planned:
`LinkedHashMap` with its refinement of `OrderedMap`.

## 6. What is not modelled, and why

- In the collector: mark workers as threads (a grey block is scanned by
  whoever, one at a time, which is what their shared worklist amounts to);
  conservative scanning (a superset of roots keeps more, never less); the
  clearing of soft references; pacing and statistics, which feed heuristics and
  reports; memory order (flags are sequentially consistent steps).
- In channels and pool: failing allocations in channel make and select;
  addresses that equal integers (a channel unroots any payload that equals a
  rooted address: payloads are heap objects here); `hao_handle_wrap` copies.
- In the compiler: the grammar and its generated parser (`HaoLangParser.cpp` and
  `.h` are eleven thousand lines that ANTLR writes from `HaoLangParser.g4`);
  symbol tables and diagnostics; string templates; control structures without
  roots; the text of the emitted IR. A model of these would be a copy.
- In reflection: annotations beyond those that routes are bound from; interfaces
  (they have no entry in the table).
- In the library: percent-decoding, header texts, MIME types, Html; Text, math
  and time packages; lists, stacks and queues, which are thin over arrays; the
  regex filter of a JSON path, typed accessors and file functions of JSON;
  replacement and split of patterns; failing thread starts in `serveParallel`;
  requests whose paths are not canonical, except that they must not leave the
  mounts (`FilesOfMounts`); `HAO_HTTP_API_SHORT` is a connection that may be
  short.
- In `src/mod`: parsing of manifests, the HTTP transfer, the parts of the local
  file layout that only decide where something is.
- Processes, files, time, strings, boxes, printing, metrics, the debugger, the
  driver, the linker, the formatter and the test runner: pure I/O, data
  conversion or tools.

## 7. Plan

Done, models: the runtime (`GcStw`, `GcMark`, `GcSweep`, `GcEpoch` and
`MarkSet`, `SpanHeap`, `Channel` and `Mailbox`, `ThreadPool`, `NativeHandle`);
what generated code does (`ExcFrames` and `TryFinally`, `SpillPool`,
`TempRoots`, `StaticInit`, `ClassLayout`, `Arithmetic`, `TypeRules`,
`CallBinding`, `Captures`, `Reflection`); the library and packages
(`LinkedHashMap`, `ConcurrentHashMap`, `RedBlackTree`, `Regex`, `HttpWire`,
`HttpApp`, `HttpServer`, `Json`, `ModTidy`). Done, proofs: `GcStw`, `GcMark`,
`GcEpoch`, `GcSweep`, `Channel`, `ThreadPool`, `NativeHandle`,
`ConcurrentHashMap`, `ExcFrames` with its refinement of `TryFinally`,
`StaticInit`, `ModTidy`, `HttpServer`, `SpanHeap`, `SpillPool`.

Next proofs, most important first:

1. `LinkedHashMap` implements `OrderedMap`.
2. `ExcFrames` with nested catch bodies, once the code has slots for each try.

## 8. Running

```
tlc -workers 2 -config GcMarkMajor.cfg MCGcMark
tlc -workers 2 -config RuntimeParts.cfg MCRuntime
tlapm GcMark_proof.tla
```

Each `.cfg` belongs to the module named after the part it instantiates:
`GcStw*` to `MCGcStw`, `GcMark*` to `MCGcMark`, `GcSweep*` to `MCGcSweep`,
`Chan*` to `MCChannel`, `Pool*` to `ThreadPool`, `RuntimeParts` to
`MCRuntime`, `CompilerParts` to `MCCompiler`. To look at one part alone, make
`Parts` in the `.cfg` a set of one name.
