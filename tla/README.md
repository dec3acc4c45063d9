# Jayess: a TLA+ model of the compiler's and the runtime's state

Jayess compiles a dialect of JavaScript to native code: source text is parsed,
checked, and lowered to LLVM IR by Go packages; the program then runs on a
runtime whose services (event loop, workers, storage, HTTP, processes, files)
are Go helpers under `runtime/`. Beside it the repository keeps the previous version
(`old_version/`), whose programs run on a runtime in C: promises and an I/O thread
pool, worker threads, streams, shared memory, bigints. This directory specifies the parts whose
correctness depends on an order of steps, checks them with TLC on small
instances, and proves the main results for every instance with TLAPS.

    tlc -config event_loop.cfg MCEventLoop       check one run
    tlapm ScopeCleanupProofs.tla                 check the proofs of a module

`PROJECT.json` is the machine-readable index: components, runs, the source lines
of every definition, the mutations each property is tried against, hazards,
findings and theorems.

## 1. The system

| Component (source) | State it keeps | Operations | What is hard | What makes it correct |
|---|---|---|---|---|
| event loop (`runtime/event_loop_internal.go`) | virtual clock, timers by handle, microtask queue | QueueMicrotask, SetTimeout, SetInterval, ClearTimer, Advance, RunReady, RunMicrotasks | callbacks call every operation while a batch of due timers is being run from a snapshot | order of microtasks and timers, no timer lost or fired twice, clearing is final |
| statement emitter (`llvmbackend/statement_*.go`) | stacks of cleanup scopes, exits, throw handlers, pending labels | one emitter per statement form | break, continue, return and throw leave any nest of scopes | each binding released once, in reverse order, and never while in scope |
| workers (`runtime/worker_internal.go`) | inbox and outbox of 32, done, callbacks, last error | PostMessage, Receive, PostToParent, OnMessage, NextMessage, Close, the goroutine | goroutines, `select` between two ready channels, callbacks on the worker's goroutine | nothing accepted is lost, callbacks hear everything in order, Close releases everyone |
| storage (`runtime/storage_internal.go`) | map in memory, a JSON file | Open, Get, Put, Delete, Scan, Close | rewrite in place, check outside the lock, two stores on a file | what was put is there after a restart |
| HTTP server (`runtime/http_server_events.go`, `http_server.go`) | listeners per event, a channel for the address and one for the last error | on, once, off, removeAll, emit; Listen, Addr, Close, LastError | emissions by every goroutine, listeners that add, remove and emit | everyone there at the start of an emission is called once; none is lost to another's removal |
| project loader, module graph (`resolver/`) | work list, modules, imports, exports, order | LoadProject, about eighty queries | cycles, several entries, diamonds | every module after its imports, every cycle found |
| module initializer (`runtime/module_initializer.go`) | state per module, live bindings | Initialize | cycles and failing initializers | each module initialized once, after its imports |
| escape analysis, lifetime plan (`escape/`, `lifetime/`) | facts per name, cleanups per binding | one pass per statement form | aliases, closures, loops | no value is released that is still reachable |
| control-flow cleanup lowering (`lowering/control_flow_cleanup*.go`) | stacks like the emitter's | one function per statement | a second computation of the cleanups | agrees with the emitter |
| previous: scheduler and promises (`old_version/runtime/jayess_runtime.c`) | three queues of tasks, dependents of promises, timers, a pool of threads with a list of its own | then, finally, all, race, allSettled, any, timers, sleeps, asynchronous files and sockets, await, drains | callbacks drain the queues they are run from; promises point to tasks that are freed; pool threads mark tasks | each promise settles as its inputs allow, no freed task is pointed to, every drain ends |
| previous: worker threads (`jayess_runtime_process.c`) | two queues, closed and terminated marks | postMessage, receive with and without a timeout, terminate, the thread | terminate and timeouts against answers under way | what was accepted is answered once and in order |
| previous: streams and events (`jayess_runtime_streams.c`, `_network.c`) | listeners in the object's properties, ended and closed marks, back pressure | on, once, off, write, end, read, close, accept, poll | listeners called in the middle of a method call any other | whoever listens for an end is told once; a file or socket is closed once |
| previous: shared memory (`jayess_runtime_typed_arrays.c`) | bytes and a lock | get, set, the operations of Atomics | several threads, elements of several bytes | no atomic update is lost |
| previous: bigints (`jayess_runtime_bigint.c`) | - | and, or, xor, not, shifts | words, carries, signs | exact answers |
| watcher, child processes, audio queue, streams (`runtime/`) | polling snapshot, exit state, ring of samples | poll, Close; start, wait, kill; push, drain, seek | Close twice, exit before listener, empty or full queue | each event once |
| lexer, parser, AST, semantic analysis | scopes, labels, loop depth | one pass | text; what the emitter may rely on | rejects jumps without a target and duplicate declarations |
| return-code evaluator (`lowering/return_*.go`) | known values by name, identity counters | an evaluator of expressions per kind of value, two runners of statements | every probe works on a copy of the scope; loops, labels, switches and tries inside each other | the code a program is given is the one it returns |
| IR assembly, toolchain, distribution, native bindings | files, command lines | write, run | pure I/O | - |

How they meet: the compiler packages call each other in one direction (lexer,
parser, resolver, semantic, escape, lifetime, lowering, llvmbackend) and share
the AST; the lifetime plan decides which bindings have a scope-exit cleanup and
the emitter places it. When the statement emitter cannot translate a program,
`cmd/jayess/source.go` asks the return-code evaluator and emits a main function that returns
its answer, 0 if it has none. At run time user code calls the runtime, and the
runtime calls user code back: tasks of the event loop, handlers and callbacks
of workers, listeners of the HTTP server. Those callbacks are where the
operations interleave. In the previous runtime a drain of the scheduler runs reactions and
timers, an emission of a stream runs listeners, and its threads (of the I/O pool, of
workers) meet the program's thread in locked queues and in shared bytes.

## 2. Modules

| Module | What it is |
|---|---|
| `TimerService` | what the timers promise: an abstract specification without batches, microtasks or control points |
| `EventLoop` | the event loop, statement by statement; its properties; the refinement mapping to `TimerService` |
| `EventLoopProofs` | the theorems about `EventLoop` |
| `MCEventLoop` | delays for TLC |
| `ScopeCleanup` | scopes, exits, handlers and releases of the statement emitter |
| `ScopeCleanupProofs` | the theorems about `ScopeCleanup` |
| `MCScopeCleanup` | names, labels and symmetry for TLC |
| `Worker` | workers |
| `ModuleWalk` | the depth-first walk behind the orders, cycles, depths and longest paths of the module graph, on any graph |
| `ModuleWalkProofs` | the theorems about `ModuleWalk` and about the edits of `ModuleGraph` |
| `ModuleGraph` | the operations that edit the graph; implements `ModuleWalk` |
| `ModuleQueries`, `ModuleBatches` | the queries, and what they must agree on |
| `MCModules` | entries and import lists for TLC |
| `WorkerProofs` | the theorems about `Worker` |
| `MCWorker` | the two goroutines and the two surfaces for TLC |
| `ReturnSyntax` | the syntax trees, as records |
| `ReturnScope` | scopes, values and the arithmetic, comparisons and conversions of the return-code evaluator |
| `ReturnExpressions`, `ReturnCalls`, `ReturnComparisons`, `ReturnKinds` | its evaluators of expressions |
| `ReturnStatements`, `ReturnControl`, `ReturnPrograms` | its runners of statements |
| `ReturnEvaluator` | ties them together |
| `ReturnReference` | what a program means: the definition the evaluator is compared with |
| `ReturnCode` | programs written statement by statement, and what must hold of each |
| `MCReturnCode` | openings and statements for TLC |
| `Promises` | what promises may do: an abstract specification without tasks, queues or drains |
| `Scheduler` | the previous runtime's tasks, queues, combinators, timers, I/O pool and drains; implements `Promises` |
| `SchedulerProofs` | the theorems about `Scheduler` |
| `ThreadWorker` | its worker threads |
| `Streams` | its streams, sockets, servers and watchers, as far as they have listeners |
| `StreamProofs` | the theorems about `Streams` |
| `SharedBuffer` | its shared array buffers and Atomics |
| `BigInt` | its bitwise operators of bigints |
| `Storage` | the storage of the new runtime, its file, crashes and failed writes |
| `HttpServer` | listeners, goroutines and channels of the new runtime's HTTP server |
| `HttpServerProofs` | the theorems about `HttpServer` |
| `Services` | `Scheduler`, `ThreadWorker`, `Streams`, `SharedBuffer`, `BigInt`, `Storage` and `HttpServer` as a sum: a behaviour is one of one of them |
| `ServicesProofs` | the theorems about `Storage`, `ThreadWorker`, `SharedBuffer` and the sum |
| `MCServices` | programs, scripts, handlers and operands for TLC |

Operators whose comment says *Mutant* are plausible mistakes in the definition
that follows them; no specification uses them. PROJECT.json says which property
each one violates when it takes the definition's place.

### EventLoop

`now`, `nextID`, `microtasks` and `timers` are the fields of the Go struct; the
scheduledTimer objects are the functions `due`, `delay`, `repeat` and the set
`canceled`, by handle. A microtask is named by its place in the order of calls,
because a task's body does not matter: while one runs (`pc` is "microtask" or
"task"), and while the owner of the loop has control, any operation of user code
may happen, any number of times. The loop's own statements are actions that `pc`
orders: `Advance`/`RunReady` drain the microtasks, collect every due timer
(`ReadyTimers`: the snapshot), start the earliest (`StartTimer`), drain again when
its task returns, and re-arm an interval (`Rearm`). `Advance(0)` is `RunReady`. The
sorted slice of ready timers is a set with the order `Before`.

Not modelled: a callback that calls Advance or RunReady itself (a nested loop), nil
callbacks and nil loops (early returns that change nothing).

### ScopeCleanup

The emitter walks the AST once and keeps stacks. What it emits at a program point
depends only on the constructs open there; so a behaviour of the module is one
*path* through the code emitted for some program, and the choice of the next
action is the choice of the next statement and of the outcome of its condition.
`open` is the stack of constructs, `cleanups` the bindings registered in the open
scopes (`cleanupScopes` flattened, a scope boundary being a height in it), and each
exit is one action that releases what the emitter would have emitted for it:
`Leave` (the end of a block, body, loop, switch, try, catch or finally), `Break` and
`Continue` (to `cleanupDepth`, the field `keep`), `Return`, `ThrowOut`, and
`ThrowToHandler`. `do while` emits its body ahead of the loop, `for` opens its scope
before its exit is pushed, `for of` over a pattern declares in the scope around it, a
labeled block pushes its exit before its scope: each construct keeps the order of its Go
function, because the heights depend on it. `Resolve` is LoadLocal: cleanups name
their binding, and the name is looked up at the exit.

History variables say what has been released (`released`, `doubled`), which bindings'
scopes control has left (`left`), which ones met another open binding of the same name
(`clashed`), and which were open around a try statement when it handled a throw
(`caughtOver`). The last two mark the two known defects, so that the invariants say
exactly how far the emitter is right: for all other bindings.

Not modelled: the text of the IR, values (a loop variable assigned on each turn is one
binding), the emitter's treatment of unreachable code, and which finally bodies a jump
passes by.

### Worker

Every call is several steps: PostMessage's check of `done` and then its `select`, which
may accept or give up; Receive, NextMessage; PostToParent's check, `select`, copy
of the callbacks (`Dispatch`) and the calls, one by one. `pc` says where each goroutine
is; callbacks run on the worker's own goroutine and may themselves post, register,
take messages and close. A handler ends by returning or by a panic, of its own or of a
callback; then the deferred functions run in their order. A `select` with two ready cases may take
either. Messages are numbered in the order their channel accepts them. OnMessage and the copy in dispatch hold the mutex for
one assignment and are atomic. A nil handler is a second initial state.

Not modelled: LastError (it only reads), SharedMemory (a locked array whose operations
are atomic and unrelated), a callback that calls PostToParent.

### ModuleWalk, ModuleGraph, ModuleQueries, ModuleBatches

A graph is a function from known modules to sequences of imports, exactly the Go map;
module paths are numbers, because the code sorts them. The code has five copies of one
depth-first walk (`visit`, `dependencyDepth`, `longestDependencyPath` and the two reverse
ones), which differ in what they return. `ModuleWalk` is that walk with its
recursion unrolled: `stack` holds the active modules, where the loop of each one is (`rest`)
and what it has accumulated; `PassVisited`, `FindCycle` and `VisitLinked` are the three
outcomes of a call on the next link, `Leave` its return. `order`, `depth` and `chain` are
`visited`/`order` and the two memos. Between two walks the graph may change in any way
that leaves it well-formed (`Change`).

`ModuleGraph` has the real edits (`AddModule`, `AddCompactModule`, `AddImport`,
`RemoveImport`, `RemoveAllImports`, `RemoveModule`, `ClearImports`), each an action that applies an
operator on graphs, and is checked and proved to implement `ModuleWalk` (`ImplementsWalk`): so what is
proved of the walk on any well-formed graph holds on the graphs the edits build. The
queries are operators on a graph with the names of the Go functions; an error is the
answer `Failed`. They walk by the recursive operator `Walk`, the function as it is in the
code, and `OrderQuestions` compares it with the state machine at the end of every
walk. The queries about dependents are written as queries about dependencies of the reversed
graph, which the five walks of the code justify. What the queries must agree on is
stated when a walk begins, for the entries it begins with, with reachability defined by
closed sets and not by a walk.

Not modelled: the nil graph (it answers as the empty one), the text of errors, and the
two functions that add a parsed program (they belong to the loader).

### The return-code evaluator

The code has one evaluator per kind of value (`evaluateIntExpression`, `evaluateStringExpression`,
`materializeObjectIdentity`...). Each takes an expression and a scope and either answers with a
value or fails, and callers try one kind after another, on copies of the scope that they keep or
drop. A scope has a map per kind, and a name is cleared in all of them before it is written in one:
in `ReturnScope` it is one function from names to values that carry their kind. An outcome is
`[ok, val, scope]`: the scope is part of it, since a failed evaluation may have changed the
scope it was given and whether the caller had made a copy is where the effects are lost or
doubled. Objects and functions are known by a number from a counter, which the code keeps in
maps under the name "next" (`objectSeq`, `funcSeq`).

The evaluators call each other in a cycle. They are operators over a constant operator
`Evaluate(which, e, s)`, the evaluator called `which`, and `ReturnEvaluator` gives it its value with one
recursive definition. Evaluators that the Go code writes once per kind with the same body are
one operator with the kind as parameter.

`returnCodeFromStatements` takes a list of statements and looks for a return that is certainly
reached; a statement without one is run for what it does (`applyNonReturnStatement`). Either may
give up. A loop is followed for one pass only, and only when that pass ends in a break; a try
is followed to its throw (`applyTryStatementUntilThrow`).

The evaluator also guesses: where it cannot follow a program it does not always give up. A scope's
`guesses` (history; no operator of the code reads it) names the kinds of guess that were taken on the way:
`stale` (a value that cannot be folded is not assigned), `passed` (a statement, return or throw is left
out), `loop` (a loop is left out, or over after one pass), `branch`, `jump`, `switch`, `compare`, `fraction`
and `next`, as listed in `ReturnScope`.

`ReturnReference` is not taken from the evaluator: it evaluates an expression once, to a value of
any kind, keeps objects in a heap, runs loops to their end and gives the names of a block their old values
when it ends; two objects are equal when they are the same (docs/types_and_values.md:21). It answers
"beyond" where it leaves something out: a call of a function by name, an exception raised by an
expression, arithmetic with numbers that are not whole, and their truth. `ReturnCode` writes a program one
statement at a time and compares the two: `AnswerIsRight` and `KnownValuesAgree` are about the programs on
whose way no guess was taken, but of the kinds in the constant `Trusted` (section 3).

Not modelled: bitwise and shift operators other than ~, number literals with a fraction,
destructuring, `for in` and `for of` (the evaluator passes over them), and the choice of the body of a
function called main instead of the program's statements.

### Scheduler and Promises

A promise is a number, a task a number of its own, and `heap` says what was allocated and not
freed: that is what `TasksOwned` is about, since promises point to the tasks that wait for them
(`jayess_promise_add_dependent`) and a task is freed after it has run. `stack` holds the drains,
awaits and callbacks that are inside each other: a callback may await, which drains the
queues its own task came from. `Turn...` are the kinds of task a drain can run, `Verdict` what a
combinator does with the states of its inputs, in the code's order of tests. The pool's threads
take tasks from a list of their own, run them, and mark them completed under the pool's lock;
`Promoted` is the scheduler's search for completed ones. `Promises` knows only which promise may
settle how, given its inputs; `ImplementsPromises` is the refinement.

A program is drawn from a small set (`uses`: which calls it makes), or the calls would
multiply beyond reach. Not modelled: values, running out of memory, and which handler
throws what.

### ThreadWorker

The two queues under the worker's lock, its conditions, and the thread: `TakeMessage`,
`HandleMessage`, `PushAnswer` are the three steps between which the lock is free. A `receive`
with a timeout may give up at any moment while it waits. `terminate` closes, waits for the thread
(`TerminateJoined`) and keeps the answers. Not modelled: closures that share a worker's
handle, and the contents of messages.

### Streams

Everything is synchronous: `frames` holds the listeners, emissions and the remainders of
methods that are inside each other. An emission runs over the array itself by index and then
takes the array of once listeners out of the object; `off` shifts the array below a running
emission. A method reads its FILE or socket at its start and sets properties after the emissions it
makes. Scripts name the kind of stream, two events and a few methods. Two exceptions in the
property mark what the code does not keep: `excused` (a listener that registered
during the emission, took itself away, or was passed over because another was taken away before it
or threw) and `reentered` (a listener of error or drain closed the stream that was being closed).

### SharedBuffer and BigInt

`SharedBuffer`: a plain access takes the lock for each byte, an atomic one for the whole element;
`updated` is what the bytes would be if every atomic operation were one step. `BigInt` is
evaluated, not interleaved: an initial state chooses an operator and operands, the one step answers.
It works on words as the code does, with words of four bits for the code's 32, one decimal digit per
part for the code's nine, and three parts for 256; `Exact` is the meaning in unbounded two's complement.
Reading one word behind the array is a choice over both values of the bit.

### Storage

Several clients call Put, Delete and Close on several stores of one file. The check that
the store is open is made before the lock, the change of memory under it, and the write is two
steps, truncation and writing from the start of the file; either may fail and the process may end between them.
A store's mutex covers its own writes only: when another store has written since a call truncated the
file (`Undisturbed` no longer holds), the call's content lands over the other's, and which of the two is
longer decides whether the file is the new content or torn. How long contents are is left out, so both may happen; a write
that is cut short leaves any of `CutShort`.
In `AcknowledgedKept`, once the last write went well, found the file as it had truncated it, and its
store is at rest, the file is what its store has in memory, failed changes included; and what a put or delete acknowledged is in the file, and in the memory of
the store opened last, until the key is changed again, a write is cut short by a crash or a
failure, or a second store is at work on the same file. Not modelled: a store without a path, Get and Scan (they only read).

### HttpServer

`routine` is what each goroutine has still to do, innermost first: emissions, handlers,
sends to the two channels. Connections are accepted by the goroutine that serves, which emits
`connection` before the connection's own goroutine starts. net/http is modelled by what the code uses of it:
Serve accepts, fails or is closed; Shutdown waits for Serve without a limit and for
connections until its context ends. Not modelled: requests and responses, of the protocol events more than one
per request, the client, the HTTPS server, which has the same listeners, and a listener that panics. On a
connection's goroutine net/http recovers the panic: the rest of that emission is lost, and a once listener that
panicked stays registered (http_server_events.go:100-105). On any other goroutine it ends the program.

### Services

The seven services share no state, so that a step of one says nothing about another. `Services` chooses one in
each initial state; the others stay as they began. One run then checks all, and its cost is their sum
and not their product.

## 3. What TLC checks

| Run | Question | Bounds | Distinct states |
|---|---|---|---|
| `event_loop` | are microtasks and timers started in order, and each accounted for, whatever callbacks do; does the loop implement the timer service; does RunReady return | 3 timers, 2 microtasks, clock to 2, delays -1, 1 (timeouts) and 0, 1 (intervals) | 1.9 million |
| `event_loop_cancel` | does clearing cancel (docs/async_runtime.md:30) | 2 timers | violated |
| `scope_cleanup` | is every binding released once, in order and not too early, on every path | 2 declarations, depth 4, 2 names, 1 label | 1.6 million |
| `scope_cleanup_throw` | ... also when a throw is caught in the function (docs/runtime_ownership.md:97) | same | violated |
| `scope_cleanup_shadow` | ... also when a name is declared again in an inner scope | same | violated |
| `scope_cleanup_labels` | does a labeled jump go to its statement (docs/statements.md:19) | same | violated |
| `worker` | is no message lost, do callbacks hear everything, does Close release everyone | 2 goroutines outside, capacity 1, 2 posts, 3 replies, 2 callbacks | 0.27 million |
| `modules` | are orders, cycles, depths and all queries right on every graph the edits build | 3 modules, 4 import edges before an edit, lists of 2 entries and 2 imports | 0.14 million |
| `return_code` | is the code a program is given the one it returns, and are the values known on the way right | 6 openings, 45 statements and 20 returns, programs of 4 statements, loops of 4 passes | 17946 |
| `services` | does each service keep what it promises (see below) | see below | 0.73 million |
| `storage_close` | is a store done with its file when Close has answered (docs/storage.md:14) | 1 store, 2 clients, 2 calls | violated |
| `worker_outbox` | does a message reach callbacks when the program only uses callbacks (docs/workers.md) | 1 callback, 2 replies | violated |

Why the bounds are enough. *Event loop*: three timers are a batch of two with one
scheduled or cleared in between, or an interval between two timeouts; a clock to 2
lets an interval of 1 be late by one period, and a negative and a zero delay are there;
two microtasks are one queued by another. *Scope cleanup*: two bindings are an inner
and an outer one, which is all that an early, a late or a wrongly ordered release
needs; four constructs are a loop, its body, an inner construct and its body, so jumps
pass over one and over two. The proofs show the same for all depths. *Worker*:
capacity 1 makes every queue full and empty in turn (the code's 32 only delays this); two
goroutines race in the same select; three replies are needed to see a callback called,
left out and called again. *Modules*: with three modules and four edges there are chains, diamonds
without their bottom, repeated and self imports, cycles of one, two and three modules, cycles
off the path of an entry, and unknown entries; larger graphs are covered by the proofs.
*Return codes*: two statements between the opening and the end of a program let one
statement leave in the scope what another finds there; each kind of value meets each
form of expression. Of the 6894 programs that get a code, 2929 get it without a guess
and have a meaning the reference knows; 3140 without a return are come through in that
way. Of each kind of guess the run has programs that get a wrong code or value by it.
The nesting that matters is inside the statements (a try in a try, a labeled loop in a
loop), not in the length of the program.

*Services.* Scheduler: 3 promises (a combinator with two inputs, or a chain of three), 1 timer, 2 pool
threads, the guard of drains at 3 turns (100000 in the code), 1 await inside another callback, lists of
2 inputs; 10 programs; with 4 promises it was checked once (0.96 million states). Workers: 4
messages, accepted and answered in every order of the threads' steps with timeouts and a terminate. Streams: 2
listeners of 2 functions, 2 calls of methods, 1 chunk or 2 bytes, high-water mark 1 (a write above it and one
at it), 9 scripts; with 3 listeners (2.3 million states) and with 3 calls (0.5 million) once. A third
listener is needed for nothing but being passed over twice. Shared memory: 2 threads, 2 bytes of two
values, elements of one and of both bytes, 3 accesses: an update, one that comes between its bytes, and a
witness. BigInt: operands around every power of two to 2^8 and both sides of the words' and the parts'
limits, shifts within, at and beyond a word. Storage: 2 stores, 2 clients, 2 keys, 3 calls, 1 crash. HTTP: 2
goroutines, one that serves, one connection, 2 listeners, 3 calls.

Fairness. `EventLoop!FairSpec` is weakly fair to the loop's own statements (a called Go
function executes) and to the return of callbacks; the owner is never obliged to drive
the loop. Callbacks that never return would stop any single-threaded loop, and the
code has no defence against them. `RunReadyReturns` excepts two cases in which the code does not return
either: an interval of delay zero, which is due again as soon as it has run, and callbacks that go on
for ever queueing microtasks or timers that are due at once (`Spawns`). In the run `MaxTimers` and
`MaxMicrotasks` cut the second case off, so that what TLC checks is that nothing else keeps RunReady. `Worker!FairSpec` is weakly fair
to each goroutine's next internal step, as the Go scheduler is to runnable goroutines;
user code need not call anything or return. `select` needs no strong fairness: once `done`
is closed, its case stays ready. `ModuleGraph!GraphSpec` is weakly fair to the walk, a
loop that nothing stops. `Services!ServicesSpec` takes `SchedulerFairness`: while a drain is on top of the
stack the program's own thread executes its statements, and a callback returns sooner or later; nothing is assumed
of the pool's threads, of time or of the end of main. `DrainsEnd` excepts callbacks that drain and await in one another
without end (`Nests`): the guard of 100000 turns belongs to one drain, each drain inside a callback starts
its own (jayess_runtime.c:3222, 3253, 3267, 3419), and only the C stack limits how deep they nest; in the run 3 promises
and 1 await inside another callback do. The fairness is
written as "infinitely often not in a drain, or infinitely many of its steps", which is weak fairness
of those steps spelled out: TLC would evaluate their ENABLED, which costs far more than the step.
`ScopeCleanup` has no liveness.

`worker.cfg` and `worker_outbox.cfg` switch the deadlock check off: a worker that waits
for a message nobody posts, a parent that waits for a reply, and a program that has ended
are all states in which nothing more need happen. `services.cfg` does so for the same reasons: programs end, a receive
without a timeout waits, a bigint has its answer. `storage_close.cfg` does so because clients stop calling, the
`return_code.cfg` because a program ends with its return or at its bound. The other runs keep it.

### What the violated runs show

* `event_loop_cancel`: readyTimers takes all due timers out of the map before the first
  one runs, and ClearTimer looks in the map only. A timer cleared by an earlier callback
  of the same batch still fires; an interval cleared by its own callback is armed again.
  (`ClearedNeverFires` holds: when ClearTimer answers true, it means it.)
* `scope_cleanup_throw`: a throw that a try statement of the same function handles
  releases every open binding of the function, also those around the try statement.
* `scope_cleanup_shadow`: an exit through two scopes that use a name releases the inner
  binding twice and the outer one never.
* `scope_cleanup_labels`: a label stays pending while the body of its statement is
  emitted, so inner loops and switches answer to it. `JumpsStayInside` bounds the
  damage: such a jump never lands too far out.
* `worker_outbox`: messages for callbacks also go to the outbox, which nothing in the
  `worker.*` surface drains: after 32 of them the worker stands still.
* `storage_close`: the check that a store is open is made before its lock is taken. A Put that passed it
  waits for a Close, and then truncates and writes the file of a store that is closed.

### The guesses of the return-code evaluator

A guess is an answer the code gives without having followed the program. Which programs meet one is
recorded by the model and not chosen: `return_code` has statements for each kind, and its properties except a program by
what the evaluator did with it. What a guess leads to is not always wrong, but of each kind some is. The constant
`Trusted` names the kinds of guess that are taken for right. The run trusts none; with
`Trusted = {"jump"}` in `return_code.cfg`, say, TLC finds `AnswerIsRight` or `KnownValuesAgree` violated by a program
with a guess of that kind. What such programs look like, and what else comes under a kind:

* `stale`: `(function () { x = 3; return x; })();` keeps what `x` had (docs/language_basics.md:19): of calls that stand
  alone only those of empty functions are followed. So it is with `x = x / 0`, `x = y[0]`, `y += 1` on a boolean,
  and the parameter of a called function expression whose name is known outside already.
* `passed`: `if (x === 1) { throw x; } return x;` is given the code 1 (docs/statements.md:24). A known condition counts as
  dealt with, also when its branch has a throw or a return that cannot be folded. Passed over as well: an `if` with an
  unknown condition outside a search, the effect of a condition that is dropped, the elements of a literal that counts
  as an object, and what is thrown in a try body.
* `loop`: `{ while (x < 3) { x++; } } return x;` is given the code 1 for an `x` of 1 (docs/statements.md:12): a pass
  that does not break is forgotten.
* `branch`: of an `if` whose condition is unknown the first branch with a return gives the code (docs/statements.md:8).
* `jump`: `while (true) { if (x === 1) { break; } return 7; }` is given the code 7 (docs/statements.md:19). The break
  is in an `if`, and the search for a return goes on behind it.
* `switch`: `switch (x === 1) { case 3: return 1; default: return 2; }` is given the code 1 (docs/statements.md:19). On a
  boolean the cases are compared by their truth; a case that cannot be folded is taken for unequal; a switch on an
  object or a function takes the first truthy case.
* `compare`: `true === (y && x < 3)` counts as false, since its right side is not folded
  (docs/types_and_values.md:20); `typeof` of an unknown name is "undefined".
* `fraction`: `/` and negative powers of whole numbers are rounded (`x = x / 2` of 1 gives 0).
* `next`: a local name `next` in a called function expression sets the counters of identities back, so that two
  objects can be taken for one.
* `block`, which `ReturnCode` finds in the program: the evaluator runs a block on the scope of the list around
  it, so `var x = 2; { var x = 9; } return x;` is given the code 9 (docs/statements.md:8). A declaration in a branch,
  loop or try stays in force behind it as well.

### What the services were found to do

`services` holds because its properties and modules say what the code does, also where that is not what one
would expect. Met while modelling:

* Scheduler. `Promise.any` of a pending and a fulfilled promise waits for the pending one, and spins until the guard
  of the drain reports that the queue did not settle (docs/async.md:88); `Promise.all` waits for a pending
  input in front of a rejected one. A finally callback that answers a pending promise is called again.
  `clearTimeout(0)` and `clearTimeout(null)` take the first sleeping task, whose number is 0. Dependents are woken newest
  first, timers run in the order of the queue. The guard throws at its limit also when the queue is empty
  by then. After an exception in a callback the remaining tasks are not run (docs/async.md:139);
  an exception in a pool thread is lost.
* Worker threads. `receive` without a timeout blocks for ever when nothing more comes.
* Streams. A listener that registers for finish, close or error during that very emission is called twice. `off`
  during an emission makes it pass over the next listener; `off(event)` does not stop it; `off(event, callback)` removes
  one from each of the two lists (docs/fs.md:128). A file emits end at every read at its end, and close sets
  readableEnded without telling those who listen for end. `end` twice on a compression stream emits finish
  twice, and end twice when a drain listener reads in between; writes after end are accepted.
  writableNeedDrain stays set after a failed flush (docs/fs.md:149). A listener of error or drain that ends the stream being
  ended makes the file be closed twice.
* Shared memory. Plain accesses of more than one byte may tear; the count of references is not atomic.
* BigInt. and, or and xor whose answer is the least number of the operands' width (`-1n & -1n`) call
  themselves for ever. not and shifts to the right read one word past the end when the magnitude fills its
  words. Digits beyond 256 parts are lost.
* Storage. A Put whose open check came before Close runs after it and succeeds; two stores on one path overwrite
  each other's keys, and when both truncate the file before either writes, a longer content's tail can
  stay behind a shorter one: both calls answer that all went well, and the file is no JSON and cannot be
  opened again. A failed write leaves the change in memory.
* HTTP server. A once listener can be called by every emission that began before it was taken away. A failed Listen or Serve emits
  error twice (`emitError` with the name error). A second Listen blocks after binding, as the address channel is
  full, unless Addr has just taken the address out, in which case Addr blocks. Two goroutines that ask Addr at once:
  one of them may be told "". A connection listener that closes the server blocks for ever, because
  Shutdown waits for Serve, which waits for the listener. `dropRequest` is offered and never emitted
  (docs/network_http_server.md:55).

## 4. What is proved

All theorems hold for every value of the constants that satisfies the modules' named
assumptions; TLC evaluates each of them in a run. Bounds are naturals throughout. Beyond that:
`LoopAssumption`: delays are integers. `CleanupAssumption`: the sentinels are not names or
labels. `WalkAssumption`: modules are numbers, entries lists of them; `GraphAssumption`: so are
the lists of imports given to AddModule. `WorkerAssumption`: the
worker's own goroutine is none of those outside, which have NextMessage and Close at most,
and channels have room for one message. `StorageAssumption`: the sentinels are not
values, stores or clients. `SchedulerAssumption`: there is a thread to start, the guard's limit is positive,
delays are naturals. `SharedBufferAssumption`: sizes are positive, the sentinel
is no thread. `ServerProgramsAssumption`: programs use events that are known.
`ScriptsAssumption`: a script listens for events that `on` of its kind of stream knows. Sets
of goroutines, clients, threads and names may be infinite.

**EventLoopProofs.** `TypeCorrect`, `MicrotaskOrder`, `MicrotaskPriority`, `Cancellation`,
`Accounting`, `FiringOrder`, `Quiescence`, `Refinement`. The inductive invariant `Inv` adds
three facts to the checked ones. `ControlInv`: what RunReady's locals hold at each
statement (a timer is current from its start to its re-arming; only inside a batch is the
batch not empty); without it a step could start a timer that does not exist.
`HandleInv`: a timer is marked canceled only when it is taken out of the map, so the test
before an interval is re-armed never finds a mark. `DueInv`: while a batch runs nothing in
the map is due before `now`, so whatever callbacks schedule comes after the rest of the
batch; this gives `FiringOrder` and the guard of the service's `Fire`. `Refinement` shows
`Spec => Service!Spec` step by step: StartTimer is Fire, Rearm is Finish, ReadyTimers and
the microtask steps are stutters.

**ScopeCleanupProofs.** `ReleasedOnce`, `OpenIsAlive`, `LastDeclaredFirst`, `NoJumpEscapes` and
`TypeCorrect`: every property of the run, for every depth and number of bindings. The
invariant adds `Registry` (registered bindings are declared ones, oldest first, not yet
left; two open bindings of one name have clashed) and `Nested` (bases of constructs grow
outward-in; `keep` of a construct that a jump can end is exactly the height at which
the jump lands; a label belongs to a construct that can be left by it). `Nested` is what makes
an exit release what it leaves and no more. The argument: `ResolveFinds` (a lookup by name finds
the binding itself unless names clash; the innermost one exists by well-founded
induction on the index, `LargestExists`), `ReleaseEffect` (what releasing down to a
height does to each binding), `RegistersFacts` (what a step keeps registered) and
`StepInv`, which reduces every action to: leave the scopes above `h`, release down to
`r <= h`, what lies between is caught over, and the new stack is nested. All exits but
`ThrowToHandler` have `r = h`.

**ModuleWalkProofs.** `TypeCorrect`, `OrderIsTopological`, `CyclesAreReal`,
`DepthsAreLongest`, for every set of modules, every well-formed graph and every list of entries. The
only assumption (`WalkAssumption`) is that modules are numbers and entries lists of
them. The invariant's heart is `FrameInv`: the links a frame's loop has passed lead to visited modules
that its depth accounts for, but for the one to the frame above it. So when a loop is over
(`Leave`), everything its module links to is in the order already, and deeper by less. Each
module of the stack links to the next one, which makes what `FindCycle` cuts out a
cycle. `EntriesInv` and `ReachInv` say that nothing asked for is forgotten and nothing
else is visited, the latter by closed sets, which needs no induction. One lemma per action;
`AccountedPath` is the step of the longest path. `GraphImplementsWalk` is the refinement: each edit
leaves a graph that is well-formed (`EditsKeep`), so every graph a sequence of edits builds is one the
walk may start from, and the walk's steps are the walk's. What a loop keeps of a list (`Kept`) is a
recursive function of how far it came; `KeptElements` shows, by the smallest place where it would fail
(`LeastExists`), that it keeps exactly the chosen elements. `WalksOfTheGraph` then states order, cycles and
depths of whatever the edits have built.

**WorkerProofs.** `TypeCorrect`, `MessagesAreKept`, `CallbacksAreTold`, `ErrorIsSetBeforeClose`:
every safety property of the run, for any capacity, any number of goroutines, messages and
callbacks. `BaseInv` carries the types: `ControlInv` (who can be where, and that there is a
message exactly while one is dispatched), `LoopInv` (where dispatch's loop over its copy is)
and `RoomInv` (calls of PostMessage under way count against the bound, so that accepting one
stays within it). Above it, one invariant per property. `LateInv`: who checked `done` too late is
not in the select; without it a late call could be accepted. `HearInv`: callbacks before the
loop's place have heard this message, those after it the one before, those outside the copy
none; this is what `CallbacksHear` says at the end of a dispatch, told for every point of it.
`EndInv`: a panic is recovered, and its error set, before the channel is closed.

**SchedulerProofs.** `SchedulerTypeCorrect`, `TasksAreOwned`, `SchedulerRefinement`, for any number of promises, timers, items, awaits and
threads, and drains inside callbacks inside drains to any depth. The property alone is not inductive: whether freeing a task is
safe depends on who else may point to it. `SchedulerInv` says who holds each task at every
moment. `HeapInv` is about a heap, the tasks held by frames of the stack, and those in the pool: a queue holds a task of its
kind once, and a task says it is queued exactly when it is (`QueuesInv`); the counter of a task is the
number of places where promises point to it (`DepsInv`); a free record is in no hand and a finished one only waits
to be let go (`FreeInv`, `FinishedInv`); any other is in a queue, waited with, or in one frame's hands, and only a
combinator may wait while it is queued or run (`HeldInv`, `WaitingInv`: it is queued when its verdict is known, while
slower items still point to it, so a task that has run is freed only when its counter says that none does); tasks in the pool are in the queue of operations and not
completed (`PooledInv`), so promoting completed ones takes none from the pool's threads. `KeyInv` gives each task a
promise or a timer number no other task has: there is always a free record for the next one, as there is always memory in
the program, so that the bound of the model never binds. `FramesInv`: frames hold tasks that differ and
are what the frame says; `PoolOnceInv`: an operation is in the pool's queue or in one thread's hands, once.
The argument goes over heaps, not over states: each operation on the heap (`AppendTask`, `AddDependent`, `Wait`,
`Settle`, `Release`, `Take`, `Promoted`) has a lemma that says which tasks change and who holds them after it, and
an action is a composition of these, put together by `Assemble`. The loops of `Wait`, `Settle` and `Promoted` are
recursive functions of how far they came, about which a lemma says that they are the loop (`LoopExists`) and that each
turn keeps the invariant, by the smallest turn that would not.

`SchedulerRefinement` states that `Scheduler` implements `Promises`, the contract of who may settle how. The rule of a
promise is that of the one living task that is to settle it (`RuleOf`). `OneSettles` says that there is at most one,
from `KeyInv`, and `OnlySettler` that whoever has a promise as its key gives it its rule. `SchedulerInv` does not tie tasks to statuses, so the proof carries `PromisesInv` beside it. `LiveInv`: the promise of
a living task is pending, otherwise a second settling would go unseen; `Running`: while a
callback runs, the promise it reacts to is settled and the callback is the one for that outcome, because the
rule has to allow the settling when the callback returns, which is many steps after the reaction began. A step of
the scheduler is then of one of five kinds, each with its lemma: it moves no rule (`UnmovedStep`), settles a pending
promise and finishes its task (`SettledStep`), creates a promise, settled or with a task (`SettledFromStart`,
`CreatesStep`), hands a reaction over to the promise its callback returned (`FollowsStep`), or loses a sleep to
clearTimeout(0) (`LosesStep`). That what is settled with is allowed (`AllowedIs`) follows for a reaction from the
status of its source (`ReactionAllowed`), for a combinator from its walk over the items (`VerdictAllowed`).

**StreamProofs.** `StreamsTypeCorrect`, `StreamsEndOnce`, for every script, any number of listeners, calls,
chunks and bytes, and emissions inside emissions to any depth. Frames come and go at the front, so
an emission is named by its place from the end (`Emissions`), which it keeps while others run inside
it. `ObjectInv` carries the types. `HandleInv` ties the properties of the object to its handle: with
them `ClosedOnce` is inductive. `BookInv` and `RunInv`: a listener has one place in one array, of its event
and its kind, and an emission runs over such an array. `OnceListenerInv`: an array of once listeners is in
the object, and none of them was called, or one emission alone runs over it and none from its index on was;
this is why taking the array out before calling (`EmitTurnsToOnce`) matters. `EndInv` is the
heart: before the end everybody who listens for it is listed and was not called (`Waiting`); from then on
at most one emission tells it, and who was not told is still owed a call by that (`Owes`), in the
rest of its array or in the array of once listeners it will turn to (`Told`). When no frame is left nothing
is owed, which gives `ListenersServed`. The methods are reduced to three kinds of step: nothing is told
(`QuietStep`), one more emission starts (`TellingStep`), and only listeners change
(`ListensKeeps`); on, once and off have a lemma per part of the invariant (`Grown`: an array
has one element more; `Thinned`: at most one less, and who is passed over by that is excused).

**HttpServerProofs.** `HttpServerTypeCorrect`, `ServerIsKept`, for any number of goroutines, listeners and
connections. Steps to do are named by their place from the end, as above. `ControlInv`: `PlaceInv` says where
the steps that speak of the address, of serving and of starting a connection can stand; `HolderInv`
counts: the address was published as often as it is in its channel or in the hand of a goroutine
that will put it back. `HearInv`: `ListInv` (a list has the listeners of its event that are not
removed, in order), `TellInv` (an emission has its next listeners left, in order), `DueInv` (what a listener
has heard and the emissions still to call him are together the emissions he was listed for) and `OnceInv` (a once listener
that has heard is removed, or is about to be). `DueInv` needs the cardinality of sets of places over all goroutines,
which each step changes by one or not at all; one lemma per kind of step says which.

**ServicesProofs.** `StorageTypeCorrect`, `AcknowledgedIsKept`. `CallInv` and `LockInv` say that a store's
lock is held exactly from the change of the map to the end of the write, and that what is about to
be written is what is in memory; `WriterInv` that file and memory of the last writer agree
whenever nobody is at work there; `OwedInv` that what is owed for a key is in the newest store, and in the file
unless a write under way has truncated it. A write over another store's content, which may leave a
torn file, is nobody's last write and leaves nothing owed, as does one that a crash or a failure cuts short.
`AnswersAreInOrder` (with `ThreadWorkerTypeCorrect`): `QueueInv` says that the received answers, the
waiting ones, the message in hand and the waiting messages continue one another's numbers;
`CountInv` that together they are all that was posted, until terminate drops the unreceived; `StateInv`
which states of owner and thread meet. `UpdatesAreKept`: who holds the lock is in the middle of an
operation of Atomics (`BufferLockInv`), and the buffer is the one where every operation is one step, but
for the bytes the holder has stored already (`StoredInv`, with `PartlyStored`). A plain access in
between touches one byte and changes both in the same way. `EachServiceByItself`: a behaviour of the sum is one of each
service; so `ServicesKeepTheirs` states of the sum what is proved of the parts,
`ImplementsPromises` included.

Only model-checked:

* `RunReadyReturns`, `WaitersReleased`, `WalkEnds`, `DrainsEnd`: liveness under fairness is beyond the prover.
* `BitwiseExact`: the operators are folds over words, and compare quotients and remainders by powers of
  two. An induction can be done by a smallest counterexample, as above, but its step is nonlinear arithmetic, which the
  provers do not do. The same for the types of bigints and shared bytes within `ServicesTypeOK`.
* the queries of the module graph: they walk by a recursive operator, and modules that declare one, or reach
  one, cannot be proved about. So cannot the return-code evaluator and its reference.
* `ClosedIsFinal` and the other properties of the violated runs: they are false.

## 5. Not modelled

Text and I/O: lexer, parser, IR assembly, toolchain, distribution, native bindings, the new runtime's
sockets and streams; of the previous runtime its values, crypto, compression, file system calls,
child processes, HTTP bodies, TLS and datagrams. The previous compiler is not modelled but for the entry wrapper that
drains the scheduler; the C libraries copied beside it (raylib and others) are other projects' code. By
far most of the repository's C lines are of that kind, so that the share of C lines the map can name is small
whatever is modelled; the new compiler and runtime are written in Go.

## 6. Plan

In the order of importance:

1. `ProjectLoader` and `ModuleRegistry`: LoadProject's work list, the resolution of an import, the
   bindings, and the initializers at run time, composed with `ModuleWalk`: every module is
   initialized after its imports, whatever the order the source names them in.
2. `EmitterLabels`: labels the emitter defines and branches to, unreachable code, finally
   bodies, composed with `ScopeCleanup`'s constructs; `ControlFlowCleanup`, the lowering
   pass, compared with it.
3. `Escape` and `Lifetime`: facts by name against reachability.
4. The bitwise operators and destructuring of the return-code evaluator.
5. Watcher, child processes, audio queue of the new runtime: small modules that join `Services`.
