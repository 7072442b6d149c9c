# Verification of SubsetJuliaVM's runtime

SubsetJuliaVM runs a subset of Julia on a single-threaded bytecode VM: parser,
lowering, type inference, bytecode compiler, VM, a Julia Base library written
in Julia, a REPL session, and FFI, web and ahead-of-time hosts. Most of it is
sequential translation. This project models the parts whose correctness
depends on the order of many small steps: the task system (VM-owned
continuations with a cooperative scheduler, and the tasks, Conditions and
Channels of the Julia library on top), exception handling, the caches of
dispatch decisions under world ages, the compacting heap of structs, and the
REPL session with its recovery after errors. The models are checked with TLC;
every safety property the runs check, of all of these parts, is also proved with
TLAPS for every value of the constants.

Paths below are relative to the repository: `vm/` stands for
`subset_julia_vm_vm/src/vm/`, `base/` for `subset_julia_vm/src/julia/base/`.

## Inventory

| Component | State | Operations | Interaction | Hard behaviour |
|---|---|---|---|---|
| Task scheduler, `vm/builtins_tasks.rs`, `vm/exec/sleep.rs` | task table with state, entry and saved context; ready queue; timers; current task | schedule, yield, park, wake, sleep, finish of a task, activation | called by instructions and builtins; moves the interpreter's active state | a switch that fails half way; timers against wakes; deadlock detection; refusal below native calls |
| Tasks, `base/task.jl` | fields of `Task`, its waiters, bound channels | schedule, entry, completion, wait, fetch, yield, waitany, waitall, timedwait, notify | scheduler primitives; closes bound channels on exit | completion against waiting; tasks marked failed by others; stale waiters |
| Condition and locks, `base/lock.jl` | waiter queue, value; lock flag and count | wait, notify; lock, unlock, trylock | scheduler primitives | wake-ups meant for another wait; locks without an owner |
| Channels, `base/channels.jl` | open flag, buffer, queues of putters and takers | put!, take!, fetch, iterate, close, bind, empty! | parks and wakes tasks; closed by the exit of a bound task | lost wake-ups, barging, the unbuffered handshake, close against parked tasks |
| Exception handling, `vm/state.rs`, `vm/exec/error_handling.rs`, `vm/frame.rs`, `stmt_try_catch.rs` of the compiler | handler stack, pending and caught exceptions, pending finally rethrows | PushHandler, PopHandler, raise, Rethrow, rethrow(), return | every error of the VM goes through it | nested finally, return through finally, native-call floor, per-task state |
| Interpreter loop, `vm/exec/mod.rs` | instruction pointer, frames, operand stack | run, run_until_frame_return | root return of a task calls the scheduler | errors that leave run() without passing the handlers |
| Dispatch and world age, `vm/dispatch.rs`, `vm/state.rs`, `vm/mod.rs`, `vm/exec/call_*.rs` | `min_world` of the rows, world of each frame, three caches | call, define a method, roll back an append | a definition at run time invalidates; the REPL appends rows | entries that outlive a definition; layers that disagree |
| Struct heap and GC, `vm/state.rs` | heap, roots, weak references, finalizers | allocate, mark, compact, remap, finalize | suspended contexts and native roots are roots; the REPL compacts between inputs | a root missed in a parked task; a shared cell rewritten twice |
| REPL session, `subset_julia_vm/src/repl/session.rs` | mirror of values and definitions, compiled prefix, live VM | eval on three paths, recovery, rollback, reset | appends to the VM, resets it between inputs | an input that fails half way |
| Parser, lowering, inference, compiler, bytecode, hosts, rest of Base | – | – | – | sequential; not modelled |

What makes each part correct: the scheduler runs one task at a time, forgets
and duplicates none, never mixes two contexts, undoes a failed switch
completely and reports a deadlock only when there is one; a wait on a task
returns when the task is done; a wake-up is not lost and not given to the wrong
wait; a channel respects its capacity, hands every value over, and holds nobody
once it is closed; a finally runs once and resumes the exception that entered
it; a call goes to the method the resolver would choose now; no reference
outlives a collection with another meaning; and between two inputs the session,
its compiled prefix and its live VM agree on what ran. `PROJECT.json` lists the places where this is hard to test
under "hazards".

## Modules

- `TaskQueues`: queues as sequences, and the `retain` calls on them.
- `TaskScheduler`: `vm/builtins_tasks.rs` in full. Variables are the fields of
  `Vm` (`tasks` split into `count`, `state`, `entry`, `context`; `runnable`,
  `sleeping`, `current`), the active interpreter state (`stack`, `handlers`,
  `floor`) and the control position inside a switch (`mode`, `leaving`, `next`,
  `pending`, `err`, `outcome`). A switch is a chain of steps: `SaveCurrent`,
  then `DrainTimer`/`DrainDone`, `PickTask` or `WaitForTimer`, then
  `ResumeTask`/`StartTask`, or the failure actions. `Compute`, `Throw` and the
  three `Raise` actions are the program and the handler machinery around it;
  `ReplReset` is `reset_repl_transient_state`.
  Operand values are reduced to the task that pushed them, which is all
  isolation needs; a handler to the stack depth it records; a deadline to the
  time left, which `Elapse` counts down (the code compares instants). Frames,
  return addresses and exception state move together with the stack and the
  handlers in the code and are represented by them.
- `CoopScheduler`: the abstract promise – FIFO hand-over, wakes that also end a
  sleep, refused switches that give control back. `TaskScheduler` implements it
  (`ImplementsCoop`): the mapping forgets contexts and puts a picked task back
  at the head of the queue until it is activated.
- `JuliaTasks`: `base/task.jl` and Conditions, built from the actions of
  `CoopScheduler`. `pc` says where in a library call a task is; a loop that
  parks is one action per iteration, a loop that wakes one action per wake.
- `Channels`: one channel, extending `JuliaTasks`; it replaces the completion
  of a task by one that closes the channel bound to it.
- `Exceptions`: what `compile_try_stmt` and `Stmt::Return` emit, run on the
  exception state of the VM. There is no program: in every clause anything that
  can be written there may come next. `ctx`, the stack of open tries, calls and
  inlined finally blocks, stands for the instruction pointer and the frames;
  `handlers`, `caught`, `perr`, `pval` and `marks` are the fields of `Vm` (`marks`
  is `pending_finally_rethrows`). An exception is a number. Backtraces are left out.
- `Ranks`: the number of a position in a finite set of positions, and the
  positions in their order. The properties of `Exceptions` say with it which
  handler belongs to which clause; in `StructHeap` the number of a live index is
  the index after a compaction; `ReplSession` filters its tables with it.
- `DispatchCaches`: the function table is a constant sequence of rows, a row the
  set of types it matches; `min_world`, `current_world`, the world of each frame,
  and the call-site caches (`l1`), `dispatch_cache` (`l2`) and
  `method_dispatch_cache` (`methods`). The resolver is "the least matching
  candidate that is visible", which is all the caches depend on. A definition may
  bring a refresh group with it (`Groups`): callers compiled anew by the REPL,
  which become visible in the same world.
- `StructHeap`: the heap, two task contexts with a local, an operand and the
  exception values, a shared `Ref` cell, a transient root, a `WeakRef` and
  finalizers. A reference is an index; which struct it means is kept beside it
  as history, and no action reads it. `pending` lists the callbacks that were taken
  off and wait, in the order they will run: those that a callback's own `finalize`
  takes off come before those that wait for this callback (in the code the latter
  are a local of `run_finalizer_callbacks`). The field `pending_finalizers` is empty
  whenever an input ends, since `run_pending_finalizers` takes it as a whole and an
  error drops what was taken; so the reset between inputs, which does not touch it,
  finds none.
- `ReplSession`: the mirror, the compiled prefix (`persistent_compile`) and
  `live_vm`. An eval is one step, since nothing runs beside it; an input is a
  sequence of statements and may throw after any of them. Values, bodies and
  module states are stamped with the input that wrote them. On the full path the
  bodies of the modules and their `__init__` are compiled in front of main, so all
  of them have run when main starts, those that stand behind the error too
  (`Executed`, `Called`); `truth` and `inits` keep what a reader of the source
  expects: the statements before the error, in their order, and the calls of
  `__init__` that were made.
- `MCTaskScheduler`, `MCJuliaTasks`, `MCChannels`, `MCExceptions`,
  `MCDispatchCaches`, `MCStructHeap`, `MCReplSession` with their `.cfg` files:
  the TLC instances.
- `TaskSchedulerProofs`, `JuliaTasksProofs`, `ChannelsProofs`, `RankProofs`,
  `ExceptionsProofs`, `DispatchCachesProofs`, `StructHeapProofs`,
  `ReplSessionProofs`: the proofs.

The library's models rest on the scheduler's only through `CoopScheduler`, and
that it is implemented is proved. One thing of the scheduler is not used there:
an activation that fails, because the entry of every library task is the
ordinary function `__sjulia_task_entry`.

The last four modules stand on their own. What they share with others in the
code is small and appears in both: the exception state of a task is saved with
its context (`TaskScheduler`, `StructHeap`), a definition at run time activates
a dormant row (`DispatchCaches`, `ReplSession`), and the reset between inputs is
`ReplReset`, `ResetForInput` and the start of every eval.

Each of the four has a constant that leaves program shapes out (`Shapes`, or
`OldWorldCalls`): with the shape allowed, a property fails in the code as it is.
"Known deviations" says how.

Operators placed right before a definition with the same parameters
(`ClearNothing` before `ClearActive`, `TakeWakesNobody` before `TakeValue`, ...)
are deliberate faults. They are not part of the specification; each shows that
a property notices when the code it stands for goes wrong.

## Runs

| Run | Instance | Checks |
|---|---|---|
| `scheduler` | 3 tasks (one may fail to start), stack 2, 1 handler, sleeps of 0–2 ticks | `TypeOK`, `OneRunning`, `QueueExact`, `ContextExact`, `TimersExact`, `Isolation`, `HandlersValid`, `FailedSwitchRestores`, `DeadlockGenuine`, `ImplementsCoop` |
| `scheduler_live` | 3 tasks, fairness | `RunnableRuns`, `SleeperWakes` |
| `tasks` | 3 tasks, 6 library calls | `TaskTypeOK`, `NoMissedExit`, `NoSpuriousWake`, `DoneIsFinal` |
| `channels` | 3 tasks, 7 calls, capacity 0 or 1 | `ChannelTypeOK`, `NoLostWakeup`, `ClosedReleases`, `Rendezvous` |
| `library_live` | 3 tasks, 5 calls, capacity 1, fairness | `WaitReturns`, `CloseFrees` |
| `exceptions` | 4 kinds of try, 5 open at once, 3 exceptions | `TypeOK`, `HandlersExact`, `CaughtExact`, `FinallyResumes`, `FinallyOnce` |
| `dispatch` | 5 rows, 5 call sites, 2 types, caches of 1 entry, 3 worlds, 1 refresh group | `TypeOK`, `DispatchFresh`, `LayersAgree`, `UnrelatedStayWarm` |
| `heap` | 2 tasks, 3 structs and 1 finalizer, or 2 of each | `TypeOK`, `NoDangling`, `WeakExact`, `FinalizersExact`, `FinalizersOnce` |
| `repl` | inputs of up to 2 statements, 4 inputs | `TypeOK`, `SessionExact`, `LiveExact`, `InitOnce` |
| `fetch_loses_wakeup` | capacity 1, with fetch | violates `NoLostWakeup` |
| `exceptions_nested` | shape `nested` | violates `FinallyResumes` |
| `repl_stale_vm` | shape `stale_vm` | violates `LiveExact` |

### Bounds

Three tasks are enough for the main task, a target of a switch and a bystander:
every rollback involves the outgoing task, the target and a queue that may hold
a third. Two stack slots distinguish a value from the synthetic result of a
primitive; one handler with a depth above 0 distinguishes absolute depths from
zero. Sleeps of up to two ticks give timers in both orders, equal ones, and one
already due. In the library, a producer, a consumer and a competitor of either,
and a total of calls that lets each park, be woken and act again. The bound on
calls is shared by all programs, so that one task may make most of them.
A deeper instance of the unbuffered channel (4 tasks, 9 calls, 14.7 million
states) also satisfies the invariants of `channels`.

Exceptions: five open activations hold a try in a finally in a try, with a call
between any two of them, which is enough for every pair of clauses to meet
directly or through a function; three exceptions give one that is pending, one
thrown while it is and one more thrown then. The four kinds of try are catch
alone without and with locals to forget (with and without a handler for the
catch clause), finally alone, and all clauses. `exceptions` does not check for
deadlock: an uncaught exception ends the program.

Dispatch: three worlds are two definitions, the second one after caches were
filled with results of the first; a limit of one is exceeded by the keys of a
single site, in both bounded caches, while the inline cache of the site keeps two; one rollback makes slots of an older generation; two frames are a
call made by a callee. The sites are of all four kinds, one with a fallback, one
whose only method comes later, one with a module-qualified method. The refresh
group is a caller of the function that gets a new method; the larger instance with
two entries per cache (1.2 million states) was checked as well.

Heap: three structs are a dead one in front of one that moves and one that is
reached through it or through the cell; two held values are a local or operand
of the running task and one elsewhere (suspended task, exception, native root).
`MaxObjects` bounds structs made and finalizers together: with two finalizers, which is a
callback that calls `finalize` while another one waits, there are two structs.

REPL: four inputs are one that defines, one that fails, one on whatever path
that leaves possible, and one to notice. An input of two statements can fail
before, between and after them. With one variable, two methods, one module, a
package and an automatic import every statement kind meets every other. The methods
are interchangeable and checked up to symmetry.

### Fairness

The VM has one thread, which keeps executing until run() returns.
`TaskScheduler` assumes weak fairness of the scheduler's own steps (a switch, once
begun, is straight-line code; an error on its way reaches its handler) and
strong fairness of the clock while tasks run. Nothing is assumed about
programs; instead `RunnableRuns` and `SleeperWakes` have the premise
`Cooperative`, that control returns to the scheduler again and again. The
instance has no failing entry: a target that can never be started stays at the
front of the queue and starves the rest, which is how the rollback is written.
`Channels` assumes weak fairness of the whole next-state relation: somebody
always runs.

### What the violations show

- `fetch_loses_wakeup`: one task is parked in fetch, one in take!. A put! wakes
  the first, which looks at the value and wakes nobody.
- `exceptions_nested`: an exception enters a finally and leaves a mark; a
  try/finally inside that finally completes normally; its closing Rethrow finds
  the mark of the outer one and raises the outer exception at once. The rest of
  the outer finally does not run.
- `repl_stale_vm`: an input parks a VM. The next one takes the full path,
  assigns a variable and throws before its using. The new VM is not kept, for a
  good reason; but the old one is still parked, and the input after that may run
  on it, with the old value of the variable.

### Known deviations

Behaviours met while modelling in which the code does not do what a property,
a comment or a document says. Those without a run of their own are left out of
the passing runs by a constant; where a `.cfg` is named, TLC reproduces them
with `tlc -config <cfg> <module>`.

Tasks and channels:
- The deadlock error of a finishing task leaves run() past the try blocks other
  tasks are parked in, although the ADR on task continuations calls it
  catchable (`MCTaskSchedulerDeadlock.cfg`, `DeadlockCatchable`).
- A task that catches the deadlock error of its take! or put! leaves its entry
  in the channel's queue; a later wake-up is spent on it
  (`MCChannelsStale.cfg`, `OperationsServed`).
- A consumer parked inside iterate gets InvalidStateException when the bound
  producer exits (`MCChannelsIterate.cfg`, `IterationEnds`). With an unbuffered
  channel this is the normal end of every loop over it.
- The comment above timedwait says that sleep blocks the whole VM, but it parks
  only the current task; the comment in put! says that the consumer wakes the
  producer whose value it took, but it wakes the first of the queue.

#### Exceptions

- `nested`: see `exceptions_nested`.
- `again`: rethrow() in a try nested in a catch clause takes the caught
  exception off the stack; when it is caught there, the outer clause has none.
- `builtin`: an error of a builtin inside a finally that an exception entered is
  given the value of the pending exception, since handle_error makes a value
  only when there is none (`vm/state.rs:5558`).
- `inline`: an exception that leaves the finally a return runs inline meets the
  handler of the same try and runs the finally again (the handlers are removed
  after the inlined blocks, `stmt.rs:3785`).
- A return, break or continue inside a finally is compiled into itself without
  end; it is not a program of the model.

#### Dispatch

- `OldWorldCalls`: a frame older than the newest method resolves in its own
  world and caches the decision; a newer frame, or the same site later, takes it
  from the cache (`MCDispatchCachesOldWorld.cfg`, `DispatchFresh`). The comment
  in `call_function_variable.rs:1993` says that callee, argument types and
  generation determine the method; the world is missing.

#### Struct heap

- `finally`: marking and remapping of suspended tasks skip
  `pending_finally_rethrows`, so that a task suspended inside an unwinding
  finally resumes an exception that names another struct
  (`MCStructHeapFinally.cfg`, `NoDangling`).
- `captures`: a struct that only a finalizer's callback or snapshot holds is
  not marked, and the callback sees another struct in its place.
- `nested`, `throws`: a collection inside a finalizer moves structs under the
  callbacks that were taken off and wait; a finalizer that throws loses them.
  Both need two finalizers.
- A WeakRef to a struct that only the operand stack holds is emptied although
  the struct is alive (`vm/state.rs:5206`).

#### REPL session

- `stale_vm`: see `repl_stale_vm`.
- `unaligned`: an import-only input that fails parks the rebuilt VM while the
  compiled prefix stays that of an earlier table, and indices differ
  (`LiveExact`).
- `redefinition`: the full path drops the old method of a name before the input
  runs; if it fails before the new definition, the session keeps the
  old one and the VM has neither (`LiveExact`).
- `late_using`: when an input that defines something fails, all of its usings
  are stored, the ones not reached too (`SessionExact`).
- `module_error`: a module that was reached by a failing input is not entered in
  `initialized_module_paths`; the next rebuild runs its `__init__` again
  (`InitOnce`) and with it overwrites the state of the module (`SessionExact`).
- `late_module`: an input throws before a module. The module has run all the same,
  since the bodies of modules come before main. The recovery takes its bindings for
  a sign that it was reached (`from_reached`) and, if the input has a method, which
  makes a checkpoint, stores the module. The comment on `store_recovered_modules`
  (`session.rs:3329`) says that "source-later modules and failed-body expressions are
  not persisted"; the test of this, `repl_source_later_module_remains_unpublished_11761`,
  has no method in its input (`MCReplSessionLateModule.cfg`, `LaterNotPersisted`). The
  state of the module is in the session even if the module is not (`SessionExact`);
  the VM that ran it is parked (`LiveExact`); and its `__init__` has run, and runs
  again with the next rebuild if the module was stored (`InitOnce`).
- `early_call`: a call into a module that the input redefines further down reaches
  the new module, whose body has run by then, and its state is not the initial one
  (`SessionExact`).
- `fresh_error`: a failing input on the fresh delta path has no recovery plan;
  the assignments it made are lost (`SessionExact`).
- `reset` clears the automatic import of `InteractiveUtils` with the others; the
  model does the same.

## Proofs

### Scheduler

Everything is proved for any number of tasks, any stack and handler bounds, any
sleep length and any set of failing entries, from `BoundsAssumption` only (the
bounds are natural numbers, the table has room for the main task, and the
failing entries are tasks).

`TaskSchedulerProofs` proves `Spec => []IInv` (`Invariance`) and derives the
nine safety invariants of the run `scheduler` from it. `IInv` is the
conjunction of
- `TypeOK`;
- `StackInv`: handler depths are ordered and within the stack they belong to;
  those of a suspended task fit its stack even without the synthetic result
  value on top of it, which a rollback pops;
- `TableInv`: `OneRunning`, `QueueExact`, `ContextExact`, `TimersExact` – states,
  queue, timers and contexts of the table fit together – and `SwitchInv`, what
  the scheduler relies on between the steps of a switch;
- `Isolation`;
- `RestoreInv`: `SavedInv` (while a switch that can fail is under way, the saved
  context is the state before the primitive plus the pushed result) and `FailedSwitchRestores`;
- `ErrorInv`: no error is pending while a task runs without raising, and
  `DeadlockGenuine`.

The strengthening is needed because most invariants depend on each other
through a failed switch: `FailedSwitchRestores` speaks of the moment an error
starts, but whether it holds was decided when the context was saved, three
steps earlier; `QueueExact` after a rollback needs `Distinct` of the queue
before it, for `retain` to remove the one entry; `HandlersValid` when a catch
truncates the stack needs the order of all the depths, not only the topmost.

The last part of `TaskSchedulerProofs` proves `Spec => ImplementsCoop`: initial states map
to initial states, and under `IInv` each action maps to one action of
`CoopScheduler` or to a stutter (the drain and pick steps, the raise of an
error). Two facts carry it: the picked task is the head of the queue, because
by `QueueExact` every entry is Runnable; and a reinstated task has no timer left.

### Julia tasks

`JuliaTasksProofs` proves the safety properties of the run `tasks` for any
set of tasks and any bound on calls, from `ProgramAssumption` only (the main task
is a task, the bound a natural number). The invariant `TaskInv` has five parts:
- `SchedInv`: the ready queue holds the Runnable tasks, once each; the task in
  control is the Running one; a timer belongs to a Blocked task;
- `TypeInv`: the types, without the places a program can be at, so that
  `Channels`, which has more of them, can use the same invariant;
- `EntryInv`: how the fields of a Task object, the scheduler's status and the
  program's place fit together before the task enters its function;
- `WaitInv`: whoever is parked in `wait(t)` has an entry among the waiters of `t`,
  and when `t` is done, its completion is under way;
- `LiveInv`: until a deadlock error, an entry of a queue of waiters is of a task
  that is parked there, and the only one of this task.

`NoMissedExit` is `WaitInv` at the moments in between, and not inductive alone: a
completion wakes the first waiter of its queue at a time, so that nobody is left
behind depends on each of them having an entry. `NoSpuriousWake` needs `LiveInv`:
a wake goes to whoever the queue names. `DoneIsFinal` needs `EntryInv`, since
`schedule` and the entry of a task test different fields of the object.

### Channels

`ChannelsProofs` extends `JuliaTasksProofs`: the actions of the tasks appear in
`ChannelNext` too, `TaskInv` holds there as well, and the lemma `Elsewhere` says
once what such a step can do to the channel. `CapacitiesAssumption` (capacities
are natural numbers) is the only further assumption; 0, a handshake, and any
buffer size are covered alike.

`ChanInv` adds to `ChannelTypeOK`, `ClosedReleases` and `Rendezvous` that whoever is
parked in the channel has an entry in the queue that is woken (`QueuedInv`), that
a value which is offered is in the channel or has left it (`OfferInv`), and that,
until a deadlock error, an entry is of somebody parked there (`EntriesInv`).
`ClosedReleases` rests on `QueuedInv` alone, which is why stale entries do not
matter for it.

`WakeupsKept` is about numbers: `put!` and `take!` wake one task each, and it may
find the value or the room gone. `ServeInv` says that, while anybody is parked,
those awake in the same operation are at least as many as there are values
(`TakersServed`) or free places (`PuttersServed`). When everybody is parked, none
is awake, so there is none of either. The theorem assumes that programs do not
call `fetch`. With it the property is false: `fetch` consumes a wake-up and leaves
the value, as the run `fetch_loses_wakeup` shows.

### Exceptions

`ExceptionsProofs` proves the five properties of the run `exceptions` for any set
of try statements, any depth and any number of exceptions, from
`ExceptionsAssumption` (the bounds are natural numbers; `Statements` and `Shapes`
are what their names say). `RankProofs` has the lemmas on numbering a set of
positions: how ranks and cardinalities change when the set is cut at a position
and when one position is put behind the others.

One fact is shared by all of them: every action removes what is open from some
depth on and then opens at most one thing there (`Cut`, `HandlerCut`, `OpenStep`).
So each conjunct about positions is proved once for a cut and once for a thing
opened, and each action only says where it cuts. A handler cuts at the try it
belongs to, the end of a clause at the innermost one, a return at the call.

`BaseInv` is inductive for every program, whatever `Shapes` is: `TypeOK`; `CtxInv`,
how the open things may be nested (in particular, below a finally that a return
runs there are, back to the call, only try statements outside their finally); and
`HandlerInv`, `HandlersExact` in every mode and, for each handler, that its
`return_ip_len` is the number of calls its clause is in. This depth is what makes
`HandlersExact` inductive: `pop_handlers_for_return` decides by it alone which
handlers stay. `ExceptionTypes` and `HandlersFollow` follow from it.

The others leave out the shapes for which they are false ("Known deviations"), and
no more:

| Theorem | Property | Leaves out | Invariant beside `BaseInv` |
|---|---|---|---|
| `CaughtFollow` | `CaughtExact` | `again`, `builtin` | `ValInv`, that every value recorded is that of its exception; `CaughtInv`, which also says that `caught_exception_len` of a handler is the number of catch clauses below it |
| `ResumesOwn` | `FinallyResumes` | `nested` | `MarkInv`: one mark for each finally that an exception entered, in order, and `finally_pending_len` counts those below the handler |
| `FinallyRunsOnce` | `FinallyOnce` | `nested`, `inline` | `MarkInv`; `ShieldInv`, that between a finally a return runs and an exception on its way there is a catch; `RunsInv`, that a try counts one run when it is in its finally or a return has run it, and none before |

The proof of `FinallyOnce` showed that leaving out `inline` is not enough. In a
finally that an exception entered, a function is called that returns through a
finally of its own; a try/finally inside the latter ends normally, and its Rethrow
takes the outer mark (`nested`). The exception it raises leaves the finally of the
return, which runs a second time. Five open activations are needed for this.

### Dispatch caches

`DispatchCachesProofs` proves the four properties of the run `dispatch` for any
function table, refresh groups, call sites, argument types, cache limit and
number of worlds,
from `DispatchAssumption`: a call site is known by its place in the code, and the
rows a callee may resolve to, its fallback included, have one base name.

`TypeCorrect`, `LayersAgreeHolds` and `UnrelatedStayWarmHolds` hold whatever world
calls are made from. `LayersAgree` is not inductive: a way refilled from
`dispatch_cache` could disagree with a second entry of the same key. `AgreeInv`
says that there is never a second one, which is so because a store removes the
old entry first.

`DispatchFreshHolds` assumes `~OldWorldCalls`, without which it is false (see
"Known deviations"). Its invariant has two more parts: `FreshInv`, that every
entry which can be found is what the resolver answers in the newest world, and
`WorldInv`, that every row is either visible there or dormant. The definition of
a method is the step that matters (`ResolveStable`, `ActivateFresh`): an entry
that stays resolved to a row of another base name; the candidates of its site
share that name, so the new method is not among them; and by `WorldInv` the
candidates see no difference between the old world and the new one. A negative
entry has no name to compare, and this is why all of them have to go. A
rollback empties two caches and leaves the slots, none of which is of the new
generation because `SlotOK` bounds their age.

### Struct heap

`StructHeapProofs` proves the five properties of the run `heap` for any number of
structs, identities, held values and finalizers, from `StructHeapAssumption` (the
bounds are natural numbers; `Shapes` is what its name says).

Two facts about a collection carry it. What is marked is the least set that has
the roots and is closed under fields, so a field of a marked struct is marked too
and its reference is rewritten with the others (`Closed`, `Mark`); and a marked
index moves to its rank among the marked ones, so that two structs never get one
index and each keeps its own (`RankInjective`, `InOrderLists` of `RankProofs`). A
collection replaces every value in the roots by its image; that the image names
the same struct in the new heap is proved once, for `Compact`, and used by `Gc`
and `CompactAfterInput`.

| Theorem | Property | Leaves out | Invariant |
|---|---|---|---|
| `HeapTypes` | `TypeOK` | – | `BaseInv`: `TypeOK` and the bound of the heap |
| `FinalizersRunOnce` | `FinalizersOnce` | `throws` | `TurnInv`: an entry is registered, waits for its turn at one place, or has run |
| `NothingDangles` | `NoDangling` | `finally`, `captures`, `nested` | `RefInv` |
| `WeakRefsExact` | `WeakExact` | the same | `RefInv` |
| `FinalizersFollow` | `FinalizersExact` | the same | `RefInv` |

`NoDangling` is not inductive. It speaks of what the program can get at; a struct
nobody can get at stays in the heap until a collection, and its identity and its
fields are still what the next allocation and the next mark rely on. `RefInv`
therefore speaks of the whole heap (`SoundInv`), says that identities are unique
and older than the next one (`IdInv`), that a context keeps an exception value
only in the phase that has one, and that a suspended task is not inside an
unwinding finally (`PhaseInv`, which is where `finally` is left out), and that the
target of a registered finalizer is in the heap while that of a collected one is
not (`FinalizerInv`).

### REPL session

`ReplSessionProofs` proves the four properties of the run `repl` for every set of
inputs of any length, and for any variables, methods, modules and packages, from
`ReplSessionAssumption`.

| Theorem | Property | Assumes | Invariant |
|---|---|---|---|
| `SessionTypes` | `TypeOK` | no input defines a method twice | `DataInv`, `TableInv` |
| `SessionIsExact` | `SessionExact` | `Faithful`: none of the shapes | `ExactInv`, `Realized` |
| `LiveIsExact` | `LiveExact` | the same | `ExactInv`, `Realized` |
| `InitOnceHolds` | `InitOnce` | `NoModuleThrows`: neither `module_error` nor `late_module` | `Realized` |

- `SessionTypes` allows all the failing shapes. `TableInv` says that the bodies of
  a table are not newer than the last input, so those an input adds are not in it
  already. A body is its method and the number of its input, which cannot tell
  two bodies of one method in one input apart; this is why no input has two.
- `SessionExact` and `LiveExact` are only inductive together (`ExactInv`): the live
  path writes the VM back into the session, and the full path builds the VM from
  the session. Every path is shown to write `Run(Mirror, reached)`, what the
  statements that were reached make of the session (`Written`); the state of a
  module is read back only when the VM has the module, and a call reaches only
  modules that exist (`StartsCalls`, `ExtractExact`). For a rebuild this needs that
  no method or module was dropped for one that was not reached, and for its
  recovery that no import was stored that was not reached and that a VM which is
  parked has the table of the prefix (`AllowedParts`). That the modules run first
  makes no difference when none of them is left behind and no call into one comes
  before it (`ExecutedParts`, `BegunOrderly`), and that the others keep their state
  needs that none is initialised again (`Realized`). Each of the shapes left
  out is needed for one of these facts, `fresh_error` for the fresh delta. The order of a table matters only for `live_vm` against the
  prefix; the session is compared by the set of its bodies (`StoredSet`,
  `WithoutSet`, `BodiesSet`).
- `InitOnce` is not inductive, since what a rebuild replays depends on
  `initialized`; `Realized` adds that every module of the session is in it. The
  other shapes do not matter for it.

### Only model-checked

The four liveness properties (`RunnableRuns`, `SleeperWakes`, `WaitReturns`,
`CloseFrees`): fairness and ENABLED are out of the prover's reach. Each
violating run allows what the theorem on its property leaves out.

## Not modelled

- Parser, lowering, inference, compiler (other than try and return), bytecode
  format, hosts and the sequential part of Base: translations and data
  algorithms without interleaving, whose correctness is a statement about the
  whole language. They make up nearly all of the repository's lines.
- In the scheduler: operand values, frames and instruction pointers beyond what
  the properties tell apart; the internal state machines (broadcast,
  generators, ...) whose presence refuses a suspension are one native call.
- In the library: results and exceptions of tasks, task-local storage,
  `errormonitor`; `waitany`, `waitall`, `timedwait`, `yield(t)` and `yieldto`
  are loops and compositions of the modelled calls. The value of a Condition.
  The exception a channel is closed with. A task that marks itself as failed
  with `schedule`. Several channels: their queues are disjoint, and a task is
  parked in one at a time. `ReentrantLock` and `SpinLock`: flags without an
  owner, on which nobody parks.
- In exceptions: backtraces, the state of `@test_throws`, and break and continue,
  which are compiled like return with a nearer target.
- In dispatch: specificity beyond set inclusion of types, several arguments,
  the cache of binary operators and the specialization caches.
- In the heap: assignment to fields (it multiplies the states; the heap graphs
  it adds have the shapes construction already gives, cycles excepted), and
  containers other than a Ref cell, which are marked and remapped alike.
- In the session: nominal types, enums, macros, type aliases and `ans`, which are
  stored and recovered beside the methods by code of the same form, and modules
  that are not "simple" in the sense of `persistent_delta_eligible`. Errors inside
  the body of a module or its `__init__`: the model throws in main. Values that
  cannot be rebuilt from source, for which a module keeps its own initialiser
  (`session.rs:2962`), and the aliases, imports and macros that a recovered module
  loses (`session.rs:4081`).

## Plan

1. Done: scheduler, its promise, tasks and Conditions, channels; exceptions,
   dispatch caches, struct heap, REPL session; proofs of every safety property of
   the passing runs and of the refinement.
2. Nominal types in the session, and the reset with Julia objects that survive
   it (`vm_id`s, the cell of the current task).
3. Assignment to fields in the heap, with which heap graphs can have cycles;
   `Mark` and its lemmas do not depend on their absence.
