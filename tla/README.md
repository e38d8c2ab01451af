# Loom runtime and code generator: a TLA+ verification project

Loom is a language with a self-hosted frontend; the programs it compiles are
translated to native code (`compiler/src/codegen`) and linked with a native
runtime written in Rust (`compiler/runtime`). This project models the
concurrent and stateful core of that runtime (the executor of asynchronous
tasks, the reactor, the worker pools, sockets and TLS streams, the moving heap
and its collector, mutexes and cancellation) and the part of the code generator
the runtime depends on most: what it keeps in root slots, when it restores and
retires them, and how it lowers control flow and cleanups. These are the parts
where an order of steps nobody wrote a test for decides whether a compiled
program is correct.

## 1. Inventory

Paths are relative to `compiler/runtime/src` unless they say otherwise.

| component | state | operations | interacts with | hard behaviour |
|---|---|---|---|---|
| task executor: `tasks.rs`, `tasks_observation.rs`, `tasks_outcomes.rs`, `tasks_parallel.rs` | task tree, ready queue, wait links, observation groups, cleanup stacks, count of pending waits | create, adopt, return, await, result, release, observe, select, cancel, drain, external wait, fault, poll, drive | reactor (registrations and notifications), worker pools, fault boundaries, frame roots | user cleanup in the middle of a cancellation, stale notifications, completion against cancellation, reparented tasks |
| shared moving heap: `shared_heap.rs` | participants with their published roots, request flag, published slots | attach, leave, checkpoint, park for a native call, collect, publish, drop a slot | every native thread that runs managed code | stop-the-world rendezvous on one condition variable, flag read without the mutex |
| source mutexes, worker cancellation: `shared_access.rs`, `mutex.rs`, `worker_control.rs` | lock flag, guards of each thread, `requested`, published wait | lock, unlock, cancel, checkpoint | shared heap (parks while blocked), fault boundaries (unwinding releases guards) | cancellation between test and wait, a notification spent on a waiter that gives up |
| reactor: `wait.rs` | registration slots with generations and a free list, timers, readiness interests, ready queue | register, cancel, revoke, notify completion, wait, pop | executor, pools, the OS poller | slot reuse, interest updates that fail halfway, late OS events, sleeping on an old deadline |
| I/O pool: `blocking_io.rs`, `tasks_workers.rs`, `process_io.rs` | job queue, job states, file table, pipes of a captured process | submit, run, take, cancel and drain, close, capture | reactor, executor | cancellation of a queued, running or complete job; descriptors in flight; pipes that fill up |
| CPU pool: `parallel.rs` | job queue, job states, a control per job | submit, run, take, complete before cancel, drain, close | shared heap, worker control, reactor | completion wins over a late cancellation |
| sockets: `tasks_socket.rs` | socket table, leases | open, connect, wait, close, abort | reactor, executor | close and abort against waiting tasks, reuse of native handles |
| TLS streams: `compiler/tls`, `compiler/std/net/tls` | engine output, generation, waiters, reader and writer claims | read, write, flush, close, wait for a generation | sockets, reactor | two users of one engine, a flusher that ends between a test and a wait |
| frame roots: `frame_roots.rs` | dense table with generations | insert, get, remove | executor, collector | swap-remove against stale identities |
| allocator and collector: `lib.rs`, `pages.rs` | pages, objects, root frames, views | allocate, grow, pop, view, trace, relocate | shared heap, generated code | every allocation moves everything; views of changed lists; tables keyed by address |
| fault and cleanup boundaries: `cleanup.rs`, `fault_abi.rs` | stacks of cleanups and boundaries | push, pop, fault, cancel, catch, each | everything that unwinds | cleanup that faults while unwinding |
| code generation: `compiler/src/codegen` | root slots, liveness plan, cleanup sites of a function | analyse, reserve slots, emit, lower | collector, boundaries, checkpoints | a word that no root holds when a callee collects |
| task library: `compiler/std/task` | none of its own | join policies | executor | selection and drains of losers |
| frontend: `compiler/std/loom`, `compiler/loom` | - | parse, check, lower | - | sequential, out of reach of a model of useful size |
| deployment tools: `tools/deployment` | append-only ledger in SQLite, migration state | plan, start, append, recover | SQLite | none of its own: transactions of the database |

What makes each modelled component correct:

- executor: no runtime check that calls `fatal` is ever reached; the task tree
  is one tree; every suspended task can still be resumed; outcomes are final;
  cancellation retires children, waits and workers before cleanup and frames;
  every run ends.
- shared heap: relocation excludes managed code; nobody keeps an old address;
  every collection ends and every waiter gets through.
- mutexes: the flag follows the holder exactly; cancellation is never lost; a
  free lock has no forgotten sleeper (it can have one: section 5).
- reactor: it is a registry of one-shot waits, whatever is reused underneath;
  the poller watches exactly what is registered; nobody oversleeps.
- pools, sockets, TLS: each descriptor has one owner and is closed once; a
  cleanup never overtakes the operation it cleans up after; a native handle that
  is being watched is open; records leave in order; no wakeup is lost.
- collector: after any sequence of calls, every pointer, view, frame root and
  lock denotes what it denoted before; the byte account that triggers
  collections is exact.
- code generation with boundaries: compiled programs use no moved object, do
  what their source says and run each cleanup once.

## 2. Modules

| module | models | proofs |
|---|---|---|
| `SharedHeap` | `shared_heap.rs` | `SharedHeapProofs` |
| `SharedAccess` | `shared_access.rs` (Access), `mutex.rs`, `worker_control.rs` | `SharedAccessProofs` |
| `Tasks` | `tasks.rs`, `tasks_observation.rs`, `tasks_outcomes.rs`, `tasks_parallel.rs` | `TasksProofs`, `TasksQueueProofs` |
| `Registry` | what the reactor promises | |
| `Reactor` | `wait.rs`, `wait_abi.rs`; implements `Registry` | `ReactorProofs` |
| `Heap` | `lib.rs`, `pages.rs`, `frame_roots.rs`, lock tables of `shared_access.rs`, `std/list/view` | |
| `Waits` | external waits of `tasks.rs` as files, sockets and TLS use them | |
| `Jobs` | `blocking_io.rs`, `tasks_workers.rs`, `parallel.rs` | `JobsProofs` |
| `Sockets` | `tasks_socket.rs` | `SocketsProofs` |
| `Tls` | `compiler/tls`, `compiler/std/net/tls/tls.loom` | `TlsProofs` |
| `Capture` | `process_io.rs` | |
| `NativeIo` | composes `Jobs`, `Sockets`, `Tls`, `Capture` over `Waits` | the end of `TlsProofs` |
| `Checked` | the checked programs of `compiler/src/model.rs` | |
| `Liveness` | `llvm_gc_liveness.rs`, the allocation analysis of `llvm_gc.rs` | |
| `RootSlots` | slot assignment of `llvm_gc.rs` | |
| `Emitter` | `llvm.rs`, `llvm_cleanup.rs`, `llvm_gc_lower.rs`, `llvm_memory.rs`, `llvm_dyn.rs` | |
| `Meaning` | what a checked program means (the reference for `Execution`) | |
| `Execution` | emitted code over `cleanup.rs`, `fault_abi.rs`, `worker_control.rs` and a moving collector | |
| `MC...` | instances for TLC | |

Definitions whose comment says *mutant* are seeded bugs: each replaces the
definition after it to show that a property notices.

### SharedHeap

One step is one critical section of the control mutex. `pc` says where each
native thread is; `participants` is the registration table (absent, running,
parked with its roots); `requested` the atomic flag, read without the mutex by
`Checkpoint`; `asleep` the threads inside `Condvar::wait`; `control` the holder
of the mutex across a relocation, the only critical section that has an
interior worth seeing. Addresses are abstracted to *fresh* or not: a relocation
makes exactly its `Roots` fresh and everything else stale.

### SharedAccess

`held` is the flag of each lock, `guards` the thread-local guard lists, `want`
the lock an operation is about. `Control::cancel` is three steps (store the
flag, clone `waiting`, wake), the slow acquisition is `WaitOn`, turns of `Loop`
and `ClearWait`, a release is `Unlock` (store) and `Notify`. A thread that
unwinds masks cancellation, as `cleanup::cancel` does. `try_lock` may fail on a
free lock because somebody is inside the native mutex (`Contended`). What guards
protect, and the storage accesses of `shared_access.rs`, are left out.

### Tasks

`tasks` is the table `Core.tasks`, a function from live identities to records
with the fields of `Task`; identities are never reused. Terminal stamps only
compare, so `finished` keeps the live terminal tasks in stamp order. `ready`,
`current`, `pending` are the fields of `Core`. The owner thread is somewhere in
`drive()` (`phase`): polling, taking notifications, picking, blocked, running an
activation, or draining.

A compiled program is any sequence of runtime calls of the current task, each
under the checks of the call. A call whose check fails faults the task, and a
program may fault anywhere, so `Fault` is always possible in an activation and
stands for all failed checks. The discipline of generated code that the runtime
relies on without checking is stated where it is used: a task that registered a
wait returns Pending; the handle of an observed child is unusable until it is
selected; between `cancel_begin` and the release of its child there is no
suspension (`owed`); the entry task returns no resource; the wrapper of a worker
call owns nothing else.

Cancellation runs user cleanup and waits for workers, so `cancel_tree` and
`cancel_descendants` are stepwise (`drain.work` is the explicit stack of the
code); cleanups cannot use task operations, so only the reactor and the workers
interleave. Every cleanup may fault. The index and diagnostic read back after a
selection, messages, frames and creation labels are left out.

The reactor is seen as the executor sees it: `armed` registrations turn, once
each, into `notices`; cancelling withdraws an armed registration and leaves a
queued notification where it is. A registration is a pair of task and ordinal,
that is, an identity that is never reused; that slots with generations provide
this is for the reactor module to show. A provider may be found ready in the
very activation that registered a wait for it (`ProviderReady`), which is how a
queued notification outlives its wait while the task lives on. A job is active or complete, completes
on its own, and notifies afterwards.

### Registry and Reactor

`Registry` is the contract: an identity is issued once; it fires or is
cancelled, never both; a cancellation or completion is answered TRUE to exactly
the caller that ended it. `Tasks` and `Waits` rely on it. `Reactor` has the
slots, generations, free list, timers, the interest of each handle and the
poller. Each call of `wait.rs` holds the core lock from its first read to its
last write and is one action; the waiter's `Wait`, `Sleep`, `PollReturn`,
`Dispatch` and `Settle` are separate because it polls without the lock, and the
wakeup of a completion comes after the unlock. The mapping to `Registry` is the
identity on notifications and answers; issued and live registrations are read
off slots and generations. The poller is external: interests are disarmed by
the event they deliver, an event carries the key that was set when it was
taken, and its calls may fail: the update of an interest in a registration, a
cancellation or a revocation, a wakeup, and the poll itself.

### Heap

A runtime call that allocates is split where it may collect; the collection
itself is stepwise (begin, a frame at a time, the work list, then the weak tables
at once). Every object and every list element has an identity that travels with
its bytes and that no operation looks at; the properties compare identities with
what addresses lead to. Addresses are numbers and are reused as soon as their
page is unmapped, which is what makes tables keyed by address interesting.
`stress` (a collection at every opportunity) and the byte trigger are both
there. Tracers, word layout and messages are left out.

### Waits, Jobs, Sockets, Tls, Capture, NativeIo

One owner thread runs all tasks and takes notifications; a task is reduced to
the operation it is inside. In `Jobs` a worker's turn is fetch, start, finish,
notify, each a critical section of the queue or of the job; the owner submits,
takes results, cancels and drains, and closes the pool. Descriptors are ghosts
of native files, each made once, so a leak or a double close shows. In `Sockets`
a native handle is the lowest free number, as the kernel gives it out. In `Tls`
an action is one resume of a task up to its next await; each awaited callee is a
task of its own that starts later. `Capture` has the calling thread, its readers
and writer, the pipes and the child, for captures with and without input and for
`run_input`, which connects the input only. The child enters calls that block
(`ChildCalls`) in any order, as few as it likes; the kernel ends them
(`CallReturns`) when there is room, a byte, or an end of the pipe is gone;
between calls the child may close a stream, and it may exit or be killed at any
time, with a call open, output missing or input unread. A writer that meets a
pipe nobody reads succeeds (`BrokenPipe`), also while the child runs. Starting a
thread, a reader, the writer and the wait for the child may fail; then `drop`
kills and reaps the child before it joins. `NativeIo` composes them; its parts meet only in the waits and in the owner's
scheduling, so one behaviour exercises one part (`part`).

### Checked, Liveness, RootSlots, Emitter, Meaning, Execution

A program is data: `Checked` gives its trees, `Compile` (in `Emitter`) translates
them with the analyses of the code generator, and `Execution` runs the result.
A type is the list of its words, pointer or not; that is all root handling looks
at. The kinds of expressions stand for families the generator treats alike (the
header of `Checked` lists them). Instructions that only move data or control are
run together with the operation they lead to (`Settled`); operations that are
visible (allocations, uses, calls, registrations, faults, checkpoints) are
actions. A collection makes every word stale that no active root slot holds; a
use of such a word, and a collection that traces one, sets `stale`.

`Meaning` evaluates the same program without roots, slots, frames or boundary
records: the operations and the objects they see, in order, and how it ends.
Boolean results are chosen freely during a run (at most `MaxChoices`, then
FALSE) and handed to `Meaning` afterwards, so every path through the program is
compared. Cancellation of a worker is requested at any time and observed at
checkpoints; a cancelled run is compared with nothing but must still run its
cleanups.

## 3. Runs

| run | instance | shows |
|---|---|---|
| `shared_heap` | 3 threads, 2 slots | `StopTheWorld`, `NoStaleAddress`, `SleepersJustified`, the inductive `HeapInv`, `CollectionCompletes`, `WaitersReleased` |
| `shared_access` | 3 threads, 2 cancellable, 1 lock | `AccessInv`, `MutualExclusion`, `CancelDelivered`, `CancelInterrupts` |
| `shared_access_plain` | 3 threads, none cancellable, 1 lock | `FreeLockWakes`, `ReleaseUnblocks` |
| `lost_wakeup` | 3 threads, 1 cancellable, 1 lock | violates `ReleaseUnblocks`: section 5 |
| `tasks_tree` | 4 tasks with a cleanup each, no waits | `NoFatal`, `OneTree`, `WaitsServed`, `QueueOK`, `OutcomeFinal`, `ChildrenFirst` |
| `tasks_waits` | 2 tasks with a cleanup and 3 waits each, workers | `PendingOK` (with the types), `ChildrenFirst` |
| `tasks_live` | 3 tasks, 1 wait each, workers | `NoFatal`, `Finishes` |
| `reactor` | 1 handle, 2 registrations, 2 instants, 1 failing poller call | `Implements` (the refinement of `Registry`), `InterestOK`, `NoOversleep`, `DueFires` |
| `heap` | 6 kinds of programs of up to 8 operations | `Denotes`, `ViewsOK`, `RootsOK`, `LocksFollow`, `BytesOK` |
| `native_io` | 2 tasks, 2 workers, 3 waits, 2 sockets, 3 records | `DescriptorsOwned`, `DrainedBeforeDone`, `WatchedOpen`, `RecordsInOrder`, `NoLostWakeup`, `CaptureEnds` |
| `execution` | 1,383 programs, 3 free Boolean results | `NoStaleUse`, `Faithful`, `CleanupsOnce` |
| `interrupted_cleanup` | 1 program | violates `CleanupCompletes`: section 5 |

Bounds. Three threads are a collector, a thread that parks and a third that
attaches, leaves or also wants to collect; for the lock, a holder and two
waiters, the least that can lose a notification. One lock is enough for
acquisition because a thread waits for one lock at a time; two slots let one be
published while the other is read. Four tasks give a root, a child with a
grandchild, and a sibling to adopt, return or observe. Two waits of one task are
what a stale notification needs; three let it meet either of two later waits.
One cleanup per task is enough for the order between tasks; the order inside one
stack is the stack's, and is checked in `execution`.

Two registrations are an old and a new user of one slot, or both directions of
one handle; handles do not interact except through keys, which are never reused.
The heap's pages hold four words and a mapping two pages, so a program of a few
operations crosses pages, mappings and the threshold for separate storage; each
kind of program combines the operations that share state (lists with views,
frame roots, locks, rooted native calls). Two tasks and two workers have a job
fetched while the other is cancelled, a reader and a writer of one stream, and
a socket closed under a waiting task while the other opens the next one.

The programs of `execution` are every pair of 15 operand forms (locals, fresh
objects, literals, blocks that assign, branches, matches, calls that do and do
not collect, fields of large records, loops, list growth, dynamic calls) under
nine operators and five contexts (alone, in loops, under pending operands, with
break and continue, with a cleanup), for plain programs and for workers, and 11
programs of cleanups, each plain, with a task hook and in a worker. The grid
takes operators and contexts in turn: each pair of forms meets up to six
operators, not all nine.

Fairness. Native threads that can run do run (weak fairness of each thread's
steps), generated code reaches its checkpoints, a relocation ends. Nothing is
assumed about native calls returning, locks being released or who gets a lock.
For the executor: an activation ends, the owner thread runs, the reactor
delivers what is armed and jobs complete; a program that loops forever, or waits
for an event that never comes, of course never ends. For the reactor: the owner
keeps calling `wait`, the poller returns when its timeout ends or it was woken;
nothing is assumed of handles becoming ready. For a capture: the calling thread
and its helpers go on as long as they can, and the kernel ends a call of the
child that need not block. Of the child nothing is assumed, so a capture may
also last for ever, but only while the child runs without being in a call that
blocks and the caller waits for nothing else (`ChildOnItsOwn`).

Deadlock is checked in the runs of `SharedHeap`, `SharedAccess`, `Tasks` and
`Execution`, where an end is an action of its own (a program that ended stutters;
code that ran into `unreachable` has no step). `reactor`, `heap` and `native_io`
stop when their bounds are used up, so they do not check it; `NoOversleep`,
`DueFires`, `NoLostWakeup` and `CaptureEnds` say there what deadlock would.

## 4. Proofs

All proofs are for arbitrary values of the constants: sets of threads, slots,
locks, tasks, workers and handles, and every bound. Each component has one
inductive invariant, a conjunction of named parts; each action has a lemma that
it preserves them; the properties of the runs follow from the invariant.

| theorem | states | property of a run |
|---|---|---|
| `TypeCorrect`, `HeapInvariant`, `StopTheWorldHolds`, `NoStaleAddressHolds`, `NoLostWakeup` | the stop-the-world protocol | `HeapInv`, `StopTheWorld`, `NoStaleAddress`, `SleepersJustified` |
| `AccessInvariant`, `MutualExclusionHolds`, `CancelDeliveredHolds`, `PlainReleaseWakes` | source mutexes and cancellation | `AccessInv`, `MutualExclusion`, `CancelDelivered`, `FreeLockWakes` |
| `ReactorInvariant`, `ReactorInterest`, `ReactorNoOversleep`, `ReactorRefines` | the reactor | `InterestOK`, `NoOversleep`, `Implements` |
| `JobsInvariant`, `JobsDescriptors`, `JobsDrained` | both worker pools | `DescriptorsOwned`, `DrainedBeforeDone` |
| `SocketsInvariant`, `SocketsWatched` | sockets | `WatchedOpen` |
| `TlsInvariant`, `TlsRecords` | a TLS stream | `RecordsInOrder` |
| `TasksInvariant`, `TasksPending`, `TasksTree`, `TasksOutcomeFinal` | the task executor | `PendingOK`, `OneTree`, `OutcomeFinal` |
| `TasksQueueInvariant`, `TasksNoFatal`, `TasksWaitsServed`, `TasksQueue`, `TasksChildrenFirst` | its wait links, its ready queue and what a freed task leaves behind | `NoFatal`, `WaitsServed`, `QueueOK`, `ChildrenFirst` |
| `NativeNoLostWakeup` | jobs, sockets and TLS over the same waits | `NoLostWakeup` |

`SharedHeapProofs` proves `HeapInv` inductive. `StopTheWorld` alone is not: one
needs that the registration table agrees with where every thread is
(`Registered`), that the mutex is held exactly across a relocation and only with
everybody parked (`ControlHeld`), that a request has one owner
(`RequestOwned`), and for `NoStaleAddress` that what a relocation rewrites is
what parked threads resume with (`RootsFresh`). `SleepersJustified` then says
that no notification is lost.

`SharedAccessProofs` proves `AccessInv`: what a thread wants follows from where
it is (`WantOK`), the published wait covers the slow path (`WaitingOK`), and with
these `MutualExclusion` and `CancelDelivered` are inductive.
`PlainReleaseWakes` proves `FreeLockWakes` when no thread is cancellable; with
cancellable threads it is false (section 5).

`ReactorProofs` proves `ReactorInv`. The free list names unused slots, each once
(`FreeOK`); a timer is for the current registration of its slot under its
deadline (`TimersOK`); the two directions of a handle and the readiness sources
of the slots are the same thing seen from two sides (`HandlesOK`); polling keys
and handles name each other (`KeysOK`); the poller's interest is the core's,
unless an event that disarmed it is in the batch being dispatched (`NativeOK`).
Without `FreeOK` and the generations a registration could be fired by the event
of an earlier user of its slot, so the refinement needs all of them. It is a
step simulation: issued and live registrations are read off slots and
generations, and each action is a step of `Registry` (a registration, a
cancellation, a completion, a batch that fires, a consumed notification) or
leaves its variables alone. `OrderedTimers` shows that the deadlines that are due
can be listed in order, each once, which the action that fires timers takes for
granted.

`JobsProofs` proves `JobsInv`. Where a job is (queue, thread, result) agrees with
its state (`StatesOK`, `PlacesOK`); an outstanding job belongs to the one task
that waits for it or to the owner that drains it (`TasksOK`, `OwnerOK`); which
jobs own a file follows from kind and state (`FilesOK`), and each file has one
owner (`OpenOK`); a waiting task's job is pending or its notification is queued
(`WakesOK`); threads sleep only while others that are awake can take what is
queued (`SleepersOK`, a count, since one notification wakes one thread).

`SocketsProofs` proves `SocketsInv`. `WatchedOpen` is not inductive: a native
number is reused as soon as the last share of its socket is gone, so one needs
that open sockets have different numbers (`NumbersOK`), that a wait's lease is
for the socket its task wants (`LeasesOK`), and that a live registration belongs
to exactly one parked task (`LiveOK`). `FreshFacts` is the pigeonhole argument
that a number is free when a socket is made.

`TlsProofs` proves `TlsInv`. The flag belongs to the one task that sends
(`FlusherOK`); record by record, what has gone out, is in hand and is still in
the engine continue each other (`OrderOK`); a task that is about to wait for the
generation it saw has a flusher to wait for, and a parked one is among the
waiters that flusher will tell (`TurnsOK`). The last part is what makes the
window between reading the generation and registering the wait safe.
`NativeNoLostWakeup` puts the three invariants together.

`TasksProofs` proves `TasksInv`. `PendingOK` needs that an identity and a
registration are given out once, so that no notification in the queue can be for
a wait registered later (`Fresh`), and that a wait without a notification
suspends its task while an ended task has neither wait nor job (`ExtOK`): a
release frees a frame without looking at its wait. `OneTree` says of every set
of tasks without the root that somebody in it has its parent outside, which is
how a relation without cycles is written without a closure; a move between a
task and its child, in either direction (adoption, extraction), keeps it
(`MovedTree`). `ChildrenFirst` needs the stack of `cancel_tree` (`StackOK`): its
entries are live, each once and below the tasks whose call it is; the lowest is a
child of the task being drained, every other one has its parent, visited, below
it; and a visited entry has all its children above it, so the visited task at the
top has none left. For the end of the run it needs that the root ends without
children and cleanups (`RootOK`). `Expand` pushes the children in increasing
order; `Listed` proves that such a listing exists and names each child once.

`TasksQueueProofs` proves `QueueInv`, on top of `TasksInv`. Of the four states
that are fatal, an entry of the ready queue whose task is not queued is excluded
by `Listing` (an entry of a live task is for a queued one, and no task is there
twice); an invalid waiter by `Waiters` (whoever an unended task will wake
observes it or awaits it); a root that ends before the rest by `RootOK` and the
tree; and an executor with nothing to run and nothing to wait for by a counting
argument (`QPickNone`): at rest each task that has not ended and is neither
queued nor in an external wait waits for a child that has not ended either
(`Services`: what it awaits is its child, has not ended and will wake it;
`Groups`: its observation group is made of its own children, noted exactly when
they have ended), and since the root is nobody's child, there would be more
tasks than tasks. `Counts` relates the tasks in a result to the number the
executor keeps: a task that completes with that many children has no other
child left.

Two parts hold only with exceptions. A drain removes the children of tasks that
will not run again, and so breaks what these wait for: they are `Doomed` until
they are gone or have ended. And a child that the current task has cancelled
may still have its entry in the queue although it has ended (`OwedOK`); the
current task neither suspends nor completes before that child is released, so
the entry is stale before it is met. That generated code never suspends between
`cancel_begin` and the release is an assumption of `Tasks` (the guard of
`Suspend`); that it does not complete there is proved (`QComplete`). `RunsOK`
says that only the current task runs, also while cleanups of a drained child
are called, and `Stamps` that an ended task has its stamp. The last part of
`ChildrenFirst` (no group has a freed task as a member, and a task that still
awaits one is in a subtree the drain retires) is `QGone`: outside `Doomed` what
a task awaits is its child, and children are live; the step that ends the run
frees the last task (`EndFrees`).

Assumptions. `HeapAssumption`, `AccessAssumption`: null values are not members of
the sets they stand beside. `ReactorAssumption`: bounds are natural numbers and
the null handle is no handle. `TasksAssumption`: bounds are natural numbers and
there is room for the root. `WaitsAssumption`, `JobsAssumption`,
`SocketsAssumption`: bounds are natural numbers, tasks and workers are finite.
`TlsAssumption`: reader and writer are two tasks. TLC evaluates all of them.

Only model-checked: liveness (`CollectionCompletes`, `WaitersReleased`,
`CancelInterrupts`, `ReleaseUnblocks`, `Finishes`, `DueFires`, `CaptureEnds`),
which needs fairness and ENABLED. The invariants of `Heap` (`Denotes`, `ViewsOK`,
`RootsOK`, `LocksFollow`, `BytesOK`): a collection there visits a list of roots
and a graph of objects, and the byte account is a sum over objects, all folds,
so that what a collection returns would need an induction over its data; that
addresses of separate storage differ from those of pages depends besides on how
far a bounded run gets. `NoStaleUse`, `Faithful` and `CleanupsOnce` of
`Execution`, which with `Meaning` and `Emitter` is built on recursive operators
over program trees: what a recursive definition computes for every program is
out of the prover's reach.

## 5. Disagreements found

`lost_wakeup`: `Access::release` wakes one waiter. If that waiter has been
cancelled it gives up without taking the lock and without passing the wakeup on;
`Control::cancel` would wake everybody on the lock, but only if the waiter is
still published when it looks, and the waiter may have withdrawn by then. A
second waiter then sleeps in front of a free lock until the next release of it,
if there is one. The module comments and the README promise that a guard is
released at block exit and that cancellation does not take the lock; they say
"no fairness", which does not cover a lock nobody holds.

`interrupted_cleanup`: at the normal end of a block the generated code pops the
cleanup record and calls the callback (`run_cleanup`, `llvm_cleanup.rs`). Only
the drains of `cleanup::fault` and `cleanup::cancel` mask cancellation. In a
worker, a cleanup body that calls a function or loops therefore reaches an
unmasked checkpoint; a request that is pending there unwinds out of the cleanup,
whose record is already gone, and its remaining statements never run.
`cleanup.rs` says "Cancellation cannot interrupt mandatory cleanup", and the
changelog that "mandatory cleanup completes before drain returns".

`CleanupsOnce` (each cleanup *starts* exactly once) holds all the same, also in
cancelled workers.

## 6. Not modelled

- `native_input.rs` (decoding of the checked program), numeric operators,
  layouts, `llvm_target.rs` and LLVM itself: pure translations whose
  correctness is about each case, not about an order of steps. The root slots
  are modelled as emitted; that LLVM passes before the lowering of roots keep
  them meaningful is assumed.
- `llvm_storage.rs`: which lists may skip the opening of an access. In the model
  every access is opened.
- contended storage accesses (`begin`, `many`, `end` of `shared_access.rs`).
- file and path calls, socket options, addresses, certificates, handshakes.
- the frontend (some 150,000 lines of Loom), the command line, the editor and its
  client, compiler caches, semantic change tools: sequential programs, or I/O.
- the deployment tools: programs written in Loom beside the system, whose ledger
  is in the same database as the data and is appended to by its statements and
  transactions.
- descendants of a captured child that inherit its pipes (the code leaves them
  out as well), and the failure of a reactor call that the executor answers by
  ending the process.
- the search for the targets of an `IndirectCall` in an executable
  (`llvm_gc.rs`): a dynamic call allocates in the model, as it does in a library.
- join policies of `compiler/std/task`: programs of the executor; `Tasks` lets a
  program make any calls, theirs included.

## 7. Plan

1. Storage accesses in `SharedAccess`; locks that park in the shared heap.
2. A form of `Heap` whose collection takes one object per step, about which
   `LocksFollow` and `RootsOK` could be proved.
