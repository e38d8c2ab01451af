------------------------------- MODULE Tasks -------------------------------
(***************************************************************************)
(* The single-threaded task executor of the Loom runtime: the task tree    *)
(* and its ready queue (tasks.rs), the observation groups of the join      *)
(* policies (tasks_observation.rs), explicit cancellation and drains       *)
(* (tasks_outcomes.rs) and the completion wrapper of a CPU worker          *)
(* (tasks_parallel.rs).                                                    *)
(*                                                                         *)
(* A compiled program is any sequence of runtime calls of the task that is *)
(* being resumed, each under the condition the call checks; a call whose   *)
(* check fails faults the task, and since a program may also fault at any  *)
(* point of its own, Fault stands for both.  The reactor and the workers   *)
(* are seen as tasks.rs sees them: a registration, once, turns into a      *)
(* notification in the reactor's queue.                                    *)
(*                                                                         *)
(* Cancelling a subtree runs user cleanup and waits for workers, so it is  *)
(* not atomic: the traversal is a phase of its own, one step per call.     *)
(***************************************************************************)
EXTENDS Naturals, Sequences, FiniteSets, SequencesExt

CONSTANTS MaxTasks,     \* tasks a run creates, the root included
          MaxWaits,     \* external waits of one task
          MaxCleanups,  \* cleanups a task has registered at one time
          Workers       \* TRUE iff tasks may submit CPU work

ASSUME TasksAssumption == /\ MaxTasks \in Nat \ {0}
                          /\ MaxWaits \in Nat
                          /\ MaxCleanups \in Nat
                          /\ Workers \in BOOLEAN

Id   == 1..MaxTasks
Root == 1
None == 0               \* Option::None for a task identity

VARIABLES
    tasks,     \* Core.tasks: the live tasks, a function on their identities
    next,      \* Core.next: the last identity given out, never reused
    finished,  \* the live terminal tasks in the order of their stamps
    ready,     \* Core.ready
    current,   \* Core.current
    pending,   \* Core.pending: registered waits without a notification
    armed,     \* registrations the reactor holds
    notices,   \* the reactor's queue of notifications
    phase,     \* where the owner thread is in drive()
    drain,     \* the cancellation the owner thread is executing
    owed       \* child whose outcome the caller of cancel_begin must release

sched == <<ready, current, phase>>
waits == <<pending, armed, notices>>
vars  == <<tasks, next, finished, sched, waits, drain, owed>>

Terminal == {"Completed", "Faulted", "Cancelled"}
Phases   == {"start", "poll", "take", "pick", "block", "run", "drain", "done", "fatal"}

TaskRecord ==
    [parent    : Id \cup {None},
     children  : SUBSET Id,
     returned  : Nat,
     handed    : BOOLEAN,             \* returned_to_parent
     extracted : BOOLEAN,             \* result_extracted
     cleanups  : Seq({"lexical", "result"}),
     waiter    : Id \cup {None},
     members   : SUBSET Id,           \* observation.members
     noted     : SUBSET Id,           \* observation.ready
     state     : {"Queued", "Running", "Waiting", "Observing", "ExternalWaiting"}
                     \cup Terminal,
     on        : Id \cup {None},      \* the child of State::Waiting
     ext       : {"none", "pending", "ready"},
     reg       : 0..MaxWaits,         \* identity of the task's last registration
     job       : {"none", "active", "complete"}]

NewTask(p) ==
    [parent |-> p, children |-> {}, returned |-> 0, handed |-> FALSE, extracted |-> FALSE,
     cleanups |-> <<>>, waiter |-> None, members |-> {}, noted |-> {}, state |-> "Queued",
     on |-> None, ext |-> "none", reg |-> 0, job |-> "none"]

Live == DOMAIN tasks

NoDrain == [work |-> <<>>, then |-> "none", of |-> None, first |-> FALSE, suppress |-> FALSE]

Init == /\ tasks = [i \in {Root} |-> NewTask(None)]
        /\ next = Root
        /\ finished = <<>>
        /\ ready = <<Root>>
        /\ current = None
        /\ pending = 0
        /\ armed = {}
        /\ notices = <<>>
        /\ phase = "start"
        /\ drain = NoDrain
        /\ owed = None

-----------------------------------------------------------------------------
(* Edits of the task table.                                                *)

\* The task table without id, whose parent keeps no trace of it (the child
\* set and, through observation::remove, the observation group).
Removed(ts, id) ==
    [i \in DOMAIN ts \ {id} |->
        IF i = ts[id].parent
        THEN [ts[i] EXCEPT !.children = @ \ {id}, !.members = @ \ {id}, !.noted = @ \ {id}]
        ELSE ts[i]]

\* A set of numbers in increasing order.
Increasing(S) == CHOOSE s \in [1..Cardinality(S) -> S] : \A i, j \in DOMAIN s : i < j => s[i] < s[j]

\* What retain(|i| *i != id) leaves of a queue.
Unlist(seq, id) ==
    LET kept == Increasing({k \in 1..Len(seq) : seq[k] # id})
    IN  [k \in DOMAIN kept |-> seq[kept[k]]]

\* Mutant: the previous parent keeps the child.
ReparentKeeping(ts, moved, from, to) ==
    [i \in DOMAIN ts |->
        IF i = to THEN [ts[i] EXCEPT !.children = @ \cup moved]
        ELSE IF i \in moved THEN [ts[i] EXCEPT !.parent = to, !.handed = FALSE]
        ELSE ts[i]]

Reparent(ts, moved, from, to) ==
    [i \in DOMAIN ts |->
        IF i = from THEN [ts[i] EXCEPT !.children = @ \ moved]
        ELSE IF i = to THEN [ts[i] EXCEPT !.children = @ \cup moved]
        ELSE IF i \in moved THEN [ts[i] EXCEPT !.parent = to, !.handed = FALSE]
        ELSE ts[i]]

\* Mutant: a wait that already got its notification is counted down again.
CancelWaitTwice(id) ==
    IF tasks[id].ext # "none"
    THEN /\ armed' = armed \ {<<id, tasks[id].reg>>}
         /\ pending' = pending - 1
    ELSE UNCHANGED <<armed, pending>>

\* cancel_wait: forget the wait; a registration that has no notification yet
\* is withdrawn from the reactor, a notification already queued stays there.
\* A reactor that cannot withdraw it ends the process: no step comes after it.
CancelWait(id) ==
    IF tasks[id].ext = "pending"
    THEN /\ armed' = armed \ {<<id, tasks[id].reg>>}
         /\ pending' = pending - 1
    ELSE UNCHANGED <<armed, pending>>

\* observation::completed finds the child in the parent's group.
ObservedNever(w, id) == FALSE       \* mutant
Observed(w, id) == w \in Live /\ id \in tasks[w].members

\* The parent's await is for this child.
Awaited(w, id) == w \in Live /\ tasks[w].state = "Waiting" /\ tasks[w].on = id

\* An observer that runs, is queued or awaits another child is not queued.
SleepsAlways(w) == TRUE             \* mutants
SleepsNever(w)  == FALSE
Sleeps(w) == tasks[w].state = "Observing"

\* A task that leaves its activation for good, and the wakeup of the parent
\* that awaits or observes it: a fault goes to the front of the queue.
Finish(id, outcome) ==
    LET w    == tasks[id].waiter
        ts   == [tasks EXCEPT ![id].state = outcome]
        push == IF outcome = "Faulted" THEN <<w>> \o ready ELSE Append(ready, w)
    IN  /\ finished' = Append(finished, id)
        /\ current' = None
        /\ \/ /\ w = None
              /\ tasks' = ts
              /\ phase' = "poll"
              /\ UNCHANGED ready
           \/ /\ Observed(w, id)
              /\ phase' = "poll"
              /\ IF Sleeps(w)
                 THEN /\ tasks' = [ts EXCEPT ![w].noted = @ \cup {id}, ![w].state = "Queued"]
                      /\ ready' = push
                 ELSE /\ tasks' = [ts EXCEPT ![w].noted = @ \cup {id}]
                      /\ UNCHANGED ready
           \/ /\ ~Observed(w, id) /\ Awaited(w, id)
              /\ phase' = "poll"
              /\ tasks' = [ts EXCEPT ![w].state = "Queued", ![w].on = None]
              /\ ready' = push
           \/ /\ w # None /\ ~Observed(w, id) /\ ~Awaited(w, id)   \* "invalid task waiter state"
              /\ phase' = "fatal"
              /\ tasks' = ts
              /\ UNCHANGED ready

-----------------------------------------------------------------------------
(* Runtime calls of the resumed task.  Apart from ResumeWait, generated    *)
(* code makes them while Running and with no external wait in its frame.   *)

Active(p) == phase = "run" /\ current = p /\ tasks[p].state = "Running" /\ tasks[p].ext = "none"

Child(p, c) == c \in Live /\ tasks[c].parent = p

Create(p) ==
    /\ Active(p)
    /\ next < MaxTasks
    /\ next' = next + 1
    /\ tasks' = [i \in Live \cup {next'} |->
                    IF i = next' THEN NewTask(p)
                    ELSE IF i = p THEN [tasks[p] EXCEPT !.children = @ \cup {next'}]
                    ELSE tasks[i]]
    /\ ready' = Append(ready, next')
    /\ UNCHANGED <<finished, current, phase, waits, drain, owed>>

\* Hand child c to the callee, which was created but has not run yet.
Adopt(p, callee, c) ==
    /\ Active(p)
    /\ Child(p, callee) /\ Child(p, c) /\ callee # c
    /\ tasks[callee].state = "Queued" /\ tasks[callee].waiter = None
    /\ tasks[c].waiter = None /\ ~tasks[c].handed
    /\ tasks' = Reparent(tasks, {c}, p, callee)
    /\ UNCHANGED <<next, finished, sched, waits, drain, owed>>

\* Mark child c as part of p's result; it stays p's child until extraction.
Return(p, c) ==
    /\ Active(p)
    /\ p # Root
    /\ Child(p, c) /\ ~tasks[c].handed /\ tasks[c].waiter = None
    /\ tasks' = [tasks EXCEPT ![c].handed = TRUE, ![p].returned = @ + 1]
    /\ UNCHANGED <<next, finished, sched, waits, drain, owed>>

Await(p, c) ==
    /\ Active(p)
    /\ Child(p, c) /\ c \notin tasks[p].members
    /\ ~tasks[c].handed /\ tasks[c].waiter \in {None, p}
    /\ tasks' = IF tasks[c].state \in Terminal
                THEN [tasks EXCEPT ![c].waiter = p]
                ELSE [tasks EXCEPT ![c].waiter = p, ![p].state = "Waiting", ![p].on = c]
    /\ UNCHANGED <<next, finished, sched, waits, drain, owed>>

\* Extract an awaited result: the tasks in it become p's own children and
\* its resources are no longer the child's to clean up.  The compiler keeps
\* the handle of an observed child unusable until it is selected.
Result(p, c) ==
    /\ Active(p)
    /\ Child(p, c) /\ c \notin tasks[p].members
    /\ tasks[c].waiter = p /\ tasks[c].state = "Completed" /\ ~tasks[c].extracted
    /\ LET moved == tasks[c].children
       IN  /\ Cardinality(moved) = tasks[c].returned
           /\ \A r \in moved : tasks[r].waiter = None /\ tasks[r].handed
           /\ tasks' = [Reparent(tasks, moved, c, p) EXCEPT ![c].extracted = TRUE,
                                                            ![c].cleanups = <<>>]
    /\ UNCHANGED <<next, finished, sched, waits, drain, owed>>

Release(p, c) ==
    /\ Active(p)
    /\ Child(p, c) /\ c \notin tasks[p].members
    /\ tasks[c].waiter = p /\ tasks[c].state \in Terminal
    /\ tasks[c].children = {} /\ tasks[c].cleanups = <<>>
    /\ tasks' = [i \in Live \ {c} |->
                    IF i = p THEN [tasks[p] EXCEPT !.children = @ \ {c}] ELSE tasks[i]]
    /\ finished' = Unlist(finished, c)
    /\ owed' = IF owed = c THEN None ELSE owed
    /\ UNCHANGED <<next, sched, waits, drain>>

\* Mutant: a child that has already ended is not noted.
ObserveLate(p, c) ==
    /\ Active(p)
    /\ Child(p, c) /\ ~tasks[c].handed /\ tasks[c].waiter = None
    /\ tasks' = [tasks EXCEPT ![c].waiter = p, ![p].members = @ \cup {c}]
    /\ UNCHANGED <<next, finished, sched, waits, drain, owed>>

Observe(p, c) ==
    /\ Active(p)
    /\ Child(p, c) /\ ~tasks[c].handed /\ tasks[c].waiter = None
    /\ tasks' = [tasks EXCEPT
                    ![c].waiter = p,
                    ![p].members = @ \cup {c},
                    ![p].noted = IF tasks[c].state \in Terminal THEN @ \cup {c} ELSE @]
    /\ UNCHANGED <<next, finished, sched, waits, drain, owed>>

\* wait_next with nothing to select: the task must return Pending.
WaitNext(p) ==
    /\ Active(p)
    /\ tasks[p].members # {} /\ tasks[p].noted = {}
    /\ tasks' = [tasks EXCEPT ![p].state = "Observing"]
    /\ UNCHANGED <<next, finished, sched, waits, drain, owed>>

\* The noted child that became terminal first.
Earliest(set) == CHOOSE c \in set : \A d \in set : \E i, j \in 1..Len(finished) :
                     finished[i] = c /\ finished[j] = d /\ i <= j

\* wait_next that found a notification, with next_result or
\* next_terminal_result: detach it from the group; the child stays.
Select(p) ==
    /\ Active(p)
    /\ tasks[p].noted # {}
    /\ LET c == Earliest(tasks[p].noted)
       IN  tasks' = [tasks EXCEPT ![p].members = @ \ {c}, ![p].noted = @ \ {c},
                                  ![c].waiter = None]
    /\ UNCHANGED <<next, finished, sched, waits, drain, owed>>

\* cleanup_push and result_cleanup_push; the async entry returns Unit, which
\* owns no resource.
CleanupPush(p, kind) ==
    /\ Active(p)
    /\ kind = "result" => p # Root
    /\ Len(tasks[p].cleanups) < MaxCleanups
    /\ tasks' = [tasks EXCEPT ![p].cleanups = Append(@, kind)]
    /\ UNCHANGED <<next, finished, sched, waits, drain, owed>>

\* Normal lexical exit: the newest lexical cleanup leaves the stack, from
\* under the result cleanups registered after it.
CleanupPop(p) ==
    /\ Active(p)
    /\ \E k \in 1..Len(tasks[p].cleanups) :
          /\ tasks[p].cleanups[k] = "lexical"
          /\ \A m \in k+1..Len(tasks[p].cleanups) : tasks[p].cleanups[m] = "result"
          /\ tasks' = [tasks EXCEPT ![p].cleanups = RemoveAt(@, k)]
    /\ UNCHANGED <<next, finished, sched, waits, drain, owed>>

\* wait_source with a new source: the task must return Pending.
Register(p, job) ==
    /\ Active(p)
    /\ tasks[p].reg < MaxWaits
    /\ LET n == tasks[p].reg + 1
       IN  /\ tasks' = [tasks EXCEPT ![p].ext = "pending", ![p].reg = n, ![p].job = job,
                                     ![p].state = "ExternalWaiting"]
           /\ armed' = armed \cup {<<p, n>>}
    /\ pending' = pending + 1
    /\ UNCHANGED <<next, finished, sched, notices, drain, owed>>

\* wait_worker: a completion wait and a job.  The private wrapper of a worker
\* call owns nothing but the job.
WaitWorker(p) ==
    /\ Workers /\ p # Root
    /\ tasks[p].children = {} /\ tasks[p].cleanups = <<>>
    /\ Register(p, "active")

\* The resumed task repeats its wait and consumes the notification.
ResumeWait(p) ==
    /\ phase = "run" /\ current = p
    /\ tasks[p].state = "Running" /\ tasks[p].ext = "ready" /\ tasks[p].job = "none"
    /\ tasks' = [tasks EXCEPT ![p].ext = "none"]
    /\ UNCHANGED <<next, finished, sched, waits, drain, owed>>

\* provider_completion finds its provider ready, in the activation that
\* registered the wait or in the one that resumes from it.
ProviderReady(p) ==
    /\ phase = "run" /\ current = p
    /\ tasks[p].state \in {"Running", "ExternalWaiting"}
    /\ tasks[p].ext # "none" /\ tasks[p].job = "none"
    /\ CancelWait(p)
    /\ tasks' = [tasks EXCEPT ![p].ext = "none", ![p].state = "Running"]
    /\ UNCHANGED <<next, finished, sched, notices, drain, owed>>

\* The resumed wrapper finds its job complete and takes the result; the
\* failure of a callback is raised here (Fault).
WorkerResult(p) ==
    /\ phase = "run" /\ current = p
    /\ tasks[p].state = "Running" /\ tasks[p].job = "complete"
    /\ tasks' = [tasks EXCEPT ![p].ext = "none", ![p].job = "none"]
    /\ UNCHANGED <<next, finished, sched, waits, drain, owed>>

\* Return status 0, as validate_return allows it.
Complete(p) ==
    /\ Active(p)
    /\ Cardinality(tasks[p].children) = tasks[p].returned
    /\ \A k \in 1..Len(tasks[p].cleanups) : tasks[p].cleanups[k] = "result"
    /\ Finish(p, "Completed")
    /\ UNCHANGED <<next, waits, drain, owed>>

\* Return status 1, as validate_return allows it.  Generated code never
\* suspends between cancel_begin and the release of its child.
Suspend(p) ==
    /\ phase = "run" /\ current = p
    /\ \/ tasks[p].state \in {"Waiting", "Observing"} /\ tasks[p].ext = "none"
       \/ tasks[p].state = "ExternalWaiting" /\ tasks[p].ext = "pending"
    /\ tasks[p].returned = 0
    /\ owed = None
    /\ phase' = "poll"
    /\ current' = None
    /\ UNCHANGED <<tasks, next, finished, ready, waits, drain, owed>>

-----------------------------------------------------------------------------
(* Faults, cancellation and drains.  drain.work is the stack of            *)
(* cancel_tree; drain.then says who called it; drain.first whether a       *)
(* failure has been recorded.                                              *)

Begin(then, of, work, suppress) ==
    /\ phase' = "drain"
    /\ drain' = [work |-> work, then |-> then, of |-> of, first |-> FALSE,
                 suppress |-> suppress]

\* The resume raises: the hook retires all children and the wait first.
Fault(p) ==
    /\ phase = "run" /\ current = p
    /\ Begin("fault", p, <<>>, TRUE)
    /\ UNCHANGED <<tasks, next, finished, ready, current, waits, owed>>

DrainChild(p, c, suppress) ==
    /\ Active(p)
    /\ Child(p, c) /\ ~tasks[c].handed
    /\ Begin("drain", p, <<<<c, FALSE>>>>, suppress)
    /\ UNCHANGED <<tasks, next, finished, ready, current, waits, owed>>

Unobserved(c) == [i \in Live |->
    IF i = tasks[c].parent
    THEN [tasks[i] EXCEPT !.members = @ \ {c}, !.noted = @ \ {c}]
    ELSE tasks[i]]

Cancellable(p, c) ==
    /\ Active(p)
    /\ owed = None
    /\ Child(p, c) /\ ~tasks[c].handed /\ tasks[c].waiter \in {None, p}

\* An outcome that exists wins over the cancellation.
CancelTerminal(p, c) ==
    /\ Cancellable(p, c)
    /\ tasks[c].state \in Terminal
    /\ tasks' = [Unobserved(c) EXCEPT ![c].waiter = p]
    /\ owed' = c
    /\ UNCHANGED <<next, finished, sched, waits, drain>>

\* The worker's callback completed before it observed the cancellation: its
\* wrapper is resumed inline, without a waiter, and finishes.
CancelLate(p, c, outcome) ==
    /\ Cancellable(p, c)
    /\ tasks[c].state \notin Terminal
    /\ tasks[c].job # "none"
    /\ ready' = Unlist(ready, c)
    /\ tasks' = [Unobserved(c) EXCEPT ![c].waiter = p, ![c].ext = "none",
                                      ![c].job = "none", ![c].state = outcome]
    /\ CancelWait(c)
    /\ finished' = Append(finished, c)
    /\ owed' = c
    /\ UNCHANGED <<next, current, phase, notices, drain>>

\* Mutant: the outcome of a terminal child is not respected.
CancelBeginAlways(p, c) ==
    /\ Cancellable(p, c)
    /\ tasks' = [Unobserved(c) EXCEPT ![c].waiter = p]
    /\ Begin("cancel", c, <<>>, FALSE)
    /\ owed' = c
    /\ UNCHANGED <<next, finished, ready, current, waits>>

CancelBegin(p, c) ==
    /\ Cancellable(p, c)
    /\ tasks[c].state \notin Terminal
    /\ tasks[c].job # "complete"
    /\ tasks' = [Unobserved(c) EXCEPT ![c].waiter = p, ![c].job = "none"]
    /\ Begin("cancel", c, <<>>, FALSE)
    /\ owed' = c
    /\ UNCHANGED <<next, finished, ready, current, waits>>

-----------------------------------------------------------------------------
(* Steps of a drain.                                                       *)

Draining == phase = "drain"
Top      == Last(drain.work)

\* cancel_descendants takes the child with the smallest identity.
NextChild ==
    /\ Draining
    /\ drain.then \in {"fault", "cancel"} /\ drain.work = <<>>
    /\ tasks[drain.of].children # {}
    /\ LET c == CHOOSE c \in tasks[drain.of].children :
                    \A d \in tasks[drain.of].children : c <= d
       IN  drain' = [drain EXCEPT !.work = <<<<c, FALSE>>>>]
    /\ UNCHANGED <<tasks, next, finished, sched, waits, owed>>

\* Mutant: the first visit does not push the children.
ExpandLeaf ==
    /\ Draining
    /\ drain.work # <<>> /\ ~Top[2]
    /\ drain' = [drain EXCEPT !.work = Front(@) \o <<<<Top[1], TRUE>>>>]
    /\ UNCHANGED <<tasks, next, finished, sched, waits, owed>>

\* A node is visited twice: its children go on the stack above it.
Expand ==
    /\ Draining
    /\ drain.work # <<>> /\ ~Top[2]
    /\ LET kids == Increasing(tasks[Top[1]].children)
       IN  drain' = [drain EXCEPT !.work = Front(@) \o <<<<Top[1], TRUE>>>>
                                  \o [k \in DOMAIN kids |-> <<kids[k], FALSE>>]]
    /\ UNCHANGED <<tasks, next, finished, sched, waits, owed>>

\* The task whose wait, job and cleanups are being retired, if any.
Retiring ==
    IF ~Draining THEN None
    ELSE IF drain.work # <<>> THEN (IF Top[2] THEN Top[1] ELSE None)
    ELSE IF drain.then \in {"fault", "cancel"} /\ tasks[drain.of].children = {}
         THEN drain.of ELSE None

\* cancel_wait and cancel_operation; a callback that faulted before it
\* observed the cancellation leaves its failure.
RetireWait(failure) ==
    /\ Retiring # None
    /\ tasks[Retiring].ext # "none" \/ tasks[Retiring].job # "none"
    /\ failure => tasks[Retiring].job # "none"
    /\ CancelWait(Retiring)
    /\ tasks' = [tasks EXCEPT ![Retiring].ext = "none", ![Retiring].job = "none"]
    /\ drain' = [drain EXCEPT !.first = @ \/ failure]
    /\ UNCHANGED <<next, finished, sched, notices, owed>>

Quiet(id) == tasks[id].ext = "none" /\ tasks[id].job = "none"

\* drain_cleanups pops before it calls; a failing cleanup does not stop it.
RunCleanup(failure) ==
    /\ Retiring # None
    /\ Quiet(Retiring)
    /\ tasks[Retiring].cleanups # <<>>
    /\ tasks' = [tasks EXCEPT ![Retiring].cleanups = Front(@)]
    /\ drain' = [drain EXCEPT !.first = @ \/ failure]
    /\ UNCHANGED <<next, finished, sched, waits, owed>>

Retired == Retiring # None /\ Quiet(Retiring) /\ tasks[Retiring].cleanups = <<>>

\* The end of cancel_tree for one node.
RemoveTask ==
    /\ Retired
    /\ drain.work # <<>>
    /\ tasks' = Removed(tasks, Retiring)
    /\ finished' = Unlist(finished, Retiring)
    /\ drain' = [drain EXCEPT !.work = Front(@)]
    /\ owed' = IF owed = Retiring THEN None ELSE owed
    /\ UNCHANGED <<next, sched, waits>>

\* finish_resume of a faulted activation.
FinishFault ==
    /\ Retired
    /\ drain.work = <<>> /\ drain.then = "fault"
    /\ Finish(drain.of, "Faulted")
    /\ drain' = NoDrain
    /\ UNCHANGED <<next, waits, owed>>

\* The end of cancel_begin: the child is terminal, its frame still there.
FinishCancel ==
    /\ Retired
    /\ drain.work = <<>> /\ drain.then = "cancel"
    /\ tasks' = [tasks EXCEPT ![drain.of].state =
                    IF drain.first THEN "Faulted" ELSE "Cancelled"]
    /\ finished' = Append(finished, drain.of)
    /\ phase' = "run"
    /\ drain' = NoDrain
    /\ UNCHANGED <<next, ready, current, waits, owed>>

\* The end of loom_rt_task_drain: a new failure is the caller's own.
FinishDrain ==
    /\ Draining
    /\ drain.work = <<>> /\ drain.then = "drain"
    /\ IF drain.first /\ ~drain.suppress
       THEN Begin("fault", drain.of, <<>>, TRUE)
       ELSE phase' = "run" /\ drain' = NoDrain
    /\ UNCHANGED <<tasks, next, finished, ready, current, waits, owed>>

\* The end of wait_failure, or of a constructor that faulted.
Abandoned ==
    /\ Draining
    /\ drain.work = <<>> /\ drain.then = "abandon"
    /\ phase' = "done"
    /\ ready' = <<>>
    /\ drain' = NoDrain
    /\ UNCHANGED <<tasks, next, finished, current, waits, owed>>

-----------------------------------------------------------------------------
(* drive().                                                                *)

Start ==
    /\ phase = "start"
    /\ phase' = "poll"
    /\ UNCHANGED <<tasks, next, finished, ready, current, waits, drain, owed>>

\* The constructor faults after it created the root, or a poll fails.
Abandon ==
    /\ phase = "start" \/ (phase \in {"poll", "block"} /\ pending > 0)
    /\ Begin("abandon", Root, <<<<Root, FALSE>>>>, TRUE)
    /\ UNCHANGED <<tasks, next, finished, ready, current, waits, owed>>

\* Without a pending wait the reactor is not asked.
Poll ==
    /\ phase = "poll"
    /\ phase' = IF pending = 0 THEN "pick" ELSE "take"
    /\ UNCHANGED <<tasks, next, finished, ready, current, waits, drain, owed>>

\* Mutant: the registration of the notification is not compared.
TakeAny ==
    /\ phase = "take"
    /\ notices # <<>>
    /\ notices' = Tail(notices)
    /\ LET id == Head(notices)[1]
       IN  IF id \in Live /\ tasks[id].ext = "pending"
           THEN /\ tasks' = [tasks EXCEPT ![id].ext = "ready", ![id].state = "Queued"]
                /\ pending' = pending - 1
                /\ ready' = Append(ready, id)
           ELSE UNCHANGED <<tasks, pending, ready>>
    /\ UNCHANGED <<next, finished, current, phase, armed, drain, owed>>

\* A notification queues its task only if the task is still in the very
\* wait the notification is for.
Take ==
    /\ phase = "take"
    /\ notices # <<>>
    /\ notices' = Tail(notices)
    /\ LET id == Head(notices)[1]
       IN  IF id \in Live /\ tasks[id].ext = "pending"
              /\ tasks[id].state = "ExternalWaiting" /\ tasks[id].reg = Head(notices)[2]
           THEN /\ tasks' = [tasks EXCEPT ![id].ext = "ready", ![id].state = "Queued"]
                /\ pending' = pending - 1
                /\ ready' = Append(ready, id)
           ELSE UNCHANGED <<tasks, pending, ready>>
    /\ UNCHANGED <<next, finished, current, phase, armed, drain, owed>>

Taken ==
    /\ phase = "take"
    /\ notices = <<>>
    /\ phase' = "pick"
    /\ UNCHANGED <<tasks, next, finished, ready, current, waits, drain, owed>>

RootDone == tasks[Root].state \in {"Completed", "Faulted"}

\* The root's outcome ends the run; everything else must be gone.
PickRoot ==
    /\ phase = "pick"
    /\ RootDone
    /\ phase' = IF Live = {Root} /\ tasks[Root].children = {} /\ pending = 0
                THEN "done" ELSE "fatal"
    /\ tasks' = [i \in Live \ {Root} |-> tasks[i]]
    /\ finished' = Unlist(finished, Root)
    /\ ready' = <<>>
    /\ UNCHANGED <<next, current, waits, drain, owed>>

Entries == {k \in 1..Len(ready) : ready[k] \in Live}

\* Skip the identities of removed tasks and resume the first live one.
PickTask ==
    /\ phase = "pick"
    /\ ~RootDone
    /\ \E k \in Entries :
          /\ \A m \in Entries : k <= m
          /\ ready' = SubSeq(ready, k + 1, Len(ready))
          /\ IF tasks[ready[k]].state = "Queued"
             THEN /\ tasks' = [tasks EXCEPT ![ready[k]].state = "Running"]
                  /\ current' = ready[k]
                  /\ phase' = "run"
             ELSE /\ phase' = "fatal"               \* "invalid ready task state"
                  /\ UNCHANGED <<tasks, current>>
    /\ UNCHANGED <<next, finished, waits, drain, owed>>

PickNone ==
    /\ phase = "pick"
    /\ ~RootDone
    /\ Entries = {}
    /\ ready' = <<>>
    /\ phase' = IF pending = 0 THEN "fatal" ELSE "block"   \* "no runnable dependency"
    /\ UNCHANGED <<tasks, next, finished, current, waits, drain, owed>>

\* The blocking poll returns once the reactor has a notification.
Wake ==
    /\ phase = "block"
    /\ notices # <<>>
    /\ phase' = "take"
    /\ UNCHANGED <<tasks, next, finished, ready, current, waits, drain, owed>>

-----------------------------------------------------------------------------
(* The reactor and the workers.                                            *)

\* A timer, a readiness event or a completion retires its registration and
\* queues one notification; a worker notifies after its job is complete.
Fire(r) ==
    /\ r \in armed
    /\ \A i \in Live : i = r[1] => tasks[i].job # "active"
    /\ armed' = armed \ {r}
    /\ notices' = Append(notices, r)
    /\ UNCHANGED <<tasks, next, finished, sched, pending, drain, owed>>

JobComplete(id) ==
    /\ tasks[id].job = "active"
    /\ tasks' = [tasks EXCEPT ![id].job = "complete"]
    /\ UNCHANGED <<next, finished, sched, waits, drain, owed>>

Call(p) ==
    \/ Create(p)
    \/ \E c \in Live : \/ \E callee \in Live : Adopt(p, callee, c)
                       \/ Return(p, c)
                       \/ Await(p, c)
                       \/ Result(p, c)
                       \/ Release(p, c)
                       \/ Observe(p, c)
                       \/ \E suppress \in BOOLEAN : DrainChild(p, c, suppress)
                       \/ CancelTerminal(p, c)
                       \/ \E outcome \in {"Completed", "Faulted"} : CancelLate(p, c, outcome)
                       \/ CancelBegin(p, c)
    \/ WaitNext(p)
    \/ Select(p)
    \/ \E kind \in {"lexical", "result"} : CleanupPush(p, kind)
    \/ CleanupPop(p)
    \/ Register(p, "none")
    \/ WaitWorker(p)
    \/ ResumeWait(p)
    \/ ProviderReady(p)
    \/ WorkerResult(p)

EndActivation(p) == Complete(p) \/ Suspend(p) \/ Fault(p)

DrainStep == \/ NextChild
             \/ Expand
             \/ \E failure \in BOOLEAN : RetireWait(failure) \/ RunCleanup(failure)
             \/ RemoveTask
             \/ FinishFault
             \/ FinishCancel
             \/ FinishDrain
             \/ Abandoned

Drive == Start \/ Poll \/ Take \/ Taken \/ PickRoot \/ PickTask \/ PickNone \/ Wake

\* The run is over; the process goes on without this owner.
Over == phase \in {"done", "fatal"} /\ UNCHANGED vars

Next == \/ \E p \in Live : Call(p) \/ EndActivation(p) \/ JobComplete(p)
        \/ DrainStep
        \/ Drive
        \/ Abandon
        \/ \E r \in armed : Fire(r)
        \/ Over

\* Every activation ends, the owner thread runs, the reactor and the workers
\* deliver.
Fairness == /\ WF_vars(\E p \in Live : EndActivation(p))
            /\ WF_vars(DrainStep \/ Drive)
            /\ WF_vars(\E r \in armed : Fire(r))
            /\ WF_vars(\E p \in Live : JobComplete(p))

Spec == Init /\ [][Next]_vars /\ Fairness

-----------------------------------------------------------------------------
(* Properties.                                                             *)

TypeOK ==
    /\ tasks \in [Live -> TaskRecord] /\ Live \subseteq Id
    /\ next \in Id
    /\ finished \in Seq(Id)
    /\ ready \in Seq(Id)
    /\ current \in Id \cup {None}
    /\ pending \in 0..MaxTasks
    /\ armed \subseteq Id \X (1..MaxWaits)
    /\ notices \in Seq(Id \X (1..MaxWaits))
    /\ phase \in Phases
    /\ drain \in [work : Seq(Id \X BOOLEAN), first : BOOLEAN, suppress : BOOLEAN,
                  then : {"none", "fault", "cancel", "drain", "abandon"},
                  of : Id \cup {None}]
    /\ owed \in Id \cup {None}

\* The owner never meets a state that drive() and finish_resume() call fatal
\* or assert against: a ready entry whose task is not Queued, a waiter that
\* does not wait, no runnable task and no pending wait, a root that ends
\* with live tasks or pending waits.
NoFatal == phase # "fatal"

\* The child sets and the parent fields are inverse and form one tree under
\* the root, whatever adoptions, extractions, cancellations and drains have
\* happened: no task escapes the obligation of its parent.
OneTree ==
    /\ \A i \in Live : \A c \in Id : c \in tasks[i].children <=> c \in Live /\ tasks[c].parent = i
    /\ \A i \in Live \ {Root} : tasks[i].parent \in Live
    /\ \A S \in SUBSET (Live \ {Root}) : S # {} => \E i \in S : tasks[i].parent \notin S
    /\ \A i \in Live : tasks[i].waiter \in {None, tasks[i].parent}

AtRest == phase \in {"poll", "take", "pick", "block"}

\* Between activations every task can still be resumed by what it waits for:
\* an awaited child is live, not terminal and knows its waiter; an observer
\* waits for members none of which has ended, and an ended member is noted;
\* an external wait is armed or its notification is queued.
WaitsServed == AtRest =>
    \A i \in Live : LET t == tasks[i] IN
        /\ t.state # "Running"
        /\ t.state = "Waiting" => /\ t.on \in t.children
                                  /\ tasks[t.on].waiter = i
                                  /\ tasks[t.on].state \notin Terminal
        /\ t.state = "Observing" => t.members # {} /\ t.noted = {}
        /\ t.members \subseteq t.children
        /\ t.noted = {c \in t.members : tasks[c].state \in Terminal}
        /\ \A c \in t.members : tasks[c].waiter = i
        /\ t.state = "ExternalWaiting" <=> t.ext = "pending"

\* Between activations the ready queue holds each Queued task exactly once
\* and no live task that is not Queued; identities of removed tasks may
\* linger, and none of them is ever live again.
QueueOK == AtRest =>
    /\ \A k \in 1..Len(ready) : ready[k] \in Live => tasks[ready[k]].state = "Queued"
    /\ \A i \in Live : tasks[i].state = "Queued" =>
           Cardinality({k \in 1..Len(ready) : ready[k] = i}) = 1

\* The state is well formed; the counter that decides whether the owner may
\* block counts the waits without a notification, also in the middle of a drain, and each of these
\* waits will get its notification: it is armed or already queued.
PendingOK ==
    /\ TypeOK
    /\ pending = Cardinality({i \in Live : tasks[i].ext = "pending"})
    /\ armed = {<<i, tasks[i].reg>> : i \in {j \in Live : tasks[j].ext = "pending" /\
                                          ~\E k \in 1..Len(notices) : notices[k] = <<j, tasks[j].reg>>}}

Height  == Len(drain.work)
Node(k) == drain.work[k][1]

\* The tasks whose children a drain removes and which it ends then: what they
\* wait for no longer counts.
Doomed ==
    IF phase = "drain"
    THEN {Node(k) : k \in 1..Height} \cup (IF drain.then \in {"fault", "cancel"} THEN {drain.of} ELSE {})
    ELSE {}

\* Once task i is freed, no group has it as a member, and a task that still
\* awaits it is one the running drain is about to end.
Forgotten(i) ==
    \A j \in Live : /\ i \notin tasks[j].members
                    /\ tasks[j].state = "Waiting" /\ tasks[j].on = i => j \in Doomed

\* A frame is freed, and a cleanup is run by a drain, only when no live task
\* has this task as its parent and no worker or reactor registration uses
\* its frame; a freed task has no cleanup left, nobody observes it any more,
\* and nobody awaits it but a task that the running drain is about to end.
ChildrenFirst ==
    [][\A i \in Live :
         (i \notin DOMAIN tasks' \/ (phase = "drain" /\ tasks'[i].cleanups # tasks[i].cleanups))
            => /\ \A j \in Live : tasks[j].parent # i
               /\ i \in DOMAIN tasks' => Quiet(i)
               /\ i \notin DOMAIN tasks' => Quiet(i) /\ tasks[i].cleanups = <<>> /\ Forgotten(i)']_vars

\* A terminal outcome is final: no cancellation, drain or late completion
\* replaces it, and a terminal task is never run again.
OutcomeFinal ==
    [][\A i \in Live \cap DOMAIN tasks' :
         tasks[i].state \in Terminal => tasks'[i].state = tasks[i].state]_vars

\* The run ends: no wakeup is lost, whatever is awaited, observed, cancelled
\* or drained.
Finishes == <>(phase = "done")
=============================================================================
