-------------------------------- MODULE Jobs --------------------------------
(***************************************************************************)
(* The worker pools: blocking I/O (blocking_io.rs, with the file table of  *)
(* tasks_workers.rs) and CPU jobs (parallel.rs).  Tasks of the owner       *)
(* thread submit jobs, take their results or are cancelled; worker threads *)
(* run them.  A job is known by the registration it completes.  pool says  *)
(* which of the two pools is in play.                                      *)
(*                                                                         *)
(* Descriptors are ghosts of the native files: each is made by an open or  *)
(* a duplication and never made again.                                     *)
(***************************************************************************)
EXTENDS Waits

CONSTANTS Workers, MaxTokens, MaxDescriptors

ASSUME JobsAssumption == /\ IsFiniteSet(Workers)
                         /\ MaxTokens \in Nat
                         /\ MaxDescriptors \in Nat

VARIABLES
    pool,        \* "io" or "cpu"
    job,         \* Job of each registration
    operation,   \* Task.operation and Task.computation: the job a task has out
    fifo,        \* Queue.jobs
    closed,      \* Queue.closed
    worker,      \* what each thread of the pool is doing
    owner,       \* where the owner thread is when it waits for a worker
    handles,     \* Workers.handles: token to descriptor
    tokens,      \* Workers.next
    opened,      \* descriptors made so far
    open,        \* descriptors that are open
    fatal        \* a fatal check of the runtime was hit

fileVars == <<handles, tokens, opened, open>>
poolVars == <<job, fifo, closed, worker>>
jobVars  == <<pool, poolVars, fileVars, operation, owner, fatal>>

NoJob    == [state |-> "none", kind |-> "none", fd |-> None, stop |-> FALSE]
Resting  == [pc |-> "free", task |-> None, job |-> None, asleep |-> FALSE]

JobsInit ==
    /\ pool \in {"io", "cpu"}
    /\ job = [r \in 1..MaxWaits |-> NoJob]
    /\ operation = [t \in Tasks |-> None]
    /\ fifo = <<>> /\ closed = FALSE
    /\ worker = [w \in Workers |-> [pc |-> "loop", job |-> None]]
    /\ owner = Resting
    /\ handles = <<>> /\ tokens = 0 /\ opened = 0 /\ open = {}
    /\ fatal = FALSE

Free == owner.pc = "free"

\* State::Taken: whatever the job still owned is dropped, a file is closed by it.
Taken(r) == [job EXCEPT ![r].state = "taken", ![r].fd = None]
DropFile(fd) == open' = open \ {fd}

\* Condvar::notify_one on the pool's queue.
NotifyOne(ws) ==
    \/ \E w \in Workers : ws[w].pc = "sleep" /\ worker' = [ws EXCEPT ![w].pc = "loop"]
    \/ (\A w \in Workers : ws[w].pc # "sleep") /\ worker' = ws

-----------------------------------------------------------------------------
(* The owner submits.  What the operation needs is prepared first: a read  *)
(* or a write duplicates the file, a close takes it out of the table.      *)

NoFile(fd)     == fd = None /\ UNCHANGED <<handles, opened, open>>
Duplicate(fd)  == /\ opened < MaxDescriptors
                  /\ fd = opened + 1
                  /\ opened' = opened + 1
                  /\ open' = open \cup {fd}
                  /\ UNCHANGED handles
\* Mutant: a close borrows the file and leaves its token in the table.
TakeFileKept(k, fd) == fd = handles[k] /\ UNCHANGED <<handles, opened, open>>
TakeFile(k, fd) == /\ fd = handles[k]
                   /\ handles' = [x \in DOMAIN handles \ {k} |-> handles[x]]
                   /\ UNCHANGED <<opened, open>>

\* A captured process, or an operation that has already failed: its inputs are copied.
Snapshot(kind, fd) == kind = "other" /\ NoFile(fd)

\* The operation and the descriptor it owns.
Prepare(kind, fd) ==
    \/ pool = "cpu" /\ kind = "compute" /\ NoFile(fd)
    \/ pool = "io" /\ kind = "open" /\ NoFile(fd)
    \/ pool = "io" /\ Snapshot(kind, fd)
    \/ pool = "io" /\ kind = "use" /\ DOMAIN handles # {} /\ Duplicate(fd)
    \/ pool = "io" /\ kind = "close" /\ \E k \in DOMAIN handles : TakeFile(k, fd)

Kinds == {"open", "other", "use", "close", "compute"}

\* worker_wait and loom_rt_task_wait_worker, the first time.
Submit(t, kind) ==
    LET r == Len(issued) + 1
    IN  /\ Free /\ Idle(t) /\ ~closed
        /\ operation[t] = None
        /\ Park(t, Completion, None)
        /\ \E fd \in 0..MaxDescriptors :
              /\ Prepare(kind, fd)
              /\ job' = [job EXCEPT ![r] = [state |-> "queued", kind |-> kind, fd |-> fd, stop |-> FALSE]]
        /\ operation' = [operation EXCEPT ![t] = r]
        /\ fifo' = Append(fifo, r)
        /\ NotifyOne(worker)
        /\ UNCHANGED <<queue, done, pool, closed, owner, tokens, fatal>>

\* The registration or the pool cannot be had: the operation is dropped with what
\* it owns and the task faults.
SubmitFails(t) ==
    /\ Free /\ Idle(t) /\ ~closed
    /\ operation[t] = None
    /\ \/ UNCHANGED <<handles, open>>
       \/ /\ pool = "io"                                \* the file of a close
          /\ \E k \in DOMAIN handles :
                /\ handles' = [x \in DOMAIN handles \ {k} |-> handles[x]]
                /\ DropFile(handles[k])
    /\ done' = done \cup {t}
    /\ UNCHANGED <<issued, live, queue, wait, pool, poolVars, operation, owner, tokens, opened, fatal>>

-----------------------------------------------------------------------------
(* Worker threads.                                                         *)

\* The top of a thread's loop, under the queue's lock.
Fetch(w) ==
    /\ worker[w].pc = "loop"
    /\ \/ closed /\ worker' = [worker EXCEPT ![w].pc = "exited"] /\ UNCHANGED fifo
       \/ /\ ~closed /\ fifo = <<>>
          /\ worker' = [worker EXCEPT ![w].pc = "sleep"]
          /\ UNCHANGED fifo
       \/ /\ ~closed /\ fifo # <<>>
          /\ worker' = [worker EXCEPT ![w] = [pc |-> "fetched", job |-> Head(fifo)]]
          /\ fifo' = Tail(fifo)
    /\ UNCHANGED <<waitVars, pool, job, closed, fileVars, operation, owner, fatal>>

Starts(r) == job[r].state = "queued"

\* The first block of Job::run.
Start(w) ==
    LET r == worker[w].job
    IN  /\ worker[w].pc = "fetched"
        /\ \/ /\ Starts(r)
              /\ job' = [job EXCEPT ![r].state = "running"]
              /\ worker' = [worker EXCEPT ![w].pc = "running"]
           \/ /\ ~Starts(r)
              /\ worker' = [worker EXCEPT ![w] = [pc |-> "loop", job |-> None]]
              /\ UNCHANGED job
        /\ UNCHANGED <<waitVars, pool, fifo, closed, fileVars, operation, owner, fatal>>

\* The outcomes of an operation: its kind, and the file it hands over.  An open makes
\* a file or fails; a read, a write and a close end with their file closed; a CPU job
\* returns, faults or, once cancelled, stops.
Outcome(r, kind, fd) ==
    \/ /\ job[r].kind = "open" /\ opened < MaxDescriptors
       /\ kind = "file" /\ fd = opened + 1
       /\ opened' = opened + 1 /\ open' = open \cup {fd}
    \/ /\ job[r].kind \in {"open", "other", "use", "close"}
       /\ kind = "bytes" /\ fd = None
       /\ DropFile(job[r].fd) /\ UNCHANGED opened
    \/ /\ job[r].kind = "compute"
       /\ kind \in {"ok", "fault"} \cup (IF job[r].stop THEN {"stopped"} ELSE {})
       /\ fd = None
       /\ UNCHANGED <<opened, open>>

\* The operation ends: Complete is published and everybody draining it is woken.
Finish(w) ==
    LET r == worker[w].job
    IN  /\ worker[w].pc = "running"
        /\ \E kind \in {"file", "bytes", "ok", "fault", "stopped"}, fd \in 0..MaxDescriptors :
              /\ Outcome(r, kind, fd)
              /\ job' = [job EXCEPT ![r] = [@ EXCEPT !.state = "complete", !.kind = kind, !.fd = fd]]
        /\ worker' = [worker EXCEPT ![w].pc = "notify"]
        /\ owner' = IF owner.job = r THEN [owner EXCEPT !.asleep = FALSE] ELSE owner
        /\ UNCHANGED <<waitVars, pool, fifo, closed, handles, tokens, operation, fatal>>

\* The end of Job::run: only an identity reaches the owner.
NotifyCompletion(w) ==
    /\ worker[w].pc = "notify"
    /\ FireAll({worker[w].job}, FALSE)
    /\ worker' = [worker EXCEPT ![w] = [pc |-> "loop", job |-> None]]
    /\ UNCHANGED <<issued, wait, done, pool, job, fifo, closed, fileVars, operation, owner, fatal>>

-----------------------------------------------------------------------------
(* The owner consumes, cancels and shuts down.                             *)

\* An opened file gets a token, never one used before.
Inserted(fd) ==
    /\ handles' = [k \in DOMAIN handles \cup {tokens + 1} |->
                      IF k = tokens + 1 THEN fd ELSE handles[k]]
    /\ tokens' = tokens + 1

\* A CPU job's fault is raised again in the task that takes it.
Raised(t, r) == IF job[r].kind = "fault" THEN done \cup {t} ELSE done

\* A resumed task consumes its wait and takes the result.
Result(t) ==
    LET r == operation[t]
    IN  /\ Free /\ Woken(t) /\ t \notin done
        /\ r # None
        /\ tokens < MaxTokens \/ job[r].kind # "file"
        /\ Consume(t)
        /\ operation' = [operation EXCEPT ![t] = None]
        /\ IF job[r].state = "complete" /\ job[r].kind # "stopped"
           THEN /\ job' = Taken(r)
                /\ IF job[r].kind = "file" THEN Inserted(job[r].fd)
                   ELSE UNCHANGED <<handles, tokens>>
                /\ done' = Raised(t, r)
                /\ UNCHANGED fatal
           ELSE fatal' = TRUE /\ UNCHANGED <<job, handles, tokens, done>>
        /\ UNCHANGED <<issued, live, queue, pool, fifo, closed, worker, owner, opened, open>>

\* The task's program ends.
End(t) == /\ Free /\ Idle(t) /\ operation[t] = None
          /\ done' = done \cup {t}
          /\ UNCHANGED <<issued, live, queue, wait, jobVars>>

\* cancel_wait, then cancel_operation: a CPU job is asked to stop first.
Cancel(t) ==
    LET r == operation[t]
    IN  /\ Free /\ t \notin done /\ r # None
        /\ CancelWaits({t})
        /\ operation' = [operation EXCEPT ![t] = None]
        /\ job' = IF pool = "cpu" THEN [job EXCEPT ![r].stop = TRUE] ELSE job
        /\ owner' = [pc |-> "drain", task |-> t, job |-> r, asleep |-> FALSE]
        /\ UNCHANGED <<issued, queue, done, pool, fifo, closed, worker, fileVars, fatal>>

\* Explicit cancellation of a CPU task: it is asked to stop, its wait is kept for now.
Ask(t) ==
    LET r == operation[t]
    IN  /\ Free /\ t \notin done /\ r # None /\ pool = "cpu"
        /\ job' = [job EXCEPT ![r].stop = TRUE]
        /\ owner' = [pc |-> "ask", task |-> t, job |-> r, asleep |-> FALSE]
        /\ UNCHANGED <<waitVars, operation, pool, fifo, closed, worker, fileVars, fatal>>

\* The loop on Job.finished, under the job's lock.
Sleep == /\ owner.pc \in {"drain", "ask"} /\ ~owner.asleep
         /\ job[owner.job].state = "running"
         /\ owner' = [owner EXCEPT !.asleep = TRUE]
         /\ UNCHANGED <<waitVars, pool, poolVars, fileVars, operation, fatal>>

\* Mutant: a running operation is not waited for.
DrainableEarly(r) == TRUE
Drainable(r) == job[r].state # "running"

\* cancel_and_drain returns: inputs or results are dropped and the task is gone.
Drain == /\ owner.pc = "drain" /\ ~owner.asleep
         /\ Drainable(owner.job)
         /\ job' = Taken(owner.job)
         /\ DropFile(job[owner.job].fd)
         /\ done' = done \cup {owner.task}
         /\ owner' = Resting
         /\ UNCHANGED <<issued, live, queue, wait, pool, fifo, closed, worker, handles, tokens,
                        opened, operation, fatal>>

\* complete_before_cancel returns.  A result or a fault that came before the request
\* was seen is kept: the task's wrapper is resumed at once and takes it.  A job that
\* was queued or has stopped is taken back.  Either way the task ends here.
Answer ==
    LET t == owner.task
        r == owner.job
    IN  /\ owner.pc = "ask" /\ ~owner.asleep
        /\ Drainable(r)
        /\ CancelWaits({t})
        /\ operation' = [operation EXCEPT ![t] = None]
        /\ job' = Taken(r)
        /\ done' = done \cup {t}
        /\ owner' = Resting
        /\ UNCHANGED <<issued, queue, pool, fifo, closed, worker, fileVars, fatal>>

\* loom_rt_file_abort
Abort(k) == /\ Free /\ k \in DOMAIN handles
            /\ handles' = [x \in DOMAIN handles \ {k} |-> handles[x]]
            /\ DropFile(handles[k])
            /\ UNCHANGED <<waitVars, pool, poolVars, operation, owner, tokens, opened, fatal>>

Turn == Free /\ Poll /\ UNCHANGED jobVars

Alarm(ws) == [w \in Workers |-> IF ws[w].pc = "sleep" THEN [ws[w] EXCEPT !.pc = "loop"] ELSE ws[w]]

\* Pool::drop once every task is gone: the queue holds only jobs that were taken back.
ClosePool ==
    /\ Free /\ done = Tasks /\ ~closed
    /\ closed' = TRUE
    /\ owner' = [Resting EXCEPT !.pc = "join"]
    /\ IF pool = "io"
       THEN /\ fifo' = <<>>
            /\ job' = [r \in DOMAIN job |-> IF \E i \in DOMAIN fifo : fifo[i] = r
                                            THEN [job[r] EXCEPT !.state = "taken", !.fd = None]
                                            ELSE job[r]]
       ELSE UNCHANGED <<fifo, job>>
    /\ worker' = Alarm(worker)
    /\ UNCHANGED <<waitVars, pool, fileVars, operation, fatal>>

\* ... and the threads are joined; the file table goes with the pool.
Join == /\ owner.pc = "join"
        /\ \A w \in Workers : worker[w].pc = "exited"
        /\ owner' = [Resting EXCEPT !.pc = "joined"]
        /\ open' = open \ {handles[k] : k \in DOMAIN handles}
        /\ handles' = <<>>
        /\ UNCHANGED <<waitVars, pool, poolVars, tokens, opened, operation, fatal>>

-----------------------------------------------------------------------------
(* Properties.                                                             *)

Held == {r \in DOMAIN job : job[r].fd # None}

\* Every open native file has exactly one owner, a token or a job that is queued,
\* running or complete, and nobody owns a closed one: whatever is cancelled, aborted
\* or fails, no descriptor leaks and none is closed twice.
DescriptorsOwned ==
    /\ open = {job[r].fd : r \in Held} \cup {handles[k] : k \in DOMAIN handles}
    /\ \A r, s \in Held : job[r].fd = job[s].fd => r = s
    /\ \A k, l \in DOMAIN handles : handles[k] = handles[l] => k = l
    /\ \A r \in Held, k \in DOMAIN handles : job[r].fd # handles[k]

\* When a task is gone no thread runs its operation or will start it, and when a result
\* is taken it is there: cleanup never runs beside the operation it cleans up after.
DrainedBeforeDone ==
    /\ ~fatal
    /\ \A w \in Workers :
          worker[w].pc = "running" =>
              /\ job[worker[w].job].state = "running"
              /\ owner.job = worker[w].job \/ \E t \in Tasks : operation[t] = worker[w].job
    /\ \A r \in DOMAIN job :
          job[r].state \in {"queued", "running", "complete"} =>
              owner.job = r \/ \E t \in Tasks \ done : operation[t] = r
=============================================================================
