----------------------------- MODULE JobsProofs -----------------------------
(***************************************************************************)
(* Proofs about Jobs, in NativeIo, for any tasks, threads and bounds:      *)
(* every native file has exactly one owner, an operation is drained before *)
(* its task is gone, and no completion is lost.                            *)
(***************************************************************************)
EXTENDS NativeIo, TLAPS, FiniteSetTheorems, SequenceTheorems

Registrations == 1..MaxWaits
Notes         == [reg : Registrations, error : BOOLEAN]
WaitRecords   == [reg : Nat, ready : BOOLEAN, error : BOOLEAN, lease : Nat]
JobStates     == {"none", "queued", "running", "complete", "taken"}
JobKinds      == Kinds \cup {"none", "file", "bytes", "ok", "fault", "stopped"}
JobRecords    == [state : JobStates, kind : JobKinds, fd : 0..MaxDescriptors, stop : BOOLEAN]
ThreadStates  == {"loop", "sleep", "fetched", "running", "notify", "exited"}
Threads       == [pc : ThreadStates, job : 0..MaxWaits]
OwnerStates   == {"free", "drain", "ask", "join", "joined"}
Owners        == [pc : OwnerStates, task : Tasks \cup {None}, job : 0..MaxWaits, asleep : BOOLEAN]

\* Waits, as every part uses them.
WaitsType ==
    /\ Len(issued) <= MaxWaits /\ live \subseteq 1..Len(issued)
    /\ queue \in Seq(Notes)
    /\ wait \in [Tasks -> WaitRecords] /\ done \subseteq Tasks

PoolType ==
    /\ pool \in {"io", "cpu"}
    /\ job \in [Registrations -> JobRecords]
    /\ operation \in [Tasks -> 0..MaxWaits]
    /\ fifo \in Seq(Registrations) /\ closed \in BOOLEAN
    /\ worker \in [Workers -> Threads]
    /\ owner \in Owners

FilesType ==
    /\ opened \in Nat /\ opened <= MaxDescriptors /\ open \subseteq 1..opened
    /\ tokens \in Nat /\ DOMAIN handles \subseteq 1..tokens
    /\ handles \in [DOMAIN handles -> 1..opened]

JobsType == issued \in Seq({Completion}) /\ WaitsType /\ PoolType /\ FilesType

\* A job that somebody still has to run, or whose result somebody still has to take.
Outstanding(r) == job[r].state \in {"queued", "running", "complete"}

\* Where a job is agrees with its state.
StatesOK ==
    /\ \A r \in Registrations : job[r].state = "none" <=> r > Len(issued)
    /\ \A i \in DOMAIN fifo : job[fifo[i]].state \in {"queued", "taken"}
    /\ \A w \in Workers :
          /\ worker[w].pc \in {"loop", "sleep", "exited"} <=> worker[w].job = None
          /\ worker[w].pc = "fetched" => job[worker[w].job].state \in {"queued", "taken"}
          /\ worker[w].pc = "running" => job[worker[w].job].state = "running"
          /\ worker[w].pc = "notify" => job[worker[w].job].state \in {"complete", "taken"}
    /\ \A i \in DOMAIN queue : job[queue[i].reg].state \in {"complete", "taken"}

\* A job is in one place only.
PlacesOK ==
    /\ \A i, j \in DOMAIN fifo : fifo[i] = fifo[j] => i = j
    /\ \A v, w \in Workers : worker[v].job = worker[w].job /\ worker[v].job # None => v = w
    /\ \A i \in DOMAIN fifo, w \in Workers : fifo[i] # worker[w].job

\* The owner thread, when it waits, has taken the job over from a task or asks for it.
OwnerOK ==
    /\ owner.pc \in {"free", "join", "joined"} => owner.job = None /\ ~owner.asleep
    /\ owner.pc \in {"drain", "ask"} =>
          owner.task \in Tasks \ done /\ owner.job # None /\ job[owner.job].state # "none"
    /\ owner.pc = "drain" => operation[owner.task] = None /\ \A t \in Tasks : operation[t] # owner.job
    /\ owner.pc = "ask" => operation[owner.task] = owner.job /\ pool = "cpu"
    /\ owner.asleep => job[owner.job].state = "running"

\* Every outstanding job belongs to a task that waits for it, or to the owner.
TasksOK ==
    /\ \A t \in Tasks :
          /\ wait[t].reg = operation[t]
          /\ operation[t] # None => t \notin done /\ Outstanding(operation[t])
          /\ wait[t].ready => operation[t] # None /\ job[operation[t]].state = "complete"
          /\ operation[t] # None /\ job[operation[t]].stop => owner.pc = "ask" /\ owner.job = operation[t]
    /\ \A t, u \in Tasks : operation[t] = operation[u] /\ operation[t] # None => t = u
    /\ \A r \in Registrations : Outstanding(r) => owner.job = r \/ \E t \in Tasks : operation[t] = r
    /\ ~fatal

\* DescriptorsOwned, file by file.
OpenOK ==
    /\ \A d \in open : (\E r \in Registrations : job[r].fd = d) \/ (\E k \in DOMAIN handles : handles[k] = d)
    /\ \A r \in Registrations : job[r].fd # None => job[r].fd \in open
    /\ \A k \in DOMAIN handles : handles[k] \in open
    /\ \A r, s \in Registrations : job[r].fd = job[s].fd /\ job[r].fd # None => r = s
    /\ \A k, l \in DOMAIN handles : handles[k] = handles[l] => k = l
    /\ \A r \in Registrations, k \in DOMAIN handles : job[r].fd # handles[k]

\* What a job owns follows from its kind and state.
FilesOK ==
    \A r \in Registrations :
        /\ job[r].fd # None => Outstanding(r) /\ pool = "io"
        /\ job[r].state \in {"queued", "running"} =>
              /\ job[r].kind \in Kinds
              /\ job[r].kind \in {"use", "close"} \/ job[r].fd = None
              /\ pool = "cpu" => job[r].kind = "compute"
        /\ job[r].state = "complete" =>
              /\ job[r].kind = "file" <=> job[r].fd # None
              /\ job[r].kind = "stopped" => job[r].stop

\* A task that waits for a job will hear of it.
WakesOK ==
    \A t \in Tasks : Parked(t) =>
        \/ \E i \in DOMAIN queue : queue[i].reg = wait[t].reg
        \/ wait[t].reg \in live /\ JobPending(wait[t].reg)

\* Threads sleep only while there is nothing for them to do.
Looping    == {w \in Workers : worker[w].pc = "loop"}
SleepersOK == (\E w \in Workers : worker[w].pc = "sleep") => ~closed /\ Len(fifo) <= Cardinality(Looping)

JobsInv == /\ JobsType /\ StatesOK /\ PlacesOK /\ OwnerOK
           /\ TasksOK /\ OpenOK /\ FilesOK /\ WakesOK /\ SleepersOK

\* The pools are as they were at the start while another part runs.
JobsRest == JobsInit /\ pool = "io"

NativeJobs == part \in {"jobs", "sockets", "tls", "capture"}
              /\ (IF part = "jobs" THEN JobsInv ELSE JobsRest)

-----------------------------------------------------------------------------
(* What the types say of each piece of the state.                          *)

LEMMA JobFacts == ASSUME JobsType
                  PROVE  /\ MaxWaits \in Nat /\ DOMAIN job = Registrations
                         /\ \A r \in Registrations :
                               /\ r \in Nat /\ r # None /\ r \in 0..MaxWaits
                               /\ job[r].state \in JobStates /\ job[r].kind \in JobKinds
                               /\ job[r].fd \in 0..MaxDescriptors /\ job[r].stop \in BOOLEAN
                         /\ \A r \in 0..MaxWaits : r # None => r \in Registrations
    BY WaitsAssumption DEF JobsType, PoolType, JobRecords, Registrations, None

LEMMA PlaceFacts == ASSUME JobsType
                    PROVE  /\ Len(fifo) \in Nat /\ DOMAIN fifo = 1..Len(fifo)
                           /\ \A i \in DOMAIN fifo : fifo[i] \in Registrations
                           /\ Len(queue) \in Nat /\ DOMAIN queue = 1..Len(queue)
                           /\ \A i \in DOMAIN queue : queue[i].reg \in Registrations
                           /\ \A w \in Workers : /\ worker[w] \in Threads
                                                 /\ worker[w].pc \in ThreadStates
                                                 /\ worker[w].job \in 0..MaxWaits
<1>1. Len(fifo) \in Nat /\ DOMAIN fifo = 1..Len(fifo) /\ \A i \in DOMAIN fifo : fifo[i] \in Registrations
    BY DEF JobsType, PoolType
<1>2. Len(queue) \in Nat /\ DOMAIN queue = 1..Len(queue) /\ \A i \in DOMAIN queue : queue[i] \in Notes
    BY DEF JobsType, WaitsType
<1>3. \A n \in Notes : n.reg \in Registrations
    BY DEF Notes
<1>4. \A w \in Workers : worker[w] \in Threads
    BY DEF JobsType, PoolType
<1> QED BY <1>1, <1>2, <1>3, <1>4 DEF Threads

LEMMA TaskFacts == ASSUME JobsType
                   PROVE  /\ \A t \in Tasks :
                                /\ operation[t] \in 0..MaxWaits /\ wait[t] \in WaitRecords
                                /\ wait[t].reg \in Nat /\ wait[t].ready \in BOOLEAN
                          /\ owner.pc \in OwnerStates /\ owner.task \in Tasks \cup {None}
                          /\ owner.job \in 0..MaxWaits /\ owner.asleep \in BOOLEAN
                          /\ Len(issued) \in Nat /\ Len(issued) <= MaxWaits
                          /\ done \subseteq Tasks /\ pool \in {"io", "cpu"} /\ closed \in BOOLEAN
    BY DEF JobsType, PoolType, WaitsType, WaitRecords, Owners

\* File by file is all there is to say of the descriptors.
LEMMA OpenOwned == JobsType /\ OpenOK => DescriptorsOwned
<1> SUFFICES ASSUME JobsType, OpenOK PROVE DescriptorsOwned
    OBVIOUS
<1>1. \A r : r \in Held <=> r \in Registrations /\ job[r].fd # None
    BY JobFacts DEF Held
<1>2. None \notin open
    BY DEF JobsType, FilesType, None
<1>3. open = {job[r].fd : r \in Held} \cup {handles[k] : k \in DOMAIN handles}
  <2>1. ASSUME NEW d \in open
        PROVE  d \in {job[r].fd : r \in Held} \cup {handles[k] : k \in DOMAIN handles}
    BY <1>1, <1>2 DEF OpenOK
  <2>2. ASSUME NEW d \in {job[r].fd : r \in Held} \cup {handles[k] : k \in DOMAIN handles}
        PROVE  d \in open
    BY <1>1 DEF OpenOK
  <2> QED BY <2>1, <2>2
<1>4. /\ \A r, s \in Held : job[r].fd = job[s].fd => r = s
      /\ \A k, l \in DOMAIN handles : handles[k] = handles[l] => k = l
      /\ \A r \in Held, k \in DOMAIN handles : job[r].fd # handles[k]
    BY <1>1 DEF OpenOK
<1> QED BY <1>3, <1>4 DEF DescriptorsOwned

-----------------------------------------------------------------------------
(* Steps of the jobs: what each one leaves true.                           *)

\* The owner goes to sleep on a job that is running.
LEMMA SleepStep == JobsInv /\ Sleep => JobsInv'
<1> SUFFICES ASSUME JobsInv, Sleep PROVE JobsInv'
    OBVIOUS
<1>0. /\ UNCHANGED <<waitVars, pool, poolVars, fileVars, operation, fatal>>
      /\ owner' = [owner EXCEPT !.asleep = TRUE] /\ owner \in Owners
      /\ owner' \in Owners /\ owner'.job = owner.job /\ owner'.pc = owner.pc /\ owner'.task = owner.task
      /\ owner.pc \in {"drain", "ask"} /\ job[owner.job].state = "running"
    BY DEF Sleep, JobsInv, JobsType, PoolType, Owners
<1>1. JobsType'
    BY <1>0 DEF JobsInv, JobsType, WaitsType, PoolType, FilesType, waitVars, poolVars, fileVars
<1>2. StatesOK' /\ PlacesOK'
    BY <1>0 DEF JobsInv, StatesOK, PlacesOK, waitVars, poolVars
<1>3. OwnerOK'
    BY <1>0 DEF JobsInv, OwnerOK, waitVars, poolVars
<1>4. TasksOK'
    BY <1>0 DEF JobsInv, TasksOK, Outstanding, waitVars, poolVars
<1>5. OpenOK' /\ FilesOK'
    BY <1>0 DEF JobsInv, OpenOK, FilesOK, Outstanding, poolVars, fileVars
<1>6. WakesOK' /\ SleepersOK'
    BY <1>0 DEF JobsInv, WakesOK, SleepersOK, Looping, Parked, JobPending, waitVars, poolVars
<1> QED BY <1>1, <1>2, <1>3, <1>4, <1>5, <1>6 DEF JobsInv

\* A CPU task is asked to stop.
LEMMA AskStep == ASSUME NEW t \in Tasks, JobsInv, Ask(t) PROVE JobsInv'
<1> USE DEF None
<1>f. JobsType /\ WaitsAssumption
    BY WaitsAssumption DEF JobsInv
<1>g. PICK r \in Registrations : r = operation[t] /\ Outstanding(r) /\ t \notin done
    BY <1>f, JobFacts, TaskFacts DEF Ask, JobsInv, TasksOK
<1>0. /\ UNCHANGED <<waitVars, operation, pool, fifo, closed, worker, fileVars, fatal>>
      /\ pool = "cpu" /\ owner.pc = "free" /\ owner.job = None
      /\ owner' = [pc |-> "ask", task |-> t, job |-> r, asleep |-> FALSE]
      /\ job' = [job EXCEPT ![r].stop = TRUE]
    BY <1>g DEF Ask, Free, JobsInv, OwnerOK
<1>j. /\ job' \in [Registrations -> JobRecords]
      /\ \A s \in Registrations : /\ job'[s].state = job[s].state /\ job'[s].fd = job[s].fd
                                  /\ job'[s].kind = job[s].kind
                                  /\ s # r => job'[s].stop = job[s].stop
                                  /\ job'[r].stop
    BY <1>f, <1>0 DEF JobsType, PoolType, JobRecords
<1>1. JobsType'
    BY <1>0, <1>j, <1>f, JobFacts DEF JobsType, WaitsType, PoolType, FilesType, Owners, OwnerStates, waitVars, fileVars
<1>2. PlacesOK'
    BY <1>0 DEF JobsInv, PlacesOK
<1>3. StatesOK'
    BY <1>0, <1>j, <1>f, JobFacts, PlaceFacts DEF JobsInv, StatesOK, waitVars, ThreadStates
<1>4. OwnerOK'
  <2>1. job'[r].state # "none"
    BY <1>g, <1>j DEF Outstanding
  <2> QED BY <1>g, <1>0, <2>1, <1>f, JobFacts DEF JobsInv, OwnerOK, waitVars
<1>5. TasksOK'
  <2>1. \A s \in Registrations : Outstanding(s)' <=> Outstanding(s)
    BY <1>j DEF Outstanding
  <2>2. \A u \in Tasks : operation[u] # None => operation[u] \in Registrations
    BY <1>f, JobFacts, TaskFacts
  <2> QED BY <1>0, <1>g, <1>j, <2>1, <2>2, <1>f, JobFacts DEF JobsInv, TasksOK, waitVars
<1>6. OpenOK' /\ FilesOK'
  <2>1. \A s \in Registrations : Outstanding(s)' <=> Outstanding(s)
    BY <1>j DEF Outstanding
  <2>2. OpenOK'
    BY <1>0, <1>j DEF JobsInv, OpenOK, fileVars
  <2>3. FilesOK'
    BY <1>0, <1>j, <1>f, JobFacts, <2>1 DEF JobsInv, FilesOK
  <2> QED BY <2>2, <2>3
<1>7. WakesOK' /\ SleepersOK'
    BY <1>0 DEF JobsInv, WakesOK, SleepersOK, Looping, Parked, JobPending, waitVars
<1> QED BY <1>1, <1>2, <1>3, <1>4, <1>5, <1>6, <1>7 DEF JobsInv

LEMMA TailFacts == ASSUME NEW S, NEW s \in Seq(S), s # <<>>
                   PROVE  /\ Tail(s) \in Seq(S) /\ Len(s) \in Nat /\ Len(s) >= 1
                          /\ Len(Tail(s)) = Len(s) - 1 /\ Head(s) = s[1] /\ s[1] \in S
                          /\ DOMAIN s = 1..Len(s) /\ DOMAIN Tail(s) = 1..(Len(s) - 1)
                          /\ \A i \in 1..(Len(s) - 1) : Tail(s)[i] = s[i + 1]
    OBVIOUS

\* A task's program ends.
LEMMA EndStep == ASSUME NEW t \in Tasks, JobsInv, End(t) PROVE JobsInv'
<1> USE DEF None
<1>0. /\ UNCHANGED <<issued, live, queue, wait, jobVars>> /\ done' = done \cup {t}
      /\ owner.pc = "free" /\ operation[t] = None
    BY DEF End, Free
<1>1. JobsType'
    BY <1>0 DEF JobsInv, JobsType, WaitsType, PoolType, FilesType, jobVars, poolVars, fileVars
<1>2. StatesOK' /\ PlacesOK' /\ OpenOK' /\ FilesOK'
    BY <1>0 DEF JobsInv, StatesOK, PlacesOK, OpenOK, FilesOK, Outstanding, jobVars, poolVars, fileVars
<1>3. OwnerOK'
    BY <1>0 DEF JobsInv, OwnerOK, jobVars, poolVars
<1>4. TasksOK'
    BY <1>0 DEF JobsInv, TasksOK, Outstanding, jobVars, poolVars
<1>5. WakesOK' /\ SleepersOK'
    BY <1>0 DEF JobsInv, WakesOK, SleepersOK, Looping, Parked, JobPending, jobVars, poolVars
<1> QED BY <1>1, <1>2, <1>3, <1>4, <1>5 DEF JobsInv

\* The owner consumes a notification.
LEMMA TurnStep == JobsInv /\ Turn => JobsInv'
<1> SUFFICES ASSUME JobsInv, Turn PROVE JobsInv'
    OBVIOUS
<1> USE DEF None
<1>f. JobsType
    BY DEF JobsInv
<1>0. /\ queue # <<>> /\ queue' = Tail(queue) /\ UNCHANGED <<issued, live, done, jobVars>>
      /\ wait' = [t \in Tasks |-> IF t \in Wakes(Head(queue))
                                    THEN [wait[t] EXCEPT !.ready = TRUE, !.error = Head(queue).error]
                                    ELSE wait[t]]
    BY DEF Turn, Poll
<1>q. /\ queue' \in Seq(Notes) /\ Len(queue) \in Nat /\ Len(queue) >= 1 /\ Head(queue) = queue[1]
      /\ queue[1] \in Notes /\ DOMAIN queue = 1..Len(queue) /\ DOMAIN queue' = 1..(Len(queue) - 1)
      /\ \A i \in 1..(Len(queue) - 1) : queue'[i] = queue[i + 1]
    BY <1>f, <1>0, TailFacts DEF JobsType, WaitsType
<1>w. /\ wait' \in [Tasks -> WaitRecords]
      /\ \A t \in Tasks : /\ wait'[t].reg = wait[t].reg
                          /\ t \notin Wakes(queue[1]) => wait'[t] = wait[t]
                          /\ t \in Wakes(queue[1]) => wait'[t].ready
  <2>1. \A t \in Tasks : /\ wait[t] \in WaitRecords /\ queue[1].error \in BOOLEAN
    BY <1>f, <1>q, TaskFacts DEF Notes
  <2> QED BY <1>0, <1>q, <2>1 DEF WaitRecords
<1>1. JobsType'
    BY <1>f, <1>0, <1>q, <1>w DEF JobsType, WaitsType, PoolType, FilesType, jobVars, poolVars, fileVars
<1>2. PlacesOK' /\ OwnerOK' /\ OpenOK' /\ FilesOK' /\ SleepersOK'
    BY <1>0 DEF JobsInv, PlacesOK, OwnerOK, OpenOK, FilesOK, SleepersOK, Looping, Outstanding, jobVars, poolVars, fileVars
<1>3. StatesOK'
  <2>1. \A i \in DOMAIN queue' : i + 1 \in DOMAIN queue /\ queue'[i] = queue[i + 1]
    BY <1>q
  <2> QED BY <1>0, <2>1 DEF JobsInv, StatesOK, jobVars, poolVars
<1>4. TasksOK'
  <2>1. ASSUME NEW t \in Tasks, wait'[t].ready
        PROVE  operation[t] # None /\ job[operation[t]].state = "complete"
    <3>1. CASE t \notin Wakes(queue[1])
        BY <2>1, <3>1, <1>w DEF JobsInv, TasksOK
    <3>2. CASE t \in Wakes(queue[1])
      <4>1. operation[t] # None /\ operation[t] = queue[1].reg
        BY <3>2 DEF Wakes, Parked, JobsInv, TasksOK
      <4>2. job[queue[1].reg].state \in {"complete", "taken"}
        BY <1>q DEF JobsInv, StatesOK
      <4> QED BY <4>1, <4>2 DEF JobsInv, TasksOK, Outstanding
    <3> QED BY <3>1, <3>2
  <2> QED BY <1>0, <1>w, <2>1 DEF JobsInv, TasksOK, Outstanding, jobVars, poolVars
<1>5. WakesOK'
  <2> SUFFICES ASSUME NEW t \in Tasks, Parked(t)'
               PROVE  (\/ \E i \in DOMAIN queue : queue[i].reg = wait[t].reg
                       \/ wait[t].reg \in live /\ JobPending(wait[t].reg))'
    BY DEF WakesOK
  <2>0. \A c : JobPending(c)' <=> JobPending(c)
    BY <1>0 DEF JobPending, jobVars, poolVars
  <2>1. t \notin Wakes(queue[1]) /\ Parked(t) /\ wait[t].reg # queue[1].reg
    BY <1>w DEF Parked, Wakes
  <2>2. CASE \E i \in DOMAIN queue : queue[i].reg = wait[t].reg
    <3> PICK i \in DOMAIN queue : queue[i].reg = wait[t].reg
        BY <2>2
    <3>1. i - 1 \in DOMAIN queue' /\ queue'[i - 1] = queue[i]
        BY <1>q, <2>1
    <3> QED BY <3>1, <1>w
  <2>3. CASE wait[t].reg \in live /\ JobPending(wait[t].reg)
    <3> PICK c : c = wait[t].reg
        OBVIOUS
    <3>1. wait'[t].reg = c /\ live' = live
        BY <1>0, <1>w
    <3> QED BY <3>1, <2>3, <2>0
  <2> QED BY <2>1, <2>2, <2>3 DEF JobsInv, WakesOK
<1> QED BY <1>1, <1>2, <1>3, <1>4, <1>5 DEF JobsInv

\* A thread at the top of its loop.
LEMMA FetchStep == ASSUME NEW w \in Workers, JobsInv, Fetch(w) PROVE JobsInv'
<1> USE DEF None
<1>f. JobsType
    BY DEF JobsInv
<1>0. /\ UNCHANGED <<waitVars, pool, job, closed, fileVars, operation, owner, fatal>>
      /\ worker[w].pc = "loop" /\ worker[w].job = None
    BY DEF Fetch, JobsInv, StatesOK
<1>t. worker \in [Workers -> Threads] /\ fifo \in Seq(Registrations)
    BY <1>f DEF JobsType, PoolType
<1>1. OwnerOK' /\ TasksOK' /\ OpenOK' /\ FilesOK'
    BY <1>0 DEF JobsInv, OwnerOK, TasksOK, OpenOK, FilesOK, Outstanding, waitVars, fileVars
<1>l. IsFiniteSet(Looping) /\ w \in Looping /\ Cardinality(Looping) \in Nat
      /\ Cardinality(Looping \ {w}) = Cardinality(Looping) - 1
  <2>1. IsFiniteSet(Looping) /\ w \in Looping
    BY <1>0, JobsAssumption, FS_Subset DEF Looping
  <2> QED BY <2>1, FS_CardinalityType, FS_RemoveElement
<1>2. CASE /\ fifo' = fifo
           /\ \/ closed /\ worker' = [worker EXCEPT ![w].pc = "exited"]
              \/ ~closed /\ fifo = <<>> /\ worker' = [worker EXCEPT ![w].pc = "sleep"]
  <2>1. /\ worker' \in [Workers -> Threads] /\ worker'[w].pc \in {"exited", "sleep"}
        /\ \A v \in Workers : worker'[v].job = worker[v].job /\ (v # w => worker'[v] = worker[v])
        /\ worker'[w].pc = "sleep" => ~closed /\ fifo = <<>>
    BY <1>2, <1>t DEF Threads, ThreadStates
  <2>2. JobsType'
    BY <1>f, <1>0, <1>2, <2>1 DEF JobsType, WaitsType, PoolType, FilesType, waitVars, fileVars
  <2>3. PlacesOK'
    BY <1>2, <2>1 DEF JobsInv, PlacesOK
  <2>4. StatesOK'
    BY <1>0, <1>2, <2>1 DEF JobsInv, StatesOK, waitVars
  <2>5. WakesOK'
    BY <1>0, <1>2, <2>1 DEF JobsInv, WakesOK, Parked, JobPending, waitVars
  <2>6. SleepersOK'
    <3>1. CASE worker'[w].pc = "sleep"
      <4>1. fifo' = <<>> /\ ~closed'
        BY <1>0, <1>2, <2>1, <3>1
      <4>2. Cardinality(Looping') \in Nat
        <5>1. IsFiniteSet(Looping')
            BY JobsAssumption, FS_Subset DEF Looping
        <5> QED BY <5>1, FS_CardinalityType
      <4> QED BY <4>1, <4>2 DEF SleepersOK
    <3>2. CASE worker'[w].pc # "sleep"
      <4>1. closed
        BY <1>2, <3>2, <1>t DEF Threads
      <4> QED BY <4>1, <2>1, <3>2 DEF JobsInv, SleepersOK
    <3> QED BY <3>1, <3>2
  <2> QED BY <1>1, <2>2, <2>3, <2>4, <2>5, <2>6 DEF JobsInv
<1>3. CASE /\ ~closed /\ fifo # <<>>
           /\ worker' = [worker EXCEPT ![w] = [pc |-> "fetched", job |-> Head(fifo)]]
           /\ fifo' = Tail(fifo)
  <2>0. /\ fifo' \in Seq(Registrations) /\ Len(fifo) \in Nat /\ Len(fifo) >= 1 /\ Head(fifo) = fifo[1]
        /\ fifo[1] \in Registrations /\ fifo[1] \in 0..MaxWaits /\ fifo[1] # None
        /\ DOMAIN fifo = 1..Len(fifo) /\ DOMAIN fifo' = 1..(Len(fifo) - 1) /\ Len(fifo') = Len(fifo) - 1
        /\ \A i \in 1..(Len(fifo) - 1) : fifo'[i] = fifo[i + 1]
    BY <1>f, <1>3, <1>t, TailFacts, JobFacts
  <2>1. /\ worker' \in [Workers -> Threads] /\ worker'[w].pc = "fetched" /\ worker'[w].job = fifo[1]
        /\ \A v \in Workers : v # w => worker'[v] = worker[v]
    BY <1>3, <1>t, <2>0 DEF Threads, ThreadStates
  <2>t. \A i \in DOMAIN fifo' : i + 1 \in DOMAIN fifo /\ fifo'[i] = fifo[i + 1] /\ i + 1 # 1 /\ i \in Nat
    BY <2>0
  <2>2. JobsType'
    BY <1>f, <1>0, <2>0, <2>1 DEF JobsType, WaitsType, PoolType, FilesType, waitVars, fileVars
  <2>3. PlacesOK'
    <3>1. \A i, j \in DOMAIN fifo' : fifo'[i] = fifo'[j] => i = j
        BY <2>t DEF JobsInv, PlacesOK
    <3>2. \A v \in Workers : worker[v].job # fifo[1]
        BY <2>0 DEF JobsInv, PlacesOK
    <3>3. \A i \in DOMAIN fifo' : fifo'[i] # fifo[1]
        BY <2>t, <2>0 DEF JobsInv, PlacesOK
    <3>4. \A u, v \in Workers : worker'[u].job = worker'[v].job /\ worker'[u].job # None => u = v
        BY <2>1, <3>2 DEF JobsInv, PlacesOK
    <3>5. \A i \in DOMAIN fifo', v \in Workers : fifo'[i] # worker'[v].job
        BY <2>1, <2>t, <3>3 DEF JobsInv, PlacesOK
    <3> QED BY <3>1, <3>4, <3>5 DEF PlacesOK
  <2>4. StatesOK'
    <3>1. job[fifo[1]].state \in {"queued", "taken"}
        BY <2>0 DEF JobsInv, StatesOK
    <3>2. \A i \in DOMAIN fifo' : job'[fifo'[i]].state \in {"queued", "taken"}
        BY <1>0, <2>t DEF JobsInv, StatesOK
    <3>3. \A v \in Workers :
             /\ worker'[v].pc \in {"loop", "sleep", "exited"} <=> worker'[v].job = None
             /\ worker'[v].pc = "fetched" => job'[worker'[v].job].state \in {"queued", "taken"}
             /\ worker'[v].pc = "running" => job'[worker'[v].job].state = "running"
             /\ worker'[v].pc = "notify" => job'[worker'[v].job].state \in {"complete", "taken"}
        BY <1>0, <2>0, <2>1, <3>1 DEF JobsInv, StatesOK
    <3> QED BY <1>0, <3>2, <3>3 DEF JobsInv, StatesOK, waitVars
  <2>5. WakesOK'
    <3>1. \A r : r # None /\ JobPending(r) => JobPending(r)'
      <4> SUFFICES ASSUME NEW r, r # None, JobPending(r) PROVE JobPending(r)'
        OBVIOUS
      <4>1. CASE \E v \in Workers : worker[v].job = r /\ v # w
        BY <4>1, <2>1 DEF JobPending
      <4>2. CASE r = fifo[1]
        BY <4>2, <2>1 DEF JobPending
      <4>3. CASE \E i \in DOMAIN fifo : fifo[i] = r /\ i # 1
        <5> PICK i \in DOMAIN fifo : fifo[i] = r /\ i # 1
            BY <4>3
        <5>1. i - 1 \in DOMAIN fifo' /\ fifo'[i - 1] = r
            BY <2>0
        <5> QED BY <5>1 DEF JobPending
      <4> QED BY <4>1, <4>2, <4>3, <1>0 DEF JobPending
    <3> QED BY <1>0, <3>1 DEF JobsInv, WakesOK, Parked, waitVars
  <2>6. SleepersOK'
    <3>1. Looping' = Looping \ {w}
        BY <2>1 DEF Looping
    <3>2. Len(fifo') <= Cardinality(Looping') \/ ~(\E v \in Workers : worker[v].pc = "sleep")
        BY <3>1, <1>l, <2>0 DEF JobsInv, SleepersOK
    <3> QED BY <3>2, <1>3, <1>0, <2>1 DEF SleepersOK
  <2> QED BY <1>1, <2>2, <2>3, <2>4, <2>5, <2>6 DEF JobsInv
<1> QED BY <1>2, <1>3 DEF Fetch

\* Threads that come back to their loop never make the sleepers late.
LEMMA MoreLoops == ASSUME Looping \subseteq Looping'
                   PROVE  /\ Cardinality(Looping) \in Nat /\ Cardinality(Looping') \in Nat
                          /\ Cardinality(Looping) <= Cardinality(Looping')
<1>1. IsFiniteSet(Looping) /\ IsFiniteSet(Looping')
    BY JobsAssumption, FS_Subset DEF Looping
<1> QED BY <1>1, FS_Subset, FS_CardinalityType

\* A thread looks at the job it fetched.
LEMMA StartStep == ASSUME NEW w \in Workers, JobsInv, Start(w) PROVE JobsInv'
<1> USE DEF None
<1>f. JobsType
    BY DEF JobsInv
<1>t. worker \in [Workers -> Threads] /\ job \in [Registrations -> JobRecords]
    BY <1>f DEF JobsType, PoolType
<1>r. PICK r \in Registrations : r = worker[w].job /\ worker[w].pc = "fetched"
  <2>1. worker[w].pc = "fetched" /\ worker[w].job # None
    BY DEF Start, JobsInv, StatesOK
  <2> QED BY <2>1, <1>f, JobFacts, PlaceFacts
<1>0. /\ UNCHANGED <<waitVars, pool, fifo, closed, fileVars, operation, owner, fatal>>
      /\ job[r].state \in {"queued", "taken"}
    BY <1>r DEF Start, JobsInv, StatesOK
<1>1. CASE /\ job[r].state = "queued"
           /\ job' = [job EXCEPT ![r].state = "running"]
           /\ worker' = [worker EXCEPT ![w].pc = "running"]
  <2>1. /\ worker' \in [Workers -> Threads] /\ worker'[w].pc = "running"
        /\ \A v \in Workers : worker'[v].job = worker[v].job /\ (v # w => worker'[v] = worker[v])
    BY <1>t, <1>1 DEF Threads, ThreadStates
  <2>2. /\ job' \in [Registrations -> JobRecords] /\ job'[r].state = "running"
        /\ \A s \in Registrations : /\ job'[s].fd = job[s].fd /\ job'[s].kind = job[s].kind
                                    /\ job'[s].stop = job[s].stop /\ (s # r => job'[s] = job[s])
    BY <1>t, <1>1 DEF JobRecords, JobStates
  <2>3. \A s \in Registrations : Outstanding(s)' <=> Outstanding(s)
    BY <2>2, <1>1 DEF Outstanding
  <2>4. JobsType'
    BY <1>f, <1>0, <2>1, <2>2 DEF JobsType, WaitsType, PoolType, FilesType, waitVars, fileVars
  <2>5. PlacesOK'
    BY <1>0, <2>1 DEF JobsInv, PlacesOK
  <2>6. StatesOK'
    <3>1. \A i \in DOMAIN fifo : fifo[i] \in Registrations /\ fifo[i] # r
        BY <1>f, <1>r, PlaceFacts DEF JobsInv, PlacesOK
    <3>2. \A i \in DOMAIN queue : queue[i].reg \in Registrations /\ queue[i].reg # r
        BY <1>f, <1>1, PlaceFacts DEF JobsInv, StatesOK
    <3>3. \A v \in Workers : v # w => worker[v].job # r /\ (worker[v].job # None => worker[v].job \in Registrations)
        BY <1>f, <1>r, PlaceFacts, JobFacts DEF JobsInv, PlacesOK
    <3>4. \A s \in Registrations : job'[s].state = "none" <=> s > Len(issued')
        BY <1>0, <1>1, <2>2 DEF JobsInv, StatesOK, waitVars
    <3>5. \A v \in Workers :
             /\ worker'[v].pc \in {"loop", "sleep", "exited"} <=> worker'[v].job = None
             /\ worker'[v].pc = "fetched" => job'[worker'[v].job].state \in {"queued", "taken"}
             /\ worker'[v].pc = "running" => job'[worker'[v].job].state = "running"
             /\ worker'[v].pc = "notify" => job'[worker'[v].job].state \in {"complete", "taken"}
      <4> TAKE v \in Workers
      <4>1. CASE v = w
        BY <4>1, <1>r, <2>1, <2>2, <1>f, JobFacts
      <4>2. CASE v # w
        BY <4>2, <3>3, <2>1, <2>2 DEF JobsInv, StatesOK
      <4> QED BY <4>1, <4>2
    <3> QED BY <1>0, <2>2, <3>1, <3>2, <3>4, <3>5 DEF JobsInv, StatesOK, waitVars
  <2>7. OwnerOK'
    BY <1>f, <1>0, <1>1, <2>2, JobFacts, TaskFacts DEF JobsInv, OwnerOK, waitVars
  <2>8. TasksOK'
    <3>1. \A u \in Tasks : operation[u] # None => operation[u] \in Registrations
        BY <1>f, JobFacts, TaskFacts
    <3> QED BY <1>0, <1>1, <2>2, <2>3, <3>1 DEF JobsInv, TasksOK, waitVars
  <2>9. OpenOK' /\ FilesOK'
    <3>1. OpenOK'
        BY <1>0, <2>2 DEF JobsInv, OpenOK, fileVars
    <3>2. FilesOK'
        BY <1>0, <1>1, <2>2, <2>3 DEF JobsInv, FilesOK
    <3> QED BY <3>1, <3>2
  <2>10. WakesOK'
    BY <1>0, <2>1 DEF JobsInv, WakesOK, Parked, JobPending, waitVars
  <2>11. SleepersOK'
    <3>1. Looping' = Looping
        BY <2>1, <1>r DEF Looping
    <3> QED BY <1>0, <2>1, <3>1 DEF JobsInv, SleepersOK
  <2> QED BY <2>4, <2>5, <2>6, <2>7, <2>8, <2>9, <2>10, <2>11 DEF JobsInv
<1>2. CASE /\ job[r].state = "taken" /\ job' = job
           /\ worker' = [worker EXCEPT ![w] = [pc |-> "loop", job |-> None]]
  <2>1. /\ worker' \in [Workers -> Threads] /\ worker'[w].pc = "loop" /\ worker'[w].job = None
        /\ \A v \in Workers : v # w => worker'[v] = worker[v]
    BY <1>t, <1>2, <1>f, JobFacts DEF Threads, ThreadStates
  <2>2. JobsType'
    BY <1>f, <1>0, <1>2, <2>1 DEF JobsType, WaitsType, PoolType, FilesType, waitVars, fileVars
  <2>3. PlacesOK'
    BY <1>0, <2>1, <1>f, PlaceFacts, JobFacts DEF JobsInv, PlacesOK
  <2>4. StatesOK'
    BY <1>0, <1>2, <2>1 DEF JobsInv, StatesOK, waitVars
  <2>5. OwnerOK' /\ TasksOK' /\ OpenOK' /\ FilesOK'
    BY <1>0, <1>2 DEF JobsInv, OwnerOK, TasksOK, OpenOK, FilesOK, Outstanding, waitVars, fileVars
  <2>6. WakesOK'
    <3>1. \A t \in Tasks : Parked(t) => wait[t].reg # r
        BY <1>2 DEF JobsInv, TasksOK, Outstanding, Parked
    <3>2. \A c : c # r /\ JobPending(c) => JobPending(c)'
        BY <1>0, <1>r, <2>1 DEF JobPending
    <3> QED BY <1>0, <3>1, <3>2 DEF JobsInv, WakesOK, Parked, waitVars
  <2>7. SleepersOK'
    <3>1. Looping \subseteq Looping'
        BY <2>1 DEF Looping
    <3>2. Len(fifo) \in Nat /\ fifo' = fifo /\ closed' = closed
        BY <1>0, <1>f, PlaceFacts
    <3> QED BY <3>1, <3>2, MoreLoops, <2>1 DEF JobsInv, SleepersOK
  <2> QED BY <2>2, <2>3, <2>4, <2>5, <2>6, <2>7 DEF JobsInv
<1> QED BY <1>0, <1>1, <1>2, <1>r DEF Start, Starts

\* A thread tells the owner of the job it completed.
LEMMA OneNotice == ASSUME NEW r, NEW e
                   PROVE  /\ Notices({r}, e) = {<<[reg |-> r, error |-> e]>>}
                          /\ Notices({}, e) = {<<>>}
<1>1. Notices({}, e) = {<<>>}
  <2>1. Cardinality({}) = 0 /\ 1..0 = {}
    BY FS_EmptySet
  <2>2. \A f \in [1..0 -> {}] : [i \in 1..0 |-> [reg |-> f[i], error |-> e]] = <<>>
    BY <2>1
  <2>3. [i \in {} |-> 0] \in {f \in [1..0 -> {}] : \A i, j \in 1..0 : i # j => f[i] # f[j]}
    BY <2>1
  <2>4. Notices({}, e) = {[i \in 1..0 |-> [reg |-> f[i], error |-> e]] :
                             f \in {f \in [1..0 -> {}] : \A i, j \in 1..0 : i # j => f[i] # f[j]}}
    BY <2>1 DEF Notices
  <2>5. \A x \in Notices({}, e) : x = <<>>
    BY <2>2, <2>4
  <2>6. <<>> \in Notices({}, e)
    <3>1. PICK f \in [1..0 -> {}] : \A i, j \in 1..0 : i # j => f[i] # f[j]
      BY <2>3
    <3>2. [i \in 1..0 |-> [reg |-> f[i], error |-> e]] \in Notices({}, e)
      BY <2>4, <3>1
    <3>3. [i \in 1..0 |-> [reg |-> f[i], error |-> e]] = <<>>
      BY <2>2, <3>1
    <3> QED BY <3>2, <3>3
  <2> QED BY <2>5, <2>6
<1>2. Notices({r}, e) = {<<[reg |-> r, error |-> e]>>}
  <2>1. Cardinality({r}) = 1 /\ 1..1 = {1}
    BY FS_Singleton
  <2>2. {f \in [1..1 -> {r}] : \A i, j \in 1..1 : i # j => f[i] # f[j]} = {[i \in {1} |-> r]}
    BY <2>1
  <2>3. [i \in 1..1 |-> [reg |-> r, error |-> e]] = <<[reg |-> r, error |-> e]>>
    BY <2>1
  <2>4. Notices({r}, e) = {[i \in 1..1 |-> [reg |-> s[i], error |-> e]] : s \in {[i \in {1} |-> r]}}
    BY <2>1, <2>2 DEF Notices
  <2> QED BY <2>1, <2>3, <2>4
<1> QED BY <1>1, <1>2

LEMMA NotifyStep == ASSUME NEW w \in Workers, JobsInv, NotifyCompletion(w) PROVE JobsInv'
<1> USE DEF None
<1>f. JobsType
    BY DEF JobsInv
<1>t. worker \in [Workers -> Threads] /\ queue \in Seq(Notes)
    BY <1>f DEF JobsType, PoolType, WaitsType
<1>r. PICK r \in Registrations : r = worker[w].job /\ worker[w].pc = "notify"
  <2>1. worker[w].pc = "notify" /\ worker[w].job # None
    BY DEF NotifyCompletion, JobsInv, StatesOK
  <2> QED BY <2>1, <1>f, JobFacts, PlaceFacts
<1>0. /\ UNCHANGED <<issued, wait, done, pool, job, fifo, closed, fileVars, operation, owner, fatal>>
      /\ job[r].state \in {"complete", "taken"}
      /\ worker' = [worker EXCEPT ![w] = [pc |-> "loop", job |-> None]]
      /\ FireAll({r}, FALSE)
    BY <1>r DEF NotifyCompletion, JobsInv, StatesOK
<1>1. /\ worker' \in [Workers -> Threads] /\ worker'[w].pc = "loop" /\ worker'[w].job = None
      /\ \A v \in Workers : v # w => worker'[v] = worker[v]
    BY <1>t, <1>0, <1>f, JobFacts DEF Threads, ThreadStates
<1>n. [reg |-> r, error |-> FALSE] \in Notes
    BY DEF Notes
<1>q. /\ r \in live => queue' = queue \o <<[reg |-> r, error |-> FALSE]>>
      /\ r \notin live => queue' = queue \o <<>>
  <2>0. Notices({r}, FALSE) = {<<[reg |-> r, error |-> FALSE]>>} /\ Notices({}, FALSE) = {<<>>}
    BY OneNotice
  <2>1. PICK s \in Notices({r} \cap live, FALSE) : queue' = queue \o s
    BY <1>0 DEF FireAll
  <2>2. CASE r \in live
    <3>1. {r} \cap live = {r}
        BY <2>2
    <3>2. s \in Notices({r}, FALSE)
        BY <2>1, <3>1
    <3>3. s = <<[reg |-> r, error |-> FALSE]>>
        BY <2>0, <3>2
    <3> QED BY <3>3, <2>1, <2>2
  <2>3. CASE r \notin live
    <3>1. {r} \cap live = {}
        BY <2>3
    <3>2. s = <<>>
        BY <2>0, <2>1, <3>1
    <3> QED BY <3>2, <2>1, <2>3
  <2> QED BY <2>2, <2>3
<1>l. live' = live \ {r}
    BY <1>0 DEF FireAll
<1>d. /\ queue' \in Seq(Notes) /\ DOMAIN queue \subseteq DOMAIN queue'
      /\ \A i \in DOMAIN queue : queue'[i] = queue[i]
      /\ \A i \in DOMAIN queue' : i \in DOMAIN queue \/ queue'[i].reg = r
      /\ r \in live => \E i \in DOMAIN queue' : queue'[i].reg = r
  <2>1. CASE r \in live
    <3> DEFINE n == [reg |-> r, error |-> FALSE]
    <3>1. n \in Notes /\ n.reg = r
        BY <1>n
    <3>2. queue' = queue \o <<n>>
        BY <2>1, <1>q
    <3> HIDE DEF n
    <3>3. queue \o <<n>> = Append(queue, n)
        BY <3>1, <1>t
    <3>4. /\ queue' \in Seq(Notes) /\ DOMAIN queue = 1..Len(queue) /\ Len(queue) \in Nat
          /\ DOMAIN queue' = 1..(Len(queue) + 1)
          /\ \A i \in 1..Len(queue) : queue'[i] = queue[i]
          /\ queue'[Len(queue) + 1] = n
        BY <3>1, <3>2, <3>3, <1>t
    <3> QED BY <3>1, <3>4
  <2>2. CASE r \notin live
    <3>1. queue' = queue
        BY <2>2, <1>q, <1>t
    <3> QED BY <3>1, <2>2, <1>t
  <2> QED BY <2>1, <2>2
<1>2. JobsType'
    BY <1>f, <1>0, <1>1, <1>l, <1>d DEF JobsType, WaitsType, PoolType, FilesType, fileVars
<1>3. PlacesOK'
    BY <1>0, <1>1, <1>f, PlaceFacts, JobFacts DEF JobsInv, PlacesOK
<1>4. StatesOK'
  <2>1. \A v \in Workers :
             /\ worker'[v].pc \in {"loop", "sleep", "exited"} <=> worker'[v].job = None
             /\ worker'[v].pc = "fetched" => job'[worker'[v].job].state \in {"queued", "taken"}
             /\ worker'[v].pc = "running" => job'[worker'[v].job].state = "running"
             /\ worker'[v].pc = "notify" => job'[worker'[v].job].state \in {"complete", "taken"}
    BY <1>0, <1>1 DEF JobsInv, StatesOK
  <2>2. \A i \in DOMAIN queue' : job[queue'[i].reg].state \in {"complete", "taken"}
    BY <1>0, <1>d DEF JobsInv, StatesOK
  <2> QED BY <1>0, <2>1, <2>2 DEF JobsInv, StatesOK
<1>5. OwnerOK' /\ TasksOK' /\ OpenOK' /\ FilesOK'
    BY <1>0 DEF JobsInv, OwnerOK, TasksOK, OpenOK, FilesOK, Outstanding, fileVars
<1>6. WakesOK'
  <2> SUFFICES ASSUME NEW t \in Tasks, Parked(t)'
               PROVE  (\/ \E i \in DOMAIN queue : queue[i].reg = wait[t].reg
                       \/ wait[t].reg \in live /\ JobPending(wait[t].reg))'
    BY DEF WakesOK
  <2> PICK c : c = wait[t].reg
    OBVIOUS
  <2>0. Parked(t) /\ wait'[t].reg = c
    BY <1>0 DEF Parked
  <2>1. c # r /\ JobPending(c) => JobPending(c)'
    BY <1>0, <1>1, <1>r DEF JobPending
  <2>2. CASE \E i \in DOMAIN queue : queue[i].reg = c
    BY <2>0, <2>2, <1>d
  <2>3. CASE c \in live /\ JobPending(c) /\ c # r
    BY <2>0, <2>1, <2>3, <1>l
  <2>4. CASE c \in live /\ c = r
    BY <2>0, <2>4, <1>d
  <2> QED BY <2>0, <2>2, <2>3, <2>4 DEF JobsInv, WakesOK
<1>7. SleepersOK'
  <2>1. Looping \subseteq Looping'
    BY <1>1 DEF Looping
  <2>2. Len(fifo) \in Nat /\ fifo' = fifo /\ closed' = closed
    BY <1>0, <1>f, PlaceFacts
  <2> QED BY <2>1, <2>2, MoreLoops, <1>1 DEF JobsInv, SleepersOK
<1> QED BY <1>2, <1>3, <1>4, <1>5, <1>6, <1>7 DEF JobsInv

\* A job is taken: nobody waits for it any more and it owns nothing.
LEMMA TakenFacts == ASSUME JobsType, NEW r \in Registrations, job' = Taken(r)
                    PROVE  /\ job' \in [Registrations -> JobRecords]
                           /\ job'[r].state = "taken" /\ job'[r].fd = None
                           /\ job'[r].stop = job[r].stop /\ job'[r].kind = job[r].kind
                           /\ \A s \in Registrations : s # r => job'[s] = job[s]
<1>1. job \in [Registrations -> JobRecords] /\ None \in 0..MaxDescriptors
    BY JobsAssumption DEF JobsType, PoolType, None
<1>2. job' = [job EXCEPT ![r].state = "taken", ![r].fd = None]
    BY DEF Taken
<1>3. job' = [job EXCEPT ![r] = [job[r] EXCEPT !.state = "taken", !.fd = None]]
    BY <1>1, <1>2 DEF JobRecords
<1>4. /\ [job[r] EXCEPT !.state = "taken", !.fd = None] \in JobRecords
    BY <1>1 DEF JobRecords, JobStates
<1> QED BY <1>1, <1>3, <1>4 DEF JobRecords

\* What a taken job leaves of the agreement between jobs and places.
LEMMA TakenStates == ASSUME JobsType, StatesOK, NEW r \in Registrations, job' = Taken(r),
                            job[r].state # "running", job[r].state # "none",
                            UNCHANGED <<issued, fifo, worker, queue>>
                     PROVE  StatesOK'
<1> USE DEF None
<1>1. /\ job'[r].state = "taken"
      /\ \A s \in Registrations : s # r => job'[s] = job[s]
    BY TakenFacts
<1>2. \A s \in Registrations : job'[s].state = "none" <=> s > Len(issued)
    BY <1>1 DEF StatesOK
<1>3. \A i \in DOMAIN fifo : job'[fifo[i]].state \in {"queued", "taken"}
    BY <1>1, PlaceFacts DEF StatesOK
<1>4. \A v \in Workers :
             /\ worker[v].pc \in {"loop", "sleep", "exited"} <=> worker[v].job = None
             /\ worker[v].pc = "fetched" => job'[worker[v].job].state \in {"queued", "taken"}
             /\ worker[v].pc = "running" => job'[worker[v].job].state = "running"
             /\ worker[v].pc = "notify" => job'[worker[v].job].state \in {"complete", "taken"}
  <2>1. \A v \in Workers : worker[v].job # None => worker[v].job \in Registrations
    BY PlaceFacts, JobFacts
  <2> QED BY <2>1, <1>1 DEF StatesOK
<1>5. \A i \in DOMAIN queue : job'[queue[i].reg].state \in {"complete", "taken"}
    BY <1>1, PlaceFacts DEF StatesOK
<1> QED BY <1>2, <1>3, <1>4, <1>5 DEF StatesOK

\* The owner takes back the job of a cancelled task, and what it holds is closed.
LEMMA DrainStep == JobsInv /\ Drain => JobsInv'
<1> SUFFICES ASSUME JobsInv, Drain PROVE JobsInv'
    OBVIOUS
<1> USE DEF None
<1>f. JobsType
    BY DEF JobsInv
<1>r. PICK r \in Registrations, t \in Tasks :
         /\ r = owner.job /\ t = owner.task /\ owner.pc = "drain" /\ operation[t] = None
         /\ job[r].state # "none" /\ \A u \in Tasks : operation[u] # r
  <2>1. owner.pc = "drain"
    BY DEF Drain
  <2> QED BY <2>1, <1>f, JobFacts, TaskFacts DEF JobsInv, OwnerOK
<1>0. /\ UNCHANGED <<issued, live, queue, wait, pool, fifo, closed, worker, handles, tokens,
                        opened, operation, fatal>>
      /\ job[r].state # "running" /\ job' = Taken(r) /\ open' = open \ {job[r].fd}
      /\ done' = done \cup {t} /\ owner' = Resting
    BY <1>r DEF Drain, Drainable, DropFile
<1>j. /\ job' \in [Registrations -> JobRecords]
      /\ job'[r].state = "taken" /\ job'[r].fd = None
      /\ \A s \in Registrations : s # r => job'[s] = job[s]
    BY <1>f, <1>0, TakenFacts
<1>o. owner' \in Owners /\ owner'.pc = "free" /\ owner'.job = None /\ owner'.asleep = FALSE
    BY <1>0, <1>f, JobFacts DEF Resting, Owners, OwnerStates
<1>1. JobsType'
    BY <1>f, <1>0, <1>j, <1>o DEF JobsType, WaitsType, PoolType, FilesType
<1>2. StatesOK' /\ PlacesOK'
  <2>1. StatesOK'
    BY <1>f, <1>0, <1>r, TakenStates DEF JobsInv
  <2> QED BY <2>1, <1>0 DEF JobsInv, PlacesOK
<1>3. OwnerOK'
    BY <1>o DEF OwnerOK
<1>4. TasksOK'
  <2>1. \A u \in Tasks : operation[u] # None => operation[u] \in Registrations /\ operation[u] # r
    BY <1>f, <1>r, JobFacts, TaskFacts
  <2>2. \A s \in Registrations : /\ s # r => (Outstanding(s)' <=> Outstanding(s))
                                 /\ ~Outstanding(r)'
    BY <1>j DEF Outstanding
  <2>3. \A u \in Tasks : ~(operation[u] # None /\ job[operation[u]].stop)
    BY <1>r DEF JobsInv, TasksOK
  <2> QED BY <1>0, <1>r, <1>j, <2>1, <2>2, <2>3 DEF JobsInv, TasksOK
<1>5. OpenOK'
  <2>1. \A d \in open' : (\E s \in Registrations : job'[s].fd = d) \/ (\E k \in DOMAIN handles : handles[k] = d)
    BY <1>0, <1>j DEF JobsInv, OpenOK
  <2>2. \A s \in Registrations : job'[s].fd # None => job'[s].fd \in open'
    BY <1>0, <1>j DEF JobsInv, OpenOK
  <2>3. \A k \in DOMAIN handles : handles[k] \in open'
    BY <1>0 DEF JobsInv, OpenOK
  <2>4. \A s, v \in Registrations : job'[s].fd = job'[v].fd /\ job'[s].fd # None => s = v
    BY <1>j DEF JobsInv, OpenOK
  <2>5. \A s \in Registrations, k \in DOMAIN handles : job'[s].fd # handles[k]
    BY <1>j, <1>f DEF JobsInv, OpenOK, JobsType, FilesType
  <2> QED BY <1>0, <2>1, <2>2, <2>3, <2>4, <2>5 DEF JobsInv, OpenOK
<1>6. FilesOK'
  <2>2. \A s \in Registrations : s # r => (Outstanding(s)' <=> Outstanding(s))
    BY <1>j DEF Outstanding
  <2> QED BY <1>0, <1>j, <2>2 DEF JobsInv, FilesOK
<1>7. WakesOK' /\ SleepersOK'
    BY <1>0 DEF JobsInv, WakesOK, SleepersOK, Looping, Parked, JobPending
<1> QED BY <1>1, <1>2, <1>3, <1>4, <1>5, <1>6, <1>7 DEF JobsInv

\* A task's wait ends, and its registration with it.
LEMMA CancelOne == ASSUME NEW t \in Tasks, wait \in [Tasks -> WaitRecords], CancelWaits({t})
                   PROVE  /\ wait' \in [Tasks -> WaitRecords] /\ live' \subseteq live
                          /\ wait'[t].reg = None /\ wait'[t].ready = FALSE /\ wait'[t] = NoWait
                          /\ \A u \in Tasks : u # t => wait'[u] = wait[u]
                          /\ \A c \in live : c # wait[t].reg => c \in live'
<1>1. NoWait \in WaitRecords /\ NoWait.reg = None /\ NoWait.ready = FALSE
    BY DEF NoWait, WaitRecords, None
<1> QED BY <1>1 DEF CancelWaits

\* A task is cancelled: the owner takes its job over.
LEMMA CancelStep == ASSUME NEW t \in Tasks, JobsInv, Cancel(t) PROVE JobsInv'
<1> USE DEF None
<1>f. JobsType
    BY DEF JobsInv
<1>g. PICK r \in Registrations : r = operation[t] /\ Outstanding(r) /\ t \notin done
    BY <1>f, JobFacts, TaskFacts DEF Cancel, JobsInv, TasksOK
<1>0. /\ UNCHANGED <<issued, queue, done, pool, fifo, closed, worker, fileVars, fatal>>
      /\ owner.pc = "free" /\ owner.job = None
      /\ owner' = [pc |-> "drain", task |-> t, job |-> r, asleep |-> FALSE]
      /\ job' = IF pool = "cpu" THEN [job EXCEPT ![r].stop = TRUE] ELSE job
      /\ operation' = [operation EXCEPT ![t] = None]
      /\ CancelWaits({t})
    BY <1>g DEF Cancel, Free, JobsInv, OwnerOK
<1>j. /\ job' \in [Registrations -> JobRecords]
      /\ \A s \in Registrations : /\ job'[s].state = job[s].state /\ job'[s].fd = job[s].fd
                                  /\ job'[s].kind = job[s].kind /\ (job[s].stop => job'[s].stop)
                                  /\ s # r => job'[s] = job[s]
    BY <1>f, <1>0 DEF JobsType, PoolType, JobRecords
<1>p. /\ operation' \in [Tasks -> 0..MaxWaits] /\ operation'[t] = None
      /\ \A u \in Tasks : u # t => operation'[u] = operation[u]
    BY <1>f, <1>0, JobFacts DEF JobsType, PoolType
<1>w. /\ wait' \in [Tasks -> WaitRecords] /\ live' \subseteq live
      /\ wait'[t].reg = None /\ wait'[t].ready = FALSE
      /\ \A u \in Tasks : u # t => wait'[u] = wait[u]
      /\ \A c \in live : c # r => c \in live'
  <2>1. wait \in [Tasks -> WaitRecords] /\ wait[t].reg = r
    BY <1>f, <1>g DEF JobsType, WaitsType, JobsInv, TasksOK
  <2> QED BY <2>1, <1>0, CancelOne
<1>u. \A u \in Tasks : u # t => operation[u] # r
    BY <1>g, <1>f, JobFacts DEF JobsInv, TasksOK
<1>s. \A s \in Registrations : Outstanding(s)' <=> Outstanding(s)
    BY <1>j DEF Outstanding
<1>1. JobsType'
    BY <1>f, <1>0, <1>j, <1>p, <1>w, JobFacts
       DEF JobsType, WaitsType, PoolType, FilesType, Owners, OwnerStates, fileVars
<1>2. PlacesOK'
    BY <1>0 DEF JobsInv, PlacesOK
<1>3. StatesOK'
    BY <1>0, <1>j, <1>f, JobFacts, PlaceFacts DEF JobsInv, StatesOK, ThreadStates
<1>4. OwnerOK'
  <2>1. job'[r].state # "none"
    BY <1>g, <1>j DEF Outstanding
  <2>2. \A u \in Tasks : operation'[u] # r
    BY <1>p, <1>u, <1>f, JobFacts
  <2> QED BY <1>g, <1>0, <1>p, <2>1, <2>2, <1>f, JobFacts DEF OwnerOK
<1>5. TasksOK'
  <2>1. \A u \in Tasks : /\ wait'[u].reg = operation'[u]
                         /\ operation'[u] # None => u # t /\ operation'[u] = operation[u] /\ operation[u] \in Registrations
    BY <1>p, <1>w, <1>f, JobFacts, TaskFacts DEF JobsInv, TasksOK
  <2>2. \A u \in Tasks : operation'[u] # None =>
           /\ u \notin done' /\ job'[operation'[u]].state \in {"queued", "running", "complete"}
           /\ ~job'[operation'[u]].stop
    BY <2>1, <1>0, <1>j, <1>u DEF JobsInv, TasksOK, Outstanding
  <2>4. \A u \in Tasks : wait'[u].ready => operation'[u] # None /\ job'[operation'[u]].state = "complete"
    BY <1>w, <1>p, <2>1, <1>j DEF JobsInv, TasksOK
  <2>5. \A u, v \in Tasks : operation'[u] = operation'[v] /\ operation'[u] # None => u = v
    BY <2>1 DEF JobsInv, TasksOK
  <2>6. ASSUME NEW s \in Registrations, job'[s].state \in {"queued", "running", "complete"}
        PROVE  owner'.job = s \/ \E u \in Tasks : operation'[u] = s
    <3>1. Outstanding(s)
        BY <2>6, <1>j DEF Outstanding
    <3>2. PICK u \in Tasks : operation[u] = s
        BY <3>1, <1>0, <1>f, JobFacts DEF JobsInv, TasksOK
    <3> QED BY <3>2, <1>p, <1>g, <1>0
  <2> QED BY <1>0, <2>1, <2>2, <2>4, <2>5, <2>6 DEF JobsInv, TasksOK, Outstanding
<1>6. OpenOK' /\ FilesOK'
  <2>2. OpenOK'
    BY <1>0, <1>j DEF JobsInv, OpenOK, fileVars
  <2>3. FilesOK'
    BY <1>0, <1>j, <1>f, JobFacts, <1>s DEF JobsInv, FilesOK
  <2> QED BY <2>2, <2>3
<1>7. WakesOK' /\ SleepersOK'
  <2>1. SleepersOK'
    BY <1>0 DEF JobsInv, SleepersOK, Looping
  <2>2. \A u \in Tasks : Parked(u)' => u # t /\ Parked(u) /\ wait'[u] = wait[u] /\ wait[u].reg # r
    BY <1>w, <1>u DEF Parked, JobsInv, TasksOK
  <2>3. WakesOK'
    BY <1>0, <1>w, <2>2 DEF JobsInv, WakesOK, JobPending
  <2> QED BY <2>1, <2>3
<1> QED BY <1>1, <1>2, <1>3, <1>4, <1>5, <1>6, <1>7 DEF JobsInv

\* The owner has its answer from a CPU job.
LEMMA AnswerStep == JobsInv /\ Answer => JobsInv'
<1> SUFFICES ASSUME JobsInv, Answer PROVE JobsInv'
    OBVIOUS
<1> USE DEF None
<1>f. JobsType
    BY DEF JobsInv
<1>r. PICK r \in Registrations, t \in Tasks :
         /\ r = owner.job /\ t = owner.task /\ owner.pc = "ask" /\ operation[t] = r
         /\ job[r].state # "none" /\ pool = "cpu"
  <2>1. owner.pc = "ask"
    BY DEF Answer
  <2> QED BY <2>1, <1>f, JobFacts, TaskFacts DEF JobsInv, OwnerOK
<1>0. /\ UNCHANGED <<issued, queue, pool, fifo, closed, worker, fileVars, fatal>>
      /\ job[r].state # "running" /\ job' = Taken(r)
      /\ operation' = [operation EXCEPT ![t] = None]
      /\ done' = done \cup {t} /\ owner' = Resting /\ CancelWaits({t})
    BY <1>r DEF Answer, Drainable
<1>j. /\ job' \in [Registrations -> JobRecords]
      /\ job'[r].state = "taken" /\ job'[r].fd = None
      /\ \A s \in Registrations : s # r => job'[s] = job[s]
    BY <1>f, <1>0, TakenFacts
<1>o. owner' \in Owners /\ owner'.pc = "free" /\ owner'.job = None /\ owner'.asleep = FALSE
    BY <1>0, <1>f, JobFacts DEF Resting, Owners, OwnerStates
<1>p. /\ operation' \in [Tasks -> 0..MaxWaits] /\ operation'[t] = None
      /\ \A u \in Tasks : u # t => operation'[u] = operation[u]
    BY <1>f, <1>0, JobFacts DEF JobsType, PoolType
<1>w. /\ wait' \in [Tasks -> WaitRecords] /\ live' \subseteq live
      /\ wait'[t].reg = None /\ wait'[t].ready = FALSE
      /\ \A u \in Tasks : u # t => wait'[u] = wait[u]
      /\ \A c \in live : c # r => c \in live'
  <2>1. wait \in [Tasks -> WaitRecords] /\ wait[t].reg = r
    BY <1>f, <1>r DEF JobsType, WaitsType, JobsInv, TasksOK
  <2> QED BY <2>1, <1>0, CancelOne
<1>u. \A u \in Tasks : u # t => operation[u] # r
    BY <1>r, <1>f, JobFacts DEF JobsInv, TasksOK
<1>1. JobsType'
    BY <1>f, <1>0, <1>j, <1>o, <1>p, <1>w DEF JobsType, WaitsType, PoolType, FilesType, fileVars
<1>2. StatesOK' /\ PlacesOK'
  <2>1. StatesOK'
    BY <1>f, <1>0, <1>r, TakenStates DEF JobsInv
  <2> QED BY <2>1, <1>0 DEF JobsInv, PlacesOK
<1>3. OwnerOK'
    BY <1>o DEF OwnerOK
<1>4. TasksOK'
  <2>1. \A u \in Tasks : /\ wait'[u].reg = operation'[u]
                         /\ operation'[u] # None => /\ u # t /\ operation'[u] = operation[u]
                                                    /\ operation[u] \in Registrations /\ operation[u] # r
    BY <1>p, <1>w, <1>u, <1>f, JobFacts, TaskFacts DEF JobsInv, TasksOK
  <2>2. \A u \in Tasks : operation'[u] # None =>
           /\ u \notin done' /\ job'[operation'[u]].state \in {"queued", "running", "complete"}
           /\ ~job'[operation'[u]].stop
    BY <2>1, <1>0, <1>j, <1>r DEF JobsInv, TasksOK, Outstanding
  <2>4. \A u \in Tasks : wait'[u].ready => operation'[u] # None /\ job'[operation'[u]].state = "complete"
    BY <1>w, <1>p, <2>1, <1>j DEF JobsInv, TasksOK
  <2>5. \A u, v \in Tasks : operation'[u] = operation'[v] /\ operation'[u] # None => u = v
    BY <2>1 DEF JobsInv, TasksOK
  <2>6. ASSUME NEW s \in Registrations, job'[s].state \in {"queued", "running", "complete"}
        PROVE  \E u \in Tasks : operation'[u] = s
    <3>1. s # r /\ Outstanding(s)
        BY <2>6, <1>j DEF Outstanding
    <3>2. PICK u \in Tasks : operation[u] = s
        BY <3>1, <1>r DEF JobsInv, TasksOK
    <3> QED BY <3>1, <3>2, <1>p, <1>r
  <2> QED BY <1>0, <2>1, <2>2, <2>4, <2>5, <2>6 DEF JobsInv, TasksOK, Outstanding
<1>5. OpenOK'
  <2>1. \A s \in Registrations : job'[s].fd = job[s].fd
    BY <1>r, <1>j DEF JobsInv, FilesOK
  <2> QED BY <2>1, <1>0 DEF JobsInv, OpenOK, fileVars
<1>6. FilesOK'
    BY <1>0, <1>j DEF JobsInv, FilesOK, Outstanding
<1>7. WakesOK' /\ SleepersOK'
  <2>1. SleepersOK'
    BY <1>0 DEF JobsInv, SleepersOK, Looping
  <2>2. \A u \in Tasks : Parked(u)' => u # t /\ Parked(u) /\ wait'[u] = wait[u] /\ wait[u].reg # r
    BY <1>w, <1>u DEF Parked, JobsInv, TasksOK
  <2>3. WakesOK'
    BY <1>0, <1>w, <2>2 DEF JobsInv, WakesOK, JobPending
  <2> QED BY <2>1, <2>3
<1> QED BY <1>1, <1>2, <1>3, <1>4, <1>5, <1>6, <1>7 DEF JobsInv

\* An operation ends and its outcome is published.
LEMMA FinishStep == ASSUME NEW w \in Workers, JobsInv, Finish(w) PROVE JobsInv'
<1> USE DEF None
<1>f. JobsType
    BY DEF JobsInv
<1>t. worker \in [Workers -> Threads] /\ job \in [Registrations -> JobRecords] /\ owner \in Owners
    BY <1>f DEF JobsType, PoolType
<1>r. PICK r \in Registrations : r = worker[w].job /\ worker[w].pc = "running" /\ job[r].state = "running"
  <2>1. worker[w].pc = "running" /\ worker[w].job # None /\ job[worker[w].job].state = "running"
    BY DEF Finish, JobsInv, StatesOK
  <2> QED BY <2>1, <1>f, JobFacts, PlaceFacts
<1>0. /\ UNCHANGED <<waitVars, pool, fifo, closed, handles, tokens, operation, fatal>>
      /\ worker' = [worker EXCEPT ![w].pc = "notify"]
      /\ owner' = IF owner.job = r THEN [owner EXCEPT !.asleep = FALSE] ELSE owner
    BY <1>r DEF Finish
<1>k. PICK kind \in {"file", "bytes", "ok", "fault", "stopped"}, fd \in 0..MaxDescriptors :
         /\ Outcome(r, kind, fd)
         /\ job' = [job EXCEPT ![r] = [job[r] EXCEPT !.state = "complete", !.kind = kind, !.fd = fd]]
    BY <1>r DEF Finish
<1>1. /\ worker' \in [Workers -> Threads] /\ worker'[w].pc = "notify"
      /\ \A v \in Workers : worker'[v].job = worker[v].job /\ (v # w => worker'[v] = worker[v])
    BY <1>t, <1>0 DEF Threads, ThreadStates
<1>2. /\ job' \in [Registrations -> JobRecords]
      /\ job'[r].state = "complete" /\ job'[r].kind = kind /\ job'[r].fd = fd /\ job'[r].stop = job[r].stop
      /\ \A s \in Registrations : s # r => job'[s] = job[s]
  <2>1. [job[r] EXCEPT !.state = "complete", !.kind = kind, !.fd = fd] \in JobRecords
    BY <1>t DEF JobRecords, JobStates, JobKinds
  <2> QED BY <2>1, <1>t, <1>k DEF JobRecords
<1>s. \A s \in Registrations : Outstanding(s)' <=> Outstanding(s)
    BY <1>2, <1>r DEF Outstanding
<1>o. /\ owner' \in Owners /\ owner'.pc = owner.pc /\ owner'.job = owner.job /\ owner'.task = owner.task
      /\ owner'.asleep => owner.asleep /\ owner.job # r
    BY <1>0, <1>t DEF Owners
<1>c. \* The descriptors, whichever way the operation ended.
      /\ opened' \in Nat /\ opened <= opened' /\ opened' <= MaxDescriptors /\ open' \subseteq 1..opened'
      /\ \/ /\ fd # None /\ fd \notin open /\ job[r].fd = None /\ open' = open \cup {fd}
            /\ kind = "file" /\ pool = "io"
         \/ fd = None /\ kind # "file" /\ open' = open \ {job[r].fd} /\ (kind = "stopped" => job[r].stop)
  <2>1. opened \in Nat /\ opened <= MaxDescriptors /\ open \subseteq 1..opened /\ MaxDescriptors \in Nat
    BY <1>f, JobsAssumption DEF JobsType, FilesType
  <2>2. /\ job[r].kind \in Kinds /\ (job[r].kind \in {"use", "close"} \/ job[r].fd = None)
        /\ pool = "cpu" => job[r].kind = "compute"
    BY <1>r DEF JobsInv, FilesOK
  <2>3. CASE /\ job[r].kind = "open" /\ opened < MaxDescriptors
             /\ kind = "file" /\ fd = opened + 1
             /\ opened' = opened + 1 /\ open' = open \cup {fd}
    <3>1. fd # None /\ fd \notin open /\ job[r].fd = None /\ pool = "io"
        BY <2>1, <2>2, <2>3, <1>f, TaskFacts
    <3>2. opened' \in Nat /\ opened <= opened' /\ opened' <= MaxDescriptors /\ open' \subseteq 1..opened'
      <4>1. opened' \in Nat /\ opened <= opened' /\ opened' <= MaxDescriptors /\ fd \in 1..opened'
        BY <2>1, <2>3
      <4>2. 1..opened \subseteq 1..opened'
        BY <2>1, <4>1
      <4> QED BY <2>1, <2>3, <4>1, <4>2
    <3> QED BY <3>1, <3>2, <2>3
  <2>4. CASE /\ job[r].kind \in {"open", "other", "use", "close"}
             /\ kind = "bytes" /\ fd = None
             /\ DropFile(job[r].fd) /\ UNCHANGED opened
    <3>1. open' = open \ {job[r].fd} /\ opened' = opened /\ kind # "file" /\ kind # "stopped"
        BY <2>4 DEF DropFile
    <3>2. open' \subseteq open /\ 1..opened' = 1..opened
        BY <3>1
    <3>3. open' \subseteq 1..opened'
        BY <2>1, <3>2
    <3>4. opened <= opened' /\ opened' \in Nat /\ opened' <= MaxDescriptors
        BY <2>1, <3>1
    <3> QED BY <3>1, <3>3, <3>4, <2>4
  <2>5. CASE /\ job[r].kind = "compute"
             /\ kind \in {"ok", "fault"} \cup (IF job[r].stop THEN {"stopped"} ELSE {})
             /\ fd = None
             /\ UNCHANGED <<opened, open>>
    <3>1. job[r].fd = None /\ open' = open \ {job[r].fd}
        BY <2>1, <2>2, <2>5
    <3> QED BY <3>1, <2>1, <2>5
  <2> QED BY <1>k, <2>3, <2>4, <2>5 DEF Outcome
<1>3. JobsType'
  <2>1. handles \in [DOMAIN handles -> 1..opened] /\ opened \in Nat
    BY <1>f DEF JobsType, FilesType
  <2>2. handles \in [DOMAIN handles -> 1..opened']
    BY <2>1, <1>c
  <2> QED BY <1>f, <1>0, <1>1, <1>2, <1>o, <1>c, <2>2 DEF JobsType, WaitsType, PoolType, FilesType, waitVars
<1>4. PlacesOK'
    BY <1>0, <1>1 DEF JobsInv, PlacesOK
<1>5. StatesOK'
    <2>1. \A i \in DOMAIN fifo : fifo[i] \in Registrations /\ fifo[i] # r
        BY <1>f, <1>r, PlaceFacts DEF JobsInv, PlacesOK
    <2>2. \A i \in DOMAIN queue : queue[i].reg \in Registrations /\ queue[i].reg # r
        BY <1>f, <1>r, PlaceFacts DEF JobsInv, StatesOK
    <2>3. \A v \in Workers : v # w => worker[v].job # r /\ (worker[v].job # None => worker[v].job \in Registrations)
        BY <1>f, <1>r, PlaceFacts, JobFacts DEF JobsInv, PlacesOK
    <2>4. \A s \in Registrations : job'[s].state = "none" <=> s > Len(issued')
        BY <1>0, <1>r, <1>2 DEF JobsInv, StatesOK, waitVars
    <2>5. \A v \in Workers :
             /\ worker'[v].pc \in {"loop", "sleep", "exited"} <=> worker'[v].job = None
             /\ worker'[v].pc = "fetched" => job'[worker'[v].job].state \in {"queued", "taken"}
             /\ worker'[v].pc = "running" => job'[worker'[v].job].state = "running"
             /\ worker'[v].pc = "notify" => job'[worker'[v].job].state \in {"complete", "taken"}
      <3> TAKE v \in Workers
      <3>1. CASE v = w
        BY <3>1, <1>r, <1>1, <1>2, <1>f, JobFacts
      <3>2. CASE v # w
        BY <3>2, <2>3, <1>1, <1>2 DEF JobsInv, StatesOK
      <3> QED BY <3>1, <3>2
    <2> QED BY <1>0, <1>2, <2>1, <2>2, <2>4, <2>5 DEF JobsInv, StatesOK, waitVars
<1>6. OwnerOK'
  <2>1. \A s \in Registrations : /\ job[s].state # "none" => job'[s].state # "none"
                                 /\ s # r => job'[s].state = job[s].state
    BY <1>2
  <2>2. owner.job # None => owner.job \in Registrations
    BY <1>f, JobFacts, TaskFacts
  <2>3. owner.asleep => owner.pc \in {"drain", "ask"}
    BY <1>t DEF JobsInv, OwnerOK, Owners, OwnerStates
  <2> QED BY <1>0, <1>o, <2>1, <2>2, <2>3 DEF JobsInv, OwnerOK, waitVars
<1>7. TasksOK'
  <2>1. \A u \in Tasks : operation[u] # None => operation[u] \in Registrations
    BY <1>f, JobFacts, TaskFacts
  <2>2. \A s \in Registrations : job'[s].stop = job[s].stop /\ (job[s].state = "complete" => job'[s].state = "complete")
    BY <1>2
  <2> QED BY <1>0, <1>o, <1>s, <2>1, <2>2 DEF JobsInv, TasksOK, waitVars
<1>8. OpenOK'
  <2>0. /\ \A s \in Registrations : s # r => job'[s].fd = job[s].fd
        /\ job'[r].fd = fd /\ handles' = handles /\ None \notin open
    BY <1>2, <1>0, <1>f DEF JobsType, FilesType
  <2>1. CASE fd # None /\ fd \notin open /\ job[r].fd = None /\ open' = open \cup {fd}
    <3>1. \A d \in open' : (\E s \in Registrations : job'[s].fd = d) \/ (\E k \in DOMAIN handles : handles[k] = d)
        BY <2>0, <2>1 DEF JobsInv, OpenOK
    <3>2. \A s \in Registrations : job'[s].fd # None => job'[s].fd \in open'
        BY <2>0, <2>1 DEF JobsInv, OpenOK
    <3>3. \A s, v \in Registrations : job'[s].fd = job'[v].fd /\ job'[s].fd # None => s = v
        BY <2>0, <2>1 DEF JobsInv, OpenOK
    <3>4. \A s \in Registrations, k \in DOMAIN handles : job'[s].fd # handles[k]
        BY <2>0, <2>1 DEF JobsInv, OpenOK
    <3> QED BY <2>0, <2>1, <3>1, <3>2, <3>3, <3>4 DEF JobsInv, OpenOK
  <2>2. CASE fd = None /\ open' = open \ {job[r].fd}
    <3>1. \A d \in open' : (\E s \in Registrations : job'[s].fd = d) \/ (\E k \in DOMAIN handles : handles[k] = d)
        BY <2>0, <2>2 DEF JobsInv, OpenOK
    <3>2. \A s \in Registrations : job'[s].fd # None => job'[s].fd \in open'
        BY <2>0, <2>2 DEF JobsInv, OpenOK
    <3>3. \A s, v \in Registrations : job'[s].fd = job'[v].fd /\ job'[s].fd # None => s = v
        BY <2>0, <2>2 DEF JobsInv, OpenOK
    <3>4. \A s \in Registrations, k \in DOMAIN handles : job'[s].fd # handles[k]
        BY <2>0, <2>2 DEF JobsInv, OpenOK
    <3>5. \A k \in DOMAIN handles : handles[k] \in open'
        BY <2>2 DEF JobsInv, OpenOK
    <3> QED BY <2>0, <3>1, <3>2, <3>3, <3>4, <3>5 DEF JobsInv, OpenOK
  <2> QED BY <1>c, <2>1, <2>2
<1>9. FilesOK'
  <2> SUFFICES ASSUME NEW s \in Registrations
               PROVE  /\ job'[s].fd # None => Outstanding(s)' /\ pool = "io"
                      /\ job'[s].state \in {"queued", "running"} =>
                            /\ job'[s].kind \in Kinds
                            /\ job'[s].kind \in {"use", "close"} \/ job'[s].fd = None
                            /\ pool = "cpu" => job'[s].kind = "compute"
                      /\ job'[s].state = "complete" =>
                            /\ job'[s].kind = "file" <=> job'[s].fd # None
                            /\ job'[s].kind = "stopped" => job'[s].stop
    BY <1>0 DEF FilesOK
  <2>1. CASE s # r
    BY <2>1, <1>2, <1>s DEF JobsInv, FilesOK
  <2>2. CASE s = r
    BY <2>2, <1>2, <1>s, <1>c, <1>r DEF Outstanding
  <2> QED BY <2>1, <2>2
<1>10. WakesOK'
    BY <1>0, <1>1 DEF JobsInv, WakesOK, Parked, JobPending, waitVars
<1>11. SleepersOK'
  <2>1. Looping' = Looping
    BY <1>1, <1>r DEF Looping
  <2> QED BY <1>0, <1>1, <2>1 DEF JobsInv, SleepersOK
<1> QED BY <1>3, <1>4, <1>5, <1>6, <1>7, <1>8, <1>9, <1>10, <1>11 DEF JobsInv

\* A resumed task takes its result: it is there, and a file gets a token of its own.
LEMMA ResultStep == ASSUME NEW t \in Tasks, JobsInv, Result(t) PROVE JobsInv'
<1> USE DEF None
<1>f. JobsType
    BY DEF JobsInv
<1>r. PICK r \in Registrations : /\ r = operation[t] /\ t \notin done /\ job[r].state = "complete"
                                 /\ job[r].kind # "stopped" /\ wait[t].reg = r
  <2>1. operation[t] # None /\ wait[t].ready /\ owner.pc = "free" /\ t \notin done
    BY DEF Result, Woken, Free
  <2>2. operation[t] \in Registrations /\ job[operation[t]].state = "complete" /\ ~job[operation[t]].stop
    BY <2>1, <1>f, JobFacts, TaskFacts DEF JobsInv, TasksOK
  <2>3. job[operation[t]].kind # "stopped"
    BY <2>2 DEF JobsInv, FilesOK
  <2> QED BY <2>1, <2>2, <2>3 DEF JobsInv, TasksOK
<1>0. /\ UNCHANGED <<issued, live, queue, pool, fifo, closed, worker, owner, opened, open, fatal>>
      /\ owner.pc = "free" /\ owner.job = None
      /\ wait' = [wait EXCEPT ![t] = NoWait] /\ operation' = [operation EXCEPT ![t] = None]
      /\ job' = Taken(r)
      /\ IF job[r].kind = "file" THEN Inserted(job[r].fd) ELSE UNCHANGED <<handles, tokens>>
      /\ done' = Raised(t, r)
    BY <1>r DEF Result, Consume, Free, JobsInv, OwnerOK
<1>j. /\ job' \in [Registrations -> JobRecords]
      /\ job'[r].state = "taken" /\ job'[r].fd = None
      /\ \A s \in Registrations : s # r => job'[s] = job[s]
    BY <1>f, <1>0, TakenFacts
<1>p. /\ operation' \in [Tasks -> 0..MaxWaits] /\ operation'[t] = None
      /\ \A u \in Tasks : u # t => operation'[u] = operation[u]
    BY <1>f, <1>0, JobFacts DEF JobsType, PoolType
<1>w. /\ wait' \in [Tasks -> WaitRecords]
      /\ wait'[t].reg = None /\ wait'[t].ready = FALSE
      /\ \A u \in Tasks : u # t => wait'[u] = wait[u]
    BY <1>f, <1>0 DEF JobsType, WaitsType, WaitRecords, NoWait
<1>u. \A u \in Tasks : u # t => operation[u] # r
    BY <1>r, <1>f, JobFacts DEF JobsInv, TasksOK
<1>d. done' \subseteq Tasks /\ \A u \in Tasks : u \in done' => u \in done \/ u = t
    BY <1>0, <1>f DEF Raised, JobsType, WaitsType
<1>h. /\ tokens' \in Nat /\ DOMAIN handles' \subseteq 1..tokens' /\ handles' \in [DOMAIN handles' -> 1..opened]
      /\ \/ /\ job[r].fd = None /\ handles' = handles
         \/ /\ job[r].fd # None /\ tokens + 1 \notin DOMAIN handles
            /\ DOMAIN handles' = DOMAIN handles \cup {tokens + 1} /\ handles'[tokens + 1] = job[r].fd
            /\ \A k \in DOMAIN handles : handles'[k] = handles[k]
  <2>1. /\ tokens \in Nat /\ DOMAIN handles \subseteq 1..tokens /\ handles \in [DOMAIN handles -> 1..opened]
        /\ opened \in Nat /\ open \subseteq 1..opened
    BY <1>f DEF JobsType, FilesType
  <2>2. CASE job[r].kind = "file"
    <3>1. job[r].fd # None /\ job[r].fd \in 1..opened
        BY <2>1, <2>2, <1>r DEF JobsInv, FilesOK, OpenOK
    <3>2. /\ handles' = [k \in DOMAIN handles \cup {tokens + 1} |->
                            IF k = tokens + 1 THEN job[r].fd ELSE handles[k]]
          /\ tokens' = tokens + 1
        BY <2>2, <1>0 DEF Inserted
    <3>3. tokens + 1 \notin DOMAIN handles /\ tokens' \in Nat /\ DOMAIN handles' \subseteq 1..tokens'
        BY <2>1, <3>2
    <3>4. handles' \in [DOMAIN handles' -> 1..opened]
        BY <2>1, <3>1, <3>2
    <3> QED BY <3>1, <3>2, <3>3, <3>4
  <2>3. CASE job[r].kind # "file"
    <3>1. job[r].fd = None
        BY <2>3, <1>r DEF JobsInv, FilesOK
    <3> QED BY <3>1, <2>1, <2>3, <1>0
  <2> QED BY <2>2, <2>3
<1>1. JobsType'
    BY <1>f, <1>0, <1>j, <1>p, <1>w, <1>d, <1>h DEF JobsType, WaitsType, PoolType, FilesType
<1>2. StatesOK' /\ PlacesOK'
  <2>1. StatesOK'
    BY <1>f, <1>0, <1>r, TakenStates DEF JobsInv
  <2> QED BY <2>1, <1>0 DEF JobsInv, PlacesOK
<1>3. OwnerOK'
    BY <1>0 DEF JobsInv, OwnerOK
<1>4. TasksOK'
  <2>1. \A u \in Tasks : /\ wait'[u].reg = operation'[u]
                         /\ operation'[u] # None => /\ u # t /\ operation'[u] = operation[u]
                                                    /\ operation[u] \in Registrations /\ operation[u] # r
    BY <1>p, <1>w, <1>u, <1>f, JobFacts, TaskFacts DEF JobsInv, TasksOK
  <2>2. \A u \in Tasks : operation'[u] # None =>
           /\ u \notin done' /\ job'[operation'[u]].state \in {"queued", "running", "complete"}
           /\ ~job'[operation'[u]].stop
    BY <2>1, <1>0, <1>d, <1>j DEF JobsInv, TasksOK, Outstanding
  <2>4. \A u \in Tasks : wait'[u].ready => operation'[u] # None /\ job'[operation'[u]].state = "complete"
    BY <1>w, <1>p, <2>1, <1>j DEF JobsInv, TasksOK
  <2>5. \A u, v \in Tasks : operation'[u] = operation'[v] /\ operation'[u] # None => u = v
    BY <2>1 DEF JobsInv, TasksOK
  <2>6. ASSUME NEW s \in Registrations, job'[s].state \in {"queued", "running", "complete"}
        PROVE  \E u \in Tasks : operation'[u] = s
    <3>1. s # r /\ Outstanding(s)
        BY <2>6, <1>j DEF Outstanding
    <3>2. PICK u \in Tasks : operation[u] = s
        BY <3>1, <1>0, <1>f, JobFacts DEF JobsInv, TasksOK
    <3> QED BY <3>1, <3>2, <1>p, <1>r
  <2> QED BY <1>0, <2>1, <2>2, <2>4, <2>5, <2>6 DEF JobsInv, TasksOK, Outstanding
<1>5. OpenOK'
  <2>0. None \notin open /\ \A k \in DOMAIN handles : handles[k] # None
    BY <1>f DEF JobsType, FilesType
  <2>1. CASE job[r].fd = None /\ handles' = handles
    <3>1. \A s \in Registrations : job'[s].fd = job[s].fd
        BY <2>1, <1>j
    <3> QED BY <2>1, <3>1, <1>0 DEF JobsInv, OpenOK
  <2>2. CASE /\ job[r].fd # None /\ tokens + 1 \notin DOMAIN handles
             /\ DOMAIN handles' = DOMAIN handles \cup {tokens + 1} /\ handles'[tokens + 1] = job[r].fd
             /\ \A k \in DOMAIN handles : handles'[k] = handles[k]
    <3>1. \A d \in open : (\E s \in Registrations : job'[s].fd = d) \/ (\E k \in DOMAIN handles' : handles'[k] = d)
      <4> TAKE d \in open
      <4>1. CASE d = job[r].fd
        BY <4>1, <2>2
      <4>2. CASE d # job[r].fd
        BY <4>2, <2>2, <1>j DEF JobsInv, OpenOK
      <4> QED BY <4>1, <4>2
    <3>2. \A s \in Registrations : job'[s].fd # None => job'[s].fd \in open
        BY <1>j DEF JobsInv, OpenOK
    <3>3. \A k \in DOMAIN handles' : handles'[k] \in open
        BY <2>2 DEF JobsInv, OpenOK
    <3>4. \A s, v \in Registrations : job'[s].fd = job'[v].fd /\ job'[s].fd # None => s = v
        BY <1>j DEF JobsInv, OpenOK
    <3>5. \A k, l \in DOMAIN handles' : handles'[k] = handles'[l] => k = l
        BY <2>2 DEF JobsInv, OpenOK
    <3>6. \A s \in Registrations, k \in DOMAIN handles' : job'[s].fd # handles'[k]
      <4> TAKE s \in Registrations, k \in DOMAIN handles'
      <4>1. CASE s = r
        BY <4>1, <1>j, <2>0, <2>2
      <4>2. CASE s # r
        BY <4>2, <1>j, <2>2 DEF JobsInv, OpenOK
      <4> QED BY <4>1, <4>2
    <3> QED BY <1>0, <3>1, <3>2, <3>3, <3>4, <3>5, <3>6 DEF OpenOK
  <2> QED BY <1>h, <2>1, <2>2
<1>6. FilesOK'
    BY <1>0, <1>j DEF JobsInv, FilesOK, Outstanding
<1>7. WakesOK' /\ SleepersOK'
  <2>1. SleepersOK'
    BY <1>0 DEF JobsInv, SleepersOK, Looping
  <2>2. \A u \in Tasks : Parked(u)' => Parked(u) /\ wait'[u] = wait[u]
    BY <1>w DEF Parked
  <2>3. WakesOK'
    BY <1>0, <2>2 DEF JobsInv, WakesOK, JobPending
  <2> QED BY <2>1, <2>3
<1> QED BY <1>1, <1>2, <1>3, <1>4, <1>5, <1>6, <1>7 DEF JobsInv

\* A file leaves the table and is closed: nothing else owns it.
LEMMA ForgetFile == ASSUME JobsType, OpenOK, NEW k \in DOMAIN handles,
                           handles' = [x \in DOMAIN handles \ {k} |-> handles[x]],
                           DropFile(handles[k]), UNCHANGED <<job, tokens, opened>>
                    PROVE  FilesType' /\ OpenOK'
<1>1. FilesType'
  <2>1. /\ tokens \in Nat /\ DOMAIN handles \subseteq 1..tokens /\ handles \in [DOMAIN handles -> 1..opened]
        /\ open \subseteq 1..opened /\ opened \in Nat /\ opened <= MaxDescriptors
    BY DEF JobsType, FilesType
  <2>2. DOMAIN handles' = DOMAIN handles \ {k} /\ handles' \in [DOMAIN handles' -> 1..opened]
    BY <2>1
  <2> QED BY <2>1, <2>2 DEF FilesType, DropFile
<1>2. OpenOK'
  <2>0. /\ DOMAIN handles' = DOMAIN handles \ {k} /\ open' = open \ {handles[k]}
        /\ \A l \in DOMAIN handles' : handles'[l] = handles[l]
    BY DEF DropFile
  <2>1. \A d \in open' : (\E s \in Registrations : job[s].fd = d) \/ (\E l \in DOMAIN handles' : handles'[l] = d)
    BY <2>0 DEF OpenOK
  <2>2. \A s \in Registrations : job[s].fd # None => job[s].fd \in open'
    BY <2>0 DEF OpenOK
  <2>3. \A l \in DOMAIN handles' : handles'[l] \in open'
    BY <2>0 DEF OpenOK
  <2> QED BY <2>0, <2>1, <2>2, <2>3 DEF OpenOK
<1> QED BY <1>1, <1>2

LEMMA AbortStep == ASSUME NEW k \in DOMAIN handles, JobsInv, Abort(k) PROVE JobsInv'
<1>0. /\ UNCHANGED <<waitVars, pool, poolVars, operation, owner, tokens, opened, fatal>>
      /\ handles' = [x \in DOMAIN handles \ {k} |-> handles[x]] /\ DropFile(handles[k])
    BY DEF Abort
<1>1. FilesType' /\ OpenOK'
  <2>1. JobsType /\ OpenOK /\ UNCHANGED <<job, tokens, opened>>
    BY <1>0 DEF JobsInv, poolVars
  <2> QED BY <2>1, <1>0, ForgetFile
<1>2. JobsType'
    BY <1>0, <1>1 DEF JobsInv, JobsType, WaitsType, PoolType, waitVars, poolVars
<1>3. StatesOK' /\ PlacesOK' /\ OwnerOK'
    BY <1>0 DEF JobsInv, StatesOK, PlacesOK, OwnerOK, waitVars, poolVars
<1>4. TasksOK' /\ FilesOK'
    BY <1>0 DEF JobsInv, TasksOK, FilesOK, Outstanding, waitVars, poolVars
<1>5. WakesOK' /\ SleepersOK'
    BY <1>0 DEF JobsInv, WakesOK, SleepersOK, Looping, Parked, JobPending, waitVars, poolVars
<1> QED BY <1>1, <1>2, <1>3, <1>4, <1>5 DEF JobsInv

\* A task faults before it has a job.
LEMMA SubmitFailsStep == ASSUME NEW t \in Tasks, JobsInv, SubmitFails(t) PROVE JobsInv'
<1>0. /\ UNCHANGED <<issued, live, queue, wait, pool, poolVars, operation, owner, tokens, opened, fatal>>
      /\ operation[t] = None /\ owner.pc = "free" /\ done' = done \cup {t}
    BY DEF SubmitFails, Free
<1>1. FilesType' /\ OpenOK'
  <2>1. JobsType /\ OpenOK /\ UNCHANGED <<job, tokens, opened>>
    BY <1>0 DEF JobsInv, poolVars
  <2>2. CASE UNCHANGED <<handles, open>>
    BY <2>1, <2>2 DEF JobsType, FilesType, OpenOK
  <2>3. CASE \E k \in DOMAIN handles : /\ handles' = [x \in DOMAIN handles \ {k} |-> handles[x]]
                                       /\ DropFile(handles[k])
    BY <2>1, <2>3, ForgetFile
  <2> QED BY <2>2, <2>3 DEF SubmitFails
<1>2. JobsType'
    BY <1>0, <1>1 DEF JobsInv, JobsType, WaitsType, PoolType, poolVars
<1>3. StatesOK' /\ PlacesOK' /\ OwnerOK'
    BY <1>0 DEF JobsInv, StatesOK, PlacesOK, OwnerOK, poolVars
<1>4. TasksOK' /\ FilesOK'
    BY <1>0 DEF JobsInv, TasksOK, FilesOK, Outstanding, poolVars
<1>5. WakesOK' /\ SleepersOK'
    BY <1>0 DEF JobsInv, WakesOK, SleepersOK, Looping, Parked, JobPending, poolVars
<1> QED BY <1>1, <1>2, <1>3, <1>4, <1>5 DEF JobsInv

\* The threads are joined and the file table goes.
LEMMA JoinStep == JobsInv /\ Join => JobsInv'
<1> SUFFICES ASSUME JobsInv, Join PROVE JobsInv'
    OBVIOUS
<1> USE DEF None
<1>f. JobsType
    BY DEF JobsInv
<1>0. /\ UNCHANGED <<waitVars, pool, poolVars, tokens, opened, operation, fatal>>
      /\ owner.pc = "join" /\ owner.job = None /\ owner' = [Resting EXCEPT !.pc = "joined"]
      /\ open' = open \ {handles[k] : k \in DOMAIN handles} /\ handles' = <<>>
    BY DEF Join, JobsInv, OwnerOK
<1>o. owner' \in Owners /\ owner'.pc = "joined" /\ owner'.job = None /\ owner'.asleep = FALSE
  <2>1. owner' = [pc |-> "joined", task |-> None, job |-> None, asleep |-> FALSE]
    BY <1>0 DEF Resting
  <2> QED BY <2>1, <1>f, JobFacts DEF Owners, OwnerStates
<1>1. DOMAIN handles' = {} /\ handles' \in [DOMAIN handles' -> 1..opened']
    BY <1>0
<1>2. JobsType'
    BY <1>f, <1>0, <1>o, <1>1 DEF JobsType, WaitsType, PoolType, FilesType, waitVars, poolVars
<1>3. StatesOK' /\ PlacesOK'
    BY <1>0 DEF JobsInv, StatesOK, PlacesOK, waitVars, poolVars
<1>4. OwnerOK'
    BY <1>o DEF OwnerOK
<1>5. TasksOK'
    BY <1>0, <1>o DEF JobsInv, TasksOK, Outstanding, waitVars, poolVars
<1>6. OpenOK'
    BY <1>0, <1>1 DEF JobsInv, OpenOK, poolVars
<1>7. FilesOK'
    BY <1>0 DEF JobsInv, FilesOK, Outstanding, poolVars
<1>8. WakesOK' /\ SleepersOK'
    BY <1>0 DEF JobsInv, WakesOK, SleepersOK, Looping, Parked, JobPending, waitVars, poolVars
<1> QED BY <1>2, <1>3, <1>4, <1>5, <1>6, <1>7, <1>8 DEF JobsInv

\* The pool is closed once every task is gone: the jobs that are still queued were
\* all taken back, so dropping them changes nothing.
LEMMA ClosePoolStep == JobsInv /\ ClosePool => JobsInv'
<1> SUFFICES ASSUME JobsInv, ClosePool PROVE JobsInv'
    OBVIOUS
<1> USE DEF None
<1>f. JobsType
    BY DEF JobsInv
<1>t. worker \in [Workers -> Threads] /\ job \in [Registrations -> JobRecords]
    BY <1>f DEF JobsType, PoolType
<1>0. /\ UNCHANGED <<waitVars, pool, fileVars, operation, fatal>>
      /\ owner.pc = "free" /\ owner.job = None /\ done = Tasks /\ closed' = TRUE
      /\ owner' = [Resting EXCEPT !.pc = "join"] /\ worker' = Alarm(worker)
    BY DEF ClosePool, Free, JobsInv, OwnerOK
<1>o. owner' \in Owners /\ owner'.pc = "join" /\ owner'.job = None /\ owner'.asleep = FALSE
  <2>1. owner' = [pc |-> "join", task |-> None, job |-> None, asleep |-> FALSE]
    BY <1>0 DEF Resting
  <2> QED BY <2>1, <1>f, JobFacts DEF Owners, OwnerStates
<1>n. \A r \in Registrations : ~Outstanding(r) /\ job[r].fd = None
  <2>1. \A r \in Registrations : ~Outstanding(r)
    BY <1>0, <1>f, JobFacts DEF JobsInv, TasksOK
  <2> QED BY <2>1 DEF JobsInv, FilesOK
<1>q. \A i \in DOMAIN fifo : fifo[i] \in Registrations /\ job[fifo[i]].state = "taken"
    BY <1>n, <1>f, PlaceFacts DEF JobsInv, StatesOK, Outstanding
<1>j. job' = job
  <2>1. CASE pool = "io"
    <3>1. job' = [r \in Registrations |-> IF \E i \in DOMAIN fifo : fifo[i] = r
                                          THEN [job[r] EXCEPT !.state = "taken", !.fd = None]
                                          ELSE job[r]]
        BY <2>1, <1>f, JobFacts DEF ClosePool
    <3>2. ASSUME NEW r \in Registrations, \E i \in DOMAIN fifo : fifo[i] = r
          PROVE  [job[r] EXCEPT !.state = "taken", !.fd = None] = job[r]
      <4>1. job[r] \in JobRecords /\ job[r].state = "taken" /\ job[r].fd = None
        BY <1>t, <1>n, <1>q, <3>2
      <4> QED BY <4>1 DEF JobRecords
    <3>3. job' = [r \in Registrations |-> job[r]]
        BY <3>1, <3>2
    <3> QED BY <3>3, <1>t
  <2>2. CASE pool # "io"
    BY <2>2 DEF ClosePool
  <2> QED BY <2>1, <2>2
<1>p. fifo' = <<>> \/ fifo' = fifo
    BY DEF ClosePool
<1>x. DOMAIN fifo' \subseteq DOMAIN fifo /\ fifo' \in Seq(Registrations) /\ \A i \in DOMAIN fifo' : fifo'[i] = fifo[i]
  <2>1. CASE fifo' = <<>>
    BY <2>1
  <2>2. CASE fifo' = fifo
    BY <2>2, <1>f DEF JobsType, PoolType
  <2> QED BY <1>p, <2>1, <2>2
<1>w. /\ worker' \in [Workers -> Threads]
      /\ \A w \in Workers : /\ worker'[w].job = worker[w].job /\ worker'[w].pc # "sleep"
                            /\ worker[w].pc # "sleep" => worker'[w] = worker[w]
                            /\ worker[w].pc = "sleep" => worker'[w].pc = "loop"
    BY <1>0, <1>t DEF Alarm, Threads, ThreadStates
<1>1. JobsType'
    BY <1>f, <1>0, <1>j, <1>o, <1>x, <1>w DEF JobsType, WaitsType, PoolType, FilesType, waitVars, fileVars
<1>2. PlacesOK'
  <2>1. \A i, j \in DOMAIN fifo' : fifo'[i] = fifo'[j] => i = j
    BY <1>x DEF JobsInv, PlacesOK
  <2> QED BY <2>1, <1>x, <1>w DEF JobsInv, PlacesOK
<1>3. StatesOK'
    BY <1>0, <1>j, <1>x, <1>w DEF JobsInv, StatesOK, waitVars
<1>4. OwnerOK'
    BY <1>o DEF OwnerOK
<1>5. TasksOK'
    BY <1>0, <1>o, <1>j DEF JobsInv, TasksOK, Outstanding, waitVars
<1>6. OpenOK' /\ FilesOK'
    BY <1>0, <1>j DEF JobsInv, OpenOK, FilesOK, Outstanding, fileVars
<1>7. WakesOK'
  <2>1. \A t \in Tasks : operation[t] = None
    BY <1>0 DEF JobsInv, TasksOK
  <2>2. \A t \in Tasks : wait'[t].reg = None
    BY <1>0, <2>1 DEF JobsInv, TasksOK, waitVars
  <2> QED BY <2>2 DEF WakesOK, Parked
<1>8. SleepersOK'
    BY <1>w DEF SleepersOK
<1> QED BY <1>1, <1>2, <1>3, <1>4, <1>5, <1>6, <1>7, <1>8 DEF JobsInv

\* One sleeper, if there is one, goes back to its loop.
LEMMA NotifyOneFacts == ASSUME worker \in [Workers -> Threads], NotifyOne(worker)
                        PROVE  /\ worker' \in [Workers -> Threads]
                               /\ \A v \in Workers : /\ worker'[v].job = worker[v].job
                                                     /\ worker'[v] = worker[v] \/ (worker[v].pc = "sleep" /\ worker'[v].pc = "loop")
                               /\ Cardinality(Looping) \in Nat
                               /\ \/ \A v \in Workers : worker'[v].pc # "sleep"
                                  \/ Cardinality(Looping') = Cardinality(Looping) + 1
<1>0. IsFiniteSet(Looping) /\ Cardinality(Looping) \in Nat
  <2>1. IsFiniteSet(Looping)
    BY JobsAssumption, FS_Subset DEF Looping
  <2> QED BY <2>1, FS_CardinalityType
<1>1. CASE (\A w \in Workers : worker[w].pc # "sleep") /\ worker' = worker
    BY <1>0, <1>1
<1>2. CASE \E w \in Workers : worker[w].pc = "sleep" /\ worker' = [worker EXCEPT ![w].pc = "loop"]
  <2> PICK w \in Workers : worker[w].pc = "sleep" /\ worker' = [worker EXCEPT ![w].pc = "loop"]
    BY <1>2
  <2>1. /\ worker' \in [Workers -> Threads] /\ worker'[w].pc = "loop" /\ worker'[w].job = worker[w].job
        /\ \A v \in Workers : v # w => worker'[v] = worker[v]
    BY DEF Threads, ThreadStates
  <2>2. Looping' = Looping \cup {w} /\ w \notin Looping
    BY <2>1 DEF Looping
  <2>3. Cardinality(Looping') = Cardinality(Looping) + 1
    BY <1>0, <2>2, FS_AddElement
  <2> QED BY <1>0, <2>1, <2>3
<1> QED BY <1>1, <1>2 DEF NotifyOne

\* A new job: nothing knew of its registration before.
LEMMA SubmitStep == ASSUME NEW t \in Tasks, NEW kind \in Kinds, JobsInv, Submit(t, kind) PROVE JobsInv'
<1> USE DEF None
<1>f. JobsType
    BY DEF JobsInv
<1>t. /\ worker \in [Workers -> Threads] /\ job \in [Registrations -> JobRecords]
      /\ operation \in [Tasks -> 0..MaxWaits] /\ wait \in [Tasks -> WaitRecords]
      /\ issued \in Seq({Completion}) /\ fifo \in Seq(Registrations)
    BY <1>f DEF JobsType, PoolType, WaitsType
<1>r. PICK r \in Registrations : r = Len(issued) + 1
  <2>1. Len(issued) < MaxWaits /\ Len(issued) \in Nat
    BY <1>f, TaskFacts DEF Submit, Park, Room
  <2> QED BY <2>1, WaitsAssumption DEF Registrations
<1>0. /\ UNCHANGED <<queue, done, pool, closed, owner, tokens, fatal>>
      /\ owner.pc = "free" /\ owner.job = None /\ t \notin done /\ operation[t] = None /\ ~closed
      /\ issued' = Append(issued, Completion) /\ live' = live \cup {r}
      /\ wait' = [wait EXCEPT ![t] = [reg |-> r, ready |-> FALSE, error |-> FALSE, lease |-> None]]
      /\ operation' = [operation EXCEPT ![t] = r] /\ fifo' = Append(fifo, r) /\ NotifyOne(worker)
    BY <1>r DEF Submit, Free, Idle, Park, JobsInv, OwnerOK
<1>k. PICK fd \in 0..MaxDescriptors :
         /\ Prepare(kind, fd)
         /\ job' = [job EXCEPT ![r] = [state |-> "queued", kind |-> kind, fd |-> fd, stop |-> FALSE]]
    BY <1>r DEF Submit
<1>j. /\ job' \in [Registrations -> JobRecords]
      /\ job'[r].state = "queued" /\ job'[r].kind = kind /\ job'[r].fd = fd /\ job'[r].stop = FALSE
      /\ \A s \in Registrations : s # r => job'[s] = job[s]
  <2>1. [state |-> "queued", kind |-> kind, fd |-> fd, stop |-> FALSE] \in JobRecords
    BY DEF JobRecords, JobStates, JobKinds
  <2> QED BY <1>t, <1>k, <2>1
<1>p. /\ operation' \in [Tasks -> 0..MaxWaits] /\ operation'[t] = r
      /\ \A u \in Tasks : u # t => operation'[u] = operation[u]
    BY <1>f, <1>t, <1>0, JobFacts
<1>w. /\ wait' \in [Tasks -> WaitRecords] /\ wait'[t].reg = r /\ wait'[t].ready = FALSE
      /\ \A u \in Tasks : u # t => wait'[u] = wait[u]
  <2>1. [reg |-> r, ready |-> FALSE, error |-> FALSE, lease |-> None] \in WaitRecords
    BY <1>f, JobFacts DEF WaitRecords
  <2> QED BY <2>1, <1>t, <1>0
<1>q. /\ fifo' \in Seq(Registrations) /\ Len(fifo) \in Nat /\ Len(fifo') = Len(fifo) + 1
      /\ DOMAIN fifo = 1..Len(fifo) /\ DOMAIN fifo' = 1..(Len(fifo) + 1)
      /\ \A i \in DOMAIN fifo : fifo'[i] = fifo[i]
      /\ fifo'[Len(fifo) + 1] = r
    BY <1>t, <1>0
<1>y. \A i \in DOMAIN fifo' : i \in DOMAIN fifo \/ (i = Len(fifo) + 1 /\ i \notin DOMAIN fifo)
    BY <1>q
<1>i. issued' \in Seq({Completion}) /\ Len(issued') = r /\ Len(issued) \in Nat /\ r \in Nat /\ Len(issued) < r
    BY <1>t, <1>0, <1>r, <1>f, JobFacts
<1>v. /\ worker' \in [Workers -> Threads]
      /\ \A v \in Workers : /\ worker'[v].job = worker[v].job
                            /\ worker'[v] = worker[v] \/ (worker[v].pc = "sleep" /\ worker'[v].pc = "loop")
      /\ Cardinality(Looping) \in Nat
      /\ \/ \A v \in Workers : worker'[v].pc # "sleep"
         \/ Cardinality(Looping') = Cardinality(Looping) + 1
    BY <1>t, <1>0, NotifyOneFacts
<1>n. \* Nobody knows the new registration.
      /\ job[r].state = "none" /\ job[r].fd = None /\ \A u \in Tasks : operation[u] # r
      /\ \A i \in DOMAIN fifo : fifo[i] # r
      /\ \A i \in DOMAIN queue : queue[i].reg # r
      /\ \A v \in Workers : worker[v].job # r
  <2>1. job[r].state = "none"
    BY <1>i DEF JobsInv, StatesOK
  <2>2. job[r].fd = None
    BY <2>1 DEF JobsInv, FilesOK, Outstanding
  <2>3. r # None
    BY <1>f, JobFacts
  <2>4. \A u \in Tasks : operation[u] # r
    BY <2>1, <2>3 DEF JobsInv, TasksOK, Outstanding
  <2>5. (\A i \in DOMAIN fifo : fifo[i] # r) /\ (\A i \in DOMAIN queue : queue[i].reg # r)
    BY <2>1 DEF JobsInv, StatesOK
  <2>6. \A v \in Workers : worker[v].job # r
    <3> TAKE v \in Workers
    <3>1. worker[v].pc \in ThreadStates
        BY <1>f, PlaceFacts
    <3> QED BY <3>1, <2>1, <2>3 DEF JobsInv, StatesOK, ThreadStates
  <2> QED BY <2>1, <2>2, <2>4, <2>5, <2>6
<1>c. \* What the operation was given.
      /\ FilesType' /\ (pool = "cpu" => kind = "compute" /\ fd = None)
      /\ kind \in {"use", "close"} \/ fd = None
      /\ \/ fd = None /\ UNCHANGED <<handles, open>>
         \/ fd # None /\ fd \notin open /\ open' = open \cup {fd} /\ handles' = handles
         \/ \E k \in DOMAIN handles : /\ fd = handles[k] /\ open' = open
                                      /\ handles' = [x \in DOMAIN handles \ {k} |-> handles[x]]
  <2>1. /\ opened \in Nat /\ opened <= MaxDescriptors /\ open \subseteq 1..opened /\ MaxDescriptors \in Nat
        /\ tokens \in Nat /\ DOMAIN handles \subseteq 1..tokens /\ handles \in [DOMAIN handles -> 1..opened]
    BY <1>f, JobsAssumption DEF JobsType, FilesType
  <2>2. CASE NoFile(fd) /\ kind \in {"compute", "open", "other"} /\ (pool = "cpu" => kind = "compute")
    BY <2>1, <2>2, <1>0 DEF NoFile, FilesType
  <2>3. CASE pool = "io" /\ kind = "use" /\ Duplicate(fd)
    <3>1. /\ fd = opened + 1 /\ opened' = opened + 1 /\ open' = open \cup {fd} /\ handles' = handles
          /\ opened < MaxDescriptors
        BY <2>3 DEF Duplicate
    <3>2. fd # None /\ fd \notin open
        BY <2>1, <3>1
    <3>3. opened' \in Nat /\ opened' <= MaxDescriptors /\ open' \subseteq 1..opened'
        BY <2>1, <3>1
    <3>4. handles' \in [DOMAIN handles' -> 1..opened']
        BY <2>1, <3>1
    <3>5. FilesType'
        BY <2>1, <3>1, <3>3, <3>4, <1>0 DEF FilesType
    <3> QED BY <2>3, <3>1, <3>2, <3>5
  <2>4. CASE pool = "io" /\ kind = "close" /\ \E k \in DOMAIN handles : TakeFile(k, fd)
    <3> PICK k \in DOMAIN handles : TakeFile(k, fd)
        BY <2>4
    <3>1. /\ fd = handles[k] /\ handles' = [x \in DOMAIN handles \ {k} |-> handles[x]]
          /\ opened' = opened /\ open' = open
        BY DEF TakeFile
    <3>2. DOMAIN handles' = DOMAIN handles \ {k} /\ handles' \in [DOMAIN handles' -> 1..opened]
        BY <2>1, <3>1
    <3>3. FilesType'
        BY <2>1, <3>1, <3>2, <1>0 DEF FilesType
    <3> QED BY <2>4, <3>1, <3>3
  <2>5. \/ NoFile(fd) /\ kind \in {"compute", "open", "other"} /\ (pool = "cpu" => kind = "compute")
        \/ pool = "io" /\ kind = "use" /\ Duplicate(fd)
        \/ pool = "io" /\ kind = "close" /\ \E k \in DOMAIN handles : TakeFile(k, fd)
    BY <1>k DEF Prepare, Snapshot
  <2> QED BY <2>2, <2>3, <2>4, <2>5
<1>s. \A s \in Registrations : s # r => (Outstanding(s)' <=> Outstanding(s))
    BY <1>j DEF Outstanding
<1>1. JobsType'
  <2>1. Len(issued') <= MaxWaits /\ live' \subseteq 1..Len(issued')
    BY <1>i, <1>0, <1>f, WaitsAssumption DEF JobsType, WaitsType, Registrations
  <2> QED BY <1>f, <1>0, <1>i, <1>j, <1>p, <1>w, <1>q, <1>v, <1>c, <2>1 DEF JobsType, WaitsType, PoolType
<1>2. PlacesOK'
  <2>1. \A i, j \in DOMAIN fifo' : fifo'[i] = fifo'[j] => i = j
    BY <1>q, <1>y, <1>n DEF JobsInv, PlacesOK
  <2>2. \A i \in DOMAIN fifo', v \in Workers : fifo'[i] # worker'[v].job
    BY <1>q, <1>y, <1>n, <1>v DEF JobsInv, PlacesOK
  <2> QED BY <2>1, <2>2, <1>v DEF JobsInv, PlacesOK
<1>3. StatesOK'
  <2>1. \A s \in Registrations : job'[s].state = "none" <=> s > Len(issued')
    <3> TAKE s \in Registrations
    <3>0. s \in Nat /\ (job[s].state = "none" <=> s > Len(issued))
        BY <1>f, JobFacts DEF JobsInv, StatesOK
    <3>1. CASE s = r
        BY <3>1, <1>j, <1>i
    <3>2. CASE s # r
        BY <3>0, <3>2, <1>j, <1>i, <1>r
    <3> QED BY <3>1, <3>2
  <2>2. \A i \in DOMAIN fifo' : job'[fifo'[i]].state \in {"queued", "taken"}
    BY <1>q, <1>y, <1>j, <1>n, <1>f, PlaceFacts DEF JobsInv, StatesOK
  <2>3. \A v \in Workers :
             /\ worker'[v].pc \in {"loop", "sleep", "exited"} <=> worker'[v].job = None
             /\ worker'[v].pc = "fetched" => job'[worker'[v].job].state \in {"queued", "taken"}
             /\ worker'[v].pc = "running" => job'[worker'[v].job].state = "running"
             /\ worker'[v].pc = "notify" => job'[worker'[v].job].state \in {"complete", "taken"}
    <3> TAKE v \in Workers
    <3>1. worker[v].job # r /\ (worker[v].job # None => worker[v].job \in Registrations)
        BY <1>n, <1>f, PlaceFacts, JobFacts
    <3>2. CASE worker'[v] = worker[v]
        BY <3>1, <3>2, <1>j DEF JobsInv, StatesOK
    <3>3. CASE worker[v].pc = "sleep" /\ worker'[v].pc = "loop"
        BY <3>3, <1>v DEF JobsInv, StatesOK
    <3> QED BY <3>2, <3>3, <1>v
  <2>4. \A i \in DOMAIN queue : job'[queue[i].reg].state \in {"complete", "taken"}
    BY <1>n, <1>j, <1>f, PlaceFacts DEF JobsInv, StatesOK
  <2> QED BY <1>0, <2>1, <2>2, <2>3, <2>4 DEF StatesOK
<1>4. OwnerOK'
    BY <1>0 DEF JobsInv, OwnerOK
<1>5. TasksOK'
  <2>0. r # None
    BY <1>f, JobFacts
  <2>1. \A u \in Tasks : /\ wait'[u].reg = operation'[u]
                         /\ operation[u] # None => u # t /\ operation[u] \in Registrations /\ operation[u] # r
    BY <1>p, <1>w, <1>n, <1>0, <1>f, JobFacts, TaskFacts DEF JobsInv, TasksOK
  <2>2. \A u \in Tasks : operation'[u] # None =>
           /\ u \notin done' /\ job'[operation'[u]].state \in {"queued", "running", "complete"}
           /\ ~job'[operation'[u]].stop
    <3> TAKE u \in Tasks
    <3>1. CASE u = t
        BY <3>1, <1>p, <1>j, <1>0
    <3>2. CASE u # t
        BY <3>2, <2>1, <1>p, <1>0, <1>j DEF JobsInv, TasksOK, Outstanding
    <3> QED BY <3>1, <3>2
  <2>4. \A u \in Tasks : wait'[u].ready => operation'[u] # None /\ job'[operation'[u]].state = "complete"
    <3> TAKE u \in Tasks
    <3> HAVE wait'[u].ready
    <3>1. u # t /\ wait[u].ready
        BY <1>w
    <3> QED BY <3>1, <1>p, <2>1, <1>j DEF JobsInv, TasksOK
  <2>5. \A u, v \in Tasks : operation'[u] = operation'[v] /\ operation'[u] # None => u = v
    BY <1>p, <1>n DEF JobsInv, TasksOK
  <2>6. ASSUME NEW s \in Registrations, job'[s].state \in {"queued", "running", "complete"}
        PROVE  \E u \in Tasks : operation'[u] = s
    <3>1. CASE s = r
        BY <3>1, <1>p
    <3>2. CASE s # r
      <4>1. Outstanding(s)
        BY <2>6, <3>2, <1>j DEF Outstanding
      <4>2. PICK u \in Tasks : operation[u] = s
        BY <4>1, <1>0, <1>f, JobFacts DEF JobsInv, TasksOK
      <4> QED BY <4>2, <1>p, <2>1, <1>f, JobFacts
    <3> QED BY <3>1, <3>2
  <2> QED BY <1>0, <2>1, <2>2, <2>4, <2>5, <2>6 DEF JobsInv, TasksOK, Outstanding
<1>6. OpenOK'
  <2>0. /\ \A s \in Registrations : s # r => job'[s].fd = job[s].fd
        /\ job'[r].fd = fd /\ job[r].fd = None /\ None \notin open
        /\ \A k \in DOMAIN handles : handles[k] # None
    BY <1>j, <1>n, <1>f DEF JobsType, FilesType
  <2>1. CASE fd = None /\ UNCHANGED <<handles, open>>
    <3>1. \A s \in Registrations : job'[s].fd = job[s].fd
        BY <2>0, <2>1
    <3> QED BY <2>1, <3>1 DEF JobsInv, OpenOK
  <2>2. CASE fd # None /\ fd \notin open /\ open' = open \cup {fd} /\ handles' = handles
    <3>1. \A d \in open' : (\E s \in Registrations : job'[s].fd = d) \/ (\E k \in DOMAIN handles : handles[k] = d)
        BY <2>0, <2>2 DEF JobsInv, OpenOK
    <3>2. \A s \in Registrations : job'[s].fd # None => job'[s].fd \in open'
        BY <2>0, <2>2 DEF JobsInv, OpenOK
    <3>3. \A s, v \in Registrations : job'[s].fd = job'[v].fd /\ job'[s].fd # None => s = v
        BY <2>0, <2>2 DEF JobsInv, OpenOK
    <3>4. \A s \in Registrations, k \in DOMAIN handles : job'[s].fd # handles[k]
        BY <2>0, <2>2 DEF JobsInv, OpenOK
    <3> QED BY <2>0, <2>2, <3>1, <3>2, <3>3, <3>4 DEF JobsInv, OpenOK
  <2>3. CASE \E k \in DOMAIN handles : /\ fd = handles[k] /\ open' = open
                                       /\ handles' = [x \in DOMAIN handles \ {k} |-> handles[x]]
    <3> PICK k \in DOMAIN handles : /\ fd = handles[k] /\ open' = open
                                    /\ handles' = [x \in DOMAIN handles \ {k} |-> handles[x]]
        BY <2>3
    <3>h. /\ DOMAIN handles' = DOMAIN handles \ {k} /\ \A l \in DOMAIN handles' : handles'[l] = handles[l]
        OBVIOUS
    <3>1. \A d \in open' : (\E s \in Registrations : job'[s].fd = d) \/ (\E l \in DOMAIN handles' : handles'[l] = d)
      <4> TAKE d \in open'
      <4>1. CASE d = fd
        BY <4>1, <2>0
      <4>2. CASE d # fd
        BY <4>2, <2>0, <3>h DEF JobsInv, OpenOK
      <4> QED BY <4>1, <4>2
    <3>2. \A s \in Registrations : job'[s].fd # None => job'[s].fd \in open'
        BY <2>0 DEF JobsInv, OpenOK
    <3>3. \A s, v \in Registrations : job'[s].fd = job'[v].fd /\ job'[s].fd # None => s = v
        BY <2>0 DEF JobsInv, OpenOK
    <3>4. \A s \in Registrations, l \in DOMAIN handles' : job'[s].fd # handles'[l]
        BY <2>0, <3>h DEF JobsInv, OpenOK
    <3>5. /\ \A l \in DOMAIN handles' : handles'[l] \in open'
          /\ \A l, m \in DOMAIN handles' : handles'[l] = handles'[m] => l = m
        BY <3>h DEF JobsInv, OpenOK
    <3> QED BY <3>1, <3>2, <3>3, <3>4, <3>5 DEF OpenOK
  <2> QED BY <1>c, <2>1, <2>2, <2>3
<1>7. FilesOK'
  <2> SUFFICES ASSUME NEW s \in Registrations
               PROVE  /\ job'[s].fd # None => Outstanding(s)' /\ pool = "io"
                      /\ job'[s].state \in {"queued", "running"} =>
                            /\ job'[s].kind \in Kinds
                            /\ job'[s].kind \in {"use", "close"} \/ job'[s].fd = None
                            /\ pool = "cpu" => job'[s].kind = "compute"
                      /\ job'[s].state = "complete" =>
                            /\ job'[s].kind = "file" <=> job'[s].fd # None
                            /\ job'[s].kind = "stopped" => job'[s].stop
    BY <1>0 DEF FilesOK
  <2>1. CASE s # r
    BY <2>1, <1>j, <1>s DEF JobsInv, FilesOK
  <2>2. CASE s = r
    BY <2>2, <1>j, <1>c, <1>f, TaskFacts DEF Outstanding
  <2> QED BY <2>1, <2>2
<1>8. WakesOK'
  <2>1. \A c : JobPending(c) => JobPending(c)'
    BY <1>q, <1>v DEF JobPending
  <2>2. JobPending(r)'
    <3>1. Len(fifo) + 1 \in DOMAIN fifo'
        BY <1>q
    <3> QED BY <3>1, <1>q DEF JobPending
  <2> SUFFICES ASSUME NEW u \in Tasks, Parked(u)'
               PROVE  (\/ \E i \in DOMAIN queue : queue[i].reg = wait[u].reg
                       \/ wait[u].reg \in live /\ JobPending(wait[u].reg))'
    BY DEF WakesOK
  <2>3. CASE u = t
    BY <2>3, <2>2, <1>w, <1>0
  <2>4. CASE u # t
    <3> PICK c : c = wait[u].reg
        OBVIOUS
    <3>1. Parked(u) /\ wait'[u].reg = c
        BY <2>4, <1>w DEF Parked
    <3> QED BY <3>1, <2>1, <1>0 DEF JobsInv, WakesOK
  <2> QED BY <2>3, <2>4
<1>9. SleepersOK'
  <2>1. CASE \A v \in Workers : worker'[v].pc # "sleep"
    BY <2>1 DEF SleepersOK
  <2>2. CASE Cardinality(Looping') = Cardinality(Looping) + 1 /\ \E v \in Workers : worker'[v].pc = "sleep"
    <3>1. \E v \in Workers : worker[v].pc = "sleep"
        BY <2>2, <1>v
    <3>2. Len(fifo) <= Cardinality(Looping)
        BY <3>1 DEF JobsInv, SleepersOK
    <3>3. Len(fifo') <= Cardinality(Looping')
        BY <3>2, <2>2, <1>q, <1>v
    <3> QED BY <3>3, <1>0 DEF SleepersOK
  <2> QED BY <2>1, <2>2, <1>v
<1> QED BY <1>1, <1>2, <1>3, <1>4, <1>5, <1>6, <1>7, <1>8, <1>9 DEF JobsInv

-----------------------------------------------------------------------------
(* The theorems.                                                           *)

LEMMA JobsStart == WaitsInit /\ JobsInit => JobsInv
<1> SUFFICES ASSUME WaitsInit, JobsInit PROVE JobsInv
    OBVIOUS
<1> USE DEF None
<1>w. /\ issued = <<>> /\ live = {} /\ queue = <<>> /\ done = {}
      /\ wait = [t \in Tasks |-> NoWait]
    BY DEF WaitsInit
<1>j. /\ pool \in {"io", "cpu"} /\ job = [r \in Registrations |-> NoJob]
      /\ operation = [t \in Tasks |-> None] /\ fifo = <<>> /\ closed = FALSE
      /\ worker = [w \in Workers |-> [pc |-> "loop", job |-> None]] /\ owner = Resting
      /\ handles = <<>> /\ tokens = 0 /\ opened = 0 /\ open = {} /\ fatal = FALSE
    BY DEF JobsInit, Registrations
<1>d. DOMAIN fifo = {} /\ DOMAIN queue = {} /\ DOMAIN handles = {} /\ Len(fifo) = 0 /\ Len(issued) = 0
    BY <1>w, <1>j
<1>r. /\ \A r \in Registrations : /\ job[r] = NoJob /\ job[r].state = "none" /\ job[r].fd = None
                                  /\ r > Len(issued)
      /\ \A t \in Tasks : operation[t] = None /\ wait[t].reg = None /\ ~wait[t].ready
      /\ \A w \in Workers : worker[w].pc = "loop" /\ worker[w].job = None
      /\ owner.pc = "free" /\ owner.job = None /\ owner.asleep = FALSE
    BY <1>w, <1>j, <1>d, WaitsAssumption DEF NoJob, NoWait, Resting, Registrations
<1>1. JobsType
  <2>1. NoJob \in JobRecords /\ NoWait \in WaitRecords /\ Resting \in Owners
        /\ [pc |-> "loop", job |-> None] \in Threads
    BY WaitsAssumption, JobsAssumption
       DEF NoJob, JobRecords, JobStates, JobKinds, Kinds, NoWait, WaitRecords, Resting, Owners, OwnerStates,
           Threads, ThreadStates
  <2>2. WaitsType /\ issued \in Seq({Completion})
    BY <1>w, <1>d, <2>1, WaitsAssumption DEF WaitsType
  <2>3. PoolType
    <3>1. job \in [Registrations -> JobRecords] /\ worker \in [Workers -> Threads]
        BY <1>j, <2>1
    <3>2. operation \in [Tasks -> 0..MaxWaits] /\ fifo \in Seq(Registrations)
        BY <1>j, WaitsAssumption
    <3> QED BY <1>j, <2>1, <3>1, <3>2 DEF PoolType
  <2>4. FilesType
    BY <1>j, <1>d, JobsAssumption DEF FilesType
  <2> QED BY <2>2, <2>3, <2>4 DEF JobsType
<1>2. StatesOK /\ PlacesOK /\ OwnerOK
    BY <1>d, <1>r DEF StatesOK, PlacesOK, OwnerOK
<1>3. TasksOK
    BY <1>d, <1>r, <1>j DEF TasksOK, Outstanding
<1>4. OpenOK /\ FilesOK
    BY <1>d, <1>r, <1>j DEF OpenOK, FilesOK
<1>5. WakesOK /\ SleepersOK
    BY <1>r DEF WakesOK, SleepersOK, Parked
<1> QED BY <1>1, <1>2, <1>3, <1>4, <1>5 DEF JobsInv

\* A step of the jobs.
LEMMA JobsStep == JobsInv /\ NextJobs => JobsInv'
    BY SubmitStep, SubmitFailsStep, ResultStep, EndStep, CancelStep, AskStep, FetchStep, StartStep, FinishStep,
       NotifyStep, AbortStep, SleepStep, DrainStep, AnswerStep, TurnStep, ClosePoolStep, JoinStep
       DEF NextJobs

\* The pools are in order in every state of the native resources.
THEOREM JobsInvariant == Spec => []NativeJobs
<1>1. Init => NativeJobs
    BY JobsStart DEF Init, NativeJobs, JobsRest
<1>2. NativeJobs /\ [Next]_vars => NativeJobs'
  <2> SUFFICES ASSUME NativeJobs, [Next]_vars PROVE NativeJobs'
    OBVIOUS
  <2>1. CASE NextJobs
    <3>1. part = "jobs" /\ part' = part
        BY <2>1 DEF NextJobs, InJobs
    <3> QED BY <2>1, <3>1, JobsStep DEF NativeJobs
  <2>2. CASE NextSockets \/ NextTls \/ NextCapture
    <3>1. part # "jobs" /\ part' = part /\ UNCHANGED jobVars
      <4>1. NextSockets => part # "jobs" /\ part' = part /\ UNCHANGED jobVars
        BY DEF NextSockets, InSockets
      <4>2. NextTls => part # "jobs" /\ part' = part /\ UNCHANGED jobVars
        BY DEF NextTls, InTls
      <4>3. NextCapture => part # "jobs" /\ part' = part /\ UNCHANGED jobVars
        BY DEF NextCapture, InCapture
      <4> QED BY <2>2, <4>1, <4>2, <4>3
    <3>2. JobsRest
        BY <3>1 DEF NativeJobs
    <3>3. JobsRest'
        BY <3>1, <3>2 DEF JobsRest, JobsInit, jobVars, poolVars, fileVars
    <3> QED BY <3>1, <3>3 DEF NativeJobs
  <2>3. CASE UNCHANGED vars
    <3>1. UNCHANGED <<waitVars, jobVars, part>>
        BY <2>3 DEF vars
    <3>2. JobsInv => JobsInv'
      <4> SUFFICES ASSUME JobsInv PROVE JobsInv'
        OBVIOUS
      <4>1. JobsType'
        BY <3>1 DEF JobsInv, JobsType, WaitsType, PoolType, FilesType, waitVars, jobVars, poolVars, fileVars
      <4>2. StatesOK' /\ PlacesOK' /\ OwnerOK'
        BY <3>1 DEF JobsInv, StatesOK, PlacesOK, OwnerOK, waitVars, jobVars, poolVars
      <4>3. TasksOK' /\ FilesOK' /\ OpenOK'
        BY <3>1 DEF JobsInv, TasksOK, FilesOK, OpenOK, Outstanding, waitVars, jobVars, poolVars, fileVars
      <4>4. WakesOK' /\ SleepersOK'
        BY <3>1 DEF JobsInv, WakesOK, SleepersOK, Looping, Parked, JobPending, waitVars, jobVars, poolVars
      <4> QED BY <4>1, <4>2, <4>3, <4>4 DEF JobsInv
    <3>3. JobsRest => JobsRest'
        BY <3>1 DEF JobsRest, JobsInit, jobVars, poolVars, fileVars
    <3> QED BY <3>1, <3>2, <3>3 DEF NativeJobs
  <2> QED BY <2>1, <2>2, <2>3 DEF Next
<1> QED BY <1>1, <1>2, PTL DEF Spec

\* Every open native file has exactly one owner and nobody owns a closed one, whatever
\* is cancelled, aborted or fails, for any number of tasks, threads and files.
THEOREM JobsDescriptors == Spec => []DescriptorsOwned
<1>1. NativeJobs => DescriptorsOwned
  <2>1. JobsInv => DescriptorsOwned
    BY OpenOwned DEF JobsInv
  <2>2. JobsRest => DescriptorsOwned
    <3> SUFFICES ASSUME JobsRest PROVE DescriptorsOwned
        OBVIOUS
    <3>1. DOMAIN handles = {} /\ open = {} /\ \A r \in DOMAIN job : job[r].fd = None
        BY DEF JobsRest, JobsInit, NoJob
    <3>2. Held = {}
        BY <3>1 DEF Held
    <3> QED BY <3>1, <3>2 DEF DescriptorsOwned
  <2> QED BY <2>1, <2>2 DEF NativeJobs
<1> QED BY <1>1, JobsInvariant, PTL

\* When a task is gone no thread runs its operation or will start it, and a result is
\* there when it is taken, for any number of tasks, threads and files.
THEOREM JobsDrained == Spec => []DrainedBeforeDone
<1>1. NativeJobs => DrainedBeforeDone
  <2>1. ASSUME JobsInv PROVE DrainedBeforeDone
    <3>0. DOMAIN job = Registrations
        BY <2>1, JobFacts DEF JobsInv
    <3>1. ASSUME NEW r \in DOMAIN job, job[r].state \in {"queued", "running", "complete"}
          PROVE  owner.job = r \/ \E t \in Tasks \ done : operation[t] = r
      <4>1. owner.job = r \/ \E t \in Tasks : operation[t] = r
        BY <2>1, <3>0, <3>1 DEF JobsInv, TasksOK, Outstanding
      <4>2. r # None
        BY <2>1, <3>0, JobFacts DEF JobsInv
      <4> QED BY <2>1, <4>1, <4>2 DEF JobsInv, TasksOK
    <3>2. ASSUME NEW w \in Workers, worker[w].pc = "running"
          PROVE  /\ job[worker[w].job].state = "running"
                 /\ owner.job = worker[w].job \/ \E t \in Tasks : operation[t] = worker[w].job
      <4>1. worker[w].job # None /\ job[worker[w].job].state = "running"
        BY <2>1, <3>2 DEF JobsInv, StatesOK
      <4>2. worker[w].job \in DOMAIN job
        BY <2>1, <3>0, <4>1, JobFacts, PlaceFacts DEF JobsInv
      <4> QED BY <4>1, <4>2, <3>1
    <3> QED BY <2>1, <3>1, <3>2 DEF DrainedBeforeDone, JobsInv, TasksOK
  <2>2. ASSUME JobsRest PROVE DrainedBeforeDone
    <3>1. /\ \A r \in DOMAIN job : job[r].state = "none"
          /\ \A w \in Workers : worker[w].pc = "loop"
          /\ ~fatal
        BY <2>2 DEF JobsRest, JobsInit, NoJob
    <3> QED BY <3>1 DEF DrainedBeforeDone
  <2> QED BY <2>1, <2>2 DEF NativeJobs
<1> QED BY <1>1, JobsInvariant, PTL
=============================================================================
