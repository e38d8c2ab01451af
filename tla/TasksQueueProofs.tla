-------------------------- MODULE TasksQueueProofs --------------------------
(***************************************************************************)
(* More about the task executor: what every suspended task waits for, the  *)
(* ready queue, and the absence of the states that drive() and             *)
(* finish_resume() call fatal.  The tree, the stack of a drain and the     *)
(* counted waits are in TasksProofs.                                       *)
(***************************************************************************)
EXTENDS TasksProofs

-----------------------------------------------------------------------------
(* The inductive invariant.                                                *)

\* An activation goes on, or a drain that its task has called for.
Busy == phase = "run" \/ (phase = "drain" /\ drain.then # "abandon")

\* Task i is the one that cancel_begin is about to end.
Ending(i) == phase = "drain" /\ drain.then = "cancel" /\ drain.of = i

\* The observation group of task i: children that know their observer, noted
\* once they have ended.
Grouped(i) ==
    /\ tasks[i].members \subseteq tasks[i].children
    /\ tasks[i].noted = {c \in tasks[i].members : tasks[c].state \in Terminal}
    /\ \A c \in tasks[i].members : tasks[c].waiter = i

\* Whatever task i is suspended for can still resume it.
Served(i) ==
    /\ tasks[i].state = "Waiting" => /\ tasks[i].on \in tasks[i].children
                                     /\ tasks[tasks[i].on].waiter = i
                                     /\ tasks[tasks[i].on].state \notin Terminal
                                     /\ tasks[i].on \notin tasks[i].members
                                     /\ tasks[i].ext = "none"
    /\ tasks[i].state = "Observing" => tasks[i].members # {} /\ tasks[i].noted = {}
    /\ tasks[i].state = "ExternalWaiting" <=> tasks[i].ext = "pending"

\* The waiter that task i will wake expects it; nobody waits for a task in
\* a result.
Expected(i) ==
    /\ tasks[i].state \notin Terminal /\ tasks[i].waiter # None =>
          \/ i \in tasks[tasks[i].waiter].members
          \/ tasks[tasks[i].waiter].state = "Waiting" /\ tasks[tasks[i].waiter].on = i
          \/ Ending(i)
    /\ tasks[i].handed => tasks[i].waiter = None

\* The tasks in the result of task i are counted.
Handed(i)  == {c \in tasks[i].children : tasks[c].handed}
Counted(i) == tasks[i].state \notin Terminal => tasks[i].returned = Cardinality(Handed(i))

Groups   == \A i \in Live : Grouped(i)
Waiters  == \A i \in Live : Expected(i)
Services == \A i \in Live \ Doomed : Served(i)
Counts   == \A i \in Live \ Doomed : Counted(i)

\* Only the current task runs, and it is not in the queue.
RunsOK ==
    /\ \A i \in Live : tasks[i].state = "Running" => Busy /\ i = current
    /\ Busy => tasks[current].state # "Queued"
    /\ phase = "drain" /\ drain.then \in {"drain", "cancel"} => tasks[current].state = "Running"
    /\ phase = "drain" /\ drain.then = "drain" /\ Height > 0 => ~tasks[Node(1)].handed

\* The child whose outcome the current task has to release.
OwedOK ==
    /\ owed # None => /\ Busy /\ owed \in Live
                      /\ tasks[owed].waiter = current /\ owed \notin tasks[current].members
                      /\ ~tasks[owed].handed
                      /\ tasks[owed].state \in Terminal \/ Ending(owed)
    /\ phase = "drain" /\ drain.then = "cancel" => owed = drain.of

\* Each queued task is in the ready queue once; the only other live task
\* that may be there was cancelled in this activation and is still to be
\* released by it.
Listing ==
    /\ \A k \in 1..Len(ready) : /\ ready[k] <= next
                                /\ ready[k] \in Live => tasks[ready[k]].state = "Queued" \/ ready[k] = owed
    /\ \A k, m \in 1..Len(ready) : ready[k] = ready[m] /\ ready[k] \in Live => k = m
    /\ \A i \in Live : tasks[i].state = "Queued" => \E k \in 1..Len(ready) : ready[k] = i

\* An ended task has its stamp, and nobody cancels the root.
Stamps ==
    /\ \A i \in Live : tasks[i].state \in Terminal => \E k \in 1..Len(finished) : finished[k] = i
    /\ Root \in Live => tasks[Root].state # "Cancelled"

QueueParts == Groups /\ Waiters /\ Services /\ Counts /\ RunsOK /\ OwedOK /\ Listing /\ Stamps
QueueInv   == /\ NoFatal
              /\ phase # "done" => QueueParts
              /\ AtRest => Root \in Live

-----------------------------------------------------------------------------
(* Steps of the owner that leave the table alone.                          *)

LEMMA QParts ==
    ASSUME QueueInv, phase # "done"
    PROVE  Groups /\ Waiters /\ Services /\ Counts /\ RunsOK /\ OwedOK /\ Listing /\ Stamps
BY DEF QueueInv, QueueParts

LEMMA QGoal ==
    ASSUME phase' # "fatal",
           phase' # "done" => /\ Groups' /\ Waiters' /\ Services' /\ Counts'
                              /\ RunsOK' /\ OwedOK' /\ Listing' /\ Stamps',
           AtRest' => Root \in Live'
    PROVE  QueueInv'
BY DEF QueueInv, QueueParts, NoFatal

\* The tasks above and below the one that runs.
LEMMA BusyFacts ==
    ASSUME TasksInv, Busy
    PROVE  current \in Live /\ current \in Id /\ current # None /\ tasks[current].state \notin Terminal
<1>1. Unended(current)
    BY Parts DEF Busy, RunOK, DrainOK, CallerOK, WorkTypes, Unended
<1> QED BY <1>1, Parts DEF Unended, Table, Id, None

\* The root lives as long as the run.
LEMMA RootUp == ASSUME TasksInv, QueueInv, AtRest \/ Busy \/ phase = "start" PROVE Root \in Live
<1>1. CASE AtRest
    BY <1>1 DEF QueueInv
<1>2. CASE Busy
    BY <1>2, BusyFacts, RootLives
<1>3. CASE phase = "start"
    BY <1>3, Parts DEF RunOK
<1> QED BY <1>1, <1>2, <1>3

LEMMA SameTable ==
    ASSUME TasksInv, QueueInv, AtRest' => AtRest \/ Busy \/ phase = "start",
           phase \notin {"done", "fatal"}, phase' \notin {"done", "fatal"},
           UNCHANGED <<tasks, next, finished, ready, owed>>,
           Doomed \subseteq Doomed', \A i : Ending(i) => Ending(i)', RunsOK', OwedOK'
    PROVE  QueueInv'
<1>1. Groups' /\ Waiters'
    BY QParts DEF Groups, Grouped, Waiters, Expected, Live
<1>2. Services' /\ Counts'
    BY QParts DEF Services, Served, Counts, Counted, Handed, Live
<1>3. Listing' /\ Stamps'
    BY QParts DEF Listing, Stamps, Live
<1>4. AtRest' => Root \in Live'
    BY RootUp DEF Live
<1> QED BY <1>1, <1>2, <1>3, <1>4, QGoal

\* Start, Poll, Taken and Wake keep the owner between activations.
LEMMA RestStep ==
    ASSUME TasksInv, QueueInv, phase \in {"start", "poll", "take", "pick", "block"},
           phase' \in {"start", "poll", "take", "pick", "block"},
           UNCHANGED <<tasks, next, finished, ready, owed>>
    PROVE  QueueInv'
<1>1. RunsOK /\ OwedOK
    BY QParts
<1>2. RunsOK'
    BY <1>1 DEF RunsOK, Busy, Live
<1>3. OwedOK'
    BY <1>1 DEF OwedOK, Busy, Live
<1>4. Doomed = {} /\ \A i : ~Ending(i)
    BY DEF Doomed, Ending
<1> QED BY <1>2, <1>3, <1>4, SameTable DEF AtRest, Busy

LEMMA QSuspend == ASSUME TasksInv, QueueInv, NEW p \in Live, Suspend(p) PROVE QueueInv'
<1>1. /\ phase = "run" /\ current = p /\ tasks[p].state # "Running" /\ owed = None
      /\ phase' = "poll" /\ UNCHANGED <<tasks, next, finished, ready, owed>>
    BY DEF Suspend
<1>2. RunsOK /\ OwedOK
    BY <1>1, QParts
<1>3. RunsOK' /\ OwedOK'
    BY <1>1, <1>2 DEF RunsOK, OwedOK, Busy, Live
<1>4. Doomed = {} /\ \A i : ~Ending(i)
    BY <1>1 DEF Doomed, Ending
<1> QED BY <1>1, <1>3, <1>4, SameTable DEF AtRest, Busy

\* A drain begins, for the task that runs or for the root.
LEMMA QBegin ==
    ASSUME TasksInv, QueueInv, NEW then \in {"fault", "drain"}, NEW work, NEW suppress,
           phase = "run" \/ (phase = "drain" /\ drain.then = "drain" /\ drain.work = <<>>),
           Begin(then, current, work, suppress),
           then = "drain" => /\ tasks[current].state = "Running"
                             /\ \E c : work = <<<<c, FALSE>>>> /\ ~tasks[c].handed,
           UNCHANGED <<tasks, next, finished, ready, current, owed>>
    PROVE  QueueInv'
<1>1. /\ phase' = "drain" /\ drain'.then = then /\ drain'.of = current /\ drain'.work = work
    BY DEF Begin
<1>2. RunsOK /\ OwedOK
    BY QParts
<1>3. Busy /\ Busy'
    BY <1>1 DEF Busy
<1>4. RunsOK'
  <2>1. ASSUME then = "drain" PROVE ~tasks'[Node(1)'].handed
    <3>1. PICK c : work = <<<<c, FALSE>>>> /\ ~tasks[c].handed
      BY <2>1
    <3>2. Node(1)' = c
      BY <1>1, <3>1 DEF Node
    <3> QED BY <3>1, <3>2
  <2> QED BY <1>1, <1>2, <1>3, <2>1 DEF RunsOK, Live
<1>5. OwedOK'
    BY <1>1, <1>2, <1>3 DEF OwedOK, Ending, Live
<1>6. Doomed = {}
  <2>1. drain.work = <<>> => Height = 0
    BY DEF Height
  <2> QED BY <2>1 DEF Doomed
<1>7. \A i : ~Ending(i)
    BY DEF Ending
<1> QED BY <1>1, <1>4, <1>5, <1>6, <1>7, SameTable DEF AtRest, Busy

LEMMA QFault == ASSUME TasksInv, QueueInv, NEW p \in Live, Fault(p) PROVE QueueInv'
<1>1. /\ phase = "run" /\ Begin("fault", current, <<>>, TRUE) /\ UNCHANGED <<tasks, next, finished, ready, current, owed>>
    BY DEF Fault
<1> QED BY <1>1, QBegin

LEMMA QDrainChild ==
    ASSUME TasksInv, QueueInv, NEW p \in Live, NEW c \in Live, NEW suppress \in BOOLEAN, DrainChild(p, c, suppress)
    PROVE  QueueInv'
<1>1. /\ phase = "run" /\ Begin("drain", current, <<<<c, FALSE>>>>, suppress) /\ ~tasks[c].handed
      /\ tasks[current].state = "Running" /\ UNCHANGED <<tasks, next, finished, ready, current, owed>>
    BY DEF DrainChild, Active
<1> QED BY <1>1, QBegin

LEMMA QAbandon == ASSUME TasksInv, QueueInv, Abandon PROVE QueueInv'
<1>1. /\ phase \in {"start", "poll", "block"} /\ phase' = "drain" /\ drain'.then = "abandon"
      /\ UNCHANGED <<tasks, next, finished, ready, current, owed>>
    BY DEF Abandon, Begin
<1>2. RunsOK /\ OwedOK
    BY <1>1, QParts
<1>3. RunsOK' /\ OwedOK'
    BY <1>1, <1>2 DEF RunsOK, OwedOK, Busy, Live
<1>4. Doomed = {} /\ \A i : ~Ending(i)
    BY <1>1 DEF Doomed, Ending
<1> QED BY <1>1, <1>3, <1>4, SameTable DEF AtRest, Busy

\* The stack grows.
LEMMA QStack ==
    ASSUME TasksInv, QueueInv, phase = "drain", UNCHANGED <<tasks, next, finished, ready, current, owed, phase>>,
           drain'.then = drain.then, drain'.of = drain.of,
           \A k \in 1..Height : \E m \in 1..Len(drain'.work) : drain'.work[m][1] = Node(k),
           drain.then = "drain" => Height > 0 /\ drain'.work[1][1] = Node(1)
    PROVE  QueueInv'
<1>1. RunsOK /\ OwedOK
    BY QParts
<1>2. Busy' <=> Busy
    BY DEF Busy
<1>3. RunsOK' /\ OwedOK'
    BY <1>1, <1>2 DEF RunsOK, OwedOK, Live, Node, Ending
<1>4. Doomed \subseteq Doomed'
  <2>1. \A k \in 1..Height : \E m \in 1..Height' : Node(m)' = Node(k)
    BY DEF Height, Node
  <2> QED BY <2>1 DEF Doomed
<1>5. \A i : Ending(i) => Ending(i)'
    BY DEF Ending
<1> QED BY <1>3, <1>4, <1>5, SameTable DEF AtRest, Busy

LEMMA QNextChild == ASSUME TasksInv, QueueInv, NextChild PROVE QueueInv'
<1>1. /\ phase = "drain" /\ drain.then \in {"fault", "cancel"} /\ drain.work = <<>>
      /\ \E w : drain' = [drain EXCEPT !.work = w]
      /\ UNCHANGED <<tasks, next, finished, ready, current, owed, phase>>
    BY DEF NextChild, Draining, sched
<1>2. drain'.then = drain.then /\ drain'.of = drain.of
    BY <1>1, Parts DEF WorkTypes
<1>3. Height = 0
    BY <1>1 DEF Height
<1> QED BY <1>1, <1>2, <1>3, QStack

\* The nodes of the stack keep their places when the top is expanded.
LEMMA QExpand == ASSUME TasksInv, QueueInv, Expand PROVE QueueInv'
<1>1. PICK t : /\ phase = "drain" /\ drain.work # <<>>
               /\ drain' = [drain EXCEPT !.work = Front(drain.work) \o <<<<Top[1], TRUE>>>> \o t]
               /\ t \in Seq(Id \X BOOLEAN)
               /\ UNCHANGED <<tasks, next, finished, ready, current, owed, phase>>
  <2> DEFINE kids == Increasing(tasks[Top[1]].children)
             t == [k \in DOMAIN kids |-> <<kids[k], FALSE>>]
  <2>1. /\ phase = "drain" /\ drain.work # <<>>
        /\ drain' = [drain EXCEPT !.work = Front(drain.work) \o <<<<Top[1], TRUE>>>> \o t]
        /\ UNCHANGED <<tasks, next, finished, ready, current, owed, phase>>
    BY DEF Expand, Draining, sched
  <2>2. Top[1] \in Live
    <3>1. Height \in Nat \ {0} /\ Top[1] = Node(Height)
      BY <2>1, Parts, EmptySeq, LenProperties DEF WorkTypes, Height, Top, Last, Node
    <3>2. Height \in 1..Height
      BY <3>1
    <3> QED BY <2>1, <3>1, <3>2, Parts DEF DrainOK, StackOK, StackLive
  <2>3. tasks[Top[1]].children \in SUBSET Id
    BY <2>2, Parts DEF Table, TaskRecord
  <2>4. tasks[Top[1]].children \subseteq Nat /\ IsFiniteSet(tasks[Top[1]].children)
    BY <2>3, Finite DEF Id
  <2>5. PICK n \in Nat : kids \in [1..n -> tasks[Top[1]].children]
    BY <2>4, Listed
  <2>6. \A k \in 1..n : kids[k] \in Id
    BY <2>3, <2>5
  <2>7. t \in [1..n -> Id \X BOOLEAN]
    BY <2>5, <2>6
  <2> HIDE DEF t
  <2>8. t \in Seq(Id \X BOOLEAN)
    BY <2>7, FunctionIsSeq
  <2> QED BY <2>1, <2>8
<1> DEFINE E == Id \X BOOLEAN
           a == Front(drain.work)
           b == <<<<Top[1], TRUE>>>>
<1>n. PICK n \in Nat : n = Height
    BY LenProperties, Parts DEF Height, WorkTypes
<1>2. /\ drain.work \in Seq(E) /\ n > 0 /\ Top = drain.work[n]
    BY <1>n, <1>1, Parts, EmptySeq, LenProperties DEF WorkTypes, Height, Top, Last
<1>3. a \in Seq(E) /\ Len(a) = n - 1 /\ \A k \in 1..n-1 : a[k] = drain.work[k]
    BY <1>n, <1>2, LenProperties DEF Front, Height
<1>4. b \in Seq(E) /\ Len(b) = 1 /\ b[1] = <<Top[1], TRUE>>
  <2>1. n \in 1..n /\ drain.work[n] \in E
    BY <1>n, <1>2, ElementOfSeq DEF Height
  <2>2. <<Top[1], TRUE>> \in E
    BY <1>2, <2>1
  <2>3. \A S : \A x \in S : <<x>> \in Seq(S)
    OBVIOUS
  <2>4. b \in Seq(E)
    BY ONLY <2>2, <2>3
  <2> QED BY <2>4
<1>5. t \in Seq(E)
    BY <1>1
<1>6. drain'.work = (a \o b) \o t /\ drain'.then = drain.then /\ drain'.of = drain.of
    BY <1>1, Parts DEF WorkTypes
<1> HIDE DEF a, b, E
<1>7. /\ a \o b \in Seq(E) /\ Len(a \o b) = n
      /\ \A k \in 1..n-1 : (a \o b)[k] = drain.work[k]
      /\ (a \o b)[n][1] = Top[1]
  <2>1. /\ a \o b \in Seq(E) /\ Len(a \o b) = Len(a) + Len(b)
        /\ \A k \in 1..Len(a) : (a \o b)[k] = a[k]
        /\ \A k \in Len(a)+1..Len(a)+Len(b) : (a \o b)[k] = b[k - Len(a)]
    BY <1>3, <1>4, Joined
  <2>2. Len(a) + Len(b) = n /\ n \in Len(a)+1..Len(a)+Len(b) /\ n - Len(a) = 1
    BY <1>n, <1>3, <1>4, <1>2
  <2>3. (a \o b)[n] = b[1]
    BY <2>1, <2>2
  <2> QED BY <1>3, <1>4, <2>1, <2>2, <2>3
<1>8. /\ Len(drain'.work) = n + Len(t) /\ Len(t) \in Nat
      /\ \A k \in 1..n : drain'.work[k] = (a \o b)[k]
  <2> DEFINE s == a \o b
  <2>1. s \in Seq(E) /\ Len(s) = n
    BY <1>7
  <2> HIDE DEF s
  <2>2. /\ Len(s \o t) = n + Len(t) /\ Len(t) \in Nat
        /\ \A k \in 1..n : (s \o t)[k] = s[k]
    BY <1>5, <2>1, Joined, LenProperties
  <2> QED BY <1>6, <2>2 DEF s
<1>9. \A k \in 1..n : k \in 1..Len(drain'.work) /\ drain'.work[k][1] = Node(k)
  <2> TAKE k \in 1..n
  <2>1. k \in 1..Len(drain'.work) /\ drain'.work[k] = (a \o b)[k]
    <3>1. k \in 1..n + Len(t)
      BY <1>n, <1>8
    <3> QED BY <1>8, <3>1
  <2>2. k \in 1..n-1 \/ k = n
    BY <1>n
  <2> QED BY <1>2, <1>7, <2>1, <2>2 DEF Node
<1>10. 1 \in 1..n
    BY <1>2
<1> QED BY <1>n, <1>1, <1>2, <1>6, <1>9, <1>10, QStack

LEMMA QFinishDrain == ASSUME TasksInv, QueueInv, FinishDrain PROVE QueueInv'
<1>1. /\ phase = "drain" /\ drain.work = <<>> /\ drain.then = "drain"
      /\ UNCHANGED <<tasks, next, finished, ready, current, owed>>
    BY DEF FinishDrain, Draining
<1>2. drain.of = current
    BY <1>1, Parts DEF DrainOK, CallerOK
<1>3. CASE drain.first /\ ~drain.suppress
  <2>1. Begin("fault", current, <<>>, TRUE)
    BY <1>2, <1>3 DEF FinishDrain
  <2> QED BY <1>1, <2>1, QBegin
<1>4. CASE ~(drain.first /\ ~drain.suppress)
  <2>1. phase' = "run"
    BY <1>4 DEF FinishDrain
  <2>2. RunsOK /\ OwedOK
    BY <1>1, QParts
  <2>3. Busy /\ Busy'
    BY <1>1, <2>1 DEF Busy
  <2>4. \A i : ~Ending(i)
    BY <1>1 DEF Ending
  <2>5. RunsOK' /\ OwedOK'
    BY <1>1, <2>1, <2>2, <2>3, <2>4 DEF RunsOK, OwedOK, Live
  <2>6. Doomed = {}
    <3>1. Height = 0
      BY <1>1 DEF Height
    <3> QED BY <1>1, <3>1 DEF Doomed
  <2> QED BY <1>1, <2>1, <2>4, <2>5, <2>6, SameTable DEF AtRest, Busy
<1> QED BY <1>3, <1>4

\* What the invariant reads of a task.
SeenSame(i) ==
    /\ tasks'[i].state = tasks[i].state /\ tasks'[i].on = tasks[i].on
    /\ tasks'[i].members = tasks[i].members /\ tasks'[i].noted = tasks[i].noted
    /\ tasks'[i].waiter = tasks[i].waiter /\ tasks'[i].children = tasks[i].children
    /\ tasks'[i].handed = tasks[i].handed /\ tasks'[i].returned = tasks[i].returned

\* A step that edits nothing of that.
LEMMA SeenStep ==
    ASSUME TasksInv, QueueInv, DOMAIN tasks' = Live, \A i \in Live : SeenSame(i),
           \A i \in Live \ Doomed : tasks'[i].ext = "pending" <=> tasks[i].ext = "pending",
           \A i \in Live : tasks[i].ext = "none" => tasks'[i].ext = "none",
           UNCHANGED <<next, finished, ready, current, phase, owed>>,
           drain'.work = drain.work, drain'.then = drain.then, drain'.of = drain.of
    PROVE  QueueInv'
<1>1. CASE phase = "done"
    BY <1>1, QGoal DEF AtRest
<1>2. CASE phase # "done"
  <2>1. /\ Doomed' = Doomed /\ Busy' = Busy /\ \A i : Ending(i)' = Ending(i)
        /\ Height' = Height /\ \A k : Node(k)' = Node(k)
    BY DEF Doomed, Busy, Ending, Height, Node
  <2>2. \A i \in Live : tasks[i].members \subseteq Live /\ tasks[i].children \subseteq Live
    BY <1>2, QParts, Parts DEF Groups, Grouped, OneTree, Table, TaskRecord
  <2>3. Groups'
    <3>1. \A i \in Live : Grouped(i)
      BY <1>2, QParts DEF Groups
    <3>2. \A i \in Live : Grouped(i)'
      BY <2>2, <3>1 DEF SeenSame, Grouped
    <3> QED BY <3>2 DEF Groups, Live
  <2>4. Waiters'
    <3>1. \A i \in Live : tasks[i].waiter = None \/ tasks[i].waiter \in Live
      BY Parts DEF OneTree, RootOK
    <3>2. \A i \in Live : Expected(i)
      BY <1>2, QParts DEF Waiters
    <3>3. \A i \in Live : Expected(i)'
      BY <2>1, <3>1, <3>2 DEF SeenSame, Expected
    <3> QED BY <3>3 DEF Waiters, Live
  <2>5. Services'
    <3>1. \A i \in Live \ Doomed : Served(i)
      BY <1>2, QParts DEF Services
    <3>2. ASSUME NEW i \in Live \ Doomed PROVE Served(i)'
      <4>1. Served(i) /\ SeenSame(i) /\ (tasks'[i].ext = "pending" <=> tasks[i].ext = "pending")
        BY <3>1
      <4>2. tasks[i].state = "Waiting" => SeenSame(tasks[i].on) /\ tasks'[i].ext = "none"
        BY <2>2, <4>1 DEF Served
      <4> QED BY <4>1, <4>2 DEF SeenSame, Served
    <3> QED BY <2>1, <3>2 DEF Services, Live
  <2>6. Counts'
    <3>1. \A i \in Live : Handed(i)' = Handed(i)
      BY <2>2 DEF SeenSame, Handed
    <3>2. \A i \in Live \ Doomed : Counted(i)
      BY <1>2, QParts DEF Counts
    <3>3. \A i \in Live \ Doomed : Counted(i)'
      BY <3>1, <3>2 DEF SeenSame, Counted
    <3> QED BY <2>1, <3>3 DEF Counts, Live
  <2>7. RunsOK'
    <3>1. RunsOK
      BY <1>2, QParts
    <3>2. Busy => current \in Live
      BY BusyFacts
    <3>3. Height > 0 /\ phase = "drain" => Node(1) \in Live
      <4>1. Height \in Nat
        BY Parts, LenProperties DEF WorkTypes, Height
      <4> QED BY <4>1, Parts DEF DrainOK, StackOK, StackLive
    <3> QED BY <2>1, <3>1, <3>2, <3>3 DEF RunsOK, SeenSame, Live, Busy
  <2>8. OwedOK'
    <3>1. OwedOK /\ (Busy => current \in Live)
      BY <1>2, QParts, BusyFacts
    <3> QED BY <2>1, <3>1 DEF OwedOK, SeenSame, Live
  <2>9. Listing' /\ Stamps'
    BY <1>2, QParts DEF Listing, Stamps, SeenSame, Live
  <2> QED BY <1>2, <2>3, <2>4, <2>5, <2>6, <2>7, <2>8, <2>9, QGoal DEF QueueInv, NoFatal, AtRest, Live
<1> QED BY <1>1, <1>2

LEMMA QFire == ASSUME TasksInv, QueueInv, NEW r \in armed, Fire(r) PROVE QueueInv'
BY SeenStep DEF Fire, SeenSame, Live, sched

LEMMA QStutter == ASSUME TasksInv, QueueInv, UNCHANGED vars PROVE QueueInv'
BY SeenStep DEF vars, SeenSame, Live, sched

LEMMA QDone == ASSUME phase' = "done" PROVE QueueInv'
BY QGoal DEF AtRest

\* Waits, jobs and cleanups of one task.
LEMMA OwnStep ==
    ASSUME TasksInv, QueueInv, NEW p \in Live, tasks' = [tasks EXCEPT ![p] = tasks'[p]],
           \A f \in DOMAIN tasks[p] \ {"cleanups", "ext", "job"} : tasks'[p][f] = tasks[p][f],
           p \in Doomed \/ (tasks'[p].ext = "pending" <=> tasks[p].ext = "pending"),
           tasks[p].ext = "none" => tasks'[p].ext = "none",
           UNCHANGED <<next, finished, ready, current, phase, owed>>,
           drain'.work = drain.work, drain'.then = drain.then, drain'.of = drain.of
    PROVE  QueueInv'
<1>1. tasks \in [Live -> TaskRecord] /\ tasks[p] \in TaskRecord
    BY Parts DEF Table
<1>2. DOMAIN tasks' = Live /\ \A i \in Live \ {p} : tasks'[i] = tasks[i]
    BY <1>1
<1>3. SeenSame(p)
    BY <1>1 DEF TaskRecord, SeenSame
<1>4. \A i \in Live : SeenSame(i)
    BY <1>2, <1>3 DEF SeenSame
<1> QED BY <1>2, <1>4, SeenStep

LEMMA QCleanupPush ==
    ASSUME TasksInv, QueueInv, NEW p \in Live, NEW kind, CleanupPush(p, kind) PROVE QueueInv'
<1>1. tasks \in [Live -> TaskRecord] /\ tasks[p] \in TaskRecord
    BY Parts DEF Table
<1>2. /\ tasks' = [tasks EXCEPT ![p] = tasks'[p]]
      /\ tasks'[p] = [tasks[p] EXCEPT !.cleanups = Append(tasks[p].cleanups, kind)]
    BY <1>1 DEF CleanupPush
<1>3. /\ \A f \in DOMAIN tasks[p] \ {"cleanups", "ext", "job"} : tasks'[p][f] = tasks[p][f]
      /\ tasks'[p].ext = tasks[p].ext
    BY <1>1, <1>2 DEF TaskRecord
<1> QED BY <1>2, <1>3, OwnStep DEF CleanupPush, sched

LEMMA QCleanupPop == ASSUME TasksInv, QueueInv, NEW p \in Live, CleanupPop(p) PROVE QueueInv'
<1>1. tasks \in [Live -> TaskRecord] /\ tasks[p] \in TaskRecord
    BY Parts DEF Table
<1>2. PICK k : tasks' = [tasks EXCEPT ![p].cleanups = RemoveAt(@, k)]
    BY DEF CleanupPop
<1>3. /\ tasks' = [tasks EXCEPT ![p] = tasks'[p]]
      /\ tasks'[p] = [tasks[p] EXCEPT !.cleanups = RemoveAt(tasks[p].cleanups, k)]
    BY <1>1, <1>2
<1>4. /\ \A f \in DOMAIN tasks[p] \ {"cleanups", "ext", "job"} : tasks'[p][f] = tasks[p][f]
      /\ tasks'[p].ext = tasks[p].ext
    BY <1>1, <1>3 DEF TaskRecord
<1> QED BY <1>3, <1>4, OwnStep DEF CleanupPop, sched

LEMMA QResumeWait == ASSUME TasksInv, QueueInv, NEW p \in Live, ResumeWait(p) PROVE QueueInv'
<1>1. tasks \in [Live -> TaskRecord] /\ tasks[p] \in TaskRecord
    BY Parts DEF Table
<1>2. /\ tasks' = [tasks EXCEPT ![p] = tasks'[p]]
      /\ tasks'[p] = [tasks[p] EXCEPT !.ext = "none"] /\ tasks[p].ext = "ready"
    BY <1>1 DEF ResumeWait
<1>3. /\ \A f \in DOMAIN tasks[p] \ {"cleanups", "ext", "job"} : tasks'[p][f] = tasks[p][f]
      /\ tasks'[p].ext = "none"
    BY <1>1, <1>2 DEF TaskRecord
<1> QED BY <1>2, <1>3, OwnStep DEF ResumeWait, sched

LEMMA QWorkerResult == ASSUME TasksInv, QueueInv, NEW p \in Live, WorkerResult(p) PROVE QueueInv'
<1>1. tasks \in [Live -> TaskRecord] /\ tasks[p] \in TaskRecord /\ tasks[p].ext # "pending"
    BY Parts DEF Table, WorkerResult, ExtOK
<1>2. /\ tasks' = [tasks EXCEPT ![p] = tasks'[p]]
      /\ tasks'[p] = [tasks[p] EXCEPT !.ext = "none", !.job = "none"]
    BY <1>1 DEF WorkerResult
<1>3. /\ \A f \in DOMAIN tasks[p] \ {"cleanups", "ext", "job"} : tasks'[p][f] = tasks[p][f]
      /\ tasks'[p].ext = "none"
    BY <1>1, <1>2 DEF TaskRecord
<1> QED BY <1>1, <1>2, <1>3, OwnStep DEF WorkerResult, sched

LEMMA QJobComplete == ASSUME TasksInv, QueueInv, NEW p \in Live, JobComplete(p) PROVE QueueInv'
<1>1. tasks \in [Live -> TaskRecord] /\ tasks[p] \in TaskRecord
    BY Parts DEF Table
<1>2. /\ tasks' = [tasks EXCEPT ![p] = tasks'[p]]
      /\ tasks'[p] = [tasks[p] EXCEPT !.job = "complete"]
    BY <1>1 DEF JobComplete
<1>3. /\ \A f \in DOMAIN tasks[p] \ {"cleanups", "ext", "job"} : tasks'[p][f] = tasks[p][f]
      /\ tasks'[p].ext = tasks[p].ext
    BY <1>1, <1>2 DEF TaskRecord
<1> QED BY <1>1, <1>2, <1>3, OwnStep DEF JobComplete, sched

\* A drain retires only tasks it dooms.
LEMMA RetiringDoomed == ASSUME TasksInv, Retiring # None PROVE Retiring \in Doomed
<1>1. Height \in Nat
    BY Parts, LenProperties DEF WorkTypes, Height
<1>2. CASE drain.work # <<>>
  <2>1. Height \in 1..Height /\ Retiring = Node(Height) /\ phase = "drain"
    BY <1>1, <1>2, RetiringFacts
  <2> QED BY <2>1 DEF Doomed
<1>3. CASE drain.work = <<>>
    BY <1>3, RetiringFacts DEF Doomed
<1> QED BY <1>2, <1>3

LEMMA QRetireWait == ASSUME TasksInv, QueueInv, NEW failure, RetireWait(failure) PROVE QueueInv'
<1>0. PICK id : id = Retiring
    OBVIOUS
<1>1. /\ id # None /\ tasks' = [tasks EXCEPT ![id].ext = "none", ![id].job = "none"]
      /\ drain' = [drain EXCEPT !.first = @ \/ failure] /\ UNCHANGED <<next, finished, ready, current, phase, owed>>
    BY <1>0 DEF RetireWait, sched
<1>2. id \in Live /\ drain \in WorkTypes /\ id \in Doomed
    BY <1>0, <1>1, RetiringFacts, RetiringDoomed
<1>3. tasks \in [Live -> TaskRecord] /\ tasks[id] \in TaskRecord
    BY <1>2, Parts DEF Table
<1>4. /\ tasks' = [tasks EXCEPT ![id] = tasks'[id]]
      /\ tasks'[id] = [tasks[id] EXCEPT !.ext = "none", !.job = "none"]
    BY <1>1, <1>2, <1>3
<1>5. /\ \A f \in DOMAIN tasks[id] \ {"cleanups", "ext", "job"} : tasks'[id][f] = tasks[id][f]
      /\ tasks'[id].ext = "none"
    BY <1>3, <1>4 DEF TaskRecord
<1>6. drain'.work = drain.work /\ drain'.then = drain.then /\ drain'.of = drain.of
    BY <1>1, <1>2 DEF WorkTypes
<1> QED BY <1>1, <1>2, <1>4, <1>5, <1>6, OwnStep

LEMMA QRunCleanup == ASSUME TasksInv, QueueInv, NEW failure, RunCleanup(failure) PROVE QueueInv'
<1>0. PICK id : id = Retiring
    OBVIOUS
<1>1. /\ id # None /\ tasks' = [tasks EXCEPT ![id].cleanups = Front(@)]
      /\ drain' = [drain EXCEPT !.first = @ \/ failure] /\ UNCHANGED <<next, finished, ready, current, phase, owed>>
    BY <1>0 DEF RunCleanup, sched
<1>2. id \in Live /\ drain \in WorkTypes /\ id \in Doomed
    BY <1>0, <1>1, RetiringFacts, RetiringDoomed
<1>3. tasks \in [Live -> TaskRecord] /\ tasks[id] \in TaskRecord
    BY <1>2, Parts DEF Table
<1>4. /\ tasks' = [tasks EXCEPT ![id] = tasks'[id]]
      /\ tasks'[id] = [tasks[id] EXCEPT !.cleanups = Front(tasks[id].cleanups)]
    BY <1>1, <1>2, <1>3
<1>5. /\ \A f \in DOMAIN tasks[id] \ {"cleanups", "ext", "job"} : tasks'[id][f] = tasks[id][f]
      /\ tasks'[id].ext = tasks[id].ext
    BY <1>3, <1>4 DEF TaskRecord
<1>6. drain'.work = drain.work /\ drain'.then = drain.then /\ drain'.of = drain.of
    BY <1>1, <1>2 DEF WorkTypes
<1> QED BY <1>1, <1>2, <1>4, <1>5, <1>6, OwnStep

-----------------------------------------------------------------------------
(* Calls of the running task.                                              *)

LEMMA RunFacts ==
    ASSUME TasksInv, QueueInv, phase = "run"
    PROVE  /\ Doomed = {} /\ \A i : ~Ending(i)
           /\ \A i \in Live : Grouped(i) /\ Expected(i) /\ Served(i) /\ Counted(i)
           /\ \A i \in Live : /\ tasks[i].members \subseteq Live /\ tasks[i].children \subseteq Live
                              /\ tasks[i].waiter \in {None, tasks[i].parent}
           /\ \A i, c \in Live : c \in tasks[i].children <=> tasks[c].parent = i
           /\ RunsOK /\ OwedOK /\ Listing /\ Stamps /\ current \in Live /\ tasks[current].state # "Queued"
<1>1. Doomed = {} /\ \A i : ~Ending(i)
    BY DEF Doomed, Ending
<1>2. Groups /\ Waiters /\ Services /\ Counts /\ RunsOK /\ OwedOK /\ Listing /\ Stamps
    BY QParts
<1>3. \A i \in Live : Grouped(i) /\ Expected(i) /\ Served(i) /\ Counted(i)
    BY <1>1, <1>2 DEF Groups, Waiters, Services, Counts
<1>4. \A i \in Live : tasks[i].children \subseteq Id
    BY Parts DEF Table, TaskRecord
<1>5. \A i \in Live : tasks[i].children \subseteq Live /\ tasks[i].waiter \in {None, tasks[i].parent}
    BY <1>4, Parts DEF OneTree
<1>6. \A i \in Live : tasks[i].members \subseteq Live
    BY <1>3, <1>5 DEF Grouped
<1>7. \A i, c \in Live : c \in tasks[i].children <=> tasks[c].parent = i
    BY Parts DEF OneTree, Table
<1>8. current \in Live /\ tasks[current].state # "Queued"
    BY <1>2, BusyFacts DEF Busy, RunsOK
<1> QED BY <1>1, <1>2, <1>3, <1>5, <1>6, <1>7, <1>8

LEMMA RunStep ==
    ASSUME TasksInv, QueueInv, phase = "run", NEW p, p = current,
           UNCHANGED <<phase, current, ready, next, finished>>, DOMAIN tasks' = Live,
           \A i \in Live \ {p} : tasks'[i].state = tasks[i].state, tasks'[p].state \notin Terminal \cup {"Queued"},
           owed' = owed \/ owed = None,
           \A i \in Live : Grouped(i)', \A i \in Live : Expected(i)',
           \A i \in Live : Served(i)', \A i \in Live : Counted(i)', OwedOK'
    PROVE  QueueInv'
<1>1. Groups' /\ Waiters' /\ Services' /\ Counts'
    BY DEF Groups, Waiters, Services, Counts, Live
<1>2. RunsOK /\ Listing /\ p \in Live /\ tasks[p].state # "Queued" /\ None \notin Live
    BY RunFacts, Parts DEF Table, Id, None
<1>3. RunsOK'
    BY <1>2 DEF RunsOK, Busy, Live
<1>4. Listing'
  <2>1. \A k \in 1..Len(ready) : ready[k] \in Live => tasks'[ready[k]].state = "Queued" \/ ready[k] = owed'
    BY <1>2 DEF Listing
  <2>2. \A i \in Live : tasks'[i].state = "Queued" => \E k \in 1..Len(ready) : ready[k] = i
    BY <1>2 DEF Listing
  <2> QED BY <1>2, <2>1, <2>2 DEF Listing, Live
<1>5. Stamps'
    BY RunFacts DEF Stamps, Live, Terminal
<1> QED BY <1>1, <1>3, <1>4, <1>5, QGoal DEF AtRest

\* What task i is suspended for.
WaitsSame(i) ==
    /\ tasks'[i].state = tasks[i].state /\ tasks'[i].on = tasks[i].on /\ tasks'[i].ext = tasks[i].ext
    /\ tasks'[i].members = tasks[i].members /\ tasks'[i].noted = tasks[i].noted

LEMMA QReturn == ASSUME TasksInv, QueueInv, NEW p \in Live, NEW c \in Live, Return(p, c) PROVE QueueInv'
<1>1. /\ phase = "run" /\ p = current /\ tasks \in [Live -> TaskRecord]
      /\ tasks[p] \in TaskRecord /\ tasks[c] \in TaskRecord /\ c # p /\ tasks[c].parent = p /\ p # None /\ c # None
      /\ tasks[p].state = "Running" /\ ~tasks[c].handed /\ tasks[c].waiter = None
      /\ UNCHANGED <<phase, current, ready, next, finished, owed, drain>>
    BY ActiveFacts, ChildFacts, Parts DEF Return, Table, sched
<1>2. /\ tasks' = [tasks EXCEPT ![p] = tasks'[p], ![c] = tasks'[c]]
      /\ tasks'[p] = [tasks[p] EXCEPT !.returned = @ + 1]
      /\ tasks'[c] = [tasks[c] EXCEPT !.handed = TRUE]
    BY <1>1 DEF Return
<1>3. DOMAIN tasks' = Live /\ \A i \in Live \ {p, c} : tasks'[i] = tasks[i]
    BY <1>1, <1>2
<1>4. /\ \A f \in DOMAIN tasks[p] \ {"returned"} : tasks'[p][f] = tasks[p][f]
      /\ tasks'[p].returned = tasks[p].returned + 1
      /\ \A f \in DOMAIN tasks[c] \ {"handed"} : tasks'[c][f] = tasks[c][f]
      /\ tasks'[c].handed = TRUE
    BY <1>1, <1>2 DEF TaskRecord
<1>p. /\ WaitsSame(p) /\ tasks'[p].children = tasks[p].children /\ tasks'[p].handed = tasks[p].handed
      /\ tasks'[p].waiter = tasks[p].waiter /\ tasks'[p].returned = tasks[p].returned + 1
    BY <1>1, <1>4 DEF TaskRecord, WaitsSame
<1>c. /\ WaitsSame(c) /\ tasks'[c].children = tasks[c].children /\ tasks'[c].handed = TRUE
      /\ tasks'[c].waiter = tasks[c].waiter /\ tasks'[c].returned = tasks[c].returned
    BY <1>1, <1>4 DEF TaskRecord, WaitsSame
<1>5. \A i \in Live : /\ tasks'[i].state = tasks[i].state /\ tasks'[i].on = tasks[i].on
                      /\ tasks'[i].members = tasks[i].members /\ tasks'[i].noted = tasks[i].noted
                      /\ tasks'[i].waiter = tasks[i].waiter /\ tasks'[i].children = tasks[i].children
                      /\ tasks'[i].ext = tasks[i].ext
                      /\ i # c => tasks'[i].handed = tasks[i].handed
                      /\ i # p => tasks'[i].returned = tasks[i].returned
    BY <1>3, <1>p, <1>c DEF WaitsSame
<1>6. \A i \in Live : Grouped(i)'
    BY <1>1, <1>5, RunFacts DEF Grouped
<1>7. \A i \in Live : Expected(i)'
  <2>1. \A i \in Live : tasks[i].waiter = None \/ tasks[i].waiter \in Live
    BY Parts DEF OneTree, RootOK
  <2> QED BY <1>1, <1>5, <2>1, RunFacts DEF Expected
<1>8. \A i \in Live : Served(i)'
    BY <1>1, <1>5, RunFacts DEF Served
<1>9. \A i \in Live : Counted(i)'
  <2>1. \A i \in Live \ {p} : Handed(i)' = Handed(i)
    BY <1>1, <1>5, RunFacts DEF Handed
  <2>2. Handed(p)' = Handed(p) \cup {c} /\ c \notin Handed(p)
    BY <1>1, <1>4, <1>5, RunFacts DEF Handed
  <2>3. IsFiniteSet(Handed(p))
    <3>1. Handed(p) \subseteq Id
      BY <1>1 DEF Handed, TaskRecord
    <3> QED BY <3>1, Finite
  <2>4. Cardinality(Handed(p)') = Cardinality(Handed(p)) + 1
    BY <2>2, <2>3, FS_AddElement
  <2>5. tasks'[p].returned = Cardinality(Handed(p)')
    BY <1>1, <1>4, <2>4, RunFacts DEF Counted, Terminal
  <2> QED BY <1>1, <1>5, <2>1, <2>5, RunFacts DEF Counted
<1>10. OwedOK'
  <2>1. OwedOK /\ owed # c
    BY <1>1, RunFacts DEF OwedOK
  <2> QED BY <1>1, <1>3, <1>5, <2>1 DEF OwedOK, Live, Busy, Ending
<1>11. tasks'[p].state \notin Terminal \cup {"Queued"}
    BY <1>1, <1>5 DEF Terminal
<1> QED BY <1>1, <1>3, <1>5, <1>6, <1>7, <1>8, <1>9, <1>10, <1>11, RunStep

\* What task i owns and returns.
OwnsSame(i) ==
    /\ tasks'[i].children = tasks[i].children /\ tasks'[i].handed = tasks[i].handed
    /\ tasks'[i].returned = tasks[i].returned
    /\ tasks'[i].state \in Terminal <=> tasks[i].state \in Terminal

LEMMA OwnsStep ==
    ASSUME TasksInv, QueueInv, phase = "run", \A i \in Live : OwnsSame(i)
    PROVE  \A i \in Live : Counted(i)'
<1>1. \A i \in Live : Handed(i)' = Handed(i)
    BY RunFacts DEF OwnsSame, Handed
<1> QED BY <1>1, RunFacts DEF OwnsSame, Counted

\* The caller p and one of its children.
LEMMA PairFacts ==
    ASSUME TasksInv, NEW p \in Live, NEW c, Active(p), Child(p, c)
    PROVE  /\ phase = "run" /\ p = current /\ tasks \in [Live -> TaskRecord] /\ c \in Live /\ None \notin Live
           /\ tasks[p] \in TaskRecord /\ tasks[c] \in TaskRecord /\ c # p /\ tasks[c].parent = p
           /\ p # None /\ c # None /\ tasks[p].state = "Running" /\ tasks[p].ext = "none"
           /\ p \in Id /\ c \in Id
           /\ \A i \in Live : c \in tasks[i].children <=> i = p
           /\ "Running" \notin Terminal
BY ActiveFacts, ChildFacts, Parts DEF Table, OneTree, Terminal, Id, None

LEMMA QAwait == ASSUME TasksInv, QueueInv, NEW p \in Live, NEW c \in Live, Await(p, c) PROVE QueueInv'
<1>1. Active(p) /\ Child(p, c) /\ c \notin tasks[p].members /\ ~tasks[c].handed
      /\ UNCHANGED <<phase, current, ready, next, finished, owed, drain>>
    BY DEF Await, sched
<1>2. /\ phase = "run" /\ p = current /\ tasks \in [Live -> TaskRecord]
      /\ tasks[p] \in TaskRecord /\ tasks[c] \in TaskRecord /\ c # p /\ p # None /\ c # None
      /\ tasks[p].state = "Running" /\ tasks[p].ext = "none" /\ p \in Id /\ c \in Id
      /\ \A i \in Live : c \in tasks[i].children <=> i = p
    BY <1>1, PairFacts
<1>3. /\ tasks' = [tasks EXCEPT ![p] = tasks'[p], ![c] = tasks'[c]]
      /\ tasks[c].state \in Terminal => tasks'[p] = tasks[p]
      /\ tasks[c].state \notin Terminal => tasks'[p] = [tasks[p] EXCEPT !.state = "Waiting", !.on = c]
      /\ tasks'[c] = [tasks[c] EXCEPT !.waiter = p]
    BY <1>2 DEF Await
<1>4. DOMAIN tasks' = Live /\ \A i \in Live \ {p, c} : tasks'[i] = tasks[i]
    BY <1>2, <1>3
<1>c. WaitsSame(c) /\ OwnsSame(c) /\ tasks'[c].waiter = p
    BY <1>2, <1>3 DEF TaskRecord, WaitsSame, OwnsSame
<1>p. /\ OwnsSame(p) /\ tasks'[p].members = tasks[p].members /\ tasks'[p].noted = tasks[p].noted
      /\ tasks'[p].waiter = tasks[p].waiter /\ tasks'[p].ext = "none"
      /\ tasks[c].state \in Terminal => tasks'[p].state = "Running"
      /\ tasks[c].state \notin Terminal => tasks'[p].state = "Waiting" /\ tasks'[p].on = c
  <2>1. CASE tasks[c].state \in Terminal
    BY <1>2, <1>3, <2>1 DEF TaskRecord, OwnsSame
  <2>2. CASE tasks[c].state \notin Terminal
    <3>1. tasks'[p] = [tasks[p] EXCEPT !.state = "Waiting", !.on = c]
      BY <1>3, <2>2
    <3>2. /\ \A f \in DOMAIN tasks[p] \ {"state", "on"} : tasks'[p][f] = tasks[p][f]
          /\ tasks'[p].state = "Waiting" /\ tasks'[p].on = c
      BY <1>2, <3>1 DEF TaskRecord
    <3>3. DOMAIN tasks[p] \ {"state", "on"} = {"parent", "children", "returned", "handed", "extracted",
              "cleanups", "waiter", "members", "noted", "ext", "reg", "job"}
      BY <1>2 DEF TaskRecord
    <3>4. /\ tasks'[p].children = tasks[p].children /\ tasks'[p].handed = tasks[p].handed
          /\ tasks'[p].returned = tasks[p].returned /\ tasks'[p].members = tasks[p].members
          /\ tasks'[p].noted = tasks[p].noted /\ tasks'[p].waiter = tasks[p].waiter
          /\ tasks'[p].ext = tasks[p].ext
      BY ONLY <3>2, <3>3
    <3> QED BY <1>2, <2>2, <3>2, <3>4 DEF OwnsSame, Terminal
  <2> QED BY <2>1, <2>2
<1>5. \A i \in Live : /\ OwnsSame(i) /\ tasks'[i].members = tasks[i].members /\ tasks'[i].noted = tasks[i].noted
                      /\ tasks'[i].state \in Terminal <=> tasks[i].state \in Terminal
                      /\ i # c => tasks'[i].waiter = tasks[i].waiter
                      /\ i # p => WaitsSame(i)
    BY <1>4, <1>c, <1>p DEF OwnsSame, WaitsSame
<1>6. \A i \in Live : Grouped(i)'
    BY <1>1, <1>2, <1>5, RunFacts DEF Grouped, OwnsSame
<1>7. \A i \in Live : Expected(i)'
  <2>1. \A i \in Live : tasks[i].waiter = None \/ tasks[i].waiter \in Live
    BY Parts DEF OneTree, RootOK
  <2>2. Expected(c)'
    BY <1>1, <1>c, <1>p DEF Expected, WaitsSame, OwnsSame
  <2>3. \A i \in Live \ {c} : Expected(i)'
    BY <1>2, <1>5, <2>1, RunFacts DEF Expected, WaitsSame, OwnsSame
  <2> QED BY <2>2, <2>3
<1>8. \A i \in Live : Served(i)'
  <2>1. Served(p)'
    BY <1>1, <1>2, <1>c, <1>p DEF Served, WaitsSame, OwnsSame, Terminal
  <2>2. \A i \in Live \ {p} : Served(i)'
    BY <1>2, <1>5, RunFacts DEF Served, WaitsSame, OwnsSame
  <2> QED BY <2>1, <2>2
<1>9. \A i \in Live : Counted(i)'
    BY <1>2, <1>5, OwnsStep
<1>10. OwedOK'
  <2>1. OwedOK
    BY <1>2, RunFacts
  <2> QED BY <1>1, <1>2, <1>4, <1>c, <1>5, <2>1 DEF OwedOK, Live, Busy, Ending, OwnsSame
<1>11. tasks'[p].state \notin Terminal \cup {"Queued"} /\ \A i \in Live \ {p} : tasks'[i].state = tasks[i].state
    BY <1>p, <1>5 DEF WaitsSame, Terminal
<1> QED BY <1>1, <1>2, <1>4, <1>6, <1>7, <1>8, <1>9, <1>10, <1>11, RunStep

LEMMA QObserve == ASSUME TasksInv, QueueInv, NEW p \in Live, NEW c \in Live, Observe(p, c) PROVE QueueInv'
<1>1. Active(p) /\ Child(p, c) /\ tasks[c].waiter = None /\ ~tasks[c].handed
      /\ UNCHANGED <<phase, current, ready, next, finished, owed, drain>>
    BY DEF Observe, sched
<1>2. /\ phase = "run" /\ p = current /\ tasks \in [Live -> TaskRecord]
      /\ tasks[p] \in TaskRecord /\ tasks[c] \in TaskRecord /\ c # p /\ p # None /\ c # None
      /\ tasks[p].state = "Running" /\ tasks[p].ext = "none" /\ p \in Id /\ c \in Id
      /\ \A i \in Live : c \in tasks[i].children <=> i = p
    BY <1>1, PairFacts
<1>3. PICK set : /\ tasks' = [tasks EXCEPT ![p] = tasks'[p], ![c] = tasks'[c]]
                 /\ tasks'[p] = [tasks[p] EXCEPT !.members = @ \cup {c}, !.noted = set]
                 /\ tasks'[c] = [tasks[c] EXCEPT !.waiter = p]
                 /\ set = IF tasks[c].state \in Terminal THEN tasks[p].noted \cup {c} ELSE tasks[p].noted
    BY <1>2 DEF Observe
<1>4. DOMAIN tasks' = Live /\ \A i \in Live \ {p, c} : tasks'[i] = tasks[i]
    BY <1>2, <1>3
<1>c. WaitsSame(c) /\ OwnsSame(c) /\ tasks'[c].waiter = p
    BY <1>2, <1>3 DEF TaskRecord, WaitsSame, OwnsSame
<1>p. /\ OwnsSame(p) /\ tasks'[p].members = tasks[p].members \cup {c} /\ tasks'[p].noted = set
      /\ tasks'[p].waiter = tasks[p].waiter /\ tasks'[p].ext = "none" /\ tasks'[p].state = "Running"
    BY <1>2, <1>3 DEF TaskRecord, OwnsSame
<1>5. \A i \in Live : /\ OwnsSame(i) /\ tasks'[i].state = tasks[i].state
                      /\ i # c => tasks'[i].waiter = tasks[i].waiter
                      /\ i # p => WaitsSame(i)
    BY <1>2, <1>4, <1>c, <1>p DEF OwnsSame, WaitsSame
<1>6. \A i \in Live : Grouped(i)'
  <2>1. Grouped(p)'
    <3>1. Grouped(p) /\ tasks[p].members \subseteq Live
      BY <1>2, RunFacts
    <3>2. tasks'[p].members \subseteq tasks'[p].children /\ \A d \in tasks'[p].members : tasks'[d].waiter = p
      BY <1>2, <1>c, <1>p, <1>5, <3>1 DEF Grouped, OwnsSame
    <3>3. tasks'[p].noted = {d \in tasks'[p].members : tasks'[d].state \in Terminal}
      BY <1>3, <1>p, <1>5, <3>1 DEF Grouped
    <3> QED BY <3>2, <3>3 DEF Grouped
  <2>2. \A i \in Live \ {p} : Grouped(i)'
    BY <1>2, <1>5, RunFacts DEF Grouped, OwnsSame, WaitsSame
  <2> QED BY <2>1, <2>2
<1>7. \A i \in Live : Expected(i)'
  <2>1. \A i \in Live : tasks[i].waiter = None \/ tasks[i].waiter \in Live
    BY Parts DEF OneTree, RootOK
  <2>2. Expected(c)'
    BY <1>1, <1>c, <1>p DEF Expected, WaitsSame, OwnsSame
  <2>3. \A i \in Live \ {c} : Expected(i)'
    BY <1>2, <1>p, <1>5, <2>1, RunFacts DEF Expected, WaitsSame, OwnsSame
  <2> QED BY <2>2, <2>3
<1>8. \A i \in Live : Served(i)'
  <2>1. Served(p)'
    BY <1>p DEF Served
  <2>2. \A i \in Live \ {p} : Served(i)'
    BY <1>2, <1>5, RunFacts DEF Served, WaitsSame, OwnsSame
  <2> QED BY <2>1, <2>2
<1>9. \A i \in Live : Counted(i)'
    BY <1>2, <1>5, OwnsStep
<1>10. OwedOK'
  <2>1. OwedOK
    BY <1>2, RunFacts
  <2> QED BY <1>1, <1>2, <1>4, <1>p, <1>5, <2>1 DEF OwedOK, Live, Busy, Ending, OwnsSame
<1>11. tasks'[p].state \notin Terminal \cup {"Queued"} /\ \A i \in Live \ {p} : tasks'[i].state = tasks[i].state
    BY <1>p, <1>5 DEF WaitsSame, Terminal
<1> QED BY <1>1, <1>2, <1>4, <1>6, <1>7, <1>8, <1>9, <1>10, <1>11, RunStep

\* The running task begins or gives up a wait of its own.
LEMMA RunOwn ==
    ASSUME TasksInv, QueueInv, NEW p \in Live, phase = "run", p = current,
           tasks' = [tasks EXCEPT ![p] = tasks'[p]],
           tasks[p].state \in {"Running", "ExternalWaiting"},
           tasks'[p].state \in {"Running", "Observing", "ExternalWaiting"},
           \A f \in DOMAIN tasks[p] \ {"state", "ext", "reg", "job"} : tasks'[p][f] = tasks[p][f],
           Served(p)', UNCHANGED <<phase, current, ready, next, finished, owed, drain>>
    PROVE  QueueInv'
<1>1. /\ tasks \in [Live -> TaskRecord] /\ tasks[p] \in TaskRecord
      /\ \A i \in Live : tasks[i].waiter = None \/ tasks[i].waiter \in Live
    BY Parts DEF Table, OneTree, RootOK
<1>2. DOMAIN tasks' = Live /\ \A i \in Live \ {p} : tasks'[i] = tasks[i]
    BY <1>1
<1>p. /\ OwnsSame(p) /\ tasks'[p].members = tasks[p].members /\ tasks'[p].noted = tasks[p].noted
      /\ tasks'[p].waiter = tasks[p].waiter /\ tasks'[p].state \notin Terminal /\ tasks[p].state \notin Terminal
    BY <1>1 DEF TaskRecord, OwnsSame, Terminal
<1>5. \A i \in Live : /\ OwnsSame(i) /\ tasks'[i].members = tasks[i].members /\ tasks'[i].noted = tasks[i].noted
                      /\ tasks'[i].waiter = tasks[i].waiter
                      /\ i # p => WaitsSame(i)
    BY <1>2, <1>p DEF OwnsSame, WaitsSame
<1>6. \A i \in Live : Grouped(i)'
    BY <1>5, RunFacts DEF Grouped, OwnsSame
<1>7. \A i \in Live : Expected(i)'
    BY <1>1, <1>5, RunFacts DEF Expected, WaitsSame, OwnsSame
<1>8. \A i \in Live : Served(i)'
  <2>1. \A i \in Live \ {p} : Served(i)'
    BY <1>5, RunFacts DEF Served, WaitsSame, OwnsSame
  <2> QED BY <2>1
<1>9. \A i \in Live : Counted(i)'
    BY <1>5, OwnsStep
<1>10. OwedOK'
  <2>1. OwedOK
    BY RunFacts
  <2> QED BY <1>2, <1>5, <2>1 DEF OwedOK, Live, Busy, Ending, OwnsSame
<1>11. tasks'[p].state \notin Terminal \cup {"Queued"} /\ \A i \in Live \ {p} : tasks'[i].state = tasks[i].state
    BY <1>p, <1>5 DEF WaitsSame, Terminal
<1> QED BY <1>2, <1>6, <1>7, <1>8, <1>9, <1>10, <1>11, RunStep

LEMMA QWaitNext == ASSUME TasksInv, QueueInv, NEW p \in Live, WaitNext(p) PROVE QueueInv'
<1>1. /\ phase = "run" /\ p = current /\ tasks \in [Live -> TaskRecord] /\ tasks[p] \in TaskRecord
      /\ tasks[p].state = "Running" /\ tasks[p].ext = "none"
      /\ tasks[p].members # {} /\ tasks[p].noted = {}
      /\ UNCHANGED <<phase, current, ready, next, finished, owed, drain>>
    BY ActiveFacts, Parts DEF WaitNext, Table, sched
<1>2. /\ tasks' = [tasks EXCEPT ![p] = tasks'[p]]
      /\ tasks'[p] = [tasks[p] EXCEPT !.state = "Observing"]
    BY <1>1 DEF WaitNext
<1>3. /\ \A f \in DOMAIN tasks[p] \ {"state", "ext", "reg", "job"} : tasks'[p][f] = tasks[p][f]
      /\ tasks'[p].state = "Observing" /\ tasks'[p].ext = "none"
      /\ tasks'[p].members = tasks[p].members /\ tasks'[p].noted = tasks[p].noted
    BY <1>1, <1>2 DEF TaskRecord
<1>4. Served(p)'
    BY <1>1, <1>3 DEF Served
<1> QED BY <1>1, <1>2, <1>3, <1>4, RunOwn

LEMMA QRegister == ASSUME TasksInv, QueueInv, NEW p \in Live, NEW job, Register(p, job) PROVE QueueInv'
<1>1. /\ phase = "run" /\ p = current /\ tasks \in [Live -> TaskRecord] /\ tasks[p] \in TaskRecord
      /\ tasks[p].state = "Running"
      /\ UNCHANGED <<phase, current, ready, next, finished, owed, drain>>
    BY ActiveFacts, Parts DEF Register, Table, sched
<1>2. PICK n : /\ tasks' = [tasks EXCEPT ![p] = tasks'[p]]
               /\ tasks'[p] = [tasks[p] EXCEPT !.ext = "pending", !.reg = n, !.job = job,
                                               !.state = "ExternalWaiting"]
    BY <1>1 DEF Register
<1>3. /\ \A f \in DOMAIN tasks[p] \ {"state", "ext", "reg", "job"} : tasks'[p][f] = tasks[p][f]
      /\ tasks'[p].state = "ExternalWaiting" /\ tasks'[p].ext = "pending"
    BY <1>1, <1>2 DEF TaskRecord
<1>4. Served(p)'
    BY <1>3 DEF Served
<1> QED BY <1>1, <1>2, <1>3, <1>4, RunOwn

LEMMA QProviderReady == ASSUME TasksInv, QueueInv, NEW p \in Live, ProviderReady(p) PROVE QueueInv'
<1>1. /\ phase = "run" /\ p = current /\ tasks \in [Live -> TaskRecord] /\ tasks[p] \in TaskRecord
      /\ tasks[p].state \in {"Running", "ExternalWaiting"}
      /\ UNCHANGED <<phase, current, ready, next, finished, owed, drain>>
    BY Parts DEF ProviderReady, Table, sched
<1>2. /\ tasks' = [tasks EXCEPT ![p] = tasks'[p]]
      /\ tasks'[p] = [tasks[p] EXCEPT !.ext = "none", !.state = "Running"]
    BY <1>1 DEF ProviderReady
<1>3. /\ \A f \in DOMAIN tasks[p] \ {"state", "ext", "reg", "job"} : tasks'[p][f] = tasks[p][f]
      /\ tasks'[p].state = "Running" /\ tasks'[p].ext = "none"
    BY <1>1, <1>2 DEF TaskRecord
<1>4. Served(p)'
    BY <1>3 DEF Served
<1> QED BY <1>1, <1>2, <1>3, <1>4, RunOwn

\* A set of ended tasks has one that ended first.
LEMMA EarliestIn ==
    ASSUME NEW set, set # {}, finished \in Seq(Id),
           \A d \in set : \E k \in 1..Len(finished) : finished[k] = d
    PROVE  Earliest(set) \in set
<1> DEFINE S == {k \in 1..Len(finished) : finished[k] \in set}
<1>1. Len(finished) \in Nat /\ S \subseteq Nat /\ IsFiniteSet(S) /\ S # {}
  <2>1. Len(finished) \in Nat /\ IsFiniteSet(1..Len(finished)) /\ S \in SUBSET (1..Len(finished))
    BY LenProperties, FS_Interval
  <2>2. IsFiniteSet(S)
    BY <2>1, FS_Subset
  <2>3. PICK d : d \in set
    OBVIOUS
  <2>4. \E k \in 1..Len(finished) : finished[k] = d
    BY <2>3
  <2> QED BY <2>1, <2>2, <2>3, <2>4
<1>2. PICK m \in S : \A j \in S : m <= j
  <2> HIDE DEF S
  <2>1. Cardinality(S) \in Nat /\ Cardinality(S) # 0
    BY <1>1, FS_EmptySet, FS_CardinalityType
  <2>2. 1 \in 1..Cardinality(S)
    BY <2>1
  <2>3. Increasing(S)[1] \in S
    BY <1>1, <2>2, Listed
  <2>4. \A j \in S : Increasing(S)[1] <= j
    <3> TAKE j \in S
    <3>1. PICK i \in 1..Cardinality(S) : Increasing(S)[i] = j
      BY <1>1, Listed
    <3>2. i = 1 \/ 1 < i
      BY <2>1
    <3>3. i = 1 \/ Increasing(S)[1] < j
      BY <1>1, <2>2, <3>1, <3>2, Listed
    <3>4. Increasing(S)[1] \in Nat /\ j \in Nat
      BY <1>1, <2>3
    <3> QED BY <3>1, <3>3, <3>4
  <2> QED BY <2>3, <2>4
<1>3. \E c \in set : \A d \in set : \E i, j \in 1..Len(finished) : finished[i] = c /\ finished[j] = d /\ i <= j
  <2>1. finished[m] \in set /\ m \in 1..Len(finished)
    BY <1>2
  <2>2. \A d \in set : \E i, j \in 1..Len(finished) : finished[i] = finished[m] /\ finished[j] = d /\ i <= j
    <3> TAKE d \in set
    <3>1. PICK j \in 1..Len(finished) : finished[j] = d
      OBVIOUS
    <3>2. m <= j
      BY <1>2, <3>1
    <3> QED BY <2>1, <3>1, <3>2
  <2> QED BY <2>1, <2>2
<1> QED BY <1>3 DEF Earliest

\* The running task takes an ended child out of its group.
LEMMA RunDetach ==
    ASSUME TasksInv, QueueInv, NEW p \in Live, NEW c \in Live, NEW w, Active(p), Child(p, c),
           tasks[c].state \in Terminal,
           tasks' = [tasks EXCEPT ![p] = tasks'[p], ![c] = tasks'[c]],
           tasks'[p] = [tasks[p] EXCEPT !.members = @ \ {c}, !.noted = @ \ {c}],
           tasks'[c] = [tasks[c] EXCEPT !.waiter = w],
           \/ owed' = owed /\ owed # c /\ w = None
           \/ owed = None /\ owed' = c /\ w = p /\ ~tasks[c].handed,
           UNCHANGED <<phase, current, ready, next, finished, drain>>
    PROVE  QueueInv'
<1>2. /\ phase = "run" /\ p = current /\ tasks \in [Live -> TaskRecord]
      /\ tasks[p] \in TaskRecord /\ tasks[c] \in TaskRecord /\ c # p /\ p # None /\ c # None
      /\ tasks[p].state = "Running" /\ tasks[p].ext = "none" /\ p \in Id /\ c \in Id
      /\ \A i \in Live : c \in tasks[i].children <=> i = p
    BY PairFacts
<1>4. DOMAIN tasks' = Live /\ \A i \in Live \ {p, c} : tasks'[i] = tasks[i]
    BY <1>2
<1>c. WaitsSame(c) /\ OwnsSame(c) /\ tasks'[c].waiter = w
    BY <1>2 DEF TaskRecord, WaitsSame, OwnsSame
<1>p. /\ OwnsSame(p) /\ tasks'[p].members = tasks[p].members \ {c} /\ tasks'[p].noted = tasks[p].noted \ {c}
      /\ tasks'[p].waiter = tasks[p].waiter /\ tasks'[p].ext = "none" /\ tasks'[p].state = "Running"
    BY <1>2 DEF TaskRecord, OwnsSame
<1>5. \A i \in Live : /\ OwnsSame(i) /\ tasks'[i].state = tasks[i].state
                      /\ i # c => tasks'[i].waiter = tasks[i].waiter
                      /\ i # p => WaitsSame(i)
  <2>1. \A i \in Live \ {p, c} : OwnsSame(i) /\ WaitsSame(i) /\ tasks'[i].waiter = tasks[i].waiter
    BY <1>4 DEF OwnsSame, WaitsSame
  <2>2. \A i \in Live \ {p} : OwnsSame(i) /\ WaitsSame(i)
    BY <1>c, <2>1
  <2>3. \A i \in Live \ {p} : tasks'[i].state = tasks[i].state
    BY <2>2 DEF WaitsSame
  <2>4. tasks'[p].state = tasks[p].state
    BY <1>2, <1>p
  <2>5. \A i \in Live \ {c} : tasks'[i].waiter = tasks[i].waiter
    BY <1>p, <2>1
  <2> QED BY <1>p, <2>2, <2>3, <2>4, <2>5
<1>6. \A i \in Live : Grouped(i)'
  <2>1. Grouped(p)'
    <3>1. Grouped(p) /\ tasks[p].members \subseteq Live
      BY <1>2, RunFacts
    <3>2. tasks'[p].members \subseteq tasks'[p].children /\ \A d \in tasks'[p].members : tasks'[d].waiter = p
      BY <1>2, <1>c, <1>p, <1>5, <3>1 DEF Grouped, OwnsSame
    <3>3. tasks'[p].noted = {d \in tasks'[p].members : tasks'[d].state \in Terminal}
      BY <1>p, <1>5, <3>1 DEF Grouped
    <3> QED BY <3>2, <3>3 DEF Grouped
  <2>2. \A i \in Live \ {p} : Grouped(i)'
    BY <1>2, <1>5, RunFacts DEF Grouped, OwnsSame, WaitsSame
  <2> QED BY <2>1, <2>2
<1>7. \A i \in Live : Expected(i)'
  <2>1. \A i \in Live : tasks[i].waiter = None \/ tasks[i].waiter \in Live
    BY Parts DEF OneTree, RootOK
  <2>2. Expected(c)'
    BY <1>c DEF Expected, WaitsSame, OwnsSame
  <2>3. \A i \in Live \ {c} : Expected(i)'
    <3> SUFFICES ASSUME NEW i \in Live \ {c} PROVE Expected(i)'
      OBVIOUS
    <3>1. Expected(i) /\ ~Ending(i)
      BY <1>2, RunFacts
    <3>2. /\ tasks'[i].waiter = tasks[i].waiter /\ tasks'[i].state = tasks[i].state
          /\ tasks'[i].handed = tasks[i].handed
      BY <1>5 DEF OwnsSame
    <3>3. CASE tasks[i].waiter = p
      BY <1>2, <1>p, <3>1, <3>2, <3>3 DEF Expected
    <3>4. CASE tasks[i].waiter # p
      <4>1. tasks[i].waiter = None \/ WaitsSame(tasks[i].waiter)
        BY <1>5, <2>1, <3>4
      <4> QED BY <3>1, <3>2, <4>1 DEF Expected, WaitsSame
    <3> QED BY <3>3, <3>4
  <2> QED BY <2>2, <2>3
<1>8. \A i \in Live : Served(i)'
  <2>1. Served(p)'
    BY <1>p DEF Served
  <2>2. \A i \in Live \ {p} : Served(i)'
    BY <1>2, <1>5, RunFacts DEF Served, WaitsSame, OwnsSame
  <2> QED BY <2>1, <2>2
<1>9. \A i \in Live : Counted(i)'
    BY <1>2, <1>5, OwnsStep
<1>10. OwedOK'
  <2>1. OwedOK
    BY <1>2, RunFacts
  <2>2. CASE owed' = owed /\ owed # c /\ w = None
    BY <1>2, <1>4, <1>p, <1>5, <2>1, <2>2 DEF OwedOK, Live, Busy, Ending, OwnsSame
  <2>3. CASE owed = None /\ owed' = c /\ w = p /\ ~tasks[c].handed
    BY <1>2, <1>4, <1>c, <1>p, <1>5, <2>3 DEF OwedOK, Live, Busy, Ending, OwnsSame
  <2> QED BY <2>2, <2>3
<1>11. tasks'[p].state \notin Terminal \cup {"Queued"} /\ \A i \in Live \ {p} : tasks'[i].state = tasks[i].state
    BY <1>p, <1>5 DEF WaitsSame, Terminal
<1> QED BY <1>2, <1>4, <1>6, <1>7, <1>8, <1>9, <1>10, <1>11, RunStep

LEMMA QSelect == ASSUME TasksInv, QueueInv, NEW p \in Live, Select(p) PROVE QueueInv'
<1>0. PICK c : c = Earliest(tasks[p].noted)
    OBVIOUS
<1>1. /\ Active(p) /\ tasks[p].noted # {}
      /\ tasks' = [tasks EXCEPT ![p].members = @ \ {c}, ![p].noted = @ \ {c}, ![c].waiter = None]
      /\ UNCHANGED <<phase, current, ready, next, finished, owed, drain>>
    BY <1>0 DEF Select, sched
<1>2. /\ phase = "run" /\ p = current /\ tasks \in [Live -> TaskRecord]
      /\ Grouped(p) /\ OwedOK /\ Stamps /\ tasks[p].members \subseteq Live
    BY <1>1, ActiveFacts, RunFacts, Parts DEF Table
<1>3. c \in tasks[p].noted
  <2>1. finished \in Seq(Id)
    BY Parts DEF Lists
  <2>2. \A d \in tasks[p].noted : \E k \in 1..Len(finished) : finished[k] = d
    BY <1>2 DEF Grouped, Stamps
  <2> QED BY <1>0, <1>1, <2>1, <2>2, EarliestIn
<1>4. c \in Live /\ tasks[c].state \in Terminal /\ c \in tasks[p].members /\ c \in tasks[p].children
    BY <1>2, <1>3 DEF Grouped
<1>5. Child(p, c)
    BY <1>1, <1>2, <1>4, RunFacts DEF Child
<1>6. c # p /\ owed # c
    BY <1>2, <1>4, <1>5, ChildFacts DEF OwedOK
<1>7. /\ tasks' = [tasks EXCEPT ![p] = tasks'[p], ![c] = tasks'[c]]
      /\ tasks'[p] = [tasks[p] EXCEPT !.members = @ \ {c}, !.noted = @ \ {c}]
      /\ tasks'[c] = [tasks[c] EXCEPT !.waiter = None]
    BY <1>1, <1>2, <1>4, <1>6
<1> QED BY <1>1, <1>4, <1>5, <1>6, <1>7, RunDetach

\* The caller's entry without an observed child.
LEMMA UnobservedEntry ==
    ASSUME TasksInv, NEW p \in Live, NEW c \in Live, Cancellable(p, c)
    PROVE  /\ Unobserved(c) = [tasks EXCEPT ![p] = [tasks[p] EXCEPT !.members = @ \ {c}, !.noted = @ \ {c}]]
           /\ Unobserved(c)[c] = tasks[c]
<1>1. c # p /\ tasks[c].parent = p /\ tasks \in [Live -> TaskRecord]
    BY ChildFacts, Parts DEF Cancellable, Table
<1> QED BY <1>1 DEF Unobserved

LEMMA QCancelTerminal ==
    ASSUME TasksInv, QueueInv, NEW p \in Live, NEW c \in Live, CancelTerminal(p, c) PROVE QueueInv'
<1>1. /\ Cancellable(p, c) /\ Active(p) /\ Child(p, c) /\ owed = None /\ ~tasks[c].handed
      /\ tasks[c].state \in Terminal /\ owed' = c
      /\ tasks' = [Unobserved(c) EXCEPT ![c].waiter = p]
      /\ UNCHANGED <<phase, current, ready, next, finished, drain>>
    BY DEF CancelTerminal, Cancellable, sched
<1>2. /\ Unobserved(c) = [tasks EXCEPT ![p] = [tasks[p] EXCEPT !.members = @ \ {c}, !.noted = @ \ {c}]]
      /\ Unobserved(c)[c] = tasks[c] /\ c # p /\ tasks \in [Live -> TaskRecord]
    BY <1>1, UnobservedEntry, PairFacts
<1>3. /\ tasks' = [tasks EXCEPT ![p] = tasks'[p], ![c] = tasks'[c]]
      /\ tasks'[p] = [tasks[p] EXCEPT !.members = @ \ {c}, !.noted = @ \ {c}]
      /\ tasks'[c] = [tasks[c] EXCEPT !.waiter = p]
    BY <1>1, <1>2
<1> QED BY <1>1, <1>3, RunDetach

\* What Reparent does to what the invariant reads.
Moved(ts, moved, from, to) ==
    \A i \in Live :
        /\ ts[i].children = IF i = from THEN tasks[i].children \ moved
                            ELSE IF i = to THEN tasks[i].children \cup moved ELSE tasks[i].children
        /\ ts[i].handed = IF i \in moved THEN FALSE ELSE tasks[i].handed
        /\ ts[i].waiter = tasks[i].waiter /\ ts[i].state = tasks[i].state /\ ts[i].on = tasks[i].on
        /\ ts[i].ext = tasks[i].ext /\ ts[i].members = tasks[i].members
        /\ ts[i].noted = tasks[i].noted /\ ts[i].returned = tasks[i].returned

LEMMA MovedFacts ==
    ASSUME TasksInv, NEW moved \in SUBSET Live, NEW from \in Live, NEW to \in Live, from # to,
           from \notin moved, to \notin moved, NEW ts, ts = Reparent(tasks, moved, from, to)
    PROVE  Moved(ts, moved, from, to)
<1> SUFFICES ASSUME NEW i \in Live
             PROVE  /\ ts[i].children = IF i = from THEN tasks[i].children \ moved
                            ELSE IF i = to THEN tasks[i].children \cup moved ELSE tasks[i].children
                    /\ ts[i].handed = IF i \in moved THEN FALSE ELSE tasks[i].handed
                    /\ ts[i].waiter = tasks[i].waiter /\ ts[i].state = tasks[i].state /\ ts[i].on = tasks[i].on
                    /\ ts[i].ext = tasks[i].ext /\ ts[i].members = tasks[i].members
                    /\ ts[i].noted = tasks[i].noted /\ ts[i].returned = tasks[i].returned
    BY Zenon DEF Moved
<1>1. tasks[i] \in TaskRecord
    BY Parts DEF Table
<1>2. CASE i = from
  <2>1. ts[i] = [tasks[i] EXCEPT !.children = @ \ moved]
    BY <1>2 DEF Reparent, Live
  <2> QED BY <1>1, <1>2, <2>1 DEF TaskRecord
<1>3. CASE i = to
  <2>1. ts[i] = [tasks[i] EXCEPT !.children = @ \cup moved]
    BY <1>3 DEF Reparent, Live
  <2>2. ts[i].children = tasks[i].children \cup moved /\ ts[i].handed = tasks[i].handed
    BY <1>1, <2>1 DEF TaskRecord
  <2>3. /\ ts[i].waiter = tasks[i].waiter /\ ts[i].state = tasks[i].state /\ ts[i].on = tasks[i].on
        /\ ts[i].ext = tasks[i].ext /\ ts[i].members = tasks[i].members
        /\ ts[i].noted = tasks[i].noted /\ ts[i].returned = tasks[i].returned
    BY <1>1, <2>1 DEF TaskRecord
  <2> QED BY <1>3, <2>2, <2>3
<1>4. CASE i \in moved
  <2>1. ts[i] = [tasks[i] EXCEPT !.parent = to, !.handed = FALSE]
    BY <1>4 DEF Reparent, Live
  <2> QED BY <1>1, <1>4, <2>1 DEF TaskRecord
<1>5. CASE i # from /\ i # to /\ i \notin moved
    BY <1>5 DEF Reparent, Live
<1> QED BY <1>2, <1>3, <1>4, <1>5

\* The running task moves tasks that nobody waits for.
LEMMA RunMove ==
    ASSUME TasksInv, QueueInv, phase = "run", NEW moved \in SUBSET Live, NEW from \in Live, NEW to \in Live,
           from # to, from \notin moved, to \notin moved,
           \A r \in moved : tasks[r].parent = from /\ tasks[r].waiter = None,
           tasks[from].state # "Waiting",
           tasks[from].state \in Terminal \/ \A r \in moved : ~tasks[r].handed,
           DOMAIN tasks' = Live, Moved(tasks', moved, from, to),
           tasks[current].state \notin Terminal,
           UNCHANGED <<phase, current, ready, next, finished, owed, drain>>
    PROVE  QueueInv'
<1>1. \A i \in Live :
        /\ tasks'[i].waiter = tasks[i].waiter /\ tasks'[i].state = tasks[i].state /\ tasks'[i].on = tasks[i].on
        /\ tasks'[i].ext = tasks[i].ext /\ tasks'[i].members = tasks[i].members
        /\ tasks'[i].noted = tasks[i].noted /\ tasks'[i].returned = tasks[i].returned
    BY Zenon DEF Moved
<1>2. \A i \in Live :
        /\ tasks'[i].children = IF i = from THEN tasks[i].children \ moved
                                ELSE IF i = to THEN tasks[i].children \cup moved ELSE tasks[i].children
        /\ tasks'[i].handed = IF i \in moved THEN FALSE ELSE tasks[i].handed
    BY Zenon DEF Moved
<1> DEFINE kids(i) == tasks[i].children
<1>3. /\ tasks'[from].children = tasks[from].children \ moved
      /\ tasks'[to].children = tasks[to].children \cup moved
      /\ \A i \in Live \ {from, to} : tasks'[i].children = tasks[i].children
      /\ \A i \in Live \ moved : tasks'[i].handed = tasks[i].handed
      /\ \A i \in moved : tasks'[i].handed = FALSE
    BY <1>2
<1>4. None \notin Live
    BY Parts DEF Table, Id, None
<1>5. \A r \in moved : \A i \in Live : r \notin tasks[i].members
    BY <1>4, RunFacts DEF Grouped
<1>6. \A i \in Live : Grouped(i)'
  <2> SUFFICES ASSUME NEW i \in Live PROVE Grouped(i)'
    OBVIOUS
  <2>1. Grouped(i) /\ tasks[i].members \subseteq Live
    BY RunFacts
  <2>2. tasks'[i].members \subseteq tasks'[i].children
    BY <1>1, <1>3, <1>5, <2>1 DEF Grouped
  <2> QED BY <1>1, <2>1, <2>2 DEF Grouped
<1>7. \A i \in Live : Expected(i)'
  <2>1. \A i \in Live : tasks[i].waiter = None \/ tasks[i].waiter \in Live
    BY Parts DEF OneTree, RootOK
  <2>2. \A i \in Live : tasks'[i].handed => tasks[i].handed
    BY <1>3
  <2> QED BY <1>1, <2>1, <2>2, RunFacts DEF Expected
<1>8. \A i \in Live : Served(i)'
  <2> SUFFICES ASSUME NEW i \in Live PROVE Served(i)'
    OBVIOUS
  <2>1. Served(i) /\ tasks[i].children \subseteq Live
    BY RunFacts
  <2>2. i # from => tasks[i].children \subseteq tasks'[i].children
    BY <1>3
  <2> QED BY <1>1, <2>1, <2>2 DEF Served
<1>9. \A i \in Live : Counted(i)'
  <2> SUFFICES ASSUME NEW i \in Live, tasks[i].state \notin Terminal PROVE Handed(i)' = Handed(i)
    BY <1>1, RunFacts DEF Counted
  <2>1. tasks[i].children \subseteq Live /\ \A r \in moved : r \in tasks[i].children => i = from
    BY RunFacts
  <2>2. CASE i = from
    BY <1>3, <2>1, <2>2 DEF Handed
  <2>3. CASE i = to
    BY <1>3, <2>1, <2>3 DEF Handed
  <2>4. CASE i # from /\ i # to
    BY <1>3, <2>1, <2>4 DEF Handed
  <2> QED BY <2>2, <2>3, <2>4
<1>10. OwedOK'
  <2>1. OwedOK /\ current \in Live
    BY RunFacts
  <2>2. owed \notin moved
    BY <1>4, <2>1 DEF OwedOK
  <2> QED BY <1>1, <1>3, <2>1, <2>2 DEF OwedOK, Live, Busy, Ending
<1>11. /\ \A i \in Live : tasks'[i].state = tasks[i].state
       /\ tasks'[current].state \notin Terminal \cup {"Queued"}
    BY <1>1, RunFacts
<1> QED BY <1>6, <1>7, <1>8, <1>9, <1>10, <1>11, RunStep

LEMMA QAdopt ==
    ASSUME TasksInv, QueueInv, NEW p \in Live, NEW callee \in Live, NEW c \in Live, Adopt(p, callee, c)
    PROVE  QueueInv'
<1>1. /\ Active(p) /\ Child(p, callee) /\ Child(p, c) /\ callee # c /\ ~tasks[c].handed
      /\ tasks[c].waiter = None /\ tasks' = Reparent(tasks, {c}, p, callee)
      /\ UNCHANGED <<phase, current, ready, next, finished, owed, drain>>
    BY DEF Adopt, sched
<1>2. /\ phase = "run" /\ c # p /\ callee # p /\ tasks[c].parent = p /\ current = p
      /\ {c} \in SUBSET Live /\ p \notin {c} /\ callee \notin {c}
      /\ tasks[p].state # "Waiting" /\ tasks[p].state \notin Terminal
    BY <1>1, ActiveFacts, ChildFacts DEF Terminal
<1>3. DOMAIN tasks' = Live /\ Moved(tasks', {c}, p, callee)
  <2>1. DOMAIN tasks' = Live
    BY <1>1 DEF Reparent, Live
  <2> QED BY <1>1, <1>2, <2>1, MovedFacts
<1> QED BY <1>1, <1>2, <1>3, RunMove

LEMMA QResult == ASSUME TasksInv, QueueInv, NEW p \in Live, NEW c \in Live, Result(p, c) PROVE QueueInv'
<1>1. PICK moved : moved = tasks[c].children
    OBVIOUS
<1>2. PICK ts : ts = Reparent(tasks, moved, c, p)
    OBVIOUS
<1>3. /\ Active(p) /\ Child(p, c) /\ \A r \in moved : tasks[r].waiter = None
      /\ tasks[c].state = "Completed"
      /\ tasks' = [ts EXCEPT ![c].extracted = TRUE, ![c].cleanups = <<>>]
      /\ UNCHANGED <<phase, current, ready, next, finished, owed, drain>>
    BY <1>1, <1>2 DEF Result, sched
<1>4. /\ phase = "run" /\ c # p /\ tasks[c].parent = p /\ tasks[p].state = "Running" /\ current = p
    BY <1>3, ActiveFacts, ChildFacts
<1>5. /\ moved \in SUBSET Live /\ c \notin moved /\ p \notin moved /\ \A i \in moved : tasks[i].parent = c
  <2>1. moved \subseteq Live
    BY <1>1, <1>4, RunFacts
  <2>2. \A i \in moved : tasks[i].parent = c
    BY <1>1, <1>4, <2>1, RunFacts
  <2>3. tasks[c].parent # c /\ tasks[p].parent # c
    BY <1>4, Parts, NotOwnParent, NoCycle
  <2> QED BY <2>1, <2>2, <2>3
<1>6. ts \in [Live -> TaskRecord] /\ Moved(ts, moved, c, p)
    BY <1>2, <1>4, <1>5, ReparentFacts, MovedFacts
<1>7. /\ tasks' = [ts EXCEPT ![c] = tasks'[c]] /\ ts[c] \in TaskRecord
      /\ tasks'[c] = [ts[c] EXCEPT !.extracted = TRUE, !.cleanups = <<>>]
    BY <1>3, <1>6
<1>8. \A f \in DOMAIN ts[c] \ {"extracted", "cleanups"} : tasks'[c][f] = ts[c][f]
    BY <1>7 DEF TaskRecord
<1>9. DOMAIN tasks' = Live /\ \A i \in Live \ {c} : tasks'[i] = ts[i]
    BY <1>6, <1>7
<1>10. /\ tasks'[c].children = ts[c].children /\ tasks'[c].handed = ts[c].handed
       /\ tasks'[c].waiter = ts[c].waiter /\ tasks'[c].state = ts[c].state /\ tasks'[c].on = ts[c].on
       /\ tasks'[c].ext = ts[c].ext /\ tasks'[c].members = ts[c].members
       /\ tasks'[c].noted = ts[c].noted /\ tasks'[c].returned = ts[c].returned
    BY <1>7, <1>8 DEF TaskRecord
<1>11. \A i \in Live :
       /\ tasks'[i].children = ts[i].children /\ tasks'[i].handed = ts[i].handed
       /\ tasks'[i].waiter = ts[i].waiter /\ tasks'[i].state = ts[i].state /\ tasks'[i].on = ts[i].on
       /\ tasks'[i].ext = ts[i].ext /\ tasks'[i].members = ts[i].members
       /\ tasks'[i].noted = ts[i].noted /\ tasks'[i].returned = ts[i].returned
    BY <1>9, <1>10
<1>12. Moved(tasks', moved, c, p)
  <2> SUFFICES ASSUME NEW i \in Live
               PROVE  /\ tasks'[i].children = IF i = c THEN tasks[i].children \ moved
                              ELSE IF i = p THEN tasks[i].children \cup moved ELSE tasks[i].children
                      /\ tasks'[i].handed = IF i \in moved THEN FALSE ELSE tasks[i].handed
                      /\ tasks'[i].waiter = tasks[i].waiter /\ tasks'[i].state = tasks[i].state
                      /\ tasks'[i].on = tasks[i].on
                      /\ tasks'[i].ext = tasks[i].ext /\ tasks'[i].members = tasks[i].members
                      /\ tasks'[i].noted = tasks[i].noted /\ tasks'[i].returned = tasks[i].returned
    BY Zenon DEF Moved
  <2>1. /\ ts[i].children = IF i = c THEN tasks[i].children \ moved
                              ELSE IF i = p THEN tasks[i].children \cup moved ELSE tasks[i].children
        /\ ts[i].handed = IF i \in moved THEN FALSE ELSE tasks[i].handed
        /\ ts[i].waiter = tasks[i].waiter /\ ts[i].state = tasks[i].state /\ ts[i].on = tasks[i].on
        /\ ts[i].ext = tasks[i].ext /\ ts[i].members = tasks[i].members
        /\ ts[i].noted = tasks[i].noted /\ ts[i].returned = tasks[i].returned
    BY <1>6, Zenon DEF Moved
  <2> QED BY ONLY <1>11, <2>1, i \in Live, Zenon
<1>13. tasks[c].state \in Terminal /\ tasks[p].state \notin Terminal /\ tasks[c].state # "Waiting"
    BY <1>3, <1>4 DEF Terminal
<1>14. /\ \A r \in moved : tasks[r].parent = c /\ tasks[r].waiter = None
       /\ tasks[current].state \notin Terminal /\ DOMAIN tasks' = Live
    BY <1>3, <1>4, <1>5, <1>9, <1>13
<1> QED BY <1>3, <1>4, <1>5, <1>12, <1>13, <1>14, RunMove, Zenon

-----------------------------------------------------------------------------
(* Steps that free a frame or end a task.                                  *)

LEMMA QFacts ==
    ASSUME TasksInv, QueueInv, phase # "done"
    PROVE  /\ \A i \in Live : Grouped(i) /\ Expected(i)
           /\ \A i \in Live \ Doomed : Served(i) /\ Counted(i)
           /\ \A i \in Live : /\ tasks[i].members \subseteq Live /\ tasks[i].children \subseteq Live
                              /\ tasks[i].waiter \in {None, tasks[i].parent}
                              /\ tasks[i].waiter = None \/ tasks[i].waiter \in Live
           /\ \A i, c \in Live : c \in tasks[i].children <=> tasks[c].parent = i
           /\ RunsOK /\ OwedOK /\ Listing /\ Stamps /\ None \notin Live
<1>1. Groups /\ Waiters /\ Services /\ Counts /\ RunsOK /\ OwedOK /\ Listing /\ Stamps
    BY QParts
<1>2. \A i \in Live : Grouped(i) /\ Expected(i)
    BY <1>1 DEF Groups, Waiters
<1>3. \A i \in Live \ Doomed : Served(i) /\ Counted(i)
    BY <1>1 DEF Services, Counts
<1>4. \A i \in Live : tasks[i].children \subseteq Id
    BY Parts DEF Table, TaskRecord
<1>5. \A i \in Live : /\ tasks[i].children \subseteq Live /\ tasks[i].waiter \in {None, tasks[i].parent}
                      /\ tasks[i].waiter = None \/ tasks[i].waiter \in Live
    BY <1>4, Parts DEF OneTree, RootOK
<1>6. \A i \in Live : tasks[i].members \subseteq Live
    BY <1>2, <1>5 DEF Grouped
<1>7. \A i, c \in Live : c \in tasks[i].children <=> tasks[c].parent = i
    BY Parts DEF OneTree, Table
<1>8. None \notin Live
    BY Parts DEF Table, Id, None
<1> QED BY <1>1, <1>2, <1>3, <1>5, <1>6, <1>7, <1>8

\* A queue without one identity: its other entries, each once.
LEMMA UnlistFacts ==
    ASSUME NEW q \in Seq(Id), NEW id
    PROVE  /\ Len(Unlist(q, id)) \in Nat
           /\ \E f \in [1..Len(Unlist(q, id)) -> 1..Len(q)] :
                /\ \A k, m \in 1..Len(Unlist(q, id)) : f[k] = f[m] => k = m
                /\ \A k \in 1..Len(Unlist(q, id)) : Unlist(q, id)[k] = q[f[k]] /\ q[f[k]] # id
                /\ \A j \in 1..Len(q) : q[j] # id => \E k \in 1..Len(Unlist(q, id)) : f[k] = j
<1> DEFINE S == {k \in 1..Len(q) : q[k] # id}
           n == Cardinality(S)
           g == Increasing(S)
<1>1. S \subseteq Nat /\ IsFiniteSet(S) /\ S \in SUBSET (1..Len(q))
  <2>1. Len(q) \in Nat /\ IsFiniteSet(1..Len(q)) /\ S \in SUBSET (1..Len(q))
    BY LenProperties, FS_Interval
  <2> QED BY <2>1, FS_Subset
<1>2. /\ n \in Nat /\ g \in [1..n -> S] /\ \A i, j \in 1..n : g[i] = g[j] => i = j
      /\ \A x \in S : \E i \in 1..n : g[i] = x
    BY <1>1, Listed
<1>3. Unlist(q, id) = [k \in 1..n |-> q[g[k]]]
    BY <1>2 DEF Unlist
<1>4. Len(Unlist(q, id)) = n
  <2>1. Unlist(q, id) \in Seq(Id) /\ DOMAIN Unlist(q, id) = 1..n
    BY <1>3, UnlistType
  <2>2. Unlist(q, id) \in [1..n -> Id]
    BY <2>1, LenProperties, ElementOfSeq
  <2> QED BY <1>2, <2>2, FunctionIsSeq
<1>5. \A k \in S : k \in 1..Len(q) /\ q[k] # id
    OBVIOUS
<1>6. \A j \in 1..Len(q) : q[j] # id => j \in S
    OBVIOUS
<1> HIDE DEF S, n, g
<1>7. \A j \in 1..Len(q) : q[j] # id => \E k \in 1..n : g[k] = j
    BY <1>2, <1>6
<1>8. g \in [1..n -> 1..Len(q)] /\ \A k \in 1..n : q[g[k]] # id
    BY <1>2, <1>5
<1>9. \A k \in 1..n : Unlist(q, id)[k] = q[g[k]]
    BY <1>3
<1>11. \A k, m \in 1..n : g[k] = g[m] => k = m
    BY <1>2
<1>12. \A k \in 1..n : Unlist(q, id)[k] = q[g[k]] /\ q[g[k]] # id
    BY <1>8, <1>9
<1>13. g \in [1..n -> 1..Len(q)] /\ n \in Nat
    BY <1>2, <1>8
<1> DEFINE L == Len(Unlist(q, id))
<1>14. L \in Nat /\ g \in [1..L -> 1..Len(q)]
    BY <1>4, <1>13
<1>15. /\ \A k, m \in 1..L : g[k] = g[m] => k = m
       /\ \A k \in 1..L : Unlist(q, id)[k] = q[g[k]] /\ q[g[k]] # id
       /\ \A j \in 1..Len(q) : q[j] # id => \E k \in 1..L : g[k] = j
    BY ONLY <1>4, <1>7, <1>11, <1>12
<1> HIDE DEF L
<1>16. \E f \in [1..L -> 1..Len(q)] :
          /\ \A k, m \in 1..L : f[k] = f[m] => k = m
          /\ \A k \in 1..L : Unlist(q, id)[k] = q[f[k]] /\ q[f[k]] # id
          /\ \A j \in 1..Len(q) : q[j] # id => \E k \in 1..L : f[k] = j
  <2> g \in [1..L -> 1..Len(q)]
    BY <1>14
  <2> WITNESS g \in [1..L -> 1..Len(q)]
  <2> QED BY ONLY <1>15
<1> QED BY ONLY <1>14, <1>16 DEF L

\* The task x leaves the table; its parent forgets it.
Forgets(x) ==
    /\ DOMAIN tasks' = Live \ {x}
    /\ \A i \in Live \ {x} :
         /\ tasks'[i].children = tasks[i].children \ {x} /\ tasks'[i].members = tasks[i].members \ {x}
         /\ tasks'[i].noted = tasks[i].noted \ {x}
         /\ tasks'[i].waiter = tasks[i].waiter /\ tasks'[i].state = tasks[i].state
         /\ tasks'[i].on = tasks[i].on /\ tasks'[i].ext = tasks[i].ext
         /\ tasks'[i].handed = tasks[i].handed /\ tasks'[i].returned = tasks[i].returned

LEMMA ForgetStep ==
    ASSUME TasksInv, QueueInv, NEW x \in Live, Forgets(x), tasks[x].children = {},
           phase \in {"run", "drain"}, UNCHANGED <<phase, current, ready, next>>,
           drain'.then = drain.then, drain'.of = drain.of,
           finished' = Unlist(finished, x), owed' = (IF owed = x THEN None ELSE owed),
           Busy => current # x, phase = "drain" /\ drain.then = "cancel" => drain.of # x,
           Doomed \subseteq Doomed' \cup {x},
           tasks[x].parent \in Live \ Doomed' => tasks[tasks[x].parent].state = "Running" /\ ~tasks[x].handed,
           phase = "drain" /\ drain.then = "drain" /\ Height' > 0 => ~tasks'[Node(1)'].handed
    PROVE  QueueInv'
<1>1. Live' = Live \ {x} /\ Busy' = Busy /\ \A i : Ending(i)' = Ending(i)
    BY DEF Forgets, Live, Busy, Ending
<1>2. \A i \in Live \ {x} :
         /\ tasks'[i].children = tasks[i].children \ {x} /\ tasks'[i].members = tasks[i].members \ {x}
         /\ tasks'[i].noted = tasks[i].noted \ {x}
         /\ tasks'[i].waiter = tasks[i].waiter /\ tasks'[i].state = tasks[i].state
         /\ tasks'[i].on = tasks[i].on /\ tasks'[i].ext = tasks[i].ext
         /\ tasks'[i].handed = tasks[i].handed /\ tasks'[i].returned = tasks[i].returned
    BY DEF Forgets
<1>3. \A i \in Live : tasks[i].waiter # x
    BY QFacts
<1>4. Groups'
  <2> SUFFICES ASSUME NEW i \in Live \ {x} PROVE Grouped(i)'
    BY <1>1 DEF Groups
  <2>1. Grouped(i) /\ tasks[i].members \subseteq Live
    BY QFacts
  <2>2. tasks'[i].members \subseteq tasks'[i].children /\ \A c \in tasks'[i].members : tasks'[c].waiter = i
    BY <1>2, <2>1 DEF Grouped
  <2>3. tasks'[i].noted = {c \in tasks'[i].members : tasks'[c].state \in Terminal}
    BY <1>2, <2>1 DEF Grouped
  <2> QED BY <2>2, <2>3 DEF Grouped
<1>5. Waiters'
  <2> SUFFICES ASSUME NEW i \in Live \ {x} PROVE Expected(i)'
    BY <1>1 DEF Waiters
  <2>1. Expected(i) /\ (tasks[i].waiter = None \/ tasks[i].waiter \in Live \ {x})
    BY <1>3, QFacts
  <2> QED BY <1>1, <1>2, <2>1 DEF Expected
<1>6. \A i \in (Live \ {x}) \ Doomed' : i \in Live \ Doomed
    OBVIOUS
<1>7. Services'
  <2> SUFFICES ASSUME NEW i \in (Live \ {x}) \ Doomed' PROVE Served(i)'
    BY <1>1 DEF Services
  <2>1. Served(i) /\ tasks[i].children \subseteq Live /\ Grouped(i)
    BY <1>6, QFacts
  <2>2. CASE i = tasks[x].parent
    BY <1>2, <2>1, <2>2 DEF Served
  <2>3. CASE i # tasks[x].parent
    <3>1. x \notin tasks[i].children /\ x \notin tasks[i].members
      BY <2>1, <2>3, QFacts DEF Grouped
    <3> QED BY <1>2, <2>1, <3>1 DEF Served
  <2> QED BY <2>2, <2>3
<1>8. Counts'
  <2> SUFFICES ASSUME NEW i \in (Live \ {x}) \ Doomed' PROVE Counted(i)'
    BY <1>1 DEF Counts
  <2>1. Counted(i) /\ tasks[i].children \subseteq Live
    BY <1>6, QFacts
  <2>2. x \in tasks[i].children => ~tasks[x].handed
    BY QFacts
  <2>3. Handed(i)' = Handed(i)
    BY <1>2, <2>1, <2>2 DEF Handed
  <2> QED BY <1>2, <2>1, <2>3 DEF Counted
<1>9. Busy => current \in Live \ {x}
    BY BusyFacts
<1>10. RunsOK'
  <2>1. RunsOK
    BY QFacts
  <2>2. /\ \A i \in Live \ {x} : tasks'[i].state = "Running" => Busy /\ i = current
        /\ Busy => tasks'[current].state # "Queued"
    BY <1>2, <1>9, <2>1 DEF RunsOK
  <2>3. phase = "drain" /\ drain.then \in {"drain", "cancel"} => tasks'[current].state = "Running"
    BY <1>2, <1>9, <2>1 DEF RunsOK, Busy
  <2> QED BY <1>1, <2>2, <2>3 DEF RunsOK
<1>11. OwedOK'
  <2>1. OwedOK
    BY QFacts
  <2>2. CASE owed = x
    BY <1>1, <2>1, <2>2 DEF OwedOK
  <2>3. CASE owed # x
    BY <1>1, <1>2, <1>9, <2>1, <2>3 DEF OwedOK
  <2> QED BY <2>2, <2>3
<1>12. Listing'
  <2>1. Listing
    BY QFacts
  <2>2. \A k \in 1..Len(ready) : ready[k] \in Live \ {x} => tasks'[ready[k]].state = "Queued" \/ ready[k] = owed'
    BY <1>2, <2>1 DEF Listing
  <2>3. \A i \in Live \ {x} : tasks'[i].state = "Queued" => \E k \in 1..Len(ready) : ready[k] = i
    BY <1>2, <2>1 DEF Listing
  <2> QED BY <1>1, <2>1, <2>2, <2>3 DEF Listing
<1>13. Stamps'
  <2>1. Stamps /\ finished \in Seq(Id)
    BY QFacts, Parts DEF Lists
  <2> SUFFICES ASSUME NEW i \in Live \ {x}, tasks[i].state \in Terminal
               PROVE  \E k \in 1..Len(finished') : finished'[k] = i
    BY <1>1, <1>2, <2>1 DEF Stamps
  <2>2. PICK j \in 1..Len(finished) : finished[j] = i
    BY <2>1 DEF Stamps
  <2>q. PICK q : q = Unlist(finished, x)
    OBVIOUS
  <2>3. \E f \in [1..Len(q) -> 1..Len(finished)] :
             /\ \A k \in 1..Len(q) : q[k] = finished[f[k]]
             /\ \A m \in 1..Len(finished) : finished[m] # x => \E k \in 1..Len(q) : f[k] = m
    BY <2>1, <2>q, UnlistFacts
  <2>4. \E k \in 1..Len(q) : q[k] = i
    BY <2>2, <2>3
  <2>5. finished' = q
    BY <2>q
  <2> QED BY ONLY <2>4, <2>5
<1> QED BY <1>4, <1>5, <1>7, <1>8, <1>10, <1>11, <1>12, <1>13, QGoal DEF AtRest

LEMMA QRelease == ASSUME TasksInv, QueueInv, NEW p \in Live, NEW c \in Live, Release(p, c) PROVE QueueInv'
<1>1. /\ Active(p) /\ Child(p, c) /\ c \notin tasks[p].members /\ tasks[c].waiter = p /\ tasks[c].children = {}
      /\ tasks' = [i \in Live \ {c} |-> IF i = p THEN [tasks[p] EXCEPT !.children = @ \ {c}] ELSE tasks[i]]
      /\ finished' = Unlist(finished, c) /\ owed' = (IF owed = c THEN None ELSE owed)
      /\ UNCHANGED <<phase, current, ready, next, drain>>
    BY DEF Release, sched
<1>2. /\ phase = "run" /\ p = current /\ tasks[p] \in TaskRecord /\ c # p /\ p # None
      /\ tasks[p].state = "Running" /\ tasks[c].parent = p
      /\ \A i \in Live : c \in tasks[i].children <=> i = p
    BY <1>1, PairFacts
<1>3. /\ \A i \in Live : Grouped(i) /\ Expected(i)
      /\ Doomed = {}
    BY <1>2, RunFacts
<1>4. /\ DOMAIN tasks' = Live \ {c} /\ tasks'[p] = [tasks[p] EXCEPT !.children = @ \ {c}]
      /\ \A i \in Live \ {c, p} : tasks'[i] = tasks[i]
    BY <1>1, <1>2
<1>5. /\ tasks'[p].children = tasks[p].children \ {c} /\ tasks'[p].members = tasks[p].members
      /\ tasks'[p].noted = tasks[p].noted
      /\ tasks'[p].waiter = tasks[p].waiter /\ tasks'[p].state = tasks[p].state
      /\ tasks'[p].on = tasks[p].on /\ tasks'[p].ext = tasks[p].ext
      /\ tasks'[p].handed = tasks[p].handed /\ tasks'[p].returned = tasks[p].returned
    BY <1>2, <1>4 DEF TaskRecord
<1>6. /\ \A i \in Live : c \notin tasks[i].members /\ c \notin tasks[i].noted
      /\ \A i \in Live \ {p} : c \notin tasks[i].children
    BY <1>1, <1>2, <1>3 DEF Grouped
<1>7. \A i \in Live : tasks[i].members \ {c} = tasks[i].members /\ tasks[i].noted \ {c} = tasks[i].noted
    BY <1>6
<1>8. Forgets(c)
  <2>1. \A i \in Live \ {c, p} : tasks[i].children \ {c} = tasks[i].children
    BY <1>6
  <2> DEFINE Forgot(i) ==
        /\ tasks'[i].children = tasks[i].children \ {c} /\ tasks'[i].members = tasks[i].members \ {c}
        /\ tasks'[i].noted = tasks[i].noted \ {c}
        /\ tasks'[i].waiter = tasks[i].waiter /\ tasks'[i].state = tasks[i].state
        /\ tasks'[i].on = tasks[i].on /\ tasks'[i].ext = tasks[i].ext
        /\ tasks'[i].handed = tasks[i].handed /\ tasks'[i].returned = tasks[i].returned
  <2>2. Forgot(p)
    BY <1>5, <1>7
  <2>3. \A i \in Live \ {c, p} : Forgot(i)
    BY <1>4, <1>7, <2>1
  <2>4. \A i \in Live \ {c} : Forgot(i)
    <3> HIDE DEF Forgot
    <3> QED BY <2>2, <2>3
  <2> QED BY <1>4, <2>4 DEF Forgets
<1>9. ~tasks[c].handed
    BY <1>1, <1>2, <1>3 DEF Expected
<1> QED BY <1>1, <1>2, <1>3, <1>8, <1>9, ForgetStep

\* The parent of a removed task is doomed itself, or drains a child that is
\* not in its result.
LEMMA QRemoveTask == ASSUME TasksInv, TasksInv', QueueInv, RemoveTask PROVE QueueInv'
<1>1. PICK id : id = Retiring
    OBVIOUS
<1>2. /\ id # None /\ Retiring # None /\ drain.work # <<>>
      /\ tasks' = Removed(tasks, id) /\ finished' = Unlist(finished, id)
      /\ drain' = [drain EXCEPT !.work = Front(@)] /\ owed' = (IF owed = id THEN None ELSE owed)
      /\ UNCHANGED <<phase, current, ready, next>>
    BY <1>1 DEF RemoveTask, Retired, sched
<1>3. PICK n : n = Height
    OBVIOUS
<1>4. /\ phase = "drain" /\ id \in Live /\ drain \in WorkTypes /\ CallerOK /\ StackOK
      /\ tasks[id].children = {} /\ n > 0 /\ id = Node(n)
    BY <1>1, <1>2, <1>3, RetiringFacts
<1>5. OneTree /\ tasks \in [Live -> TaskRecord] /\ Live \subseteq Id /\ None \notin Live
    BY Parts DEF Table, Id, None
<1>6. ASSUME NEW i \in Live \ {id}
      PROVE  /\ tasks'[i].children = tasks[i].children \ {id} /\ tasks'[i].members = tasks[i].members \ {id}
             /\ tasks'[i].noted = tasks[i].noted \ {id}
             /\ tasks'[i].waiter = tasks[i].waiter /\ tasks'[i].state = tasks[i].state
             /\ tasks'[i].on = tasks[i].on /\ tasks'[i].ext = tasks[i].ext
             /\ tasks'[i].handed = tasks[i].handed /\ tasks'[i].returned = tasks[i].returned
  <2>1. tasks[i] \in TaskRecord
    BY <1>5
  <2>2. CASE i = tasks[id].parent
    <3>1. tasks'[i] = [tasks[i] EXCEPT !.children = @ \ {id}, !.members = @ \ {id}, !.noted = @ \ {id}]
      BY <1>2, <2>2 DEF Removed, Live
    <3> QED BY <2>1, <3>1 DEF TaskRecord
  <2>3. CASE i # tasks[id].parent
    <3>1. tasks'[i] = tasks[i]
      BY <1>2, <2>3 DEF Removed, Live
    <3>2. id \notin tasks[i].children /\ Grouped(i)
      BY <1>4, <2>3, QFacts
    <3>3. id \notin tasks[i].members /\ id \notin tasks[i].noted
      BY <3>2 DEF Grouped
    <3> QED BY <3>1, <3>2, <3>3
  <2> QED BY <2>2, <2>3
<1>7. Forgets(id)
  <2>1. DOMAIN tasks' = Live \ {id}
    BY <1>2 DEF Removed, Live
  <2> QED BY <1>6, <2>1 DEF Forgets
<1>8. /\ drain'.then = drain.then /\ drain'.of = drain.of
      /\ n \in Nat /\ Len(drain'.work) = n - 1 /\ \A k \in 1..n-1 : drain'.work[k] = drain.work[k]
  <2> DEFINE q == drain.work
  <2>1. q \in Seq(Id \X BOOLEAN) /\ Len(q) \in Nat \ {0} /\ n = Len(q)
    BY <1>2, <1>3, <1>4, EmptySeq DEF WorkTypes, Height
  <2>2. Front(q) = SubSeq(q, 1, Len(q) - 1)
    BY DEF Front
  <2>3. drain'.work = Front(q) /\ drain'.then = drain.then /\ drain'.of = drain.of
    BY <1>2, <1>4 DEF WorkTypes
  <2> HIDE DEF q
  <2>4. Len(Front(q)) = n - 1 /\ \A k \in 1..n-1 : Front(q)[k] = q[k]
    BY <2>1, <2>2
  <2> QED BY <2>1, <2>3, <2>4 DEF q
<1>9. Height' = n - 1 /\ \A k \in 1..n-1 : Node(k)' = Node(k)
    BY <1>8 DEF Height, Node
<1>10. n \in 1..n /\ \A k \in 1..n-1 : k \in 1..n /\ k # n
    BY <1>4, <1>8
<1>11. Doomed \subseteq Doomed' \cup {id}
  <2>1. \A k \in 1..n : k \in 1..n-1 \/ k = n
    BY <1>8
  <2>2. \A k \in 1..n : Node(k) = id \/ \E m \in 1..Height' : Node(m)' = Node(k)
    BY <1>4, <1>9, <2>1
  <2>3. \A k \in 1..Height : Node(k) \in Doomed' \cup {id}
    BY <1>2, <1>3, <1>4, <2>2 DEF Doomed
  <2>4. drain.then \in {"fault", "cancel"} => drain.of \in Doomed'
    BY <1>2, <1>4, <1>8 DEF Doomed
  <2> QED BY <1>4, <2>3, <2>4 DEF Doomed
<1>12. id \notin Anchors
    BY <1>3, <1>4, <1>10 DEF StackOK, StackLive
<1>13. /\ Busy => current # id
       /\ drain.then = "cancel" => drain.of # id
    BY <1>4, <1>12 DEF Anchors, Busy
<1>14. drain.then = "drain" => ~tasks[Node(1)].handed /\ tasks[current].state = "Running"
    BY <1>3, <1>4, QFacts DEF RunsOK
<1>15. ASSUME tasks[id].parent \in Live \ Doomed'
       PROVE  tasks[tasks[id].parent].state = "Running" /\ ~tasks[id].handed
  <2>1. CASE n = 1
    <3>1. tasks[id].parent = Base
      BY <1>3, <1>4, <2>1 DEF StackOK, StackBase
    <3>2. drain.then # "abandon" /\ tasks[id].parent = drain.of
      BY <1>5, <1>15, <3>1 DEF Base
    <3>3. drain.then = "drain"
      BY <1>2, <1>4, <1>8, <1>15, <3>2 DEF Doomed, CallerOK, WorkTypes
    <3>4. drain.of = current
      BY <1>4, <3>3 DEF CallerOK
    <3> QED BY <1>4, <1>14, <2>1, <3>2, <3>3, <3>4
  <2>2. CASE n # 1
    <3>1. n \in 2..n
      BY <1>4, <1>8, <2>2
    <3>2. PICK k \in 1..n-1 : tasks[id].parent = Node(k)
      BY <1>3, <1>4, <3>1 DEF StackOK, StackParents
    <3>3. Node(k)' = Node(k) /\ k \in 1..Height'
      BY <1>9
    <3>4. Node(k) \in Doomed'
      BY <1>2, <1>4, <3>3 DEF Doomed
    <3> QED BY <1>15, <3>2, <3>4
  <2> QED BY <2>1, <2>2
<1>16. drain.then = "drain" /\ Height' > 0 => ~tasks'[Node(1)'].handed
  <2> SUFFICES ASSUME drain.then = "drain", Height' > 0 PROVE ~tasks'[Node(1)'].handed
    OBVIOUS
  <2>1. 1 \in 1..n-1 /\ 1 \in 1..n
    BY <1>8, <1>9
  <2>2. Node(1)' = Node(1) /\ Node(1) \in Live \ {id}
    BY <1>3, <1>4, <1>9, <1>10, <2>1 DEF StackOK, StackLive, StackOnce
  <2> QED BY <1>6, <1>14, <2>2
<1> QED BY <1>2, <1>4, <1>7, <1>8, <1>11, <1>13, <1>15, <1>16, ForgetStep

-----------------------------------------------------------------------------
(* Steps that queue and resume tasks.                                      *)

\* An identity that was never given out is not in the queue.
LEMMA QCreate == ASSUME TasksInv, QueueInv, NEW p \in Live, Create(p) PROVE QueueInv'
<1>0. PICK n : n = next + 1
    OBVIOUS
<1>1. /\ Active(p) /\ next' = n /\ next < MaxTasks
      /\ tasks' = [i \in Live \cup {n} |->
                    IF i = n THEN NewTask(p)
                    ELSE IF i = p THEN [tasks[p] EXCEPT !.children = @ \cup {n}]
                    ELSE tasks[i]]
      /\ ready' = Append(ready, n)
      /\ UNCHANGED <<finished, current, phase, drain, owed>>
    BY <1>0 DEF Create
<1>2. /\ phase = "run" /\ p = current /\ tasks[p] \in TaskRecord /\ tasks[p].state = "Running"
    BY <1>1, ActiveFacts
<1>3. next \in Nat /\ n \notin Live /\ n # p /\ ready \in Seq(Id) /\ None # n
    BY <1>0, Parts DEF Fresh, Places, Id, Table, Lists, None
<1>4. /\ Live' = Live \cup {n} /\ tasks'[n] = NewTask(p)
      /\ tasks'[p] = [tasks[p] EXCEPT !.children = @ \cup {n}]
      /\ \A i \in Live \ {p} : tasks'[i] = tasks[i]
    BY <1>1, <1>3 DEF Live
<1>n. /\ tasks'[n].children = {} /\ tasks'[n].members = {} /\ tasks'[n].noted = {}
      /\ tasks'[n].waiter = None /\ tasks'[n].state = "Queued" /\ tasks'[n].ext = "none"
      /\ tasks'[n].handed = FALSE /\ tasks'[n].returned = 0
    BY <1>4 DEF NewTask
<1>p. /\ tasks'[p].children = tasks[p].children \cup {n} /\ tasks'[p].members = tasks[p].members
      /\ tasks'[p].noted = tasks[p].noted
      /\ tasks'[p].waiter = tasks[p].waiter /\ tasks'[p].state = tasks[p].state
      /\ tasks'[p].on = tasks[p].on /\ tasks'[p].ext = tasks[p].ext
      /\ tasks'[p].handed = tasks[p].handed /\ tasks'[p].returned = tasks[p].returned
    BY <1>2, <1>4 DEF TaskRecord
<1>5. \A i \in Live : /\ tasks[i].children \subseteq tasks'[i].children /\ tasks'[i].members = tasks[i].members
                      /\ tasks'[i].noted = tasks[i].noted
                      /\ tasks'[i].waiter = tasks[i].waiter /\ tasks'[i].state = tasks[i].state
                      /\ tasks'[i].on = tasks[i].on /\ tasks'[i].ext = tasks[i].ext
                      /\ tasks'[i].handed = tasks[i].handed /\ tasks'[i].returned = tasks[i].returned
                      /\ i # p => tasks'[i].children = tasks[i].children
    BY <1>4, <1>p
<1>6. Groups'
  <2>1. Grouped(n)'
    BY <1>n DEF Grouped
  <2>2. \A i \in Live : Grouped(i)'
    <3> SUFFICES ASSUME NEW i \in Live PROVE Grouped(i)'
      OBVIOUS
    <3>1. Grouped(i) /\ tasks[i].members \subseteq Live
      BY <1>2, RunFacts
    <3> QED BY <1>5, <3>1 DEF Grouped
  <2> QED BY <1>4, <2>1, <2>2 DEF Groups
<1>7. Waiters'
  <2>1. Expected(n)'
    BY <1>n DEF Expected
  <2>2. \A i \in Live : Expected(i)'
    <3> SUFFICES ASSUME NEW i \in Live PROVE Expected(i)'
      OBVIOUS
    <3>1. Expected(i) /\ ~Ending(i) /\ (tasks[i].waiter = None \/ tasks[i].waiter \in Live)
      BY <1>2, RunFacts, QFacts
    <3> QED BY <1>5, <3>1 DEF Expected
  <2> QED BY <1>4, <2>1, <2>2 DEF Waiters
<1>8. Services'
  <2>1. Served(n)'
    BY <1>n DEF Served
  <2>2. \A i \in Live : Served(i)'
    <3> SUFFICES ASSUME NEW i \in Live PROVE Served(i)'
      OBVIOUS
    <3>1. Served(i) /\ tasks[i].children \subseteq Live
      BY <1>2, RunFacts
    <3> QED BY <1>5, <3>1 DEF Served
  <2> QED BY <1>4, <2>1, <2>2 DEF Services
<1>9. Counts'
  <2>1. Counted(n)'
    <3>1. Handed(n)' = {}
      BY <1>n DEF Handed
    <3> QED BY <1>n, <3>1, FS_EmptySet DEF Counted
  <2>2. \A i \in Live : Handed(i)' = Handed(i)
    <3> SUFFICES ASSUME NEW i \in Live PROVE Handed(i)' = Handed(i)
      OBVIOUS
    <3>1. tasks[i].children \subseteq Live
      BY <1>2, RunFacts
    <3>2. CASE i = p
      BY <1>5, <1>n, <1>p, <3>1, <3>2 DEF Handed
    <3>3. CASE i # p
      BY <1>5, <3>1, <3>3 DEF Handed
    <3> QED BY <3>2, <3>3
  <2>3. \A i \in Live : Counted(i)'
    BY <1>2, <1>5, <2>2, RunFacts DEF Counted
  <2> QED BY <1>4, <2>1, <2>3 DEF Counts
<1>10. RunsOK'
    BY <1>1, <1>2, <1>4, <1>5, <1>n, RunFacts DEF RunsOK, Busy
<1>11. OwedOK'
  <2>1. OwedOK
    BY <1>2, RunFacts
  <2> QED BY <1>1, <1>2, <1>4, <1>5, <2>1 DEF OwedOK, Busy, Ending
<1>12. Listing'
  <2>1. Listing
    BY <1>2, RunFacts
  <2>2. /\ Len(ready) \in Nat /\ Len(ready') = Len(ready) + 1 /\ ready'[Len(ready) + 1] = n
        /\ \A k \in 1..Len(ready) : ready'[k] = ready[k] /\ ready[k] \in Nat
    BY <1>1, <1>0, <1>3, LenProperties, ElementOfSeq, TasksAssumption DEF Id
  <2>3. \A k \in 1..Len(ready') : k \in 1..Len(ready) \/ k = Len(ready) + 1
    BY <2>2
  <2>4. \A k \in 1..Len(ready) : ready[k] # n /\ ready[k] <= n /\ ready[k] <= next
    BY <1>0, <1>3, <2>1, <2>2 DEF Listing
  <2>5. \A k \in 1..Len(ready') : /\ ready'[k] <= n
                                  /\ ready'[k] \in Live' => tasks'[ready'[k]].state = "Queued" \/ ready'[k] = owed'
    <3> TAKE k \in 1..Len(ready')
    <3>1. CASE k \in 1..Len(ready)
      BY <1>1, <1>4, <1>5, <2>1, <2>2, <2>4, <3>1 DEF Listing
    <3>2. CASE k = Len(ready) + 1
      BY <1>0, <1>3, <1>n, <2>2, <3>2
    <3> QED BY <2>3, <3>1, <3>2
  <2>6. \A k, m \in 1..Len(ready') : ready'[k] = ready'[m] /\ ready'[k] \in Live' => k = m
    BY <1>4, <2>1, <2>2, <2>3, <2>4 DEF Listing
  <2>7. \A i \in Live' : tasks'[i].state = "Queued" => \E k \in 1..Len(ready') : ready'[k] = i
    <3>1. Len(ready) + 1 \in 1..Len(ready') /\ \A k \in 1..Len(ready) : k \in 1..Len(ready')
      BY <2>2
    <3> QED BY <1>4, <1>5, <2>1, <2>2, <3>1 DEF Listing
  <2> QED BY <1>1, <2>5, <2>6, <2>7 DEF Listing
<1>13. Stamps'
    BY <1>1, <1>2, <1>4, <1>5, <1>n, RunFacts DEF Stamps, Terminal
<1> QED BY <1>1, <1>2, <1>6, <1>7, <1>8, <1>9, <1>10, <1>11, <1>12, <1>13, QGoal DEF AtRest

\* The root ends last, and with it the run.
LEMMA QPickRoot == ASSUME TasksInv, QueueInv, PickRoot PROVE QueueInv'
<1>1. /\ phase = "pick" /\ tasks[Root].state \in Terminal
      /\ phase' = IF Live = {Root} /\ tasks[Root].children = {} /\ pending = 0 THEN "done" ELSE "fatal"
    BY DEF PickRoot, RootDone, Terminal
<1>2. Root \in Live
    BY <1>1, RootUp DEF AtRest
<1>3. tasks[Root].children = {} /\ tasks[Root].ext # "pending"
    BY <1>1, <1>2, Parts DEF RootOK, ExtOK
<1>4. Live = {Root}
  <2> SUFFICES ASSUME Live \ {Root} # {} PROVE FALSE
    BY <1>2
  <2>1. \E i \in Live \ {Root} : tasks[i].parent \notin Live \ {Root}
    BY Parts DEF OneTree
  <2>2. PICK i \in Live \ {Root} : tasks[i].parent = Root
    BY <2>1, Parts DEF OneTree
  <2> QED BY <1>2, <1>3, <2>2, Parts DEF OneTree, Table
<1>5. pending = 0
  <2>1. Pendings = {}
    BY <1>3, <1>4 DEF Pendings
  <2> QED BY <2>1, Parts, FS_EmptySet DEF Reactors
<1> QED BY <1>1, <1>3, <1>4, <1>5, QDone

\* Between activations nothing is doomed and nothing owed.
LEMMA RestFacts ==
    ASSUME QueueInv, AtRest
    PROVE  Doomed = {} /\ ~Busy /\ owed = None /\ phase # "done" /\ \A i : ~Ending(i)
<1>1. Doomed = {} /\ ~Busy /\ phase # "done" /\ \A i : ~Ending(i)
    BY DEF AtRest, Doomed, Busy, Ending
<1>2. OwedOK
    BY <1>1, QParts
<1> QED BY <1>1, <1>2 DEF OwedOK

\* A task is queued or resumed.
LEMMA ResumeStep ==
    ASSUME TasksInv, QueueInv, AtRest, NEW id \in Live, tasks' = [tasks EXCEPT ![id] = tasks'[id]],
           \A f \in DOMAIN tasks[id] \ {"state", "ext"} : tasks'[id][f] = tasks[id][f],
           tasks[id].state \in {"Queued", "ExternalWaiting"}, tasks'[id].state \in {"Running", "Queued"},
           tasks'[id].ext # "pending", finished' = finished
    PROVE  Groups' /\ Waiters' /\ Services' /\ Counts' /\ Stamps' /\ Live' = Live
<1>1. tasks \in [Live -> TaskRecord] /\ tasks[id] \in TaskRecord /\ Doomed = {} /\ phase # "done"
    BY RestFacts, Parts DEF Table
<1>2. Live' = Live /\ \A i \in Live \ {id} : tasks'[i] = tasks[i]
    BY <1>1 DEF Live
<1>3. /\ OwnsSame(id) /\ tasks'[id].members = tasks[id].members /\ tasks'[id].noted = tasks[id].noted
      /\ tasks'[id].waiter = tasks[id].waiter
      /\ tasks[id].state \notin Terminal \cup {"Waiting"} /\ tasks'[id].state \notin Terminal
    BY <1>1 DEF TaskRecord, OwnsSame, Terminal
<1>4. \A i \in Live : /\ OwnsSame(i) /\ tasks'[i].members = tasks[i].members /\ tasks'[i].noted = tasks[i].noted
                      /\ tasks'[i].waiter = tasks[i].waiter
                      /\ i # id => WaitsSame(i)
    BY <1>2, <1>3 DEF OwnsSame, WaitsSame
<1>5. Groups'
  <2> SUFFICES ASSUME NEW i \in Live PROVE Grouped(i)'
    BY <1>2 DEF Groups
  <2>1. Grouped(i) /\ tasks[i].members \subseteq Live
    BY <1>1, QFacts
  <2> QED BY <1>4, <2>1 DEF Grouped, OwnsSame
<1>6. Waiters'
  <2> SUFFICES ASSUME NEW i \in Live PROVE Expected(i)'
    BY <1>2 DEF Waiters
  <2>1. Expected(i) /\ ~Ending(i) /\ (tasks[i].waiter = None \/ tasks[i].waiter \in Live)
    BY <1>1, RestFacts, QFacts
  <2>2. tasks'[i].handed = tasks[i].handed /\ (tasks'[i].state \in Terminal <=> tasks[i].state \in Terminal)
    BY <1>4 DEF OwnsSame
  <2>3. CASE tasks[i].waiter = id
    BY <1>3, <1>4, <2>1, <2>2, <2>3 DEF Expected
  <2>4. CASE tasks[i].waiter # id
    <3>1. tasks[i].waiter = None \/ WaitsSame(tasks[i].waiter)
      BY <1>4, <2>1, <2>4
    <3> QED BY <1>4, <2>1, <2>2, <3>1 DEF Expected, WaitsSame
  <2> QED BY <2>3, <2>4
<1>7. Services'
  <2> SUFFICES ASSUME NEW i \in Live PROVE Served(i)'
    BY <1>2 DEF Services
  <2>1. CASE i = id
    BY <1>3, <2>1 DEF Served
  <2>2. CASE i # id
    <3>1. Served(i) /\ tasks[i].children \subseteq Live /\ WaitsSame(i)
      BY <1>1, <1>4, <2>2, QFacts
    <3> QED BY <1>4, <3>1 DEF Served, WaitsSame, OwnsSame
  <2> QED BY <2>1, <2>2
<1>8. Counts'
  <2> SUFFICES ASSUME NEW i \in Live PROVE Counted(i)'
    BY <1>2 DEF Counts
  <2>1. Counted(i) /\ tasks[i].children \subseteq Live
    BY <1>1, QFacts
  <2>2. Handed(i)' = Handed(i)
    BY <1>4, <2>1 DEF OwnsSame, Handed
  <2> QED BY <1>4, <2>1, <2>2 DEF OwnsSame, Counted
<1>9. Stamps'
  <2>1. Stamps
    BY <1>1, QFacts
  <2>2. \A i \in Live : i # id => tasks'[i].state = tasks[i].state
    BY <1>2
  <2> QED BY <1>2, <1>3, <2>1, <2>2 DEF Stamps, Terminal
<1> QED BY <1>2, <1>5, <1>6, <1>7, <1>8, <1>9

\* The first live entry of the queue is Queued, and it was there only once.
LEMMA QPickTask == ASSUME TasksInv, QueueInv, PickTask PROVE QueueInv'
<1>0. phase = "pick" /\ UNCHANGED <<next, finished, waits, drain, owed>>
    BY DEF PickTask
<1>1. PICK k \in Entries :
        /\ \A m \in Entries : k <= m
        /\ ready' = SubSeq(ready, k + 1, Len(ready))
        /\ IF tasks[ready[k]].state = "Queued"
           THEN /\ tasks' = [tasks EXCEPT ![ready[k]].state = "Running"]
                /\ current' = ready[k] /\ phase' = "run"
           ELSE phase' = "fatal" /\ UNCHANGED <<tasks, current>>
    BY DEF PickTask
<1>2. PICK id : id = ready[k]
    OBVIOUS
<1>3. AtRest /\ owed = None /\ Listing /\ RunsOK /\ None \notin Live /\ ~Busy
    BY <1>0, RestFacts, QFacts DEF AtRest
<1>4. /\ id \in Live /\ k \in 1..Len(ready) /\ ready \in Seq(Id) /\ Len(ready) \in Nat
      /\ tasks \in [Live -> TaskRecord] /\ tasks[id] \in TaskRecord
    BY <1>2, Parts, LenProperties DEF Entries, Lists, Table
<1>5. tasks[id].state = "Queued"
    BY <1>2, <1>3, <1>4 DEF Listing
<1>6. tasks' = [tasks EXCEPT ![id].state = "Running"] /\ current' = id /\ phase' = "run"
    BY <1>1, <1>2, <1>5
<1>7. /\ tasks' = [tasks EXCEPT ![id] = tasks'[id]]
      /\ tasks'[id] = [tasks[id] EXCEPT !.state = "Running"]
    BY <1>4, <1>6
<1>8. /\ \A f \in DOMAIN tasks[id] \ {"state", "ext"} : tasks'[id][f] = tasks[id][f]
      /\ tasks'[id].state = "Running" /\ tasks'[id].ext = tasks[id].ext
    BY <1>4, <1>7 DEF TaskRecord
<1>9. tasks[id].ext # "pending"
    BY <1>4, <1>5, Parts DEF ExtOK
<1>10. Groups' /\ Waiters' /\ Services' /\ Counts' /\ Stamps' /\ Live' = Live
    BY <1>0, <1>3, <1>4, <1>5, <1>7, <1>8, <1>9, ResumeStep
<1>11. \A i \in Live \ {id} : tasks'[i] = tasks[i]
    BY <1>4, <1>7
<1>12. RunsOK'
    BY <1>3, <1>6, <1>8, <1>10, <1>11 DEF RunsOK, Busy
<1>13. OwedOK'
    BY <1>0, <1>3, <1>6 DEF OwedOK
<1>14. Listing'
  <2>1. k \in Nat /\ 1 <= k /\ k <= Len(ready)
    BY <1>4
  <2>2. /\ Len(ready') = Len(ready) - k
        /\ \A j \in 1..Len(ready) - k : ready'[j] = ready[j + k]
    BY <1>1, <1>4, <2>1
  <2>3. \A j \in 1..Len(ready) - k : j + k \in 1..Len(ready) /\ j + k # k
    BY <1>4, <2>1
  <2>4. \A j \in 1..Len(ready) - k : ready'[j] # id
    BY <1>2, <1>3, <1>4, <2>2, <2>3 DEF Listing
  <2>5. \A j \in 1..Len(ready') : /\ ready'[j] <= next'
                                  /\ ready'[j] \in Live' => tasks'[ready'[j]].state = "Queued" \/ ready'[j] = owed'
    BY <1>0, <1>3, <1>10, <1>11, <2>2, <2>3, <2>4 DEF Listing
  <2>6. \A j, m \in 1..Len(ready') : ready'[j] = ready'[m] /\ ready'[j] \in Live' => j = m
    <3> SUFFICES ASSUME NEW j \in 1..Len(ready'), NEW m \in 1..Len(ready'),
                        ready'[j] = ready'[m], ready'[j] \in Live PROVE j = m
      BY <1>10
    <3>1. j + k = m + k
      BY <1>3, <2>2, <2>3 DEF Listing
    <3>2. j \in Nat /\ m \in Nat
      BY <1>4, <2>1, <2>2
    <3> QED BY <2>1, <3>1, <3>2
  <2>7. ASSUME NEW i \in Live, tasks'[i].state = "Queued" PROVE \E j \in 1..Len(ready') : ready'[j] = i
    <3>1. i # id /\ tasks[i].state = "Queued"
      BY <1>8, <1>11, <2>7
    <3>2. PICK m \in 1..Len(ready) : ready[m] = i
      BY <1>3, <3>1 DEF Listing
    <3>3. k <= m /\ m # k
      BY <1>1, <1>2, <3>1, <3>2 DEF Entries
    <3>4. m - k \in 1..Len(ready) - k /\ (m - k) + k = m
      BY <1>4, <2>1, <3>3
    <3> QED BY <2>2, <3>2, <3>4
  <2> QED BY <1>10, <2>5, <2>6, <2>7 DEF Listing
<1> QED BY <1>6, <1>10, <1>12, <1>13, <1>14, QGoal DEF AtRest

\* A task that waits for its notification is not in the queue.
LEMMA QTake == ASSUME TasksInv, QueueInv, Take PROVE QueueInv'
<1>0. PICK id : id = Head(notices)[1]
    OBVIOUS
<1>1. /\ phase = "take" /\ UNCHANGED <<next, finished, current, phase, drain, owed>>
    BY DEF Take
<1>2. CASE UNCHANGED <<tasks, ready>>
    BY <1>1, <1>2, SeenStep DEF SeenSame, Live
<1>3. CASE /\ id \in Live /\ tasks[id].ext = "pending" /\ tasks[id].state = "ExternalWaiting"
           /\ tasks' = [tasks EXCEPT ![id].ext = "ready", ![id].state = "Queued"]
           /\ ready' = Append(ready, id)
  <2>1. AtRest /\ owed = None /\ Listing /\ RunsOK /\ None \notin Live /\ ~Busy
    BY <1>1, RestFacts, QFacts DEF AtRest
  <2>2. tasks \in [Live -> TaskRecord] /\ tasks[id] \in TaskRecord /\ ready \in Seq(Id) /\ id \in Id
    BY <1>3, Parts DEF Table, Lists
  <2>3. /\ tasks' = [tasks EXCEPT ![id] = tasks'[id]]
        /\ tasks'[id] = [tasks[id] EXCEPT !.ext = "ready", !.state = "Queued"]
    BY <1>3, <2>2
  <2>4. /\ \A f \in DOMAIN tasks[id] \ {"state", "ext"} : tasks'[id][f] = tasks[id][f]
        /\ tasks'[id].state = "Queued" /\ tasks'[id].ext = "ready"
    BY <2>2, <2>3 DEF TaskRecord
  <2>5. Groups' /\ Waiters' /\ Services' /\ Counts' /\ Stamps' /\ Live' = Live
    BY <1>1, <1>3, <2>1, <2>3, <2>4, ResumeStep
  <2>6. \A i \in Live \ {id} : tasks'[i] = tasks[i]
    BY <2>2, <2>3
  <2>7. RunsOK'
    BY <1>1, <2>1, <2>4, <2>5, <2>6 DEF RunsOK, Busy
  <2>8. OwedOK'
    BY <1>1, <2>1 DEF OwedOK
  <2>9. Listing'
    <3>1. /\ Len(ready) \in Nat /\ Len(ready') = Len(ready) + 1 /\ ready'[Len(ready) + 1] = id
          /\ \A k \in 1..Len(ready) : ready'[k] = ready[k]
      BY <1>3, <2>2, LenProperties
    <3>2. \A k \in 1..Len(ready') : k \in 1..Len(ready) \/ k = Len(ready) + 1
      BY <3>1
    <3>3. \A k \in 1..Len(ready) : ready[k] # id
      BY <1>3, <2>1 DEF Listing
    <3>4. id <= next
      BY <1>3, Parts DEF Fresh
    <3>5. \A k \in 1..Len(ready') : /\ ready'[k] <= next'
                                    /\ ready'[k] \in Live' => tasks'[ready'[k]].state = "Queued" \/ ready'[k] = owed'
      BY <1>1, <2>1, <2>4, <2>5, <2>6, <3>1, <3>2, <3>3, <3>4 DEF Listing
    <3>6. \A k, m \in 1..Len(ready') : ready'[k] = ready'[m] /\ ready'[k] \in Live' => k = m
      BY <2>1, <2>5, <3>1, <3>2, <3>3 DEF Listing
    <3>7. \A i \in Live' : tasks'[i].state = "Queued" => \E k \in 1..Len(ready') : ready'[k] = i
      <4>1. Len(ready) + 1 \in 1..Len(ready') /\ \A k \in 1..Len(ready) : k \in 1..Len(ready')
        BY <3>1
      <4> QED BY <2>1, <2>5, <2>6, <3>1, <4>1 DEF Listing
    <3> QED BY <3>5, <3>6, <3>7 DEF Listing
  <2>10. Root \in Live'
    BY <2>1, <2>5, RootUp
  <2> QED BY <1>1, <2>5, <2>7, <2>8, <2>9, <2>10, QGoal
<1> QED BY <1>0, <1>2, <1>3 DEF Take

\* Between activations a task that has not ended is queued, waits for the
\* reactor, or has a child that has not ended.
LEMMA Dependent ==
    ASSUME TasksInv, QueueInv, AtRest, NEW i \in Live, tasks[i].state \notin Terminal,
           tasks[i].state # "Queued", tasks[i].ext # "pending"
    PROVE  \E c \in Live : tasks[c].parent = i /\ tasks[c].state \notin Terminal
<1>1. /\ Served(i) /\ Grouped(i) /\ tasks[i].members \subseteq Live /\ tasks[i].children \subseteq Live
      /\ RunsOK /\ ~Busy /\ tasks[i] \in TaskRecord
    BY RestFacts, QFacts, Parts DEF Table
<1>2. \A c \in tasks[i].children : c \in Live /\ tasks[c].parent = i
    BY <1>1, RestFacts, QFacts
<1>3. tasks[i].state \in {"Waiting", "Observing"}
    BY <1>1 DEF RunsOK, Served, TaskRecord
<1>4. CASE tasks[i].state = "Waiting"
    BY <1>1, <1>2, <1>4 DEF Served
<1>5. CASE tasks[i].state = "Observing"
  <2>1. PICK c \in tasks[i].members : TRUE
    BY <1>1, <1>5 DEF Served
  <2>2. tasks[c].state \notin Terminal
    BY <1>1, <1>5, <2>1 DEF Served, Grouped
  <2> QED BY <1>1, <1>2, <2>1, <2>2 DEF Grouped
<1> QED BY <1>3, <1>4, <1>5

\* Tasks that wait for each other would need one child more than there are
\* tasks: the root has no parent.
LEMMA QPickNone == ASSUME TasksInv, QueueInv, PickNone PROVE QueueInv'
<1>1. /\ phase = "pick" /\ ~RootDone /\ Entries = {} /\ ready' = <<>>
      /\ phase' = IF pending = 0 THEN "fatal" ELSE "block"
      /\ UNCHANGED <<tasks, next, finished, current, drain, owed>>
    BY DEF PickNone
<1>2. /\ AtRest /\ owed = None /\ Listing /\ RunsOK /\ Stamps /\ Root \in Live /\ ~Busy
      /\ \A i : ~Ending(i)
    BY <1>1, RestFacts, RootUp, QFacts DEF AtRest
<1>3. \A i \in Live : tasks[i].state # "Queued"
    BY <1>1, <1>2 DEF Listing, Entries
<1>4. pending # 0
  <2> SUFFICES ASSUME pending = 0 PROVE FALSE
    OBVIOUS
  <2> DEFINE U == {i \in Live : tasks[i].state \notin Terminal}
             T == U \ {Root}
             f == [i \in U |-> CHOOSE c \in U : tasks[c].parent = i]
  <2>1. Pendings = {}
    <3>1. IsFiniteSet(Pendings) /\ Cardinality(Pendings) = 0
      BY Parts, Finite DEF Table, Pendings, Reactors
    <3> QED BY <3>1, FS_EmptySet
  <2>2. \A i \in U : \E c \in U : tasks[c].parent = i
    BY <1>2, <1>3, <2>1, Dependent DEF Pendings
  <2>3. Root \in U
    BY <1>1, <1>2 DEF RootDone, Stamps, Terminal
  <2>4. \A i \in U : i \in Live /\ i # None
    BY Parts DEF Table, Id, None
  <2>5. tasks[Root].parent = None
    BY <1>2, Parts DEF RootOK
  <2>6. IsFiniteSet(U)
    BY Parts, Finite DEF Table
  <2> HIDE DEF U
  <2>7. \A i \in U : f[i] \in T /\ tasks[f[i]].parent = i
    BY <2>2, <2>4, <2>5
  <2>8. f \in [U -> T]
    BY <2>7
  <2> HIDE DEF f
  <2>9. \A x, y \in U : f[x] = f[y] => x = y
    BY <2>7
  <2>10. IsFiniteSet(T) /\ Cardinality(T) = Cardinality(U) - 1 /\ Cardinality(U) \in Nat
    BY <2>3, <2>6, FS_RemoveElement, FS_CardinalityType
  <2>11. Cardinality(T) < Cardinality(U)
    BY <2>10
  <2> HIDE DEF T
  <2> QED BY <2>6, <2>8, <2>9, <2>10, <2>11, FS_PigeonHole
<1>5. Groups' /\ Waiters' /\ Services' /\ Counts' /\ Stamps'
  <2>0. phase' = "block" /\ phase # "done" /\ Doomed = {}
    BY <1>1, <1>2, <1>4, RestFacts
  <2>1. Groups' /\ Waiters'
    BY <1>1, <1>2, <2>0, QParts DEF Groups, Grouped, Waiters, Expected, Live
  <2>2. Services' /\ Counts'
    BY <1>1, <2>0, QParts DEF Services, Served, Counts, Counted, Handed, Live
  <2> QED BY <1>1, <1>2, <2>1, <2>2 DEF Stamps, Live
<1>6. RunsOK' /\ OwedOK'
    BY <1>1, <1>2, <1>4 DEF RunsOK, OwedOK, Busy, Live
<1>7. Listing'
    BY <1>1, <1>3 DEF Listing, Live
<1> QED BY <1>1, <1>2, <1>4, <1>5, <1>6, <1>7, QGoal DEF Live

-----------------------------------------------------------------------------
(* The end of an activation.                                               *)

\* The waiter w of an ended task becomes ready.
Woken(w, id, outcome) ==
    /\ tasks'[w].state = "Queued"
    /\ ready' = IF outcome = "Faulted" THEN <<w>> \o ready ELSE Append(ready, w)

\* The end of task id, as its waiter w sees it.
Wakes(w, id, outcome) ==
    /\ phase' = "poll" /\ current' = None /\ finished' = Append(finished, id)
    /\ tasks' \in [Live -> TaskRecord] /\ \A i \in Live : Rest(i) /\ tasks'[i].handed = tasks[i].handed
    /\ tasks'[id].state = outcome /\ tasks'[id].members = tasks[id].members /\ tasks'[id].noted = tasks[id].noted
    /\ \A i \in Live \ {id, w} : tasks'[i] = tasks[i]
    /\ w # id /\ (w = None \/ w \in Live)
    /\ w = None => ready' = ready
    /\ w \in Live =>
          /\ tasks'[w].members = tasks[w].members
          /\ \/ /\ id \in tasks[w].members /\ tasks'[w].noted = tasks[w].noted \cup {id}
                /\ tasks'[w].on = tasks[w].on
                /\ \/ tasks[w].state = "Observing" /\ Woken(w, id, outcome)
                   \/ tasks[w].state # "Observing" /\ tasks'[w].state = tasks[w].state /\ ready' = ready
             \/ /\ id \notin tasks[w].members /\ tasks'[w].noted = tasks[w].noted
                /\ tasks[w].state = "Waiting" /\ tasks[w].on = id /\ Woken(w, id, outcome)

LEMMA WakeFacts ==
    ASSUME TasksInv, QueueInv, NEW id \in Live, NEW outcome \in {"Completed", "Faulted"}, Finish(id, outcome),
           Unended(id), ~Ending(id), phase # "done", NEW w, w = tasks[id].waiter
    PROVE  Wakes(w, id, outcome)
<1>1. Groups /\ Waiters
    BY QParts
<1>2. /\ tasks \in [Live -> TaskRecord] /\ tasks[id] \in TaskRecord /\ id \in Id /\ id # None /\ None \notin Live
      /\ w # id /\ (w = None \/ (w \in Live /\ tasks[w] \in TaskRecord /\ id \in tasks[w].children))
  <2>1. w \in {None, tasks[id].parent} /\ tasks[id].parent # id
    BY Parts, NotOwnParent DEF OneTree
  <2>2. id \in Id /\ id # None /\ None \notin Live
    BY Parts DEF Table, Id, None
  <2>3. w = None \/ (w \in Live /\ id \in tasks[w].children)
    BY <2>1, <2>2, Parts DEF OneTree, RootOK
  <2> QED BY <2>1, <2>2, <2>3, Parts DEF Table
<1>3. /\ tasks' \in [Live -> TaskRecord] /\ \A i \in Live : Rest(i)
      /\ tasks'[id].state = outcome /\ current' = None
    BY FinishFacts
<1>4. finished' = Append(finished, id)
    BY DEF Finish
<1> DEFINE ts == [tasks EXCEPT ![id].state = outcome]
<1>5. /\ ts \in [Live -> TaskRecord] /\ ts[id] = [tasks[id] EXCEPT !.state = outcome]
      /\ \A i \in Live \ {id} : ts[i] = tasks[i]
  <2>1. [tasks[id] EXCEPT !.state = outcome] \in TaskRecord
    BY <1>2 DEF TaskRecord, Terminal
  <2> QED BY <1>2, <2>1
<1>6. /\ ts[id].members = tasks[id].members /\ ts[id].noted = tasks[id].noted /\ ts[id].handed = tasks[id].handed
    BY <1>2, <1>5 DEF TaskRecord
<1>7. w # None => id \in tasks[w].members \/ (tasks[w].state = "Waiting" /\ tasks[w].on = id)
    BY <1>1 DEF Waiters, Expected, Unended
<1>8. \/ /\ w = None /\ tasks' = ts /\ phase' = "poll" /\ ready' = ready
      \/ /\ w \in Live /\ id \in tasks[w].members /\ phase' = "poll"
         /\ \/ /\ tasks[w].state = "Observing"
               /\ tasks' = [ts EXCEPT ![w].noted = @ \cup {id}, ![w].state = "Queued"]
               /\ ready' = IF outcome = "Faulted" THEN <<w>> \o ready ELSE Append(ready, w)
            \/ /\ tasks[w].state # "Observing"
               /\ tasks' = [ts EXCEPT ![w].noted = @ \cup {id}] /\ ready' = ready
      \/ /\ w \in Live /\ id \notin tasks[w].members /\ phase' = "poll"
         /\ tasks[w].state = "Waiting" /\ tasks[w].on = id
         /\ tasks' = [ts EXCEPT ![w].state = "Queued", ![w].on = None]
         /\ ready' = IF outcome = "Faulted" THEN <<w>> \o ready ELSE Append(ready, w)
    BY <1>2, <1>7 DEF Finish, Observed, Awaited, Sleeps
<1> HIDE DEF ts
<1>9. CASE w = None
    BY <1>2, <1>3, <1>4, <1>5, <1>6, <1>8, <1>9 DEF Wakes
<1>10. CASE w \in Live
  <2>1. tasks[w] \in TaskRecord /\ ts[w] = tasks[w] /\ w # None
    BY <1>2, <1>5, <1>10
  <2>2. phase' = "poll" /\ tasks'[id] = ts[id] /\ \A i \in Live \ {id, w} : tasks'[i] = tasks[i]
    BY <1>2, <1>5, <1>8, <2>1
  <2>3. /\ tasks'[w].members = tasks[w].members /\ tasks'[w].handed = tasks[w].handed
        /\ \/ /\ id \in tasks[w].members /\ tasks'[w].noted = tasks[w].noted \cup {id}
              /\ tasks'[w].on = tasks[w].on
              /\ \/ tasks[w].state = "Observing" /\ Woken(w, id, outcome)
                 \/ tasks[w].state # "Observing" /\ tasks'[w].state = tasks[w].state /\ ready' = ready
           \/ /\ id \notin tasks[w].members /\ tasks'[w].noted = tasks[w].noted
              /\ tasks[w].state = "Waiting" /\ tasks[w].on = id /\ Woken(w, id, outcome)
    <3>1. CASE /\ id \in tasks[w].members /\ tasks[w].state = "Observing"
               /\ tasks' = [ts EXCEPT ![w].noted = @ \cup {id}, ![w].state = "Queued"]
               /\ ready' = IF outcome = "Faulted" THEN <<w>> \o ready ELSE Append(ready, w)
      <4>1. tasks'[w] = [tasks[w] EXCEPT !.noted = @ \cup {id}, !.state = "Queued"]
        BY <1>5, <1>10, <2>1, <3>1
      <4>2. /\ tasks'[w].state = "Queued" /\ tasks'[w].noted = tasks[w].noted \cup {id}
            /\ \A f \in {"members", "handed", "on"} : tasks'[w][f] = tasks[w][f]
        BY <2>1, <4>1 DEF TaskRecord
      <4> QED BY <3>1, <4>2 DEF Woken
    <3>2. CASE /\ id \in tasks[w].members /\ tasks[w].state # "Observing"
               /\ tasks' = [ts EXCEPT ![w].noted = @ \cup {id}] /\ ready' = ready
      <4>1. tasks'[w] = [tasks[w] EXCEPT !.noted = @ \cup {id}]
        BY <1>5, <1>10, <2>1, <3>2
      <4> QED BY <2>1, <3>2, <4>1 DEF TaskRecord
    <3>3. CASE /\ id \notin tasks[w].members /\ tasks[w].state = "Waiting" /\ tasks[w].on = id
               /\ tasks' = [ts EXCEPT ![w].state = "Queued", ![w].on = None]
               /\ ready' = IF outcome = "Faulted" THEN <<w>> \o ready ELSE Append(ready, w)
      <4>1. tasks'[w] = [tasks[w] EXCEPT !.state = "Queued", !.on = None]
        BY <1>5, <1>10, <2>1, <3>3
      <4>2. tasks'[w].state = "Queued" /\ \A f \in {"members", "handed", "noted"} : tasks'[w][f] = tasks[w][f]
        BY <2>1, <4>1 DEF TaskRecord
      <4> QED BY <3>3, <4>2 DEF Woken
    <3> QED BY <1>8, <2>1, <3>1, <3>2, <3>3
  <2>4. \A i \in Live : tasks'[i].handed = tasks[i].handed
    BY <1>6, <2>2, <2>3
  <2> QED BY <1>2, <1>3, <1>4, <1>6, <1>10, <2>1, <2>2, <2>3, <2>4 DEF Wakes
<1> QED BY <1>2, <1>9, <1>10

\* The ready queue after its end: the waiter is there once, at either end.
LEMMA WokenListing ==
    ASSUME Listing, ready \in Seq(Id), NEW w \in Live, w \in Id, w <= next, next' = next, DOMAIN tasks' = Live,
           \A k \in 1..Len(ready) : ready[k] # w,
           NEW id \in Live, \A k \in 1..Len(ready) : ready[k] # id, tasks'[id].state # "Queued",
           NEW outcome, Woken(w, id, outcome), owed = None, None \notin Live,
           \A i \in Live \ {id, w} : tasks'[i] = tasks[i]
    PROVE  Listing'
<1> DEFINE n == Len(ready)
<1>1. PICK at \in 1..n+1, f \in [1..n -> Nat] :
        /\ Len(ready') = n + 1 /\ ready'[at] = w
        /\ \A k \in 1..n : f[k] \in 1..n+1 /\ ready'[f[k]] = ready[k]
        /\ \A k \in 1..n+1 : k = at \/ \E m \in 1..n : k = f[m]
  <2>1. n \in Nat
    BY LenProperties
  <2>2. CASE outcome = "Faulted"
    <3>1. \A S : \A x \in S : <<x>> \in Seq(S)
      OBVIOUS
    <3>2. <<w>> \in Seq(Id)
      BY ONLY <3>1, w \in Id
    <3>3. Len(<<w>>) = 1 /\ <<w>>[1] = w
      OBVIOUS
    <3>4. PICK a : a = <<w>>
      OBVIOUS
    <3>5. /\ Len(a \o ready) = Len(a) + Len(ready)
          /\ \A k \in 1..Len(a) : (a \o ready)[k] = a[k]
          /\ \A k \in Len(a)+1..Len(a)+Len(ready) : (a \o ready)[k] = ready[k - Len(a)]
      BY <3>2, <3>4, Joined
    <3>6. ready' = a \o ready /\ Len(a) = 1 /\ a[1] = w
      BY <2>2, <3>3, <3>4 DEF Woken
    <3>7. Len(ready') = n + 1 /\ ready'[1] = w /\ \A k \in 2..n+1 : ready'[k] = ready[k - 1]
      BY <2>1, <3>5, <3>6
    <3> DEFINE f == [k \in 1..n |-> k + 1]
    <3>8. f \in [1..n -> Nat] /\ 1 \in 1..n+1
      BY <2>1
    <3>9. \A k \in 1..n : f[k] \in 1..n+1 /\ ready'[f[k]] = ready[k]
      BY <2>1, <3>7
    <3>10. \A k \in 1..n+1 : k = 1 \/ \E m \in 1..n : k = f[m]
      <4>1. \A k \in 2..n+1 : k - 1 \in 1..n /\ k = f[k - 1]
        BY <2>1
      <4>2. \A k \in 1..n+1 : k = 1 \/ k \in 2..n+1
        BY <2>1
      <4> HIDE DEF f
      <4> QED BY <4>1, <4>2
    <3> HIDE DEF f, n
    <3> QED BY <3>7, <3>8, <3>9, <3>10
  <2>3. CASE outcome # "Faulted"
    <3>1. Len(ready') = n + 1 /\ ready'[n + 1] = w /\ \A k \in 1..n : ready'[k] = ready[k]
      BY <2>1, <2>3 DEF Woken
    <3> DEFINE f == [k \in 1..n |-> k]
    <3>2. f \in [1..n -> Nat] /\ n + 1 \in 1..n+1
      BY <2>1
    <3>3. \A k \in 1..n : f[k] \in 1..n+1 /\ ready'[f[k]] = ready[k]
      BY <2>1, <3>1
    <3>4. \A k \in 1..n+1 : k = n + 1 \/ \E m \in 1..n : k = f[m]
      <4>1. \A k \in 1..n : k = f[k]
        BY <2>1
      <4>2. \A k \in 1..n+1 : k = n + 1 \/ k \in 1..n
        BY <2>1
      <4> HIDE DEF f
      <4> QED BY <4>1, <4>2
    <3> HIDE DEF f, n
    <3> QED BY <3>1, <3>2, <3>3, <3>4
  <2> QED BY <2>2, <2>3
<1>2. \A k \in 1..n : /\ ready[k] <= next
                      /\ ready[k] \in Live => tasks[ready[k]].state = "Queued" \/ ready[k] = owed
    BY DEF Listing
<1>3. \A k, m \in 1..n : ready[k] = ready[m] /\ ready[k] \in Live => k = m
    BY DEF Listing
<1>4. \A i \in Live : tasks[i].state = "Queued" => \E k \in 1..n : ready[k] = i
    BY DEF Listing
<1>5. Live' = Live /\ tasks'[w].state = "Queued"
    BY DEF Live, Woken
<1> HIDE DEF n
<1>6. \A k \in 1..n+1 : /\ ready'[k] <= next'
                        /\ ready'[k] \in Live' => tasks'[ready'[k]].state = "Queued" \/ ready'[k] = owed'
  <2> SUFFICES ASSUME NEW k \in 1..n+1
               PROVE  /\ ready'[k] <= next'
                      /\ ready'[k] \in Live' => tasks'[ready'[k]].state = "Queued" \/ ready'[k] = owed'
    OBVIOUS
  <2>1. CASE k = at
    BY <1>1, <1>5, <2>1
  <2>2. ASSUME NEW m \in 1..n, k = f[m]
        PROVE  /\ ready'[k] <= next'
               /\ ready'[k] \in Live' => tasks'[ready'[k]].state = "Queued"
    <3>1. ready'[k] = ready[m] /\ ready[m] # w /\ ready[m] # id
      BY <1>1, <2>2 DEF n
    <3> QED BY <1>2, <1>5, <3>1
  <2> QED BY <1>1, <2>1, <2>2
<1>7. \A k, m \in 1..n+1 : ready'[k] = ready'[m] /\ ready'[k] \in Live' => k = m
  <2> SUFFICES ASSUME NEW k \in 1..n+1, NEW m \in 1..n+1, ready'[k] = ready'[m], ready'[k] \in Live PROVE k = m
    BY <1>5
  <2>1. \A j \in 1..n : ready'[f[j]] = ready[j] /\ ready[j] # w
    BY <1>1 DEF n
  <2>2. CASE k = at \/ m = at
    BY <1>1, <2>1, <2>2
  <2>3. CASE k # at /\ m # at
    BY <1>1, <1>3, <2>1, <2>3
  <2> QED BY <2>2, <2>3
<1>8. \A i \in Live' : tasks'[i].state = "Queued" => \E k \in 1..n+1 : ready'[k] = i
  <2> SUFFICES ASSUME NEW i \in Live, tasks'[i].state = "Queued" PROVE \E k \in 1..n+1 : ready'[k] = i
    BY <1>5
  <2>1. CASE i = w
    BY <1>1, <2>1
  <2>2. CASE i # w
    <3>1. i # id /\ tasks'[i] = tasks[i]
      BY <2>2
    <3>2. PICK k \in 1..n : ready[k] = i
      BY <1>4, <3>1
    <3> QED BY <1>1, <3>2
  <2> QED BY <2>1, <2>2
<1> QED BY <1>1, <1>6, <1>7, <1>8 DEF Listing

LEMMA QFinish ==
    ASSUME TasksInv, QueueInv, NEW id \in Live, NEW outcome \in {"Completed", "Faulted"}, Finish(id, outcome),
           Busy, current = id, Unended(id), Quiet(id), owed = None, \A i : ~Ending(i), Doomed \subseteq {id},
           tasks[id].state = "Running" \/ tasks[id].children = {}, UNCHANGED <<next, owed>>
    PROVE  QueueInv'
<1>0. PICK w : w = tasks[id].waiter
    OBVIOUS
<1>1. /\ Groups /\ Waiters /\ Services /\ Counts /\ RunsOK /\ OwedOK /\ Listing /\ Stamps
      /\ phase # "done"
    BY QParts DEF Busy
<1>w. Wakes(w, id, outcome)
    BY <1>0, <1>1, WakeFacts
<1>2. /\ phase' = "poll" /\ current' = None /\ finished' = Append(finished, id)
      /\ tasks' \in [Live -> TaskRecord] /\ \A i \in Live : Rest(i) /\ tasks'[i].handed = tasks[i].handed
      /\ tasks'[id].state = outcome /\ tasks'[id].members = tasks[id].members /\ tasks'[id].noted = tasks[id].noted
      /\ \A i \in Live \ {id, w} : tasks'[i] = tasks[i]
      /\ w # id /\ (w = None \/ w \in Live)
      /\ w = None => ready' = ready
    BY <1>w DEF Wakes
<1>3. w \in Live =>
        /\ tasks'[w].members = tasks[w].members
        /\ \/ /\ id \in tasks[w].members /\ tasks'[w].noted = tasks[w].noted \cup {id}
              /\ tasks'[w].on = tasks[w].on
              /\ \/ tasks[w].state = "Observing" /\ Woken(w, id, outcome)
                 \/ tasks[w].state # "Observing" /\ tasks'[w].state = tasks[w].state /\ ready' = ready
           \/ /\ id \notin tasks[w].members /\ tasks'[w].noted = tasks[w].noted
              /\ tasks[w].state = "Waiting" /\ tasks[w].on = id /\ Woken(w, id, outcome)
    BY <1>w DEF Wakes
<1>4. /\ tasks \in [Live -> TaskRecord] /\ Live \subseteq Id /\ None \notin Live /\ OneTree /\ ExtOK
      /\ ready \in Seq(Id) /\ finished \in Seq(Id) /\ Live' = Live
      /\ tasks[id].state \notin Terminal /\ outcome \in Terminal /\ outcome \notin {"Cancelled", "Queued"}
    BY <1>2, Parts DEF Table, Lists, Id, None, Live, Unended, Terminal
<1>5. \A i \in Live \ {id} : tasks'[i].state \in Terminal <=> tasks[i].state \in Terminal
    BY <1>2, <1>3 DEF Woken, Terminal
<1>6. /\ \A i \in Live : /\ tasks'[i].members = tasks[i].members /\ tasks'[i].children = tasks[i].children
                         /\ tasks'[i].waiter = tasks[i].waiter /\ tasks'[i].handed = tasks[i].handed
                         /\ tasks'[i].returned = tasks[i].returned /\ tasks'[i].ext = tasks[i].ext
      /\ \A i \in Live : tasks[i].children \subseteq Live
      /\ \A i \in Live : tasks[i].waiter # None => tasks[i].waiter \in Live /\ i \in tasks[tasks[i].waiter].children
  <2>1. \A i \in Live : tasks'[i].members = tasks[i].members
    BY <1>2, <1>3
  <2>2. \A i \in Live : tasks[i].children \subseteq Live
    BY <1>4 DEF OneTree, TaskRecord
  <2>3. \A i \in Live : tasks[i].waiter # None => tasks[i].waiter \in Live /\ i \in tasks[tasks[i].waiter].children
    BY <1>4, Parts DEF OneTree, RootOK
  <2> QED BY <1>2, <2>1, <2>2, <2>3 DEF Rest
<1>7. Doomed' = {} /\ \A i \in Live \ {id} : Served(i) /\ Counted(i)
    BY <1>1, <1>2 DEF Doomed, Services, Counts
<1>8. Groups'
  <2> SUFFICES ASSUME NEW i \in Live PROVE Grouped(i)'
    BY <1>4 DEF Groups
  <2>1. Grouped(i) /\ tasks[i].members \subseteq Live
    BY <1>1, <1>6 DEF Groups, Grouped
  <2>2. id \in tasks[i].members => i = w
    BY <1>0, <2>1 DEF Grouped
  <2>3. tasks'[i].noted = {c \in tasks[i].members : tasks'[c].state \in Terminal}
    <3>1. CASE id \in tasks[i].members
      <4>1. tasks'[i].noted = tasks[i].noted \cup {id}
        BY <1>3, <2>2, <3>1
      <4>2. tasks[i].noted = {c \in tasks[i].members : tasks[c].state \in Terminal}
        BY <2>1 DEF Grouped
      <4> QED BY <1>2, <1>4, <1>5, <2>1, <3>1, <4>1, <4>2
    <3>2. CASE id \notin tasks[i].members
      <4>1. tasks'[i].noted = tasks[i].noted
        BY <1>2, <1>3, <3>2
      <4>2. tasks[i].noted = {c \in tasks[i].members : tasks[c].state \in Terminal}
        BY <2>1 DEF Grouped
      <4> QED BY <1>5, <2>1, <3>2, <4>1, <4>2
    <3> QED BY <3>1, <3>2
  <2> QED BY <1>6, <2>1, <2>3 DEF Grouped
<1>9. Waiters'
  <2> SUFFICES ASSUME NEW i \in Live PROVE Expected(i)'
    BY <1>4 DEF Waiters
  <2>1. Expected(i)
    BY <1>1 DEF Waiters
  <2>2. CASE i = id
    BY <1>2, <1>4, <1>6, <2>1, <2>2 DEF Expected
  <2>3. CASE i # id
    <3>1. SUFFICES ASSUME tasks[i].state \notin Terminal, NEW v \in Live, v = tasks[i].waiter
                   PROVE  i \in tasks'[v].members \/ (tasks'[v].state = "Waiting" /\ tasks'[v].on = i)
      BY <1>5, <1>6, <2>1, <2>3 DEF Expected
    <3>2. i \in tasks[v].members \/ (tasks[v].state = "Waiting" /\ tasks[v].on = i)
      BY <1>4, <2>1, <3>1 DEF Expected
    <3>3. CASE tasks[v].state = "Waiting" /\ tasks[v].on = i
      <4>1. v # id
        BY <1>4, <1>6, <3>1, <3>3
      <4> QED BY <1>2, <1>3, <2>3, <3>3, <4>1 DEF Woken
    <3> QED BY <1>6, <3>2, <3>3
  <2> QED BY <2>2, <2>3
<1>10. Services'
  <2> SUFFICES ASSUME NEW i \in Live PROVE Served(i)'
    BY <1>4 DEF Services
  <2>1. CASE i = id
    BY <1>2, <1>4, <1>6, <2>1 DEF Served, Quiet, Terminal
  <2>2. CASE i = w
    <3>1. Served(w) /\ i \in Live
      BY <1>2, <1>7, <2>2
    <3>2. CASE Woken(w, id, outcome)
      <4>1. tasks[w].state \in {"Waiting", "Observing"} /\ tasks'[w].state = "Queued"
        BY <1>3, <2>2, <3>2 DEF Woken
      <4> QED BY <1>6, <2>2, <3>1, <4>1 DEF Served
    <3>3. CASE ~Woken(w, id, outcome)
      <4>1. /\ id \in tasks[w].members /\ tasks'[w].on = tasks[w].on
            /\ tasks[w].state # "Observing" /\ tasks'[w].state = tasks[w].state
        BY <1>3, <2>2, <3>3
      <4>2. ASSUME tasks[w].state = "Waiting"
            PROVE  /\ tasks[w].on \in tasks[w].children /\ tasks[w].on \in Live \ {id}
                   /\ tasks[tasks[w].on].waiter = w /\ tasks[tasks[w].on].state \notin Terminal
                   /\ tasks[w].on \notin tasks[w].members /\ tasks[w].ext = "none"
        BY <1>6, <2>2, <3>1, <4>1, <4>2 DEF Served
      <4>3. tasks[w].state = "ExternalWaiting" <=> tasks[w].ext = "pending"
        BY <3>1 DEF Served
      <4> QED BY <1>5, <1>6, <2>2, <4>1, <4>2, <4>3 DEF Served
    <3> QED BY <3>2, <3>3
  <2>3. CASE i \notin {id, w}
    <3>1. tasks'[i] = tasks[i] /\ Served(i)
      BY <1>2, <1>7, <2>3
    <3>2. ASSUME tasks[i].state = "Waiting"
          PROVE  /\ tasks[i].on \in tasks[i].children /\ tasks[i].on \in Live
                 /\ tasks[tasks[i].on].waiter = i /\ tasks[tasks[i].on].state \notin Terminal
                 /\ tasks[i].on \notin tasks[i].members /\ tasks[i].on # id
      BY <1>0, <1>6, <2>3, <3>1, <3>2 DEF Served
    <3> QED BY <1>5, <1>6, <3>1, <3>2 DEF Served
  <2> QED BY <2>1, <2>2, <2>3
<1>11. Counts'
  <2>1. \A i \in Live : Handed(i)' = Handed(i)
    BY <1>6 DEF Handed
  <2> QED BY <1>2, <1>4, <1>5, <1>6, <1>7, <2>1 DEF Counts, Counted
<1>12. RunsOK'
  <2>1. \A i \in Live : tasks'[i].state # "Running"
    BY <1>1, <1>2, <1>3, <1>4 DEF RunsOK, Woken, Terminal
  <2> QED BY <1>2, <1>4, <2>1 DEF RunsOK, Busy
<1>13. OwedOK'
    BY <1>2 DEF OwedOK
<1>14. \A k \in 1..Len(ready) : ready[k] # id
    BY <1>1, <1>4 DEF Listing, RunsOK
<1>15. Listing'
  <2>1. CASE w \in Live /\ tasks[w].state # "Queued" /\ Woken(w, id, outcome)
    <3>1. tasks[w].state # "Queued" /\ w <= next /\ w \in Id
      BY <1>4, <2>1, Parts DEF Fresh
    <3>2. \A k \in 1..Len(ready) : ready[k] # w
      BY <1>1, <1>4, <2>1, <3>1 DEF Listing
    <3> QED BY <1>1, <1>2, <1>4, <1>14, <2>1, <3>1, <3>2, WokenListing
  <2>2. CASE ~(w \in Live /\ tasks[w].state # "Queued" /\ Woken(w, id, outcome))
    <3>1. ready' = ready /\ \A i \in Live \ {id} : tasks'[i].state = tasks[i].state
      BY <1>2, <1>3, <2>2
    <3> QED BY <1>1, <1>2, <1>4, <1>14, <3>1 DEF Listing
  <2> QED BY <2>1, <2>2
<1>16. Stamps'
  <2>1. /\ Len(finished) \in Nat /\ Len(finished') = Len(finished) + 1 /\ finished'[Len(finished) + 1] = id
        /\ \A k \in 1..Len(finished) : finished'[k] = finished[k]
    BY <1>2, <1>4, LenProperties
  <2>2. Len(finished) + 1 \in 1..Len(finished') /\ \A k \in 1..Len(finished) : k \in 1..Len(finished')
    BY <2>1
  <2>3. \A i \in Live : tasks'[i].state \in Terminal => \E k \in 1..Len(finished') : finished'[k] = i
    BY <1>1, <1>5, <2>1, <2>2 DEF Stamps
  <2>4. Root \in Live => tasks'[Root].state # "Cancelled"
    BY <1>1, <1>2, <1>3, <1>4 DEF Stamps, Woken
  <2> QED BY <1>4, <2>3, <2>4 DEF Stamps
<1>17. Root \in Live'
    BY <1>4, RootUp
<1> QED BY <1>2, <1>8, <1>9, <1>10, <1>11, <1>12, <1>13, <1>15, <1>16, <1>17, QGoal

\* Whoever waits for the child to release is its parent.
LEMMA OwedChild ==
    ASSUME TasksInv, QueueInv, Busy, owed # None
    PROVE  owed \in tasks[current].children /\ ~tasks[owed].handed
<1>1. OwedOK /\ current # None /\ current \in Live
    BY QParts, BusyFacts DEF Busy
<1>2. owed \in Live /\ tasks[owed].waiter = current /\ ~tasks[owed].handed
    BY <1>1 DEF OwedOK
<1>3. tasks[owed].parent = current /\ owed \in Id
    BY <1>1, <1>2, Parts DEF OneTree, Table
<1> QED BY <1>1, <1>2, <1>3, Parts DEF OneTree

LEMMA QComplete == ASSUME TasksInv, QueueInv, NEW p \in Live, Complete(p) PROVE QueueInv'
<1>1. /\ phase = "run" /\ current = p /\ tasks[p].state = "Running" /\ tasks[p].ext = "none"
      /\ Cardinality(tasks[p].children) = tasks[p].returned
      /\ Finish(p, "Completed") /\ UNCHANGED <<next, owed>>
    BY DEF Complete, Active
<1>2. Busy /\ Doomed = {} /\ (\A i : ~Ending(i)) /\ Quiet(p) /\ Unended(p)
    BY <1>1, Parts DEF Busy, Doomed, Ending, Quiet, ExtOK, Unended, Terminal
<1>3. owed = None
  <2>1. tasks[p].returned = Cardinality(Handed(p))
    BY <1>1, <1>2, QParts DEF Counts, Counted, Unended
  <2>2. tasks[p].children \subseteq Id /\ Handed(p) \subseteq tasks[p].children
    BY Parts DEF Table, TaskRecord, Handed
  <2>3. Handed(p) = tasks[p].children
    BY <1>1, <2>1, <2>2, Finite, FS_Subset
  <2> QED BY <1>1, <1>2, <2>3, OwedChild DEF Handed
<1> QED BY <1>1, <1>2, <1>3, QFinish

LEMMA QFinishFault == ASSUME TasksInv, QueueInv, FinishFault PROVE QueueInv'
<1>1. PICK id : id = drain.of
    OBVIOUS
<1>2. /\ Retiring # None /\ Quiet(Retiring) /\ phase = "drain"
      /\ drain.work = <<>> /\ drain.then = "fault" /\ Finish(id, "Faulted")
      /\ UNCHANGED <<next, owed>>
    BY <1>1, RetiringFacts DEF FinishFault, Retired
<1>3. Retiring = id /\ tasks[id].children = {} /\ id \in Live /\ CallerOK
    BY <1>1, <1>2, RetiringFacts
<1>4. Unended(id) /\ current = id /\ Quiet(id)
    BY <1>1, <1>2, <1>3 DEF CallerOK
<1>5. Busy /\ Doomed = {id} /\ \A i : ~Ending(i)
  <2>1. Height = 0
    BY <1>2 DEF Height
  <2> QED BY <1>1, <1>2, <2>1 DEF Busy, Doomed, Ending
<1>6. owed = None
    BY <1>3, <1>4, <1>5, OwedChild
<1> QED BY <1>2, <1>3, <1>4, <1>5, <1>6, QFinish

LEMMA QAbandoned == ASSUME Abandoned PROVE QueueInv'
BY QDone DEF Abandoned

\* Every ended task keeps its stamp, and the one that just ended gets one.
LEMMA StampStep ==
    ASSUME Stamps, finished \in Seq(Id), NEW id \in Live, finished' = Append(finished, id), DOMAIN tasks' = Live,
           \A i \in Live \ {id} : tasks'[i].state = tasks[i].state,
           Root \in Live => tasks'[Root].state # "Cancelled"
    PROVE  Stamps'
<1>1. /\ Len(finished) \in Nat /\ Len(finished') = Len(finished) + 1 /\ finished'[Len(finished) + 1] = id
      /\ \A k \in 1..Len(finished) : finished'[k] = finished[k]
    BY LenProperties
<1>2. Len(finished) + 1 \in 1..Len(finished') /\ \A k \in 1..Len(finished) : k \in 1..Len(finished')
    BY <1>1
<1> QED BY <1>1, <1>2 DEF Stamps, Live

LEMMA QFinishCancel == ASSUME TasksInv, QueueInv, FinishCancel PROVE QueueInv'
<1>0. PICK c : c = drain.of
    OBVIOUS
<1>1. PICK outcome \in {"Faulted", "Cancelled"} : outcome = IF drain.first THEN "Faulted" ELSE "Cancelled"
    OBVIOUS
<1>2. /\ Retiring # None /\ Quiet(Retiring) /\ phase = "drain"
      /\ drain.work = <<>> /\ drain.then = "cancel" /\ tasks' = [tasks EXCEPT ![c].state = outcome]
      /\ finished' = Append(finished, c) /\ phase' = "run" /\ drain' = NoDrain
      /\ UNCHANGED <<next, ready, current, owed>>
    BY <1>0, <1>1, RetiringFacts DEF FinishCancel, Retired
<1>3. Retiring = c /\ tasks[c].children = {} /\ c \in Live /\ CallerOK /\ tasks[c].ext = "none"
    BY <1>0, <1>2, RetiringFacts DEF Quiet
<1>4. PICK p : p = current
    OBVIOUS
<1>5. Unended(c) /\ p \in Live /\ tasks[c].parent = p /\ p # c
    BY <1>0, <1>2, <1>3, <1>4, Parts, NotOwnParent DEF CallerOK, Unended
<1>6. /\ Groups /\ Waiters /\ Services /\ Counts /\ RunsOK /\ OwedOK /\ Listing /\ Stamps
    BY <1>2, QParts
<1>7. Busy /\ Doomed = {c} /\ \A i : i # c => ~Ending(i)
  <2>1. Height = 0
    BY <1>2 DEF Height
  <2> QED BY <1>0, <1>2, <2>1 DEF Busy, Doomed, Ending
<1>8. /\ tasks \in [Live -> TaskRecord] /\ tasks[c] \in TaskRecord /\ None \notin Live /\ finished \in Seq(Id)
    BY <1>3, Parts DEF Table, Id, None, Lists
<1>9. owed = c /\ tasks[c].waiter = p /\ c \notin tasks[p].members /\ ~tasks[c].handed /\ tasks[p].state = "Running"
    BY <1>0, <1>2, <1>3, <1>4, <1>6, <1>8 DEF OwedOK, RunsOK
<1>10. /\ tasks' = [tasks EXCEPT ![c] = tasks'[c]]
       /\ tasks'[c] = [tasks[c] EXCEPT !.state = outcome]
    BY <1>2, <1>3, <1>8
<1>11. /\ tasks'[c].state = outcome /\ outcome \in Terminal
       /\ \A f \in DOMAIN tasks[c] \ {"state"} : tasks'[c][f] = tasks[c][f]
    BY <1>1, <1>8, <1>10 DEF TaskRecord, Terminal
<1>12. tasks'[c].state = outcome /\ tasks'[c].members = tasks[c].members /\ tasks'[c].noted = tasks[c].noted
       /\ tasks'[c].children = tasks[c].children /\ tasks'[c].waiter = p /\ ~tasks'[c].handed /\ tasks'[c].ext = "none"
       /\ tasks'[c].handed = tasks[c].handed
    BY <1>3, <1>8, <1>9, <1>11 DEF TaskRecord
<1>13. DOMAIN tasks' = Live /\ Live' = Live /\ \A i \in Live \ {c} : tasks'[i] = tasks[i]
    BY <1>8, <1>10 DEF Live
<1>14. /\ \A i \in Live : /\ tasks[i].members \subseteq Live /\ tasks[i].children \subseteq Live
                          /\ c \notin tasks[i].members
                          /\ tasks[i].waiter # None => tasks[i].waiter \in Live \ {c}
       /\ \A i \in Live : tasks'[i].handed = tasks[i].handed
  <2>1. \A i \in Live : /\ tasks[i].members \subseteq Live /\ tasks[i].children \subseteq Live
                        /\ tasks[i].waiter \in {None, tasks[i].parent}
                        /\ tasks[i].waiter = None \/ tasks[i].waiter \in Live
    BY <1>2, QFacts
  <2>2. \A i \in Live : c \notin tasks[i].members
    BY <1>6, <1>9 DEF Groups, Grouped
  <2>3. \A i \in Live : tasks[i].waiter # c
    BY <1>3, <1>8, <2>1, Parts DEF OneTree, Table
  <2> QED BY <1>12, <1>13, <2>1, <2>2, <2>3
<1>15. Groups'
  <2> SUFFICES ASSUME NEW i \in Live PROVE Grouped(i)'
    BY <1>13 DEF Groups
  <2>1. /\ tasks'[i].members = tasks[i].members /\ tasks'[i].children = tasks[i].children
        /\ tasks'[i].noted = tasks[i].noted
    BY <1>12, <1>13
  <2>2. \A d \in tasks[i].members : tasks'[d] = tasks[d]
    BY <1>13, <1>14
  <2> QED BY <1>6, <2>1, <2>2 DEF Groups, Grouped
<1>16. Waiters'
  <2> SUFFICES ASSUME NEW i \in Live PROVE Expected(i)'
    BY <1>13 DEF Waiters
  <2>1. CASE i = c
    BY <1>11, <1>12, <2>1 DEF Expected
  <2>2. CASE i # c
    <3>1. Expected(i) /\ ~Ending(i) /\ tasks'[i] = tasks[i]
      BY <1>6, <1>7, <1>13, <2>2 DEF Waiters
    <3>2. tasks[i].waiter # None => tasks'[tasks[i].waiter] = tasks[tasks[i].waiter]
      BY <1>13, <1>14
    <3> QED BY <3>1, <3>2 DEF Expected
  <2> QED BY <2>1, <2>2
<1>17. Services'
  <2> SUFFICES ASSUME NEW i \in Live PROVE Served(i)'
    BY <1>13 DEF Services
  <2>1. CASE i = c
    BY <1>11, <1>12, <2>1 DEF Served, Terminal
  <2>2. CASE i # c
    <3>1. Served(i) /\ tasks'[i] = tasks[i]
      BY <1>6, <1>7, <1>13, <2>2 DEF Services
    <3>2. tasks[i].state = "Waiting" => tasks[i].on \in Live \ {c}
      BY <1>9, <1>14, <3>1 DEF Served
    <3> QED BY <1>13, <3>1, <3>2 DEF Served
  <2> QED BY <2>1, <2>2
<1>18. Counts'
  <2>1. \A i \in Live \ {c} : Handed(i)' = Handed(i)
    BY <1>13, <1>14 DEF Handed
  <2>2. \A i \in Live \ {c} : Counted(i)'
    BY <1>6, <1>7, <1>13, <2>1 DEF Counts, Counted
  <2>3. Counted(c)'
    BY <1>11 DEF Counted
  <2> QED BY <1>13, <2>2, <2>3 DEF Counts
<1>19. RunsOK'
  <2>1. Busy' /\ current' = p
    BY <1>2, <1>4 DEF Busy
  <2>2. \A i \in Live : tasks'[i].state = "Running" => i = p
    BY <1>4, <1>6, <1>11, <1>13 DEF RunsOK, Terminal
  <2>3. tasks'[p].state = "Running"
    BY <1>5, <1>9, <1>13
  <2> QED BY <1>2, <1>13, <2>1, <2>2, <2>3 DEF RunsOK
<1>20. OwedOK'
  <2>1. Busy' /\ current' = p /\ owed' = c
    BY <1>2, <1>4, <1>9 DEF Busy
  <2>2. tasks'[p].members = tasks[p].members
    BY <1>5, <1>13
  <2> QED BY <1>2, <1>3, <1>9, <1>11, <1>12, <1>13, <2>1, <2>2 DEF OwedOK
<1>21. Listing'
  <2>1. \A i \in Live : tasks'[i].state = "Queued" => tasks[i].state = "Queued"
    BY <1>11, <1>13 DEF Terminal
  <2>2. \A k \in 1..Len(ready) : ready[k] \in Live => tasks'[ready[k]].state = "Queued" \/ ready[k] = owed
    BY <1>6, <1>9, <1>13 DEF Listing
  <2> QED BY <1>2, <1>6, <1>13, <2>1, <2>2 DEF Listing
<1>22. Stamps'
  <2>1. c # Root
    BY <1>3, <1>5, <1>8, Parts DEF RootOK
  <2>2. Root \in Live => tasks'[Root].state # "Cancelled"
    BY <1>6, <1>13, <2>1 DEF Stamps
  <2>3. \A i \in Live \ {c} : tasks'[i].state = tasks[i].state
    BY <1>13
  <2> QED BY <1>2, <1>3, <1>6, <1>8, <1>13, <2>2, <2>3, StampStep
<1> QED BY <1>2, <1>15, <1>16, <1>17, <1>18, <1>19, <1>20, <1>21, <1>22, QGoal DEF AtRest

\* The child c that its parent p cancels: it leaves the observation group and
\* has ended, or a drain is going to end it.
Cancels(p, c) ==
    /\ DOMAIN tasks' = Live /\ \A i \in Live \ {p, c} : tasks'[i] = tasks[i]
    /\ \A f \in DOMAIN tasks[p] \ {"members", "noted"} : tasks'[p][f] = tasks[p][f]
    /\ tasks'[p].members = tasks[p].members \ {c} /\ tasks'[p].noted = tasks[p].noted \ {c}
    /\ \A f \in DOMAIN tasks[c] \ {"waiter", "ext", "job", "state"} : tasks'[c][f] = tasks[c][f]
    /\ tasks'[c].waiter = p

LEMMA CancelFields ==
    ASSUME TasksInv, NEW p \in Live, NEW c \in Live, Cancels(p, c)
    PROVE  /\ tasks'[p].children = tasks[p].children /\ tasks'[p].waiter = tasks[p].waiter
           /\ tasks'[p].state = tasks[p].state /\ tasks'[p].on = tasks[p].on /\ tasks'[p].ext = tasks[p].ext
           /\ tasks'[p].handed = tasks[p].handed /\ tasks'[p].returned = tasks[p].returned
           /\ tasks'[c].children = tasks[c].children /\ tasks'[c].on = tasks[c].on
           /\ tasks'[c].members = tasks[c].members /\ tasks'[c].noted = tasks[c].noted
           /\ tasks'[c].handed = tasks[c].handed /\ tasks'[c].returned = tasks[c].returned
<1>1. tasks[p] \in TaskRecord /\ tasks[c] \in TaskRecord
    BY Parts DEF Table
<1> QED BY <1>1 DEF TaskRecord, Cancels

LEMMA CancelStep ==
    ASSUME TasksInv, QueueInv, NEW p \in Live, NEW c \in Live, Cancellable(p, c), tasks[c].state \notin Terminal,
           Cancels(p, c), Doomed' \subseteq {c},
           \/ tasks'[c].state \in Terminal /\ tasks'[c].ext = "none" /\ tasks[c].state # "Waiting"
           \/ tasks'[c].state = tasks[c].state /\ Ending(c)' /\ Doomed' = {c}
    PROVE  Groups' /\ Waiters' /\ Services' /\ Counts'
<1>1. /\ phase = "run" /\ p = current /\ c # p /\ ~tasks[c].handed /\ tasks[c].waiter \in {None, p}
      /\ tasks[p].state = "Running" /\ tasks[p].ext = "none" /\ p # None /\ None \notin Live
      /\ \A i \in Live : c \in tasks[i].children <=> i = p
    BY PairFacts DEF Cancellable
<1>2. DOMAIN tasks' = Live /\ Live' = Live /\ \A i \in Live \ {p, c} : tasks'[i] = tasks[i]
    BY DEF Cancels, Live
<1>3. /\ tasks'[p].children = tasks[p].children /\ tasks'[p].waiter = tasks[p].waiter
      /\ tasks'[p].state = tasks[p].state /\ tasks'[p].on = tasks[p].on /\ tasks'[p].ext = tasks[p].ext
      /\ tasks'[p].handed = tasks[p].handed /\ tasks'[p].returned = tasks[p].returned
      /\ tasks'[p].members = tasks[p].members \ {c} /\ tasks'[p].noted = tasks[p].noted \ {c}
    BY CancelFields DEF Cancels
<1>4. /\ tasks'[c].children = tasks[c].children /\ tasks'[c].on = tasks[c].on
      /\ tasks'[c].members = tasks[c].members /\ tasks'[c].noted = tasks[c].noted
      /\ tasks'[c].handed = tasks[c].handed /\ tasks'[c].returned = tasks[c].returned
      /\ tasks'[c].waiter = p
    BY CancelFields DEF Cancels
<1>5. \A i \in Live : /\ Grouped(i) /\ Expected(i) /\ Served(i) /\ Counted(i) /\ ~Ending(i)
                      /\ tasks[i].members \subseteq Live /\ tasks[i].children \subseteq Live
                      /\ tasks[i].waiter = None \/ tasks[i].waiter \in Live
  <2>1. \A i \in Live : tasks[i].waiter = None \/ tasks[i].waiter \in Live
    BY <1>1, QFacts
  <2> QED BY <1>1, <2>1, RunFacts
<1>6. \A i \in Live : /\ tasks'[i].children = tasks[i].children /\ tasks'[i].handed = tasks[i].handed
                      /\ tasks'[i].returned = tasks[i].returned
                      /\ i # c => tasks'[i].waiter = tasks[i].waiter /\ tasks'[i].state = tasks[i].state
                      /\ i # p => tasks'[i].members = tasks[i].members /\ tasks'[i].noted = tasks[i].noted
  <2>1. \A i \in Live : i \in Live \ {p, c} \/ i = p \/ i = c
    OBVIOUS
  <2> QED BY <1>1, <1>2, <1>3, <1>4, <2>1
<1>7. \A i \in Live \ {p} : c \notin tasks[i].members
    BY <1>1, <1>5 DEF Grouped
<1>8. Groups'
  <2> SUFFICES ASSUME NEW i \in Live PROVE Grouped(i)'
    BY <1>2 DEF Groups
  <2>1. \A d \in tasks[i].members \ {c} : /\ tasks'[d].state = tasks[d].state
                                          /\ tasks'[d].waiter = tasks[d].waiter
    BY <1>5, <1>6
  <2>2. tasks'[i].members = tasks[i].members \ {c} /\ tasks'[i].noted = tasks[i].noted \ {c}
    <3>1. CASE i = p
      BY <1>3, <3>1
    <3>2. CASE i # p
      BY <1>5, <1>6, <1>7, <3>2 DEF Grouped
    <3> QED BY <3>1, <3>2
  <2>3. /\ tasks[i].members \subseteq tasks[i].children
        /\ tasks[i].noted = {d \in tasks[i].members : tasks[d].state \in Terminal}
        /\ \A d \in tasks[i].members : tasks[d].waiter = i
    BY <1>5 DEF Grouped
  <2>4. tasks'[i].noted = {d \in tasks'[i].members : tasks'[d].state \in Terminal}
    BY <2>1, <2>2, <2>3
  <2> QED BY <1>6, <2>1, <2>2, <2>3, <2>4 DEF Grouped
<1>9. Waiters'
  <2> SUFFICES ASSUME NEW i \in Live PROVE Expected(i)'
    BY <1>2 DEF Waiters
  <2>1. CASE i = c
    BY <1>1, <1>4, <2>1 DEF Expected
  <2>2. CASE i # c
    <3>1. Expected(i) /\ ~Ending(i) /\ tasks'[i].waiter = tasks[i].waiter /\ tasks'[i].state = tasks[i].state
          /\ tasks'[i].handed = tasks[i].handed
      BY <1>5, <1>6, <2>2
    <3>2. SUFFICES ASSUME tasks[i].state \notin Terminal, NEW v \in Live, v = tasks[i].waiter
                   PROVE  i \in tasks'[v].members \/ (tasks'[v].state = "Waiting" /\ tasks'[v].on = i)
      BY <1>5, <3>1 DEF Expected
    <3>3. i \in tasks[v].members \/ (tasks[v].state = "Waiting" /\ tasks[v].on = i)
      BY <1>1, <3>1, <3>2 DEF Expected
    <3>4. CASE v = p
      BY <1>1, <1>3, <2>2, <3>3, <3>4
    <3>5. CASE v = c
      BY <1>4, <3>3, <3>5 DEF Terminal
    <3>6. CASE v \notin {p, c}
      BY <1>2, <3>3, <3>6
    <3> QED BY <3>4, <3>5, <3>6
  <2> QED BY <2>1, <2>2
<1>10. Services'
  <2> SUFFICES ASSUME NEW i \in Live \ Doomed' PROVE Served(i)'
    BY <1>2 DEF Services
  <2>1. CASE i = c
    BY <2>1 DEF Served, Terminal
  <2>2. CASE i = p
    BY <1>1, <1>3, <2>2 DEF Served
  <2>3. CASE i \notin {p, c}
    <3>1. tasks'[i] = tasks[i] /\ Served(i)
      BY <1>2, <1>5, <2>3
    <3>2. ASSUME tasks[i].state = "Waiting" PROVE tasks[i].on \in Live \ {c}
      <4>1. tasks[i].on \in tasks[i].children
        BY <3>1, <3>2 DEF Served
      <4> QED BY <1>1, <1>5, <2>3, <4>1
    <3> QED BY <1>6, <3>1, <3>2 DEF Served
  <2> QED BY <2>1, <2>2, <2>3
<1>11. Counts'
  <2>1. \A i \in Live : Handed(i)' = Handed(i)
    BY <1>5, <1>6 DEF Handed
  <2>2. \A i \in Live \ Doomed' : Counted(i)'
    BY <1>5, <1>6, <2>1 DEF Counted
  <2> QED BY <1>2, <2>2 DEF Counts
<1> QED BY <1>8, <1>9, <1>10, <1>11

LEMMA QCancelBegin ==
    ASSUME TasksInv, QueueInv, NEW p \in Live, NEW c \in Live, CancelBegin(p, c) PROVE QueueInv'
<1>1. /\ Cancellable(p, c) /\ Active(p) /\ Child(p, c) /\ owed = None /\ ~tasks[c].handed
      /\ tasks[c].state \notin Terminal /\ owed' = c
      /\ tasks' = [Unobserved(c) EXCEPT ![c].waiter = p, ![c].job = "none"]
      /\ Begin("cancel", c, <<>>, FALSE) /\ UNCHANGED <<next, finished, ready, current>>
    BY DEF CancelBegin, Cancellable
<1>2. /\ Unobserved(c) = [tasks EXCEPT ![p] = [tasks[p] EXCEPT !.members = @ \ {c}, !.noted = @ \ {c}]]
      /\ Unobserved(c)[c] = tasks[c] /\ c # p /\ tasks \in [Live -> TaskRecord]
      /\ tasks[p] \in TaskRecord /\ tasks[c] \in TaskRecord /\ phase = "run" /\ p = current
      /\ tasks[p].state = "Running" /\ p # None /\ tasks[c].parent = p
    BY <1>1, UnobservedEntry, PairFacts
<1>3. /\ tasks' = [tasks EXCEPT ![p] = tasks'[p], ![c] = tasks'[c]]
      /\ tasks'[p] = [tasks[p] EXCEPT !.members = @ \ {c}, !.noted = @ \ {c}]
      /\ tasks'[c] = [tasks[c] EXCEPT !.waiter = p, !.job = "none"]
    BY <1>1, <1>2
<1>4. Cancels(p, c) /\ tasks'[c].state = tasks[c].state
  <2>1. /\ \A f \in DOMAIN tasks[p] \ {"members", "noted"} : tasks'[p][f] = tasks[p][f]
        /\ tasks'[p].members = tasks[p].members \ {c} /\ tasks'[p].noted = tasks[p].noted \ {c}
    BY <1>2, <1>3 DEF TaskRecord
  <2>2. /\ \A f \in DOMAIN tasks[c] \ {"waiter", "ext", "job", "state"} : tasks'[c][f] = tasks[c][f]
        /\ tasks'[c].waiter = p /\ tasks'[c].state = tasks[c].state
    BY <1>2, <1>3 DEF TaskRecord
  <2>3. DOMAIN tasks' = Live /\ \A i \in Live \ {p, c} : tasks'[i] = tasks[i]
    BY <1>2, <1>3
  <2> QED BY <2>1, <2>2, <2>3 DEF Cancels
<1>5. phase' = "drain" /\ drain'.then = "cancel" /\ drain'.of = c /\ drain'.work = <<>>
    BY <1>1 DEF Begin
<1>6. Doomed' = {c} /\ Ending(c)' /\ Busy' /\ Busy
  <2>1. Height' = 0
    BY <1>5 DEF Height
  <2> QED BY <1>2, <1>5, <2>1 DEF Doomed, Ending, Busy
<1>7. Groups' /\ Waiters' /\ Services' /\ Counts'
    BY <1>1, <1>4, <1>6, CancelStep
<1>8. /\ \A i \in Live : tasks'[i].state = tasks[i].state
      /\ Live' = Live /\ RunsOK /\ Listing /\ Stamps /\ c \notin tasks'[p].members /\ ~tasks'[c].handed
      /\ tasks'[c].waiter = p /\ None \notin Live
  <2>1. tasks'[p].state = tasks[p].state /\ tasks'[c].handed = tasks[c].handed
    BY <1>4, CancelFields
  <2>2. RunsOK /\ Listing /\ Stamps /\ None \notin Live
    BY <1>2, QFacts
  <2> QED BY <1>1, <1>4, <2>1, <2>2 DEF Cancels, Live
<1>9. RunsOK'
    BY <1>1, <1>2, <1>5, <1>6, <1>8 DEF RunsOK
<1>10. OwedOK'
    BY <1>1, <1>2, <1>5, <1>6, <1>8 DEF OwedOK
<1>11. Listing'
    BY <1>1, <1>8 DEF Listing
<1>12. Stamps'
    BY <1>1, <1>8 DEF Stamps
<1> QED BY <1>5, <1>7, <1>9, <1>10, <1>11, <1>12, QGoal DEF AtRest

LEMMA QCancelLate ==
    ASSUME TasksInv, QueueInv, NEW p \in Live, NEW c \in Live, NEW outcome \in {"Completed", "Faulted"},
           CancelLate(p, c, outcome)
    PROVE  QueueInv'
<1>1. /\ Cancellable(p, c) /\ Active(p) /\ Child(p, c) /\ owed = None /\ ~tasks[c].handed
      /\ tasks[c].state \notin Terminal /\ tasks[c].job # "none" /\ owed' = c
      /\ tasks' = [Unobserved(c) EXCEPT ![c].waiter = p, ![c].ext = "none", ![c].job = "none", ![c].state = outcome]
      /\ ready' = Unlist(ready, c) /\ finished' = Append(finished, c)
      /\ UNCHANGED <<next, current, phase, drain>>
    BY DEF CancelLate, Cancellable
<1>2. /\ Unobserved(c) = [tasks EXCEPT ![p] = [tasks[p] EXCEPT !.members = @ \ {c}, !.noted = @ \ {c}]]
      /\ Unobserved(c)[c] = tasks[c] /\ c # p /\ tasks \in [Live -> TaskRecord]
      /\ tasks[p] \in TaskRecord /\ tasks[c] \in TaskRecord /\ phase = "run" /\ p = current
      /\ tasks[p].state = "Running" /\ p # None /\ tasks[c].parent = p
    BY <1>1, UnobservedEntry, PairFacts
<1>3. /\ tasks' = [tasks EXCEPT ![p] = tasks'[p], ![c] = tasks'[c]]
      /\ tasks'[p] = [tasks[p] EXCEPT !.members = @ \ {c}, !.noted = @ \ {c}]
      /\ tasks'[c] = [tasks[c] EXCEPT !.waiter = p, !.ext = "none", !.job = "none", !.state = outcome]
    BY <1>1, <1>2
<1>4. /\ Cancels(p, c) /\ tasks'[c].state = outcome /\ tasks'[c].ext = "none" /\ outcome \in Terminal
      /\ outcome \notin {"Queued", "Running", "Cancelled"}
  <2>1. /\ \A f \in DOMAIN tasks[p] \ {"members", "noted"} : tasks'[p][f] = tasks[p][f]
        /\ tasks'[p].members = tasks[p].members \ {c} /\ tasks'[p].noted = tasks[p].noted \ {c}
    BY <1>2, <1>3 DEF TaskRecord
  <2>2. /\ \A f \in DOMAIN tasks[c] \ {"waiter", "ext", "job", "state"} : tasks'[c][f] = tasks[c][f]
        /\ tasks'[c].waiter = p /\ tasks'[c].state = outcome /\ tasks'[c].ext = "none"
    BY <1>2, <1>3 DEF TaskRecord
  <2>3. DOMAIN tasks' = Live /\ \A i \in Live \ {p, c} : tasks'[i] = tasks[i]
    BY <1>2, <1>3
  <2> QED BY <2>1, <2>2, <2>3 DEF Cancels, Terminal
<1>5. Doomed' = {} /\ Busy' /\ Busy
    BY <1>1, <1>2 DEF Doomed, Busy
<1>6. tasks[c].state # "Waiting"
    BY <1>1, <1>2, RunFacts, Parts DEF Served, ExtOK
<1>7. Groups' /\ Waiters' /\ Services' /\ Counts'
    BY <1>1, <1>4, <1>5, <1>6, CancelStep
<1>8. /\ \A i \in Live \ {c} : tasks'[i].state = tasks[i].state
      /\ Live' = Live /\ DOMAIN tasks' = Live /\ RunsOK /\ Listing /\ Stamps /\ c \notin tasks'[p].members
      /\ ~tasks'[c].handed /\ tasks'[c].waiter = p /\ None \notin Live
  <2>1. tasks'[p].state = tasks[p].state /\ tasks'[c].handed = tasks[c].handed
    BY <1>4, CancelFields
  <2>2. RunsOK /\ Listing /\ Stamps /\ None \notin Live
    BY <1>2, QFacts
  <2> QED BY <1>1, <1>4, <2>1, <2>2 DEF Cancels, Live
<1>9. RunsOK'
  <2>1. \A i \in Live : tasks'[i].state = "Running" => i = p
    BY <1>2, <1>4, <1>8 DEF RunsOK
  <2>2. tasks'[p].state = "Running" /\ current' = p /\ phase' = "run"
    BY <1>1, <1>2, <1>8
  <2> QED BY <1>5, <1>8, <2>1, <2>2 DEF RunsOK
<1>10. OwedOK'
    BY <1>1, <1>2, <1>4, <1>5, <1>8 DEF OwedOK
<1>11. Listing'
  <2>1. ready \in Seq(Id)
    BY Parts DEF Lists
  <2>u. ready' = Unlist(ready, c) /\ next' = next
    BY <1>1
  <2>q. PICK q : q = Unlist(ready, c)
    OBVIOUS
  <2>r. ready' = q /\ next' = next
    BY ONLY <2>u, <2>q
  <2>2. PICK f \in [1..Len(q) -> 1..Len(ready)] :
           /\ \A k, m \in 1..Len(q) : f[k] = f[m] => k = m
           /\ \A k \in 1..Len(q) : q[k] = ready[f[k]] /\ ready[f[k]] # c
           /\ \A j \in 1..Len(ready) : ready[j] # c => \E k \in 1..Len(q) : f[k] = j
    BY <2>1, <2>q, UnlistFacts
  <2>3. \A j \in 1..Len(ready) : ready[j] # c => \E k \in 1..Len(q) : q[k] = ready[j]
    BY <2>2
  <2>4. ASSUME NEW k \in 1..Len(q)
        PROVE  /\ q[k] <= next
               /\ q[k] \in Live => tasks'[q[k]].state = "Queued"
    <3>1. PICK m \in 1..Len(ready) : q[k] = ready[m] /\ ready[m] # c
      BY <2>2, <2>4
    <3>2. /\ ready[m] <= next
          /\ ready[m] \in Live => tasks[ready[m]].state = "Queued" \/ ready[m] = owed
      BY <1>8, <3>1 DEF Listing
    <3>4. ready[m] \in Live => ready[m] # owed
      BY <1>1, <1>8
    <3>3. ready[m] \in Live => tasks'[ready[m]].state = tasks[ready[m]].state
      BY <1>8, <3>1
    <3> QED BY <3>1, <3>2, <3>3, <3>4
  <2>5. \A k, m \in 1..Len(q) : q[k] = q[m] /\ q[k] \in Live => k = m
    <3>1. \A k, m \in 1..Len(ready) : ready[k] = ready[m] /\ ready[k] \in Live => k = m
      BY <1>8 DEF Listing
    <3> QED BY <2>2, <3>1
  <2>6. ASSUME NEW i \in Live, tasks'[i].state = "Queued" PROVE \E k \in 1..Len(q) : q[k] = i
    <3>1. i # c /\ tasks[i].state = "Queued"
      BY <1>4, <1>8, <2>6
    <3>2. PICK j \in 1..Len(ready) : ready[j] = i
      BY <1>8, <3>1 DEF Listing
    <3> QED BY <2>3, <3>1, <3>2
  <2>7. Live' = Live
    BY <1>8
  <2> QED BY <2>r, <2>4, <2>5, <2>6, <2>7 DEF Listing
<1>12. Stamps'
  <2>1. c # Root
    BY <1>2, Parts DEF RootOK, None
  <2>2. Root \in Live => tasks'[Root].state # "Cancelled"
    BY <1>8, <2>1 DEF Stamps
  <2> QED BY <1>1, <1>8, <2>2, Parts, StampStep DEF Lists
<1> QED BY <1>1, <1>2, <1>7, <1>9, <1>10, <1>11, <1>12, QGoal DEF AtRest

-----------------------------------------------------------------------------
(* The theorems.                                                           *)

LEMMA InitQ == Init => QueueInv
<1> SUFFICES ASSUME Init PROVE QueueInv
    OBVIOUS
<1>1. /\ tasks = [i \in {Root} |-> NewTask(None)] /\ next = Root /\ finished = <<>> /\ ready = <<Root>>
      /\ phase = "start" /\ owed = None
    BY DEF Init
<1>2. Live = {Root} /\ tasks[Root] = NewTask(None) /\ Root # None
    BY <1>1 DEF Live, Root, None
<1>3. /\ tasks[Root].children = {} /\ tasks[Root].returned = 0 /\ tasks[Root].handed = FALSE
      /\ tasks[Root].waiter = None /\ tasks[Root].state = "Queued" /\ tasks[Root].ext = "none"
      /\ tasks[Root].members = {} /\ tasks[Root].noted = {}
    BY <1>2 DEF NewTask
<1>4. Groups /\ Waiters
    BY <1>2, <1>3 DEF Groups, Grouped, Waiters, Expected
<1>5. Services
    BY <1>2, <1>3 DEF Services, Served
<1>6. Counts
  <2>1. Handed(Root) = {}
    BY <1>3 DEF Handed
  <2> QED BY <1>2, <1>3, <2>1, FS_EmptySet DEF Counts, Counted
<1>7. RunsOK /\ OwedOK
    BY <1>1, <1>2, <1>3 DEF RunsOK, OwedOK, Busy
<1>8. Listing
  <2>1. Len(ready) = 1 /\ ready[1] = Root
    BY <1>1
  <2> QED BY <1>1, <1>2, <1>3, <2>1 DEF Listing, Root
<1>9. Stamps
    BY <1>2, <1>3 DEF Stamps, Terminal
<1> QED BY <1>1, <1>4, <1>5, <1>6, <1>7, <1>8, <1>9 DEF QueueInv, QueueParts, NoFatal, AtRest

LEMMA NextQ == ASSUME TasksInv, QueueInv, [Next]_vars PROVE QueueInv'
<1>0. TasksInv'
    BY NextStep DEF Good
<1>1. ASSUME NEW p \in Live, Call(p) PROVE QueueInv'
  <2>1. CASE Create(p)
    BY <2>1, QCreate
  <2>2. ASSUME NEW c \in Live, NEW callee \in Live, Adopt(p, callee, c) PROVE QueueInv'
    BY <2>2, QAdopt
  <2>3. ASSUME NEW c \in Live, Return(p, c) \/ Await(p, c) \/ Observe(p, c) PROVE QueueInv'
    BY <2>3, QReturn, QAwait, QObserve
  <2>4. ASSUME NEW c \in Live, Result(p, c) \/ Release(p, c) PROVE QueueInv'
    BY <2>4, QResult, QRelease
  <2>5. ASSUME NEW c \in Live, NEW suppress \in BOOLEAN, DrainChild(p, c, suppress) PROVE QueueInv'
    BY <2>5, QDrainChild
  <2>6. ASSUME NEW c \in Live, CancelTerminal(p, c) \/ CancelBegin(p, c) PROVE QueueInv'
    BY <2>6, QCancelTerminal, QCancelBegin
  <2>7. ASSUME NEW c \in Live, NEW outcome \in {"Completed", "Faulted"}, CancelLate(p, c, outcome) PROVE QueueInv'
    BY <2>7, QCancelLate
  <2>8. CASE WaitNext(p) \/ Select(p)
    BY <2>8, QWaitNext, QSelect
  <2>9. ASSUME NEW kind \in {"lexical", "result"}, CleanupPush(p, kind) PROVE QueueInv'
    BY <2>9, QCleanupPush
  <2>10. CASE CleanupPop(p)
    BY <2>10, QCleanupPop
  <2>11. CASE Register(p, "none") \/ WaitWorker(p)
    BY <2>11, QRegister DEF WaitWorker
  <2>12. CASE ResumeWait(p) \/ ProviderReady(p) \/ WorkerResult(p)
    BY <2>12, QResumeWait, QProviderReady, QWorkerResult
  <2> QED BY <1>1, <2>1, <2>2, <2>3, <2>4, <2>5, <2>6, <2>7, <2>8, <2>9, <2>10, <2>11, <2>12 DEF Call
<1>2. ASSUME NEW p \in Live, EndActivation(p) \/ JobComplete(p) PROVE QueueInv'
    BY <1>2, QComplete, QSuspend, QFault, QJobComplete DEF EndActivation
<1>3. CASE DrainStep
  <2>1. ASSUME NEW failure \in BOOLEAN, RetireWait(failure) \/ RunCleanup(failure) PROVE QueueInv'
    BY <2>1, QRetireWait, QRunCleanup
  <2>2. CASE NextChild \/ Expand \/ RemoveTask
    BY <1>0, <2>2, QNextChild, QExpand, QRemoveTask
  <2>3. CASE FinishFault \/ FinishCancel \/ FinishDrain \/ Abandoned
    BY <2>3, QFinishFault, QFinishCancel, QFinishDrain, QAbandoned
  <2> QED BY <1>3, <2>1, <2>2, <2>3 DEF DrainStep
<1>4. CASE Drive
  <2>1. CASE Start \/ Poll \/ Taken \/ Wake
    <3>1. /\ phase \in {"start", "poll", "take", "pick", "block"}
          /\ phase' \in {"start", "poll", "take", "pick", "block"}
          /\ UNCHANGED <<tasks, next, finished, ready, owed>>
      BY <2>1 DEF Start, Poll, Taken, Wake
    <3> QED BY <3>1, RestStep
  <2>2. CASE Take \/ PickRoot \/ PickTask \/ PickNone
    BY <2>2, QTake, QPickRoot, QPickTask, QPickNone
  <2> QED BY <1>4, <2>1, <2>2 DEF Drive
<1>5. CASE Abandon
    BY <1>5, QAbandon
<1>6. ASSUME NEW r \in armed, Fire(r) PROVE QueueInv'
    BY <1>6, QFire
<1>7. CASE Over \/ UNCHANGED vars
    BY <1>7, QStutter DEF Over
<1> QED BY <1>1, <1>2, <1>3, <1>4, <1>5, <1>6, <1>7 DEF Next

\* In every state of the executor before its end the observation groups
\* agree with the children they observe, whoever waits is expected by the
\* task that will wake it, each suspended task outside a running drain can
\* still be resumed, the tasks in a result are counted, only the current
\* task runs, each queued task is in Core.ready once, and each ended task
\* has its stamp.
THEOREM TasksQueueInvariant == Spec => []QueueInv
<1>1. TasksInv /\ QueueInv /\ [Next]_vars => QueueInv'
    BY NextQ
<1> QED BY InitQ, TasksInvariant, <1>1, PTL DEF Spec

\* The owner never meets what drive() and finish_resume() call fatal: a
\* ready entry whose task is not Queued, a waiter that does not wait, no
\* runnable task and no pending wait, a root that ends before the rest.
THEOREM TasksNoFatal == Spec => []NoFatal
<1>1. QueueInv => NoFatal
    BY DEF QueueInv
<1> QED BY TasksQueueInvariant, <1>1, PTL

\* When the owner is between activations, every task that await, wait_next
\* or wait_source has suspended can be resumed by what it waits for,
\* whatever has been adopted, selected, cancelled or drained meanwhile.
THEOREM TasksWaitsServed == Spec => []WaitsServed
<1>1. TasksInv /\ QueueInv => WaitsServed
  <2> SUFFICES ASSUME TasksInv, QueueInv, AtRest, NEW i \in Live
               PROVE  LET t == tasks[i] IN
                      /\ t.state # "Running"
                      /\ t.state = "Waiting" => /\ t.on \in t.children
                                                /\ tasks[t.on].waiter = i
                                                /\ tasks[t.on].state \notin Terminal
                      /\ t.state = "Observing" => t.members # {} /\ t.noted = {}
                      /\ t.members \subseteq t.children
                      /\ t.noted = {c \in t.members : tasks[c].state \in Terminal}
                      /\ \A c \in t.members : tasks[c].waiter = i
                      /\ t.state = "ExternalWaiting" <=> t.ext = "pending"
    BY DEF WaitsServed
  <2>1. phase # "done" /\ phase # "drain" /\ ~Busy
    BY DEF AtRest, Busy
  <2>2. i \notin Doomed
    BY <2>1 DEF Doomed
  <2>3. Grouped(i) /\ Served(i) /\ RunsOK
    BY <2>1, <2>2, QFacts
  <2>4. tasks[i].state # "Running"
    BY <2>1, <2>3 DEF RunsOK
  <2> QED BY <2>3, <2>4 DEF Grouped, Served
<1> QED BY TasksInvariant, TasksQueueInvariant, <1>1, PTL

\* When the owner is between activations, Core.ready holds each Queued task
\* exactly once and no live task in another state: no task is resumed twice
\* for one wakeup, and none is forgotten.
THEOREM TasksQueue == Spec => []QueueOK
<1>1. TasksInv /\ QueueInv => QueueOK
  <2> SUFFICES ASSUME TasksInv, QueueInv, AtRest
               PROVE  /\ \A k \in 1..Len(ready) : ready[k] \in Live => tasks[ready[k]].state = "Queued"
                      /\ \A i \in Live : tasks[i].state = "Queued" =>
                             Cardinality({k \in 1..Len(ready) : ready[k] = i}) = 1
    BY DEF QueueOK
  <2>1. phase # "done" /\ ~Busy
    BY DEF AtRest, Busy
  <2>2. Listing /\ OwedOK /\ None \notin Live
    BY <2>1, QFacts
  <2>3. owed = None
    BY <2>1, <2>2 DEF OwedOK
  <2>4. \A k \in 1..Len(ready) : ready[k] \in Live => tasks[ready[k]].state = "Queued"
    BY <2>2, <2>3 DEF Listing
  <2>5. ASSUME NEW i \in Live, tasks[i].state = "Queued"
        PROVE  Cardinality({k \in 1..Len(ready) : ready[k] = i}) = 1
    <3>1. PICK k \in 1..Len(ready) : ready[k] = i
      BY <2>2, <2>5 DEF Listing
    <3>2. {m \in 1..Len(ready) : ready[m] = i} = {k}
      BY <2>2, <3>1 DEF Listing
    <3> QED BY <3>2, FS_Singleton
  <2> QED BY <2>4, <2>5
<1> QED BY TasksInvariant, TasksQueueInvariant, <1>1, PTL

-----------------------------------------------------------------------------
(* What is left of a freed task.                                           *)

\* Before the end of the run, a task that is not live is forgotten.
GoneForgotten == phase # "done" => \A i : i \notin Live => Forgotten(i)

LEMMA QGone == ASSUME TasksInv, QueueInv PROVE GoneForgotten
<1> SUFFICES ASSUME phase # "done", NEW i, i \notin Live, NEW j \in Live
             PROVE  /\ i \notin tasks[j].members
                    /\ tasks[j].state = "Waiting" /\ tasks[j].on = i => j \in Doomed
    BY DEF GoneForgotten, Forgotten
<1>1. tasks[j].members \subseteq Live /\ tasks[j].children \subseteq Live
    BY QFacts
<1>2. ASSUME tasks[j].state = "Waiting", tasks[j].on = i, j \notin Doomed PROVE FALSE
  <2>1. Served(j)
    BY <1>2, QFacts
  <2>2. i \in tasks[j].children
    BY <1>2, <2>1 DEF Served
  <2> QED BY <1>1, <2>2
<1> QED BY <1>1, <1>2

\* The step that ends the run frees the root, the last task, or nothing.
LEMMA EndFrees ==
    ASSUME TasksInv, [Next]_vars, phase' = "done", NEW i \in Live, i \notin DOMAIN tasks'
    PROVE  DOMAIN tasks' = {}
<1>1. ASSUME NEW p \in Live, Call(p) PROVE FALSE
  <2>1. CASE Create(p) \/ WaitNext(p) \/ Select(p) \/ CleanupPop(p)
    BY <2>1 DEF Create, WaitNext, Select, CleanupPop, Active, sched
  <2>2. ASSUME NEW c \in Live, NEW callee \in Live, Adopt(p, callee, c) PROVE FALSE
    BY <2>2 DEF Adopt, Active, sched
  <2>3. ASSUME NEW c \in Live, Return(p, c) \/ Await(p, c) \/ Observe(p, c) \/ Result(p, c) \/ Release(p, c)
        PROVE  FALSE
    BY <2>3 DEF Return, Await, Observe, Result, Release, Active, sched
  <2>4. ASSUME NEW c \in Live, NEW suppress \in BOOLEAN, DrainChild(p, c, suppress) PROVE FALSE
    BY <2>4 DEF DrainChild, Begin
  <2>5. ASSUME NEW c \in Live, CancelTerminal(p, c) \/ CancelBegin(p, c) PROVE FALSE
    BY <2>5 DEF CancelTerminal, CancelBegin, Begin, Cancellable, Active, sched
  <2>6. ASSUME NEW c \in Live, NEW outcome \in {"Completed", "Faulted"}, CancelLate(p, c, outcome) PROVE FALSE
    BY <2>6 DEF CancelLate, Cancellable, Active
  <2>7. ASSUME NEW kind \in {"lexical", "result"}, CleanupPush(p, kind) PROVE FALSE
    BY <2>7 DEF CleanupPush, Active, sched
  <2>8. CASE Register(p, "none") \/ WaitWorker(p)
    BY <2>8 DEF Register, WaitWorker, Active, sched
  <2>9. CASE ResumeWait(p) \/ ProviderReady(p) \/ WorkerResult(p)
    BY <2>9 DEF ResumeWait, ProviderReady, WorkerResult, sched
  <2> QED BY <1>1, <2>1, <2>2, <2>3, <2>4, <2>5, <2>6, <2>7, <2>8, <2>9 DEF Call
<1>2. ASSUME NEW p \in Live, EndActivation(p) PROVE FALSE
    BY <1>2 DEF EndActivation, Complete, Suspend, Fault, Finish, Begin
<1>3. ASSUME NEW p \in Live, JobComplete(p) PROVE FALSE
  <2>1. DOMAIN tasks' = Live
    BY <1>3 DEF JobComplete, Live
  <2> QED BY <2>1
<1>4. CASE DrainStep
  <2>1. CASE FinishFault
    BY <2>1 DEF FinishFault, Finish
  <2>2. CASE FinishCancel \/ FinishDrain
    BY <2>2 DEF FinishCancel, FinishDrain, Begin
  <2>3. CASE Abandoned
    BY <2>3 DEF Abandoned, Live
  <2>4. ASSUME NEW failure \in BOOLEAN,
               NextChild \/ Expand \/ RemoveTask \/ RetireWait(failure) \/ RunCleanup(failure)
        PROVE  FALSE
    <3>1. Retiring # None => phase = "drain"
      BY DEF Retiring, Draining
    <3>2. phase' = phase
      BY <2>4 DEF NextChild, Expand, RemoveTask, RetireWait, RunCleanup, sched
    <3>3. phase = "drain"
      BY <2>4, <3>1 DEF NextChild, Expand, RemoveTask, Retired, RetireWait, RunCleanup, Draining
    <3> QED BY <3>2, <3>3
  <2> QED BY <1>4, <2>1, <2>2, <2>3, <2>4 DEF DrainStep
<1>5. CASE Drive
  <2>1. CASE Start \/ Poll \/ Take \/ Taken \/ PickTask \/ PickNone \/ Wake
    BY <2>1 DEF Start, Poll, Take, Taken, PickTask, PickNone, Wake
  <2>2. CASE PickRoot
    BY <2>2 DEF PickRoot
  <2> QED BY <1>5, <2>1, <2>2 DEF Drive
<1>6. CASE Abandon
    BY <1>6 DEF Abandon, Begin
<1>7. ASSUME NEW r \in armed, Fire(r) PROVE FALSE
    BY <1>7 DEF Fire, Live
<1>8. CASE Over \/ UNCHANGED vars
    BY <1>8 DEF Over, vars, Live
<1> QED BY <1>1, <1>2, <1>3, <1>4, <1>5, <1>6, <1>7, <1>8 DEF Next

\* cancel_tree, release and the end of the run free a frame, and a drain
\* runs a cleanup, only after the last child of the task is gone and its
\* wait and its job are retired; a freed task is in no observation group,
\* and only a task that the drain is about to end still awaits it.
THEOREM TasksChildrenFirst == Spec => ChildrenFirst
<1>1. TasksInv /\ [Next]_vars => Retires
    BY NextStep DEF Good
<1>2. TasksInv /\ QueueInv => GoneForgotten
    BY QGone
<1>3. TasksInv /\ [Next]_vars /\ GoneForgotten' => \A i \in Live : i \notin DOMAIN tasks' => Forgotten(i)'
  <2> SUFFICES ASSUME TasksInv, [Next]_vars, GoneForgotten', NEW i \in Live, i \notin DOMAIN tasks'
               PROVE  Forgotten(i)'
    OBVIOUS
  <2>1. CASE phase' = "done"
    BY <2>1, EndFrees DEF Forgotten, Live
  <2>2. CASE phase' # "done"
    BY <2>2 DEF GoneForgotten, Live
  <2> QED BY <2>1, <2>2
<1>4. Retires /\ (\A i \in Live : i \notin DOMAIN tasks' => Forgotten(i)') => [\A i \in Live :
         (i \notin DOMAIN tasks' \/ (phase = "drain" /\ tasks'[i].cleanups # tasks[i].cleanups))
            => /\ \A j \in Live : tasks[j].parent # i
               /\ i \in DOMAIN tasks' => Quiet(i)
               /\ i \notin DOMAIN tasks' => Quiet(i) /\ tasks[i].cleanups = <<>> /\ Forgotten(i)']_vars
    BY DEF Retires
<1> QED BY TasksInvariant, TasksQueueInvariant, <1>1, <1>2, <1>3, <1>4, PTL DEF Spec, ChildrenFirst

=============================================================================
