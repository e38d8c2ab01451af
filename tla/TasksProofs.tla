---------------------------- MODULE TasksProofs ----------------------------
(***************************************************************************)
(* Proofs about the task executor: the tree of tasks, the counted external *)
(* waits and the order in which cancellation retires a subtree.            *)
(***************************************************************************)
EXTENDS Tasks, TLAPS, FiniteSetTheorems, SequenceTheorems

-----------------------------------------------------------------------------
(* The inductive invariant.                                                *)

\* An identity and a registration are given out once: what the reactor still
\* has queued is never for a later task or a later wait.
Fresh ==
    /\ \A i \in Live : i <= next
    /\ \A k \in 1..Len(notices) :
          /\ notices[k][1] <= next
          /\ notices[k][1] \in Live => notices[k][2] <= tasks[notices[k][1]].reg

\* A wait without a notification suspends its task, a job has a wait, and an
\* ended task has neither.
ExtOK ==
    \A i \in Live :
        /\ tasks[i].ext = "pending" => tasks[i].state = "ExternalWaiting"
        /\ tasks[i].ext = "none" => tasks[i].job = "none"
        /\ tasks[i].state \in Terminal => tasks[i].ext = "none"

\* The root has no parent and returns neither tasks nor resources; it ends
\* after its children and its cleanups.
RootOK ==
    Root \in Live =>
        /\ tasks[Root].parent = None /\ tasks[Root].returned = 0
        /\ \A k \in 1..Len(tasks[Root].cleanups) : tasks[Root].cleanups[k] = "lexical"
        /\ tasks[Root].state \in Terminal => tasks[Root].children = {} /\ tasks[Root].cleanups = <<>>

Unended(i) == i \in Live /\ tasks[i].state \notin Terminal

RunOK == /\ phase = "run" => Unended(current)
         /\ phase = "start" => Root \in Live

\* The tasks above the subtree a drain retires: the one whose call it is and
\* the one whose children it visits.
Base    == IF drain.then = "abandon" THEN None ELSE drain.of
Anchors == IF drain.then = "abandon" THEN {} ELSE {drain.of, current}

CallerOK ==
    /\ drain.then # "none"
    /\ drain.then \in {"fault", "drain"} => drain.of = current /\ Unended(current)
    /\ drain.then = "cancel" => /\ Unended(drain.of) /\ Unended(current)
                                /\ tasks[drain.of].parent = current

\* The stack of cancel_tree: live tasks below the anchors, each once; the
\* lowest is a child of the base, every other one has its parent, visited,
\* below it; a visited task has all its children above it.
Visited(k) == drain.work[k][2]

StackLive     == \A k \in 1..Height : Node(k) \in Live \ Anchors
StackOnce     == \A k, m \in 1..Height : Node(k) = Node(m) => k = m
StackBase     == Height > 0 => tasks[Node(1)].parent = Base
StackParents  == \A m \in 2..Height : \E k \in 1..m-1 : Visited(k) /\ tasks[Node(m)].parent = Node(k)
StackChildren == \A k \in 1..Height : Visited(k) =>
                     \A c \in tasks[Node(k)].children : \E m \in k+1..Height : Node(m) = c
StackOK       == StackLive /\ StackOnce /\ StackBase /\ StackParents /\ StackChildren

DrainOK == phase = "drain" => CallerOK /\ StackOK

TasksInv == /\ PendingOK /\ Fresh /\ ExtOK
            /\ OneTree /\ RootOK
            /\ RunOK /\ DrainOK

-----------------------------------------------------------------------------
(* Parts of the invariant and what keeps them.                             *)

Table     == tasks \in [Live -> TaskRecord] /\ Live \subseteq Id
WorkTypes == [work : Seq(Id \X BOOLEAN), first : BOOLEAN, suppress : BOOLEAN,
              then : {"none", "fault", "cancel", "drain", "abandon"}, of : Id \cup {None}]
Lists     == finished \in Seq(Id) /\ ready \in Seq(Id)
Places    == next \in Id /\ current \in Id \cup {None} /\ phase \in Phases /\ owed \in Id \cup {None}

Pendings == {i \in Live : tasks[i].ext = "pending"}
Silent   == {j \in Live : tasks[j].ext = "pending" /\
                 ~\E k \in 1..Len(notices) : notices[k] = <<j, tasks[j].reg>>}

Reactors == /\ armed \subseteq Id \X (1..MaxWaits)
            /\ notices \in Seq(Id \X (1..MaxWaits))
            /\ pending = Cardinality(Pendings)
            /\ armed = {<<i, tasks[i].reg>> : i \in Silent}

\* What OutcomeFinal and the first part of ChildrenFirst ask of a step.
Outcomes ==
    \A i \in Live \cap DOMAIN tasks' : tasks[i].state \in Terminal => tasks'[i].state = tasks[i].state
Retires ==
    \A i \in Live :
         (i \notin DOMAIN tasks' \/ (phase = "drain" /\ tasks'[i].cleanups # tasks[i].cleanups))
            => /\ \A j \in Live : tasks[j].parent # i
               /\ i \in DOMAIN tasks' => Quiet(i)
               /\ i \notin DOMAIN tasks' => Quiet(i) /\ tasks[i].cleanups = <<>>
Good == TasksInv' /\ Outcomes /\ Retires

LEMMA Finite == ASSUME NEW S, S \subseteq Id
                PROVE  IsFiniteSet(S) /\ Cardinality(S) \in 0..MaxTasks
<1>1. IsFiniteSet(Id) /\ Cardinality(Id) = MaxTasks
    BY FS_Interval, TasksAssumption DEF Id
<1> QED BY <1>1, FS_Subset, FS_CardinalityType, TasksAssumption

LEMMA TypeParts == /\ TypeOK => Table /\ Lists /\ Places /\ drain \in WorkTypes
                   /\ PendingOK <=> Table /\ Lists /\ Places /\ drain \in WorkTypes /\ Reactors
<1>1. Table => Cardinality(Pendings) \in 0..MaxTasks
    BY Finite DEF Table, Pendings
<1> QED BY <1>1 DEF TypeOK, PendingOK, Table, Lists, Places, WorkTypes, Reactors, Pendings, Silent

LEMMA TypePartsNext == PendingOK' <=> Table' /\ Lists' /\ Places' /\ (drain \in WorkTypes)' /\ Reactors'
<1>1. Table' => Cardinality(Pendings') \in 0..MaxTasks
    BY Finite DEF Table, Pendings
<1> QED BY <1>1 DEF TypeOK, PendingOK, Table, Lists, Places, WorkTypes, Reactors, Pendings, Silent

\* The numbers of a finite set, in order, are each listed once.
LEMMA Listed ==
    ASSUME NEW S, S \subseteq Nat, IsFiniteSet(S)
    PROVE  /\ Cardinality(S) \in Nat
           /\ Increasing(S) \in [1..Cardinality(S) -> S]
           /\ \A i, j \in 1..Cardinality(S) : Increasing(S)[i] = Increasing(S)[j] => i = j
           /\ \A i, j \in 1..Cardinality(S) : i < j => Increasing(S)[i] < Increasing(S)[j]
           /\ \A x \in S : \E i \in 1..Cardinality(S) : Increasing(S)[i] = x
<1> DEFINE n == Cardinality(S)
           Below(x) == {y \in S : y < x}
           rank == [x \in S |-> Cardinality(Below(x)) + 1]
           Sorted(s) == \A i, j \in DOMAIN s : i < j => s[i] < s[j]
<1>1. n \in Nat
  BY FS_CardinalityType
<1>2. \A x \in S : /\ IsFiniteSet(Below(x))
                   /\ Cardinality(Below(x)) \in Nat
                   /\ Cardinality(Below(x)) < n
  <2> TAKE x \in S
  <2>1. /\ IsFiniteSet(S \ {x})
        /\ Cardinality(S \ {x}) = n - 1
    BY FS_RemoveElement
  <2>2. Below(x) \in SUBSET (S \ {x})
    OBVIOUS
  <2> QED
    BY <1>1, <2>1, <2>2, FS_Subset, FS_CardinalityType
<1>3. \A x, y \in S : x < y => rank[x] < rank[y]
  <2> TAKE x, y \in S
  <2> HAVE x < y
  <2>1. /\ IsFiniteSet(Below(x) \cup {x})
        /\ Cardinality(Below(x) \cup {x}) = Cardinality(Below(x)) + 1
    <3>1. IsFiniteSet(Below(x)) /\ x \notin Below(x) /\ Cardinality(Below(x)) \in Nat
      BY <1>2
    <3> HIDE DEF Below
    <3> QED BY <3>1, FS_AddElement
  <2>2. Below(x) \cup {x} \in SUBSET Below(y)
    <3>1. \A z \in S : z \in Nat
      OBVIOUS
    <3>2. \A z \in S : z < x => z < y
      BY <3>1
    <3> QED BY <3>2
  <2>3. Cardinality(Below(x) \cup {x}) <= Cardinality(Below(y))
    BY <1>2, <2>2, FS_Subset
  <2>4. /\ Cardinality(Below(x)) \in Nat /\ Cardinality(Below(y)) \in Nat
        /\ rank[x] = Cardinality(Below(x)) + 1 /\ rank[y] = Cardinality(Below(y)) + 1
    BY <1>2
  <2> HIDE DEF Below, rank
  <2> QED
    BY <2>1, <2>3, <2>4
<1>4. rank \in Surjection(S, 1..n)
  <2>1. rank \in [S -> 1..n]
    BY <1>1, <1>2
  <2> HIDE DEF rank
  <2>2. \A x, y \in S : rank[x] = rank[y] => x = y
    BY <1>3, <2>1
  <2>3. rank \in Injection(S, 1..n)
    BY <2>1, <2>2 DEF Injection, IsInjective
  <2> QED
    BY <1>1, <2>3, FS_Injection, FS_Interval
<1>5. \E s \in [1..n -> S] : Sorted(s)
  <2> DEFINE g == [i \in 1..n |-> CHOOSE x \in S : rank[x] = i]
  <2>1. \A i \in 1..n : g[i] \in S /\ rank[g[i]] = i
    BY <1>4 DEF Surjection
  <2>2. g \in [1..n -> S]
    BY <2>1
  <2> HIDE DEF rank, g
  <2>3. \A i, j \in 1..n : i < j => g[i] < g[j]
    <3> TAKE i, j \in 1..n
    <3> HAVE i < j
    <3>0. \A z \in S : z \in Nat
      OBVIOUS
    <3>4. i \in Nat /\ j \in Nat
      BY <1>1
    <3>5. g[i] \in S /\ g[j] \in S
      BY <2>1
    <3>1. g[i] \in Nat /\ g[j] \in Nat /\ i \in Nat /\ j \in Nat
      BY <3>4, <3>5, <3>0
    <3>2. ~(g[j] < g[i])
      BY <2>1, <1>3, <3>1
    <3>3. g[i] # g[j]
      BY <2>1, <3>1
    <3> QED BY <3>1, <3>2, <3>3
  <2> QED
    BY <2>2, <2>3
<1>6. Increasing(S) \in [1..n -> S] /\ Sorted(Increasing(S))
  BY <1>5 DEF Increasing
<1>7. \A i, j \in 1..n : Increasing(S)[i] = Increasing(S)[j] => i = j
  <2> TAKE i, j \in 1..n
  <2>0. \A z \in S : z \in Nat
    OBVIOUS
  <2>4. i \in Nat /\ j \in Nat
    BY <1>1
  <2>5. Increasing(S)[i] \in S /\ Increasing(S)[j] \in S
    BY <1>6
  <2>1. Increasing(S)[i] \in Nat /\ Increasing(S)[j] \in Nat /\ i \in Nat /\ j \in Nat
    BY <2>0, <2>4, <2>5
  <2>2. /\ i < j => Increasing(S)[i] < Increasing(S)[j]
        /\ j < i => Increasing(S)[j] < Increasing(S)[i]
    BY <1>6
  <2> QED BY <2>1, <2>2
<1>8. Increasing(S) \in Injection(1..n, S)
  BY <1>6, <1>7 DEF Injection, IsInjective
<1>9. Increasing(S) \in Surjection(1..n, S)
  BY <1>1, <1>8, FS_Injection, FS_Interval
<1> QED
  BY <1>1, <1>6, <1>7, <1>9 DEF Surjection

\* What is left of a queue is made of what was in it.
LEMMA UnlistType == ASSUME NEW q \in Seq(Id), NEW id PROVE Unlist(q, id) \in Seq(Id)
<1> DEFINE S == {k \in 1..Len(q) : q[k] # id}
<1>1. S \subseteq Nat /\ IsFiniteSet(S) /\ S \subseteq DOMAIN q
  <2>1. Len(q) \in Nat /\ DOMAIN q = 1..Len(q)
    BY LenProperties
  <2>2. IsFiniteSet(1..Len(q)) /\ S \in SUBSET (1..Len(q))
    BY <2>1, FS_Interval
  <2> QED BY <2>1, <2>2, FS_Subset
<1>2. Increasing(S) \in [1..Cardinality(S) -> S] /\ Cardinality(S) \in Nat
    BY <1>1, Listed
<1>3. \A k \in 1..Cardinality(S) : q[Increasing(S)[k]] \in Id
    BY <1>1, <1>2, ElementOfSeq, LenProperties
<1> HIDE DEF S
<1>4. [k \in 1..Cardinality(S) |-> q[Increasing(S)[k]]] \in Seq(Id)
    BY <1>2, <1>3, IsASeq
<1> QED BY <1>2, <1>4 DEF Unlist, S

\* The elements of two sequences one after the other.
LEMMA Joined ==
    ASSUME NEW S, NEW s \in Seq(S), NEW t \in Seq(S)
    PROVE  /\ s \o t \in Seq(S) /\ Len(s \o t) = Len(s) + Len(t)
           /\ \A k \in 1..Len(s) : (s \o t)[k] = s[k]
           /\ \A k \in Len(s)+1..Len(s)+Len(t) : (s \o t)[k] = t[k - Len(s)]
<1>1. Len(s) \in Nat /\ Len(t) \in Nat
    BY LenProperties
<1>2. /\ s \o t \in Seq(S) /\ Len(s \o t) = Len(s) + Len(t)
      /\ \A k \in 1..Len(s) + Len(t) : (s \o t)[k] = IF k <= Len(s) THEN s[k] ELSE t[k - Len(s)]
    BY ConcatProperties
<1>3. \A k \in 1..Len(s) : k \in 1..Len(s) + Len(t) /\ k <= Len(s)
    BY <1>1
<1>4. \A k \in Len(s)+1..Len(s)+Len(t) : k \in 1..Len(s) + Len(t) /\ ~(k <= Len(s))
    BY <1>1
<1> QED BY <1>2, <1>3, <1>4

LEMMA FunctionIsSeq == ASSUME NEW S, NEW n \in Nat, NEW f \in [1..n -> S]
                       PROVE  f \in Seq(S) /\ Len(f) = n
<1>1. f \in Seq(S)
    BY SeqDef
<1>2. Len(f) \in Nat /\ 1..n = 1..Len(f)
    BY <1>1, LenProperties
<1>3. \A x, y \in Nat : 1..x = 1..y => x = y
  <2> SUFFICES ASSUME NEW x \in Nat, NEW y \in Nat, 1..x = 1..y, x < y PROVE FALSE
    OBVIOUS
  <2>1. y \in 1..y /\ y \notin 1..x
    OBVIOUS
  <2> QED BY <2>1
<1> QED BY <1>1, <1>2, <1>3

-----------------------------------------------------------------------------
(* Steps that leave a part of the state alone.                             *)

SameTree  == /\ DOMAIN tasks' = Live
             /\ \A i \in Live : /\ tasks'[i].parent = tasks[i].parent
                                /\ tasks'[i].children = tasks[i].children
SameWaits == \A i \in Live : /\ tasks'[i].reg = tasks[i].reg
                             /\ tasks'[i].ext = "pending" <=> tasks[i].ext = "pending"
SameEnds  == \A i \in Live : \/ tasks'[i].state = tasks[i].state
                             \/ tasks'[i].state \notin Terminal /\ tasks[i].state \notin Terminal

LEMMA Parts == ASSUME TasksInv
               PROVE  /\ Table /\ Lists /\ Places /\ drain \in WorkTypes /\ Reactors
                      /\ Fresh /\ ExtOK /\ OneTree /\ RootOK /\ RunOK /\ DrainOK
BY TypeParts DEF TasksInv

LEMMA KeepTree ==
    ASSUME OneTree, SameTree, \A i \in Live : tasks'[i].waiter \in {None, tasks[i].parent}
    PROVE  OneTree'
<1>1. \A i \in Live' : \A c \in Id : c \in tasks'[i].children <=> c \in Live' /\ tasks'[c].parent = i
    BY DEF OneTree, SameTree, Live
<1>2. \A i \in Live' \ {Root} : tasks'[i].parent \in Live'
    BY DEF OneTree, SameTree, Live
<1>3. \A S \in SUBSET (Live' \ {Root}) : S # {} => \E i \in S : tasks'[i].parent \notin S
    BY DEF OneTree, SameTree, Live
<1>4. \A i \in Live' : tasks'[i].waiter \in {None, tasks'[i].parent}
    BY DEF SameTree, Live
<1> QED BY <1>1, <1>2, <1>3, <1>4 DEF OneTree

LEMMA KeepReactors ==
    ASSUME Reactors, Fresh, DOMAIN tasks' = Live, SameWaits, UNCHANGED <<waits, next>>
    PROVE  Reactors' /\ Fresh'
<1>1. Pendings' = Pendings
    BY DEF SameWaits, Pendings, Live
<1>2. Silent' = Silent
    BY DEF SameWaits, Silent, Live, waits
<1>3. {<<i, tasks[i].reg>> : i \in Silent}' = {<<i, tasks[i].reg>> : i \in Silent}
    BY <1>2 DEF SameWaits, Silent, Live
<1>4. Fresh'
    BY DEF SameWaits, Fresh, Live, waits
<1> QED BY <1>1, <1>2, <1>3, <1>4 DEF Reactors, waits

LEMMA KeepDrain ==
    ASSUME drain \in WorkTypes, RunOK, DrainOK, SameTree, SameEnds, UNCHANGED <<phase, current>>,
           drain'.work = drain.work, drain'.then = drain.then, drain'.of = drain.of
    PROVE  RunOK' /\ DrainOK'
<1>1. \A i : Unended(i) => Unended(i)'
    BY DEF Unended, SameTree, SameEnds, Live
<1>2. RunOK'
    BY <1>1 DEF RunOK, SameTree, Live
<1>3. ASSUME phase = "drain" PROVE CallerOK'
    BY <1>1, <1>3 DEF DrainOK, CallerOK, SameTree, Unended
<1>4. ASSUME phase = "drain" PROVE StackOK'
  <2>1. Anchors' = Anchors /\ Base' = Base
    BY DEF Anchors, Base
  <2>2. StackOK
    BY <1>4 DEF DrainOK
  <2>3. /\ Height' = Height /\ Height \in Nat
        /\ \A k : Node(k)' = Node(k) /\ Visited(k)' = Visited(k)
    BY LenProperties DEF Height, Node, Visited, WorkTypes
  <2>4. StackLive' /\ StackOnce'
    BY <2>1, <2>2, <2>3 DEF StackOK, StackLive, StackOnce, SameTree, Live
  <2>5. \A k \in 1..Height : /\ tasks'[Node(k)].parent = tasks[Node(k)].parent
                             /\ tasks'[Node(k)].children = tasks[Node(k)].children
    BY <2>2 DEF StackOK, StackLive, SameTree
  <2>6. StackBase'
    BY <2>1, <2>2, <2>3, <2>5 DEF StackOK, StackBase
  <2>7. StackParents'
    BY <2>2, <2>3, <2>5 DEF StackOK, StackParents
  <2>8. StackChildren'
    BY <2>2, <2>3, <2>5 DEF StackOK, StackChildren
  <2> QED BY <2>4, <2>6, <2>7, <2>8 DEF StackOK
<1> QED BY <1>2, <1>3, <1>4 DEF DrainOK

\* A call that edits the table without moving or ending a task.
LEMMA EditStep ==
    ASSUME TasksInv, tasks' \in [Live -> TaskRecord], SameTree, SameWaits, SameEnds,
           \A i \in Live : tasks'[i].waiter \in {None, tasks[i].parent},
           phase = "drain" => \A i \in Live : tasks'[i].cleanups = tasks[i].cleanups,
           ExtOK', RootOK',
           UNCHANGED <<next, finished, sched, waits, drain>>, owed' \in Id \cup {None}
    PROVE  Good
<1>1. OneTree'
    BY Parts, KeepTree
<1>2. Reactors' /\ Fresh'
    BY Parts, KeepReactors DEF SameTree
<1>3. RunOK' /\ DrainOK'
    BY Parts, KeepDrain DEF sched
<1>4. Table' /\ Lists' /\ Places' /\ (drain \in WorkTypes)'
    BY Parts DEF Table, Lists, Places, Live, sched, SameTree
<1>5. TasksInv'
    BY <1>1, <1>2, <1>3, <1>4, TypePartsNext DEF TasksInv
<1>6. Outcomes /\ Retires
    BY DEF Outcomes, Retires, SameTree, SameEnds
<1> QED BY <1>5, <1>6 DEF Good

\* A step of the owner that leaves the table and the reactor alone.
LEMMA ControlStep ==
    ASSUME TasksInv, UNCHANGED <<tasks, next, finished, waits>>, ready' \in Seq(Id), Places',
           (drain \in WorkTypes)', RunOK', DrainOK'
    PROVE  Good
<1>1. Reactors' /\ Fresh'
    BY Parts, KeepReactors DEF SameWaits, Live
<1>2. Table' /\ Lists' /\ ExtOK' /\ OneTree' /\ RootOK'
    BY Parts DEF Table, Lists, Live, ExtOK, OneTree, RootOK
<1>3. TasksInv'
    BY <1>1, <1>2, TypePartsNext DEF TasksInv
<1>4. Outcomes /\ Retires
    BY DEF Outcomes, Retires, Live
<1> QED BY <1>3, <1>4 DEF Good

-----------------------------------------------------------------------------
(* Calls of the running task that keep the tree, the waits and the ends.   *)

Kept(i) ==
    /\ tasks'[i].parent = tasks[i].parent /\ tasks'[i].children = tasks[i].children
    /\ tasks'[i].ext = tasks[i].ext /\ tasks'[i].reg = tasks[i].reg /\ tasks'[i].job = tasks[i].job
    /\ \/ tasks'[i].state = tasks[i].state
       \/ tasks[i].state = "Running" /\ tasks'[i].state \in {"Waiting", "Observing"}
    /\ tasks'[i].waiter \in {None, tasks[i].parent}

\* What the root is asked about.
RootKept ==
    Root \in Live => /\ tasks'[Root].returned = tasks[Root].returned
                     /\ tasks'[Root].cleanups = tasks[Root].cleanups

LEMMA NotOwnParent == ASSUME OneTree, RootOK, NEW i \in Live PROVE tasks[i].parent # i
<1>1. CASE i = Root
    BY <1>1 DEF RootOK, Root, None
<1>2. CASE i # Root
  <2>1. {i} \in SUBSET (Live \ {Root}) /\ {i} # {}
    BY <1>2
  <2>2. \E j \in {i} : tasks[j].parent \notin {i}
    BY <2>1 DEF OneTree
  <2> QED BY <2>2
<1> QED BY <1>1, <1>2

LEMMA ChildFacts ==
    ASSUME TasksInv, NEW p \in Live, NEW c, Child(p, c)
    PROVE  /\ c \in Live /\ c # p /\ c # Root /\ tasks[c].parent = p
           /\ c \in Id /\ p \in Id /\ c # None /\ p # None
           /\ tasks[p] \in TaskRecord /\ tasks[c] \in TaskRecord
<1>1. p \in Id /\ c \in Id /\ c \in Live /\ tasks[c].parent = p
    BY Parts DEF Child, Table
<1>2. 0 \notin Id
    BY DEF Id
<1>3. c # p
    BY <1>1, Parts, NotOwnParent
<1>4. c # Root
    BY <1>1, <1>2, Parts DEF RootOK, None
<1> QED BY <1>1, <1>2, <1>3, <1>4, Parts DEF Table, None

LEMMA ActiveFacts ==
    ASSUME TasksInv, NEW p \in Live, Active(p)
    PROVE  /\ phase = "run" /\ current = p /\ Unended(p) /\ p \in Id
           /\ tasks[p].state = "Running" /\ tasks[p].ext = "none" /\ tasks[p].job = "none"
           /\ tasks[p] \in TaskRecord
BY Parts DEF Active, Unended, ExtOK, Terminal, Table

LEMMA CallStep ==
    ASSUME TasksInv, phase = "run", tasks' \in [Live -> TaskRecord], \A i \in Live : Kept(i), RootOK',
           UNCHANGED <<next, finished, sched, waits, drain>>, owed' \in Id \cup {None}
    PROVE  Good
<1>1. SameTree /\ SameWaits
    BY DEF SameTree, SameWaits, Kept
<1>2. SameEnds
    BY DEF SameEnds, Kept, Terminal
<1>3. ExtOK'
    BY Parts DEF ExtOK, Kept, Live, Terminal
<1>4. \A i \in Live : tasks'[i].waiter \in {None, tasks[i].parent}
    BY DEF Kept
<1> QED BY <1>1, <1>2, <1>3, <1>4, EditStep

LEMMA RootStays ==
    ASSUME TasksInv, DOMAIN tasks' = Live, \A i \in Live : Kept(i), RootKept
    PROVE  RootOK'
BY Parts DEF RootOK, Kept, RootKept, Live, Terminal

\* A call edits the entries of the caller and of one child at most.
Edits(p, c) == tasks' \in [Live -> TaskRecord] /\ \A i \in Live \ {p, c} : tasks'[i] = tasks[i]

LEMMA TwoStep ==
    ASSUME TasksInv, phase = "run", NEW p \in Live, NEW c \in Live, Edits(p, c), Kept(p), Kept(c),
           RootKept \/ RootOK',
           UNCHANGED <<next, finished, sched, waits, drain>>, owed' \in Id \cup {None}
    PROVE  Good
<1>1. \A i \in Live : Kept(i)
  <2>1. \A i \in Live : tasks[i].waiter \in {None, tasks[i].parent}
    BY Parts DEF OneTree
  <2> QED BY <2>1 DEF Kept, Edits
<1>2. RootOK'
    BY <1>1, RootStays DEF Edits
<1> QED BY <1>1, <1>2, CallStep DEF Edits

LEMMA ReturnStep == ASSUME TasksInv, NEW p \in Live, NEW c \in Live, Return(p, c) PROVE Good
<1>1. /\ phase = "run" /\ tasks[p] \in TaskRecord /\ tasks[c] \in TaskRecord /\ c # p /\ c # Root /\ p # Root
      /\ tasks[p].waiter \in {None, tasks[p].parent} /\ tasks[c].waiter \in {None, tasks[c].parent}
    BY ActiveFacts, ChildFacts, Parts DEF Return, OneTree
<1>2. /\ tasks' = [tasks EXCEPT ![p] = tasks'[p], ![c] = tasks'[c]]
      /\ tasks'[p] = [tasks[p] EXCEPT !.returned = @ + 1]
      /\ tasks'[c] = [tasks[c] EXCEPT !.handed = TRUE]
    BY <1>1, Parts DEF Return, Table
<1>3. tasks'[p] \in TaskRecord
  <2>1. tasks[p].returned + 1 \in Nat
    BY <1>1 DEF TaskRecord
  <2> QED BY <1>1, <1>2, <2>1 DEF TaskRecord
<1>k. Kept(p)
    BY <1>1, <1>2 DEF TaskRecord, Kept
<1>4. tasks'[c] \in TaskRecord
    BY <1>1, <1>2 DEF TaskRecord
<1>c. Kept(c)
    BY <1>1, <1>2 DEF TaskRecord, Kept
<1>5. Edits(p, c) /\ RootKept
    BY <1>1, <1>2, <1>3, <1>4, Parts DEF Table, Edits, RootKept
<1> QED BY <1>1, <1>k, <1>c, <1>5, Parts, TwoStep DEF Return, Places

LEMMA AwaitStep == ASSUME TasksInv, NEW p \in Live, NEW c \in Live, Await(p, c) PROVE Good
<1>1. /\ phase = "run" /\ tasks[p] \in TaskRecord /\ tasks[c] \in TaskRecord /\ c # p /\ c # Root
      /\ tasks[p].waiter \in {None, tasks[p].parent} /\ tasks[c].parent = p
      /\ tasks[p].state = "Running" /\ c \in Id /\ p \in Id
    BY ActiveFacts, ChildFacts, Parts DEF Await, OneTree
<1>2. /\ tasks' = [tasks EXCEPT ![p] = tasks'[p], ![c] = tasks'[c]]
      /\ tasks'[p] \in {tasks[p], [tasks[p] EXCEPT !.state = "Waiting", !.on = c]}
      /\ tasks'[c] = [tasks[c] EXCEPT !.waiter = p]
    BY <1>1, Parts DEF Await, Table
<1>3. tasks'[p] \in TaskRecord
  <2>1. [tasks[p] EXCEPT !.state = "Waiting", !.on = c] \in TaskRecord
    BY <1>1 DEF TaskRecord
  <2> QED BY <1>1, <1>2, <2>1
<1>k. Kept(p)
    BY <1>1, <1>2 DEF TaskRecord, Kept
<1>4. tasks'[c] \in TaskRecord
    BY <1>1, <1>2 DEF TaskRecord
<1>c. Kept(c)
    BY <1>1, <1>2 DEF TaskRecord, Kept
<1>5. Edits(p, c)
    BY <1>1, <1>2, <1>3, <1>4, Parts DEF Table, Edits
<1>r. tasks'[p].returned = tasks[p].returned /\ tasks'[p].cleanups = tasks[p].cleanups
    BY <1>1, <1>2 DEF TaskRecord
<1>6. RootKept
    BY <1>1, <1>5, <1>r DEF Edits, RootKept
<1> QED BY <1>1, <1>k, <1>c, <1>5, <1>6, Parts, TwoStep DEF Await, Places

LEMMA ObserveStep == ASSUME TasksInv, NEW p \in Live, NEW c \in Live, Observe(p, c) PROVE Good
<1>1. /\ phase = "run" /\ tasks[p] \in TaskRecord /\ tasks[c] \in TaskRecord /\ c # p /\ c # Root
      /\ tasks[p].waiter \in {None, tasks[p].parent} /\ tasks[c].parent = p
      /\ c \in Id /\ p \in Id
    BY ActiveFacts, ChildFacts, Parts DEF Observe, OneTree
<1>2. /\ tasks' = [tasks EXCEPT ![p] = tasks'[p], ![c] = tasks'[c]]
      /\ \E set \in SUBSET Id :
            tasks'[p] = [tasks[p] EXCEPT !.members = @ \cup {c}, !.noted = set]
      /\ tasks'[c] = [tasks[c] EXCEPT !.waiter = p]
  <2>1. tasks[p].noted \in SUBSET Id /\ tasks[p].noted \cup {c} \in SUBSET Id
    BY <1>1 DEF TaskRecord
  <2>2. PICK set \in SUBSET Id : set = IF tasks[c].state \in Terminal THEN tasks[p].noted \cup {c} ELSE tasks[p].noted
    BY <2>1
  <2> QED BY <1>1, <2>2, Parts DEF Observe, Table
<1>3. tasks'[p] \in TaskRecord
  <2>1. PICK set \in SUBSET Id : tasks'[p] = [tasks[p] EXCEPT !.members = @ \cup {c}, !.noted = set]
    BY <1>2
  <2>2. tasks[p].members \cup {c} \in SUBSET Id
    BY <1>1 DEF TaskRecord
  <2> QED BY <1>1, <2>1, <2>2 DEF TaskRecord
<1>k. Kept(p)
    BY <1>1, <1>2 DEF TaskRecord, Kept
<1>4. tasks'[c] \in TaskRecord
    BY <1>1, <1>2 DEF TaskRecord
<1>c. Kept(c)
    BY <1>1, <1>2 DEF TaskRecord, Kept
<1>5. Edits(p, c)
    BY <1>1, <1>2, <1>3, <1>4, Parts DEF Table, Edits
<1>r. tasks'[p].returned = tasks[p].returned /\ tasks'[p].cleanups = tasks[p].cleanups
    BY <1>1, <1>2 DEF TaskRecord
<1>6. RootKept
    BY <1>1, <1>5, <1>r DEF Edits, RootKept
<1> QED BY <1>1, <1>k, <1>c, <1>5, <1>6, Parts, TwoStep DEF Observe, Places

LEMMA WaitNextStep == ASSUME TasksInv, NEW p \in Live, WaitNext(p) PROVE Good
<1>1. /\ phase = "run" /\ tasks[p] \in TaskRecord /\ tasks[p].state = "Running"
      /\ tasks[p].waiter \in {None, tasks[p].parent}
    BY ActiveFacts, Parts DEF WaitNext, OneTree
<1>2. /\ tasks' = [tasks EXCEPT ![p] = tasks'[p]]
      /\ tasks'[p] = [tasks[p] EXCEPT !.state = "Observing"]
    BY <1>1, Parts DEF WaitNext, Table
<1>3. tasks'[p] \in TaskRecord
    BY <1>1, <1>2 DEF TaskRecord
<1>k. Kept(p)
    BY <1>1, <1>2 DEF TaskRecord, Kept
<1>5. Edits(p, p)
    BY <1>1, <1>2, <1>3, Parts DEF Table, Edits
<1>r. tasks'[p].returned = tasks[p].returned /\ tasks'[p].cleanups = tasks[p].cleanups
    BY <1>1, <1>2 DEF TaskRecord
<1>6. RootKept
    BY <1>1, <1>5, <1>r DEF Edits, RootKept
<1> QED BY <1>1, <1>k, <1>5, <1>6, Parts, TwoStep DEF WaitNext, Places

LEMMA SelectStep == ASSUME TasksInv, NEW p \in Live, Select(p) PROVE Good
<1> DEFINE c == Earliest(tasks[p].noted)
<1>1. /\ phase = "run" /\ tasks \in [Live -> TaskRecord]
      /\ \A i \in Live : tasks[i].waiter \in {None, tasks[i].parent}
    BY ActiveFacts, Parts DEF Select, OneTree, Table
<1>2. tasks' = [tasks EXCEPT ![p].members = @ \ {c}, ![p].noted = @ \ {c}, ![c].waiter = None]
    BY DEF Select
<1> HIDE DEF c
<1> DEFINE seen(t) == [t EXCEPT !.members = @ \ {c}, !.noted = @ \ {c}]
           free(t) == [t EXCEPT !.waiter = None]
<1>3. \A t \in TaskRecord : /\ seen(t) \in TaskRecord
                            /\ seen(t).parent = t.parent /\ seen(t).children = t.children
                            /\ seen(t).ext = t.ext /\ seen(t).reg = t.reg /\ seen(t).job = t.job
                            /\ seen(t).state = t.state /\ seen(t).waiter = t.waiter
                            /\ seen(t).returned = t.returned /\ seen(t).cleanups = t.cleanups
  <2> TAKE t \in TaskRecord
  <2>1. t.members \ {c} \in SUBSET Id /\ t.noted \ {c} \in SUBSET Id
    BY DEF TaskRecord
  <2>2. seen(t) \in TaskRecord
    BY <2>1 DEF TaskRecord
  <2> QED BY <2>2 DEF TaskRecord
<1>4. \A t \in TaskRecord : /\ free(t) \in TaskRecord
                            /\ free(t).parent = t.parent /\ free(t).children = t.children
                            /\ free(t).ext = t.ext /\ free(t).reg = t.reg /\ free(t).job = t.job
                            /\ free(t).state = t.state /\ free(t).waiter = None
                            /\ free(t).returned = t.returned /\ free(t).cleanups = t.cleanups
    BY DEF TaskRecord
<1>5. /\ DOMAIN tasks' = Live /\ tasks' = [i \in Live |-> tasks'[i]]
      /\ \A i \in Live : tasks'[i] \in {tasks[i], seen(tasks[i]), free(tasks[i]), free(seen(tasks[i]))}
  <2>1. \/ p # c /\ c \in Live /\ tasks' = [tasks EXCEPT ![p] = seen(tasks[p]), ![c] = free(tasks[c])]
        \/ p = c /\ tasks' = [tasks EXCEPT ![p] = free(seen(tasks[p]))]
        \/ c \notin Live /\ tasks' = [tasks EXCEPT ![p] = seen(tasks[p])]
    BY <1>1, <1>2
  <2> HIDE DEF seen, free
  <2> QED BY <1>1, <2>1
<1> HIDE DEF seen, free
<1>6. tasks' \in [Live -> TaskRecord] /\ \A i \in Live : Kept(i)
    BY <1>1, <1>3, <1>4, <1>5 DEF Kept
<1>7. RootKept
    BY <1>1, <1>3, <1>4, <1>5 DEF RootKept
<1>8. RootOK'
    BY <1>5, <1>6, <1>7, RootStays
<1> QED BY <1>1, <1>6, <1>8, Parts, CallStep DEF Select, Places

\* A cleanup of the root is lexical.
LEMMA CleanupPushStep ==
    ASSUME TasksInv, NEW p \in Live, NEW kind \in {"lexical", "result"}, CleanupPush(p, kind) PROVE Good
<1>1. /\ phase = "run" /\ tasks[p] \in TaskRecord /\ tasks[p].state = "Running"
      /\ tasks[p].waiter \in {None, tasks[p].parent}
    BY ActiveFacts, Parts DEF CleanupPush, OneTree
<1>2. /\ tasks' = [tasks EXCEPT ![p] = tasks'[p]]
      /\ tasks'[p] = [tasks[p] EXCEPT !.cleanups = Append(tasks[p].cleanups, kind)]
    BY <1>1, Parts DEF CleanupPush, Table
<1>3. /\ tasks[p].cleanups \in Seq({"lexical", "result"})
      /\ Append(tasks[p].cleanups, kind) \in Seq({"lexical", "result"})
    BY <1>1, AppendProperties DEF TaskRecord
<1>4. tasks'[p] \in TaskRecord
    BY <1>1, <1>2, <1>3 DEF TaskRecord
<1>k. Kept(p)
    BY <1>1, <1>2 DEF TaskRecord, Kept
<1>5. Edits(p, p)
    BY <1>1, <1>2, <1>4, Parts DEF Table, Edits
<1>6. RootKept \/ RootOK'
  <2>1. CASE p # Root
    BY <1>5, <2>1 DEF Edits, RootKept
  <2>2. CASE p = Root
    <3>1. tasks'[p].cleanups = Append(tasks[p].cleanups, "lexical") /\ tasks'[p].returned = tasks[p].returned
          /\ tasks'[p].parent = tasks[p].parent /\ tasks'[p].state = "Running"
      BY <1>1, <1>2, <2>2 DEF TaskRecord, CleanupPush
    <3>2. \A k \in 1..Len(tasks'[p].cleanups) : tasks'[p].cleanups[k] = "lexical"
      BY <1>3, <2>2, <3>1, Parts, AppendProperties DEF RootOK
    <3> QED BY <2>2, <3>1, <3>2, Parts DEF RootOK, Terminal
  <2> QED BY <2>1, <2>2
<1> QED BY <1>1, <1>k, <1>5, <1>6, Parts, TwoStep DEF CleanupPush, Places

LEMMA CleanupPopStep == ASSUME TasksInv, NEW p \in Live, CleanupPop(p) PROVE Good
<1>1. /\ phase = "run" /\ tasks[p] \in TaskRecord /\ tasks[p].state = "Running"
      /\ tasks[p].waiter \in {None, tasks[p].parent}
    BY ActiveFacts, Parts DEF CleanupPop, OneTree
<1> DEFINE q == tasks[p].cleanups
<1>2. PICK k \in 1..Len(q) : tasks' = [tasks EXCEPT ![p].cleanups = RemoveAt(@, k)]
    BY DEF CleanupPop
<1>3. q \in Seq({"lexical", "result"})
    BY <1>1 DEF TaskRecord
<1> HIDE DEF q
<1>4. /\ RemoveAt(q, k) \in Seq({"lexical", "result"})
      /\ \A m \in 1..Len(RemoveAt(q, k)) : \E j \in 1..Len(q) : RemoveAt(q, k)[m] = q[j]
  <2> DEFINE a == SubSeq(q, 1, k - 1)
             b == SubSeq(q, k + 1, Len(q))
  <2>0. Len(q) \in Nat /\ k \in Nat /\ 1 <= k /\ k <= Len(q)
    BY <1>3, LenProperties
  <2>1. /\ a \in Seq({"lexical", "result"}) /\ Len(a) = k - 1 /\ \A m \in 1..Len(a) : a[m] = q[m]
    BY <1>3, <2>0
  <2>2. /\ b \in Seq({"lexical", "result"}) /\ Len(b) = Len(q) - k /\ \A m \in 1..Len(b) : b[m] = q[m + k]
    BY <1>3, <2>0
  <2>3. RemoveAt(q, k) = a \o b
    BY DEF RemoveAt
  <2> HIDE DEF a, b
  <2>4. /\ a \o b \in Seq({"lexical", "result"}) /\ Len(a \o b) = Len(a) + Len(b)
        /\ \A m \in 1..Len(a) + Len(b) : (a \o b)[m] = IF m <= Len(a) THEN a[m] ELSE b[m - Len(a)]
    BY <2>1, <2>2, ConcatProperties
  <2>5. \A m \in 1..Len(a) + Len(b) : \E j \in 1..Len(q) : (a \o b)[m] = q[j]
    <3> TAKE m \in 1..Len(a) + Len(b)
    <3>1. CASE m <= Len(a)
      BY <2>0, <2>1, <2>2, <2>4, <3>1
    <3>2. CASE m > Len(a)
      <4>1. m - Len(a) \in 1..Len(b) /\ m - Len(a) + k \in 1..Len(q)
        BY <2>0, <2>1, <2>2, <3>2
      <4>2. b[m - Len(a)] = q[m - Len(a) + k]
        BY <2>2, <4>1
      <4>3. (a \o b)[m] = b[m - Len(a)]
        BY <2>0, <2>1, <2>2, <2>4, <3>2
      <4> QED BY <4>1, <4>2, <4>3
    <3> QED BY <2>0, <2>1, <2>2, <3>1, <3>2
  <2> QED BY <2>3, <2>4, <2>5
<1>5. /\ tasks' = [tasks EXCEPT ![p] = tasks'[p]]
      /\ tasks'[p] = [tasks[p] EXCEPT !.cleanups = RemoveAt(q, k)]
    BY <1>1, <1>2, Parts DEF Table, q
<1>6. tasks'[p] \in TaskRecord
    BY <1>1, <1>5, <1>4 DEF TaskRecord
<1>k. Kept(p)
    BY <1>1, <1>5 DEF TaskRecord, Kept
<1>7. Edits(p, p)
    BY <1>1, <1>5, <1>6, Parts DEF Table, Edits
<1>8. RootKept \/ RootOK'
  <2>1. CASE p # Root
    BY <1>7, <2>1 DEF Edits, RootKept
  <2>2. CASE p = Root
    <3>1. tasks'[p].cleanups = RemoveAt(q, k) /\ tasks'[p].returned = tasks[p].returned
          /\ tasks'[p].parent = tasks[p].parent /\ tasks'[p].state = "Running"
      BY <1>1, <1>5, <2>2 DEF TaskRecord
    <3>2. \A m \in 1..Len(tasks'[p].cleanups) : tasks'[p].cleanups[m] = "lexical"
      <4>1. \A m \in 1..Len(q) : q[m] = "lexical"
        BY <2>2, Parts DEF RootOK, q
      <4> QED BY <1>4, <3>1, <4>1
    <3> QED BY <2>2, <3>1, <3>2, Parts DEF RootOK, Terminal
  <2> QED BY <2>1, <2>2
<1> QED BY <1>1, <1>k, <1>7, <1>8, Parts, TwoStep DEF CleanupPop, Places

\* The caller stops observing a child and becomes its waiter.
LEMMA UnobservedFacts ==
    ASSUME TasksInv, NEW p \in Live, NEW c \in Live, Cancellable(p, c)
    PROVE  /\ Unobserved(c) = [tasks EXCEPT ![p] = Unobserved(c)[p]]
           /\ Unobserved(c)[p] \in TaskRecord /\ Unobserved(c)[c] = tasks[c]
           /\ \A f \in DOMAIN tasks[p] \ {"members", "noted"} : Unobserved(c)[p][f] = tasks[p][f]
<1>1. c # p /\ tasks[c].parent = p /\ tasks[p] \in TaskRecord /\ tasks \in [Live -> TaskRecord]
    BY ChildFacts, Parts DEF Cancellable, Table
<1>2. Unobserved(c)[p] = [tasks[p] EXCEPT !.members = @ \ {c}, !.noted = @ \ {c}]
    BY <1>1 DEF Unobserved
<1>3. tasks[p].members \ {c} \in SUBSET Id /\ tasks[p].noted \ {c} \in SUBSET Id
    BY <1>1 DEF TaskRecord
<1>4. Unobserved(c)[p] \in TaskRecord
    BY <1>1, <1>2, <1>3 DEF TaskRecord
<1>5. \A f \in DOMAIN tasks[p] \ {"members", "noted"} : Unobserved(c)[p][f] = tasks[p][f]
    BY <1>1, <1>2 DEF TaskRecord
<1> QED BY <1>1, <1>4, <1>5 DEF Unobserved

LEMMA CancelTerminalStep == ASSUME TasksInv, NEW p \in Live, NEW c \in Live, CancelTerminal(p, c) PROVE Good
<1>1. /\ phase = "run" /\ tasks[p] \in TaskRecord /\ tasks[c] \in TaskRecord /\ c # p /\ c # Root
      /\ tasks[p].waiter \in {None, tasks[p].parent} /\ tasks[c].parent = p
      /\ c \in Id /\ p \in Id
    BY ActiveFacts, ChildFacts, Parts DEF CancelTerminal, Cancellable, OneTree
<1>2. /\ tasks' = [tasks EXCEPT ![p] = tasks'[p], ![c] = tasks'[c]]
      /\ tasks'[p] = Unobserved(c)[p]
      /\ tasks'[c] = [tasks[c] EXCEPT !.waiter = p]
  <2>1. /\ Unobserved(c) = [tasks EXCEPT ![p] = Unobserved(c)[p]] /\ Unobserved(c)[c] = tasks[c]
        /\ tasks \in [Live -> TaskRecord]
    BY Parts, UnobservedFacts DEF CancelTerminal, Table
  <2>2. tasks' = [Unobserved(c) EXCEPT ![c].waiter = p]
    BY DEF CancelTerminal
  <2> QED BY <1>1, <2>1, <2>2
<1>3. tasks'[p] \in TaskRecord
    BY <1>2, UnobservedFacts DEF CancelTerminal
<1>4. \A f \in DOMAIN tasks[p] \ {"members", "noted"} : tasks'[p][f] = tasks[p][f]
    BY <1>2, UnobservedFacts DEF CancelTerminal
<1>k. Kept(p) /\ tasks'[p].returned = tasks[p].returned /\ tasks'[p].cleanups = tasks[p].cleanups
    BY <1>1, <1>3, <1>4 DEF TaskRecord, Kept
<1>5. tasks'[c] \in TaskRecord
    BY <1>1, <1>2 DEF TaskRecord
<1>c. Kept(c)
    BY <1>1, <1>2 DEF TaskRecord, Kept
<1>6. Edits(p, c)
    BY <1>1, <1>2, <1>3, <1>5, Parts DEF Table, Edits
<1>7. RootKept
    BY <1>1, <1>6, <1>k DEF Edits, RootKept
<1> QED BY <1>1, <1>k, <1>c, <1>6, <1>7, Parts, TwoStep DEF CancelTerminal

\* A wait that was delivered leaves the table without a trace.
LEMMA ConsumeStep ==
    ASSUME TasksInv, NEW p \in Live, phase = "run", tasks[p].state = "Running", tasks[p].job # "active",
           tasks' = [tasks EXCEPT ![p].ext = "none", ![p].job = "none"],
           UNCHANGED <<next, finished, sched, waits, drain, owed>>
    PROVE  Good
<1>1. /\ tasks[p] \in TaskRecord /\ tasks \in [Live -> TaskRecord] /\ tasks[p].ext # "pending"
      /\ \A i \in Live : tasks[i].waiter \in {None, tasks[i].parent}
    BY Parts DEF Table, ExtOK, OneTree
<1>2. /\ tasks' = [tasks EXCEPT ![p] = tasks'[p]]
      /\ tasks'[p] = [tasks[p] EXCEPT !.ext = "none", !.job = "none"]
    BY <1>1
<1>3. tasks'[p] \in TaskRecord
    BY <1>1, <1>2 DEF TaskRecord
<1>4. /\ tasks'[p].ext = "none" /\ tasks'[p].job = "none"
      /\ \A f \in DOMAIN tasks[p] \ {"ext", "job"} : tasks'[p][f] = tasks[p][f]
    BY <1>1, <1>2 DEF TaskRecord
<1>5. \A f \in {"parent", "children", "returned", "cleanups", "waiter", "state", "reg"} :
          \A i \in Live : tasks'[i][f] = tasks[i][f]
    BY <1>1, <1>2, <1>4 DEF TaskRecord
<1>6. /\ tasks' \in [Live -> TaskRecord]
      /\ \A i \in Live : /\ tasks'[i].parent = tasks[i].parent /\ tasks'[i].children = tasks[i].children
                         /\ tasks'[i].returned = tasks[i].returned
                         /\ tasks'[i].cleanups = tasks[i].cleanups
                         /\ tasks'[i].waiter = tasks[i].waiter /\ tasks'[i].state = tasks[i].state
                         /\ tasks'[i].reg = tasks[i].reg
                         /\ i # p => tasks'[i].ext = tasks[i].ext /\ tasks'[i].job = tasks[i].job
    BY <1>1, <1>2, <1>3, <1>5
<1>7. SameTree /\ SameEnds
    BY <1>6 DEF SameTree, SameEnds
<1>8. SameWaits
    BY <1>1, <1>4, <1>6 DEF SameWaits
<1>9. ExtOK'
    BY <1>4, <1>6, Parts DEF ExtOK, Live
<1>10. RootOK'
    BY <1>6, Parts DEF RootOK, Live
<1> QED BY <1>1, <1>6, <1>7, <1>8, <1>9, <1>10, Parts, EditStep DEF Places

LEMMA ResumeWaitStep == ASSUME TasksInv, NEW p \in Live, ResumeWait(p) PROVE Good
<1>1. tasks' = [tasks EXCEPT ![p].ext = "none", ![p].job = "none"]
  <2>1. tasks[p] \in TaskRecord /\ tasks[p].job = "none" /\ tasks \in [Live -> TaskRecord]
    BY Parts DEF ResumeWait, Table
  <2>2. [tasks[p] EXCEPT !.ext = "none", !.job = "none"] = [tasks[p] EXCEPT !.ext = "none"]
    BY <2>1 DEF TaskRecord
  <2> QED BY <2>1, <2>2 DEF ResumeWait
<1> QED BY <1>1, ConsumeStep DEF ResumeWait

LEMMA WorkerResultStep == ASSUME TasksInv, NEW p \in Live, WorkerResult(p) PROVE Good
BY ConsumeStep DEF WorkerResult

LEMMA JobCompleteStep == ASSUME TasksInv, NEW p \in Live, JobComplete(p) PROVE Good
<1>1. /\ tasks[p] \in TaskRecord /\ tasks \in [Live -> TaskRecord] /\ tasks[p].job = "active"
      /\ \A i \in Live : tasks[i].waiter \in {None, tasks[i].parent}
    BY Parts DEF Table, OneTree, JobComplete
<1>2. /\ tasks' = [tasks EXCEPT ![p] = tasks'[p]]
      /\ tasks'[p] = [tasks[p] EXCEPT !.job = "complete"]
    BY <1>1 DEF JobComplete
<1>3. tasks'[p] \in TaskRecord
    BY <1>1, <1>2 DEF TaskRecord
<1>4. \A f \in DOMAIN tasks[p] \ {"job"} : tasks'[p][f] = tasks[p][f]
    BY <1>1, <1>2 DEF TaskRecord
<1>5. \A f \in {"parent", "children", "returned", "cleanups", "waiter", "state", "reg", "ext"} :
          \A i \in Live : tasks'[i][f] = tasks[i][f]
    BY <1>1, <1>2, <1>4 DEF TaskRecord
<1>6. /\ tasks' \in [Live -> TaskRecord]
      /\ \A i \in Live : /\ tasks'[i].parent = tasks[i].parent /\ tasks'[i].children = tasks[i].children
                         /\ tasks'[i].returned = tasks[i].returned
                         /\ tasks'[i].cleanups = tasks[i].cleanups
                         /\ tasks'[i].waiter = tasks[i].waiter /\ tasks'[i].state = tasks[i].state
                         /\ tasks'[i].reg = tasks[i].reg /\ tasks'[i].ext = tasks[i].ext
                         /\ i # p => tasks'[i].job = tasks[i].job
    BY <1>1, <1>2, <1>3, <1>5
<1>7. SameTree /\ SameEnds /\ SameWaits
    BY <1>6 DEF SameTree, SameEnds, SameWaits
<1>8. ExtOK'
    BY <1>1, <1>6, Parts DEF ExtOK, Live
<1>9. RootOK'
    BY <1>6, Parts DEF RootOK, Live
<1> QED BY <1>1, <1>6, <1>7, <1>8, <1>9, Parts, EditStep DEF Places, JobComplete

-----------------------------------------------------------------------------
(* Steps of drive() and of a drain that leave the table alone.             *)

LEMMA EmptyStack == ASSUME drain'.work = <<>> PROVE StackOK'
<1>1. Height' = 0
    BY DEF Height
<1> QED BY <1>1 DEF StackOK, StackLive, StackOnce, StackBase, StackParents, StackChildren

LEMMA OneNode ==
    ASSUME NEW c, drain'.work = <<<<c, FALSE>>>>, c \in Live' \ Anchors', tasks'[c].parent = Base'
    PROVE  StackOK'
<1>1. Height' = 1 /\ Node(1)' = c /\ Visited(1)' = FALSE
    BY DEF Height, Node, Visited
<1> QED BY <1>1 DEF StackOK, StackLive, StackOnce, StackBase, StackParents, StackChildren

\* A live task has the root above it.
LEMMA RootLives == ASSUME TasksInv, Live # {} PROVE Root \in Live
<1> SUFFICES ASSUME Root \notin Live PROVE FALSE
    OBVIOUS
<1>1. Live \in SUBSET (Live \ {Root}) /\ \A i \in Live : tasks[i].parent \in Live
    BY Parts DEF OneTree
<1>2. \E i \in Live : tasks[i].parent \notin Live
    BY <1>1, Parts DEF OneTree
<1> QED BY <1>1, <1>2

LEMMA NoCycle ==
    ASSUME TasksInv, NEW a \in Live, NEW b \in Live, tasks[a].parent = b PROVE tasks[b].parent # a
<1> SUFFICES ASSUME tasks[b].parent = a PROVE FALSE
    OBVIOUS
<1>1. a # Root /\ b # Root
    BY Parts DEF RootOK, Table, Id, None
<1>2. {a, b} \in SUBSET (Live \ {Root}) /\ {a, b} # {}
    BY <1>1
<1>3. \E i \in {a, b} : tasks[i].parent \notin {a, b}
    BY <1>2, Parts DEF OneTree
<1> QED BY <1>3

LEMMA PlainStep ==
    ASSUME TasksInv, UNCHANGED <<tasks, next, finished, waits, drain, owed>>, ready' \in Seq(Id),
           phase' \in Phases \ {"start", "run", "drain"}, current' \in Id \cup {None}
    PROVE  Good
<1>1. Places' /\ (drain \in WorkTypes)'
    BY Parts DEF Places
<1>2. RunOK' /\ DrainOK'
    BY DEF RunOK, DrainOK
<1> QED BY <1>1, <1>2, ControlStep

LEMMA DriveSteps == ASSUME TasksInv, Start \/ Poll \/ Taken \/ Wake \/ PickNone PROVE Good
<1>1. ready' \in Seq(Id)
  <2>1. ready \in Seq(Id)
    BY Parts DEF Lists
  <2>2. <<>> \in Seq(Id)
    OBVIOUS
  <2>3. ready' = ready \/ ready' = <<>>
    BY DEF Start, Poll, Taken, Wake, PickNone
  <2> QED BY <2>1, <2>2, <2>3
<1>2. phase' \in Phases \ {"start", "run", "drain"}
    BY DEF Start, Poll, Taken, Wake, PickNone, Phases
<1>3. current' \in Id \cup {None} /\ UNCHANGED <<tasks, next, finished, waits, drain, owed>>
    BY Parts DEF Places, Start, Poll, Taken, Wake, PickNone
<1> QED BY <1>1, <1>2, <1>3, PlainStep

LEMMA SuspendStep == ASSUME TasksInv, NEW p \in Live, Suspend(p) PROVE Good
<1>1. ready' \in Seq(Id) /\ phase' \in Phases \ {"start", "run", "drain"} /\ current' \in Id \cup {None}
    BY Parts DEF Lists, Suspend, Phases
<1> QED BY <1>1, PlainStep DEF Suspend

LEMMA StutterStep == ASSUME TasksInv, UNCHANGED vars PROVE Good
<1>1. UNCHANGED <<tasks, next, finished, waits>> /\ UNCHANGED <<ready, current, phase, drain, owed>>
    BY DEF vars, sched
<1>2. ready' \in Seq(Id) /\ Places' /\ (drain \in WorkTypes)'
    BY <1>1, Parts DEF Lists, Places
<1>3. RunOK' /\ DrainOK'
    BY <1>1, Parts, KeepDrain DEF SameTree, SameEnds, Live
<1> QED BY <1>1, <1>2, <1>3, ControlStep

\* A drain begins with no task of the caller's chain on its stack.
LEMMA BeginStep ==
    ASSUME TasksInv, NEW then \in {"fault", "drain", "abandon"}, NEW of \in Live, NEW work, NEW flag \in BOOLEAN,
           Begin(then, of, work, flag), UNCHANGED <<tasks, next, finished, ready, current, waits, owed>>,
           then # "abandon" => of = current /\ Unended(current),
           \/ work = <<>>
           \/ \E c \in Live : /\ work = <<<<c, FALSE>>>>
                              /\ IF then = "abandon" THEN c = Root ELSE tasks[c].parent = of
    PROVE  Good
<1>1. /\ drain'.work = work /\ drain'.then = then /\ drain'.of = of /\ phase' = "drain"
      /\ drain' = [work |-> work, then |-> then, of |-> of, first |-> FALSE, suppress |-> flag]
    BY DEF Begin
<1>2. work \in Seq(Id \X BOOLEAN) /\ of \in Id
  <2>1. <<>> \in Seq(Id \X BOOLEAN)
    OBVIOUS
  <2>2. \A c \in Live : <<c, FALSE>> \in Id \X BOOLEAN
    BY Parts DEF Table
  <2>3. \A c \in Live : <<<<c, FALSE>>>> \in Seq(Id \X BOOLEAN)
    <3>1. \A S : \A x \in S : <<x>> \in Seq(S)
      OBVIOUS
    <3> QED BY ONLY <2>2, <3>1
  <2> QED BY <2>1, <2>3, Parts DEF Table
<1>3. drain' \in WorkTypes
    BY <1>1, <1>2 DEF WorkTypes
<1>4. Places' /\ ready' \in Seq(Id)
    BY <1>1, Parts DEF Places, Phases, Lists
<1>5. CallerOK'
    BY <1>1 DEF CallerOK, Unended, Live
<1>6. StackOK'
  <2>1. CASE work = <<>>
    BY <1>1, <2>1, EmptyStack
  <2>2. CASE work # <<>>
    <3>1. PICK c \in Live : /\ work = <<<<c, FALSE>>>>
                            /\ IF then = "abandon" THEN c = Root ELSE tasks[c].parent = of
      BY <2>2
    <3>2. tasks[c].parent = Base'
      BY <1>1, <3>1, Parts DEF Base, RootOK
    <3>3. c \notin Anchors'
      BY <1>1, <3>1, Parts, NotOwnParent DEF Anchors
    <3> QED BY <1>1, <3>1, <3>2, <3>3, OneNode DEF Live
  <2> QED BY <2>1, <2>2
<1>7. RunOK' /\ DrainOK'
    BY <1>1, <1>5, <1>6 DEF RunOK, DrainOK
<1> QED BY <1>3, <1>4, <1>7, ControlStep

LEMMA FaultStep == ASSUME TasksInv, NEW p \in Live, Fault(p) PROVE Good
<1>1. phase = "run" /\ current = p /\ Unended(current)
    BY Parts DEF Fault, RunOK
<1> QED BY <1>1, BeginStep DEF Fault

LEMMA DrainChildStep ==
    ASSUME TasksInv, NEW p \in Live, NEW c \in Live, NEW suppress \in BOOLEAN, DrainChild(p, c, suppress) PROVE Good
<1>1. current = p /\ Unended(current) /\ tasks[c].parent = p
    BY ActiveFacts, ChildFacts DEF DrainChild
<1> QED BY <1>1, BeginStep DEF DrainChild

LEMMA AbandonStep == ASSUME TasksInv, Abandon PROVE Good
<1>1. Root \in Live
  <2>1. CASE phase = "start"
    BY <2>1, Parts DEF RunOK
  <2>2. CASE pending > 0
    <3>0. pending = Cardinality(Pendings)
      BY Parts DEF Reactors
    <3>1. Pendings # {}
      BY <2>2, <3>0, FS_EmptySet
    <3> QED BY <3>1, RootLives DEF Pendings
  <2> QED BY <2>1, <2>2 DEF Abandon
<1> QED BY <1>1, BeginStep DEF Abandon

LEMMA FinishDrainStep == ASSUME TasksInv, FinishDrain PROVE Good
<1>1. drain.then = "drain" /\ CallerOK
    BY Parts DEF FinishDrain, Draining, DrainOK
<1>2. drain.of = current /\ Unended(current)
    BY <1>1 DEF CallerOK
<1>3. CASE drain.first /\ ~drain.suppress
    BY <1>2, <1>3, BeginStep DEF FinishDrain, Unended
<1>4. CASE ~(drain.first /\ ~drain.suppress)
  <2>1. drain' = NoDrain /\ phase' = "run" /\ UNCHANGED <<tasks, next, finished, ready, current, waits, owed>>
    BY <1>4 DEF FinishDrain
  <2>2. <<>> \in Seq(Id \X BOOLEAN)
    OBVIOUS
  <2>3. NoDrain \in WorkTypes
    BY <2>2 DEF NoDrain, WorkTypes
  <2>4. Places' /\ ready' \in Seq(Id)
    BY <2>1, Parts DEF Places, Phases, Lists
  <2>5. RunOK' /\ DrainOK'
    BY <1>2, <2>1 DEF RunOK, DrainOK, Unended, Live
  <2> QED BY <2>1, <2>3, <2>4, <2>5, ControlStep
<1> QED BY <1>3, <1>4

LEMMA AbandonedStep == ASSUME TasksInv, Abandoned PROVE Good
<1>1. /\ drain' = NoDrain /\ phase' = "done" /\ ready' = <<>>
      /\ UNCHANGED <<tasks, next, finished, current, waits, owed>>
    BY DEF Abandoned
<1>2. <<>> \in Seq(Id \X BOOLEAN) /\ <<>> \in Seq(Id)
    OBVIOUS
<1>3. NoDrain \in WorkTypes
    BY <1>2 DEF NoDrain, WorkTypes
<1>4. Places' /\ ready' \in Seq(Id)
    BY <1>1, <1>2, Parts DEF Places, Phases
<1>5. RunOK' /\ DrainOK'
    BY <1>1 DEF RunOK, DrainOK
<1> QED BY <1>1, <1>3, <1>4, <1>5, ControlStep

LEMMA NextChildStep == ASSUME TasksInv, NextChild PROVE Good
<1> DEFINE kids == tasks[drain.of].children
           c    == CHOOSE c \in kids : \A d \in kids : c <= d
<1>1. /\ drain.then \in {"fault", "cancel"} /\ kids # {} /\ phase = "drain"
      /\ drain' = [drain EXCEPT !.work = <<<<c, FALSE>>>>]
      /\ UNCHANGED <<tasks, next, finished, ready, current, phase, waits, owed>>
    BY DEF NextChild, Draining, sched
<1>2. CallerOK /\ drain \in WorkTypes
    BY <1>1, Parts DEF DrainOK
<1>3. drain.of \in Live /\ current \in Live /\ Unended(drain.of) /\ Unended(current)
    BY <1>1, <1>2 DEF CallerOK, Unended
<1>4. kids \in SUBSET Id
    BY <1>3, Parts DEF Table, TaskRecord
<1>5. c \in kids
  <2>1. kids \subseteq Nat /\ IsFiniteSet(kids)
    BY <1>4, Finite DEF Id
  <2>2. Cardinality(kids) \in Nat /\ Cardinality(kids) # 0
    BY <1>1, <2>1, FS_EmptySet, FS_CardinalityType
  <2>3. 1 \in 1..Cardinality(kids)
    BY <2>2
  <2> DEFINE m == Increasing(kids)[1]
  <2>4. m \in kids
    BY <2>1, <2>3, Listed
  <2>5. \A d \in kids : m <= d
    <3> SUFFICES ASSUME NEW d \in kids PROVE m <= d
      OBVIOUS
    <3>1. PICK i \in 1..Cardinality(kids) : Increasing(kids)[i] = d
      BY <2>1, Listed
    <3>2. i = 1 \/ 1 < i
      BY <2>2
    <3>3. i = 1 \/ m < d
      BY <2>1, <2>3, <3>1, <3>2, Listed
    <3>4. m \in Nat /\ d \in Nat
      BY <2>1, <2>4
    <3> QED BY <3>1, <3>3, <3>4
  <2> HIDE DEF m, kids
  <2> QED BY <2>4, <2>5
<1> HIDE DEF c
<1>6. c \in Live /\ tasks[c].parent = drain.of /\ c \in Id
    BY <1>3, <1>4, <1>5, Parts DEF OneTree
<1> HIDE DEF kids
<1>7. c # drain.of /\ c # current
  <2>1. c # drain.of
    BY <1>6, Parts, NotOwnParent
  <2>2. CASE drain.of = current
    BY <2>1, <2>2
  <2>3. CASE tasks[drain.of].parent = current
    BY <1>3, <1>6, <2>3, NoCycle
  <2> QED BY <1>1, <1>2, <2>2, <2>3 DEF CallerOK
<1>8. /\ drain'.work = <<<<c, FALSE>>>> /\ drain'.then = drain.then /\ drain'.of = drain.of
      /\ drain' \in WorkTypes
  <2>1. <<c, FALSE>> \in Id \X BOOLEAN
    BY <1>6
  <2>2. <<<<c, FALSE>>>> \in Seq(Id \X BOOLEAN)
    <3>1. \A S : \A x \in S : <<x>> \in Seq(S)
      OBVIOUS
    <3> QED BY ONLY <2>1, <3>1
  <2> QED BY <1>1, <1>2, <2>2 DEF WorkTypes
<1>9. CallerOK'
    BY <1>1, <1>2, <1>3, <1>8 DEF CallerOK, Unended, Live
<1>10. StackOK'
  <2>1. c \in Live' \ Anchors' /\ tasks'[c].parent = Base'
    BY <1>1, <1>6, <1>7, <1>8 DEF Anchors, Base, Live
  <2> QED BY <1>8, <2>1, OneNode
<1>11. Places' /\ ready' \in Seq(Id)
    BY <1>1, Parts DEF Places, Lists
<1>12. RunOK' /\ DrainOK'
    BY <1>1, <1>9, <1>10 DEF RunOK, DrainOK
<1> QED BY <1>1, <1>8, <1>11, <1>12, ControlStep

\* The chain from a task on the stack to the caller never comes back to it.
LEMMA NoKidAbove ==
    ASSUME TasksInv, phase = "drain", NEW k \in 1..Height, NEW x \in Live, tasks[x].parent = Node(k)
    PROVE  x \notin Anchors
<1>1. CallerOK /\ StackOK
    BY Parts DEF DrainOK
<1> SUFFICES ASSUME x \in Anchors PROVE FALSE
    OBVIOUS
<1>2. drain.then # "abandon" /\ Anchors = {drain.of, current}
    BY DEF Anchors
<1>3. /\ drain.of = current \/ tasks[drain.of].parent = current
      /\ drain.of \in Live /\ current \in Live
  <2>1. drain.then \in {"fault", "drain", "cancel"}
    BY <1>1, <1>2, Parts DEF CallerOK, WorkTypes
  <2> QED BY <1>1, <2>1 DEF CallerOK, Unended
<1>4. x = current
  <2>1. Node(k) # current
    BY <1>1, <1>2 DEF StackOK, StackLive
  <2> QED BY <1>2, <1>3, <2>1
<1> DEFINE T == {Node(m) : m \in 1..Height} \cup {drain.of, current}
<1>5. Height \in Nat
    BY LenProperties, Parts DEF Height, WorkTypes
<1>6. \A i \in T : i \in Live /\ tasks[i].parent \in T
  <2>1. tasks[current].parent \in T
    BY <1>4
  <2>2. tasks[drain.of].parent \in T
    BY <1>3, <2>1
  <2>3. \A m \in 1..Height : Node(m) \in Live
    BY <1>1 DEF StackOK, StackLive
  <2>4. \A m \in 1..Height : tasks[Node(m)].parent \in T
    <3> TAKE m \in 1..Height
    <3>1. CASE m = 1
      BY <1>1, <1>2, <1>5, <3>1 DEF StackOK, StackBase, Base
    <3>2. CASE m # 1
      <4>1. m \in 2..Height
        BY <1>5, <3>2
      <4>2. PICK j \in 1..m-1 : tasks[Node(m)].parent = Node(j)
        BY <1>1, <4>1 DEF StackOK, StackParents
      <4>3. j \in 1..Height
        BY <1>5, <4>1, <4>2
      <4> QED BY <4>2, <4>3
    <3> QED BY <3>1, <3>2
  <2> QED BY <1>3, <2>1, <2>2, <2>3, <2>4
<1>7. Root \notin T
  <2>1. Root \in Live => tasks[Root].parent = None
    BY Parts DEF RootOK
  <2>2. None \notin Live
    BY Parts DEF Table, Id, None
  <2> QED BY <1>6, <2>1, <2>2
<1>8. T \in SUBSET (Live \ {Root}) /\ T # {}
    BY <1>6, <1>7
<1> HIDE DEF T
<1>9. \E i \in T : tasks[i].parent \notin T
    BY <1>8, Parts DEF OneTree
<1> QED BY <1>6, <1>9

\* A child of the task on top of the stack is not on it yet.
LEMMA KidIsNew ==
    ASSUME TasksInv, phase = "drain", Height > 0, ~Visited(Height),
           NEW x \in Live, tasks[x].parent = Node(Height), NEW k \in 1..Height
    PROVE  x # Node(k)
<1> SUFFICES ASSUME x = Node(k) PROVE FALSE
    OBVIOUS
<1>1. CallerOK /\ StackOK
    BY Parts DEF DrainOK
<1>2. Height \in Nat
    BY LenProperties, Parts DEF Height, WorkTypes
<1>3. Height \in 1..Height /\ Node(Height) \in Live \ Anchors
    BY <1>1, <1>2 DEF StackOK, StackLive
<1>4. k # Height
    BY <1>3, Parts, NotOwnParent
<1>5. k # 1
  <2>1. Base \in Anchors \/ Base = None
    BY DEF Base, Anchors
  <2>2. None \notin Live
    BY Parts DEF Table, Id, None
  <2> QED BY <1>1, <1>3, <2>1, <2>2 DEF StackOK, StackBase
<1>6. k \in 2..Height
    BY <1>2, <1>5
<1>7. PICK j \in 1..k-1 : tasks[Node(k)].parent = Node(j)
    BY <1>1, <1>6 DEF StackOK, StackParents
<1>8. j \in 1..Height /\ j # Height
    BY <1>2, <1>6, <1>7
<1> QED BY <1>1, <1>3, <1>7, <1>8 DEF StackOK, StackOnce

LEMMA ExpandStep == ASSUME TasksInv, Expand PROVE Good
<1>n. PICK n \in Nat : n = Height
    BY LenProperties, Parts DEF Height, WorkTypes
<1> DEFINE top  == Node(n)
           kids == Increasing(tasks[top].children)
           size == Cardinality(tasks[top].children)
<1>1. /\ phase = "drain" /\ drain.work # <<>> /\ ~Visited(n)
      /\ drain' = [drain EXCEPT !.work = Front(drain.work) \o <<<<top, TRUE>>>>
                                  \o [k \in DOMAIN kids |-> <<kids[k], FALSE>>]]
      /\ UNCHANGED <<tasks, next, finished, ready, current, phase, waits, owed>>
    BY <1>n DEF Expand, Draining, Top, Last, Node, Visited, Height, sched
<1>2. CallerOK /\ StackOK /\ drain \in WorkTypes /\ drain.work \in Seq(Id \X BOOLEAN)
    BY <1>1, Parts DEF DrainOK, WorkTypes
<1>3. n \in Nat /\ n > 0 /\ n \in 1..n
    BY <1>n, <1>1, <1>2, EmptySeq, LenProperties DEF Height
<1>4. top \in Live /\ top \in Id
    BY <1>n, <1>2, <1>3, Parts DEF StackOK, StackLive, Table
<1>5. tasks[top].children \in SUBSET Id
    BY <1>4, Parts DEF Table, TaskRecord
<1>6. /\ size \in Nat /\ kids \in [1..size -> tasks[top].children]
      /\ \A i, j \in 1..size : kids[i] = kids[j] => i = j
      /\ \A x \in tasks[top].children : \E i \in 1..size : kids[i] = x
  <2>1. tasks[top].children \subseteq Nat /\ IsFiniteSet(tasks[top].children)
    BY <1>5, Finite DEF Id
  <2> QED BY <2>1, Listed
<1>7. \A j \in 1..size : kids[j] \in Live /\ tasks[kids[j]].parent = top /\ kids[j] \in Id
    BY <1>4, <1>5, <1>6, Parts DEF OneTree
<1> HIDE DEF kids, size, top
<1> DEFINE a == Front(drain.work)
           b == <<<<top, TRUE>>>>
           d == [k \in 1..size |-> <<kids[k], FALSE>>]
           E == Id \X BOOLEAN
<1>8. a \in Seq(E) /\ Len(a) = n - 1 /\ \A k \in 1..n-1 : a[k] = drain.work[k]
    BY <1>n, <1>2, <1>3, LenProperties DEF Front, Height
<1>9. b \in Seq(E) /\ Len(b) = 1 /\ b[1] = <<top, TRUE>>
  <2>1. <<top, TRUE>> \in E
    BY <1>4
  <2>2. \A S : \A x \in S : <<x>> \in Seq(S)
    OBVIOUS
  <2>3. b \in Seq(E)
    BY ONLY <2>1, <2>2
  <2> QED BY <2>3
<1>10. d \in Seq(E) /\ Len(d) = size /\ \A k \in 1..size : d[k] = <<kids[k], FALSE>>
  <2>1. \A k \in 1..size : <<kids[k], FALSE>> \in E
    BY <1>7
  <2> HIDE DEF E
  <2>2. d \in [1..size -> E]
    BY <2>1
  <2>3. d \in Seq(E) /\ Len(d) = size
    BY <1>6, <2>2, FunctionIsSeq
  <2> QED BY <2>3
<1> HIDE DEF a, b, d, E
<1>11. /\ a \o b \in Seq(E) /\ Len(a \o b) = n
       /\ \A k \in 1..n-1 : (a \o b)[k] = drain.work[k]
       /\ (a \o b)[n] = <<top, TRUE>>
  <2>1. /\ a \o b \in Seq(E) /\ Len(a \o b) = Len(a) + Len(b)
        /\ \A k \in 1..Len(a) : (a \o b)[k] = a[k]
        /\ \A k \in Len(a)+1..Len(a)+Len(b) : (a \o b)[k] = b[k - Len(a)]
    BY <1>8, <1>9, Joined
  <2>2. Len(a) + Len(b) = n /\ n \in Len(a)+1..Len(a)+Len(b) /\ n - Len(a) = 1
    BY <1>3, <1>8, <1>9
  <2> QED BY <1>8, <1>9, <2>1, <2>2
<1>12. /\ drain'.work \in Seq(E) /\ Len(drain'.work) = n + size
       /\ \A k \in 1..n-1 : drain'.work[k] = drain.work[k]
       /\ drain'.work[n] = <<top, TRUE>>
       /\ \A k \in n+1..n+size : drain'.work[k] = <<kids[k - n], FALSE>>
       /\ drain'.then = drain.then /\ drain'.of = drain.of
       /\ drain' = [drain EXCEPT !.work = (a \o b) \o d]
  <2>1. drain' = [drain EXCEPT !.work = (a \o b) \o d]
    BY <1>1, <1>6 DEF a, b, d
  <2>2. drain'.work = (a \o b) \o d /\ drain'.then = drain.then /\ drain'.of = drain.of
    BY <1>2, <2>1 DEF WorkTypes
  <2>3. /\ (a \o b) \o d \in Seq(E) /\ Len((a \o b) \o d) = n + size
        /\ \A k \in 1..n : ((a \o b) \o d)[k] = (a \o b)[k]
        /\ \A k \in n+1..n+size : ((a \o b) \o d)[k] = d[k - n]
    <3> DEFINE ab == a \o b
    <3>1. ab \in Seq(E) /\ Len(ab) = n
      BY <1>11
    <3> HIDE DEF ab
    <3>2. /\ ab \o d \in Seq(E) /\ Len(ab \o d) = Len(ab) + Len(d)
          /\ \A k \in 1..Len(ab) : (ab \o d)[k] = ab[k]
          /\ \A k \in Len(ab)+1..Len(ab)+Len(d) : (ab \o d)[k] = d[k - Len(ab)]
      BY <1>10, <3>1, Joined
    <3>3. Len(d) = size
      BY <1>10
    <3>4. /\ ab \o d \in Seq(E) /\ Len(ab \o d) = n + size
          /\ \A k \in 1..n : (ab \o d)[k] = ab[k]
          /\ \A k \in n+1..n+size : (ab \o d)[k] = d[k - n]
      BY ONLY <3>1, <3>2, <3>3
    <3> QED BY <3>4 DEF ab
  <2>4. \A k \in 1..n-1 : k \in 1..n
    BY <1>3
  <2>5. \A k \in n+1..n+size : d[k - n] = <<kids[k - n], FALSE>>
    <3>1. \A k \in n+1..n+size : k - n \in 1..size
      BY <1>3, <1>6
    <3> QED BY <1>10, <3>1
  <2>6. \A k \in 1..n-1 : drain'.work[k] = drain.work[k]
    BY <1>11, <2>2, <2>3, <2>4
  <2>7. drain'.work[n] = <<top, TRUE>>
    BY <1>3, <1>11, <2>2, <2>3
  <2>8. \A k \in n+1..n+size : drain'.work[k] = <<kids[k - n], FALSE>>
    BY <2>2, <2>3, <2>5
  <2> QED BY <2>1, <2>2, <2>3, <2>6, <2>7, <2>8
<1>13. drain' \in WorkTypes
    BY <1>2, <1>12 DEF WorkTypes, E
<1> DEFINE kid(k) == kids[k - n]
<1>14. /\ Height' = n + size
       /\ \A k \in 1..n : Node(k)' = Node(k)
       /\ \A k \in 1..n-1 : Visited(k)' = Visited(k)
       /\ Visited(n)' = TRUE /\ Node(n)' = top
       /\ \A k \in n+1..n+size : Node(k)' = kid(k) /\ Visited(k)' = FALSE
  <2>1. \A k \in 1..n : k \in 1..n-1 \/ k = n
    BY <1>3
  <2>2. /\ Height' = n + size /\ Visited(n)' = TRUE /\ Node(n)' = top
    BY <1>12 DEF Height, Node, Visited
  <2>3. \A k \in 1..n-1 : Node(k)' = Node(k) /\ Visited(k)' = Visited(k)
    BY <1>12 DEF Node, Visited
  <2>4. \A k \in n+1..n+size : Node(k)' = kid(k) /\ Visited(k)' = FALSE
    <3> TAKE k \in n+1..n+size
    <3>1. drain'.work[k] = <<kid(k), FALSE>>
      BY <1>12
    <3> HIDE DEF kid
    <3> QED BY <3>1 DEF Node, Visited
  <2>5. Node(n) = top
    BY DEF top
  <2> QED BY <2>1, <2>2, <2>3, <2>4, <2>5
<1>15. \A k \in 1..n+size : k \in 1..n \/ k \in n+1..n+size
    BY <1>3, <1>6
<1>16. /\ \A k \in n+1..n+size : /\ kid(k) \in Live /\ tasks[kid(k)].parent = top
                                /\ kid(k) \notin Anchors /\ \A m \in 1..n : kid(k) # Node(m)
       /\ \A k, m \in n+1..n+size : kid(k) = kid(m) => k = m
       /\ \A x \in tasks[top].children : \E k \in n+1..n+size : kid(k) = x
  <2>1. \A k \in n+1..n+size : k - n \in 1..size
    BY <1>3, <1>6
  <2>2. \A k, m \in n+1..n+size : k - n = m - n => k = m
    BY <1>3, <1>6
  <2>3. \A j \in 1..size : n + j \in n+1..n+size /\ (n + j) - n = j
    BY <1>3, <1>6
  <2>4. \A j \in 1..size : kids[j] \notin Anchors /\ \A k \in 1..n : kids[j] # Node(k)
    <3> TAKE j \in 1..size
    <3>1. n = Height /\ tasks[kids[j]].parent = Node(Height) /\ Height \in 1..Height /\ Height > 0 /\ ~Visited(Height)
      BY <1>n, <1>1, <1>3, <1>7 DEF top
    <3> QED BY <1>1, <1>7, <3>1, NoKidAbove, KidIsNew
  <2>5. \A k \in n+1..n+size : /\ kid(k) \in Live /\ tasks[kid(k)].parent = top
                               /\ kid(k) \notin Anchors /\ \A m \in 1..n : kid(k) # Node(m)
    BY <1>7, <2>1, <2>4
  <2>6. \A k, m \in n+1..n+size : kid(k) = kid(m) => k = m
    BY <1>6, <2>1, <2>2
  <2>7. \A x \in tasks[top].children : \E k \in n+1..n+size : kid(k) = x
    <3> TAKE x \in tasks[top].children
    <3>1. PICK j \in 1..size : kids[j] = x
      BY <1>6
    <3>2. n + j \in n+1..n+size /\ kid(n + j) = x
      BY <2>3, <3>1
    <3> HIDE DEF kid
    <3> QED BY <3>2
  <2> QED BY <2>5, <2>6, <2>7
<1> HIDE DEF kid
<1>17. Anchors' = Anchors /\ Base' = Base /\ Live' = Live /\ tasks' = tasks /\ n = Height
    BY <1>n, <1>1, <1>12 DEF Anchors, Base, Live
<1>18. StackLive'
  <2> SUFFICES ASSUME NEW k \in 1..n + size PROVE Node(k)' \in Live \ Anchors
    BY <1>14, <1>17 DEF StackLive
  <2>1. CASE k \in 1..n
    BY <1>2, <1>14, <1>17, <2>1 DEF StackOK, StackLive
  <2>2. CASE k \in n+1..n+size
    BY <1>14, <1>16, <2>2
  <2> QED BY <1>15, <2>1, <2>2
<1>19. StackOnce'
  <2> SUFFICES ASSUME NEW k \in 1..n + size, NEW m \in 1..n + size, Node(k)' = Node(m)' PROVE k = m
    BY <1>14 DEF StackOnce
  <2>1. CASE k \in 1..n /\ m \in 1..n
    BY <1>2, <1>14, <1>17, <2>1 DEF StackOK, StackOnce
  <2>2. CASE k \in n+1..n+size /\ m \in 1..n
    BY <1>14, <1>16, <2>2
  <2>3. CASE m \in n+1..n+size /\ k \in 1..n
    BY <1>14, <1>16, <2>3
  <2>4. CASE k \in n+1..n+size /\ m \in n+1..n+size
    BY <1>14, <1>16, <2>4
  <2> QED BY <1>15, <2>1, <2>2, <2>3, <2>4
<1>20. StackBase'
  <2>1. 1 \in 1..n
    BY <1>3
  <2> QED BY <1>2, <1>3, <1>14, <1>17, <2>1 DEF StackOK, StackBase
<1>21. StackParents'
  <2> SUFFICES ASSUME NEW m \in 2..n + size
               PROVE  \E k \in 1..m-1 : Visited(k)' /\ tasks[Node(m)'].parent = Node(k)'
    BY <1>14, <1>17 DEF StackParents
  <2>1. CASE m \in 1..n
    <3>1. m \in 2..n
      BY <1>3, <2>1
    <3>2. PICK k \in 1..m-1 : Visited(k) /\ tasks[Node(m)].parent = Node(k)
      BY <1>2, <1>17, <3>1 DEF StackOK, StackParents
    <3>3. k \in 1..n-1 /\ k \in 1..n
      BY <1>3, <3>1, <3>2
    <3> QED BY <1>14, <2>1, <3>2, <3>3
  <2>2. CASE m \in n+1..n+size
    <3>1. n \in 1..m-1
      BY <1>3, <1>6, <2>2
    <3> QED BY <1>14, <1>16, <2>2, <3>1
  <2>3. m \in 1..n + size
    BY <1>3, <1>6
  <2> QED BY <1>15, <2>1, <2>2, <2>3
<1>22. StackChildren'
  <2> SUFFICES ASSUME NEW k \in 1..n + size, Visited(k)', NEW x \in tasks[Node(k)'].children
               PROVE  \E m \in k+1..n + size : Node(m)' = x
    BY <1>14, <1>17 DEF StackChildren
  <2>1. CASE k \in 1..n-1
    <3>0. k \in 1..n
      BY <1>3, <2>1
    <3>1. PICK m \in k+1..n : Node(m) = x
      BY <1>2, <1>14, <1>17, <2>1, <3>0 DEF StackOK, StackChildren
    <3>2. m \in 1..n /\ m \in k+1..n + size
      BY <1>3, <1>6, <3>0, <3>1
    <3> QED BY <1>14, <3>1, <3>2
  <2>2. CASE k = n
    BY <1>14, <1>16, <2>2
  <2>3. CASE k \in n+1..n+size
    BY <1>14, <2>3
  <2>4. k \in 1..n => k \in 1..n-1 \/ k = n
    BY <1>3
  <2> QED BY <1>15, <2>1, <2>2, <2>3, <2>4
<1>23. CallerOK'
    BY <1>1, <1>2, <1>12, <1>17 DEF CallerOK, Unended
<1>24. RunOK' /\ DrainOK'
    BY <1>1, <1>18, <1>19, <1>20, <1>21, <1>22, <1>23 DEF RunOK, DrainOK, StackOK
<1>25. Places' /\ ready' \in Seq(Id)
    BY <1>1, Parts DEF Places, Lists
<1> QED BY <1>1, <1>13, <1>24, <1>25, ControlStep

-----------------------------------------------------------------------------
(* Steps that change what the reactor holds.                               *)

\* A step that keeps the tree, seen part by part.
LEMMA TableStep ==
    ASSUME TasksInv, tasks' \in [Live -> TaskRecord], SameTree, Reactors', Fresh',
           \A i \in Live : tasks'[i].waiter \in {None, tasks[i].parent},
           Lists', Places', (drain \in WorkTypes)', ExtOK', RootOK', RunOK', DrainOK', Outcomes, Retires
    PROVE  Good
<1>1. OneTree'
    BY Parts, KeepTree
<1>2. Table'
    BY Parts DEF Table, Live, SameTree
<1> QED BY <1>1, <1>2, TypePartsNext DEF TasksInv, Good

\* cancel_wait takes exactly this task out of the count and, if no
\* notification is queued for it, its registration out of the reactor.
LEMMA CancelWaitFacts ==
    ASSUME Table, Reactors, Fresh, NEW id \in Live, CancelWait(id),
           DOMAIN tasks' = Live, UNCHANGED <<notices, next>>, tasks'[id].ext = "none",
           \A i \in Live : tasks'[i].reg = tasks[i].reg,
           \A i \in Live \ {id} : tasks'[i].ext = tasks[i].ext
    PROVE  Reactors' /\ Fresh'
<1>1. Fresh'
    BY DEF Fresh, Live
<1>2. CASE tasks[id].ext = "pending"
  <2>1. armed' = armed \ {<<id, tasks[id].reg>>} /\ pending' = pending - 1
    BY <1>2 DEF CancelWait
  <2>2. Pendings' = Pendings \ {id} /\ id \in Pendings
    BY <1>2 DEF Pendings, Live
  <2>3. IsFiniteSet(Pendings)
    BY Finite DEF Table, Pendings
  <2>4. pending' = Cardinality(Pendings')
    BY <2>1, <2>2, <2>3, FS_RemoveElement DEF Reactors
  <2>5. Silent' = Silent \ {id}
    BY <1>2 DEF Silent, Live
  <2>6. {<<i, tasks[i].reg>> : i \in Silent}' = {<<i, tasks[i].reg>> : i \in Silent \ {id}}
    <3>1. \A i \in Silent : tasks'[i].reg = tasks[i].reg
      BY DEF Silent
    <3> QED BY <2>5, <3>1
  <2>7. armed' = {<<i, tasks[i].reg>> : i \in Silent \ {id}}
    <3>1. armed = {<<i, tasks[i].reg>> : i \in Silent}
      BY DEF Reactors
    <3> QED BY <2>1, <3>1
  <2>8. armed' \subseteq Id \X (1..MaxWaits) /\ notices' \in Seq(Id \X (1..MaxWaits))
    BY <2>1 DEF Reactors
  <2> QED BY <1>1, <2>4, <2>6, <2>7, <2>8 DEF Reactors
<1>3. CASE tasks[id].ext # "pending"
  <2>1. UNCHANGED <<waits, next>>
    BY <1>3 DEF CancelWait, waits
  <2>2. SameWaits
    BY <1>3 DEF SameWaits
  <2> QED BY <2>1, <2>2, KeepReactors
<1> QED BY <1>2, <1>3

\* A registration fires once; its task can still tell the notification from
\* one of an earlier wait.
LEMMA FireStep == ASSUME TasksInv, NEW r \in armed, Fire(r) PROVE Good
<1>1. /\ armed' = armed \ {r} /\ notices' = Append(notices, r)
      /\ UNCHANGED <<tasks, next, finished, sched, pending, drain, owed>>
    BY DEF Fire
<1>2. /\ armed \subseteq Id \X (1..MaxWaits) /\ notices \in Seq(Id \X (1..MaxWaits))
      /\ armed = {<<i, tasks[i].reg>> : i \in Silent} /\ Fresh /\ Table
    BY Parts DEF Reactors
<1>3. PICK id \in Silent : r = <<id, tasks[id].reg>>
    BY <1>2
<1>4. /\ notices' \in Seq(Id \X (1..MaxWaits)) /\ Len(notices) \in Nat /\ Len(notices') = Len(notices) + 1
      /\ \A k \in 1..Len(notices) : notices'[k] = notices[k]
      /\ notices'[Len(notices) + 1] = r
    BY <1>1, <1>2, AppendProperties, LenProperties
<1>5. \A x : (\E k \in 1..Len(notices') : notices'[k] = x) <=> (x = r \/ \E k \in 1..Len(notices) : notices[k] = x)
  <2>1. /\ \A k \in 1..Len(notices') : k \in 1..Len(notices) \/ k = Len(notices) + 1
        /\ \A k \in 1..Len(notices) : k \in 1..Len(notices')
        /\ Len(notices) + 1 \in 1..Len(notices')
    BY <1>4
  <2> QED BY <1>4, <2>1
<1>6. Silent' = Silent \ {id}
  <2>1. \A j \in Live : <<j, tasks[j].reg>> = r <=> j = id
    BY <1>3
  <2> QED BY <1>1, <1>5, <2>1 DEF Silent, Live
<1>7. armed' = {<<i, tasks[i].reg>> : i \in Silent \ {id}}
    BY <1>1, <1>2, <1>3
<1>8. Reactors'
  <2>1. Pendings' = Pendings
    BY <1>1 DEF Pendings, Live
  <2>2. {<<i, tasks[i].reg>> : i \in Silent}' = {<<i, tasks[i].reg>> : i \in Silent \ {id}}
    BY <1>1, <1>6
  <2> QED BY <1>1, <1>2, <1>4, <1>7, <2>1, <2>2, Parts DEF Reactors
<1>9. Fresh'
  <2>1. id \in Live /\ tasks[id].reg \in Nat /\ id <= next /\ r[1] = id /\ r[2] = tasks[id].reg
    BY <1>2, <1>3 DEF Silent, Fresh, Table, TaskRecord
  <2>2. \A k \in 1..Len(notices') : k \in 1..Len(notices) \/ k = Len(notices) + 1
    BY <1>4
  <2>3. \A i \in Live' : i <= next'
    BY <1>1, <1>2 DEF Fresh, Live
  <2>4. \A k \in 1..Len(notices') :
          /\ notices'[k][1] <= next
          /\ notices'[k][1] \in Live => notices'[k][2] <= tasks[notices'[k][1]].reg
    <3> TAKE k \in 1..Len(notices')
    <3>1. CASE k \in 1..Len(notices)
      BY <1>2, <1>4, <3>1 DEF Fresh
    <3>2. CASE k = Len(notices) + 1
      BY <1>4, <2>1, <3>2
    <3> QED BY <2>2, <3>1, <3>2
  <2> QED BY <1>1, <2>3, <2>4 DEF Fresh, Live
<1>10. RunOK' /\ DrainOK'
    BY <1>1, Parts, KeepDrain DEF SameTree, SameEnds, Live, sched
<1>11. /\ Lists' /\ Places' /\ (drain \in WorkTypes)' /\ ExtOK' /\ RootOK' /\ SameTree
       /\ tasks' \in [Live -> TaskRecord] /\ \A i \in Live : tasks'[i].waiter \in {None, tasks[i].parent}
    BY <1>1, Parts DEF Lists, Places, ExtOK, RootOK, SameTree, Live, sched, Table, OneTree
<1>12. Outcomes /\ Retires
    BY <1>1 DEF Outcomes, Retires, Live
<1> QED BY <1>8, <1>9, <1>10, <1>11, <1>12, TableStep

\* A notification wakes the wait it is for, and only that one.
LEMMA TakeStep == ASSUME TasksInv, Take PROVE Good
<1> DEFINE n  == Head(notices)
           id == n[1]
           hit == /\ id \in Live /\ tasks[id].ext = "pending"
                  /\ tasks[id].state = "ExternalWaiting" /\ tasks[id].reg = n[2]
<1>1. /\ phase = "take" /\ notices # <<>> /\ notices' = Tail(notices)
      /\ IF hit THEN /\ tasks' = [tasks EXCEPT ![id].ext = "ready", ![id].state = "Queued"]
                     /\ pending' = pending - 1
                     /\ ready' = Append(ready, id)
                ELSE UNCHANGED <<tasks, pending, ready>>
      /\ UNCHANGED <<next, finished, current, phase, armed, drain, owed>>
    BY DEF Take
<1>2. /\ notices \in Seq(Id \X (1..MaxWaits)) /\ Fresh /\ Table /\ Reactors /\ ExtOK /\ OneTree /\ RootOK
      /\ tasks \in [Live -> TaskRecord]
    BY Parts DEF Reactors, Table
<1>3. /\ Len(notices) \in Nat /\ 1 \in 1..Len(notices) /\ n = notices[1]
      /\ notices' \in Seq(Id \X (1..MaxWaits)) /\ Len(notices') = Len(notices) - 1
      /\ \A k \in 1..Len(notices') : k + 1 \in 1..Len(notices) /\ notices'[k] = notices[k + 1]
  <2>1. Len(notices) \in Nat \ {0}
    BY <1>1, <1>2, EmptySeq
  <2>2. n = notices[1] /\ notices' \in Seq(Id \X (1..MaxWaits)) /\ Len(notices') = Len(notices) - 1
    BY <1>1, <1>2, <2>1, HeadTailProperties
  <2>3. \A k \in 1..Len(notices') : k + 1 \in 1..Len(notices)
    BY <2>1, <2>2
  <2>4. \A k \in 1..Len(notices') : notices'[k] = notices[k + 1]
    BY <1>1, <1>2, <2>1, <2>2, HeadTailProperties
  <2> QED BY <2>1, <2>2, <2>3, <2>4
<1>4. n \in Id \X (1..MaxWaits) /\ id \in Id /\ n = <<id, n[2]>>
    BY <1>2, <1>3, ElementOfSeq
<1> HIDE DEF n
<1>5. \A x : x # n => ((\E k \in 1..Len(notices') : notices'[k] = x) <=> \E k \in 1..Len(notices) : notices[k] = x)
  <2> SUFFICES ASSUME NEW x, x # n
               PROVE  (\E k \in 1..Len(notices') : notices'[k] = x) <=> \E k \in 1..Len(notices) : notices[k] = x
    OBVIOUS
  <2>1. ASSUME NEW k \in 1..Len(notices), notices[k] = x PROVE \E m \in 1..Len(notices') : notices'[m] = x
    <3>1. k # 1
      BY <1>3, <2>1
    <3>2. k - 1 \in 1..Len(notices') /\ (k - 1) + 1 = k
      BY <1>3, <3>1
    <3>3. notices'[k - 1] = x
      BY <1>3, <2>1, <3>2
    <3> QED BY <3>2, <3>3
  <2>2. ASSUME NEW k \in 1..Len(notices'), notices'[k] = x PROVE \E m \in 1..Len(notices) : notices[m] = x
    BY <1>3, <2>2
  <2> QED BY <2>1, <2>2
<1>6. ASSUME UNCHANGED next, DOMAIN tasks' = Live, \A i \in Live : tasks'[i].reg = tasks[i].reg
      PROVE  Fresh'
  <2>1. \A i \in Live' : i <= next'
    BY <1>2, <1>6 DEF Fresh, Live
  <2>2. \A k \in 1..Len(notices') :
          /\ notices'[k][1] <= next
          /\ notices'[k][1] \in Live => notices'[k][2] <= tasks[notices'[k][1]].reg
    BY <1>2, <1>3 DEF Fresh
  <2> QED BY <1>6, <2>1, <2>2 DEF Fresh, Live
<1>7. CASE ~hit
  <2>1. UNCHANGED <<tasks, next, pending, ready, finished, current, phase, armed, drain, owed>>
    BY <1>1, <1>7
  <2>2. \A j \in Live : tasks[j].ext = "pending" => <<j, tasks[j].reg>> # n
    BY <1>2, <1>4, <1>7 DEF ExtOK
  <2>3. Silent' = Silent /\ Pendings' = Pendings
    BY <1>5, <2>1, <2>2 DEF Silent, Pendings, Live
  <2>4. Reactors'
    BY <1>2, <1>3, <2>1, <2>3 DEF Reactors
  <2>5. Fresh'
    BY <1>6, <2>1 DEF Live
  <2>6. RunOK' /\ DrainOK'
    BY <2>1, Parts, KeepDrain DEF SameTree, SameEnds, Live
  <2>7. /\ Lists' /\ Places' /\ (drain \in WorkTypes)' /\ ExtOK' /\ RootOK' /\ SameTree
        /\ tasks' \in [Live -> TaskRecord] /\ \A i \in Live : tasks'[i].waiter \in {None, tasks[i].parent}
    BY <2>1, Parts DEF Lists, Places, ExtOK, RootOK, SameTree, Live, Table, OneTree
  <2>8. Outcomes /\ Retires
    BY <2>1 DEF Outcomes, Retires, Live
  <2> QED BY <2>4, <2>5, <2>6, <2>7, <2>8, TableStep
<1>8. CASE hit
  <2>1. /\ tasks' = [tasks EXCEPT ![id] = tasks'[id]]
        /\ tasks'[id] = [tasks[id] EXCEPT !.ext = "ready", !.state = "Queued"]
        /\ pending' = pending - 1 /\ ready' = Append(ready, id) /\ tasks[id] \in TaskRecord
    BY <1>1, <1>2, <1>8
  <2>2. tasks'[id] \in TaskRecord
    BY <2>1 DEF TaskRecord
  <2>3. /\ tasks'[id].ext = "ready" /\ tasks'[id].state = "Queued"
        /\ \A f \in DOMAIN tasks[id] \ {"ext", "state"} : tasks'[id][f] = tasks[id][f]
    BY <2>1 DEF TaskRecord
  <2>4. /\ tasks' \in [Live -> TaskRecord]
        /\ \A i \in Live \ {id} : tasks'[i] = tasks[i]
    BY <1>2, <1>8, <2>1, <2>2
  <2>5. \A i \in Live : /\ tasks'[i].parent = tasks[i].parent /\ tasks'[i].children = tasks[i].children
                        /\ tasks'[i].returned = tasks[i].returned
                        /\ tasks'[i].cleanups = tasks[i].cleanups
                        /\ tasks'[i].waiter = tasks[i].waiter /\ tasks'[i].reg = tasks[i].reg
                        /\ tasks'[i].job = tasks[i].job
    <3>1. /\ tasks'[id].parent = tasks[id].parent /\ tasks'[id].children = tasks[id].children
          /\ tasks'[id].returned = tasks[id].returned
          /\ tasks'[id].cleanups = tasks[id].cleanups
          /\ tasks'[id].waiter = tasks[id].waiter /\ tasks'[id].reg = tasks[id].reg
          /\ tasks'[id].job = tasks[id].job
      BY <2>1, <2>3 DEF TaskRecord
    <3> QED BY <2>4, <3>1
  <2>6. SameTree /\ SameEnds
    BY <1>8, <2>3, <2>4, <2>5 DEF SameTree, SameEnds, Terminal
  <2>7. ExtOK'
    BY <1>2, <2>3, <2>4, <2>5 DEF ExtOK, Live, Terminal
  <2>8. RootOK'
    BY <1>2, <1>8, <2>3, <2>4, <2>5 DEF RootOK, Live, Terminal
  <2>9. Pendings' = Pendings \ {id} /\ id \in Pendings
    BY <1>8, <2>3, <2>4 DEF Pendings, Live
  <2>10. pending' = Cardinality(Pendings')
    <3>1. IsFiniteSet(Pendings)
      BY <1>2, Finite DEF Table, Pendings
    <3> QED BY <1>2, <2>1, <2>9, <3>1, FS_RemoveElement DEF Reactors
  <2>11. Silent' = Silent
    <3>1. id \notin Silent
      BY <1>3, <1>4, <1>8 DEF Silent
    <3>2. id \notin Silent'
      BY <2>3 DEF Silent
    <3>3. \A j \in Live \ {id} : <<j, tasks[j].reg>> # n
      BY <1>4
    <3>4. \A j \in Live \ {id} : j \in Silent' <=> j \in Silent
      <4> TAKE j \in Live \ {id}
      <4>1. tasks'[j] = tasks[j] /\ j \in DOMAIN tasks' /\ <<j, tasks[j].reg>> # n
        BY <2>4, <3>3
      <4>2. (\E k \in 1..Len(notices') : notices'[k] = <<j, tasks[j].reg>>)
              <=> \E k \in 1..Len(notices) : notices[k] = <<j, tasks[j].reg>>
        BY <1>5, <4>1
      <4> QED BY <4>1, <4>2 DEF Silent, Live
    <3>5. Silent \subseteq Live /\ Silent' \subseteq Live
      BY <2>4 DEF Silent, Live
    <3> QED BY <3>1, <3>2, <3>4, <3>5
  <2>12. Reactors'
    <3>1. {<<i, tasks[i].reg>> : i \in Silent}' = {<<i, tasks[i].reg>> : i \in Silent}
      <4>1. \A i \in Silent : tasks'[i].reg = tasks[i].reg
        BY <2>5 DEF Silent
      <4> QED BY <2>11, <4>1
    <3> QED BY <1>1, <1>2, <1>3, <2>10, <3>1 DEF Reactors
  <2>13. Fresh'
    BY <1>1, <1>6, <2>4, <2>5
  <2>14. RunOK' /\ DrainOK'
    BY <1>1, <2>6, Parts, KeepDrain
  <2>15. ready' \in Seq(Id)
    BY <1>4, <2>1, Parts, AppendProperties DEF Lists
  <2>16. Lists' /\ Places' /\ (drain \in WorkTypes)'
    BY <1>1, <2>15, Parts DEF Lists, Places
  <2>17. \A i \in Live : tasks'[i].waiter \in {None, tasks[i].parent}
    BY <1>2, <2>5 DEF OneTree
  <2>18. Outcomes /\ Retires
    BY <1>1, <2>4, <2>5, <2>6 DEF Outcomes, Retires, SameEnds
  <2> QED BY <2>4, <2>6, <2>7, <2>8, <2>12, <2>13, <2>14, <2>16, <2>17, <2>18, TableStep
<1> QED BY <1>7, <1>8

\* The registration of a wait is new to the reactor's queue.
LEMMA RegisterStep ==
    ASSUME TasksInv, NEW p \in Live, NEW job \in {"none", "active"}, Register(p, job) PROVE Good
<1> DEFINE n == tasks[p].reg + 1
<1>1. /\ Active(p) /\ tasks[p].reg < MaxWaits
      /\ tasks' = [tasks EXCEPT ![p].ext = "pending", ![p].reg = n, ![p].job = job,
                                ![p].state = "ExternalWaiting"]
      /\ armed' = armed \cup {<<p, n>>} /\ pending' = pending + 1
      /\ UNCHANGED <<next, finished, sched, notices, drain, owed>>
    BY DEF Register
<1>2. /\ phase = "run" /\ current = p /\ tasks[p].ext = "none" /\ p \in Id /\ tasks[p] \in TaskRecord
      /\ tasks[p].state = "Running"
    BY <1>1, ActiveFacts
<1>3. /\ Fresh /\ Table /\ Reactors /\ ExtOK /\ OneTree /\ RootOK /\ tasks \in [Live -> TaskRecord]
    BY Parts DEF Reactors, Table
<1>4. n \in 1..MaxWaits /\ n \in 0..MaxWaits /\ tasks[p].reg \in Nat /\ tasks[p].reg < n
  <2>1. tasks[p].reg \in 0..MaxWaits
    BY <1>2 DEF TaskRecord
  <2> QED BY <1>1, <2>1, TasksAssumption
<1> HIDE DEF n
<1>5. /\ tasks' = [tasks EXCEPT ![p] = tasks'[p]]
      /\ tasks'[p] = [tasks[p] EXCEPT !.ext = "pending", !.reg = n, !.job = job, !.state = "ExternalWaiting"]
    BY <1>1, <1>3
<1>6. tasks'[p] \in TaskRecord
    BY <1>2, <1>4, <1>5 DEF TaskRecord
<1>7. /\ tasks'[p].ext = "pending" /\ tasks'[p].reg = n /\ tasks'[p].state = "ExternalWaiting"
      /\ tasks'[p].parent = tasks[p].parent /\ tasks'[p].children = tasks[p].children
      /\ tasks'[p].returned = tasks[p].returned /\ tasks'[p].cleanups = tasks[p].cleanups
      /\ tasks'[p].waiter = tasks[p].waiter
    BY <1>2, <1>5 DEF TaskRecord
<1>8. tasks' \in [Live -> TaskRecord] /\ \A i \in Live \ {p} : tasks'[i] = tasks[i]
    BY <1>3, <1>5, <1>6
<1>9. SameTree /\ SameEnds /\ \A i \in Live : tasks'[i].waiter \in {None, tasks[i].parent}
    BY <1>2, <1>3, <1>7, <1>8 DEF SameTree, SameEnds, Terminal, OneTree
<1>10. ExtOK'
    BY <1>3, <1>7, <1>8 DEF ExtOK, Live, Terminal
<1>11. RootOK'
    BY <1>3, <1>7, <1>8 DEF RootOK, Live, Terminal
<1>12. pending' = Cardinality(Pendings')
  <2>1. Pendings' = Pendings \cup {p} /\ p \notin Pendings
    BY <1>2, <1>7, <1>8 DEF Pendings, Live
  <2>2. IsFiniteSet(Pendings)
    BY <1>3, Finite DEF Table, Pendings
  <2> QED BY <1>1, <1>3, <2>1, <2>2, FS_AddElement DEF Reactors
<1>13. \A k \in 1..Len(notices) : notices[k] # <<p, n>>
  <2> SUFFICES ASSUME NEW k \in 1..Len(notices), notices[k] = <<p, n>> PROVE FALSE
    OBVIOUS
  <2>1. n <= tasks[p].reg
    BY <1>3 DEF Fresh
  <2> QED BY <1>4, <2>1
<1>14. Silent' = Silent \cup {p} /\ p \notin Silent
  <2>1. p \notin Silent
    BY <1>2 DEF Silent
  <2>2. p \in Silent'
    BY <1>1, <1>7, <1>8, <1>13 DEF Silent, Live
  <2>3. \A j \in Live \ {p} : j \in Silent' <=> j \in Silent
    BY <1>1, <1>8 DEF Silent, Live
  <2>4. Silent \subseteq Live /\ Silent' \subseteq Live
    BY <1>8 DEF Silent, Live
  <2> QED BY <2>1, <2>2, <2>3, <2>4
<1>15. Reactors'
  <2>1. {<<i, tasks[i].reg>> : i \in Silent}' = {<<i, tasks[i].reg>> : i \in Silent} \cup {<<p, n>>}
    <3>1. \A i \in Silent : tasks'[i].reg = tasks[i].reg
      BY <1>8, <1>14 DEF Silent
    <3> QED BY <1>7, <1>14, <3>1
  <2>2. armed' \subseteq Id \X (1..MaxWaits)
    BY <1>1, <1>2, <1>3, <1>4 DEF Reactors
  <2> QED BY <1>1, <1>3, <1>12, <2>1, <2>2 DEF Reactors
<1>16. Fresh'
  <2>1. \A i \in Live : tasks[i].reg \in Nat /\ tasks'[i].reg \in Nat /\ tasks[i].reg <= tasks'[i].reg
    <3>1. \A t \in TaskRecord : t.reg \in Nat
      BY TasksAssumption DEF TaskRecord
    <3>2. \A i \in Live : tasks[i].reg \in Nat /\ tasks'[i].reg \in Nat
      BY <1>3, <1>8, <3>1
    <3>3. tasks[p].reg <= tasks'[p].reg
      BY <1>4, <1>7
    <3>4. \A x \in Nat : x <= x
      OBVIOUS
    <3> QED BY <1>8, <3>2, <3>3, <3>4
  <2>2. \A k \in 1..Len(notices) : notices[k][2] \in Nat
    <3>1. notices \in Seq(Id \X (1..MaxWaits))
      BY <1>3 DEF Reactors
    <3>2. \A k \in 1..Len(notices) : notices[k] \in Id \X (1..MaxWaits)
      BY <3>1, ElementOfSeq
    <3>3. \A x \in Id \X (1..MaxWaits) : x[2] \in Nat
      BY TasksAssumption
    <3> QED BY <3>2, <3>3
  <2>3. \A x, y, z \in Nat : x <= y /\ y <= z => x <= z
    OBVIOUS
  <2>4. \A k \in 1..Len(notices) : notices[k][1] \in Live => notices[k][2] <= tasks'[notices[k][1]].reg
    BY <1>3, <2>1, <2>2, <2>3 DEF Fresh
  <2> QED BY <1>1, <1>3, <1>8, <2>4 DEF Fresh, Live
<1>17. RunOK' /\ DrainOK'
    BY <1>1, <1>9, Parts, KeepDrain DEF sched
<1>18. Lists' /\ Places' /\ (drain \in WorkTypes)'
    BY <1>1, Parts DEF Lists, Places, sched
<1>19. Outcomes /\ Retires
    BY <1>2, <1>8, <1>9 DEF Outcomes, Retires, SameEnds
<1> QED BY <1>8, <1>9, <1>10, <1>11, <1>15, <1>16, <1>17, <1>18, <1>19, TableStep

LEMMA WaitWorkerStep == ASSUME TasksInv, NEW p \in Live, WaitWorker(p) PROVE Good
BY RegisterStep DEF WaitWorker

\* The provider is ready before its notification, or after it.
LEMMA ProviderReadyStep == ASSUME TasksInv, NEW p \in Live, ProviderReady(p) PROVE Good
<1>1. /\ phase = "run" /\ current = p /\ tasks[p].state \in {"Running", "ExternalWaiting"}
      /\ tasks[p].job = "none" /\ CancelWait(p)
      /\ tasks' = [tasks EXCEPT ![p].ext = "none", ![p].state = "Running"]
      /\ UNCHANGED <<next, finished, sched, notices, drain, owed>>
    BY DEF ProviderReady
<1>2. /\ Fresh /\ Table /\ Reactors /\ ExtOK /\ OneTree /\ RootOK /\ tasks \in [Live -> TaskRecord]
      /\ tasks[p] \in TaskRecord
    BY Parts DEF Reactors, Table
<1>3. /\ tasks' = [tasks EXCEPT ![p] = tasks'[p]]
      /\ tasks'[p] = [tasks[p] EXCEPT !.ext = "none", !.state = "Running"]
    BY <1>1, <1>2
<1>4. tasks'[p] \in TaskRecord
    BY <1>2, <1>3 DEF TaskRecord
<1>5. /\ tasks'[p].ext = "none" /\ tasks'[p].reg = tasks[p].reg /\ tasks'[p].state = "Running"
      /\ tasks'[p].parent = tasks[p].parent /\ tasks'[p].children = tasks[p].children
      /\ tasks'[p].returned = tasks[p].returned /\ tasks'[p].cleanups = tasks[p].cleanups
      /\ tasks'[p].waiter = tasks[p].waiter /\ tasks'[p].job = "none"
    BY <1>1, <1>2, <1>3 DEF TaskRecord
<1>6. tasks' \in [Live -> TaskRecord] /\ \A i \in Live \ {p} : tasks'[i] = tasks[i]
    BY <1>2, <1>3, <1>4
<1>7. SameTree /\ SameEnds /\ \A i \in Live : tasks'[i].waiter \in {None, tasks[i].parent}
    BY <1>1, <1>2, <1>5, <1>6 DEF SameTree, SameEnds, Terminal, OneTree
<1>8. ExtOK'
    BY <1>2, <1>5, <1>6 DEF ExtOK, Live, Terminal
<1>9. RootOK'
    BY <1>2, <1>5, <1>6 DEF RootOK, Live, Terminal
<1>10. Reactors' /\ Fresh'
    BY <1>1, <1>2, <1>5, <1>6, CancelWaitFacts
<1>11. RunOK' /\ DrainOK'
    BY <1>1, <1>7, Parts, KeepDrain DEF sched
<1>12. Lists' /\ Places' /\ (drain \in WorkTypes)'
    BY <1>1, Parts DEF Lists, Places, sched
<1>13. Outcomes /\ Retires
    BY <1>1, <1>6, <1>7 DEF Outcomes, Retires, SameEnds
<1> QED BY <1>6, <1>7, <1>8, <1>9, <1>10, <1>11, <1>12, <1>13, TableStep

-----------------------------------------------------------------------------
(* Steps of a drain at the task it retires.                                *)

LEMMA RetiringFacts ==
    ASSUME TasksInv, Retiring # None
    PROVE  /\ phase = "drain" /\ Retiring \in Live /\ drain \in WorkTypes /\ CallerOK /\ StackOK
           /\ tasks[Retiring].children = {} /\ \A j \in Live : tasks[j].parent # Retiring
           /\ drain.work # <<>> => Height > 0 /\ Retiring = Node(Height)
           /\ drain.work = <<>> => drain.then \in {"fault", "cancel"} /\ Retiring = drain.of
<1>1. phase = "drain"
    BY DEF Retiring, Draining
<1>2. CallerOK /\ StackOK /\ drain \in WorkTypes /\ Height \in Nat
    BY <1>1, LenProperties, Parts DEF DrainOK, WorkTypes, Height
<1>3. CASE drain.work # <<>>
  <2>1. Height \in Nat \ {0}
    BY <1>2, <1>3, EmptySeq DEF WorkTypes, Height
  <2>2. Visited(Height) /\ Retiring = Node(Height)
    BY <1>1, <1>3 DEF Retiring, Draining, Top, Last, Visited, Node, Height, None
  <2>3. Height \in 1..Height /\ ~\E m \in Height+1..Height : TRUE
    BY <2>1
  <2>4. Retiring \in Live /\ tasks[Retiring].children = {}
    BY <1>2, <2>2, <2>3 DEF StackOK, StackLive, StackChildren
  <2> QED BY <1>1, <1>2, <1>3, <2>1, <2>2, <2>4, Parts DEF OneTree, Table
<1>4. CASE drain.work = <<>>
  <2>1. drain.then \in {"fault", "cancel"} /\ Retiring = drain.of /\ tasks[Retiring].children = {}
    BY <1>1, <1>4 DEF Retiring, Draining
  <2>2. Retiring \in Live
    BY <1>2, <2>1 DEF CallerOK, Unended
  <2> QED BY <1>1, <1>2, <1>4, <2>1, <2>2, Parts DEF OneTree, Table
<1> QED BY <1>3, <1>4

LEMMA RetireWaitStep == ASSUME TasksInv, NEW failure \in BOOLEAN, RetireWait(failure) PROVE Good
<1>0. PICK id : id = Retiring
    OBVIOUS
<1>1. /\ id # None /\ CancelWait(id) /\ tasks' = [tasks EXCEPT ![id].ext = "none", ![id].job = "none"]
      /\ drain' = [drain EXCEPT !.first = @ \/ failure] /\ UNCHANGED <<next, finished, sched, notices, owed>>
    BY <1>0 DEF RetireWait
<1>2. phase = "drain" /\ id \in Live /\ drain \in WorkTypes
    BY <1>0, <1>1, RetiringFacts
<1>3. /\ Fresh /\ Table /\ Reactors /\ ExtOK /\ OneTree /\ RootOK /\ tasks \in [Live -> TaskRecord]
      /\ tasks[id] \in TaskRecord
    BY <1>2, Parts DEF Reactors, Table
<1>4. /\ tasks' = [tasks EXCEPT ![id] = tasks'[id]]
      /\ tasks'[id] = [tasks[id] EXCEPT !.ext = "none", !.job = "none"]
    BY <1>1, <1>2, <1>3
<1>5. tasks'[id] \in TaskRecord
    BY <1>3, <1>4 DEF TaskRecord
<1>6. /\ tasks'[id].ext = "none" /\ tasks'[id].reg = tasks[id].reg /\ tasks'[id].state = tasks[id].state
      /\ tasks'[id].parent = tasks[id].parent /\ tasks'[id].children = tasks[id].children
      /\ tasks'[id].returned = tasks[id].returned /\ tasks'[id].cleanups = tasks[id].cleanups
      /\ tasks'[id].waiter = tasks[id].waiter /\ tasks'[id].job = "none"
    BY <1>3, <1>4 DEF TaskRecord
<1>7. tasks' \in [Live -> TaskRecord] /\ \A i \in Live \ {id} : tasks'[i] = tasks[i]
    BY <1>3, <1>4, <1>5
<1>8. SameTree /\ SameEnds /\ \A i \in Live : tasks'[i].waiter \in {None, tasks[i].parent}
    BY <1>3, <1>6, <1>7 DEF SameTree, SameEnds, OneTree
<1>9. ExtOK'
    BY <1>3, <1>6, <1>7 DEF ExtOK, Live
<1>10. RootOK'
    BY <1>3, <1>6, <1>7 DEF RootOK, Live
<1>11. Reactors' /\ Fresh'
    BY <1>1, <1>2, <1>3, <1>6, <1>7, CancelWaitFacts
<1>12. drain' \in WorkTypes /\ drain'.work = drain.work /\ drain'.then = drain.then /\ drain'.of = drain.of
    BY <1>1, <1>2 DEF WorkTypes
<1>13. RunOK' /\ DrainOK'
    BY <1>1, <1>8, <1>12, Parts, KeepDrain DEF sched
<1>14. Lists' /\ Places'
    BY <1>1, Parts DEF Lists, Places, sched
<1>15. Outcomes /\ Retires
    BY <1>6, <1>7, <1>8 DEF Outcomes, Retires, SameEnds
<1> QED BY <1>7, <1>8, <1>9, <1>10, <1>11, <1>12, <1>13, <1>14, <1>15, TableStep

\* A drain runs the cleanups of a task after its children are gone and its
\* wait and job are retired.
LEMMA RunCleanupStep == ASSUME TasksInv, NEW failure \in BOOLEAN, RunCleanup(failure) PROVE Good
<1>0. PICK id : id = Retiring
    OBVIOUS
<1>1. /\ id # None /\ Quiet(id) /\ tasks[id].cleanups # <<>>
      /\ tasks' = [tasks EXCEPT ![id].cleanups = Front(@)]
      /\ drain' = [drain EXCEPT !.first = @ \/ failure]
      /\ UNCHANGED <<next, finished, sched, waits, owed>>
    BY <1>0 DEF RunCleanup
<1>2. phase = "drain" /\ id \in Live /\ drain \in WorkTypes /\ \A j \in Live : tasks[j].parent # id
    BY <1>0, <1>1, RetiringFacts
<1>3. /\ Fresh /\ Table /\ Reactors /\ ExtOK /\ OneTree /\ RootOK /\ tasks \in [Live -> TaskRecord]
      /\ tasks[id] \in TaskRecord
    BY <1>2, Parts DEF Reactors, Table
<1> DEFINE q == tasks[id].cleanups
<1>4. q \in Seq({"lexical", "result"}) /\ q # <<>>
    BY <1>1, <1>3 DEF TaskRecord
<1>5. /\ tasks' = [tasks EXCEPT ![id] = tasks'[id]]
      /\ tasks'[id] = [tasks[id] EXCEPT !.cleanups = Front(q)]
    BY <1>1, <1>2, <1>3
<1> HIDE DEF q
<1>6. /\ Front(q) \in Seq({"lexical", "result"})
      /\ \A k \in 1..Len(Front(q)) : k \in 1..Len(q) /\ Front(q)[k] = q[k]
  <2>1. Len(q) \in Nat \ {0}
    BY <1>4, EmptySeq
  <2>2. Front(q) = SubSeq(q, 1, Len(q) - 1)
    BY DEF Front
  <2> QED BY <1>4, <2>1, <2>2
<1>7. tasks'[id] \in TaskRecord
    BY <1>3, <1>5, <1>6 DEF TaskRecord
<1>8. /\ tasks'[id].ext = tasks[id].ext /\ tasks'[id].reg = tasks[id].reg /\ tasks'[id].state = tasks[id].state
      /\ tasks'[id].parent = tasks[id].parent /\ tasks'[id].children = tasks[id].children
      /\ tasks'[id].returned = tasks[id].returned /\ tasks'[id].cleanups = Front(q)
      /\ tasks'[id].waiter = tasks[id].waiter /\ tasks'[id].job = tasks[id].job
    BY <1>3, <1>5 DEF TaskRecord
<1>9. tasks' \in [Live -> TaskRecord] /\ \A i \in Live \ {id} : tasks'[i] = tasks[i]
    BY <1>3, <1>5, <1>7
<1>10. SameTree /\ SameEnds /\ SameWaits /\ \A i \in Live : tasks'[i].waiter \in {None, tasks[i].parent}
    BY <1>3, <1>8, <1>9 DEF SameTree, SameEnds, SameWaits, OneTree
<1>11. ExtOK'
    BY <1>3, <1>8, <1>9 DEF ExtOK, Live
<1>12. RootOK'
  <2>1. CASE id # Root
    BY <1>3, <1>9, <2>1 DEF RootOK, Live
  <2>2. CASE id = Root
    <3>1. tasks[Root].state \notin Terminal /\ \A k \in 1..Len(q) : q[k] = "lexical"
      BY <1>1, <1>2, <1>3, <2>2 DEF RootOK, q
    <3> QED BY <1>2, <1>3, <1>6, <1>8, <2>2, <3>1 DEF RootOK, Live
  <2> QED BY <2>1, <2>2
<1>13. Reactors' /\ Fresh'
    BY <1>1, <1>3, <1>10, KeepReactors DEF SameTree
<1>14. drain' \in WorkTypes /\ drain'.work = drain.work /\ drain'.then = drain.then /\ drain'.of = drain.of
    BY <1>1, <1>2 DEF WorkTypes
<1>15. RunOK' /\ DrainOK'
    BY <1>1, <1>10, <1>14, Parts, KeepDrain DEF sched
<1>16. Lists' /\ Places'
    BY <1>1, Parts DEF Lists, Places, sched
<1>17. Outcomes
    BY <1>8, <1>9 DEF Outcomes
<1>18. Retires
    BY <1>1, <1>2, <1>9 DEF Retires
<1> QED BY <1>9, <1>10, <1>11, <1>12, <1>13, <1>14, <1>15, <1>16, <1>17, <1>18, TableStep

-----------------------------------------------------------------------------
(* Steps that end a task or begin an activation.                           *)

\* All fields of an entry but its state, its group and what it awaits.
Rest(i) ==
    /\ tasks'[i].parent = tasks[i].parent /\ tasks'[i].children = tasks[i].children
    /\ tasks'[i].returned = tasks[i].returned /\ tasks'[i].cleanups = tasks[i].cleanups
    /\ tasks'[i].waiter = tasks[i].waiter
    /\ tasks'[i].ext = tasks[i].ext /\ tasks'[i].reg = tasks[i].reg /\ tasks'[i].job = tasks[i].job

\* finish_resume ends one task and may queue its waiter.
LEMMA FinishFacts ==
    ASSUME TasksInv, NEW id \in Live, NEW outcome \in {"Completed", "Faulted"}, Finish(id, outcome)
    PROVE  /\ tasks' \in [Live -> TaskRecord] /\ \A i \in Live : Rest(i)
           /\ tasks'[id].state = outcome
           /\ \A i \in Live \ {id} : \/ tasks'[i].state = tasks[i].state
                                     \/ tasks'[i].state = "Queued" /\ tasks[i].state \in {"Waiting", "Observing"}
           /\ Lists' /\ current' = None /\ phase' \in {"poll", "fatal"}
<1> DEFINE w  == tasks[id].waiter
           ts == [tasks EXCEPT ![id].state = outcome]
<1>1. /\ tasks \in [Live -> TaskRecord] /\ tasks[id] \in TaskRecord /\ w \in Id \cup {None} /\ w # id
      /\ ready \in Seq(Id) /\ finished \in Seq(Id) /\ id \in Id
  <2>1. w \in {None, tasks[id].parent} /\ tasks[id].parent # id
    BY Parts, NotOwnParent DEF OneTree
  <2>2. id \in Id /\ id # None
    BY Parts DEF Table, Id, None
  <2> QED BY <2>1, <2>2, Parts DEF Table, TaskRecord, Lists
<1>2. /\ ts \in [Live -> TaskRecord] /\ ts[id] = [tasks[id] EXCEPT !.state = outcome]
      /\ \A i \in Live \ {id} : ts[i] = tasks[i]
  <2>1. [tasks[id] EXCEPT !.state = outcome] \in TaskRecord
    BY <1>1 DEF TaskRecord, Terminal
  <2> QED BY <1>1, <2>1
<1>3. finished' \in Seq(Id) /\ current' = None /\ phase' \in {"poll", "fatal"}
    BY <1>1, AppendProperties DEF Finish
<1>4. ready' \in Seq(Id)
  <2>1. w \in Id => Append(ready, w) \in Seq(Id) /\ <<w>> \o ready \in Seq(Id)
    <3>1. \A S : \A x \in S : <<x>> \in Seq(S)
      OBVIOUS
    <3>2. w \in Id => <<w>> \in Seq(Id)
      BY ONLY <3>1
    <3> QED BY <1>1, <3>2, AppendProperties, ConcatProperties
  <2>2. \/ ready' = ready
        \/ w \in Live /\ (ready' = Append(ready, w) \/ ready' = <<w>> \o ready)
    BY DEF Finish, Observed, Awaited
  <2> QED BY <1>1, <2>1, <2>2, Parts DEF Table
<1>5. \/ tasks' = ts
      \/ /\ w \in Live
         /\ \/ tasks' = [ts EXCEPT ![w].noted = @ \cup {id}]
            \/ tasks[w].state = "Observing" /\ tasks' = [ts EXCEPT ![w].noted = @ \cup {id}, ![w].state = "Queued"]
            \/ tasks[w].state = "Waiting" /\ tasks' = [ts EXCEPT ![w].state = "Queued", ![w].on = None]
    BY DEF Finish, Observed, Awaited, Sleeps
<1> HIDE DEF w, ts
<1>6. w \in Live => tasks[w] \in TaskRecord /\ ts[w] = tasks[w] /\ tasks[w].noted \cup {id} \in SUBSET Id
    BY <1>1, <1>2 DEF TaskRecord
<1>7. \/ tasks' = ts
      \/ w \in Live /\ \E t \in TaskRecord :
            /\ tasks' = [ts EXCEPT ![w] = t]
            /\ t.parent = tasks[w].parent /\ t.children = tasks[w].children /\ t.returned = tasks[w].returned
            /\ t.cleanups = tasks[w].cleanups /\ t.waiter = tasks[w].waiter /\ t.ext = tasks[w].ext
            /\ t.reg = tasks[w].reg /\ t.job = tasks[w].job
            /\ \/ t.state = tasks[w].state
               \/ t.state = "Queued" /\ tasks[w].state \in {"Waiting", "Observing"}
  <2> DEFINE a == [tasks[w] EXCEPT !.noted = @ \cup {id}]
             b == [tasks[w] EXCEPT !.noted = @ \cup {id}, !.state = "Queued"]
             c == [tasks[w] EXCEPT !.state = "Queued", !.on = None]
  <2>1. w \in Live => a \in TaskRecord /\ b \in TaskRecord /\ c \in TaskRecord
    <3>1. w \in Live => a \in TaskRecord
      BY <1>6 DEF TaskRecord
    <3>2. w \in Live => b \in TaskRecord
      BY <1>6 DEF TaskRecord
    <3>3. w \in Live => c \in TaskRecord
      BY <1>6 DEF TaskRecord
    <3> QED BY <3>1, <3>2, <3>3
  <2>2. \/ tasks' = ts
        \/ w \in Live /\ tasks' = [ts EXCEPT ![w] = a]
        \/ w \in Live /\ tasks[w].state = "Observing" /\ tasks' = [ts EXCEPT ![w] = b]
        \/ w \in Live /\ tasks[w].state = "Waiting" /\ tasks' = [ts EXCEPT ![w] = c]
    BY <1>2, <1>5, <1>6
  <2>3. CASE w \in Live /\ tasks' = [ts EXCEPT ![w] = a]
    <3>1. /\ a.parent = tasks[w].parent /\ a.children = tasks[w].children
          /\ a.returned = tasks[w].returned /\ a.cleanups = tasks[w].cleanups
          /\ a.waiter = tasks[w].waiter /\ a.ext = tasks[w].ext /\ a.reg = tasks[w].reg
          /\ a.job = tasks[w].job /\ a.state = tasks[w].state
      BY <1>6, <2>3 DEF TaskRecord
    <3>2. a \in TaskRecord
      BY <2>1, <2>3
    <3> HIDE DEF a
    <3> QED BY <2>3, <3>1, <3>2
  <2>4. CASE w \in Live /\ tasks[w].state = "Observing" /\ tasks' = [ts EXCEPT ![w] = b]
    <3>1. /\ b.parent = tasks[w].parent /\ b.children = tasks[w].children
          /\ b.returned = tasks[w].returned /\ b.cleanups = tasks[w].cleanups
          /\ b.waiter = tasks[w].waiter /\ b.ext = tasks[w].ext /\ b.reg = tasks[w].reg
          /\ b.job = tasks[w].job /\ b.state = "Queued"
      BY <1>6, <2>4 DEF TaskRecord
    <3>2. b \in TaskRecord
      BY <2>1, <2>4
    <3> HIDE DEF b
    <3> QED BY <2>4, <3>1, <3>2
  <2>5. CASE w \in Live /\ tasks[w].state = "Waiting" /\ tasks' = [ts EXCEPT ![w] = c]
    <3>1. /\ c.parent = tasks[w].parent /\ c.children = tasks[w].children
          /\ c.returned = tasks[w].returned /\ c.cleanups = tasks[w].cleanups
          /\ c.waiter = tasks[w].waiter /\ c.ext = tasks[w].ext /\ c.reg = tasks[w].reg
          /\ c.job = tasks[w].job /\ c.state = "Queued"
      BY <1>6, <2>5 DEF TaskRecord
    <3>2. c \in TaskRecord
      BY <2>1, <2>5
    <3> HIDE DEF c
    <3> QED BY <2>5, <3>1, <3>2
  <2> QED BY <2>2, <2>3, <2>4, <2>5
<1>8. /\ tasks' \in [Live -> TaskRecord] /\ tasks'[id] = ts[id]
      /\ \A i \in Live \ {id} : /\ Rest(i)
                               /\ \/ tasks'[i].state = tasks[i].state
                                  \/ tasks'[i].state = "Queued" /\ tasks[i].state \in {"Waiting", "Observing"}
  <2>1. CASE tasks' = ts
    BY <1>2, <2>1 DEF Rest
  <2>2. CASE tasks' # ts
    BY <1>1, <1>2, <1>7, <2>2 DEF Rest
  <2> QED BY <2>1, <2>2
<1>9. Rest(id) /\ tasks'[id].state = outcome
    BY <1>1, <1>2, <1>8 DEF Rest, TaskRecord
<1> QED BY <1>3, <1>4, <1>8, <1>9 DEF Lists

\* A task ends without children of its own in a drain, with the ones it
\* returns otherwise, and never with a wait.
LEMMA FinishStep ==
    ASSUME TasksInv, NEW id \in Live, NEW outcome \in {"Completed", "Faulted"}, Finish(id, outcome),
           Unended(id), Quiet(id),
           id = Root => tasks[id].children = {} /\ tasks[id].cleanups = <<>>,
           UNCHANGED <<next, waits, owed>>, drain' \in WorkTypes
    PROVE  Good
<1>1. /\ tasks' \in [Live -> TaskRecord] /\ \A i \in Live : Rest(i)
      /\ tasks'[id].state = outcome
      /\ \A i \in Live \ {id} : \/ tasks'[i].state = tasks[i].state
                                \/ tasks'[i].state = "Queued" /\ tasks[i].state \in {"Waiting", "Observing"}
      /\ Lists' /\ current' = None /\ phase' \in {"poll", "fatal"}
    BY FinishFacts
<1>2. SameTree /\ SameWaits /\ \A i \in Live : tasks'[i].waiter \in {None, tasks[i].parent}
    BY <1>1, Parts DEF SameTree, SameWaits, Rest, OneTree
<1>3. Reactors' /\ Fresh'
    BY <1>2, Parts, KeepReactors DEF SameTree
<1>4. ExtOK'
    BY <1>1, Parts DEF ExtOK, Rest, Live, Quiet, Terminal
<1>5. RootOK'
  <2>1. CASE id = Root
    BY <1>1, <2>1, Parts DEF RootOK, Rest, Live
  <2>2. CASE id # Root
    BY <1>1, <2>2, Parts DEF RootOK, Rest, Live, Terminal
  <2> QED BY <2>1, <2>2
<1>6. RunOK' /\ DrainOK'
    BY <1>1 DEF RunOK, DrainOK
<1>7. Places'
    BY <1>1, Parts DEF Places, Phases
<1>8. Outcomes
    BY <1>1 DEF Outcomes, Unended, Terminal
<1>9. Retires
    BY <1>1 DEF Retires, Rest
<1> QED BY <1>1, <1>2, <1>3, <1>4, <1>5, <1>6, <1>7, <1>8, <1>9, TableStep

LEMMA CompleteStep == ASSUME TasksInv, NEW p \in Live, Complete(p) PROVE Good
<1>1. /\ Unended(p) /\ Quiet(p) /\ tasks[p] \in TaskRecord
    BY ActiveFacts DEF Complete, Quiet
<1>2. p = Root => tasks[p].children = {} /\ tasks[p].cleanups = <<>>
  <2> HAVE p = Root
  <2>1. tasks[p].children \in SUBSET Id /\ tasks[p].cleanups \in Seq({"lexical", "result"})
    BY <1>1 DEF TaskRecord
  <2>2. tasks[p].children = {}
    BY <2>1, Parts, Finite, FS_EmptySet DEF Complete, RootOK
  <2>3. \A k \in 1..Len(tasks[p].cleanups) : FALSE
    BY Parts DEF Complete, RootOK
  <2>4. Len(tasks[p].cleanups) \in Nat /\ ~(Len(tasks[p].cleanups) \in Nat \ {0})
    BY <2>1, <2>3, LenProperties
  <2>5. tasks[p].cleanups = <<>>
    BY <2>1, <2>4, EmptySeq
  <2> QED BY <2>2, <2>5
<1> QED BY <1>1, <1>2, Parts, FinishStep DEF Complete

LEMMA NoDrainType == NoDrain \in WorkTypes
<1>1. <<>> \in Seq(Id \X BOOLEAN)
    OBVIOUS
<1> QED BY <1>1 DEF NoDrain, WorkTypes

LEMMA FinishFaultStep == ASSUME TasksInv, FinishFault PROVE Good
<1>1. PICK id : id = drain.of
    OBVIOUS
<1>2. /\ Retiring # None /\ Quiet(Retiring) /\ tasks[Retiring].cleanups = <<>>
      /\ drain.work = <<>> /\ drain.then = "fault" /\ Finish(id, "Faulted") /\ drain' = NoDrain
      /\ UNCHANGED <<next, waits, owed>>
    BY <1>1 DEF FinishFault, Retired
<1>3. Retiring = id /\ tasks[id].children = {} /\ id \in Live /\ CallerOK
    BY <1>1, <1>2, RetiringFacts
<1>4. Unended(id)
    BY <1>1, <1>2, <1>3 DEF CallerOK
<1> QED BY <1>2, <1>3, <1>4, NoDrainType, FinishStep

LEMMA FinishCancelStep == ASSUME TasksInv, FinishCancel PROVE Good
<1>1. PICK id : id = drain.of
    OBVIOUS
<1>2. PICK outcome \in {"Faulted", "Cancelled"} : outcome = IF drain.first THEN "Faulted" ELSE "Cancelled"
    OBVIOUS
<1>3. /\ Retiring # None /\ Quiet(Retiring) /\ tasks[Retiring].cleanups = <<>>
      /\ drain.work = <<>> /\ drain.then = "cancel" /\ tasks' = [tasks EXCEPT ![id].state = outcome]
      /\ finished' = Append(finished, id) /\ phase' = "run" /\ drain' = NoDrain
      /\ UNCHANGED <<next, ready, current, waits, owed>>
    BY <1>1, <1>2 DEF FinishCancel, Retired
<1>4. Retiring = id /\ tasks[id].children = {} /\ id \in Live /\ CallerOK
    BY <1>1, <1>3, RetiringFacts
<1>5. Unended(id) /\ Unended(current) /\ tasks[id].parent = current /\ current # id
    BY <1>1, <1>3, <1>4, Parts, NotOwnParent DEF CallerOK
<1>6. tasks \in [Live -> TaskRecord] /\ tasks[id] \in TaskRecord /\ id \in Id
    BY <1>4, Parts DEF Table
<1>7. /\ tasks' = [tasks EXCEPT ![id] = tasks'[id]]
      /\ tasks'[id] = [tasks[id] EXCEPT !.state = outcome]
    BY <1>3, <1>4, <1>6
<1>8. tasks'[id] \in TaskRecord
    BY <1>6, <1>7 DEF TaskRecord, Terminal
<1>9. Rest(id) /\ tasks'[id].state = outcome
    BY <1>6, <1>7 DEF TaskRecord, Rest
<1>10. tasks' \in [Live -> TaskRecord] /\ \A i \in Live \ {id} : tasks'[i] = tasks[i]
    BY <1>6, <1>7, <1>8
<1>11. \A i \in Live : Rest(i)
    BY <1>9, <1>10 DEF Rest
<1>12. SameTree /\ SameWaits /\ \A i \in Live : tasks'[i].waiter \in {None, tasks[i].parent}
    BY <1>10, <1>11, Parts DEF SameTree, SameWaits, Rest, OneTree
<1>13. Reactors' /\ Fresh'
    BY <1>3, <1>12, Parts, KeepReactors DEF SameTree
<1>14. ExtOK'
    BY <1>3, <1>4, <1>9, <1>10, Parts DEF ExtOK, Rest, Live, Quiet, Terminal
<1>15. RootOK'
    BY <1>3, <1>4, <1>9, <1>10, <1>11, Parts DEF RootOK, Rest, Live
<1>16. RunOK' /\ DrainOK'
    BY <1>3, <1>5, <1>10 DEF RunOK, DrainOK, Unended, Live
<1>17. Lists' /\ Places' /\ drain' \in WorkTypes
    BY <1>3, <1>6, Parts, NoDrainType, AppendProperties DEF Lists, Places, Phases
<1>18. Outcomes
    BY <1>5, <1>10 DEF Outcomes, Unended
<1>19. Retires
    BY <1>10, <1>11 DEF Retires, Rest
<1> QED BY <1>10, <1>12, <1>13, <1>14, <1>15, <1>16, <1>17, <1>18, <1>19, TableStep

\* A resumed task was queued, so it has not ended.
LEMMA PickTaskStep == ASSUME TasksInv, PickTask PROVE Good
<1>1. PICK k \in Entries :
        /\ ready' = SubSeq(ready, k + 1, Len(ready))
        /\ IF tasks[ready[k]].state = "Queued"
           THEN /\ tasks' = [tasks EXCEPT ![ready[k]].state = "Running"]
                /\ current' = ready[k] /\ phase' = "run"
           ELSE phase' = "fatal" /\ UNCHANGED <<tasks, current>>
    BY DEF PickTask
<1>2. phase = "pick" /\ UNCHANGED <<next, finished, waits, drain, owed>>
    BY DEF PickTask
<1>3. PICK id \in Live : id = ready[k]
    BY DEF Entries
<1>4. ready \in Seq(Id) /\ k \in 1..Len(ready) /\ tasks \in [Live -> TaskRecord] /\ tasks[id] \in TaskRecord
      /\ id \in Id
    BY Parts DEF Entries, Lists, Table
<1>5. ready' \in Seq(Id)
    BY <1>1, <1>4
<1>6. CASE tasks[id].state # "Queued"
  <2>1. phase' = "fatal" /\ UNCHANGED <<tasks, current>>
    BY <1>1, <1>3, <1>6
  <2>2. phase' \in Phases \ {"start", "run", "drain"} /\ current' \in Id \cup {None}
    BY <2>1, Parts DEF Phases, Places
  <2> QED BY <1>2, <1>5, <2>1, <2>2, PlainStep
<1>7. CASE tasks[id].state = "Queued"
  <2>1. tasks' = [tasks EXCEPT ![id].state = "Running"] /\ current' = id /\ phase' = "run"
    BY <1>1, <1>3, <1>7
  <2>2. /\ tasks' = [tasks EXCEPT ![id] = tasks'[id]]
        /\ tasks'[id] = [tasks[id] EXCEPT !.state = "Running"]
    BY <1>4, <2>1
  <2>3. tasks'[id] \in TaskRecord
    BY <1>4, <2>2 DEF TaskRecord
  <2>4. Rest(id) /\ tasks'[id].state = "Running"
    BY <1>4, <2>2 DEF TaskRecord, Rest
  <2>5. tasks' \in [Live -> TaskRecord] /\ \A i \in Live \ {id} : tasks'[i] = tasks[i]
    BY <1>4, <2>2, <2>3
  <2>6. \A i \in Live : Rest(i)
    BY <2>4, <2>5 DEF Rest
  <2>7. SameTree /\ SameWaits /\ \A i \in Live : tasks'[i].waiter \in {None, tasks[i].parent}
    BY <2>5, <2>6, Parts DEF SameTree, SameWaits, Rest, OneTree
  <2>8. Reactors' /\ Fresh'
    BY <1>2, <2>7, Parts, KeepReactors DEF SameTree
  <2>9. ExtOK'
    BY <1>7, <2>4, <2>5, Parts DEF ExtOK, Rest, Live, Terminal
  <2>10. RootOK'
    BY <2>4, <2>5, <2>6, Parts DEF RootOK, Rest, Live, Terminal
  <2>11. RunOK' /\ DrainOK'
    BY <2>1, <2>4, <2>5 DEF RunOK, DrainOK, Unended, Live, Terminal
  <2>12. Lists' /\ Places' /\ (drain \in WorkTypes)'
    BY <1>2, <1>4, <1>5, <2>1, Parts DEF Lists, Places, Phases
  <2>13. Outcomes /\ Retires
    BY <1>2, <1>7, <2>5 DEF Outcomes, Retires, Terminal
  <2> QED BY <2>5, <2>7, <2>8, <2>9, <2>10, <2>11, <2>12, <2>13, TableStep
<1> QED BY <1>6, <1>7

\* The child to cancel has not ended, and its own subtree is drained first.
LEMMA CancelBeginStep == ASSUME TasksInv, NEW p \in Live, NEW c \in Live, CancelBegin(p, c) PROVE Good
<1>1. /\ phase = "run" /\ tasks[p] \in TaskRecord /\ tasks[c] \in TaskRecord /\ c # p /\ c # Root
      /\ tasks[c].parent = p /\ c \in Id /\ p \in Id /\ Unended(p) /\ current = p
    BY ActiveFacts, ChildFacts DEF CancelBegin, Cancellable
<1>2. /\ tasks[c].state \notin Terminal /\ tasks' = [Unobserved(c) EXCEPT ![c].waiter = p, ![c].job = "none"]
      /\ Begin("cancel", c, <<>>, FALSE) /\ owed' = c /\ UNCHANGED <<next, finished, ready, current, waits>>
    BY DEF CancelBegin
<1>3. /\ tasks \in [Live -> TaskRecord] /\ Unobserved(c) = [tasks EXCEPT ![p] = Unobserved(c)[p]]
      /\ Unobserved(c)[p] \in TaskRecord /\ Unobserved(c)[c] = tasks[c]
      /\ \A f \in DOMAIN tasks[p] \ {"members", "noted"} : Unobserved(c)[p][f] = tasks[p][f]
    BY Parts, UnobservedFacts DEF CancelBegin, Table
<1>4. /\ tasks' = [tasks EXCEPT ![p] = tasks'[p], ![c] = tasks'[c]]
      /\ tasks'[p] = Unobserved(c)[p]
      /\ tasks'[c] = [tasks[c] EXCEPT !.waiter = p, !.job = "none"]
    BY <1>1, <1>2, <1>3
<1>5. Rest(p) /\ tasks'[p].state = tasks[p].state
  <2>1. tasks'[p] \in TaskRecord
    BY <1>3, <1>4
  <2>2. \A f \in DOMAIN tasks[p] \ {"members", "noted"} : tasks'[p][f] = tasks[p][f]
    BY <1>3, <1>4
  <2> QED BY <1>1, <2>1, <2>2 DEF Rest, TaskRecord
<1>6. tasks'[c] \in TaskRecord
    BY <1>1, <1>4 DEF TaskRecord
<1>7. /\ tasks'[c].parent = p /\ tasks'[c].children = tasks[c].children /\ tasks'[c].state = tasks[c].state
      /\ tasks'[c].ext = tasks[c].ext /\ tasks'[c].reg = tasks[c].reg /\ tasks'[c].job = "none"
      /\ tasks'[c].waiter = p
    BY <1>1, <1>4 DEF TaskRecord
<1>8. tasks' \in [Live -> TaskRecord] /\ \A i \in Live \ {p, c} : tasks'[i] = tasks[i]
    BY <1>3, <1>4, <1>6
<1>9. SameTree /\ SameWaits /\ \A i \in Live : tasks'[i].waiter \in {None, tasks[i].parent}
    BY <1>1, <1>5, <1>7, <1>8, Parts DEF SameTree, SameWaits, Rest, OneTree
<1>10. Reactors' /\ Fresh'
    BY <1>2, <1>9, Parts, KeepReactors DEF SameTree
<1>11. ExtOK'
    BY <1>5, <1>7, <1>8, Parts DEF ExtOK, Rest, Live
<1>12. RootOK'
    BY <1>1, <1>5, <1>8, Parts DEF RootOK, Rest, Live
<1>13. /\ phase' = "drain" /\ drain'.work = <<>> /\ drain'.then = "cancel" /\ drain'.of = c
       /\ drain' \in WorkTypes
  <2>1. <<>> \in Seq(Id \X BOOLEAN)
    OBVIOUS
  <2> QED BY <1>1, <1>2, <2>1 DEF Begin, WorkTypes
<1>14. RunOK' /\ DrainOK'
  <2>1. StackOK'
    BY <1>13, EmptyStack
  <2>2. CallerOK'
    BY <1>1, <1>2, <1>5, <1>7, <1>8, <1>13 DEF CallerOK, Unended, Live
  <2> QED BY <1>13, <2>1, <2>2 DEF RunOK, DrainOK
<1>15. Lists' /\ Places'
    BY <1>1, <1>2, <1>13, Parts DEF Lists, Places, Phases
<1>16. Outcomes /\ Retires
    BY <1>1, <1>5, <1>7, <1>8 DEF Outcomes, Retires
<1> QED BY <1>8, <1>9, <1>10, <1>11, <1>12, <1>13, <1>14, <1>15, <1>16, TableStep

\* A worker that completed first ends its wrapper as it would have.
LEMMA CancelLateStep ==
    ASSUME TasksInv, NEW p \in Live, NEW c \in Live, NEW outcome \in {"Completed", "Faulted"},
           CancelLate(p, c, outcome)
    PROVE  Good
<1>1. /\ phase = "run" /\ tasks[p] \in TaskRecord /\ tasks[c] \in TaskRecord /\ c # p /\ c # Root
      /\ tasks[c].parent = p /\ c \in Id /\ p \in Id /\ Unended(p) /\ current = p
    BY ActiveFacts, ChildFacts DEF CancelLate, Cancellable
<1>2. /\ tasks[c].state \notin Terminal
      /\ tasks' = [Unobserved(c) EXCEPT ![c].waiter = p, ![c].ext = "none", ![c].job = "none", ![c].state = outcome]
      /\ ready' = Unlist(ready, c) /\ CancelWait(c) /\ finished' = Append(finished, c) /\ owed' = c
      /\ UNCHANGED <<next, current, phase, notices, drain>>
    BY DEF CancelLate
<1>3. /\ tasks \in [Live -> TaskRecord] /\ Unobserved(c) = [tasks EXCEPT ![p] = Unobserved(c)[p]]
      /\ Unobserved(c)[p] \in TaskRecord /\ Unobserved(c)[c] = tasks[c]
      /\ \A f \in DOMAIN tasks[p] \ {"members", "noted"} : Unobserved(c)[p][f] = tasks[p][f]
    BY Parts, UnobservedFacts DEF CancelLate, Table
<1>4. /\ tasks' = [tasks EXCEPT ![p] = tasks'[p], ![c] = tasks'[c]]
      /\ tasks'[p] = Unobserved(c)[p]
      /\ tasks'[c] = [tasks[c] EXCEPT !.waiter = p, !.ext = "none", !.job = "none", !.state = outcome]
    BY <1>1, <1>2, <1>3
<1>5. Rest(p) /\ tasks'[p].state = tasks[p].state
  <2>1. tasks'[p] \in TaskRecord
    BY <1>3, <1>4
  <2>2. \A f \in DOMAIN tasks[p] \ {"members", "noted"} : tasks'[p][f] = tasks[p][f]
    BY <1>3, <1>4
  <2> QED BY <1>1, <2>1, <2>2 DEF Rest, TaskRecord
<1>6. tasks'[c] \in TaskRecord
  <2>1. outcome \in Terminal /\ p \in Id \cup {None}
    BY <1>1 DEF Terminal
  <2> QED BY <1>1, <1>4, <2>1 DEF TaskRecord
<1>7. /\ tasks'[c].parent = p /\ tasks'[c].children = tasks[c].children /\ tasks'[c].state = outcome
      /\ tasks'[c].ext = "none" /\ tasks'[c].reg = tasks[c].reg /\ tasks'[c].job = "none"
      /\ tasks'[c].waiter = p
    BY <1>1, <1>4 DEF TaskRecord
<1>8. tasks' \in [Live -> TaskRecord] /\ \A i \in Live \ {p, c} : tasks'[i] = tasks[i]
    BY <1>3, <1>4, <1>6
<1>9. SameTree /\ \A i \in Live : tasks'[i].waiter \in {None, tasks[i].parent}
    BY <1>1, <1>5, <1>7, <1>8, Parts DEF SameTree, Rest, OneTree
<1>10. Reactors' /\ Fresh'
    BY <1>2, <1>5, <1>7, <1>8, Parts, CancelWaitFacts DEF Rest
<1>11. ExtOK'
    BY <1>5, <1>7, <1>8, Parts DEF ExtOK, Rest, Live
<1>12. RootOK'
    BY <1>1, <1>5, <1>8, Parts DEF RootOK, Rest, Live
<1>13. RunOK' /\ DrainOK'
    BY <1>1, <1>2, <1>5, <1>8 DEF RunOK, DrainOK, Unended, Live
<1>14. Lists' /\ Places' /\ (drain \in WorkTypes)'
    BY <1>1, <1>2, Parts, UnlistType, AppendProperties DEF Lists, Places
<1>15. Outcomes /\ Retires
    BY <1>1, <1>2, <1>5, <1>8 DEF Outcomes, Retires
<1> QED BY <1>8, <1>9, <1>10, <1>11, <1>12, <1>13, <1>14, <1>15, TableStep

-----------------------------------------------------------------------------
(* Calls that change the tree.                                             *)

LEMMA TreeStep ==
    ASSUME Table', Lists', Places', (drain \in WorkTypes)', Reactors', Fresh', ExtOK', OneTree', RootOK',
           RunOK', DrainOK', Outcomes, Retires
    PROVE  Good
BY TypePartsNext DEF TasksInv, Good

\* A new task has an identity no task and no notification ever had.
LEMMA CreateStep == ASSUME TasksInv, NEW p \in Live, Create(p) PROVE Good
<1>1. PICK n : n = next + 1
    OBVIOUS
<1>2. /\ Active(p) /\ next < MaxTasks /\ next' = n
      /\ tasks' = [i \in Live \cup {n} |->
                      IF i = n THEN NewTask(p)
                      ELSE IF i = p THEN [tasks[p] EXCEPT !.children = @ \cup {n}]
                      ELSE tasks[i]]
      /\ ready' = Append(ready, n)
      /\ UNCHANGED <<finished, current, phase, waits, drain, owed>>
    BY <1>1 DEF Create
<1>3. /\ phase = "run" /\ current = p /\ tasks[p].state = "Running" /\ p \in Id /\ tasks[p] \in TaskRecord
    BY <1>2, ActiveFacts
<1>4. /\ Fresh /\ Table /\ Reactors /\ ExtOK /\ OneTree /\ RootOK /\ Lists /\ Places
      /\ tasks \in [Live -> TaskRecord] /\ Live \subseteq Id
    BY Parts DEF Table
<1>5. n \in Id /\ n \in Nat /\ next \in Nat /\ next < n /\ \A i \in Live : i \in Nat /\ i <= next
    BY <1>1, <1>2, <1>4, TasksAssumption DEF Places, Id, Fresh
<1>6. n \notin Live /\ n # p /\ n # Root /\ p # None /\ n # None
  <2>1. Root <= next
    BY <1>4, <1>5, TasksAssumption DEF Places, Id, Root
  <2> QED BY <1>3, <1>5, <2>1 DEF Root, None, Id
<1>7. /\ DOMAIN tasks' = Live \cup {n} /\ tasks'[n] = NewTask(p)
      /\ tasks'[p] = [tasks[p] EXCEPT !.children = @ \cup {n}]
      /\ \A i \in Live \ {p} : tasks'[i] = tasks[i]
    BY <1>2, <1>6
<1>8. tasks'[n] \in TaskRecord
  <2>1. <<>> \in Seq({"lexical", "result"}) /\ 0 \in 0..MaxWaits /\ 0 \in Nat
    BY TasksAssumption
  <2> QED BY <1>3, <1>7, <2>1 DEF NewTask, TaskRecord
<1>9. /\ tasks'[n].parent = p /\ tasks'[n].children = {} /\ tasks'[n].ext = "none" /\ tasks'[n].job = "none"
      /\ tasks'[n].state = "Queued" /\ tasks'[n].waiter = None
    BY <1>7 DEF NewTask
<1>10. tasks'[p] \in TaskRecord
  <2>1. tasks[p].children \cup {n} \in SUBSET Id
    BY <1>3, <1>5 DEF TaskRecord
  <2> QED BY <1>3, <1>7, <2>1 DEF TaskRecord
<1>12. /\ tasks'[p].children = tasks[p].children \cup {n} /\ tasks'[p].state = tasks[p].state
       /\ tasks'[p].parent = tasks[p].parent /\ tasks'[p].waiter = tasks[p].waiter
       /\ tasks'[p].ext = tasks[p].ext /\ tasks'[p].reg = tasks[p].reg /\ tasks'[p].job = tasks[p].job
       /\ tasks'[p].returned = tasks[p].returned /\ tasks'[p].cleanups = tasks[p].cleanups
    BY <1>3, <1>7 DEF TaskRecord
<1>13. \A i \in Live : /\ tasks'[i].parent = tasks[i].parent /\ tasks'[i].waiter = tasks[i].waiter
                       /\ tasks'[i].ext = tasks[i].ext /\ tasks'[i].reg = tasks[i].reg
                       /\ tasks'[i].job = tasks[i].job /\ tasks'[i].state = tasks[i].state
                       /\ tasks'[i].returned = tasks[i].returned /\ tasks'[i].cleanups = tasks[i].cleanups
    BY <1>7, <1>12
<1>14. Table'
  <2>1. \A i \in DOMAIN tasks' : tasks'[i] \in TaskRecord
    BY <1>4, <1>7, <1>8, <1>10
  <2>2. tasks' = [i \in DOMAIN tasks' |-> tasks'[i]]
    BY <1>2
  <2> QED BY <1>4, <1>5, <1>7, <2>1, <2>2 DEF Table, Live
<1>15. Lists' /\ Places' /\ (drain \in WorkTypes)'
    BY <1>2, <1>4, <1>5, Parts, AppendProperties DEF Lists, Places
<1>16. ExtOK'
    BY <1>4, <1>7, <1>9, <1>13 DEF ExtOK, Live, Terminal
<1>17. OneTree'
  <2>1. \A i \in Live \cup {n} : \A c \in Id :
            c \in tasks'[i].children <=> c \in Live \cup {n} /\ tasks'[c].parent = i
    <3> TAKE i \in Live \cup {n}
    <3> TAKE c \in Id
    <3>1. CASE i = n
      <4>1. \A j \in Live : tasks[j].parent # n
        BY <1>4, <1>6 DEF OneTree, RootOK
      <4> QED BY <1>6, <1>9, <1>13, <3>1, <4>1
    <3>2. CASE i # n /\ c = n
      <4>1. i \in Live /\ n \notin tasks[i].children
        BY <1>4, <1>5, <1>6, <3>2 DEF OneTree
      <4> QED BY <1>7, <1>9, <1>12, <3>2, <4>1
    <3>3. CASE i # n /\ c # n
      <4>1. i \in Live /\ (c \in tasks'[i].children <=> c \in tasks[i].children)
        BY <1>7, <1>12, <3>3
      <4>2. c \in tasks[i].children <=> c \in Live /\ tasks[c].parent = i
        BY <1>4, <4>1 DEF OneTree
      <4> QED BY <1>13, <3>3, <4>1, <4>2
    <3> QED BY <3>1, <3>2, <3>3
  <2>2. \A i \in (Live \cup {n}) \ {Root} : tasks'[i].parent \in Live \cup {n}
    BY <1>4, <1>9, <1>13 DEF OneTree
  <2>3. \A S \in SUBSET ((Live \cup {n}) \ {Root}) : S # {} => \E i \in S : tasks'[i].parent \notin S
    <3> SUFFICES ASSUME NEW S \in SUBSET ((Live \cup {n}) \ {Root}), S # {}
                 PROVE  \E i \in S : tasks'[i].parent \notin S
      OBVIOUS
    <3>1. CASE S = {n}
      BY <1>6, <1>9, <3>1
    <3>2. CASE S # {n}
      <4>1. S \ {n} \in SUBSET (Live \ {Root}) /\ S \ {n} # {}
        BY <3>2
      <4>2. PICK i \in S \ {n} : tasks[i].parent \notin S \ {n}
        BY <1>4, <4>1 DEF OneTree
      <4>3. i \in Live /\ tasks[i].parent # n
        BY <1>4, <1>6, <4>1, <4>2 DEF OneTree
      <4> QED BY <1>13, <4>2, <4>3
    <3> QED BY <3>1, <3>2
  <2>4. \A i \in Live \cup {n} : tasks'[i].waiter \in {None, tasks'[i].parent}
    BY <1>4, <1>9, <1>13 DEF OneTree
  <2> QED BY <1>7, <2>1, <2>2, <2>3, <2>4 DEF OneTree, Live
<1>18. RootOK'
  <2> SUFFICES ASSUME Root \in Live PROVE RootOK'
    BY <1>6, <1>7 DEF RootOK, Live
  <2>1. Root = p => tasks'[Root].state \notin Terminal
    BY <1>3, <1>12 DEF Terminal
  <2>2. Root # p => tasks'[Root] = tasks[Root]
    BY <1>7
  <2> QED BY <1>4, <1>13, <2>1, <2>2 DEF RootOK
<1>19. Reactors'
  <2>1. Pendings' = Pendings
    BY <1>7, <1>9, <1>13 DEF Pendings, Live
  <2>2. Silent' = Silent
    <3>1. n \notin Silent' /\ n \notin Silent /\ notices' = notices
      BY <1>2, <1>6, <1>9 DEF Silent, waits
    <3>2. \A i \in Live : i \in Silent' <=> i \in Silent
      BY <1>7, <1>13, <3>1 DEF Silent, Live
    <3>3. Silent \subseteq Live /\ Silent' \subseteq Live \cup {n}
      BY <1>7 DEF Silent, Live
    <3> QED BY <3>1, <3>2, <3>3
  <2>3. {<<i, tasks[i].reg>> : i \in Silent}' = {<<i, tasks[i].reg>> : i \in Silent}
    <3>1. \A i \in Silent : tasks'[i].reg = tasks[i].reg
      BY <1>13 DEF Silent
    <3> QED BY <2>2, <3>1
  <2> QED BY <1>2, <1>4, <2>1, <2>3 DEF Reactors, waits
<1>20. Fresh'
  <2>1. \A i \in Live \cup {n} : i <= n
    BY <1>5
  <2>2. notices' = notices /\ \A k \in 1..Len(notices) : notices[k][1] \in Nat
    <3>1. notices \in Seq(Id \X (1..MaxWaits))
      BY <1>4 DEF Reactors
    <3>2. \A k \in 1..Len(notices) : notices[k] \in Id \X (1..MaxWaits)
      BY <3>1, ElementOfSeq
    <3>3. \A x \in Id \X (1..MaxWaits) : x[1] \in Nat
      BY DEF Id
    <3> QED BY <1>2, <3>2, <3>3 DEF waits
  <2>3. \A k \in 1..Len(notices) : notices[k][1] <= next /\ notices[k][1] <= n /\ notices[k][1] # n
    BY <1>4, <1>5, <2>2 DEF Fresh
  <2>4. \A k \in 1..Len(notices) : notices[k][1] \in Live => notices[k][2] <= tasks'[notices[k][1]].reg
    BY <1>4, <1>13 DEF Fresh
  <2> QED BY <1>2, <1>7, <2>1, <2>2, <2>3, <2>4 DEF Fresh, Live
<1>21. RunOK' /\ DrainOK'
    BY <1>2, <1>3, <1>7, <1>13 DEF RunOK, DrainOK, Unended, Live, Terminal
<1>22. Outcomes /\ Retires
    BY <1>3, <1>7, <1>13 DEF Outcomes, Retires
<1> QED BY <1>14, <1>15, <1>16, <1>17, <1>18, <1>19, <1>20, <1>21, <1>22, TreeStep

\* Some children of one task become the children of another.
Moves(moved, from, to) ==
    /\ DOMAIN tasks' = Live
    /\ \A i \in Live :
         /\ tasks'[i].parent = IF i \in moved THEN to ELSE tasks[i].parent
         /\ tasks'[i].children = IF i = from THEN tasks[i].children \ moved
                                 ELSE IF i = to THEN tasks[i].children \cup moved ELSE tasks[i].children
         /\ tasks'[i].waiter = tasks[i].waiter /\ tasks'[i].state = tasks[i].state
         /\ tasks'[i].ext = tasks[i].ext /\ tasks'[i].reg = tasks[i].reg /\ tasks'[i].job = tasks[i].job
         /\ tasks'[i].returned = tasks[i].returned

\* A move between a task and its child, in either direction, keeps the tree.
LEMMA MovedTree ==
    ASSUME TasksInv, NEW moved \in SUBSET Live, NEW from \in Live, NEW to \in Live, from # to,
           from \notin moved, to \notin moved, \A i \in moved : tasks[i].parent = from /\ tasks[i].waiter = None,
           tasks[to].parent = from \/ tasks[from].parent = to, Moves(moved, from, to)
    PROVE  OneTree'
<1>1. OneTree /\ RootOK /\ Live \subseteq Id /\ 0 \notin Id
    BY Parts DEF Table, Id
<1>2. Root \notin moved
    BY <1>1 DEF RootOK, None
<1>3. \A i \in Live : \A c \in Id : c \in tasks'[i].children <=> c \in Live /\ tasks'[c].parent = i
  <2> TAKE i \in Live
  <2> TAKE c \in Id
  <2>1. c \in tasks[i].children <=> c \in Live /\ tasks[c].parent = i
    BY <1>1 DEF OneTree
  <2>2. CASE c \in moved
    <3>1. c \in Live /\ tasks'[c].parent = to /\ tasks[c].parent = from
      BY <2>2 DEF Moves
    <3>2. tasks'[i].children = IF i = from THEN tasks[i].children \ moved
                               ELSE IF i = to THEN tasks[i].children \cup moved ELSE tasks[i].children
      BY DEF Moves
    <3> QED BY <2>1, <2>2, <3>1, <3>2
  <2>3. CASE c \notin moved
    <3>1. c \in tasks'[i].children <=> c \in tasks[i].children
      <4>1. tasks'[i].children = IF i = from THEN tasks[i].children \ moved
                                 ELSE IF i = to THEN tasks[i].children \cup moved ELSE tasks[i].children
        BY Zenon DEF Moves
      <4> QED BY <2>3, <4>1
    <3>2. c \in Live => tasks'[c].parent = tasks[c].parent
      BY <2>3 DEF Moves
    <3> QED BY <2>1, <3>1, <3>2
  <2> QED BY <2>2, <2>3
<1>4. \A i \in Live \ {Root} : tasks'[i].parent \in Live
    BY <1>1 DEF OneTree, Moves
<1>5. \A S \in SUBSET (Live \ {Root}) : S # {} => \E i \in S : tasks'[i].parent \notin S
  <2> SUFFICES ASSUME NEW S \in SUBSET (Live \ {Root}), S # {} PROVE \E i \in S : tasks'[i].parent \notin S
    OBVIOUS
  <2>1. PICK i \in S : tasks[i].parent \notin S
    BY <1>1 DEF OneTree
  <2>2. CASE i \notin moved
    BY <2>1, <2>2 DEF Moves
  <2>3. CASE i \in moved /\ to \notin S
    BY <2>1, <2>3 DEF Moves
  <2>4. CASE i \in moved /\ to \in S /\ tasks[to].parent = from
    <3>1. tasks'[to].parent = tasks[to].parent /\ tasks[i].parent = from
      BY <2>4 DEF Moves
    <3> QED BY <2>1, <2>4, <3>1
  <2>5. CASE i \in moved /\ to \in S /\ tasks[from].parent = to
    <3>1. from # Root
      BY <1>1, <2>5 DEF RootOK, None
    <3>2. S \cup {from} \in SUBSET (Live \ {Root}) /\ S \cup {from} # {}
      BY <3>1
    <3>3. PICK j \in S \cup {from} : tasks[j].parent \notin S \cup {from}
      BY <1>1, <3>2 DEF OneTree
    <3>4. j \in S /\ j \notin moved
      BY <2>5, <3>3
    <3> QED BY <3>3, <3>4 DEF Moves
  <2> QED BY <2>2, <2>3, <2>4, <2>5
<1>6. \A i \in Live : tasks'[i].waiter \in {None, tasks'[i].parent}
  <2> TAKE i \in Live
  <2>1. tasks'[i].waiter = tasks[i].waiter /\ tasks[i].waiter \in {None, tasks[i].parent}
    BY <1>1 DEF OneTree, Moves
  <2>2. CASE i \in moved
    BY <2>1, <2>2
  <2>3. CASE i \notin moved
    BY <2>1, <2>3 DEF Moves
  <2> QED BY <2>2, <2>3
<1> QED BY <1>3, <1>4, <1>5, <1>6 DEF OneTree, Moves, Live

LEMMA MoveStep ==
    ASSUME TasksInv, phase = "run", NEW moved \in SUBSET Live, NEW from \in Live, NEW to \in Live, from # to,
           from \notin moved, to \notin moved, \A i \in moved : tasks[i].parent = from /\ tasks[i].waiter = None,
           tasks[to].parent = from \/ tasks[from].parent = to, Moves(moved, from, to),
           tasks' \in [Live -> TaskRecord], tasks[to].state \notin Terminal,
           Root \in Live => tasks'[Root].cleanups = tasks[Root].cleanups,
           UNCHANGED <<next, finished, sched, waits, drain, owed>>
    PROVE  Good
<1>1. OneTree'
    BY MovedTree
<1>2. Reactors' /\ Fresh'
  <2>1. SameWaits
    BY DEF SameWaits, Moves
  <2> QED BY <2>1, Parts, KeepReactors
<1>3. ExtOK'
  <2>1. \A i \in Live : /\ tasks'[i].state = tasks[i].state /\ tasks'[i].ext = tasks[i].ext
                        /\ tasks'[i].job = tasks[i].job
    BY DEF Moves
  <2>2. ExtOK /\ DOMAIN tasks' = Live
    BY Parts
  <2> QED BY <2>1, <2>2 DEF ExtOK, Live
<1>4. RootOK'
  <2> SUFFICES ASSUME Root \in Live PROVE RootOK'
    BY DEF RootOK, Live
  <2>1. RootOK /\ 0 \notin Id /\ from \in Id
    BY Parts DEF Id, Table
  <2>2. Root \notin moved
    BY <2>1 DEF RootOK, None
  <2>3. /\ tasks'[Root].parent = tasks[Root].parent /\ tasks'[Root].returned = tasks[Root].returned
        /\ tasks'[Root].state = tasks[Root].state
    BY <2>2 DEF Moves
  <2>4. tasks[Root].state \in Terminal => tasks'[Root].children \subseteq tasks[Root].children
    BY DEF Moves
  <2> QED BY <2>1, <2>3, <2>4 DEF RootOK
<1>5. RunOK' /\ DrainOK'
    BY Parts DEF RunOK, DrainOK, Unended, Moves, Live, sched
<1>6. Table' /\ Lists' /\ Places' /\ (drain \in WorkTypes)'
    BY Parts DEF Table, Lists, Places, Live, sched
<1>7. Outcomes /\ Retires
    BY DEF Outcomes, Retires, Moves
<1> QED BY <1>1, <1>2, <1>3, <1>4, <1>5, <1>6, <1>7, TreeStep

Rearranged(ts, moved, from, to) ==
    \A i \in Live :
        /\ ts[i].parent = IF i \in moved THEN to ELSE tasks[i].parent
        /\ ts[i].children = IF i = from THEN tasks[i].children \ moved
                            ELSE IF i = to THEN tasks[i].children \cup moved ELSE tasks[i].children
        /\ \A f \in {"waiter", "state", "ext", "reg", "job", "returned", "cleanups"} : ts[i][f] = tasks[i][f]

LEMMA ReparentFacts ==
    ASSUME TasksInv, NEW moved \in SUBSET Live, NEW from \in Live, NEW to \in Live, from # to,
           from \notin moved, to \notin moved, NEW ts, ts = Reparent(tasks, moved, from, to)
    PROVE  ts \in [Live -> TaskRecord] /\ Rearranged(ts, moved, from, to)
<1>1. tasks \in [Live -> TaskRecord] /\ Live \subseteq Id
    BY Parts DEF Table
<1>2. DOMAIN ts = Live /\ ts = [i \in Live |-> ts[i]]
    BY DEF Reparent, Live
<1>3. ASSUME NEW i \in Live
      PROVE  /\ ts[i] \in TaskRecord
             /\ ts[i].parent = IF i \in moved THEN to ELSE tasks[i].parent
             /\ ts[i].children = IF i = from THEN tasks[i].children \ moved
                                 ELSE IF i = to THEN tasks[i].children \cup moved ELSE tasks[i].children
             /\ \A f \in {"waiter", "state", "ext", "reg", "job", "returned", "cleanups"} : ts[i][f] = tasks[i][f]
  <2>1. tasks[i] \in TaskRecord
    BY <1>1
  <2>2. CASE i = from
    <3>1. ts[i] = [tasks[i] EXCEPT !.children = @ \ moved]
      BY <2>2 DEF Reparent, Live
    <3>2. ts[i] \in TaskRecord
      BY <2>1, <3>1 DEF TaskRecord
    <3> QED BY <2>1, <2>2, <3>1, <3>2 DEF TaskRecord
  <2>3. CASE i = to
    <3>1. ts[i] = [tasks[i] EXCEPT !.children = @ \cup moved]
      BY <2>3 DEF Reparent, Live
    <3>2. ts[i] \in TaskRecord
      <4>1. tasks[i].children \cup moved \in SUBSET Id
        BY <1>1, <2>1 DEF TaskRecord
      <4> QED BY <2>1, <3>1, <4>1 DEF TaskRecord
    <3>3. ts[i].parent = tasks[i].parent /\ ts[i].children = tasks[i].children \cup moved
      BY <2>1, <3>1 DEF TaskRecord
    <3>4. \A f \in {"waiter", "state", "ext", "reg", "job", "returned", "cleanups"} : ts[i][f] = tasks[i][f]
      BY <2>1, <3>1 DEF TaskRecord
    <3> QED BY <2>3, <3>2, <3>3, <3>4
  <2>4. CASE i \in moved
    <3>1. ts[i] = [tasks[i] EXCEPT !.parent = to, !.handed = FALSE]
      BY <2>4 DEF Reparent, Live
    <3>2. ts[i] \in TaskRecord
      BY <1>1, <2>1, <3>1 DEF TaskRecord
    <3> QED BY <2>1, <2>4, <3>1, <3>2 DEF TaskRecord
  <2>5. CASE i # from /\ i # to /\ i \notin moved
    BY <2>1, <2>5 DEF Reparent, Live
  <2> QED BY <2>2, <2>3, <2>4, <2>5
<1> QED BY <1>2, <1>3 DEF Rearranged

LEMMA AdoptStep ==
    ASSUME TasksInv, NEW p \in Live, NEW callee \in Live, NEW c \in Live, Adopt(p, callee, c) PROVE Good
<1>1. /\ Active(p) /\ Child(p, callee) /\ Child(p, c) /\ callee # c /\ tasks[callee].state = "Queued"
      /\ tasks[c].waiter = None /\ tasks' = Reparent(tasks, {c}, p, callee)
      /\ UNCHANGED <<next, finished, sched, waits, drain, owed>>
    BY DEF Adopt
<1>2. /\ phase = "run" /\ c # p /\ callee # p /\ tasks[c].parent = p /\ tasks[callee].parent = p
      /\ {c} \in SUBSET Live /\ p \notin {c} /\ callee \notin {c}
    BY <1>1, ActiveFacts, ChildFacts
<1>3. tasks' \in [Live -> TaskRecord] /\ Rearranged(tasks', {c}, p, callee)
    BY <1>1, <1>2, ReparentFacts
<1>4. Moves({c}, p, callee)
  <2>1. DOMAIN tasks' = Live
    BY <1>3
  <2> QED BY <1>3, <2>1 DEF Moves, Rearranged
<1>5. Root \in Live => tasks'[Root].cleanups = tasks[Root].cleanups
    BY <1>3 DEF Rearranged
<1>6. tasks[callee].state \notin Terminal
    BY <1>1 DEF Terminal
<1> QED BY <1>1, <1>2, <1>3, <1>4, <1>5, <1>6, MoveStep

\* The tasks in a result move up to the task that extracts it.
LEMMA ResultStep == ASSUME TasksInv, NEW p \in Live, NEW c \in Live, Result(p, c) PROVE Good
<1>1. PICK moved : moved = tasks[c].children
    OBVIOUS
<1>2. PICK ts : ts = Reparent(tasks, moved, c, p)
    OBVIOUS
<1>3. /\ Active(p) /\ Child(p, c) /\ \A r \in moved : tasks[r].waiter = None
      /\ tasks' = [ts EXCEPT ![c].extracted = TRUE, ![c].cleanups = <<>>]
      /\ UNCHANGED <<next, finished, sched, waits, drain, owed>>
    BY <1>1, <1>2 DEF Result
<1>4. /\ phase = "run" /\ c # p /\ c # Root /\ tasks[c].parent = p /\ tasks[p].state = "Running"
    BY <1>3, ActiveFacts, ChildFacts
<1>5. /\ moved \in SUBSET Live /\ c \notin moved /\ p \notin moved /\ \A i \in moved : tasks[i].parent = c
  <2>1. tasks[c] \in TaskRecord /\ OneTree
    BY Parts DEF Table
  <2>2. moved \in SUBSET Id
    BY <1>1, <2>1 DEF TaskRecord
  <2>3. \A i \in moved : i \in Live /\ tasks[i].parent = c
    BY <1>1, <2>1, <2>2 DEF OneTree
  <2>4. tasks[c].parent # c /\ tasks[p].parent # c
    BY <1>4, Parts, NotOwnParent, NoCycle
  <2> QED BY <2>3, <2>4
<1>6. ts \in [Live -> TaskRecord] /\ Rearranged(ts, moved, c, p)
    BY <1>2, <1>4, <1>5, ReparentFacts
<1>7. /\ tasks' = [ts EXCEPT ![c] = tasks'[c]]
      /\ tasks'[c] = [ts[c] EXCEPT !.extracted = TRUE, !.cleanups = <<>>]
    BY <1>3, <1>6
<1>8. ts[c] \in TaskRecord
    BY <1>6
<1>9. tasks'[c] \in TaskRecord
  <2>1. <<>> \in Seq({"lexical", "result"})
    OBVIOUS
  <2> QED BY <1>7, <1>8, <2>1 DEF TaskRecord
<1>10. /\ tasks'[c].parent = ts[c].parent /\ tasks'[c].children = ts[c].children
       /\ \A f \in {"waiter", "state", "ext", "reg", "job", "returned"} : tasks'[c][f] = ts[c][f]
    BY <1>7, <1>8 DEF TaskRecord
<1>11. tasks' \in [Live -> TaskRecord] /\ \A i \in Live \ {c} : tasks'[i] = ts[i]
    BY <1>6, <1>7, <1>9
<1>12. Moves(moved, c, p)
  <2>1. DOMAIN tasks' = Live
    BY <1>11
  <2>2. \A i \in Live :
          /\ tasks'[i].parent = ts[i].parent /\ tasks'[i].children = ts[i].children
          /\ \A f \in {"waiter", "state", "ext", "reg", "job", "returned"} : tasks'[i][f] = ts[i][f]
    BY <1>10, <1>11
  <2>3. \A i \in Live :
          /\ ts[i].parent = IF i \in moved THEN p ELSE tasks[i].parent
          /\ ts[i].children = IF i = c THEN tasks[i].children \ moved
                              ELSE IF i = p THEN tasks[i].children \cup moved ELSE tasks[i].children
    BY <1>6, Zenon DEF Rearranged
  <2>4. \A i \in Live : \A f \in {"waiter", "state", "ext", "reg", "job", "returned"} : ts[i][f] = tasks[i][f]
    <3>1. \A i \in Live : \A f \in {"waiter", "state", "ext", "reg", "job", "returned", "cleanups"} :
              ts[i][f] = tasks[i][f]
      BY <1>6, Zenon DEF Rearranged
    <3> QED BY <3>1
  <2>5. \A i \in Live : \A f \in {"waiter", "state", "ext", "reg", "job", "returned"} : tasks'[i][f] = tasks[i][f]
    BY <2>2, <2>4
  <2>6. \A i \in Live : tasks'[i].parent = ts[i].parent /\ tasks'[i].children = ts[i].children
    BY <2>2
  <2>7. \A i \in Live :
         /\ tasks'[i].waiter = tasks[i].waiter /\ tasks'[i].state = tasks[i].state
         /\ tasks'[i].ext = tasks[i].ext /\ tasks'[i].reg = tasks[i].reg /\ tasks'[i].job = tasks[i].job
         /\ tasks'[i].returned = tasks[i].returned
    BY <2>5
  <2>8. \A i \in Live :
          /\ tasks'[i].parent = IF i \in moved THEN p ELSE tasks[i].parent
          /\ tasks'[i].children = IF i = c THEN tasks[i].children \ moved
                                  ELSE IF i = p THEN tasks[i].children \cup moved ELSE tasks[i].children
    BY <2>3, <2>6, Zenon
  <2> QED BY <2>1, <2>7, <2>8, Zenon DEF Moves
<1>13. Root \in Live => tasks'[Root].cleanups = tasks[Root].cleanups
    BY <1>4, <1>6, <1>11 DEF Rearranged
<1>14. tasks[p].state \notin Terminal
    BY <1>4 DEF Terminal
<1> QED BY <1>3, <1>4, <1>5, <1>11, <1>12, <1>13, <1>14, MoveStep

-----------------------------------------------------------------------------
(* Steps that free a frame.                                                *)

\* The task x leaves the table; its parent forgets it and nothing else
\* changes.
Leaves(x) ==
    /\ DOMAIN tasks' = Live \ {x}
    /\ \A i \in Live \ {x} :
         /\ tasks'[i].parent = tasks[i].parent /\ tasks'[i].children = tasks[i].children \ {x}
         /\ tasks'[i].waiter = tasks[i].waiter /\ tasks'[i].state = tasks[i].state
         /\ tasks'[i].ext = tasks[i].ext /\ tasks'[i].reg = tasks[i].reg /\ tasks'[i].job = tasks[i].job
         /\ tasks'[i].returned = tasks[i].returned /\ tasks'[i].cleanups = tasks[i].cleanups

\* A task without children, waits, a job and cleanups may go.
LEMMA LeaveStep ==
    ASSUME TasksInv, NEW x \in Live, Leaves(x), \A i \in Live \ {x} : tasks'[i] \in TaskRecord,
           tasks' = [i \in DOMAIN tasks' |-> tasks'[i]],
           \A j \in Live : tasks[j].parent # x, Quiet(x), tasks[x].cleanups = <<>>,
           Lists', Places', (drain \in WorkTypes)', RunOK', DrainOK', UNCHANGED <<next, waits>>
    PROVE  Good
<1>1. OneTree /\ RootOK /\ ExtOK /\ Fresh /\ Reactors /\ Table /\ Live \subseteq Id
    BY Parts DEF Table
<1>2. OneTree'
  <2>1. \A i \in Live \ {x} : \A c \in Id : c \in tasks'[i].children <=> c \in Live \ {x} /\ tasks'[c].parent = i
    <3> TAKE i \in Live \ {x}
    <3> TAKE c \in Id
    <3>1. c \in tasks[i].children <=> c \in Live /\ tasks[c].parent = i
      BY <1>1 DEF OneTree
    <3>2. tasks'[i].children = tasks[i].children \ {x}
      BY DEF Leaves
    <3>3. c \in Live \ {x} => tasks'[c].parent = tasks[c].parent
      BY DEF Leaves
    <3> QED BY <3>1, <3>2, <3>3
  <2>2. \A i \in (Live \ {x}) \ {Root} : tasks'[i].parent \in Live \ {x}
    BY <1>1 DEF OneTree, Leaves
  <2>3. \A S \in SUBSET ((Live \ {x}) \ {Root}) : S # {} => \E i \in S : tasks'[i].parent \notin S
    <3> SUFFICES ASSUME NEW S \in SUBSET ((Live \ {x}) \ {Root}), S # {}
                 PROVE  \E i \in S : tasks'[i].parent \notin S
      OBVIOUS
    <3>1. S \in SUBSET (Live \ {Root})
      OBVIOUS
    <3>2. PICK i \in S : tasks[i].parent \notin S
      BY <1>1, <3>1 DEF OneTree
    <3> QED BY <3>2 DEF Leaves
  <2>4. \A i \in Live \ {x} : tasks'[i].waiter \in {None, tasks'[i].parent}
    BY <1>1 DEF OneTree, Leaves
  <2>5. Live' = Live \ {x}
    BY DEF Leaves, Live
  <2> QED BY <2>1, <2>2, <2>3, <2>4, <2>5 DEF OneTree
<1>3. Table'
    BY <1>1 DEF Table, Leaves, Live
<1>4. Live' = Live \ {x} /\ notices' = notices /\ armed' = armed /\ pending' = pending /\ next' = next
    BY DEF Leaves, Live, waits
<1>5. \A i \in Live \ {x} : tasks'[i].ext = tasks[i].ext /\ tasks'[i].reg = tasks[i].reg
    BY DEF Leaves
<1>6. tasks[x].ext # "pending"
    BY DEF Quiet
<1>7. Reactors'
  <2>1. Pendings' = Pendings
    BY <1>4, <1>5, <1>6 DEF Pendings
  <2>2. Silent' = Silent
    <3>1. x \notin Silent /\ x \notin Silent'
      BY <1>4, <1>6 DEF Silent
    <3>2. \A i \in Live \ {x} : i \in Silent' <=> i \in Silent
      BY <1>4, <1>5 DEF Silent
    <3>3. Silent \subseteq Live /\ Silent' \subseteq Live
      BY <1>4 DEF Silent
    <3> QED BY <3>1, <3>2, <3>3
  <2>3. {<<i, tasks[i].reg>> : i \in Silent}' = {<<i, tasks[i].reg>> : i \in Silent}
    <3>1. \A i \in Silent : tasks'[i].reg = tasks[i].reg
      BY <1>5, <1>6 DEF Silent
    <3> QED BY <2>2, <3>1
  <2> QED BY <1>1, <1>4, <2>1, <2>3 DEF Reactors
<1>8. Fresh'
    BY <1>1, <1>4, <1>5 DEF Fresh
<1>9. ExtOK'
  <2>1. \A i \in Live \ {x} : /\ tasks'[i].ext = tasks[i].ext /\ tasks'[i].job = tasks[i].job
                              /\ tasks'[i].state = tasks[i].state
    BY DEF Leaves
  <2> QED BY <1>1, <1>4, <2>1 DEF ExtOK
<1>10. RootOK'
  <2> SUFFICES ASSUME Root \in Live \ {x} PROVE RootOK'
    BY <1>4 DEF RootOK
  <2>1. /\ tasks'[Root].parent = tasks[Root].parent /\ tasks'[Root].returned = tasks[Root].returned
        /\ tasks'[Root].cleanups = tasks[Root].cleanups /\ tasks'[Root].state = tasks[Root].state
        /\ tasks'[Root].children = tasks[Root].children \ {x}
    BY DEF Leaves
  <2> QED BY <1>1, <2>1 DEF RootOK
<1>11. Outcomes
    BY DEF Outcomes, Leaves
<1>12. Retires
  <2>1. \A i \in Live \ {x} : i \in DOMAIN tasks' /\ tasks'[i].cleanups = tasks[i].cleanups
    BY DEF Leaves
  <2>2. x \notin DOMAIN tasks'
    BY DEF Leaves
  <2> QED BY <2>1, <2>2 DEF Retires
<1> QED BY <1>2, <1>3, <1>7, <1>8, <1>9, <1>10, <1>11, <1>12, TreeStep

LEMMA ReleaseStep == ASSUME TasksInv, NEW p \in Live, NEW c \in Live, Release(p, c) PROVE Good
<1>1. /\ Active(p) /\ Child(p, c) /\ tasks[c].state \in Terminal
      /\ tasks[c].children = {} /\ tasks[c].cleanups = <<>>
      /\ tasks' = [i \in Live \ {c} |-> IF i = p THEN [tasks[p] EXCEPT !.children = @ \ {c}] ELSE tasks[i]]
      /\ finished' = Unlist(finished, c) /\ owed' = (IF owed = c THEN None ELSE owed)
      /\ UNCHANGED <<next, sched, waits, drain>>
    BY DEF Release
<1>2. /\ phase = "run" /\ current = p /\ c # p /\ c # Root /\ tasks[c].parent = p /\ c \in Id /\ Unended(p)
      /\ tasks[p] \in TaskRecord
    BY <1>1, ActiveFacts, ChildFacts
<1>3. /\ OneTree /\ ExtOK /\ tasks \in [Live -> TaskRecord] /\ Live \subseteq Id
      /\ Lists /\ Places /\ drain \in WorkTypes
    BY Parts DEF Table
<1>4. Quiet(c) /\ \A j \in Live : tasks[j].parent # c
    BY <1>1, <1>3 DEF Quiet, ExtOK, OneTree
<1>5. /\ DOMAIN tasks' = Live \ {c} /\ tasks'[p] = [tasks[p] EXCEPT !.children = @ \ {c}]
      /\ \A i \in Live \ {c, p} : tasks'[i] = tasks[i]
      /\ tasks' = [i \in DOMAIN tasks' |-> tasks'[i]]
    BY <1>1, <1>2
<1>6. tasks'[p] \in TaskRecord
  <2>1. tasks[p].children \ {c} \in SUBSET Id
    BY <1>2 DEF TaskRecord
  <2> QED BY <1>2, <1>5, <2>1 DEF TaskRecord
<1>7. \A i \in Live \ {c} : tasks'[i] \in TaskRecord
    BY <1>3, <1>5, <1>6
<1>8. /\ tasks'[p].children = tasks[p].children \ {c}
      /\ tasks'[p].parent = tasks[p].parent
      /\ tasks'[p].waiter = tasks[p].waiter /\ tasks'[p].state = tasks[p].state
      /\ tasks'[p].ext = tasks[p].ext /\ tasks'[p].reg = tasks[p].reg /\ tasks'[p].job = tasks[p].job
      /\ tasks'[p].returned = tasks[p].returned /\ tasks'[p].cleanups = tasks[p].cleanups
    BY <1>2, <1>5 DEF TaskRecord
<1>9. \A i \in Live \ {c, p} : tasks[i].children \ {c} = tasks[i].children
    BY <1>2, <1>3 DEF OneTree
<1>10. Leaves(c)
    BY <1>5, <1>8, <1>9 DEF Leaves
<1>11. RunOK' /\ DrainOK'
    BY <1>1, <1>2, <1>5, <1>8 DEF RunOK, DrainOK, Unended, Live, sched
<1>12. Lists' /\ Places' /\ (drain \in WorkTypes)'
    BY <1>1, <1>3, UnlistType DEF Lists, Places, sched
<1> QED BY <1>1, <1>4, <1>5, <1>7, <1>10, <1>11, <1>12, LeaveStep

\* The root ends after everything it owns.
LEMMA PickRootStep == ASSUME TasksInv, PickRoot PROVE Good
<1>1. /\ phase = "pick" /\ tasks[Root].state \in Terminal /\ phase' \in {"done", "fatal"}
      /\ tasks' = [i \in Live \ {Root} |-> tasks[i]]
      /\ finished' = Unlist(finished, Root) /\ ready' = <<>>
      /\ UNCHANGED <<next, current, waits, drain, owed>>
    BY DEF PickRoot, RootDone, Terminal
<1>2. Lists' /\ Places' /\ (drain \in WorkTypes)' /\ RunOK' /\ DrainOK'
  <2>1. Root \in Id /\ <<>> \in Seq(Id)
    BY TasksAssumption DEF Root, Id
  <2> QED BY <1>1, <2>1, Parts, UnlistType DEF Lists, Places, Phases, RunOK, DrainOK
<1>3. CASE Root \notin Live
  <2>1. Live = {}
    BY <1>3, RootLives
  <2>2. tasks' = tasks
    BY <1>1, <2>1, Parts DEF Table, Live
  <2>3. Reactors' /\ Fresh'
    BY <1>1, <2>2, Parts, KeepReactors DEF SameWaits, Live
  <2>4. Table' /\ ExtOK' /\ OneTree' /\ RootOK' /\ Outcomes /\ Retires
    BY <2>1, <2>2, Parts DEF Table, ExtOK, OneTree, RootOK, Outcomes, Retires, Live
  <2> QED BY <1>2, <2>3, <2>4, TreeStep
<1>4. CASE Root \in Live
  <2>1. tasks[Root].children = {} /\ tasks[Root].cleanups = <<>> /\ Quiet(Root)
    BY <1>1, <1>4, Parts DEF RootOK, ExtOK, Quiet
  <2>2. \A j \in Live : tasks[j].parent # Root
    BY <1>4, <2>1, Parts DEF OneTree, Table
  <2>3. Leaves(Root)
    <3>1. \A i \in Live : tasks[i].children \ {Root} = tasks[i].children
      <4>1. tasks[Root].parent = 0 /\ 0 \notin Live /\ Root \in Id
        BY <1>4, Parts DEF RootOK, None, Table, Id
      <4> QED BY <4>1, Parts DEF OneTree
    <3> QED BY <1>1, <3>1 DEF Leaves
  <2>4. \A i \in Live \ {Root} : tasks'[i] \in TaskRecord
    BY <1>1, Parts DEF Table
  <2>5. tasks' = [i \in DOMAIN tasks' |-> tasks'[i]]
    BY <1>1
  <2> QED BY <1>1, <1>2, <1>4, <2>1, <2>2, <2>3, <2>4, <2>5, LeaveStep
<1> QED BY <1>3, <1>4

\* cancel_tree frees a task after everything below it, and never the task
\* whose call runs it.
LEMMA RemoveTaskStep == ASSUME TasksInv, RemoveTask PROVE Good
<1>1. PICK id : id = Retiring
    OBVIOUS
<1>2. /\ id # None /\ Retiring # None /\ Quiet(id) /\ tasks[id].cleanups = <<>> /\ drain.work # <<>>
      /\ tasks' = Removed(tasks, id) /\ finished' = Unlist(finished, id)
      /\ drain' = [drain EXCEPT !.work = Front(@)] /\ owed' = (IF owed = id THEN None ELSE owed)
      /\ UNCHANGED <<next, sched, waits>>
    BY <1>1 DEF RemoveTask, Retired
<1>3. PICK n : n = Height
    OBVIOUS
<1>4. /\ phase = "drain" /\ id \in Live /\ drain \in WorkTypes /\ CallerOK /\ StackOK
      /\ \A j \in Live : tasks[j].parent # id
      /\ n > 0 /\ id = Node(n)
    BY <1>1, <1>2, <1>3, RetiringFacts
<1>5. OneTree /\ tasks \in [Live -> TaskRecord] /\ Live \subseteq Id /\ Lists /\ Places
    BY Parts DEF Table
<1>6. ASSUME NEW i \in Live \ {id}
      PROVE  /\ tasks'[i] \in TaskRecord
             /\ tasks'[i].parent = tasks[i].parent /\ tasks'[i].children = tasks[i].children \ {id}
             /\ tasks'[i].waiter = tasks[i].waiter /\ tasks'[i].state = tasks[i].state
             /\ tasks'[i].ext = tasks[i].ext /\ tasks'[i].reg = tasks[i].reg /\ tasks'[i].job = tasks[i].job
             /\ tasks'[i].returned = tasks[i].returned /\ tasks'[i].cleanups = tasks[i].cleanups
  <2>1. tasks[i] \in TaskRecord
    BY <1>5
  <2>2. CASE i = tasks[id].parent
    <3>1. tasks'[i] = [tasks[i] EXCEPT !.children = @ \ {id}, !.members = @ \ {id}, !.noted = @ \ {id}]
      BY <1>2, <2>2 DEF Removed, Live
    <3>2. tasks'[i] \in TaskRecord
      <4>1. /\ tasks[i].children \ {id} \in SUBSET Id /\ tasks[i].members \ {id} \in SUBSET Id
            /\ tasks[i].noted \ {id} \in SUBSET Id
        BY <2>1 DEF TaskRecord
      <4> QED BY <2>1, <3>1, <4>1 DEF TaskRecord
    <3> QED BY <2>1, <3>1, <3>2 DEF TaskRecord
  <2>3. CASE i # tasks[id].parent
    <3>1. tasks'[i] = tasks[i]
      BY <1>2, <2>3 DEF Removed, Live
    <3>2. id \notin tasks[i].children
      BY <1>4, <1>5, <2>3 DEF OneTree
    <3> QED BY <2>1, <3>1, <3>2
  <2> QED BY <2>2, <2>3
<1>7. DOMAIN tasks' = Live \ {id} /\ tasks' = [i \in DOMAIN tasks' |-> tasks'[i]]
    BY <1>2 DEF Removed, Live
<1>8. Leaves(id)
    BY <1>6, <1>7 DEF Leaves
<1>9. /\ drain' \in WorkTypes /\ drain'.then = drain.then /\ drain'.of = drain.of
      /\ n \in Nat /\ Len(drain'.work) = n - 1 /\ \A k \in 1..n-1 : drain'.work[k] = drain.work[k]
  <2> DEFINE q == drain.work
  <2>1. q \in Seq(Id \X BOOLEAN) /\ Len(q) \in Nat \ {0} /\ n = Len(q)
    BY <1>2, <1>3, <1>4, EmptySeq DEF WorkTypes, Height
  <2>2. Front(q) = SubSeq(q, 1, Len(q) - 1)
    BY DEF Front
  <2>3. drain'.work = Front(q) /\ drain'.then = drain.then /\ drain'.of = drain.of
    BY <1>2, <1>4 DEF WorkTypes
  <2> HIDE DEF q
  <2>4. Front(q) \in Seq(Id \X BOOLEAN) /\ Len(Front(q)) = n - 1 /\ \A k \in 1..n-1 : Front(q)[k] = q[k]
    BY <2>1, <2>2
  <2>5. drain' = [drain EXCEPT !.work = Front(q)]
    BY <1>2 DEF q
  <2>6. drain' \in WorkTypes
    BY <1>4, <2>4, <2>5 DEF WorkTypes
  <2> QED BY <2>1, <2>3, <2>4, <2>6 DEF q
<1>10. current' = current /\ phase' = phase /\ ready' = ready
    BY <1>2 DEF sched
<1>11. Anchors' = Anchors /\ Base' = Base /\ id \notin Anchors
  <2>1. n \in 1..n
    BY <1>4, <1>9
  <2> QED BY <1>3, <1>4, <1>9, <1>10, <2>1 DEF Anchors, Base, StackOK, StackLive
<1>12. CallerOK'
  <2>1. drain.then # "abandon" => drain.of # id /\ current # id
    BY <1>11 DEF Anchors
  <2>2. \A i \in Live \ {id} : tasks'[i].state = tasks[i].state /\ tasks'[i].parent = tasks[i].parent
    BY <1>6
  <2>3. Live' = Live \ {id}
    BY <1>7 DEF Live
  <2> QED BY <1>4, <1>9, <1>10, <2>1, <2>2, <2>3 DEF CallerOK, Unended
<1>13. StackOK'
  <2>1. /\ Height' = n - 1
        /\ \A k \in 1..n-1 : Node(k)' = Node(k) /\ Visited(k)' = Visited(k)
    BY <1>9 DEF Height, Node, Visited
  <2>2. \A k \in 1..n-1 : k \in 1..n /\ k # n
    BY <1>9
  <2>3. n \in 1..n
    BY <1>4, <1>9
  <2>4. \A k \in 1..n-1 : Node(k) \in Live \ {id} /\ Node(k) \notin Anchors
    BY <1>3, <1>4, <2>2, <2>3 DEF StackOK, StackLive, StackOnce
  <2>5. \A k \in 1..n-1 : /\ tasks'[Node(k)].parent = tasks[Node(k)].parent
                          /\ tasks'[Node(k)].children = tasks[Node(k)].children \ {id}
    BY <1>6, <2>4
  <2>6. StackLive'
    BY <1>7, <1>11, <2>1, <2>4 DEF StackLive, Live
  <2>7. StackOnce'
    BY <1>3, <1>4, <2>1, <2>2 DEF StackOK, StackOnce
  <2>8. StackBase'
    <3> SUFFICES ASSUME n - 1 > 0 PROVE tasks'[Node(1)'].parent = Base'
      BY <2>1 DEF StackBase
    <3>1. 1 \in 1..n-1
      BY <1>9
    <3>2. tasks[Node(1)].parent = Base
      BY <1>3, <1>4 DEF StackOK, StackBase
    <3> QED BY <1>11, <2>1, <2>5, <3>1, <3>2
  <2>9. StackParents'
    <3> SUFFICES ASSUME NEW m \in 2..n-1
                 PROVE  \E k \in 1..m-1 : Visited(k)' /\ tasks'[Node(m)'].parent = Node(k)'
      BY <2>1 DEF StackParents
    <3>1. m \in 2..n /\ m \in 1..n-1 /\ \A k \in 1..m-1 : k \in 1..n-1
      BY <1>9
    <3>2. PICK k \in 1..m-1 : Visited(k) /\ tasks[Node(m)].parent = Node(k)
      BY <1>3, <1>4, <3>1 DEF StackOK, StackParents
    <3> QED BY <2>1, <2>5, <3>1, <3>2
  <2>10. StackChildren'
    <3> SUFFICES ASSUME NEW k \in 1..n-1, Visited(k)', NEW c \in tasks'[Node(k)'].children
                 PROVE  \E m \in k+1..n-1 : Node(m)' = c
      BY <2>1 DEF StackChildren
    <3>1. Visited(k) /\ c \in tasks[Node(k)].children /\ c # id
      BY <2>1, <2>5
    <3>2. PICK m \in k+1..n : Node(m) = c
      BY <1>3, <1>4, <2>2, <3>1 DEF StackOK, StackChildren
    <3>3. m # n
      BY <1>4, <3>1, <3>2
    <3>4. m \in k+1..n-1 /\ m \in 1..n-1
      BY <1>9, <3>3
    <3> QED BY <2>1, <3>2, <3>4
  <2> QED BY <2>6, <2>7, <2>8, <2>9, <2>10 DEF StackOK
<1>14. RunOK' /\ DrainOK'
    BY <1>4, <1>10, <1>12, <1>13 DEF RunOK, DrainOK
<1>15. Lists' /\ Places'
    BY <1>2, <1>5, <1>10, UnlistType DEF Lists, Places
<1>16. \A i \in Live \ {id} : tasks'[i] \in TaskRecord
    BY <1>6
<1> QED BY <1>2, <1>4, <1>7, <1>8, <1>9, <1>14, <1>15, <1>16, LeaveStep

-----------------------------------------------------------------------------
(* The theorems.                                                           *)

LEMMA InitInv == Init => TasksInv
<1> SUFFICES ASSUME Init PROVE TasksInv
    OBVIOUS
<1>1. /\ tasks = [i \in {Root} |-> NewTask(None)] /\ next = Root /\ finished = <<>> /\ ready = <<Root>>
      /\ current = None /\ pending = 0 /\ armed = {} /\ notices = <<>> /\ phase = "start"
      /\ drain = NoDrain /\ owed = None
    BY DEF Init
<1>2. Live = {Root} /\ tasks[Root] = NewTask(None) /\ Root \in Id
    BY <1>1, TasksAssumption DEF Live, Root, Id
<1>3. NewTask(None) \in TaskRecord
  <2>1. <<>> \in Seq({"lexical", "result"}) /\ 0 \in 0..MaxWaits /\ 0 \in Nat
    BY TasksAssumption
  <2> QED BY <2>1 DEF NewTask, TaskRecord
<1>4. /\ tasks[Root].parent = None /\ tasks[Root].children = {} /\ tasks[Root].returned = 0
      /\ tasks[Root].cleanups = <<>> /\ tasks[Root].waiter = None /\ tasks[Root].state = "Queued"
      /\ tasks[Root].ext = "none" /\ tasks[Root].job = "none"
    BY <1>2 DEF NewTask
<1>5. Table
    BY <1>1, <1>2, <1>3 DEF Table
<1>6. Lists /\ Places /\ drain \in WorkTypes
  <2>1. <<>> \in Seq(Id) /\ <<Root>> \in Seq(Id)
    BY <1>2
  <2> QED BY <1>1, <1>2, <2>1, NoDrainType DEF Lists, Places, Phases
<1>7. Reactors
  <2>1. Pendings = {} /\ Silent = {}
    BY <1>2, <1>4 DEF Pendings, Silent
  <2>2. <<>> \in Seq(Id \X (1..MaxWaits))
    OBVIOUS
  <2> QED BY <1>1, <2>1, <2>2, FS_EmptySet DEF Reactors
<1>8. Fresh
    BY <1>1, <1>2 DEF Fresh, Root
<1>9. ExtOK
    BY <1>2, <1>4 DEF ExtOK, Terminal
<1>10. OneTree
  <2>1. None # Root
    BY DEF None, Root
  <2> QED BY <1>2, <1>4, <2>1 DEF OneTree
<1>11. RootOK
    BY <1>2, <1>4 DEF RootOK, Terminal
<1>12. RunOK /\ DrainOK
    BY <1>1, <1>2 DEF RunOK, DrainOK
<1> QED BY <1>5, <1>6, <1>7, <1>8, <1>9, <1>10, <1>11, <1>12, TypeParts DEF TasksInv

LEMMA NextStep == ASSUME TasksInv, [Next]_vars PROVE Good
<1>1. ASSUME NEW p \in Live, Call(p) PROVE Good
  <2>1. CASE Create(p)
    BY <2>1, CreateStep
  <2>2. ASSUME NEW c \in Live, NEW callee \in Live, Adopt(p, callee, c) PROVE Good
    BY <2>2, AdoptStep
  <2>3. ASSUME NEW c \in Live, Return(p, c) \/ Await(p, c) \/ Observe(p, c) PROVE Good
    BY <2>3, ReturnStep, AwaitStep, ObserveStep
  <2>4. ASSUME NEW c \in Live, Result(p, c) \/ Release(p, c) PROVE Good
    BY <2>4, ResultStep, ReleaseStep
  <2>5. ASSUME NEW c \in Live, NEW suppress \in BOOLEAN, DrainChild(p, c, suppress) PROVE Good
    BY <2>5, DrainChildStep
  <2>6. ASSUME NEW c \in Live, CancelTerminal(p, c) \/ CancelBegin(p, c) PROVE Good
    BY <2>6, CancelTerminalStep, CancelBeginStep
  <2>7. ASSUME NEW c \in Live, NEW outcome \in {"Completed", "Faulted"}, CancelLate(p, c, outcome) PROVE Good
    BY <2>7, CancelLateStep
  <2>8. CASE WaitNext(p) \/ Select(p)
    BY <2>8, WaitNextStep, SelectStep
  <2>9. ASSUME NEW kind \in {"lexical", "result"}, CleanupPush(p, kind) PROVE Good
    BY <2>9, CleanupPushStep
  <2>10. CASE CleanupPop(p)
    BY <2>10, CleanupPopStep
  <2>11. CASE Register(p, "none") \/ WaitWorker(p)
    BY <2>11, RegisterStep, WaitWorkerStep
  <2>12. CASE ResumeWait(p) \/ ProviderReady(p) \/ WorkerResult(p)
    BY <2>12, ResumeWaitStep, ProviderReadyStep, WorkerResultStep
  <2> QED BY <1>1, <2>1, <2>2, <2>3, <2>4, <2>5, <2>6, <2>7, <2>8, <2>9, <2>10, <2>11, <2>12 DEF Call
<1>2. ASSUME NEW p \in Live, EndActivation(p) \/ JobComplete(p) PROVE Good
    BY <1>2, CompleteStep, SuspendStep, FaultStep, JobCompleteStep DEF EndActivation
<1>3. CASE DrainStep
  <2>1. ASSUME NEW failure \in BOOLEAN, RetireWait(failure) \/ RunCleanup(failure) PROVE Good
    BY <2>1, RetireWaitStep, RunCleanupStep
  <2>2. CASE NextChild \/ Expand \/ RemoveTask
    BY <2>2, NextChildStep, ExpandStep, RemoveTaskStep
  <2>3. CASE FinishFault \/ FinishCancel \/ FinishDrain \/ Abandoned
    BY <2>3, FinishFaultStep, FinishCancelStep, FinishDrainStep, AbandonedStep
  <2> QED BY <1>3, <2>1, <2>2, <2>3 DEF DrainStep
<1>4. CASE Drive
    BY <1>4, DriveSteps, TakeStep, PickRootStep, PickTaskStep DEF Drive
<1>5. CASE Abandon
    BY <1>5, AbandonStep
<1>6. ASSUME NEW r \in armed, Fire(r) PROVE Good
    BY <1>6, FireStep
<1>7. CASE Over \/ UNCHANGED vars
    BY <1>7, StutterStep DEF Over
<1> QED BY <1>1, <1>2, <1>3, <1>4, <1>5, <1>6, <1>7 DEF Next

\* In every state of the executor the waits are counted, the tasks form one
\* tree, the root holds nothing when it ends, and the stack of a running
\* cancellation holds live tasks below its caller, each above its parent.
THEOREM TasksInvariant == Spec => []TasksInv
<1>1. TasksInv /\ [Next]_vars => TasksInv'
    BY NextStep DEF Good
<1> QED BY InitInv, <1>1, PTL DEF Spec

\* Core.pending counts the waits without a notification, and the reactor
\* holds exactly the registrations of these waits that it has not yet
\* turned into a notification: the owner never blocks for a wait that
\* nothing will end, and never stops polling one that is still open.
THEOREM TasksPending == Spec => []PendingOK
<1>1. TasksInv => PendingOK
    BY DEF TasksInv
<1> QED BY TasksInvariant, <1>1, PTL

\* Creation, adoption, extraction, release, cancellation and drains keep the
\* child sets and the parent fields inverse, and the live tasks one tree
\* under the root, for any number of tasks.
THEOREM TasksTree == Spec => []OneTree
<1>1. TasksInv => OneTree
    BY DEF TasksInv
<1> QED BY TasksInvariant, <1>1, PTL

\* No call, cancellation, drain or late completion replaces an outcome.
THEOREM TasksOutcomeFinal == Spec => OutcomeFinal
<1>1. TasksInv /\ [Next]_vars => Outcomes
    BY NextStep DEF Good
<1>2. Outcomes => [\A i \in Live \cap DOMAIN tasks' :
         tasks[i].state \in Terminal => tasks'[i].state = tasks[i].state]_vars
    BY DEF Outcomes
<1> QED BY TasksInvariant, <1>1, <1>2, PTL DEF Spec, OutcomeFinal

=============================================================================
