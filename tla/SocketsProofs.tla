---------------------------- MODULE SocketsProofs ----------------------------
(***************************************************************************)
(* Proofs about Sockets, in NativeIo, for any tasks and bounds: what the   *)
(* reactor watches is the open handle of the socket its task waits on, and *)
(* no readiness or revocation is lost.                                     *)
(***************************************************************************)
EXTENDS JobsProofs

Tokens          == 1..MaxSockets
Kernel          == Directions \cup {"error"}
Sources         == [handle : 0..MaxSockets, direction : Directions \cup {"none"}]
SocketKinds     == {"none", "listener", "datagram", "stream"}
Connections     == {"none", "pending", "notified", "connected", "failed"}
SocketRecords   == [kind : SocketKinds, connection : Connections, handle : 0..MaxSockets]
Wanted          == [token : 0..MaxSockets, direction : Directions \cup {"none"}]

SocketsType ==
    /\ issued \in Seq(Sources) /\ WaitsType
    /\ made \in 0..MaxSockets /\ sockets \subseteq 1..made
    /\ socket \in [Tokens -> SocketRecords] /\ bits \in [Tokens -> SUBSET Kernel]
    /\ wanted \in [Tasks -> Wanted]

\* Open sockets have native handles, each its own.
NumbersOK ==
    /\ \A s \in Tokens : Alive(s) => s <= made /\ socket[s].handle # None
    /\ \A s, u \in Tokens : Alive(s) /\ Alive(u) /\ socket[s].handle = socket[u].handle => s = u

\* A wait is for the socket its task wants, and keeps it open.
LeasesOK ==
    \A t \in Tasks :
        IF wait[t].reg = None THEN wait[t].lease = None /\ ~wait[t].ready
        ELSE /\ wait[t].reg <= Len(issued)
             /\ wait[t].lease = wanted[t].token /\ wanted[t].token \in Tokens
             /\ issued[wait[t].reg] = Source(t)

\* A registration is one wait's, and live until it is notified or its wait ends.
LiveOK ==
    /\ \A t, u \in Tasks : wait[t].reg = wait[u].reg /\ wait[t].reg # None => t = u
    /\ \A r \in live : \E t \in Tasks : wait[t].reg = r /\ Parked(t)
    /\ \A i \in DOMAIN queue : queue[i].reg \in 1..Len(issued) \ live

\* A task that waits for a socket will hear of it.
HeardOK ==
    \A t \in Tasks : Parked(t) =>
        \/ \E i \in DOMAIN queue : queue[i].reg = wait[t].reg
        \/ wait[t].reg \in live /\ TokenHeld(t)

SocketsInv == SocketsType /\ NumbersOK /\ LeasesOK /\ LiveOK /\ HeardOK

NativeSockets == IF part = "sockets" THEN SocketsInv ELSE SocketsInit

-----------------------------------------------------------------------------
(* What waits do, whoever uses them.                                       *)

\* Everyone of R is told in queue q, and nobody else.
Told(q, R) ==
    /\ q \in Seq(Notes) /\ DOMAIN queue \subseteq DOMAIN q
    /\ \A i \in DOMAIN queue : q[i] = queue[i]
    /\ \A i \in DOMAIN q : i \in DOMAIN queue \/ q[i].reg \in R
    /\ \A r \in R : \E i \in DOMAIN q : q[i].reg = r

LEMMA NoticeFacts ==
    ASSUME queue \in Seq(Notes), NEW R, R \subseteq Registrations, NEW e \in BOOLEAN, NEW s \in Notices(R, e)
    PROVE  Told(queue \o s, R)
<1> DEFINE q == queue \o s
<1> DEFINE n == Cardinality(R)
<1>0. IsFiniteSet(R) /\ n \in Nat
  <2>1. IsFiniteSet(Registrations)
    BY WaitsAssumption, FS_Interval DEF Registrations
  <2>2. IsFiniteSet(R)
    BY <2>1, FS_Subset
  <2> QED BY <2>2, FS_CardinalityType
<1>1. PICK f \in [1..n -> R] : /\ \A i, j \in 1..n : i # j => f[i] # f[j]
                               /\ s = [i \in 1..n |-> [reg |-> f[i], error |-> e]]
    BY DEF Notices
<1> HIDE DEF n
<1>2. \A r \in R : \E i \in 1..n : f[i] = r
  <2>1. f \in Injection(1..n, R)
    BY <1>1 DEF Injection, IsInjective
  <2>2. Cardinality(1..n) = n
    BY <1>0, FS_Interval
  <2>3. f \in Surjection(1..n, R)
    BY <1>0, <2>1, <2>2, FS_Injection DEF n
  <2> QED BY <2>3 DEF Surjection
<1>3. s \in Seq(Notes) /\ Len(s) = n /\ \A i \in 1..n : s[i] \in Notes /\ s[i].reg = f[i]
  <2>1. \A i \in 1..n : [reg |-> f[i], error |-> e] \in Notes
    BY <1>1 DEF Notes
  <2> QED BY <1>0, <1>1, <2>1
<1> DEFINE m == Len(queue)
<1>4. /\ q \in Seq(Notes) /\ m \in Nat /\ DOMAIN queue = 1..m /\ DOMAIN q = 1..(m + n)
      /\ \A i \in 1..m : q[i] = queue[i]
      /\ \A i \in 1..n : q[m + i] = s[i]
  <2>1. /\ queue \o s \in Seq(Notes) /\ Len(queue \o s) = Len(queue) + Len(s)
        /\ \A i \in 1..(Len(queue) + Len(s)) :
              (queue \o s)[i] = IF i <= Len(queue) THEN queue[i] ELSE s[i - Len(queue)]
    BY <1>3, ConcatProperties
  <2>2. m \in Nat /\ DOMAIN queue = 1..m
    OBVIOUS
  <2>3. q \in Seq(Notes) /\ DOMAIN q = 1..(m + n)
    BY <1>0, <1>3, <2>1, <2>2
  <2> HIDE DEF m
  <2>4. \A i \in 1..(m + n) : q[i] = IF i <= m THEN queue[i] ELSE s[i - m]
    BY <2>1, <1>3 DEF m
  <2>5. \A i \in 1..m : q[i] = queue[i]
    BY <2>4, <2>2, <1>0
  <2>6. \A i \in 1..n : q[m + i] = s[i]
    <3> TAKE i \in 1..n
    <3>1. m + i \in 1..(m + n) /\ ~(m + i <= m) /\ (m + i) - m = i
        BY <2>2, <1>0
    <3> QED BY <3>1, <2>4
  <2> QED BY <2>2, <2>3, <2>5, <2>6
<1> HIDE DEF m
<1>5. \A i \in DOMAIN q : i \in DOMAIN queue \/ q[i].reg \in R
  <2> TAKE i \in DOMAIN q
  <2>1. CASE i \notin 1..m
    <3>1. i - m \in 1..n /\ m + (i - m) = i
        BY <2>1, <1>0, <1>4
    <3>2. q[i] = s[i - m]
        BY <3>1, <1>4
    <3> QED BY <3>1, <3>2, <1>1, <1>3
  <2> QED BY <2>1, <1>4
<1>6. \A r \in R : \E i \in DOMAIN q : q[i].reg = r
  <2> TAKE r \in R
  <2>1. PICK i \in 1..n : f[i] = r
    BY <1>2
  <2>2. m + i \in DOMAIN q /\ q[m + i].reg = r
    BY <2>1, <1>0, <1>3, <1>4
  <2> QED BY <2>2
<1>7. DOMAIN queue \subseteq DOMAIN q
    BY <1>0, <1>4
<1> QED BY <1>4, <1>5, <1>6, <1>7 DEF Told

LEMMA FireFacts ==
    ASSUME queue \in Seq(Notes), NEW R, R \cap live \subseteq Registrations, NEW e \in BOOLEAN, FireAll(R, e)
    PROVE  live' = live \ R /\ Told(queue', R \cap live)
<1>1. PICK s \in Notices(R \cap live, e) : queue' = queue \o s
    BY DEF FireAll
<1>2. live' = live \ R
    BY DEF FireAll
<1>3. Told(queue \o s, R \cap live)
    BY <1>1, NoticeFacts
<1> QED BY <1>1, <1>2, <1>3

\* One notification is consumed: exactly the tasks it is for become ready.
LEMMA PollFacts ==
    ASSUME WaitsType, Poll
    PROVE  /\ queue' \in Seq(Notes) /\ 1 \in DOMAIN queue /\ Head(queue) = queue[1] /\ queue[1] \in Notes
           /\ \A i \in DOMAIN queue' : i + 1 \in DOMAIN queue /\ queue'[i] = queue[i + 1]
           /\ \A i \in DOMAIN queue : i # 1 => \E j \in DOMAIN queue' : queue'[j] = queue[i]
           /\ wait' \in [Tasks -> WaitRecords]
           /\ \A t \in Tasks : /\ wait'[t].reg = wait[t].reg /\ wait'[t].lease = wait[t].lease
                               /\ t \notin Wakes(queue[1]) => wait'[t] = wait[t]
                               /\ t \in Wakes(queue[1]) => wait'[t].ready
           /\ UNCHANGED <<issued, live, done>>
<1>0. /\ queue # <<>> /\ queue' = Tail(queue) /\ UNCHANGED <<issued, live, done>>
      /\ wait' = [t \in Tasks |-> IF t \in Wakes(Head(queue))
                                    THEN [wait[t] EXCEPT !.ready = TRUE, !.error = Head(queue).error]
                                    ELSE wait[t]]
    BY DEF Poll
<1>q. /\ queue' \in Seq(Notes) /\ Len(queue) \in Nat /\ Len(queue) >= 1 /\ Head(queue) = queue[1]
      /\ queue[1] \in Notes /\ DOMAIN queue = 1..Len(queue) /\ DOMAIN queue' = 1..(Len(queue) - 1)
      /\ \A i \in 1..(Len(queue) - 1) : queue'[i] = queue[i + 1]
    BY <1>0, TailFacts DEF WaitsType
<1>1. \A i \in DOMAIN queue : i # 1 => \E j \in DOMAIN queue' : queue'[j] = queue[i]
  <2> TAKE i \in DOMAIN queue
  <2>1. i # 1 => i - 1 \in DOMAIN queue' /\ queue'[i - 1] = queue[i]
    BY <1>q
  <2> QED BY <2>1
<1>w. /\ wait' \in [Tasks -> WaitRecords]
      /\ \A t \in Tasks : /\ wait'[t].reg = wait[t].reg /\ wait'[t].lease = wait[t].lease
                          /\ t \notin Wakes(queue[1]) => wait'[t] = wait[t]
                          /\ t \in Wakes(queue[1]) => wait'[t].ready
  <2>1. \A t \in Tasks : /\ wait[t] \in WaitRecords /\ queue[1].error \in BOOLEAN
    BY <1>q DEF Notes, WaitsType
  <2> QED BY <1>0, <1>q, <2>1 DEF WaitRecords
<1>2. 1 \in DOMAIN queue /\ \A i \in DOMAIN queue' : i + 1 \in DOMAIN queue /\ queue'[i] = queue[i + 1]
    BY <1>q
<1>3. queue' \in Seq(Notes) /\ Head(queue) = queue[1] /\ queue[1] \in Notes /\ UNCHANGED <<issued, live, done>>
    BY <1>0, <1>q
<1> QED BY <1>1, <1>2, <1>3, <1>w

\* A new wait: its registration r is one that nobody had.
Parks(t, x, y, r, S) ==
    /\ r \in Registrations /\ r \in Nat /\ r # None /\ r \notin live
    /\ issued' \in Seq(S) /\ Len(issued) \in Nat /\ Len(issued') = r /\ issued'[r] = x
    /\ \A i \in 1..Len(issued) : issued'[i] = issued[i]
    /\ live' = live \cup {r} /\ live' \subseteq 1..Len(issued') /\ Len(issued') <= MaxWaits
    /\ wait' \in [Tasks -> WaitRecords]
    /\ wait'[t].reg = r /\ wait'[t].lease = y /\ wait'[t].ready = FALSE
    /\ \A u \in Tasks : u # t => wait'[u] = wait[u]

LEMMA ParkFacts ==
    ASSUME NEW S, issued \in Seq(S), WaitsType, NEW t \in Tasks, NEW x \in S, NEW y \in Nat, Park(t, x, y),
           NEW r, r = Len(issued) + 1
    PROVE  Parks(t, x, y, r, S)
<1>0. /\ Len(issued) < MaxWaits /\ issued' = Append(issued, x) /\ live' = live \cup {r}
      /\ wait' = [wait EXCEPT ![t] = [reg |-> r, ready |-> FALSE, error |-> FALSE, lease |-> y]]
    BY DEF Park, Room
<1>1. Len(issued) \in Nat /\ live \subseteq 1..Len(issued) /\ wait \in [Tasks -> WaitRecords]
    BY DEF WaitsType
<1>2. r \in Nat /\ r # None /\ r \in Registrations /\ r \notin live
    BY <1>0, <1>1, WaitsAssumption DEF Registrations, None
<1>3. /\ issued' \in Seq(S) /\ Len(issued') = r /\ issued'[r] = x
      /\ \A i \in 1..Len(issued) : issued'[i] = issued[i]
    BY <1>0, <1>1
<1>4. live' \subseteq 1..Len(issued') /\ Len(issued') <= MaxWaits
  <2>1. 1..Len(issued) \subseteq 1..r /\ r \in 1..r /\ r <= MaxWaits
    BY <1>0, <1>1, <1>2, WaitsAssumption
  <2> QED BY <2>1, <1>0, <1>1, <1>3
<1>5. /\ wait' \in [Tasks -> WaitRecords]
      /\ wait'[t].reg = r /\ wait'[t].lease = y /\ wait'[t].ready = FALSE
      /\ \A u \in Tasks : u # t => wait'[u] = wait[u]
  <2>1. [reg |-> r, ready |-> FALSE, error |-> FALSE, lease |-> y] \in WaitRecords
    BY <1>2 DEF WaitRecords
  <2> QED BY <2>1, <1>0, <1>1
<1> QED BY <1>0, <1>1, <1>2, <1>3, <1>4, <1>5 DEF Parks

-----------------------------------------------------------------------------
(* Sockets and the waits on them.                                          *)

LEMMA SocketFacts == ASSUME SocketsType
                     PROVE  /\ MaxSockets \in Nat /\ made \in Nat /\ Len(issued) \in Nat
                            /\ \A s \in Tokens : s \in Nat /\ s # None /\ socket[s] \in SocketRecords
                                                 /\ socket[s].handle \in 0..MaxSockets
                            /\ 1..made \subseteq Tokens /\ sockets \subseteq Tokens /\ Tokens \subseteq 0..MaxSockets
                            /\ \A t \in Tasks : /\ wanted[t] \in Wanted /\ wait[t] \in WaitRecords
                                                /\ wanted[t].token \in 0..MaxSockets
                                                /\ wait[t].reg \in Nat /\ wait[t].ready \in BOOLEAN
                                                /\ wanted[t].direction \in Directions \cup {"none"}
    BY SocketsAssumption DEF SocketsType, WaitsType, SocketRecords, Wanted, WaitRecords, Tokens, None

LEMMA AliveFacts == \A s : Alive(s) <=> s \in sockets \/ \E t \in Tasks : wait[t].lease = s
    BY DEF Alive, Leases

\* A step that touches no wait, no token and no native handle, and wants something new
\* only for tasks that do not wait.
LEMMA QuietStep ==
    ASSUME SocketsInv, UNCHANGED <<issued, live, queue, wait, sockets, made>>, done' \subseteq Tasks,
           socket' \in [Tokens -> SocketRecords], \A s \in Tokens : socket'[s].handle = socket[s].handle,
           bits' \in [Tokens -> SUBSET Kernel], wanted' \in [Tasks -> Wanted],
           \A t \in Tasks : wait[t].reg # None => wanted'[t] = wanted[t]
    PROVE  SocketsInv'
<1>a. \A s : Alive(s)' <=> Alive(s)
    BY DEF Alive, Leases
<1>1. SocketsType'
    BY DEF SocketsInv, SocketsType, WaitsType
<1>2. NumbersOK'
    BY <1>a DEF SocketsInv, NumbersOK
<1>3. LeasesOK'
  <2>1. \A t \in Tasks : wait[t].reg # None => Source(t)' = Source(t)
    BY DEF SocketsInv, LeasesOK, Source
  <2>2. \A t \in Tasks : wait[t].reg # None =>
           /\ wait[t].reg <= Len(issued) /\ wait[t].lease = wanted'[t].token /\ wanted'[t].token \in Tokens
           /\ issued[wait[t].reg] = Source(t)'
    BY <2>1 DEF SocketsInv, LeasesOK
  <2>3. \A t \in Tasks : wait[t].reg = None => wait[t].lease = None /\ ~wait[t].ready
    BY DEF SocketsInv, LeasesOK
  <2> QED BY <2>2, <2>3 DEF LeasesOK
<1>4. LiveOK'
    BY DEF SocketsInv, LiveOK, Parked
<1>5. HeardOK'
    BY DEF SocketsInv, HeardOK, Parked, TokenHeld
<1> QED BY <1>1, <1>2, <1>3, <1>4, <1>5 DEF SocketsInv

\* A wait ends: its registration is not live any more, and its lease is gone.
LEMMA ReleaseStep ==
    ASSUME SocketsInv, NEW t \in Tasks, UNCHANGED <<issued, queue, sockets, made, socket, bits>>,
           done' \subseteq Tasks, wait' \in [Tasks -> WaitRecords], wait'[t] = NoWait,
           \A u \in Tasks : u # t => wait'[u] = wait[u],
           live' = live \ {wait[t].reg}, wanted' = [wanted EXCEPT ![t] = Nothing]
    PROVE  SocketsInv'
<1> USE DEF None
<1>w. /\ wanted' \in [Tasks -> Wanted] /\ \A u \in Tasks : u # t => wanted'[u] = wanted[u]
  <2>1. Nothing \in Wanted
    BY SocketsAssumption DEF Nothing, Wanted
  <2> QED BY <2>1 DEF SocketsInv, SocketsType
<1>n. NoWait.reg = None /\ NoWait.lease = None /\ ~NoWait.ready
    BY DEF NoWait
<1>a. \A s \in Tokens : Alive(s)' => Alive(s)
  <2>1. \A s : Alive(s)' <=> s \in sockets' \/ \E u \in Tasks : wait'[u].lease = s
    BY DEF Alive, Leases
  <2>2. \A s \in Tokens : s # None
    BY SocketFacts DEF SocketsInv
  <2> QED BY <2>1, <2>2, <1>n, AliveFacts
<1>1. SocketsType'
    BY <1>w DEF SocketsInv, SocketsType, WaitsType
<1>2. NumbersOK'
    BY <1>a DEF SocketsInv, NumbersOK
<1>3. LeasesOK'
    BY <1>n, <1>w DEF SocketsInv, LeasesOK, Source
<1>4. LiveOK'
    BY <1>n DEF SocketsInv, LiveOK, Parked
<1>5. HeardOK'
  <2>1. \A u \in Tasks : Parked(u)' => /\ u # t /\ Parked(u) /\ wait'[u] = wait[u] /\ wait[u].reg # wait[t].reg
                                       /\ wanted'[u] = wanted[u]
    BY <1>n, <1>w DEF SocketsInv, LiveOK, Parked
  <2> QED BY <2>1 DEF SocketsInv, HeardOK, TokenHeld
<1> QED BY <1>1, <1>2, <1>3, <1>4, <1>5 DEF SocketsInv

\* Sockets that are open leave the kernel a number for one more.
LEMMA FreshFacts ==
    ASSUME SocketsInv, made < MaxSockets
    PROVE  /\ FreshHandle \in Tokens
           /\ \A s \in Tokens : Alive(s) => socket[s].handle # FreshHandle
<1> DEFINE Used == {socket[s].handle : s \in 1..made}
           Unused == {h \in Tokens : \A s \in Tokens : Alive(s) => socket[s].handle # h}
           P(h) == /\ \A s \in 1..MaxSockets : Alive(s) => socket[s].handle # h
                   /\ \A g \in 1..(h - 1) : \E s \in 1..MaxSockets : Alive(s) /\ socket[s].handle = g
<1>0. MaxSockets \in Nat /\ made \in Nat /\ made < MaxSockets
    BY SocketFacts DEF SocketsInv
<1>1. Unused # {}
  <2> SUFFICES ASSUME Unused = {} PROVE FALSE
    OBVIOUS
  <2>1. Tokens \subseteq Used
    BY DEF SocketsInv, NumbersOK, Tokens
  <2>2. IsFiniteSet(1..made) /\ Cardinality(1..made) = made
    BY <1>0, FS_Interval
  <2>3. IsFiniteSet(Used) /\ Cardinality(Used) <= made
    <3> DEFINE f == [s \in 1..made |-> socket[s].handle]
    <3>1. f \in Surjection(1..made, Used)
        BY DEF Surjection
    <3> HIDE DEF f, Used
    <3>2. IsFiniteSet(Used) /\ Cardinality(Used) <= Cardinality(1..made)
        BY <2>2, <3>1, FS_Surjection
    <3> QED BY <2>2, <3>2
  <2>4. Cardinality(Tokens) = MaxSockets
    BY <1>0, FS_Interval DEF Tokens
  <2>5. Cardinality(Tokens) <= Cardinality(Used) /\ IsFiniteSet(Used)
    BY <2>1, <2>3, FS_Subset
  <2>6. Cardinality(Used) \in Nat
    BY <2>3, FS_CardinalityType
  <2> HIDE DEF Used
  <2> QED BY <1>0, <2>3, <2>4, <2>5, <2>6
<1>2. PICK h \in Unused : \A g \in Unused : h <= g
  <2>1. Unused \subseteq Nat
    BY SocketFacts DEF SocketsInv
  <2> HIDE DEF Unused
  <2>2. PICK h \in Unused : \A g \in Unused : ~(<<g, h>> \in OpToRel(<, Nat))
    BY <1>1, <2>1, WFMin, NatLessThanWellFounded
  <2>3. \A g \in Unused : ~(g < h)
    BY <2>1, <2>2 DEF OpToRel
  <2>4. \A g \in Unused : h <= g
    BY <2>1, <2>3
  <2> QED BY <2>4
<1>3. h \in 1..MaxSockets /\ P(h)
  <2>1. h \in Tokens /\ h \in Nat /\ \A s \in Tokens : Alive(s) => socket[s].handle # h
    BY SocketFacts DEF SocketsInv
  <2>2. ASSUME NEW g \in 1..(h - 1)
        PROVE  \E s \in 1..MaxSockets : Alive(s) /\ socket[s].handle = g
    <3>1. g \in Tokens /\ ~(h <= g)
        BY <1>0, <2>1 DEF Tokens
    <3>2. g \notin Unused
        BY <1>2, <3>1
    <3> QED BY <3>1, <3>2 DEF Tokens
  <2> QED BY <2>1, <2>2 DEF Tokens
<1>4. FreshHandle = CHOOSE x \in 1..MaxSockets : P(x)
    BY DEF FreshHandle
<1> HIDE DEF P
<1>5. FreshHandle \in 1..MaxSockets /\ P(FreshHandle)
    BY <1>3, <1>4
<1> QED BY <1>5 DEF P, Tokens

\* A new socket: its token and its native handle are nobody's.
LEMMA InsertStep ==
    ASSUME SocketsInv, NEW kind \in {"listener", "datagram", "stream"},
           NEW c \in {"none", "pending", "connected"}, Insert(kind, c),
           UNCHANGED <<waitVars, wanted>>, bits' \in [Tokens -> SUBSET Kernel]
    PROVE  SocketsInv'
<1> USE DEF None
<1>f. SocketsType
    BY DEF SocketsInv
<1>0. PICK m \in Tokens, h \in Tokens :
         /\ m = made + 1 /\ h = FreshHandle /\ made' = m /\ sockets' = sockets \cup {m}
         /\ socket' = [socket EXCEPT ![m] = [kind |-> kind, connection |-> c, handle |-> h]]
         /\ \A s \in Tokens : Alive(s) => socket[s].handle # h
  <2>1. made < MaxSockets /\ made + 1 \in Tokens
    BY <1>f, SocketFacts DEF Insert, Tokens
  <2> QED BY <2>1, FreshFacts DEF Insert
<1>s. /\ socket' \in [Tokens -> SocketRecords] /\ socket'[m].handle = h
      /\ \A s \in Tokens : s # m => socket'[s] = socket[s]
  <2>1. [kind |-> kind, connection |-> c, handle |-> h] \in SocketRecords
    BY <1>f, SocketFacts DEF SocketRecords, SocketKinds, Connections
  <2> QED BY <2>1, <1>0, <1>f DEF SocketsType
<1>m. ~Alive(m) /\ made \in Nat /\ m \in Nat /\ m > made
    BY <1>0, <1>f, SocketFacts DEF SocketsInv, NumbersOK
<1>a. \A s : Alive(s)' <=> Alive(s) \/ s = m
  <2>1. \A s : Alive(s)' <=> s \in sockets' \/ \E t \in Tasks : wait'[t].lease = s
    BY DEF Alive, Leases
  <2> QED BY <2>1, <1>0, AliveFacts DEF waitVars
<1>1. SocketsType'
  <2>1. made' \in 0..MaxSockets /\ sockets' \subseteq 1..made'
    BY <1>0, <1>m, <1>f, SocketFacts DEF SocketsType, Tokens
  <2> QED BY <1>f, <1>s, <2>1 DEF SocketsType, WaitsType, waitVars
<1>2. NumbersOK'
  <2>1. \A s \in Tokens : Alive(s)' => s <= made' /\ socket'[s].handle # None
    BY <1>a, <1>s, <1>0, <1>m, <1>f, SocketFacts DEF SocketsInv, NumbersOK
  <2>2. \A s, u \in Tokens : Alive(s)' /\ Alive(u)' /\ socket'[s].handle = socket'[u].handle => s = u
    BY <1>a, <1>s, <1>0 DEF SocketsInv, NumbersOK
  <2> QED BY <2>1, <2>2 DEF NumbersOK
<1>3. LeasesOK'
  <2>1. \A t \in Tasks : wait[t].reg # None => wanted[t].token \in Tokens /\ wanted[t].token # m
    BY <1>m, AliveFacts DEF SocketsInv, LeasesOK
  <2>2. \A t \in Tasks : wait[t].reg # None => Source(t)' = Source(t)
    BY <2>1, <1>s DEF Source
  <2> QED BY <2>2 DEF SocketsInv, LeasesOK, waitVars
<1>4. LiveOK'
    BY DEF SocketsInv, LiveOK, Parked, waitVars
<1>5. HeardOK'
    BY <1>0 DEF SocketsInv, HeardOK, Parked, TokenHeld, waitVars
<1> QED BY <1>1, <1>2, <1>3, <1>4, <1>5 DEF SocketsInv

\* The steps that neither wait nor end a wait.
LEMMA UseSteps ==
    ASSUME SocketsInv, NEW t \in Tasks,
           \/ \E kind \in {"listener", "datagram", "stream"}, c \in {"none", "pending", "connected"} :
                 Make(t, kind, c)
           \/ \E k \in 1..made, d \in Directions : Transfer(t, k, d) \/ WouldBlock(t, k, d)
           \/ \E k \in 1..made : StatusPending(t, k) \/ ConnectStatus(t, k)
           \/ WaitFails(t)
    PROVE  SocketsInv'
<1>f. /\ SocketsType /\ bits \in [Tokens -> SUBSET Kernel] /\ socket \in [Tokens -> SocketRecords]
      /\ wanted \in [Tasks -> Wanted] /\ done \subseteq Tasks /\ 1..made \subseteq Tokens
    BY SocketFacts DEF SocketsInv, SocketsType, WaitsType
<1>n. Nothing \in Wanted /\ \A k \in Tokens, d \in Directions : [token |-> k, direction |-> d] \in Wanted
    BY <1>f, SocketFacts, SocketsAssumption DEF Nothing, Wanted, None
<1>1. CASE \E kind \in {"listener", "datagram", "stream"}, c \in {"none", "pending", "connected"} :
              Make(t, kind, c)
    BY <1>1, <1>f, InsertStep DEF Make
<1>2. CASE \E k \in 1..made, d \in Directions : Transfer(t, k, d)
  <2> PICK k \in 1..made, d \in Directions : Transfer(t, k, d)
    BY <1>2
  <2>1. bits' \in [Tokens -> SUBSET Kernel]
    BY <1>f DEF Transfer
  <2>2. CASE Insert("stream", "connected")
    BY <2>1, <2>2, InsertStep DEF Transfer
  <2>3. CASE UNCHANGED <<sockets, made, socket>>
    <3>1. UNCHANGED <<issued, live, queue, wait, done, sockets, made, socket, wanted>>
        BY <2>3 DEF Transfer, waitVars
    <3> QED BY <2>1, <3>1, <1>f, QuietStep
  <2> QED BY <2>2, <2>3 DEF Transfer
<1>3. CASE \/ \E k \in 1..made, d \in Directions : WouldBlock(t, k, d)
           \/ \E k \in 1..made : StatusPending(t, k)
  <2>1. PICK k \in 1..made, d \in Directions :
           /\ wanted' = [wanted EXCEPT ![t] = [token |-> k, direction |-> d]] /\ wait[t].reg = None
           /\ UNCHANGED <<waitVars, sockets, made, socket, bits, arrivals>>
    BY <1>3 DEF WouldBlock, StatusPending, Rest, Idle, Directions
  <2>2. wanted' \in [Tasks -> Wanted] /\ \A u \in Tasks : wait[u].reg # None => wanted'[u] = wanted[u]
    BY <2>1, <1>f, <1>n
  <2>3. UNCHANGED <<issued, live, queue, wait, done, sockets, made, socket, bits>>
    BY <2>1 DEF waitVars
  <2> QED BY <2>2, <2>3, <1>f, QuietStep
<1>4. CASE \E k \in 1..made : ConnectStatus(t, k)
  <2> PICK k \in 1..made : ConnectStatus(t, k)
    BY <1>4
  <2>1. PICK c \in Connections : socket' = [socket EXCEPT ![k].connection = c]
    BY DEF ConnectStatus, Connections
  <2>2. k \in Tokens /\ socket' \in [Tokens -> SocketRecords]
    BY <1>f, <2>1 DEF SocketRecords
  <2>3. \A s \in Tokens : socket'[s].handle = socket[s].handle
    BY <1>f, <2>1, <2>2 DEF SocketRecords
  <2>4. UNCHANGED <<issued, live, queue, wait, done, sockets, made, bits, wanted>>
    BY DEF ConnectStatus, waitVars
  <2> QED BY <2>2, <2>3, <2>4, <1>f, QuietStep
<1>5. CASE WaitFails(t)
  <2>1. /\ wanted' = [wanted EXCEPT ![t] = Nothing] /\ wait[t].reg = None
        /\ UNCHANGED <<issued, live, queue, wait, sockets, made, socket, bits>> /\ done' \subseteq Tasks
    BY <1>5, <1>f DEF WaitFails, Idle
  <2>2. wanted' \in [Tasks -> Wanted] /\ \A u \in Tasks : wait[u].reg # None => wanted'[u] = wanted[u]
    BY <2>1, <1>f, <1>n
  <2> QED BY <2>1, <2>2, <1>f, QuietStep
<1> QED BY <1>1, <1>2, <1>3, <1>4, <1>5

LEMMA ArriveStep == ASSUME SocketsInv, NEW s \in 1..made, NEW b \in Directions \cup {"error"}, Arrive(s, b)
                    PROVE  SocketsInv'
<1>f. /\ SocketsType /\ bits \in [Tokens -> SUBSET Kernel] /\ socket \in [Tokens -> SocketRecords]
      /\ wanted \in [Tasks -> Wanted] /\ done \subseteq Tasks
    BY SocketFacts DEF SocketsInv, SocketsType, WaitsType
<1>1. bits' \in [Tokens -> SUBSET Kernel]
    BY <1>f DEF Arrive, Kernel
<1>2. UNCHANGED <<issued, live, queue, wait, done, sockets, made, socket, wanted>>
    BY DEF Arrive, waitVars
<1> QED BY <1>f, <1>1, <1>2, QuietStep

\* A task waits: from here on its socket stays open.
LEMMA WaitStep == ASSUME SocketsInv, NEW t \in Tasks, WaitSocket(t) PROVE SocketsInv'
<1> USE DEF None
<1>f. SocketsType /\ WaitsType /\ issued \in Seq(Sources)
    BY DEF SocketsInv, SocketsType
<1>0. /\ wait[t].reg = None /\ Park(t, Source(t), wanted[t].token)
      /\ UNCHANGED <<queue, done, socketVars>>
    BY DEF WaitSocket, Idle, Lease
<1>k. PICK k \in Tokens : k = wanted[t].token /\ k \in sockets /\ k \in Nat
    BY <1>f, SocketFacts DEF WaitSocket
<1>x. PICK x \in Sources : x = Source(t) /\ x.handle = socket[k].handle
  <2>1. Source(t) \in Sources /\ Source(t).handle = socket[k].handle
    BY <1>f, <1>k, SocketFacts DEF Source, Sources
  <2> QED BY <2>1
<1> PICK r : r = Len(issued) + 1
    OBVIOUS
<1>r. Parks(t, x, k, r, Sources)
  <2>1. Park(t, x, k)
    BY <1>0, <1>k, <1>x
  <2> QED BY <2>1, <1>f, <1>k, ParkFacts
<1> USE DEF Parks
<1>a. \A s \in Tokens : Alive(s)' => Alive(s)
  <2>1. \A s : Alive(s)' <=> s \in sockets' \/ \E u \in Tasks : wait'[u].lease = s
    BY DEF Alive, Leases
  <2> QED BY <2>1, <1>0, <1>k, <1>r, AliveFacts DEF socketVars
<1>u. \A u \in Tasks : /\ wait[u].reg # r
                       /\ wait[u].reg # None => wait[u].reg \in 1..Len(issued)
    BY <1>r, <1>f, SocketFacts DEF SocketsInv, LeasesOK
<1>1. SocketsType'
    BY <1>f, <1>0, <1>r DEF SocketsType, WaitsType, socketVars
<1>2. NumbersOK'
    BY <1>a, <1>0 DEF SocketsInv, NumbersOK, socketVars
<1>3. LeasesOK'
  <2>0. \A u \in Tasks : Source(u)' = Source(u) /\ wanted'[u] = wanted[u]
    BY <1>0 DEF Source, socketVars
  <2> SUFFICES ASSUME NEW u \in Tasks
               PROVE  IF wait'[u].reg = None THEN wait'[u].lease = None /\ ~wait'[u].ready
                      ELSE /\ wait'[u].reg <= Len(issued')
                           /\ wait'[u].lease = wanted'[u].token /\ wanted'[u].token \in Tokens
                           /\ issued'[wait'[u].reg] = Source(u)'
    BY DEF LeasesOK
  <2>1. CASE u = t
    BY <2>1, <2>0, <1>k, <1>r, <1>x
  <2>2. CASE u # t /\ wait[u].reg = None
    BY <2>2, <1>r DEF SocketsInv, LeasesOK
  <2>3. CASE u # t /\ wait[u].reg # None
    <3>1. wait[u].reg \in 1..Len(issued) /\ issued'[wait[u].reg] = issued[wait[u].reg]
        BY <2>3, <1>u, <1>r
    <3>2. wait[u].reg <= Len(issued')
        BY <3>1, <1>r
    <3> QED BY <2>3, <3>1, <3>2, <2>0, <1>r DEF SocketsInv, LeasesOK
  <2> QED BY <2>1, <2>2, <2>3
<1>4. LiveOK'
  <2>1. \A u, v \in Tasks : wait'[u].reg = wait'[v].reg /\ wait'[u].reg # None => u = v
    BY <1>r, <1>u DEF SocketsInv, LiveOK
  <2>2. \A c \in live' : \E u \in Tasks : wait'[u].reg = c /\ Parked(u)'
    <3> TAKE c \in live'
    <3>1. CASE c = r
        BY <3>1, <1>r DEF Parked
    <3>2. CASE c \in live
      <4>1. PICK u \in Tasks : wait[u].reg = c /\ Parked(u)
        BY <3>2 DEF SocketsInv, LiveOK
      <4>2. u # t
        BY <4>1, <1>0 DEF Parked
      <4> QED BY <4>1, <4>2, <1>r DEF Parked
    <3> QED BY <3>1, <3>2, <1>r
  <2>3. \A i \in DOMAIN queue : queue[i].reg \in 1..Len(issued') \ live'
    <3> TAKE i \in DOMAIN queue
    <3>1. queue[i].reg \in 1..Len(issued) \ live
        BY DEF SocketsInv, LiveOK
    <3> QED BY <3>1, <1>r
  <2> QED BY <1>0, <2>1, <2>2, <2>3 DEF LiveOK
<1>5. HeardOK'
  <2> SUFFICES ASSUME NEW u \in Tasks, Parked(u)'
               PROVE  (\/ \E i \in DOMAIN queue : queue[i].reg = wait[u].reg
                       \/ wait[u].reg \in live /\ TokenHeld(u))'
    BY DEF HeardOK
  <2>1. CASE u = t
    BY <2>1, <1>0, <1>k, <1>r DEF TokenHeld, socketVars
  <2>2. CASE u # t
    <3>1. Parked(u) /\ wait'[u] = wait[u]
        BY <2>2, <1>r DEF Parked
    <3> QED BY <3>1, <1>0, <1>r DEF SocketsInv, HeardOK, TokenHeld, socketVars
  <2> QED BY <2>1, <2>2
<1> QED BY <1>1, <1>2, <1>3, <1>4, <1>5 DEF SocketsInv

\* The steps that end a wait.
LEMMA EndSteps == ASSUME SocketsInv, NEW t \in Tasks, Resume(t) \/ Revoked(t) \/ CancelSocketTask(t)
                  PROVE  SocketsInv'
<1> USE DEF None
<1>f. SocketsType /\ wait \in [Tasks -> WaitRecords] /\ done \subseteq Tasks /\ None \notin live
    BY SocketFacts DEF SocketsInv, SocketsType, WaitsType
<1>n. NoWait \in WaitRecords
    BY DEF NoWait, WaitRecords
<1>l. wait[t].ready => wait[t].reg \notin live
    BY DEF SocketsInv, LiveOK, Parked, LeasesOK
<1>1. CASE Resume(t)
  <2>1. /\ UNCHANGED <<issued, live, queue, done, sockets, made, socket, bits>>
        /\ wait' = [wait EXCEPT ![t] = NoWait] /\ wait[t].ready /\ wanted' = [wanted EXCEPT ![t] = Nothing]
    BY <1>1 DEF Resume, Consume, Woken
  <2>2. /\ wait' \in [Tasks -> WaitRecords] /\ wait'[t] = NoWait
        /\ \A u \in Tasks : u # t => wait'[u] = wait[u]
    BY <2>1, <1>f, <1>n
  <2>3. live' = live \ {wait[t].reg}
    BY <2>1, <1>l
  <2> QED BY <2>1, <2>2, <2>3, <1>f, ReleaseStep
<1>2. CASE Revoked(t) \/ CancelSocketTask(t)
  <2>1. /\ UNCHANGED <<issued, queue, sockets, made, socket, bits>> /\ done' \subseteq Tasks
        /\ CancelWaits({t}) /\ wanted' = [wanted EXCEPT ![t] = Nothing]
    BY <1>2, <1>f DEF Revoked, CancelSocketTask
  <2>2. /\ wait' \in [Tasks -> WaitRecords] /\ wait'[t] = NoWait
        /\ \A u \in Tasks : u # t => wait'[u] = wait[u]
    BY <2>1, <1>f, CancelOne
  <2>3. live' = live \ {wait[t].reg}
    <3>1. CASE wait[t].ready
        BY <3>1, <2>1, <1>l DEF CancelWaits
    <3>2. CASE ~wait[t].ready
        BY <3>2, <2>1 DEF CancelWaits
    <3> QED BY <3>1, <3>2
  <2> QED BY <2>1, <2>2, <2>3, ReleaseStep
<1> QED BY <1>1, <1>2

\* A close is refused while a wait has a share.
LEMMA CloseStep == ASSUME SocketsInv, NEW t \in Tasks, NEW k \in 1..made, Close(t, k) PROVE SocketsInv'
<1>f. SocketsType /\ k \in Tokens
    BY SocketFacts DEF SocketsInv
<1>0. /\ UNCHANGED <<waitVars, made, socket, bits, wanted>> /\ sockets' = sockets \ {k}
      /\ k \in sockets /\ Shares(k) = 1
    BY DEF Close, Closable
<1>1. \A u \in Tasks : wait[u].lease # k
  <2>1. IsFiniteSet(Leases(k)) /\ Cardinality(Leases(k)) \in Nat
    <3>1. IsFiniteSet(Leases(k))
        BY SocketsAssumption, FS_Subset DEF Leases
    <3> QED BY <3>1, FS_CardinalityType
  <2>2. Cardinality(Leases(k)) = 0
    BY <1>0, <2>1 DEF Shares
  <2>3. Leases(k) = {}
    BY <2>1, <2>2, FS_EmptySet
  <2> QED BY <2>3 DEF Leases
<1>a. \A s : Alive(s)' => Alive(s)
  <2>1. \A s : Alive(s)' <=> s \in sockets' \/ \E u \in Tasks : wait'[u].lease = s
    BY DEF Alive, Leases
  <2> QED BY <2>1, <1>0, AliveFacts DEF waitVars
<1>2. SocketsType'
    BY <1>f, <1>0 DEF SocketsType, WaitsType, waitVars
<1>3. NumbersOK'
    BY <1>a, <1>0 DEF SocketsInv, NumbersOK
<1>4. LeasesOK' /\ LiveOK'
    BY <1>0 DEF SocketsInv, LeasesOK, LiveOK, Source, Parked, waitVars
<1>5. HeardOK'
  <2>1. \A u \in Tasks : Parked(u) => wanted[u].token # k
    BY <1>1 DEF SocketsInv, LeasesOK, Parked
  <2> QED BY <2>1, <1>0 DEF SocketsInv, HeardOK, Parked, TokenHeld, waitVars
<1> QED BY <1>2, <1>3, <1>4, <1>5 DEF SocketsInv

\* Registrations fire, and with a token that is revoked all that watch its handle.
LEMMA FireStep ==
    ASSUME SocketsInv, NEW R, NEW e \in BOOLEAN, FireAll(R, e),
           UNCHANGED <<issued, wait, done, made, socket, bits, wanted>>, sockets' \subseteq sockets,
           \A t \in Tasks : /\ Parked(t) /\ wait[t].reg \in live /\ wanted[t].token \in sockets
                            /\ wanted[t].token \notin sockets'
                            => wait[t].reg \in R
    PROVE  SocketsInv'
<1>f. SocketsType /\ queue \in Seq(Notes) /\ live \subseteq 1..Len(issued)
      /\ R \cap live \subseteq Registrations
  <2>1. SocketsType /\ queue \in Seq(Notes) /\ live \subseteq 1..Len(issued) /\ Len(issued) <= MaxWaits
    BY DEF SocketsInv, SocketsType, WaitsType
  <2>2. 1..Len(issued) \subseteq Registrations
    BY <2>1, WaitsAssumption, SocketFacts DEF Registrations
  <2> QED BY <2>1, <2>2
<1>0. live' = live \ R /\ Told(queue', R \cap live)
    BY <1>f, FireFacts
<1>a. \A s : Alive(s)' => Alive(s)
  <2>1. \A s : Alive(s)' <=> s \in sockets' \/ \E u \in Tasks : wait'[u].lease = s
    BY DEF Alive, Leases
  <2> QED BY <2>1, AliveFacts
<1>1. SocketsType'
    BY <1>f, <1>0 DEF SocketsType, WaitsType, Told
<1>2. NumbersOK'
    BY <1>a DEF SocketsInv, NumbersOK
<1>3. LeasesOK'
    BY DEF SocketsInv, LeasesOK, Source
<1>4. LiveOK'
  <2>1. \A c \in live' : \E t \in Tasks : wait[t].reg = c /\ Parked(t)
    BY <1>0 DEF SocketsInv, LiveOK
  <2>2. \A i \in DOMAIN queue' : queue'[i].reg \in 1..Len(issued) \ live'
    BY <1>0, <1>f DEF SocketsInv, LiveOK, Told
  <2> QED BY <2>1, <2>2 DEF SocketsInv, LiveOK, Parked
<1>5. HeardOK'
  <2> SUFFICES ASSUME NEW t \in Tasks, Parked(t)
               PROVE  \/ \E i \in DOMAIN queue' : queue'[i].reg = wait[t].reg
                      \/ wait[t].reg \in live' /\ wanted[t].token \in sockets'
    BY DEF HeardOK, Parked, TokenHeld
  <2>1. CASE \E i \in DOMAIN queue : queue[i].reg = wait[t].reg
    BY <2>1, <1>0 DEF Told
  <2>2. CASE wait[t].reg \in live /\ wanted[t].token \in sockets /\ wait[t].reg \in R
    BY <2>2, <1>0 DEF Told
  <2>3. CASE wait[t].reg \in live /\ wanted[t].token \in sockets /\ wait[t].reg \notin R
    BY <2>3, <1>0
  <2> QED BY <2>1, <2>2, <2>3 DEF SocketsInv, HeardOK, TokenHeld
<1> QED BY <1>1, <1>2, <1>3, <1>4, <1>5 DEF SocketsInv

LEMMA AbortSocketStep == ASSUME SocketsInv, NEW t \in Tasks, NEW k \in 1..made, AbortSocket(t, k)
                         PROVE  SocketsInv'
<1> USE DEF None
<1>0. /\ UNCHANGED <<issued, wait, done, made, socket, bits, wanted>> /\ sockets' = sockets \ {k}
      /\ FireAll(Watching(socket[k].handle), TRUE)
    BY DEF AbortSocket
<1>1. ASSUME NEW u \in Tasks, Parked(u), wait[u].reg \in live, wanted[u].token = k
      PROVE  wait[u].reg \in Watching(socket[k].handle)
  <2>1. issued[wait[u].reg].handle = socket[k].handle
    <3>1. issued[wait[u].reg] = Source(u)
        BY <1>1 DEF SocketsInv, LeasesOK, Parked
    <3>2. Source(u).handle = socket[wanted[u].token].handle
        BY DEF Source
    <3> QED BY <1>1, <3>1, <3>2
  <2> QED BY <1>1, <2>1 DEF Watching
<1> PICK R : R = Watching(socket[k].handle)
    OBVIOUS
<1>2. FireAll(R, TRUE) /\ TRUE \in BOOLEAN
    BY <1>0
<1>3. \A u \in Tasks : /\ Parked(u) /\ wait[u].reg \in live /\ wanted[u].token \in sockets
                       /\ wanted[u].token \notin sockets'
                       => wait[u].reg \in R
    BY <1>0, <1>1
<1> QED BY <1>0, <1>2, <1>3, FireStep

LEMMA ReadinessStep == ASSUME SocketsInv, NEW r \in live, Readiness(r) PROVE SocketsInv'
<1>1. PICK s \in 1..made : /\ FireAll({r}, "error" \in bits[s])
                           /\ UNCHANGED <<issued, wait, done, socketVars>>
    BY DEF Readiness
<1>2. PICK e \in BOOLEAN : FireAll({r}, e)
  <2>1. ("error" \in bits[s]) \in BOOLEAN
    OBVIOUS
  <2> QED BY <1>1, <2>1
<1>3. UNCHANGED <<issued, wait, done, made, socket, bits, wanted>> /\ sockets' \subseteq sockets /\ sockets' = sockets
    BY <1>1 DEF socketVars
<1>4. \A t \in Tasks : /\ Parked(t) /\ wait[t].reg \in live /\ wanted[t].token \in sockets
                       /\ wanted[t].token \notin sockets'
                       => wait[t].reg \in {r}
    BY <1>3
<1> QED BY <1>2, <1>3, <1>4, FireStep

\* The owner consumes a notification, and a connection attempt learns of it.
LEMMA PollSocketsStep == SocketsInv /\ PollSockets => SocketsInv'
<1> SUFFICES ASSUME SocketsInv, PollSockets PROVE SocketsInv'
    OBVIOUS
<1>f. SocketsType /\ WaitsType /\ socket \in [Tokens -> SocketRecords]
    BY DEF SocketsInv, SocketsType
<1>0. Poll /\ UNCHANGED <<sockets, made, bits, arrivals, wanted>>
    BY DEF PollSockets
<1>p. /\ queue' \in Seq(Notes) /\ 1 \in DOMAIN queue /\ queue[1] \in Notes
      /\ \A i \in DOMAIN queue' : i + 1 \in DOMAIN queue /\ queue'[i] = queue[i + 1]
      /\ \A i \in DOMAIN queue : i # 1 => \E j \in DOMAIN queue' : queue'[j] = queue[i]
      /\ wait' \in [Tasks -> WaitRecords]
      /\ \A t \in Tasks : /\ wait'[t].reg = wait[t].reg /\ wait'[t].lease = wait[t].lease
                          /\ t \notin Wakes(queue[1]) => wait'[t] = wait[t]
                          /\ t \in Wakes(queue[1]) => wait'[t].ready
      /\ UNCHANGED <<issued, live, done>>
    BY <1>f, <1>0, PollFacts
<1>s. socket' \in [Tokens -> SocketRecords] /\ \A s \in Tokens : socket'[s].handle = socket[s].handle
  <2>1. \A x, e : /\ Readied(x, e) \in [Tokens -> SocketRecords]
                  /\ \A s \in Tokens : Readied(x, e)[s].handle = socket[s].handle
    <3> SUFFICES ASSUME NEW x, NEW e
                 PROVE  /\ Readied(x, e) \in [Tokens -> SocketRecords]
                        /\ \A s \in Tokens : Readied(x, e)[s].handle = socket[s].handle
        OBVIOUS
    <3>1. CASE x \in Tokens /\ socket[x].connection = "pending"
      <4>1. PICK c \in Connections : Readied(x, e) = [socket EXCEPT ![x].connection = c]
        BY <3>1 DEF Readied, Tokens, Connections
      <4> QED BY <4>1, <3>1, <1>f DEF SocketRecords
    <3>2. CASE ~(x \in Tokens /\ socket[x].connection = "pending")
      <4>1. Readied(x, e) = socket
        BY <3>2 DEF Readied, Tokens
      <4> QED BY <4>1, <1>f
    <3> QED BY <3>1, <3>2
  <2>2. socket' = socket \/ \E x, e : socket' = Readied(x, e)
    BY DEF PollSockets
  <2> QED BY <1>f, <2>1, <2>2
<1>a. \A s : Alive(s)' <=> Alive(s)
  <2>1. \A s : Alive(s)' <=> s \in sockets' \/ \E u \in Tasks : wait'[u].lease = s
    BY DEF Alive, Leases
  <2> QED BY <2>1, <1>0, <1>p, AliveFacts
<1>1. SocketsType'
    BY <1>f, <1>0, <1>p, <1>s DEF SocketsType, WaitsType
<1>2. NumbersOK'
    BY <1>a, <1>0, <1>s DEF SocketsInv, NumbersOK
<1>3. LeasesOK'
  <2>1. \A t \in Tasks : wanted[t].token \in Tokens => Source(t)' = Source(t)
    BY <1>0, <1>s DEF Source
  <2>2. \A t \in Tasks : wait[t].reg = None => wait'[t] = wait[t]
    BY <1>p DEF Wakes, Parked
  <2>3. \A t \in Tasks : wait[t].reg # None => issued'[wait'[t].reg] = Source(t)'
    BY <1>p, <2>1 DEF SocketsInv, LeasesOK
  <2> QED BY <1>0, <1>p, <2>2, <2>3 DEF SocketsInv, LeasesOK
<1>4. LiveOK'
  <2>1. \A i \in DOMAIN queue' : queue'[i].reg \in 1..Len(issued) \ live
    BY <1>p DEF SocketsInv, LiveOK
  <2>2. queue[1].reg \notin live
    BY <1>p DEF SocketsInv, LiveOK
  <2>3. \A t \in Tasks : wait[t].reg \in live => wait'[t] = wait[t]
    BY <1>p, <2>2 DEF Wakes
  <2>4. \A c \in live : \E t \in Tasks : wait'[t].reg = c /\ Parked(t)'
    BY <2>3 DEF SocketsInv, LiveOK, Parked
  <2> QED BY <1>p, <2>1, <2>4 DEF SocketsInv, LiveOK
<1>5. HeardOK'
  <2> SUFFICES ASSUME NEW t \in Tasks, Parked(t)'
               PROVE  \/ \E i \in DOMAIN queue' : queue'[i].reg = wait[t].reg
                      \/ wait[t].reg \in live /\ wanted[t].token \in sockets
    BY <1>0, <1>p DEF HeardOK, TokenHeld
  <2>1. t \notin Wakes(queue[1]) /\ Parked(t) /\ wait[t].reg # queue[1].reg
    BY <1>p DEF Parked, Wakes
  <2>2. CASE \E i \in DOMAIN queue : queue[i].reg = wait[t].reg
    BY <2>1, <2>2, <1>p
  <2> QED BY <2>1, <2>2 DEF SocketsInv, HeardOK, TokenHeld
<1> QED BY <1>1, <1>2, <1>3, <1>4, <1>5 DEF SocketsInv

-----------------------------------------------------------------------------
(* The theorems.                                                           *)

LEMMA SocketsStart == WaitsInit /\ SocketsInit => SocketsInv
<1> SUFFICES ASSUME WaitsInit, SocketsInit PROVE SocketsInv
    OBVIOUS
<1> USE DEF None
<1>w. /\ issued = <<>> /\ live = {} /\ queue = <<>> /\ done = {} /\ wait = [t \in Tasks |-> NoWait]
    BY DEF WaitsInit
<1>s. /\ sockets = {} /\ made = 0 /\ socket = [s \in Tokens |-> NoSocket]
      /\ bits = [s \in Tokens |-> {}] /\ wanted = [t \in Tasks |-> Nothing]
    BY DEF SocketsInit, Tokens
<1>t. /\ \A t \in Tasks : wait[t].reg = None /\ wait[t].lease = None /\ ~wait[t].ready
      /\ DOMAIN queue = {} /\ Len(issued) = 0
    BY <1>w DEF NoWait
<1>1. SocketsType
  <2>1. NoWait \in WaitRecords /\ NoSocket \in SocketRecords /\ Nothing \in Wanted
    BY SocketsAssumption DEF NoWait, WaitRecords, NoSocket, SocketRecords, SocketKinds, Connections, Nothing, Wanted
  <2>2. WaitsType /\ issued \in Seq(Sources)
    BY <1>w, <1>t, <2>1, WaitsAssumption DEF WaitsType
  <2>3. /\ socket \in [Tokens -> SocketRecords] /\ bits \in [Tokens -> SUBSET Kernel]
        /\ wanted \in [Tasks -> Wanted]
    BY <1>s, <2>1
  <2>4. made \in 0..MaxSockets /\ sockets \subseteq 1..made
    BY <1>s, SocketsAssumption
  <2> QED BY <2>2, <2>3, <2>4 DEF SocketsType
<1>2. NumbersOK
  <2>1. \A s \in Tokens : ~Alive(s)
    BY <1>s, <1>t, <1>1, SocketFacts, AliveFacts
  <2> QED BY <2>1 DEF NumbersOK
<1>3. LeasesOK /\ LiveOK /\ HeardOK
    BY <1>w, <1>t DEF LeasesOK, LiveOK, HeardOK, Parked
<1> QED BY <1>1, <1>2, <1>3 DEF SocketsInv

\* A step of the sockets.
LEMMA SocketsStep == SocketsInv /\ NextSockets => SocketsInv'
<1> SUFFICES ASSUME SocketsInv, NextSockets PROVE SocketsInv'
    OBVIOUS
<1>1. CASE \E t \in Tasks :
              \/ \E kind \in {"listener", "datagram", "stream"}, c \in {"none", "pending", "connected"} :
                    Make(t, kind, c)
              \/ \E k \in 1..made, d \in Directions : Transfer(t, k, d) \/ WouldBlock(t, k, d)
              \/ \E k \in 1..made : StatusPending(t, k) \/ ConnectStatus(t, k)
              \/ WaitFails(t)
    BY <1>1, UseSteps
<1>2. CASE \E t \in Tasks, k \in 1..made : Close(t, k) \/ AbortSocket(t, k)
    BY <1>2, CloseStep, AbortSocketStep
<1>3. CASE \E t \in Tasks : WaitSocket(t) \/ Resume(t) \/ Revoked(t) \/ CancelSocketTask(t)
    BY <1>3, WaitStep, EndSteps
<1>4. CASE (\E s \in 1..made, b \in Directions \cup {"error"} : Arrive(s, b)) \/ (\E r \in live : Readiness(r))
    BY <1>4, ArriveStep, ReadinessStep
<1>5. CASE PollSockets
    BY <1>5, PollSocketsStep
<1> QED BY <1>1, <1>2, <1>3, <1>4, <1>5 DEF NextSockets

\* Sockets and the waits on them are in order in every state of the native resources.
THEOREM SocketsInvariant == Spec => []NativeSockets
<1>1. Init => NativeSockets
    BY SocketsStart DEF Init, NativeSockets
<1>2. NativeSockets /\ [Next]_vars => NativeSockets'
  <2> SUFFICES ASSUME NativeSockets, [Next]_vars PROVE NativeSockets'
    OBVIOUS
  <2>1. CASE NextSockets
    <3>1. part = "sockets" /\ part' = part
        BY <2>1 DEF NextSockets, InSockets
    <3> QED BY <2>1, <3>1, SocketsStep DEF NativeSockets
  <2>2. CASE NextJobs \/ NextTls \/ NextCapture
    <3>1. part # "sockets" /\ part' = part /\ UNCHANGED socketVars
      <4>1. NextJobs => part # "sockets" /\ part' = part /\ UNCHANGED socketVars
        BY DEF NextJobs, InJobs
      <4>2. NextTls => part # "sockets" /\ part' = part /\ UNCHANGED socketVars
        BY DEF NextTls, InTls
      <4>3. NextCapture => part # "sockets" /\ part' = part /\ UNCHANGED socketVars
        BY DEF NextCapture, InCapture
      <4> QED BY <2>2, <4>1, <4>2, <4>3
    <3> QED BY <3>1 DEF NativeSockets, SocketsInit, socketVars
  <2>3. CASE UNCHANGED vars
    <3>1. UNCHANGED <<waitVars, socketVars, part>>
        BY <2>3 DEF vars
    <3>2. SocketsInv => SocketsInv'
      <4> SUFFICES ASSUME SocketsInv PROVE SocketsInv'
        OBVIOUS
      <4>1. UNCHANGED <<issued, live, queue, wait, done, sockets, made, socket, bits, wanted>>
        BY <3>1 DEF waitVars, socketVars
      <4>2. /\ done \subseteq Tasks /\ socket \in [Tokens -> SocketRecords] /\ bits \in [Tokens -> SUBSET Kernel]
            /\ wanted \in [Tasks -> Wanted]
        BY DEF SocketsInv, SocketsType, WaitsType
      <4> QED BY <4>1, <4>2, QuietStep
    <3> QED BY <3>1, <3>2 DEF NativeSockets, SocketsInit, socketVars
  <2> QED BY <2>1, <2>2, <2>3 DEF Next
<1> QED BY <1>1, <1>2, PTL DEF Spec
=============================================================================
