------------------------------ MODULE TlsProofs ------------------------------
(***************************************************************************)
(* Proofs about Tls, in NativeIo, for any tasks and bounds: one flusher at *)
(* a time, records in order, and no waiter of a flush forgotten; with the  *)
(* other parts, no wakeup is lost.                                         *)
(***************************************************************************)
EXTENDS SocketsProofs

Positions == {"idle", "flush", "wait", "sending", "flushed", "receiving", "received"}
Sessions  == [live : BOOLEAN, generation : Nat, waiters : SUBSET Registrations, output : Seq(Nat),
              input : BOOLEAN, shut : BOOLEAN]
Flags     == [closed : BOOLEAN, reading : BOOLEAN, writing : BOOLEAN, flushing : BOOLEAN, shut : BOOLEAN]

TlsType ==
    /\ issued \in Seq({Completion}) /\ WaitsType
    /\ session \in Sessions /\ flags \in Flags
    /\ at \in [Tasks -> Positions] /\ seen \in [Tasks -> Nat]
    /\ chunk \in [Tasks -> Seq(Nat)] /\ sent \in Seq(Nat)
    /\ broken \in BOOLEAN /\ produced \in Nat

\* The task that sends holds the flag, and only it has records in hand.
FlusherOK ==
    /\ flags.flushing <=> at[Reader] = "sending" \/ at[Writer] = "sending"
    /\ ~(at[Reader] = "sending" /\ at[Writer] = "sending")
    /\ \A t \in Roles : at[t] # "sending" => chunk[t] = <<>>

InHand == Len(chunk[Reader]) + Len(chunk[Writer])

\* Where each record is: gone out, with a flusher, or still in the engine.
OrderOK ==
    /\ \A i \in 1..Len(sent) : sent[i] = i
    /\ ~flags.closed /\ ~broken =>
          /\ Len(sent) + InHand + Len(session.output) = produced
          /\ \A t \in Roles : \A i \in 1..Len(chunk[t]) : chunk[t][i] = Len(sent) + i
          /\ \A i \in 1..Len(session.output) : session.output[i] = Len(sent) + InHand + i

\* A waiter of the generation it saw has a flusher to wait for.
TurnsOK ==
    /\ \A t \in Tasks :
          /\ seen[t] <= session.generation
          /\ at[t] = "wait" /\ session.live /\ seen[t] = session.generation => flags.flushing
          /\ wait[t].reg # None => wait[t].reg <= Len(issued)
          /\ Parked(t) => \/ \E i \in DOMAIN queue : queue[i].reg = wait[t].reg
                          \/ wait[t].reg \in live /\ TurnComes(t)
    /\ \A t, u \in Tasks : wait[t].reg = wait[u].reg /\ wait[t].reg # None => t = u

TlsInv == TlsType /\ FlusherOK /\ OrderOK /\ TurnsOK

NativeTls == IF part = "tls" THEN TlsInv ELSE TlsInit

-----------------------------------------------------------------------------
(* The pieces of a step.                                                   *)

LEMMA ClaimFacts ==
    ASSUME NEW t \in Roles, NEW f \in Flags, NEW b \in BOOLEAN
    PROVE  /\ [f EXCEPT ![Claim(t)] = b] \in Flags
           /\ [f EXCEPT ![Claim(t)] = b].closed = f.closed
           /\ [f EXCEPT ![Claim(t)] = b].flushing = f.flushing
<1>1. CASE Claim(t) = "reading"
    BY <1>1 DEF Flags
<1>2. CASE Claim(t) = "writing"
    BY <1>2 DEF Flags
<1> QED BY <1>1, <1>2 DEF Claim

LEMMA TlsFacts == ASSUME TlsType
                  PROVE  /\ session.live \in BOOLEAN /\ session.generation \in Nat
                         /\ session.waiters \subseteq Registrations /\ session.output \in Seq(Nat)
                         /\ flags.closed \in BOOLEAN /\ flags.flushing \in BOOLEAN
                         /\ chunk[Reader] \in Seq(Nat) /\ chunk[Writer] \in Seq(Nat)
                         /\ Len(sent) \in Nat /\ Len(chunk[Reader]) \in Nat /\ Len(chunk[Writer]) \in Nat
                         /\ Len(session.output) \in Nat /\ Len(issued) \in Nat
                         /\ Roles \subseteq Tasks /\ live \subseteq Registrations
                         /\ \A t \in Tasks : seen[t] \in Nat /\ wait[t].reg \in Nat /\ at[t] \in Positions
                                             /\ wait[t].ready \in BOOLEAN
<1>1. /\ session.live \in BOOLEAN /\ session.generation \in Nat
      /\ session.waiters \subseteq Registrations /\ session.output \in Seq(Nat)
      /\ flags.closed \in BOOLEAN /\ flags.flushing \in BOOLEAN
    BY DEF TlsType, Sessions, Flags
<1>2. chunk[Reader] \in Seq(Nat) /\ chunk[Writer] \in Seq(Nat) /\ Roles \subseteq Tasks
    BY TlsAssumption DEF TlsType, Roles
<1>3. live \subseteq Registrations /\ Len(issued) \in Nat
  <2>1. Len(issued) \in Nat /\ Len(issued) <= MaxWaits /\ live \subseteq 1..Len(issued)
    BY DEF TlsType, WaitsType
  <2>2. 1..Len(issued) \subseteq Registrations
    BY <2>1, WaitsAssumption DEF Registrations
  <2> QED BY <2>1, <2>2
<1>4. \A t \in Tasks : /\ seen[t] \in Nat /\ wait[t].reg \in Nat /\ at[t] \in Positions
                       /\ wait[t].ready \in BOOLEAN
    BY DEF TlsType, WaitsType, WaitRecords
<1>5. /\ Len(sent) \in Nat /\ Len(chunk[Reader]) \in Nat /\ Len(chunk[Writer]) \in Nat
      /\ Len(session.output) \in Nat
    BY <1>1, <1>2 DEF TlsType
<1> QED BY <1>1, <1>2, <1>3, <1>4, <1>5

\* Nobody starts or stops sending.
KeepFlusher ==
    /\ flags'.flushing = flags.flushing /\ chunk' = chunk
    /\ \A t \in Roles : at'[t] = "sending" <=> at[t] = "sending"

\* No record moves.
KeepOrder ==
    /\ UNCHANGED <<sent, chunk, broken, produced>>
    /\ session'.output = session.output /\ (flags.closed => flags'.closed)

\* The generation stands and nobody is told.
KeepTurns ==
    /\ UNCHANGED <<issued, live, queue, wait, seen>> /\ flags'.flushing = flags.flushing
    /\ session'.live = session.live /\ session'.generation = session.generation
    /\ session'.waiters = session.waiters
    /\ \A t \in Tasks : at'[t] = "wait" => at[t] = "wait"

\* Every waiter is told, and the generation is over.
EndTurns ==
    /\ UNCHANGED <<issued, wait, seen>> /\ FireAll(Waiters, FALSE)
    /\ \/ session'.live = FALSE /\ session'.generation = session.generation
       \/ session'.generation = session.generation + 1
    /\ \A t \in Tasks : at'[t] = "wait" => at[t] = "wait"

LEMMA KeptFlusher == FlusherOK /\ KeepFlusher => FlusherOK'
    BY DEF FlusherOK, KeepFlusher, Roles

LEMMA KeptOrder == OrderOK /\ KeepOrder => OrderOK'
<1> SUFFICES ASSUME OrderOK, KeepOrder PROVE OrderOK'
    OBVIOUS
<1>1. /\ sent' = sent /\ chunk' = chunk /\ broken' = broken /\ produced' = produced
      /\ session'.output = session.output
    BY DEF KeepOrder
<1>2. ~flags'.closed => ~flags.closed
    BY Zenon DEF KeepOrder
<1> QED BY <1>1, <1>2 DEF OrderOK, InHand

LEMMA KeptTurns == TurnsOK /\ KeepTurns => TurnsOK'
    BY DEF TurnsOK, KeepTurns, TurnComes, Parked

LEMMA EndedTurns ==
    ASSUME TlsType, TurnsOK, EndTurns
    PROVE  TurnsOK' /\ queue' \in Seq(Notes) /\ live' \subseteq live
<1>0. queue \in Seq(Notes) /\ Waiters \cap live \subseteq Registrations
    BY TlsFacts DEF TlsType, WaitsType
<1>1. live' = live \ Waiters /\ Told(queue', Waiters \cap live)
  <2> PICK R : R = Waiters
    OBVIOUS
  <2>1. FireAll(R, FALSE) /\ R \cap live \subseteq Registrations
    BY <1>0 DEF EndTurns
  <2> QED BY <1>0, <2>1, FireFacts
<1>2. \A t \in Tasks : /\ seen'[t] <= session'.generation
                       /\ ~(session'.live /\ seen'[t] = session'.generation)
    BY TlsFacts DEF EndTurns, TurnsOK
<1>3. ASSUME NEW t \in Tasks, Parked(t)
      PROVE  \E i \in DOMAIN queue' : queue'[i].reg = wait[t].reg
  <2>1. CASE \E i \in DOMAIN queue : queue[i].reg = wait[t].reg
    BY <2>1, <1>1 DEF Told
  <2>2. CASE wait[t].reg \in live /\ TurnComes(t)
    <3>1. wait[t].reg \in Waiters \cap live
        BY <2>2 DEF TurnComes, Waiters
    <3> QED BY <3>1, <1>1 DEF Told
  <2> QED BY <1>3, <2>1, <2>2 DEF TurnsOK
<1>4. TurnsOK'
    BY <1>2, <1>3 DEF TurnsOK, EndTurns, Parked
<1> QED BY <1>1, <1>4 DEF Told

\* A step that moves no record and no flusher.
LEMMA Settled ==
    ASSUME TlsInv, TlsType', KeepFlusher, KeepOrder, KeepTurns \/ EndTurns
    PROVE  TlsInv'
    BY KeptFlusher, KeptOrder, KeptTurns, EndedTurns DEF TlsInv

\* The engine makes one more record.
LEMMA Produced ==
    ASSUME TlsType, OrderOK, UNCHANGED <<sent, chunk, broken>>, flags'.closed = flags.closed,
           session'.output = Append(session.output, produced + 1), produced' = produced + 1
    PROVE  OrderOK'
<1> DEFINE o == session.output
           b == Len(sent) + InHand
<1>0. o \in Seq(Nat) /\ Len(o) \in Nat /\ b \in Nat /\ produced \in Nat
  <2>1. Len(sent) \in Nat /\ InHand \in Nat
    <3>1. Len(sent) \in Nat /\ Len(chunk[Reader]) \in Nat /\ Len(chunk[Writer]) \in Nat
        BY TlsFacts
    <3>2. \A x, y \in Nat : x + y \in Nat
        OBVIOUS
    <3> QED BY ONLY <3>1, <3>2 DEF InHand
  <2>2. o \in Seq(Nat) /\ Len(o) \in Nat
    BY TlsFacts
  <2>3. b \in Nat
    <3>1. \A x, y \in Nat : x + y \in Nat
        OBVIOUS
    <3> QED BY ONLY <2>1, <3>1
  <2>4. produced \in Nat
    BY DEF TlsType
  <2> QED BY <2>2, <2>3, <2>4
<1>1. /\ Len(session'.output) = Len(o) + 1 /\ session'.output[Len(o) + 1] = produced + 1
      /\ \A i \in 1..Len(o) : session'.output[i] = o[i]
    BY <1>0
<1> SUFFICES ASSUME ~flags.closed, ~broken
             PROVE  /\ b + Len(session'.output) = produced + 1
                    /\ \A i \in 1..Len(session'.output) : session'.output[i] = b + i
    BY DEF OrderOK, InHand
<1>2. b + Len(o) = produced /\ \A i \in 1..Len(o) : o[i] = b + i
    BY DEF OrderOK
<1> HIDE DEF o, b
<1>3. \A i \in 1..(Len(o) + 1) : i \in 1..Len(o) \/ i = Len(o) + 1
    BY <1>0
<1>4. b + Len(session'.output) = produced + 1
    BY <1>0, <1>1, <1>2
<1>5. ASSUME NEW i \in 1..Len(session'.output) PROVE session'.output[i] = b + i
  <2>1. CASE i \in 1..Len(o)
    BY <2>1, <1>1, <1>2
  <2>2. CASE i = Len(o) + 1
    <3>1. session'.output[i] = produced + 1
        BY <2>2, <1>1
    <3>2. produced + 1 = b + (Len(o) + 1)
        BY <1>0, <1>2
    <3> QED BY <2>2, <3>1, <3>2
  <2> QED BY <2>1, <2>2, <1>1, <1>3
<1> QED BY <1>4, <1>5

LEMMA SessionFacts ==
    ASSUME NEW s \in Sessions
    PROVE  /\ s.live \in BOOLEAN /\ s.generation \in Nat /\ s.output \in Seq(Nat)
           /\ Notified(s) \in Sessions /\ Notified(s).output = s.output /\ Notified(s).live = s.live
           /\ s.live => Notified(s).generation = s.generation + 1
           /\ ~s.live => Notified(s) = s
           /\ Released(s) \in Sessions /\ Released(s).output = s.output /\ Released(s).live = FALSE
           /\ Released(s).generation = s.generation
           /\ Emptied(s) \in Sessions /\ Emptied(s).output = <<>> /\ Emptied(s).live = s.live
           /\ Emptied(s).generation = s.generation /\ Emptied(s).waiters = s.waiters
<1>1. s.live \in BOOLEAN /\ s.generation \in Nat /\ s.output \in Seq(Nat)
    BY DEF Sessions
<1>2. /\ Released(s) \in Sessions /\ Released(s).output = s.output /\ Released(s).live = FALSE
      /\ Released(s).generation = s.generation
    BY DEF Sessions, Released
<1>3. /\ Emptied(s) \in Sessions /\ Emptied(s).output = <<>> /\ Emptied(s).live = s.live
      /\ Emptied(s).generation = s.generation /\ Emptied(s).waiters = s.waiters
  <2>1. <<>> \in Seq(Nat)
    OBVIOUS
  <2> QED BY <2>1 DEF Sessions, Emptied
<1>4. CASE s.live
  <2>1. Notified(s) = [s EXCEPT !.generation = @ + 1, !.waiters = {}]
    BY <1>4 DEF Notified
  <2>2. s.generation + 1 \in Nat /\ {} \in SUBSET Registrations
    BY <1>1
  <2>3. /\ Notified(s) \in Sessions /\ Notified(s).output = s.output /\ Notified(s).live = s.live
        /\ Notified(s).generation = s.generation + 1
    BY <2>1, <2>2 DEF Sessions
  <2> QED BY <1>1, <1>2, <1>3, <1>4, <2>3
<1>5. CASE ~s.live
  <2>1. Notified(s) = s
    BY <1>5 DEF Notified
  <2> QED BY <1>1, <1>2, <1>3, <1>5, <2>1
<1> QED BY <1>1, <1>4, <1>5

\* The flusher's records have gone out; what it takes next, if anything, is all the
\* engine has.
LEMMA Handed ==
    ASSUME TlsType, OrderOK, NEW t \in Roles, NEW u \in Roles, t # u, chunk[u] = <<>>, chunk'[u] = <<>>,
           sent' \in Seq(Nat), Len(sent') = Len(sent) + Len(chunk[t]), \A i \in 1..Len(sent') : sent'[i] = i,
           flags'.closed = flags.closed, broken' = broken, produced' = produced,
           \/ chunk'[t] = <<>> /\ session'.output = session.output
           \/ chunk'[t] = session.output /\ session'.output = <<>>
    PROVE  OrderOK'
<1>0. /\ Len(sent) \in Nat /\ Len(chunk[t]) \in Nat /\ session.output \in Seq(Nat)
      /\ Len(session.output) \in Nat /\ Len(<<>>) = 0 /\ Len(chunk[u]) = 0 /\ Len(chunk'[u]) = 0
      /\ Len(chunk'[t]) \in Nat
    BY TlsFacts DEF Roles
<1>1. (t = Reader /\ u = Writer) \/ (t = Writer /\ u = Reader)
    BY DEF Roles
<1>2. InHand = Len(chunk[t]) /\ InHand' = Len(chunk'[t])
  <2>1. \A x \in Nat : x + 0 = x /\ 0 + x = x
    OBVIOUS
  <2> QED BY <1>0, <1>1, <2>1 DEF InHand
<1> SUFFICES ASSUME ~flags.closed, ~broken
             PROVE  /\ Len(sent') + InHand' + Len(session'.output) = produced
                    /\ \A v \in Roles : \A i \in 1..Len(chunk'[v]) : chunk'[v][i] = Len(sent') + i
                    /\ \A i \in 1..Len(session'.output) : session'.output[i] = Len(sent') + InHand' + i
    BY DEF OrderOK
<1>3. /\ Len(sent) + InHand + Len(session.output) = produced
      /\ \A i \in 1..Len(session.output) : session.output[i] = Len(sent) + InHand + i
    BY DEF OrderOK
<1>z. \A n \in Nat : n + 0 = n
    OBVIOUS
<1>4. CASE chunk'[t] = <<>> /\ session'.output = session.output
  <2>1. InHand' = 0 /\ Len(sent') = Len(sent) + InHand /\ Len(sent') \in Nat
    BY <1>0, <1>2, <1>4
  <2>2. Len(sent') + InHand' = Len(sent) + InHand
    BY <2>1, <1>z
  <2>3. \A v \in Roles : chunk'[v] = <<>>
    BY <1>1, <1>4 DEF Roles
  <2>4. \A v \in Roles : 1..Len(chunk'[v]) = {}
    BY <2>3
  <2> QED BY <1>3, <1>4, <2>2, <2>4
<1>5. CASE chunk'[t] = session.output /\ session'.output = <<>>
  <2>1. InHand' = Len(session.output) /\ Len(sent') = Len(sent) + InHand /\ Len(sent') \in Nat
    BY <1>0, <1>2, <1>5
  <2>2. Len(sent') + InHand' + Len(session'.output) = produced
    <3>1. Len(sent') + InHand' = produced /\ produced \in Nat
        BY <2>1, <1>3 DEF TlsType
    <3>2. Len(session'.output) = 0
        BY <1>0, <1>5
    <3> QED BY <3>1, <3>2, <1>z
  <2>3. \A v \in Roles : \A i \in 1..Len(chunk'[v]) : v = t /\ chunk'[v][i] = Len(sent') + i
    <3>1. 1..Len(chunk'[u]) = {}
        BY <1>0
    <3>2. \A i \in 1..Len(chunk'[t]) : chunk'[t][i] = Len(sent') + i
        BY <1>3, <1>5, <2>1
    <3> QED BY <1>1, <3>1, <3>2 DEF Roles
  <2>4. 1..Len(session'.output) = {}
    BY <1>0, <1>5
  <2> QED BY <2>2, <2>3, <2>4
<1> QED BY <1>4, <1>5

\* A flush ends with the flag, and where the records are is known.
LEMMA EndFlushStep ==
    ASSUME TlsInv, NEW t \in Roles, NEW u \in Roles, t # u, at[u] # "sending", NEW o, EndFlush(t, o),
           UNCHANGED <<issued, wait, done, seen, produced>>, sent' \in Seq(Nat), broken' \in BOOLEAN, OrderOK'
    PROVE  TlsInv'
<1>0. /\ TlsType /\ FlusherOK /\ TurnsOK /\ t \in Tasks /\ u \in Tasks /\ Roles = {t, u}
    BY TlsAssumption DEF TlsInv, Roles
<1>1. /\ flags' = [flags EXCEPT !.flushing = FALSE] /\ session' = Notified(session) /\ FireAll(Waiters, FALSE)
      /\ chunk' = [chunk EXCEPT ![t] = <<>>] /\ at' = [at EXCEPT ![t] = "flushed"]
    BY DEF EndFlush
<1>s. session \in Sessions
    BY <1>0 DEF TlsType
<1>2. EndTurns
  <2>1. \A v \in Tasks : at'[v] = "wait" => at[v] = "wait"
    BY <1>0, <1>1 DEF TlsType
  <2>2. \/ session'.live = FALSE /\ session'.generation = session.generation
        \/ session'.generation = session.generation + 1
    BY <1>1, <1>s, SessionFacts
  <2> QED BY <1>1, <2>1, <2>2 DEF EndTurns
<1>3. TurnsOK' /\ queue' \in Seq(Notes) /\ live' \subseteq live
    BY <1>0, <1>2, EndedTurns
<1>4. TlsType'
  <2>1. session' \in Sessions
    BY <1>1, <1>s, SessionFacts
  <2>2. flags' \in Flags
    BY <1>0, <1>1 DEF TlsType, Flags
  <2>3. at' \in [Tasks -> Positions] /\ chunk' \in [Tasks -> Seq(Nat)]
    BY <1>0, <1>1 DEF TlsType, Positions
  <2>4. WaitsType'
    BY <1>0, <1>3 DEF TlsType, WaitsType
  <2> QED BY <1>0, <2>1, <2>2, <2>3, <2>4 DEF TlsType
<1>5. FlusherOK'
  <2>1. flags'.flushing = FALSE
    BY <1>0, <1>1 DEF TlsType, Flags
  <2>2. at'[t] = "flushed" /\ at'[u] = at[u] /\ chunk'[t] = <<>> /\ chunk'[u] = <<>>
    BY <1>0, <1>1 DEF TlsType, FlusherOK
  <2> QED BY <2>1, <2>2, <1>0 DEF FlusherOK, Roles
<1> QED BY <1>3, <1>4, <1>5 DEF TlsInv

\* A turn of the sending loop, once the chunk in hand has gone out.
LEMMA SendMoreStep ==
    ASSUME TlsInv, NEW t \in Roles, NEW u \in Roles, t # u, at[u] # "sending", SendMore(t) \/ EndFlush(t, "ok"),
           UNCHANGED <<issued, wait, done, seen, broken, produced>>, at[t] # "wait",
           sent' \in Seq(Nat), Len(sent') = Len(sent) + Len(chunk[t]), \A i \in 1..Len(sent') : sent'[i] = i
    PROVE  TlsInv'
<1>0. /\ TlsType /\ FlusherOK /\ TurnsOK /\ OrderOK /\ t \in Tasks /\ u \in Tasks /\ Roles = {t, u}
      /\ chunk[u] = <<>> /\ session \in Sessions
  <2>1. TlsType /\ FlusherOK /\ TurnsOK /\ OrderOK /\ t \in Tasks /\ u \in Tasks /\ Roles = {t, u}
    BY TlsAssumption DEF TlsInv, Roles
  <2> QED BY <2>1 DEF FlusherOK, TlsType
<1>1. ASSUME NEW o, EndFlush(t, o) PROVE TlsInv'
  <2>1. /\ flags' = [flags EXCEPT !.flushing = FALSE] /\ session' = Notified(session)
        /\ chunk' = [chunk EXCEPT ![t] = <<>>]
    BY <1>1 DEF EndFlush
  <2>2. flags'.closed = flags.closed
    BY <2>1, <1>0 DEF TlsType, Flags
  <2>3. chunk'[t] = <<>> /\ chunk'[u] = <<>> /\ session'.output = session.output
    BY <2>1, <1>0, SessionFacts DEF TlsType
  <2>4. OrderOK'
    BY <1>0, <2>2, <2>3, Handed
  <2>5. broken' \in BOOLEAN
    BY <1>0 DEF TlsType
  <2> QED BY <1>0, <1>1, <2>4, <2>5, EndFlushStep
<1>2. ASSUME session.live, session.output # <<>>, chunk' = [chunk EXCEPT ![t] = session.output],
             session' = Emptied(session), flags' = [flags EXCEPT !.flushing = TRUE],
             at' = [at EXCEPT ![t] = "sending"], UNCHANGED <<live, queue, result>>
      PROVE TlsInv'
  <2>1. /\ session' \in Sessions /\ session'.output = <<>> /\ session'.live = session.live
        /\ session'.generation = session.generation /\ session'.waiters = session.waiters
    BY <1>0, <1>2, SessionFacts
  <2>2. flags' \in Flags /\ flags'.closed = flags.closed /\ flags'.flushing = TRUE
    BY <1>0, <1>2 DEF TlsType, Flags
  <2>3. /\ chunk' \in [Tasks -> Seq(Nat)] /\ chunk'[t] = session.output /\ chunk'[u] = <<>>
    <3>1. session.output \in Seq(Nat) /\ chunk \in [Tasks -> Seq(Nat)]
        BY <1>0, SessionFacts DEF TlsType
    <3> QED BY <1>0, <1>2, <3>1
  <2>4. at' \in [Tasks -> Positions] /\ at'[t] = "sending" /\ \A v \in Tasks : v # t => at'[v] = at[v]
    BY <1>0, <1>2 DEF TlsType, Positions
  <2>5. TlsType'
    BY <1>0, <1>2, <2>1, <2>2, <2>3, <2>4 DEF TlsType, WaitsType
  <2>6. FlusherOK'
    BY <1>0, <2>2, <2>3, <2>4 DEF FlusherOK, Roles
  <2>7. OrderOK'
    BY <1>0, <2>1, <2>2, <2>3, Handed
  <2>8. TurnsOK'
    <3>1. \A v \in Tasks : at'[v] = "wait" => at[v] = "wait"
        BY <2>4
    <3> QED BY <1>0, <1>2, <2>1, <2>2, <3>1 DEF TurnsOK, TurnComes, Parked
  <2> QED BY <2>5, <2>6, <2>7, <2>8 DEF TlsInv
<1> QED BY <1>1, <1>2 DEF SendMore

-----------------------------------------------------------------------------
(* The operations, step by step.                                           *)

\* A task goes on; nobody is told.
LEMMA MoveStep ==
    ASSUME TlsInv, NEW t \in Roles, at[t] # "sending", NEW p \in Positions \ {"wait", "sending"},
           at' = [at EXCEPT ![t] = p], UNCHANGED <<issued, live, queue, wait, done, seen, chunk, sent, broken, produced>>,
           flags' \in Flags, flags'.flushing = flags.flushing, flags'.closed = flags.closed,
           session' \in Sessions, session'.output = session.output, session'.live = session.live,
           session'.generation = session.generation, session'.waiters = session.waiters
    PROVE  TlsInv'
<1>0. TlsType /\ t \in Tasks /\ Roles \subseteq Tasks
    BY TlsAssumption DEF TlsInv, Roles
<1>1. at' \in [Tasks -> Positions] /\ at'[t] = p /\ \A v \in Tasks : v # t => at'[v] = at[v]
    BY <1>0 DEF TlsType
<1>2. TlsType'
    BY <1>0, <1>1 DEF TlsType, WaitsType
<1>3. KeepFlusher
    BY <1>0, <1>1 DEF KeepFlusher
<1>4. KeepOrder
    BY DEF KeepOrder
<1>5. KeepTurns
    BY <1>1 DEF KeepTurns
<1> QED BY <1>2, <1>3, <1>4, <1>5, Settled

\* The stream is retired.
LEMMA AbortStreamStep ==
    ASSUME TlsInv, at' \in [Tasks -> Positions], \A v \in Tasks : at'[v] = "wait" => at[v] = "wait",
           \A v \in Roles : at'[v] = "sending" <=> at[v] = "sending",
           NEW fs \in Flags, fs.flushing = flags.flushing, AbortStream(fs),
           UNCHANGED <<issued, wait, done, seen, chunk, sent, broken, produced>>
    PROVE  TlsInv'
<1>0. TlsType /\ TurnsOK /\ session \in Sessions
    BY DEF TlsInv, TlsType
<1>1. flags' = [fs EXCEPT !.closed = TRUE] /\ session' = Released(session) /\ FireAll(Waiters, FALSE)
    BY DEF AbortStream
<1>2. flags' \in Flags /\ flags'.flushing = flags.flushing /\ flags'.closed = TRUE
    BY <1>1 DEF Flags
<1>3. /\ session' \in Sessions /\ session'.output = session.output /\ session'.live = FALSE
      /\ session'.generation = session.generation
    BY <1>0, <1>1, SessionFacts
<1>4. EndTurns
    BY <1>1, <1>3 DEF EndTurns
<1>5. queue' \in Seq(Notes) /\ live' \subseteq live
    BY <1>0, <1>4, EndedTurns
<1>6. TlsType'
    BY <1>0, <1>2, <1>3, <1>5 DEF TlsType, WaitsType
<1>7. KeepFlusher
    BY <1>2 DEF KeepFlusher
<1>8. KeepOrder
    BY <1>2, <1>3 DEF KeepOrder
<1> QED BY <1>4, <1>6, <1>7, <1>8, Settled

LEMMA EndOperationStep ==
    ASSUME TlsInv, NEW t \in Roles, at[t] # "sending", NEW success \in BOOLEAN, EndOperation(t, success),
           UNCHANGED <<issued, wait, done, seen, chunk, sent, broken, produced>>
    PROVE  TlsInv'
<1>0. /\ TlsType /\ t \in Tasks /\ flags \in Flags /\ session \in Sessions /\ at \in [Tasks -> Positions]
      /\ Roles \subseteq Tasks
    BY TlsAssumption DEF TlsInv, TlsType, Roles
<1>1. at' = [at EXCEPT ![t] = "idle"]
    BY DEF EndOperation
<1>2. CASE success \/ flags.closed
  <2>1. /\ flags' = [flags EXCEPT ![Claim(t)] = FALSE,
                                  !.shut = @ \/ (t = Writer /\ success /\ session.shut)]
        /\ UNCHANGED <<session, live, queue>>
    BY <1>2 DEF EndOperation
  <2>2. PICK x : x = (t = Writer /\ success /\ session.shut)
    OBVIOUS
  <2>3. flags' = [flags EXCEPT ![Claim(t)] = FALSE, !.shut = @ \/ x]
    BY <2>1, <2>2
  <2>4. \A y : (y \/ x) \in BOOLEAN
    OBVIOUS
  <2>5. flags' \in Flags /\ flags'.closed = flags.closed /\ flags'.flushing = flags.flushing
    <3>1. CASE Claim(t) = "reading"
        BY <1>0, <2>3, <2>4, <3>1 DEF Flags
    <3>2. CASE Claim(t) = "writing"
        BY <1>0, <2>3, <2>4, <3>2 DEF Flags
    <3> QED BY <3>1, <3>2 DEF Claim
  <2>6. "idle" \in Positions \ {"wait", "sending"}
    BY DEF Positions
  <2> QED BY <1>0, <1>1, <2>1, <2>5, <2>6, MoveStep
<1>3. CASE ~(success \/ flags.closed)
  <2>1. AbortStream([flags EXCEPT ![Claim(t)] = FALSE])
    BY <1>3 DEF EndOperation
  <2>2. PICK f : f = [flags EXCEPT ![Claim(t)] = FALSE]
    OBVIOUS
  <2>3. f \in Flags /\ f.flushing = flags.flushing /\ AbortStream(f)
    BY <1>0, <2>1, <2>2, ClaimFacts
  <2>4. /\ at' \in [Tasks -> Positions] /\ \A v \in Tasks : at'[v] = "wait" => at[v] = "wait"
        /\ \A v \in Roles : at'[v] = "sending" <=> at[v] = "sending"
    BY <1>0, <1>1 DEF Positions
  <2> QED BY <2>3, <2>4, AbortStreamStep
<1> QED BY <1>2, <1>3

LEMMA ReadEngineStep ==
    ASSUME TlsInv, NEW t \in Roles, at[t] # "sending", NEW fs \in Flags, fs.flushing = flags.flushing,
           fs.closed = flags.closed, ReadEngine(t, session, fs),
           UNCHANGED <<issued, wait, done, seen, chunk, sent, broken, produced>>
    PROVE  TlsInv'
<1>0. session \in Sessions /\ "idle" \in Positions \ {"wait", "sending"} /\ "receiving" \in Positions \ {"wait", "sending"}
    BY DEF TlsInv, TlsType, Positions
<1>1. CASE EndOperation(t, FALSE)
  <2>1. FALSE \in BOOLEAN
    OBVIOUS
  <2> QED BY <1>1, <2>1, EndOperationStep
<1>2. CASE /\ at' = [at EXCEPT ![t] = "idle"] /\ flags' = [fs EXCEPT ![Claim(t)] = FALSE]
           /\ session' = [session EXCEPT !.input = FALSE] /\ UNCHANGED <<live, queue>>
  <2>1. flags' \in Flags /\ flags'.closed = flags.closed /\ flags'.flushing = flags.flushing
    BY <1>2, ClaimFacts
  <2>2. /\ session' \in Sessions /\ session'.output = session.output /\ session'.live = session.live
        /\ session'.generation = session.generation /\ session'.waiters = session.waiters
    BY <1>0, <1>2 DEF Sessions
  <2> QED BY <1>0, <1>2, <2>1, <2>2, MoveStep
<1>3. CASE at' = [at EXCEPT ![t] = "receiving"] /\ flags' = fs /\ session' = session /\ UNCHANGED <<live, queue>>
    BY <1>0, <1>3, MoveStep
<1> QED BY <1>1, <1>2, <1>3 DEF ReadEngine

LEMMA ReadOnStep ==
    ASSUME TlsInv, NEW t \in Roles, at[t] # "sending", NEW fs \in Flags, fs.flushing = flags.flushing,
           fs.closed = flags.closed, ReadOn(t, session, fs),
           UNCHANGED <<issued, wait, done, seen, chunk, sent, broken, produced>>
    PROVE  TlsInv'
<1>0. session \in Sessions /\ "flush" \in Positions \ {"wait", "sending"}
    BY DEF TlsInv, TlsType, Positions
<1>1. CASE ReadEngine(t, session, fs)
    BY <1>1, ReadEngineStep
<1>2. CASE at' = [at EXCEPT ![t] = "flush"] /\ flags' = fs /\ session' = session /\ UNCHANGED <<live, queue>>
    BY <1>0, <1>2, MoveStep
<1> QED BY <1>1, <1>2 DEF ReadOn

\* A task goes on after the engine made one more record.
LEMMA ProduceStep ==
    ASSUME TlsInv, NEW t \in Roles, at[t] # "sending", NEW p \in Positions \ {"wait", "sending"},
           at' = [at EXCEPT ![t] = p], UNCHANGED <<issued, live, queue, wait, done, seen, chunk, sent, broken>>,
           flags' \in Flags, flags'.flushing = flags.flushing, flags'.closed = flags.closed, produced' = produced + 1,
           session' \in Sessions, session'.output = Append(session.output, produced + 1),
           session'.live = session.live, session'.generation = session.generation,
           session'.waiters = session.waiters
    PROVE  TlsInv'
<1>0. TlsType /\ FlusherOK /\ OrderOK /\ TurnsOK /\ t \in Tasks /\ Roles \subseteq Tasks
    BY TlsAssumption DEF TlsInv, Roles
<1>1. at' \in [Tasks -> Positions] /\ at'[t] = p /\ \A v \in Tasks : v # t => at'[v] = at[v]
    BY <1>0 DEF TlsType
<1>2. TlsType'
    BY <1>0, <1>1 DEF TlsType, WaitsType
<1>3. FlusherOK'
  <2>1. KeepFlusher
    BY <1>0, <1>1 DEF KeepFlusher
  <2> QED BY <1>0, <2>1, KeptFlusher
<1>4. OrderOK'
    BY <1>0, Produced
<1>5. TurnsOK'
  <2>1. KeepTurns
    BY <1>1 DEF KeepTurns
  <2> QED BY <1>0, <2>1, KeptTurns
<1> QED BY <1>2, <1>3, <1>4, <1>5 DEF TlsInv

LEMMA ProduceFacts ==
    ASSUME TlsInv, NEW b \in BOOLEAN
    PROVE  \A x \in {Produce(session), [Produce(session) EXCEPT !.shut = b], [Produce(session) EXCEPT !.input = b]} :
               /\ x \in Sessions /\ x.output = Append(session.output, produced + 1) /\ x.live = session.live
               /\ x.generation = session.generation /\ x.waiters = session.waiters
<1>0. session \in Sessions /\ produced + 1 \in Nat
    BY DEF TlsInv, TlsType
<1>1. Append(session.output, produced + 1) \in Seq(Nat)
  <2>1. session.output \in Seq(Nat)
    BY <1>0, SessionFacts
  <2> QED BY <1>0, <2>1
<1> PICK o : o = Append(session.output, produced + 1)
    OBVIOUS
<1>2. Produce(session) = [session EXCEPT !.output = o] /\ o \in Seq(Nat)
    BY <1>1 DEF Produce
<1>3. PICK p : p = Produce(session)
    OBVIOUS
<1>4. /\ p \in Sessions /\ p.output = o /\ p.live = session.live
      /\ p.generation = session.generation /\ p.waiters = session.waiters
    BY <1>0, <1>2, <1>3 DEF Sessions
<1>5. \A x \in {[p EXCEPT !.shut = b], [p EXCEPT !.input = b]} :
         /\ x \in Sessions /\ x.output = p.output /\ x.live = p.live
         /\ x.generation = p.generation /\ x.waiters = p.waiters
    BY <1>4 DEF Sessions
<1> QED BY <1>3, <1>4, <1>5

LEMMA RolesFacts == ASSUME NEW t \in Roles
                    PROVE  t \in Tasks /\ \E u \in Roles : u # t /\ u \in Tasks /\ Roles = {t, u}
    BY TlsAssumption DEF Roles

LEMMA BeginReadStep == ASSUME TlsInv, NEW t \in Roles, BeginRead(t) PROVE TlsInv'
<1>1. /\ at[t] # "sending" /\ ReadOn(t, session, [flags EXCEPT !.reading = TRUE])
      /\ UNCHANGED <<issued, wait, done, seen, chunk, sent, broken, produced>>
    BY DEF BeginRead, Open
<1>2. PICK fs : fs = [flags EXCEPT !.reading = TRUE]
    OBVIOUS
<1>3. fs \in Flags /\ fs.flushing = flags.flushing /\ fs.closed = flags.closed
    BY <1>2 DEF TlsInv, TlsType, Flags
<1> QED BY <1>1, <1>2, <1>3, ReadOnStep

LEMMA AfterReceiveStep == ASSUME TlsInv, NEW t \in Roles, AfterReceive(t) PROVE TlsInv'
<1>1. /\ at[t] # "sending" /\ ReadOn(t, session, flags)
      /\ UNCHANGED <<issued, wait, done, seen, chunk, sent, broken, produced>>
    BY DEF AfterReceive
<1>2. PICK fs : fs = flags
    OBVIOUS
<1>3. fs \in Flags /\ fs.flushing = flags.flushing /\ fs.closed = flags.closed
    BY <1>2 DEF TlsInv, TlsType
<1> QED BY <1>1, <1>2, <1>3, ReadOnStep

LEMMA ReceiveFailsStep == ASSUME TlsInv, NEW t \in Roles, ReceiveFails(t) PROVE TlsInv'
<1>1. /\ at[t] # "sending" /\ EndOperation(t, FALSE) /\ FALSE \in BOOLEAN
      /\ UNCHANGED <<issued, wait, done, seen, chunk, sent, broken, produced>>
    BY DEF ReceiveFails
<1> QED BY <1>1, EndOperationStep

LEMMA BeginWriteStep == ASSUME TlsInv, NEW t \in Roles, NEW shut \in BOOLEAN, BeginWrite(t, shut) PROVE TlsInv'
<1>1. /\ at[t] # "sending" /\ session' = [Produce(session) EXCEPT !.shut = shut] /\ produced' = produced + 1
      /\ at' = [at EXCEPT ![t] = "flush"] /\ flags' = [flags EXCEPT !.writing = TRUE]
      /\ UNCHANGED <<issued, live, queue, wait, done, seen, chunk, sent, broken>>
    BY DEF BeginWrite, Open, waitVars
<1>2. flags' \in Flags /\ flags'.flushing = flags.flushing /\ flags'.closed = flags.closed
    BY <1>1 DEF TlsInv, TlsType, Flags
<1>3. /\ session' \in Sessions /\ session'.output = Append(session.output, produced + 1)
      /\ session'.live = session.live /\ session'.generation = session.generation
      /\ session'.waiters = session.waiters
    BY <1>1, ProduceFacts
<1>4. "flush" \in Positions \ {"wait", "sending"}
    BY DEF Positions
<1> QED BY <1>1, <1>2, <1>3, <1>4, ProduceStep

LEMMA AfterFlushStep == ASSUME TlsInv, NEW t \in Roles, AfterFlush(t) PROVE TlsInv'
<1>0. /\ at[t] # "sending" /\ UNCHANGED <<issued, wait, done, seen, chunk, sent, broken>>
      /\ TRUE \in BOOLEAN /\ FALSE \in BOOLEAN /\ flags \in Flags
    BY DEF AfterFlush, TlsInv, TlsType
<1>1. CASE EndOperation(t, FALSE) /\ UNCHANGED produced
    BY <1>0, <1>1, EndOperationStep
<1>2. CASE EndOperation(t, TRUE) /\ UNCHANGED produced
    BY <1>0, <1>2, EndOperationStep
<1>3. CASE ReadEngine(t, session, flags) /\ UNCHANGED produced
  <2> PICK fs : fs = flags
    OBVIOUS
  <2>1. fs \in Flags /\ fs.flushing = flags.flushing /\ fs.closed = flags.closed /\ ReadEngine(t, session, fs)
    BY <1>0, <1>3
  <2> QED BY <1>0, <1>3, <2>1, ReadEngineStep
<1>4. CASE /\ session' = Produce(session) /\ produced' = produced + 1 /\ at' = [at EXCEPT ![t] = "flush"]
           /\ UNCHANGED <<live, queue, flags, result>>
  <2>1. /\ session' \in Sessions /\ session'.output = Append(session.output, produced + 1)
        /\ session'.live = session.live /\ session'.generation = session.generation
        /\ session'.waiters = session.waiters
    BY <1>4, <1>0, ProduceFacts
  <2>2. "flush" \in Positions \ {"wait", "sending"} /\ flags' \in Flags
    BY <1>0, <1>4 DEF Positions
  <2> QED BY <1>0, <1>4, <2>1, <2>2, ProduceStep
<1> QED BY <1>1, <1>2, <1>3, <1>4 DEF AfterFlush

LEMMA ReceiveStep == ASSUME TlsInv, NEW t \in Roles, Receive(t) PROVE TlsInv'
<1>0. /\ at[t] # "sending" /\ at' = [at EXCEPT ![t] = "received"] /\ session \in Sessions
      /\ UNCHANGED <<issued, live, queue, wait, done, seen, chunk, sent, broken, flags>>
      /\ flags' \in Flags /\ "received" \in Positions \ {"wait", "sending"}
    BY DEF Receive, waitVars, TlsInv, TlsType, Positions
<1>1. PICK plain, answer \in BOOLEAN :
         session' = Fed(session, plain, answer) /\ produced' = IF answer THEN produced + 1 ELSE produced
    BY DEF Receive
<1>2. CASE answer
  <2>1. session' = [Produce(session) EXCEPT !.input = plain] /\ produced' = produced + 1
    BY <1>1, <1>2 DEF Fed, Produce
  <2>2. /\ session' \in Sessions /\ session'.output = Append(session.output, produced + 1)
        /\ session'.live = session.live /\ session'.generation = session.generation
        /\ session'.waiters = session.waiters
    BY <2>1, ProduceFacts
  <2> QED BY <1>0, <2>1, <2>2, ProduceStep
<1>3. CASE ~answer
  <2>1. session' = [session EXCEPT !.input = plain] /\ produced' = produced
    BY <1>1, <1>3 DEF Fed
  <2>2. /\ session' \in Sessions /\ session'.output = session.output
        /\ session'.live = session.live /\ session'.generation = session.generation
        /\ session'.waiters = session.waiters
    BY <2>1, <1>0 DEF Sessions
  <2> QED BY <1>0, <2>1, <2>2, MoveStep
<1> QED BY <1>2, <1>3

\* Records that go on where others end.
LEMMA NumberedConcat ==
    ASSUME NEW a \in Seq(Nat), NEW c \in Seq(Nat), \A i \in 1..Len(a) : a[i] = i,
           \A i \in 1..Len(c) : c[i] = Len(a) + i
    PROVE  a \o c \in Seq(Nat) /\ Len(a \o c) = Len(a) + Len(c) /\ \A i \in 1..Len(a \o c) : (a \o c)[i] = i
<1>1. /\ a \o c \in Seq(Nat) /\ Len(a \o c) = Len(a) + Len(c)
      /\ \A i \in 1..(Len(a) + Len(c)) : (a \o c)[i] = IF i <= Len(a) THEN a[i] ELSE c[i - Len(a)]
    BY ConcatProperties
<1>2. ASSUME NEW i \in 1..Len(a \o c) PROVE (a \o c)[i] = i
  <2>0. Len(a) \in Nat /\ Len(c) \in Nat /\ i \in 1..(Len(a) + Len(c))
    BY <1>1
  <2>1. CASE i <= Len(a)
    <3>1. i \in 1..Len(a)
        BY <2>0, <2>1
    <3> QED BY <2>0, <2>1, <3>1, <1>1
  <2>2. CASE ~(i <= Len(a))
    <3>1. i - Len(a) \in 1..Len(c) /\ Len(a) + (i - Len(a)) = i
        BY <2>0, <2>2
    <3> QED BY <2>0, <2>2, <3>1, <1>1
  <2> QED BY <2>1, <2>2
<1> QED BY <1>1, <1>2

LEMMA SentStep == ASSUME TlsInv, NEW t \in Roles, Sent(t) PROVE TlsInv'
<1>0. PICK u \in Roles : u # t /\ u \in Tasks /\ Roles = {t, u}
    BY RolesFacts
<1>1. /\ at[t] = "sending" /\ ~flags.closed /\ ~broken /\ sent' = sent \o chunk[t]
      /\ SendMore(t) \/ EndFlush(t, "ok")
      /\ UNCHANGED <<issued, wait, done, seen, broken, produced>>
    BY DEF Sent
<1>2. at[u] # "sending" /\ at[t] # "wait"
    BY <1>0, <1>1 DEF TlsInv, FlusherOK, Roles
<1>3. sent \in Seq(Nat) /\ chunk[t] \in Seq(Nat)
    BY RolesFacts DEF TlsInv, TlsType
<1>4. /\ \A i \in 1..Len(sent) : sent[i] = i
      /\ \A i \in 1..Len(chunk[t]) : chunk[t][i] = Len(sent) + i
    BY <1>1 DEF TlsInv, OrderOK
<1>5. /\ sent' \in Seq(Nat) /\ Len(sent') = Len(sent) + Len(chunk[t])
      /\ \A i \in 1..Len(sent') : sent'[i] = i
  <2> PICK b : b = sent \o chunk[t]
    OBVIOUS
  <2>1. b \in Seq(Nat) /\ Len(b) = Len(sent) + Len(chunk[t]) /\ \A i \in 1..Len(b) : b[i] = i
    BY <1>3, <1>4, NumberedConcat
  <2> QED BY <2>1, <1>1
<1> QED BY <1>0, <1>1, <1>2, <1>5, SendMoreStep

LEMMA SendFailsStep == ASSUME TlsInv, NEW t \in Roles, SendFails(t) PROVE TlsInv'
<1>0. PICK u \in Roles : u # t /\ u \in Tasks /\ Roles = {t, u}
    BY RolesFacts
<1>1. /\ at[t] = "sending" /\ broken' = TRUE /\ EndFlush(t, "error")
      /\ UNCHANGED <<issued, wait, done, seen, sent, produced>>
    BY DEF SendFails
<1>2. at[u] # "sending"
    BY <1>0, <1>1 DEF TlsInv, FlusherOK, Roles
<1>3. sent' \in Seq(Nat) /\ broken' \in BOOLEAN
    BY <1>1 DEF TlsInv, TlsType
<1>4. OrderOK'
    BY <1>1 DEF TlsInv, OrderOK
<1> QED BY <1>0, <1>1, <1>2, <1>3, <1>4, EndFlushStep

LEMMA RetireStep == ASSUME TlsInv, NEW drained, Retire(drained) PROVE TlsInv'
<1>1. /\ AbortStream(flags)
      /\ UNCHANGED <<issued, wait, done, at, seen, chunk, result, sent, broken, produced>>
    BY DEF Retire
<1>2. PICK fs : fs = flags
    OBVIOUS
<1>3. fs \in Flags /\ fs.flushing = flags.flushing /\ AbortStream(fs)
    BY <1>1, <1>2 DEF TlsInv, TlsType
<1>4. /\ at' \in [Tasks -> Positions] /\ \A v \in Tasks : at'[v] = "wait" => at[v] = "wait"
      /\ \A v \in Roles : at'[v] = "sending" <=> at[v] = "sending"
    BY <1>1 DEF TlsInv, TlsType
<1> QED BY <1>1, <1>3, <1>4, AbortStreamStep

LEMMA FlushStep == ASSUME TlsInv, NEW t \in Roles, Flush(t) PROVE TlsInv'
<1>0. /\ at[t] = "flush" /\ wait[t].reg = None /\ UNCHANGED <<issued, wait, done, sent, broken, produced>>
    BY DEF Flush, Idle
<1>1. PICK u \in Roles : u # t /\ u \in Tasks /\ t \in Tasks /\ Roles = {t, u}
    BY RolesFacts
<1>t. TlsType /\ FlusherOK /\ OrderOK /\ TurnsOK
    BY DEF TlsInv
<1>2. ASSUME NEW o, SkipFlush(t, o), UNCHANGED seen PROVE TlsInv'
  <2>1. at' = [at EXCEPT ![t] = "flushed"] /\ UNCHANGED <<live, queue, flags, session, chunk>>
    BY <1>2 DEF SkipFlush
  <2>2. "flushed" \in Positions \ {"wait", "sending"} /\ flags' \in Flags /\ session' \in Sessions /\ at[t] # "sending"
    BY <1>0, <1>t, <2>1 DEF Positions, TlsType
  <2> QED BY <1>0, <1>2, <2>1, <2>2, MoveStep
<1>3. ASSUME ~MayFlush, session.live, seen' = [seen EXCEPT ![t] = Generation], at' = [at EXCEPT ![t] = "wait"],
             UNCHANGED <<live, queue, flags, session, chunk, result>>
      PROVE TlsInv'
  <2>1. /\ seen' \in [Tasks -> Nat] /\ seen'[t] = session.generation /\ \A v \in Tasks : v # t => seen'[v] = seen[v]
    BY <1>1, <1>3, <1>t, TlsFacts DEF TlsType, Generation
  <2>2. at' \in [Tasks -> Positions] /\ at'[t] = "wait" /\ \A v \in Tasks : v # t => at'[v] = at[v]
    BY <1>1, <1>3, <1>t DEF TlsType, Positions
  <2>3. TlsType'
    BY <1>0, <1>3, <1>t, <2>1, <2>2 DEF TlsType, WaitsType
  <2>4. FlusherOK'
    <3>1. KeepFlusher
        BY <1>0, <1>1, <1>3, <2>2 DEF KeepFlusher
    <3> QED BY <1>t, <3>1, KeptFlusher
  <2>5. OrderOK'
    <3>1. KeepOrder
        BY <1>0, <1>3 DEF KeepOrder
    <3> QED BY <1>t, <3>1, KeptOrder
  <2>6. TurnsOK'
    <3>1. session.generation <= session.generation /\ flags.flushing
        BY <1>3, <1>t, TlsFacts DEF MayFlush
    <3>2. \A v \in Tasks : Parked(v)' => v # t /\ Parked(v) /\ (TurnComes(v) => TurnComes(v)')
        BY <1>0, <1>3, <2>1 DEF Parked, TurnComes
    <3>3. \A v \in Tasks : /\ seen'[v] <= session'.generation
                           /\ at'[v] = "wait" /\ session'.live /\ seen'[v] = session'.generation => flags'.flushing
      <4> TAKE v \in Tasks
      <4>1. CASE v = t
        BY <4>1, <1>3, <2>1, <3>1
      <4>2. CASE v # t
        BY <4>2, <1>3, <1>t, <2>1, <2>2 DEF TurnsOK
      <4> QED BY <4>1, <4>2
    <3> QED BY <1>0, <1>3, <1>t, <3>2, <3>3 DEF TurnsOK
  <2> QED BY <2>3, <2>4, <2>5, <2>6 DEF TlsInv
<1>4. ASSUME MayFlush, SendMore(t), UNCHANGED seen PROVE TlsInv'
  <2>1. at[u] # "sending" /\ at[t] # "wait" /\ chunk[t] = <<>>
    BY <1>0, <1>1, <1>4, <1>t DEF MayFlush, FlusherOK, Roles
  <2>2. sent' \in Seq(Nat) /\ Len(sent') = Len(sent) + Len(chunk[t])
    <3>1. Len(sent) \in Nat /\ Len(chunk[t]) = 0
        BY <2>1, <1>t, TlsFacts
    <3>2. \A n \in Nat : n + 0 = n
        OBVIOUS
    <3> QED BY <1>0, <1>t, <3>1, <3>2 DEF TlsType
  <2>3. \A i \in 1..Len(sent') : sent'[i] = i
    BY <1>0, <1>t DEF OrderOK
  <2> QED BY <1>0, <1>1, <1>4, <2>1, <2>2, <2>3, SendMoreStep
<1> QED BY <1>2, <1>3, <1>4 DEF Flush

LEMMA WaitTlsStep == ASSUME TlsInv, NEW t \in Roles, Wait(t) PROVE TlsInv'
<1> USE DEF None
<1>0. /\ at[t] = "wait" /\ wait[t].reg = None /\ at' = [at EXCEPT ![t] = "flush"]
      /\ UNCHANGED <<queue, done, flags, seen, chunk, sent, broken, produced>>
    BY DEF Wait, Idle
<1>1. PICK u \in Roles : u # t /\ u \in Tasks /\ t \in Tasks /\ Roles = {t, u}
    BY RolesFacts
<1>t. TlsType /\ FlusherOK /\ OrderOK /\ TurnsOK
    BY DEF TlsInv
<1>2. CASE UNCHANGED <<issued, live, wait, session>>
  <2>1. "flush" \in Positions \ {"wait", "sending"} /\ flags' \in Flags /\ session' \in Sessions /\ at[t] # "sending"
    BY <1>0, <1>2, <1>t DEF Positions, TlsType
  <2> QED BY <1>0, <1>2, <2>1, MoveStep
<1>3. CASE ~MovedOn(t) /\ Park(t, Completion, None)
           /\ session' = [session EXCEPT !.waiters = @ \cup {Len(issued) + 1}]
  <2> PICK r : r = Len(issued) + 1
    OBVIOUS
  <2>1. Parks(t, Completion, None, r, {Completion})
    <3>1. issued \in Seq({Completion}) /\ WaitsType /\ Completion \in {Completion} /\ None \in Nat
        BY <1>t DEF TlsType
    <3> QED BY <1>1, <1>3, <3>1, ParkFacts
  <2>2. session.live /\ seen[t] = session.generation /\ flags.flushing
    <3>1. session.live /\ seen[t] = session.generation
        BY <1>3 DEF MovedOn
    <3> QED BY <1>0, <1>1, <1>t, <3>1 DEF TurnsOK
  <2>3. /\ session' \in Sessions /\ session'.output = session.output /\ session'.live = session.live
        /\ session'.generation = session.generation /\ session'.waiters = session.waiters \cup {r}
    <3>1. session' = [session EXCEPT !.waiters = @ \cup {r}] /\ session \in Sessions /\ r \in Registrations
        BY <1>3, <1>t, <2>1 DEF TlsType, Parks
    <3> QED BY <3>1 DEF Sessions
  <2>4. at' \in [Tasks -> Positions] /\ at'[t] = "flush" /\ \A v \in Tasks : v # t => at'[v] = at[v]
    BY <1>0, <1>1, <1>t DEF TlsType, Positions
  <2>5. TlsType'
    <3>1. WaitsType' /\ issued' \in Seq({Completion})
        BY <1>0, <1>t, <2>1 DEF TlsType, WaitsType, Parks
    <3> QED BY <1>0, <1>t, <2>3, <2>4, <3>1 DEF TlsType
  <2>6. FlusherOK'
    <3>1. KeepFlusher
        BY <1>0, <1>1, <2>4 DEF KeepFlusher
    <3> QED BY <1>t, <3>1, KeptFlusher
  <2>7. OrderOK'
    <3>1. KeepOrder
        BY <1>0, <2>3 DEF KeepOrder
    <3> QED BY <1>t, <3>1, KeptOrder
  <2>8. TurnsOK'
    <3>p. /\ r \in Nat /\ r # None /\ Len(issued) \in Nat /\ Len(issued') = r /\ live' = live \cup {r}
          /\ wait'[t].reg = r /\ wait'[t].ready = FALSE /\ \A v \in Tasks : v # t => wait'[v] = wait[v]
        BY <2>1 DEF Parks
    <3>1. \A v \in Tasks : v # t /\ wait[v].reg # None => wait[v].reg < r /\ wait[v].reg <= Len(issued')
      <4>1. \A v \in Tasks : wait[v].reg # None => wait[v].reg <= Len(issued) /\ wait[v].reg \in Nat
        BY <1>t, TlsFacts DEF TurnsOK
      <4> QED BY <4>1, <3>p
    <3>2. \A v \in Tasks : /\ seen'[v] <= session'.generation
                           /\ at'[v] = "wait" /\ session'.live /\ seen'[v] = session'.generation => flags'.flushing
        BY <1>0, <1>t, <2>3, <2>4 DEF TurnsOK
    <3>3. \A v \in Tasks : wait'[v].reg # None => wait'[v].reg <= Len(issued')
      <4>1. r <= r
        BY <3>p
      <4> QED BY <3>1, <3>p, <4>1
    <3>4. \A v \in Tasks : Parked(v)' => \/ \E i \in DOMAIN queue' : queue'[i].reg = wait'[v].reg
                                         \/ wait'[v].reg \in live' /\ TurnComes(v)'
      <4> TAKE v \in Tasks
      <4>1. CASE v = t
        BY <4>1, <1>0, <2>2, <2>3, <3>p DEF TurnComes
      <4>2. CASE v # t
        <5>1. Parked(v)' => Parked(v) /\ wait'[v].reg = wait[v].reg
            BY <4>2, <3>p DEF Parked
        <5>2. TurnComes(v) => TurnComes(v)'
            BY <4>2, <1>0, <2>3, <3>p DEF TurnComes
        <5> QED BY <5>1, <5>2, <1>0, <1>t, <3>p DEF TurnsOK
      <4> QED BY <4>1, <4>2
    <3>5. \A v, x \in Tasks : wait'[v].reg = wait'[x].reg /\ wait'[v].reg # None => v = x
      <4>1. \A v \in Tasks : v # t => wait'[v].reg # r
        <5>1. ~(r < r)
            BY <3>p
        <5> QED BY <3>1, <3>p, <5>1
      <4> QED BY <4>1, <3>p, <1>t DEF TurnsOK
    <3> QED BY <3>2, <3>3, <3>4, <3>5 DEF TurnsOK
  <2> QED BY <2>5, <2>6, <2>7, <2>8 DEF TlsInv
<1> QED BY <1>2, <1>3 DEF Wait

\* A resumed waiter forgets its registration.
LEMMA WaitOverStep == ASSUME TlsInv, NEW t \in Roles, WaitOver(t) PROVE TlsInv'
<1> USE DEF None
<1>0. /\ wait' = [wait EXCEPT ![t] = NoWait]
      /\ UNCHANGED <<issued, live, queue, done, session, flags, at, seen, chunk, sent, broken, produced>>
    BY DEF WaitOver, Consume, tlsVars
<1>1. t \in Tasks /\ TlsType /\ FlusherOK /\ OrderOK /\ TurnsOK
    BY RolesFacts DEF TlsInv
<1>n. NoWait \in WaitRecords /\ NoWait.reg = None
    BY DEF NoWait, WaitRecords
<1>2. wait' \in [Tasks -> WaitRecords] /\ wait'[t] = NoWait /\ \A v \in Tasks : v # t => wait'[v] = wait[v]
    BY <1>0, <1>1, <1>n DEF TlsType, WaitsType
<1>3. TlsType'
    BY <1>0, <1>1, <1>2 DEF TlsType, WaitsType
<1>4. FlusherOK' /\ OrderOK'
  <2>1. KeepFlusher /\ KeepOrder
    BY <1>0 DEF KeepFlusher, KeepOrder
  <2> QED BY <1>1, <2>1, KeptFlusher, KeptOrder
<1>5. TurnsOK'
  <2>1. \A v \in Tasks : wait'[v].reg # None => v # t /\ wait'[v] = wait[v]
    BY <1>2, <1>n
  <2>2. \A v \in Tasks : Parked(v)' => Parked(v) /\ wait'[v] = wait[v] /\ (TurnComes(v) => TurnComes(v)')
    BY <1>0, <2>1 DEF Parked, TurnComes
  <2> QED BY <1>0, <1>1, <2>1, <2>2 DEF TurnsOK
<1> QED BY <1>3, <1>4, <1>5 DEF TlsInv

LEMMA TlsPollStep == TlsInv /\ TlsPoll => TlsInv'
<1> SUFFICES ASSUME TlsInv, TlsPoll PROVE TlsInv'
    OBVIOUS
<1>0. Poll /\ UNCHANGED <<session, flags, at, seen, chunk, sent, broken, produced>>
    BY DEF TlsPoll, tlsVars
<1>1. TlsType /\ FlusherOK /\ OrderOK /\ TurnsOK /\ WaitsType
    BY DEF TlsInv, TlsType
<1>p. /\ queue' \in Seq(Notes) /\ 1 \in DOMAIN queue /\ queue[1] \in Notes
      /\ \A i \in DOMAIN queue : i # 1 => \E j \in DOMAIN queue' : queue'[j] = queue[i]
      /\ wait' \in [Tasks -> WaitRecords]
      /\ \A v \in Tasks : /\ wait'[v].reg = wait[v].reg
                          /\ v \notin Wakes(queue[1]) => wait'[v] = wait[v]
                          /\ v \in Wakes(queue[1]) => wait'[v].ready
      /\ UNCHANGED <<issued, live, done>>
    BY <1>0, <1>1, PollFacts
<1>2. TlsType'
    BY <1>0, <1>1, <1>p DEF TlsType, WaitsType
<1>3. FlusherOK' /\ OrderOK'
  <2>1. KeepFlusher /\ KeepOrder
    BY <1>0 DEF KeepFlusher, KeepOrder
  <2> QED BY <1>1, <2>1, KeptFlusher, KeptOrder
<1>4. TurnsOK'
  <2>1. ASSUME NEW v \in Tasks, Parked(v)'
        PROVE  \/ \E i \in DOMAIN queue' : queue'[i].reg = wait'[v].reg
               \/ wait'[v].reg \in live' /\ TurnComes(v)'
    <3>1. v \notin Wakes(queue[1]) /\ Parked(v) /\ wait[v].reg # queue[1].reg /\ wait'[v] = wait[v]
        BY <2>1, <1>p DEF Parked, Wakes
    <3>2. CASE \E i \in DOMAIN queue : queue[i].reg = wait[v].reg
        BY <3>1, <3>2, <1>p
    <3>3. TurnComes(v) => TurnComes(v)'
        BY <3>1, <1>0 DEF TurnComes
    <3> QED BY <3>1, <3>2, <3>3, <1>1, <1>p DEF TurnsOK
  <2>2. \A v \in Tasks : wait'[v].reg # None => wait'[v].reg <= Len(issued')
    BY <1>1, <1>p DEF TurnsOK
  <2>3. \A v, x \in Tasks : wait'[v].reg = wait'[x].reg /\ wait'[v].reg # None => v = x
    BY <1>1, <1>p DEF TurnsOK
  <2>4. \A v \in Tasks : /\ seen'[v] <= session'.generation
                         /\ at'[v] = "wait" /\ session'.live /\ seen'[v] = session'.generation => flags'.flushing
    BY <1>0, <1>1 DEF TurnsOK
  <2> QED BY <2>1, <2>2, <2>3, <2>4 DEF TurnsOK
<1> QED BY <1>2, <1>3, <1>4 DEF TlsInv

\* An operation is cancelled where it waits: whoever else waits on the stream is told.
LEMMA CancelOperationStep == ASSUME TlsInv, NEW t \in Roles, CancelOperation(t) PROVE TlsInv'
<1> USE DEF None
<1>t. TlsType /\ FlusherOK /\ OrderOK /\ TurnsOK /\ session \in Sessions
    BY DEF TlsInv, TlsType
<1>1. PICK u \in Roles : u # t /\ u \in Tasks /\ t \in Tasks /\ Roles = {t, u}
    BY RolesFacts
<1> PICK h : h = (at[t] = "sending")
    OBVIOUS
<1> PICK W : W = IF Parked(t) THEN {wait[t].reg} ELSE {}
    OBVIOUS
<1>0. /\ flags' = [flags EXCEPT ![Claim(t)] = FALSE, !.flushing = @ /\ ~h, !.closed = TRUE]
      /\ session' = Released(IF h THEN Notified(session) ELSE session)
      /\ at' = [at EXCEPT ![t] = "idle"] /\ chunk' = [chunk EXCEPT ![t] = <<>>]
      /\ wait' = [wait EXCEPT ![t] = NoWait] /\ live' = live \ (Waiters \cup W)
      /\ UNCHANGED <<issued, done, seen, sent, broken, produced>>
    BY DEF CancelOperation
<1>q. PICK s \in Notices((Waiters \ W) \cap live, FALSE) : queue' = queue \o s
    BY DEF CancelOperation
<1>n. NoWait \in WaitRecords /\ NoWait.reg = None
    BY DEF NoWait, WaitRecords
<1>2. /\ wait' \in [Tasks -> WaitRecords] /\ wait'[t] = NoWait /\ \A v \in Tasks : v # t => wait'[v] = wait[v]
      /\ at' \in [Tasks -> Positions] /\ at'[t] = "idle" /\ \A v \in Tasks : v # t => at'[v] = at[v]
      /\ chunk' \in [Tasks -> Seq(Nat)] /\ chunk'[t] = <<>> /\ \A v \in Tasks : v # t => chunk'[v] = chunk[v]
  <2>1. wait' \in [Tasks -> WaitRecords] /\ wait'[t] = NoWait /\ \A v \in Tasks : v # t => wait'[v] = wait[v]
    BY <1>0, <1>1, <1>n, <1>t DEF TlsType, WaitsType
  <2>2. at' \in [Tasks -> Positions] /\ at'[t] = "idle" /\ \A v \in Tasks : v # t => at'[v] = at[v]
    BY <1>0, <1>1, <1>t DEF TlsType, Positions
  <2>3. chunk' \in [Tasks -> Seq(Nat)] /\ chunk'[t] = <<>> /\ \A v \in Tasks : v # t => chunk'[v] = chunk[v]
    <3>1. <<>> \in Seq(Nat)
        OBVIOUS
    <3>2. chunk \in [Tasks -> Seq(Nat)]
        BY <1>t DEF TlsType
    <3>3. chunk' = [chunk EXCEPT ![t] = <<>>]
        BY <1>0
    <3> QED BY <1>1, <3>1, <3>2, <3>3
  <2> QED BY <2>1, <2>2, <2>3
<1>3. Told(queue', (Waiters \ W) \cap live)
  <2> PICK R : R = (Waiters \ W) \cap live
    OBVIOUS
  <2>1. queue \in Seq(Notes) /\ R \subseteq Registrations /\ FALSE \in BOOLEAN /\ s \in Notices(R, FALSE)
    BY <1>t, <1>q, TlsFacts DEF TlsType, WaitsType
  <2>2. Told(queue \o s, R)
    BY <2>1, NoticeFacts
  <2> QED BY <2>2, <1>q
<1>4. /\ session' \in Sessions /\ session'.live = FALSE
      /\ session'.generation = session.generation \/ session'.generation = session.generation + 1
  <2>1. PICK c \in Sessions : /\ session' = Released(c)
                              /\ c.generation = session.generation \/ c.generation = session.generation + 1
    BY <1>0, <1>t, SessionFacts
  <2> QED BY <2>1, SessionFacts
<1>5. flags' \in Flags /\ flags'.closed = TRUE /\ (flags'.flushing <=> flags.flushing /\ ~h)
  <2>0. flags \in Flags /\ \A y : (y /\ ~h) \in BOOLEAN
    BY <1>t DEF TlsType
  <2>1. CASE Claim(t) = "reading"
    BY <1>0, <2>0, <2>1 DEF Flags
  <2>2. CASE Claim(t) = "writing"
    BY <1>0, <2>0, <2>2 DEF Flags
  <2> QED BY <2>1, <2>2 DEF Claim
<1>6. TlsType'
  <2>1. WaitsType' /\ issued' \in Seq({Completion})
    BY <1>0, <1>2, <1>3, <1>t DEF TlsType, WaitsType, Told
  <2> QED BY <1>0, <1>2, <1>4, <1>5, <1>t, <2>1 DEF TlsType
<1>7. FlusherOK'
  <2>1. (at[t] = "sending" => flags.flushing /\ at[u] # "sending") /\ (at[u] # "sending" => chunk[u] = <<>>)
    BY <1>1, <1>t DEF FlusherOK, Roles
  <2>2. at[t] # "sending" => (flags.flushing <=> at[u] = "sending")
    BY <1>1, <1>t DEF FlusherOK, Roles
  <2>3. flags'.flushing <=> at[u] = "sending"
    BY <1>5, <2>1, <2>2
  <2> QED BY <1>1, <1>2, <2>1, <2>3 DEF FlusherOK, Roles
<1>8. OrderOK'
    BY <1>0, <1>5, <1>t DEF OrderOK
<1>9. TurnsOK'
  <2>1. \A v \in Tasks : wait'[v].reg # None => v # t /\ wait'[v] = wait[v]
    BY <1>2, <1>n
  <2>2. \A v \in Tasks : seen'[v] <= session'.generation
    <3>1. \A v \in Tasks : seen[v] \in Nat /\ seen[v] <= session.generation /\ session.generation \in Nat
        BY <1>t, TlsFacts DEF TurnsOK
    <3>2. \A m, n \in Nat : m <= n => m <= n + 1
        OBVIOUS
    <3> QED BY <1>0, <1>4, <3>1, <3>2
  <2>3. ASSUME NEW v \in Tasks, Parked(v)'
        PROVE  \E i \in DOMAIN queue' : queue'[i].reg = wait'[v].reg
    <3>1. v # t /\ wait'[v] = wait[v] /\ Parked(v) /\ wait[v].reg # None
        BY <2>1, <2>3 DEF Parked
    <3>2. CASE \E i \in DOMAIN queue : queue[i].reg = wait[v].reg
        BY <3>1, <3>2, <1>3 DEF Told
    <3>3. CASE wait[v].reg \in live /\ TurnComes(v)
      <4>1. wait[v].reg # wait[t].reg
        BY <3>1, <1>1, <1>t DEF TurnsOK
      <4>2. wait[v].reg \in Waiters /\ wait[v].reg \notin W
        BY <3>3, <4>1 DEF TurnComes, Waiters
      <4>3. wait[v].reg \in (Waiters \ W) \cap live
        BY <3>3, <4>2
      <4> QED BY <3>1, <4>3, <1>3 DEF Told
    <3> QED BY <3>1, <3>2, <3>3, <1>t DEF TurnsOK
  <2>4. \A v \in Tasks : wait'[v].reg # None => wait'[v].reg <= Len(issued')
    BY <1>0, <1>t, <2>1 DEF TurnsOK
  <2>5. \A v, x \in Tasks : wait'[v].reg = wait'[x].reg /\ wait'[v].reg # None => v = x
    BY <1>t, <2>1 DEF TurnsOK
  <2> QED BY <1>4, <2>2, <2>3, <2>4, <2>5 DEF TurnsOK
<1> QED BY <1>6, <1>7, <1>8, <1>9 DEF TlsInv

-----------------------------------------------------------------------------
(* The theorems.                                                           *)

LEMMA TlsStart == WaitsInit /\ TlsInit => TlsInv
<1> SUFFICES ASSUME WaitsInit, TlsInit PROVE TlsInv
    OBVIOUS
<1> USE DEF None
<1>w. /\ issued = <<>> /\ live = {} /\ queue = <<>> /\ done = {} /\ wait = [t \in Tasks |-> NoWait]
    BY DEF WaitsInit
<1>s. /\ session = [live |-> TRUE, generation |-> 0, waiters |-> {}, output |-> <<>>,
                    input |-> FALSE, shut |-> FALSE]
      /\ flags = [closed |-> FALSE, reading |-> FALSE, writing |-> FALSE, flushing |-> FALSE, shut |-> FALSE]
      /\ at = [t \in Tasks |-> "idle"] /\ seen = [t \in Tasks |-> 0] /\ chunk = [t \in Tasks |-> <<>>]
      /\ sent = <<>> /\ broken = FALSE /\ produced = 0
    BY DEF TlsInit
<1>1. TlsType
  <2>1. NoWait \in WaitRecords /\ Len(issued) = 0 /\ issued \in Seq({Completion})
    BY <1>w DEF NoWait, WaitRecords
  <2>2. WaitsType
    BY <1>w, <2>1, WaitsAssumption DEF WaitsType
  <2>3. session \in Sessions /\ flags \in Flags
    BY <1>s DEF Sessions, Flags
  <2>4. /\ at \in [Tasks -> Positions] /\ seen \in [Tasks -> Nat] /\ chunk \in [Tasks -> Seq(Nat)]
        /\ sent \in Seq(Nat) /\ broken \in BOOLEAN /\ produced \in Nat
    <3>1. "idle" \in Positions /\ 0 \in Nat /\ <<>> \in Seq(Nat)
        BY DEF Positions
    <3> QED BY <1>s, <3>1
  <2> QED BY <2>1, <2>2, <2>3, <2>4 DEF TlsType
<1>2. FlusherOK
    BY <1>s, TlsAssumption DEF FlusherOK, Roles
<1>3. OrderOK
  <2>1. /\ Len(sent) = 0 /\ Len(session.output) = 0 /\ \A t \in Roles : Len(chunk[t]) = 0
    BY <1>s, TlsAssumption DEF Roles
  <2>2. InHand = 0
    <3>1. Len(chunk[Reader]) = 0 /\ Len(chunk[Writer]) = 0
        BY <2>1 DEF Roles
    <3> QED BY <3>1 DEF InHand
  <2> QED BY <1>s, <2>1, <2>2 DEF OrderOK
<1>4. TurnsOK
    BY <1>w, <1>s DEF TurnsOK, Parked, NoWait
<1> QED BY <1>1, <1>2, <1>3, <1>4 DEF TlsInv

\* A step of the stream.
LEMMA TlsStep == TlsInv /\ NextTls => TlsInv'
<1> SUFFICES ASSUME TlsInv, NextTls PROVE TlsInv'
    OBVIOUS
<1>1. CASE \E t \in Roles : \/ BeginRead(t) \/ AfterReceive(t) \/ ReceiveFails(t) \/ Receive(t) \/ AfterFlush(t)
                            \/ \E shut \in BOOLEAN : BeginWrite(t, shut)
    BY <1>1, BeginReadStep, AfterReceiveStep, ReceiveFailsStep, ReceiveStep, AfterFlushStep, BeginWriteStep
<1>2. CASE \E t \in Roles : Flush(t) \/ Wait(t) \/ WaitOver(t) \/ Sent(t) \/ SendFails(t)
    BY <1>2, FlushStep, WaitTlsStep, WaitOverStep, SentStep, SendFailsStep
<1>3. CASE (\E t \in Roles : CancelOperation(t)) \/ (\E drained \in BOOLEAN : Retire(drained)) \/ TlsPoll
    BY <1>3, CancelOperationStep, RetireStep, TlsPollStep
<1> QED BY <1>1, <1>2, <1>3 DEF NextTls

\* The stream and the waits on it are in order in every state of the native resources.
THEOREM TlsInvariant == Spec => []NativeTls
<1>1. Init => NativeTls
    BY TlsStart DEF Init, NativeTls
<1>2. NativeTls /\ [Next]_vars => NativeTls'
  <2> SUFFICES ASSUME NativeTls, [Next]_vars PROVE NativeTls'
    OBVIOUS
  <2>1. CASE NextTls
    <3>1. part = "tls" /\ part' = part
        BY <2>1 DEF NextTls, InTls
    <3> QED BY <2>1, <3>1, TlsStep DEF NativeTls
  <2>2. CASE NextJobs \/ NextSockets \/ NextCapture
    <3>1. part # "tls" /\ part' = part /\ UNCHANGED tlsVars
      <4>1. NextJobs => part # "tls" /\ part' = part /\ UNCHANGED tlsVars
        BY DEF NextJobs, InJobs
      <4>2. NextSockets => part # "tls" /\ part' = part /\ UNCHANGED tlsVars
        BY DEF NextSockets, InSockets
      <4>3. NextCapture => part # "tls" /\ part' = part /\ UNCHANGED tlsVars
        BY DEF NextCapture, InCapture
      <4> QED BY <2>2, <4>1, <4>2, <4>3
    <3> QED BY <3>1 DEF NativeTls, TlsInit, tlsVars
  <2>3. CASE UNCHANGED vars
    <3>1. UNCHANGED <<waitVars, tlsVars, part>>
        BY <2>3 DEF vars
    <3>2. TlsInv => TlsInv'
      <4> SUFFICES ASSUME TlsInv PROVE TlsInv'
        OBVIOUS
      <4>1. TlsType'
        BY <3>1 DEF TlsInv, TlsType, WaitsType, waitVars, tlsVars
      <4>2. KeepFlusher /\ KeepOrder /\ KeepTurns
        BY <3>1 DEF KeepFlusher, KeepOrder, KeepTurns, waitVars, tlsVars
      <4> QED BY <4>1, <4>2, Settled
    <3> QED BY <3>1, <3>2 DEF NativeTls, TlsInit, tlsVars
  <2> QED BY <2>1, <2>2, <2>3 DEF Next
<1> QED BY <1>1, <1>2, PTL DEF Spec

\* One flusher at a time; what the peer has is the first records in order, and while the
\* stream is in order no record is lost between the engine and the transport.
THEOREM TlsRecords == Spec => []RecordsInOrder
<1>1. NativeTls => RecordsInOrder
  <2>1. ASSUME TlsInv PROVE RecordsInOrder
    <3>t. TlsType /\ FlusherOK /\ OrderOK
        BY <2>1 DEF TlsInv
    <3>y. /\ sent \in Seq(Nat) /\ chunk[Reader] \in Seq(Nat) /\ chunk[Writer] \in Seq(Nat)
          /\ session.output \in Seq(Nat)
        BY <3>t, TlsFacts DEF TlsType
    <3>f. flags.flushing = (\E t \in Roles : at[t] = "sending")
      <4>1. flags.flushing <=> \E t \in Roles : at[t] = "sending"
        BY <3>t DEF FlusherOK, Roles
      <4>2. flags.flushing \in BOOLEAN
        BY <3>t, TlsFacts
      <4> QED BY <4>1, <4>2
    <3>s. \A i \in 1..Len(sent) : sent[i] = i
        BY <3>t DEF OrderOK
    <3>n. sent = [i \in 1..Len(sent) |-> i]
        BY <3>y, <3>s
    <3>o. ASSUME ~flags.closed, ~broken
          PROVE  sent \o chunk[Reader] \o chunk[Writer] \o session.output = [i \in 1..produced |-> i]
      <4>0. /\ Len(sent) + InHand + Len(session.output) = produced
            /\ \A t \in Roles : \A i \in 1..Len(chunk[t]) : chunk[t][i] = Len(sent) + i
            /\ \A i \in 1..Len(session.output) : session.output[i] = Len(sent) + InHand + i
        BY <3>o, <3>t DEF OrderOK
      <4>h. \A n \in Nat : n + 0 = n
        OBVIOUS
      <4>r. Len(sent) \in Nat /\ Len(chunk[Reader]) \in Nat /\ Len(chunk[Writer]) \in Nat
        BY <3>t, TlsFacts
      <4> PICK a : a = sent \o chunk[Reader]
        OBVIOUS
      <4>1. a \in Seq(Nat) /\ Len(a) = Len(sent) + Len(chunk[Reader]) /\ \A i \in 1..Len(a) : a[i] = i
        <5>1. \A i \in 1..Len(chunk[Reader]) : chunk[Reader][i] = Len(sent) + i
            BY <4>0 DEF Roles
        <5> QED BY <5>1, <3>y, <3>s, NumberedConcat
      <4> PICK b : b = a \o chunk[Writer]
        OBVIOUS
      <4>2. b \in Seq(Nat) /\ Len(b) = Len(a) + Len(chunk[Writer]) /\ \A i \in 1..Len(b) : b[i] = i
        <5>1. CASE chunk[Reader] = <<>>
          <6>1. Len(a) = Len(sent)
            BY <5>1, <4>1, <4>h, <4>r
          <6>2. \A i \in 1..Len(chunk[Writer]) : chunk[Writer][i] = Len(a) + i
            BY <6>1, <4>0 DEF Roles
          <6> QED BY <6>2, <4>1, <3>y, NumberedConcat
        <5>2. CASE chunk[Writer] = <<>>
          <6>1. 1..Len(chunk[Writer]) = {}
            BY <5>2
          <6>2. \A i \in 1..Len(chunk[Writer]) : chunk[Writer][i] = Len(a) + i
            BY <6>1
          <6> QED BY <6>2, <4>1, <3>y, NumberedConcat
        <5> QED BY <5>1, <5>2, <3>t DEF FlusherOK, Roles
      <4>3. Len(b) = Len(sent) + InHand
        <5>1. \A x, y, z \in Nat : x + y + z = x + (y + z)
            OBVIOUS
        <5>2. Len(b) = Len(sent) + Len(chunk[Reader]) + Len(chunk[Writer])
            BY <4>1, <4>2
        <5> QED BY ONLY <5>1, <5>2, <4>r DEF InHand
      <4> PICK c : c = b \o session.output
        OBVIOUS
      <4>4. c \in Seq(Nat) /\ Len(c) = Len(b) + Len(session.output) /\ \A i \in 1..Len(c) : c[i] = i
        <5>1. \A i \in 1..Len(session.output) : session.output[i] = Len(b) + i
            BY <4>0, <4>3
        <5> QED BY <5>1, <4>2, <3>y, NumberedConcat
      <4>5. Len(c) = produced
        BY <4>0, <4>3, <4>4
      <4>6. c = [i \in 1..produced |-> i]
        <5>1. c = [i \in 1..Len(c) |-> i]
            BY ONLY <4>4
        <5> QED BY <5>1, <4>5
      <4> QED BY <4>6
    <3> QED BY <3>f, <3>n, <3>o DEF RecordsInOrder
  <2>2. ASSUME TlsInit PROVE RecordsInOrder
    <3>1. /\ sent = <<>> /\ chunk[Reader] = <<>> /\ chunk[Writer] = <<>> /\ session.output = <<>> /\ produced = 0
          /\ flags.flushing = FALSE /\ \A t \in Roles : at[t] = "idle"
        BY <2>2, TlsAssumption DEF TlsInit, Roles
    <3>2. Len(sent) = 0 /\ 1..0 = {} /\ <<>> \o <<>> \o <<>> \o <<>> = <<>>
        BY <3>1
    <3>3. <<>> = [i \in 1..0 |-> i]
        OBVIOUS
    <3>4. flags.flushing = (\E t \in Roles : at[t] = "sending")
        BY <3>1
    <3> QED BY <3>1, <3>2, <3>3, <3>4 DEF RecordsInOrder
  <2> QED BY <2>1, <2>2 DEF NativeTls
<1> QED BY <1>1, TlsInvariant, PTL

-----------------------------------------------------------------------------
(* What all parts together promise.                                        *)

\* A captured process uses no wait of the owner.
CaptureRest == part = "capture" => WaitsInit

LEMMA CaptureRests == Spec => []CaptureRest
<1>1. Init => CaptureRest
    BY DEF Init, CaptureRest
<1>2. CaptureRest /\ [Next]_vars => CaptureRest'
  <2> SUFFICES ASSUME CaptureRest, [Next]_vars PROVE CaptureRest'
    OBVIOUS
  <2>1. NextJobs \/ NextSockets \/ NextTls => part # "capture" /\ part' = part
    <3>1. NextJobs => part # "capture" /\ part' = part
        BY DEF NextJobs, InJobs
    <3>2. NextSockets => part # "capture" /\ part' = part
        BY DEF NextSockets, InSockets
    <3>3. NextTls => part # "capture" /\ part' = part
        BY DEF NextTls, InTls
    <3> QED BY <3>1, <3>2, <3>3
  <2>2. NextCapture => UNCHANGED <<waitVars, part>>
    BY DEF NextCapture, InCapture
  <2>3. UNCHANGED vars => UNCHANGED <<waitVars, part>>
    BY DEF vars
  <2>4. UNCHANGED <<waitVars, part>> => CaptureRest'
    BY DEF CaptureRest, WaitsInit, waitVars
  <2> QED BY <2>1, <2>2, <2>3, <2>4 DEF CaptureRest, Next
<1> QED BY <1>1, <1>2, PTL DEF Spec

\* What the reactor watches is the open handle of the socket its task waits on, and of
\* no other socket, for any tasks and sockets.
THEOREM SocketsWatched == Spec => []WatchedOpen
<1>1. NativeJobs /\ NativeSockets /\ NativeTls /\ CaptureRest => WatchedOpen
  <2> SUFFICES ASSUME NativeJobs, NativeSockets, NativeTls, CaptureRest PROVE WatchedOpen
    OBVIOUS
  <2> USE DEF None
  <2>1. ASSUME SocketsInv PROVE WatchedOpen
    <3> SUFFICES ASSUME NEW r \in live, issued[r].handle # None
                 PROVE  \E t \in Tasks :
                            /\ wait[t].reg = r /\ Alive(wanted[t].token)
                            /\ socket[wanted[t].token].handle = issued[r].handle
                            /\ \A s \in 1..MaxSockets :
                                   Alive(s) /\ socket[s].handle = issued[r].handle => s = wanted[t].token
        BY DEF WatchedOpen
    <3>1. PICK t \in Tasks : wait[t].reg = r /\ Parked(t)
        BY <2>1 DEF SocketsInv, LiveOK
    <3>2. wait[t].lease = wanted[t].token /\ wanted[t].token \in Tokens /\ issued[r] = Source(t)
        BY <2>1, <3>1 DEF SocketsInv, LeasesOK, Parked
    <3>3. Alive(wanted[t].token)
        BY <3>2, AliveFacts
    <3>4. socket[wanted[t].token].handle = issued[r].handle
        BY <3>2 DEF Source
    <3>5. \A s \in Tokens : Alive(s) /\ socket[s].handle = issued[r].handle => s = wanted[t].token
        BY <2>1, <3>2, <3>3, <3>4 DEF SocketsInv, NumbersOK
    <3> QED BY <3>1, <3>3, <3>4, <3>5 DEF Tokens
  <2>2. ASSUME issued \in Seq({Completion}), live \subseteq 1..Len(issued) PROVE WatchedOpen
    <3>1. \A r \in live : issued[r] = Completion
        BY <2>2
    <3>2. Completion.handle = None
        BY DEF Completion
    <3> QED BY <3>1, <3>2 DEF WatchedOpen
  <2>3. WaitsInit => WatchedOpen
    BY DEF WaitsInit, WatchedOpen
  <2>4. CASE part = "jobs"
    BY <2>4, <2>2 DEF NativeJobs, JobsInv, JobsType, WaitsType
  <2>5. CASE part = "sockets"
    BY <2>5, <2>1 DEF NativeSockets
  <2>6. CASE part = "tls"
    BY <2>6, <2>2 DEF NativeTls, TlsInv, TlsType, WaitsType
  <2>7. CASE part = "capture"
    BY <2>7, <2>3 DEF CaptureRest
  <2> QED BY <2>4, <2>5, <2>6, <2>7 DEF NativeJobs
<1> QED BY <1>1, JobsInvariant, SocketsInvariant, TlsInvariant, CaptureRests, PTL

\* No wakeup is lost: whoever is parked on a job, a socket or a stream has a notification
\* under way or somebody who is going to send one, and threads sleep only when idle.
THEOREM NativeNoLostWakeup == Spec => []NoLostWakeup
<1>1. NativeJobs /\ NativeSockets /\ NativeTls /\ CaptureRest => NoLostWakeup
  <2> SUFFICES ASSUME NativeJobs, NativeSockets, NativeTls, CaptureRest PROVE NoLostWakeup
    OBVIOUS
  <2> DEFINE Heard == \A t \in Tasks : Parked(t) =>
                         \/ \E i \in DOMAIN queue : queue[i].reg = wait[t].reg
                         \/ /\ wait[t].reg \in live
                            /\ part = "jobs" => JobPending(wait[t].reg)
                            /\ part = "sockets" => TokenHeld(t)
                            /\ part = "tls" => TurnComes(t)
             Threadwise == /\ (\E w \in Workers : worker[w].pc = "sleep") =>
                                 /\ ~closed
                                 /\ Len(fifo) <= Cardinality({w \in Workers : worker[w].pc = "loop"})
                           /\ owner.asleep => job[owner.job].state = "running"
  <2>1. JobsRest => Threadwise
    BY DEF JobsRest, JobsInit, Resting
  <2>2. JobsInv => Threadwise
    BY DEF JobsInv, OwnerOK, SleepersOK, Looping
  <2>3. Threadwise
    BY <2>1, <2>2 DEF NativeJobs
  <2>4. CASE part = "jobs"
    <3>1. Heard
        BY <2>4 DEF NativeJobs, JobsInv, WakesOK
    <3> QED BY <2>3, <3>1 DEF NoLostWakeup
  <2>5. CASE part = "sockets"
    <3>1. Heard
        BY <2>5 DEF NativeSockets, SocketsInv, HeardOK
    <3> QED BY <2>3, <3>1 DEF NoLostWakeup
  <2>6. CASE part = "tls"
    <3>1. Heard
        BY <2>6 DEF NativeTls, TlsInv, TurnsOK
    <3> QED BY <2>3, <3>1 DEF NoLostWakeup
  <2>7. CASE part = "capture"
    <3>1. Heard
        BY <2>7 DEF CaptureRest, WaitsInit, NoWait, Parked
    <3> QED BY <2>3, <3>1 DEF NoLostWakeup
  <2> QED BY <2>4, <2>5, <2>6, <2>7 DEF NativeJobs
<1> QED BY <1>1, JobsInvariant, SocketsInvariant, TlsInvariant, CaptureRests, PTL
=============================================================================
