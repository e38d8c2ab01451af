--------------------------- MODULE ReactorProofs ---------------------------
(***************************************************************************)
(* Proofs about Reactor for any handles, clock and number of               *)
(* registrations: it implements the registry of one-shot waits, the poller *)
(* watches exactly what is registered, and no waiter oversleeps.           *)
(***************************************************************************)
EXTENDS Reactor, TLAPS, FiniteSetTheorems, SequenceTheorems

Regs      == (1..MaxIssued) \X (1..MaxIssued)
RegOrNot  == Regs \cup {NoReg}
Active0   == Sources \cup {NoSource}
Slot      == [generation : 1..MaxIssued, active : Active0]
Interests == [key : Nat, dirs : SUBSET Directions, armed : BOOLEAN]
Entries   == [key : Nat, read : RegOrNot, write : RegOrNot]
Phases    == {"idle", "loop", "poll", "returned", "dispatch", "failed"}

CoreType ==
    /\ slots \in Seq(Slot) /\ Len(slots) <= MaxIssued
    /\ free \in Seq(Nat)
    /\ timers \in [DOMAIN timers -> Regs] /\ DOMAIN timers \subseteq (1..MaxNow) \X (1..MaxIssued)
    /\ handles \in [DOMAIN handles -> Entries]
    /\ DOMAIN handles \subseteq Handles
    /\ pollKeys \in [DOMAIN pollKeys -> Handles] /\ DOMAIN pollKeys \subseteq 1..lastKey
    /\ lastKey \in Nat

WaiterType ==
    /\ ready \in Seq(Regs)
    /\ native \in [Handles -> Interests]
    /\ woken \in BOOLEAN /\ waking \in Nat /\ failures \in Nat
    /\ pc \in Phases /\ deadline \in Nat /\ until \in Nat /\ now \in Nat

TypeOK == CoreType /\ WaiterType

\* The current registration of a slot.
Current(k) == <<k, slots[k].generation>>

\* The free list names slots without a source, each once.
FreeOK ==
    /\ \A i \in DOMAIN free : free[i] \in DOMAIN slots /\ slots[free[i]].active = NoSource
    /\ \A i, j \in DOMAIN free : free[i] = free[j] => i = j

\* A timer entry is for the current registration of its slot, under its deadline.
TimersOK ==
    \A t \in DOMAIN timers :
        /\ t[2] \in DOMAIN slots
        /\ timers[t] = Current(t[2])
        /\ slots[t[2]].active = Source("timer", {}, NoHandle, t[1])

\* The directions of a handle and the readiness sources of the slots are the same thing
\* seen from two sides.
HandlesOK ==
    /\ \A h \in DOMAIN handles :
          /\ Dirs(handles[h].read, handles[h].write) # {}
          /\ \A d \in Directions : Direction(h, d) # NoReg =>
                /\ Direction(h, d)[1] \in DOMAIN slots
                /\ Direction(h, d) = Current(Direction(h, d)[1])
                /\ slots[Direction(h, d)[1]].active.kind = "readiness"
                /\ slots[Direction(h, d)[1]].active.handle = h
                /\ d \in slots[Direction(h, d)[1]].active.interests
    /\ \A k \in DOMAIN slots : slots[k].active.kind = "readiness" =>
          \A d \in slots[k].active.interests : Direction(slots[k].active.handle, d) = Current(k)

\* Polling identities and handles in use name each other.
KeysOK ==
    /\ \A h \in DOMAIN handles : handles[h].key \in DOMAIN pollKeys /\ pollKeys[handles[h].key] = h
    /\ \A k \in DOMAIN pollKeys : pollKeys[k] \in DOMAIN handles /\ handles[pollKeys[k]].key = k

\* The poller's interest in a handle is the core's.
Watched(h) ==
    IF h \in DOMAIN handles
    THEN /\ native[h].key = handles[h].key
         /\ native[h].dirs = Dirs(handles[h].read, handles[h].write)
         /\ native[h].armed \/ \E e \in batch : e.key = handles[h].key
    ELSE native[h] = Unwatched

\* The poller's side: what it watches, and events only between its return and the end of
\* the batch.
NativeOK ==
    /\ pc \in {"idle", "loop", "poll"} => batch = {}
    /\ pc # "failed" => \A h \in Handles : Watched(h)

CoreInv    == CoreType /\ FreeOK /\ TimersOK /\ HandlesOK /\ KeysOK
ReactorInv == CoreInv /\ WaiterType /\ NativeOK /\ NoOversleep

-----------------------------------------------------------------------------
(* Facts about the operators.                                              *)

\* A finite set of timer keys has an ordering, and fire_timers takes each key once.
LEMMA OrderedTimers ==
    ASSUME NEW ts, ts \subseteq Nat \X Nat, IsFiniteSet(ts)
    PROVE  /\ Ordered(ts) \in [1..Cardinality(ts) -> ts]
           /\ \A i, j \in 1..Cardinality(ts) : i < j => Before(Ordered(ts)[i], Ordered(ts)[j])
           /\ \A t \in ts : \E i \in 1..Cardinality(ts) : Ordered(ts)[i] = t
<1> DEFINE n == Cardinality(ts)
           Below(t) == {s \in ts : Before(s, t)}
           rank == [t \in ts |-> Cardinality(Below(t)) + 1]
           Sorted(s) == \A i, j \in DOMAIN s : i < j => Before(s[i], s[j])
<1>1. n \in Nat
  BY FS_CardinalityType
<1>2. \A t \in ts : ~Before(t, t)
  BY DEF Before
<1>3. \A s, t \in ts : s # t => Before(s, t) \/ Before(t, s)
  BY DEF Before
<1>4. \A s, t, u \in ts : Before(s, t) /\ Before(t, u) => Before(s, u)
  BY DEF Before
<1>5. \A t \in ts : /\ IsFiniteSet(Below(t))
                     /\ Cardinality(Below(t)) \in Nat
                     /\ Cardinality(Below(t)) < n
  <2> TAKE t \in ts
  <2>1. /\ IsFiniteSet(ts \ {t})
        /\ Cardinality(ts \ {t}) = n - 1
    BY FS_RemoveElement
  <2>2. Below(t) \in SUBSET (ts \ {t})
    BY <1>2
  <2> QED
    BY <1>1, <2>1, <2>2, FS_Subset, FS_CardinalityType
<1>6. \A s, t \in ts : Before(s, t) => rank[s] < rank[t]
  <2> TAKE s, t \in ts
  <2> HAVE Before(s, t)
  <2>1. /\ IsFiniteSet(Below(s) \cup {s})
        /\ Cardinality(Below(s) \cup {s}) = Cardinality(Below(s)) + 1
    BY <1>2, <1>5, FS_AddElement
  <2>2. Below(s) \cup {s} \in SUBSET Below(t)
    BY <1>4
  <2>3. Cardinality(Below(s) \cup {s}) <= Cardinality(Below(t))
    BY <1>5, <2>2, FS_Subset
  <2>4. /\ Cardinality(Below(s)) \in Nat /\ Cardinality(Below(t)) \in Nat
        /\ rank[s] = Cardinality(Below(s)) + 1 /\ rank[t] = Cardinality(Below(t)) + 1
    BY <1>5
  <2> HIDE DEF Below, rank
  <2> QED
    BY <2>1, <2>3, <2>4
<1>7. rank \in Injection(ts, 1..n)
  <2>1. rank \in [ts -> 1..n]
    BY <1>1, <1>5
  <2> HIDE DEF rank
  <2>2. \A s, t \in ts : rank[s] = rank[t] => s = t
    BY <1>3, <1>6, <2>1
  <2> QED
    BY <2>1, <2>2 DEF Injection, IsInjective
<1>8. rank \in Surjection(ts, 1..n)
  BY <1>1, <1>7, FS_Injection, FS_Interval
<1>9. \E s \in [1..n -> ts] : Sorted(s)
  <2> DEFINE g == [i \in 1..n |-> CHOOSE t \in ts : rank[t] = i]
  <2>1. \A i \in 1..n : g[i] \in ts /\ rank[g[i]] = i
    BY <1>8 DEF Surjection
  <2>3. g \in [1..n -> ts]
    BY <2>1
  <2> HIDE DEF rank, g
  <2>2. \A i, j \in 1..n : i < j => Before(g[i], g[j])
    <3> TAKE i, j \in 1..n
    <3> HAVE i < j
    <3>1. ~Before(g[j], g[i])
      BY <2>1, <1>6
    <3>2. g[i] # g[j]
      BY <2>1
    <3> QED
      BY <2>1, <3>1, <3>2, <1>3
  <2> QED
    BY <2>2, <2>3
<1>10. Ordered(ts) \in [1..n -> ts] /\ Sorted(Ordered(ts))
  BY <1>9 DEF Ordered
<1>11. Ordered(ts) \in Injection(1..n, ts)
  BY <1>2, <1>10 DEF Injection, IsInjective
<1>12. Ordered(ts) \in Surjection(1..n, ts)
  BY <1>1, <1>11, FS_Injection, FS_Interval
<1> QED
  BY <1>10, <1>12 DEF Surjection

\* The earliest deadline is one of them and not after any other.
LEMMA EarliestTimer ==
    ASSUME NEW ts, ts \subseteq Nat \X Nat, ts # {}
    PROVE  Earliest(ts) \in Nat /\ \A t \in ts : Earliest(ts) <= t[1]
<1> DEFINE D == {t[1] : t \in ts}
<1>1. D \subseteq Nat /\ D # {}
  OBVIOUS
<1>2. PICK d \in D : \A e \in D : ~(<<e, d>> \in OpToRel(<, Nat))
  BY <1>1, WFMin, NatLessThanWellFounded
<1>3. \A t \in ts : d <= t[1]
  <2> HIDE DEF D
  <2>1. \A e \in D : ~(e < d)
    BY <1>1, <1>2 DEF OpToRel
  <2>2. \A e \in D : d <= e
    BY <1>1, <2>1
  <2> QED
    BY <2>2 DEF D
<1>4. \E e \in D : \A t \in ts : e <= t[1]
  BY <1>3
<1>5. Earliest(ts) = CHOOSE e \in D : \A t \in ts : e <= t[1]
  BY DEF Earliest
<1> QED
  BY <1>1, <1>4, <1>5

\* What sources look like.
LEMMA SourceFacts ==
    /\ NoSource \notin Sources /\ NoSource.kind = "none" /\ NoSource.handle = NoHandle
    /\ \A s \in Sources :
          /\ s.kind \in {"timer", "readiness", "completion"}
          /\ s.kind = "readiness" => /\ s.handle \in Handles
                                     /\ s.interests \subseteq Directions /\ s.interests # {}
          /\ s.kind # "readiness" => s.handle = NoHandle
          /\ s.kind = "timer" => s.due \in 1..MaxNow /\ s = Source("timer", {}, NoHandle, s.due)
<1>1. NoSource.kind = "none" /\ NoSource.handle = NoHandle
  BY DEF Source, NoSource
<1>2. ASSUME NEW d \in 1..MaxNow, NEW s, s = Source("timer", {}, NoHandle, d)
      PROVE  s.kind = "timer" /\ s.handle = NoHandle /\ s.due = d
  BY <1>2 DEF Source
<1>3. ASSUME NEW i, NEW h, NEW s, s = Source("readiness", i, h, 0)
      PROVE  s.kind = "readiness" /\ s.handle = h /\ s.interests = i
  BY <1>3 DEF Source
<1>4. ASSUME NEW s, s = Source("completion", {}, NoHandle, 0)
      PROVE  s.kind = "completion" /\ s.handle = NoHandle
  BY <1>4 DEF Source
<1>5. ASSUME NEW s \in Sources
      PROVE  \/ \E d \in 1..MaxNow : s = Source("timer", {}, NoHandle, d)
             \/ \E i \in (SUBSET Directions) \ {{}}, h \in Handles : s = Source("readiness", i, h, 0)
             \/ s = Source("completion", {}, NoHandle, 0)
  BY DEF Sources
<1>6. ASSUME NEW s \in Sources
      PROVE  /\ s.kind \in {"timer", "readiness", "completion"}
             /\ s.kind = "readiness" => /\ s.handle \in Handles
                                        /\ s.interests \subseteq Directions /\ s.interests # {}
             /\ s.kind # "readiness" => s.handle = NoHandle
             /\ s.kind = "timer" => s.due \in 1..MaxNow /\ s = Source("timer", {}, NoHandle, s.due)
  BY <1>2, <1>3, <1>4, <1>5
<1> QED
  BY <1>1, <1>6

\* The table of slots.
LEMMA SlotFacts ==
    ASSUME CoreType
    PROVE  /\ Len(slots) \in Nat /\ DOMAIN slots = 1..Len(slots)
           /\ \A k \in DOMAIN slots : slots[k] \in Slot
           /\ \A k \in DOMAIN slots : slots[k].generation \in 1..MaxIssued /\ slots[k].active \in Active0
<1>1. slots \in Seq(Slot)
  BY DEF CoreType
<1>2. Len(slots) \in Nat /\ DOMAIN slots = 1..Len(slots) /\ \A k \in DOMAIN slots : slots[k] \in Slot
  BY <1>1
<1> QED
  BY <1>2 DEF Slot

\* Registrations given out are finitely many, and there is one for every slot and for
\* every generation of a slot.
LEMMA IssuedFinite ==
    ASSUME CoreType
    PROVE  /\ IsFiniteSet(Issued) /\ Cardinality(Issued) \in Nat
           /\ Issued \subseteq Regs
           /\ Len(slots) <= Cardinality(Issued)
           /\ \A k \in DOMAIN slots : slots[k].generation <= Cardinality(Issued)
<1> USE ReactorAssumption
<1>1. Len(slots) \in Nat /\ DOMAIN slots = 1..Len(slots)
  BY SlotFacts
<1>2. \A k \in DOMAIN slots : slots[k].generation \in 1..MaxIssued
  BY SlotFacts
<1>3. Issued \subseteq Regs
  BY <1>1 DEF Issued, Regs, CoreType
<1>4. IsFiniteSet(Regs)
  <2>1. IsFiniteSet(1..MaxIssued)
    BY FS_Interval
  <2> QED
    BY <2>1, FS_Product DEF Regs
<1>5. IsFiniteSet(Issued) /\ Cardinality(Issued) \in Nat
  BY <1>3, <1>4, FS_Subset, FS_CardinalityType
<1>6. Len(slots) <= Cardinality(Issued)
  <2> DEFINE f == [k \in 1..Len(slots) |-> <<k, 1>>]
  <2>1. \A k \in 1..Len(slots) : <<k, 1>> \in Issued
    BY <1>1, <1>2 DEF Issued
  <2>2. f \in Injection(1..Len(slots), Issued)
    BY <2>1 DEF Injection, IsInjective
  <2> QED
    BY <1>1, <1>5, <2>2, FS_Injection, FS_Interval
<1>7. ASSUME NEW k \in DOMAIN slots PROVE slots[k].generation <= Cardinality(Issued)
  <2> DEFINE n == slots[k].generation
             f == [g \in 1..n |-> <<k, g>>]
  <2>1. \A g \in 1..n : <<k, g>> \in Issued
    BY <1>2 DEF Issued
  <2>2. f \in Injection(1..n, Issued)
    BY <2>1 DEF Injection, IsInjective
  <2>3. n \in Nat /\ n >= 1
    BY <1>2
  <2> HIDE DEF n, f
  <2>4. Cardinality(1..n) = n
    BY <2>3, FS_Interval
  <2> QED
    BY <1>5, <2>2, <2>3, <2>4, FS_Injection DEF n
<1> QED
  BY <1>3, <1>5, <1>6, <1>7

\* insert gives out an identity that was never given out, in a slot without a source.
LEMMA NextFresh ==
    ASSUME CoreType, FreeOK, Cardinality(Issued) < MaxIssued
    PROVE  /\ NextReg \in Regs /\ NextReg \notin Issued
           /\ NextReg[1] \in 1..(Len(slots) + 1)
           /\ NextReg[1] = Len(slots) + 1 => free = <<>> /\ NextReg[2] = 1
           /\ NextReg[1] # Len(slots) + 1 =>
                 /\ free # <<>> /\ NextReg[1] = free[Len(free)]
                 /\ slots[NextReg[1]].active = NoSource
                 /\ NextReg[2] = slots[NextReg[1]].generation + 1
<1> USE ReactorAssumption
<1>1. Len(slots) \in Nat /\ DOMAIN slots = 1..Len(slots)
  BY SlotFacts
<1>2. \A k \in DOMAIN slots : slots[k].generation \in 1..MaxIssued
  BY SlotFacts
<1>3. /\ Cardinality(Issued) \in Nat
      /\ Len(slots) <= Cardinality(Issued)
      /\ \A k \in DOMAIN slots : slots[k].generation <= Cardinality(Issued)
  BY IssuedFinite
<1>4. CASE free = <<>>
  <2>1. NextReg = <<Len(slots) + 1, 1>>
    BY <1>4 DEF NextReg
  <2>2. NextReg \notin Issued
    BY <1>1, <2>1 DEF Issued
  <2>3. NextReg \in Regs
    BY <1>1, <1>3, <2>1 DEF Regs
  <2> QED
    BY <1>1, <1>4, <2>1, <2>2, <2>3
<1>5. CASE free # <<>>
  <2> DEFINE k == free[Len(free)]
  <2>1. Len(free) \in DOMAIN free
    BY <1>5 DEF CoreType
  <2>2. k \in DOMAIN slots /\ slots[k].active = NoSource
    BY <2>1 DEF FreeOK
  <2>3. NextReg = <<k, slots[k].generation + 1>>
    BY <1>5 DEF NextReg
  <2> HIDE DEF k
  <2>4. NextReg \notin Issued
    BY <1>2, <2>2, <2>3 DEF Issued
  <2>5. NextReg \in Regs
    BY <1>1, <1>2, <1>3, <2>2, <2>3 DEF Regs, CoreType
  <2> QED
    BY <1>1, <1>5, <2>2, <2>3, <2>4, <2>5 DEF k
<1> QED
  BY <1>4, <1>5

\* Positions of a concatenation.
LEMMA ConcatFacts ==
    ASSUME NEW S, NEW s \in Seq(S), NEW t \in Seq(S)
    PROVE  /\ s \o t \in Seq(S) /\ Len(s \o t) = Len(s) + Len(t)
           /\ DOMAIN (s \o t) = 1..(Len(s) + Len(t)) /\ DOMAIN s = 1..Len(s) /\ DOMAIN t = 1..Len(t)
           /\ Len(s) \in Nat /\ Len(t) \in Nat
           /\ \A i \in DOMAIN (s \o t) :
                 \/ i \in DOMAIN s /\ (s \o t)[i] = s[i]
                 \/ i - Len(s) \in DOMAIN t /\ i \notin DOMAIN s /\ (s \o t)[i] = t[i - Len(s)]
           /\ \A i \in DOMAIN s : i \in DOMAIN (s \o t) /\ (s \o t)[i] = s[i]
           /\ \A i \in DOMAIN t : i + Len(s) \in DOMAIN (s \o t) /\ (s \o t)[i + Len(s)] = t[i]
OBVIOUS

\* A live registration is the current one of its slot.
LEMMA LiveFacts ==
    ASSUME CoreType
    PROVE  \A r : r \in Live <=> /\ r \in Regs /\ r[1] \in DOMAIN slots
                                 /\ r = Current(r[1]) /\ slots[r[1]].active # NoSource
<1> USE ReactorAssumption
<1>1. /\ Len(slots) \in Nat /\ Len(slots) <= MaxIssued /\ DOMAIN slots = 1..Len(slots)
      /\ \A k \in DOMAIN slots : slots[k].generation \in 1..MaxIssued
  BY SlotFacts DEF CoreType
<1>2. ASSUME NEW r, r \in Live
      PROVE  /\ r \in Regs /\ r[1] \in DOMAIN slots
             /\ r = Current(r[1]) /\ slots[r[1]].active # NoSource
  BY <1>1, <1>2 DEF Live, Issued, Regs, Current
<1>3. ASSUME NEW r, r \in Regs, r[1] \in DOMAIN slots,
             r = Current(r[1]), slots[r[1]].active # NoSource
      PROVE  r \in Live
  <2>1. r[2] = slots[r[1]].generation /\ r = <<r[1], r[2]>> /\ r[2] \in 1..MaxIssued
    BY <1>3 DEF Current, Regs
  <2> QED
    BY <1>1, <1>3, <2>1 DEF Live, Issued
<1> QED
  BY <1>2, <1>3

\* remove, of live registrations: they end, their slots go to the free list, and
\* nothing else changes.
LEMMA RetireFacts ==
    ASSUME CoreType, FreeOK, NEW rs \in Seq(Regs),
           \A i \in DOMAIN rs : rs[i] \in Live,
           \A i, j \in DOMAIN rs : rs[i] = rs[j] => i = j,
           Retire(rs)
    PROVE  /\ slots' \in Seq(Slot) /\ Len(slots') = Len(slots) /\ DOMAIN slots' = DOMAIN slots
           /\ \A k \in DOMAIN slots :
                 /\ slots'[k].generation = slots[k].generation
                 /\ slots'[k].active = IF \E i \in DOMAIN rs : rs[i] = Current(k)
                                       THEN NoSource ELSE slots[k].active
           /\ free' \in Seq(Nat) /\ FreeOK'
           /\ Issued' = Issued
           /\ Live' = Live \ {rs[i] : i \in DOMAIN rs}
<1> USE ReactorAssumption
<1>1. /\ Len(slots) \in Nat /\ Len(slots) <= MaxIssued /\ DOMAIN slots = 1..Len(slots)
      /\ \A k \in DOMAIN slots : slots[k] \in Slot
      /\ \A k \in DOMAIN slots : slots[k].generation \in 1..MaxIssued
  BY SlotFacts DEF CoreType
<1>2. \A i \in DOMAIN rs : rs[i] \in Regs /\ rs[i][1] \in DOMAIN slots /\ rs[i] = Current(rs[i][1])
                           /\ slots[rs[i][1]].active # NoSource
  BY LiveFacts
<1>3. \A k \in DOMAIN slots :
         (\E i \in DOMAIN rs : rs[i][1] = k) <=> (\E i \in DOMAIN rs : rs[i] = Current(k))
  BY <1>2 DEF Current
<1>4. slots' = [k \in DOMAIN slots |->
                   IF \E i \in DOMAIN rs : rs[i] = Current(k)
                   THEN [slots[k] EXCEPT !.active = NoSource] ELSE slots[k]]
  BY <1>3 DEF Retire
<1>5. /\ DOMAIN slots' = DOMAIN slots
      /\ \A k \in DOMAIN slots :
            /\ slots'[k].generation = slots[k].generation
            /\ slots'[k].active = IF \E i \in DOMAIN rs : rs[i] = Current(k)
                                  THEN NoSource ELSE slots[k].active
  BY <1>1, <1>4 DEF Slot
<1>6. slots' \in Seq(Slot) /\ Len(slots') = Len(slots)
  <2>1. slots' \in [1..Len(slots) -> Slot]
    BY <1>1, <1>4 DEF Slot, Active0
  <2> QED
    BY <1>1, <2>1
<1>7. free' \in Seq(Nat) /\ FreeOK'
  <2> DEFINE ks == [i \in DOMAIN rs |-> rs[i][1]]
  <2>1. ks \in Seq(Nat) /\ Len(ks) = Len(rs) /\ DOMAIN ks = DOMAIN rs
    BY <1>1, <1>2
  <2>2. free' = free \o ks /\ free \in Seq(Nat)
    BY DEF Retire, CoreType
  <2>3. \A i \in DOMAIN ks : ks[i] \in DOMAIN slots /\ slots[ks[i]].active # NoSource
                             /\ slots'[ks[i]].active = NoSource
    BY <1>2, <1>5
  <2>4. \A i, j \in DOMAIN ks : ks[i] = ks[j] => i = j
    BY <1>2
  <2>5. \A i \in DOMAIN free : free[i] \in DOMAIN slots /\ slots[free[i]].active = NoSource
                               /\ slots'[free[i]].active = NoSource
    BY <1>5 DEF FreeOK
  <2>6. \A i, j \in DOMAIN free : free[i] = free[j] => i = j
    BY DEF FreeOK
  <2> HIDE DEF ks
  <2>7. /\ free' \in Seq(Nat)
        /\ DOMAIN free' = 1..(Len(free) + Len(ks)) /\ Len(free) \in Nat
        /\ \A i \in DOMAIN free' :
              \/ i \in DOMAIN free /\ free'[i] = free[i]
              \/ i - Len(free) \in DOMAIN ks /\ i \notin DOMAIN free /\ free'[i] = ks[i - Len(free)]
    <3>1. /\ free \o ks \in Seq(Nat)
          /\ DOMAIN (free \o ks) = 1..(Len(free) + Len(ks)) /\ Len(free) \in Nat
          /\ \A i \in DOMAIN (free \o ks) :
                \/ i \in DOMAIN free /\ (free \o ks)[i] = free[i]
                \/ i - Len(free) \in DOMAIN ks /\ i \notin DOMAIN free /\ (free \o ks)[i] = ks[i - Len(free)]
      BY <2>1, <2>2, ConcatFacts
    <3> QED
      BY <2>2, <3>1
  <2>8. \A i \in DOMAIN free' : free'[i] \in DOMAIN slots' /\ slots'[free'[i]].active = NoSource
    BY <1>5, <2>3, <2>5, <2>7
  <2>9. \A i, j \in DOMAIN free' : free'[i] = free'[j] => i = j
    <3> TAKE i, j \in DOMAIN free'
    <3> HAVE free'[i] = free'[j]
    <3>1. i \in Nat /\ j \in Nat
      BY <2>1, <2>7
    <3>2. CASE i \in DOMAIN free /\ j \in DOMAIN free
      BY <2>6, <2>7, <3>2
    <3>3. CASE i \notin DOMAIN free /\ j \notin DOMAIN free
      <4>1. ks[i - Len(free)] = ks[j - Len(free)] /\ i - Len(free) \in DOMAIN ks /\ j - Len(free) \in DOMAIN ks
        BY <2>7, <3>3
      <4>2. i - Len(free) = j - Len(free)
        BY <2>4, <4>1
      <4> QED
        BY <2>7, <3>1, <4>2
    <3>4. CASE i \in DOMAIN free /\ j \notin DOMAIN free
      BY <2>3, <2>5, <2>7, <3>4
    <3>5. CASE i \notin DOMAIN free /\ j \in DOMAIN free
      BY <2>3, <2>5, <2>7, <3>5
    <3> QED
      BY <3>2, <3>3, <3>4, <3>5
  <2> QED
    BY <2>7, <2>8, <2>9 DEF FreeOK
<1>8. Issued' = Issued
  BY <1>1, <1>5 DEF Issued
<1>9. Live' = Live \ {rs[i] : i \in DOMAIN rs}
  <2>1. \A r \in Issued : r[1] \in DOMAIN slots /\ r = <<r[1], r[2]>>
    BY DEF Issued
  <2>2. \A r \in Issued : slots[r[1]].generation = r[2] => r = Current(r[1])
    BY <2>1 DEF Current
  <2>3. \A r \in Issued : r \in Live' <=> r \in Live /\ ~\E i \in DOMAIN rs : rs[i] = r
    BY <1>2, <1>5, <1>8, <2>1, <2>2 DEF Live
  <2>4. Live' \subseteq Issued /\ Live \subseteq Issued
    BY <1>8 DEF Live
  <2> QED
    BY <2>3, <2>4
<1> QED
  BY <1>5, <1>6, <1>7, <1>8, <1>9

\* Filling the slot of the next registration.
LEMMA FillFacts ==
    ASSUME CoreType, FreeOK, Cardinality(Issued) < MaxIssued,
           NEW r, r = NextReg, NEW source \in Active0,
           slots' = Fill(r, source)
    PROVE  /\ slots' \in Seq(Slot) /\ Len(slots') <= MaxIssued
           /\ DOMAIN slots' = DOMAIN slots \cup {r[1]}
           /\ slots'[r[1]] = [generation |-> r[2], active |-> source]
           /\ \A k \in DOMAIN slots : k # r[1] => slots'[k] = slots[k]
           /\ r[1] \in DOMAIN slots => slots[r[1]].active = NoSource
           /\ Issued' = Issued \cup {r}
           /\ Live' = IF source = NoSource THEN Live ELSE Live \cup {r}
<1> USE ReactorAssumption
<1> DEFINE slot == [generation |-> r[2], active |-> source]
<1>1. /\ Len(slots) \in Nat /\ Len(slots) <= MaxIssued /\ DOMAIN slots = 1..Len(slots)
      /\ \A k \in DOMAIN slots : slots[k] \in Slot
      /\ \A k \in DOMAIN slots : slots[k].generation \in 1..MaxIssued
      /\ slots \in Seq(Slot)
  BY SlotFacts DEF CoreType
<1>2. /\ r \in Regs /\ r \notin Issued
      /\ r[1] \in 1..(Len(slots) + 1)
      /\ r[1] = Len(slots) + 1 => r[2] = 1
      /\ r[1] # Len(slots) + 1 => /\ slots[r[1]].active = NoSource
                                  /\ r[2] = slots[r[1]].generation + 1
  BY NextFresh
<1>3. r = <<r[1], r[2]>> /\ r[1] \in 1..MaxIssued /\ r[2] \in 1..MaxIssued
  BY <1>2 DEF Regs
<1>4. slot \in Slot
  BY <1>3 DEF Slot
<1>5. /\ slots' \in Seq(Slot) /\ Len(slots') <= MaxIssued
      /\ DOMAIN slots' = DOMAIN slots \cup {r[1]}
      /\ slots'[r[1]] = slot
      /\ \A k \in DOMAIN slots : k # r[1] => slots'[k] = slots[k]
  <2> HIDE DEF slot
  <2>1. CASE r[1] = Len(slots) + 1
    <3>1. slots' = Append(slots, slot)
      BY <1>1, <2>1 DEF Fill, slot
    <3> QED
      BY <1>1, <1>3, <1>4, <2>1, <3>1
  <2>2. CASE r[1] # Len(slots) + 1
    <3>1. r[1] \in 1..Len(slots) /\ ~(r[1] > Len(slots))
      BY <1>1, <1>2, <2>2
    <3>2. slots' = [slots EXCEPT ![r[1]] = slot]
      BY <3>1 DEF Fill, slot
    <3> QED
      BY <1>1, <1>3, <1>4, <2>2, <3>1, <3>2
  <2> QED
    BY <2>1, <2>2
<1>6. r[1] \in DOMAIN slots => slots[r[1]].active = NoSource
  BY <1>1, <1>2
<1>7. Issued' = Issued \cup {r}
  <2>1. slots'[r[1]].generation = r[2]
    BY <1>5
  <2>2. \A k \in DOMAIN slots : k # r[1] => slots'[k].generation = slots[k].generation
    BY <1>5
  <2>3. \A g \in 1..MaxIssued : <<r[1], g>> \in Issued' <=> g <= r[2]
    BY <1>5, <2>1 DEF Issued
  <2>4. \A g \in 1..MaxIssued : <<r[1], g>> \in Issued <=> g < r[2]
    BY <1>1, <1>2, <1>3 DEF Issued
  <2>5. \A k \in DOMAIN slots, g \in 1..MaxIssued : k # r[1] => (<<k, g>> \in Issued' <=> <<k, g>> \in Issued)
    BY <1>5, <2>2 DEF Issued
  <2>6. Issued' \subseteq (DOMAIN slots \cup {r[1]}) \X (1..MaxIssued)
    BY <1>5 DEF Issued
  <2>7. Issued \subseteq (DOMAIN slots) \X (1..MaxIssued)
    BY DEF Issued
  <2>8. \A k \in DOMAIN slots \cup {r[1]}, g \in 1..MaxIssued :
            <<k, g>> \in Issued' <=> <<k, g>> \in Issued \/ <<k, g>> = r
    <3> TAKE k \in DOMAIN slots \cup {r[1]}, g \in 1..MaxIssued
    <3>1. CASE k # r[1]
      BY <1>3, <2>5, <3>1
    <3>2. CASE k = r[1]
      <4>1. g <= r[2] <=> g < r[2] \/ g = r[2]
        BY <1>3
      <4>2. <<k, g>> = r <=> g = r[2]
        BY <1>3, <3>2
      <4> QED
        BY <2>3, <2>4, <3>2, <4>1, <4>2
    <3> QED
      BY <3>1, <3>2
  <2> QED
    BY <1>3, <2>6, <2>7, <2>8
<1>8. Live' = IF source = NoSource THEN Live ELSE Live \cup {r}
  <2>1. \A q \in Issued : q = <<q[1], q[2]>> /\ q[1] \in DOMAIN slots
    BY DEF Issued
  <2>2. \A q \in Issued : q[1] # r[1] => (q \in Live' <=> q \in Live)
    BY <1>5, <1>7, <2>1 DEF Live
  <2>3. \A q \in Issued : q[1] = r[1] => q \notin Live /\ q \notin Live'
    BY <1>2, <1>3, <1>5, <1>6, <2>1 DEF Live
  <2>4. r \in Live' <=> source # NoSource
    BY <1>5, <1>7 DEF Live
  <2>5. Live' \subseteq Issued \cup {r} /\ Live \subseteq Issued
    BY <1>7 DEF Live
  <2>6. \A q \in Issued : q \in Live' <=> q \in Live
    BY <2>2, <2>3
  <2>7. CASE source = NoSource
    <3>1. \A q : q \in Live' <=> q \in Live
      BY <2>4, <2>5, <2>6, <2>7
    <3> QED
      BY <2>7, <3>1
  <2>8. CASE source # NoSource
    <3>1. \A q : q \in Live' <=> q \in Live \cup {r}
      BY <2>4, <2>5, <2>6, <2>8
    <3> QED
      BY <2>8, <3>1
  <2> QED
    BY <2>7, <2>8
<1> QED
  BY <1>5, <1>6, <1>7, <1>8

\* insert, and insert followed by remove, keep the free list sound.
LEMMA InsertFacts ==
    ASSUME CoreType, FreeOK, Cardinality(Issued) < MaxIssued,
           NEW r, r = NextReg, NEW source \in Active0,
           Insert(r, source) \/ (InsertRemove(r) /\ source = NoSource)
    PROVE  slots' = Fill(r, source) /\ free' \in Seq(Nat) /\ FreeOK'
<1> USE ReactorAssumption
<1>1. slots' = Fill(r, source)
  BY DEF Insert, InsertRemove
<1>2. /\ DOMAIN slots' = DOMAIN slots \cup {r[1]}
      /\ slots'[r[1]] = [generation |-> r[2], active |-> source]
      /\ slots'[r[1]].active = source
      /\ \A k \in DOMAIN slots : k # r[1] => slots'[k] = slots[k]
  <2>1. /\ DOMAIN slots' = DOMAIN slots \cup {r[1]}
        /\ slots'[r[1]] = [generation |-> r[2], active |-> source]
        /\ \A k \in DOMAIN slots : k # r[1] => slots'[k] = slots[k]
    BY <1>1, FillFacts
  <2> QED
    BY <2>1
<1>3. /\ r[1] = Len(slots) + 1 => free = <<>>
      /\ r[1] # Len(slots) + 1 => free # <<>> /\ r[1] = free[Len(free)]
      /\ r[1] \in Nat
      /\ free = <<>> => r[1] \notin DOMAIN slots
  <2>1. Len(slots) \in Nat /\ DOMAIN slots = 1..Len(slots)
    BY SlotFacts
  <2> QED
    BY <2>1, NextFresh DEF Regs
<1>4. /\ free \in Seq(Nat)
      /\ \A i \in DOMAIN free : free[i] \in DOMAIN slots /\ slots[free[i]].active = NoSource
      /\ \A i, j \in DOMAIN free : free[i] = free[j] => i = j
  BY DEF CoreType, FreeOK
<1>5. CASE free = <<>>
  <2>1. free' = <<>> \/ (free' = <<r[1]>> /\ source = NoSource)
    BY <1>5 DEF Insert, InsertRemove
  <2>2. /\ free' \in Seq(Nat)
        /\ \A i \in DOMAIN free' : free'[i] \in DOMAIN slots' /\ slots'[free'[i]].active = NoSource
        /\ \A i, j \in DOMAIN free' : free'[i] = free'[j] => i = j
    <3>1. CASE free' = <<>>
      BY <3>1
    <3>2. CASE free' = <<r[1]>> /\ source = NoSource
      BY <1>2, <1>3, <3>2
    <3> QED
      BY <2>1, <3>1, <3>2
  <2> QED
    BY <1>1, <2>2 DEF FreeOK
<1>6. CASE free # <<>> /\ Insert(r, source)
  <2> DEFINE n == Len(free)
  <2>1. n \in Nat /\ n >= 1 /\ r[1] = free[n] /\ free' = SubSeq(free, 1, n - 1)
    BY <1>3, <1>4, <1>6 DEF Insert
  <2>2. /\ free' \in Seq(Nat) /\ DOMAIN free' = 1..(n - 1)
        /\ \A i \in 1..(n - 1) : free'[i] = free[i] /\ i \in DOMAIN free /\ i # n
    BY <1>4, <2>1
  <2>3. n \in DOMAIN free
    BY <1>4, <2>1
  <2> HIDE DEF n
  <2>4. \A i \in 1..(n - 1) : free[i] # r[1]
    BY <1>4, <2>1, <2>2, <2>3
  <2>5. /\ \A i \in DOMAIN free' : free'[i] \in DOMAIN slots' /\ slots'[free'[i]].active = NoSource
        /\ \A i, j \in DOMAIN free' : free'[i] = free'[j] => i = j
    BY <1>2, <1>4, <2>2, <2>4
  <2> QED
    BY <1>1, <2>2, <2>5 DEF FreeOK
<1>7. CASE free # <<>> /\ InsertRemove(r) /\ source = NoSource
  <2>1. free' = free
    BY <1>7 DEF InsertRemove
  <2>2. /\ \A i \in DOMAIN free' : free'[i] \in DOMAIN slots' /\ slots'[free'[i]].active = NoSource
        /\ \A i, j \in DOMAIN free' : free'[i] = free'[j] => i = j
    BY <1>2, <1>4, <1>7, <2>1
  <2> QED
    BY <1>1, <1>4, <2>1, <2>2 DEF FreeOK
<1> QED
  BY <1>5, <1>6, <1>7

\* The polling identities once the one of h is forgotten.
LEMMA KeysFacts ==
    ASSUME CoreType, KeysOK, NEW h \in Handles
    PROVE  /\ Keys(h) \in [DOMAIN Keys(h) -> Handles] /\ DOMAIN Keys(h) \subseteq DOMAIN pollKeys
           /\ \A k \in DOMAIN Keys(h) : Keys(h)[k] = pollKeys[k] /\ pollKeys[k] # h
           /\ \A g \in DOMAIN handles : g # h => handles[g].key \in DOMAIN Keys(h)
<1>1. pollKeys \in [DOMAIN pollKeys -> Handles]
  BY DEF CoreType
<1>2. CASE h \in DOMAIN handles
  <2>1. Keys(h) = Without(pollKeys, handles[h].key)
    BY <1>2 DEF Keys
  <2>2. /\ DOMAIN Keys(h) = DOMAIN pollKeys \ {handles[h].key}
        /\ \A k \in DOMAIN Keys(h) : Keys(h)[k] = pollKeys[k]
        /\ Keys(h) \in [DOMAIN Keys(h) -> Handles]
    BY <1>1, <2>1 DEF Without, Restrict
  <2> QED
    BY <1>2, <2>2 DEF KeysOK
<1>3. CASE h \notin DOMAIN handles
  BY <1>1, <1>3 DEF Keys, KeysOK
<1> QED
  BY <1>2, <1>3

\* update_handle, when it succeeds, and revoke_readiness: the handle h waits for what
\* was asked, under a key never used before, and the other handles are untouched.
LEMMA UpdateFacts ==
    ASSUME CoreType, KeysOK, native \in [Handles -> Interests],
           NEW h \in Handles, NEW read \in RegOrNot, NEW write \in RegOrNot,
           Update(h, read, write) \/ (NoInterest(h) /\ Dirs(read, write) = {})
    PROVE  /\ handles' \in [DOMAIN handles' -> Entries] /\ DOMAIN handles' \subseteq Handles
           /\ pollKeys' \in [DOMAIN pollKeys' -> Handles] /\ DOMAIN pollKeys' \subseteq 1..lastKey'
           /\ lastKey' \in Nat
           /\ native' \in [Handles -> Interests]
           /\ KeysOK'
           /\ \A g : g # h => (g \in DOMAIN handles' <=> g \in DOMAIN handles)
           /\ \A g \in DOMAIN handles : g # h => handles'[g] = handles[g]
           /\ \A g \in Handles : g # h => native'[g] = native[g]
           /\ \A g : \A d \in Directions :
                 Direction(g, d)' = IF g = h THEN (IF d = "read" THEN read ELSE write) ELSE Direction(g, d)
           /\ h \in DOMAIN handles' => Dirs(handles'[h].read, handles'[h].write) # {}
           /\ Watched(h)'
<1> USE ReactorAssumption
<1> DEFINE k == lastKey + 1
<1>1. /\ handles \in [DOMAIN handles -> Entries] /\ DOMAIN handles \subseteq Handles
      /\ pollKeys \in [DOMAIN pollKeys -> Handles] /\ DOMAIN pollKeys \subseteq 1..lastKey
      /\ lastKey \in Nat
  BY DEF CoreType
<1>2. /\ Keys(h) \in [DOMAIN Keys(h) -> Handles] /\ DOMAIN Keys(h) \subseteq DOMAIN pollKeys
      /\ \A c \in DOMAIN Keys(h) : Keys(h)[c] = pollKeys[c] /\ pollKeys[c] # h
      /\ \A g \in DOMAIN handles : g # h => handles[g].key \in DOMAIN Keys(h)
  BY KeysFacts
<1>3. CASE Interest(h, read, write) /\ Dirs(read, write) # {}
  <2> DEFINE entry == [key |-> k, read |-> read, write |-> write]
             armed == [key |-> k, dirs |-> Dirs(read, write), armed |-> TRUE]
  <2>1. /\ lastKey' = k
        /\ native' = [native EXCEPT ![h] = armed]
        /\ handles' = With(handles, h, entry)
        /\ pollKeys' = With(Keys(h), k, h)
    BY <1>3 DEF Interest
  <2>2. entry \in Entries /\ armed \in Interests /\ k \in Nat /\ k > lastKey
    BY <1>1 DEF Entries, Interests, Dirs
  <2>3. entry.key = k /\ entry.read = read /\ entry.write = write
        /\ armed.key = k /\ armed.dirs = Dirs(read, write) /\ armed.armed = TRUE
    OBVIOUS
  <2> HIDE DEF entry, armed
  <2>4. /\ DOMAIN handles' = DOMAIN handles \cup {h} /\ handles'[h] = entry
        /\ \A g \in DOMAIN handles : g # h => handles'[g] = handles[g]
        /\ handles' \in [DOMAIN handles \cup {h} -> Entries]
    BY <1>1, <2>1, <2>2 DEF With
  <2>5. /\ DOMAIN pollKeys' = DOMAIN Keys(h) \cup {k} /\ pollKeys'[k] = h
        /\ \A c \in DOMAIN Keys(h) : c # k => pollKeys'[c] = Keys(h)[c]
        /\ pollKeys' \in [DOMAIN Keys(h) \cup {k} -> Handles]
    BY <1>2, <2>1 DEF With
  <2>6. DOMAIN pollKeys' \subseteq 1..lastKey' /\ k \notin DOMAIN Keys(h) /\ lastKey' \in Nat
    BY <1>1, <1>2, <2>1, <2>2, <2>5
  <2>7. /\ native' \in [Handles -> Interests] /\ native'[h] = armed
        /\ \A g \in Handles : g # h => native'[g] = native[g]
    BY <2>1, <2>2
  <2>8. KeysOK'
    <3> HIDE DEF k
    <3>1. \A g \in DOMAIN handles' : handles'[g].key \in DOMAIN pollKeys' /\ pollKeys'[handles'[g].key] = g
      BY <1>2, <2>3, <2>4, <2>5, <2>6 DEF KeysOK
    <3>2. \A c \in DOMAIN pollKeys' : pollKeys'[c] \in DOMAIN handles' /\ handles'[pollKeys'[c]].key = c
      BY <1>2, <2>3, <2>4, <2>5, <2>6 DEF KeysOK
    <3> QED
      BY <3>1, <3>2 DEF KeysOK
  <2>9. \A g : \A d \in Directions :
            Direction(g, d)' = IF g = h THEN (IF d = "read" THEN read ELSE write) ELSE Direction(g, d)
    BY <2>3, <2>4 DEF Direction
  <2>10. Watched(h)'
    BY <2>3, <2>4, <2>7 DEF Watched
  <2>11. Dirs(handles'[h].read, handles'[h].write) # {}
    BY <1>3, <2>3, <2>4
  <2>12. /\ handles' \in [DOMAIN handles' -> Entries] /\ DOMAIN handles' \subseteq Handles
         /\ pollKeys' \in [DOMAIN pollKeys' -> Handles]
         /\ \A g : g # h => (g \in DOMAIN handles' <=> g \in DOMAIN handles)
    BY <1>1, <2>4, <2>5
  <2> QED
    BY <2>4, <2>6, <2>7, <2>8, <2>9, <2>10, <2>11, <2>12
<1>4. CASE NoInterest(h) /\ Dirs(read, write) = {}
  <2>1. /\ native' = [native EXCEPT ![h] = Unwatched]
        /\ handles' = Without(handles, h)
        /\ pollKeys' = Keys(h) /\ lastKey' = lastKey
    BY <1>4 DEF NoInterest
  <2>2. /\ DOMAIN handles' = DOMAIN handles \ {h}
        /\ \A g \in DOMAIN handles : g # h => handles'[g] = handles[g]
        /\ handles' \in [DOMAIN handles \ {h} -> Entries]
    BY <1>1, <2>1 DEF Without, Restrict
  <2>3. Unwatched \in Interests
    BY DEF Unwatched, Interests
  <2>4. /\ native' \in [Handles -> Interests] /\ native'[h] = Unwatched
        /\ \A g \in Handles : g # h => native'[g] = native[g]
    BY <2>1, <2>3
  <2>5. KeysOK'
    <3>1. \A g \in DOMAIN handles' : handles'[g].key \in DOMAIN pollKeys' /\ pollKeys'[handles'[g].key] = g
      BY <1>2, <2>1, <2>2 DEF KeysOK
    <3>2. \A c \in DOMAIN pollKeys' : pollKeys'[c] \in DOMAIN handles' /\ handles'[pollKeys'[c]].key = c
      BY <1>2, <2>1, <2>2 DEF KeysOK
    <3> QED
      BY <3>1, <3>2 DEF KeysOK
  <2>6. read = NoReg /\ write = NoReg
    BY <1>4 DEF Dirs, Directions
  <2>7. \A g : \A d \in Directions :
            Direction(g, d)' = IF g = h THEN (IF d = "read" THEN read ELSE write) ELSE Direction(g, d)
    BY <2>2, <2>6 DEF Direction
  <2>8. Watched(h)'
    BY <2>2, <2>4 DEF Watched
  <2> QED
    BY <1>1, <1>2, <2>1, <2>2, <2>4, <2>5, <2>7, <2>8
<1> QED
  BY <1>3, <1>4 DEF Update

\* update_handle, when it fails: the core keeps its view and the poller is put back.
LEMMA RejectedFacts ==
    ASSUME CoreType, KeysOK, native \in [Handles -> Interests], failures \in Nat,
           NEW h \in Handles, NEW read, NEW write, Rejected(h, read, write)
    PROVE  /\ UNCHANGED <<handles, pollKeys>> /\ failures' \in Nat
           /\ DOMAIN pollKeys' \subseteq 1..lastKey' /\ lastKey' \in Nat
           /\ native' \in [Handles -> Interests]
           /\ \A g \in Handles : g # h => native'[g] = native[g]
           /\ Watched(h) => Watched(h)'
<1>1. /\ handles \in [DOMAIN handles -> Entries] /\ DOMAIN handles \subseteq Handles
      /\ DOMAIN pollKeys \subseteq 1..lastKey /\ lastKey \in Nat
  BY DEF CoreType
<1>2. UNCHANGED <<handles, pollKeys>> /\ failures' \in Nat
  BY DEF Rejected
<1>3. DOMAIN pollKeys' \subseteq 1..lastKey' /\ lastKey' \in Nat
  BY <1>1 DEF Rejected
<1>4. CASE h \in DOMAIN handles
  <2> DEFINE back == [key |-> handles[h].key, dirs |-> Dirs(handles[h].read, handles[h].write), armed |-> TRUE]
  <2>1. native' = [native EXCEPT ![h] = back]
    BY <1>4 DEF Rejected
  <2>2. back \in Interests
    BY <1>1, <1>4 DEF Entries, Interests, Dirs
  <2>3. back.key = handles[h].key /\ back.dirs = Dirs(handles[h].read, handles[h].write) /\ back.armed = TRUE
    OBVIOUS
  <2> HIDE DEF back
  <2>4. /\ native' \in [Handles -> Interests] /\ native'[h] = back
        /\ \A g \in Handles : g # h => native'[g] = native[g]
    BY <2>1, <2>2
  <2>5. Watched(h)'
    BY <1>2, <1>4, <2>3, <2>4 DEF Watched
  <2> QED
    BY <1>2, <1>3, <2>4, <2>5
<1>5. CASE h \notin DOMAIN handles
  <2>1. native' = native
    BY <1>5 DEF Rejected
  <2>2. Watched(h) => Watched(h)'
    BY <1>2, <1>5, <2>1 DEF Watched
  <2> QED
    BY <1>2, <1>3, <2>1, <2>2
<1> QED
  BY <1>4, <1>5

\* Registrations end: the timers and the directions that named them are gone and
\* those that are left are sound.
LEMMA RetireKeeps ==
    ASSUME CoreType, FreeOK, TimersOK, HandlesOK, NEW rs \in Seq(Regs),
           \A i \in DOMAIN rs : rs[i] \in Live,
           \A i, j \in DOMAIN rs : rs[i] = rs[j] => i = j,
           Retire(rs),
           \A t \in DOMAIN timers' :
               t \in DOMAIN timers /\ timers'[t] = timers[t] /\ ~\E i \in DOMAIN rs : rs[i] = timers[t],
           \A g : \A d \in Directions :
               Direction(g, d)' = IF \E i \in DOMAIN rs : rs[i] = Direction(g, d)
                                  THEN NoReg ELSE Direction(g, d),
           \A g \in DOMAIN handles' : Dirs(handles'[g].read, handles'[g].write) # {}
    PROVE  TimersOK' /\ HandlesOK'
<1>1. /\ DOMAIN slots' = DOMAIN slots
      /\ \A k \in DOMAIN slots :
            /\ slots'[k].generation = slots[k].generation
            /\ slots'[k].active = IF \E i \in DOMAIN rs : rs[i] = Current(k)
                                  THEN NoSource ELSE slots[k].active
  BY RetireFacts
<1>2. \A k \in DOMAIN slots : Current(k)' = Current(k)
  BY <1>1 DEF Current
<1>3. TimersOK'
  BY <1>1, <1>2 DEF TimersOK
<1>4. ASSUME NEW h \in DOMAIN handles', NEW d \in Directions, Direction(h, d)' # NoReg
      PROVE  /\ Direction(h, d)'[1] \in DOMAIN slots'
             /\ Direction(h, d)' = Current(Direction(h, d)[1])'
             /\ slots'[Direction(h, d)'[1]].active.kind = "readiness"
             /\ slots'[Direction(h, d)'[1]].active.handle = h
             /\ d \in slots'[Direction(h, d)'[1]].active.interests
  <2> DEFINE r == Direction(h, d)
  <2>1. r' = r /\ r # NoReg /\ ~\E i \in DOMAIN rs : rs[i] = r
    BY <1>4
  <2>2. h \in DOMAIN handles
    BY <2>1 DEF Direction
  <2>3. /\ r[1] \in DOMAIN slots /\ r = Current(r[1])
        /\ slots[r[1]].active.kind = "readiness"
        /\ slots[r[1]].active.handle = h
        /\ d \in slots[r[1]].active.interests
    BY <2>1, <2>2 DEF HandlesOK
  <2>4. slots'[r[1]].active = slots[r[1]].active /\ Current(r[1])' = Current(r[1])
    BY <1>1, <1>2, <2>1, <2>3 DEF Current
  <2> QED
    BY <1>1, <2>1, <2>3, <2>4 DEF Current
<1>5. ASSUME NEW k \in DOMAIN slots', slots'[k].active.kind = "readiness",
             NEW d \in slots'[k].active.interests
      PROVE  Direction(slots[k].active.handle, d)' = Current(k)'
  <2>1. ~\E i \in DOMAIN rs : rs[i] = Current(k)
    BY <1>1, <1>5, SourceFacts
  <2>2. slots'[k].active = slots[k].active /\ k \in DOMAIN slots
    BY <1>1, <2>1
  <2>3. Direction(slots[k].active.handle, d) = Current(k)
    BY <1>5, <2>2 DEF HandlesOK
  <2>4. slots[k].active \in Sources
    BY <1>5, <2>2, SlotFacts, SourceFacts DEF Active0
  <2>5. d \in Directions
    BY <1>5, <2>2, <2>4, SourceFacts
  <2>6. \A g : g = slots[k].active.handle => Direction(g, d)' = Current(k)
    BY <2>1, <2>3, <2>5
  <2>7. \A g : g = slots'[k].active.handle => Direction(g, d)' = Current(k)'
    BY <1>2, <2>2, <2>6
  <2> QED
    BY <2>7
<1>6. HandlesOK'
  BY <1>4, <1>5 DEF HandlesOK
<1> QED
  BY <1>3, <1>6

\* A registration is made, or given up half way: its timer or its directions name it,
\* and those of the others are untouched.
LEMMA InsertKeeps ==
    ASSUME CoreType, FreeOK, TimersOK, HandlesOK, Cardinality(Issued) < MaxIssued,
           NEW r, r = NextReg, NEW source \in Active0, Free(source),
           slots' = Fill(r, source),
           \A t \in DOMAIN timers' :
               \/ t \in DOMAIN timers /\ timers'[t] = timers[t]
               \/ source.kind = "timer" /\ t = <<source.due, r[1]>> /\ timers'[t] = r,
           \A g : \A d \in Directions :
               Direction(g, d)' = IF source.kind = "readiness" /\ g = source.handle /\ d \in source.interests
                                  THEN r ELSE Direction(g, d),
           \A g \in DOMAIN handles' : Dirs(handles'[g].read, handles'[g].write) # {}
    PROVE  TimersOK' /\ HandlesOK'
<1> USE ReactorAssumption
<1>1. /\ DOMAIN slots' = DOMAIN slots \cup {r[1]}
      /\ slots'[r[1]] = [generation |-> r[2], active |-> source]
      /\ \A k \in DOMAIN slots : k # r[1] => slots'[k] = slots[k]
      /\ r[1] \in DOMAIN slots => slots[r[1]].active = NoSource
  BY FillFacts
<1>2. slots'[r[1]].generation = r[2] /\ slots'[r[1]].active = source
  BY <1>1
<1>3. r = <<r[1], r[2]>> /\ r[1] \in 1..MaxIssued
  BY NextFresh DEF Regs
<1>4. \A k \in DOMAIN slots' : Current(k)' = IF k = r[1] THEN r ELSE Current(k)
  BY <1>1, <1>2, <1>3 DEF Current
<1>5. \A k \in DOMAIN slots : slots[k].active # NoSource => k # r[1] /\ slots'[k] = slots[k] /\ Current(k)' = Current(k)
  BY <1>1, <1>4
<1>6. NoSource.kind = "none"
  BY SourceFacts
<1>7. ASSUME NEW t \in DOMAIN timers'
      PROVE  /\ t[2] \in DOMAIN slots'
             /\ timers'[t] = Current(t[2])'
             /\ slots'[t[2]].active = Source("timer", {}, NoHandle, t[1])
  <2>1. CASE t \in DOMAIN timers /\ timers'[t] = timers[t]
    <3>1. /\ t[2] \in DOMAIN slots /\ timers[t] = Current(t[2])
          /\ slots[t[2]].active = Source("timer", {}, NoHandle, t[1])
      BY <2>1 DEF TimersOK
    <3>2. slots[t[2]].active.kind = "timer"
      BY <3>1 DEF Source
    <3>3. slots[t[2]].active # NoSource
      BY <1>6, <3>2
    <3> QED
      BY <1>1, <1>5, <2>1, <3>1, <3>3
  <2>2. CASE source.kind = "timer" /\ t = <<source.due, r[1]>> /\ timers'[t] = r
    <3>1. source = Source("timer", {}, NoHandle, source.due)
      BY <1>6, <2>2, SourceFacts DEF Active0
    <3>2. t[1] = source.due /\ t[2] = r[1]
      BY <2>2
    <3> QED
      BY <1>1, <1>2, <1>4, <2>2, <3>1, <3>2
  <2> QED
    BY <1>7, <2>1, <2>2
<1>8. ASSUME NEW h \in DOMAIN handles', NEW d \in Directions, Direction(h, d)' # NoReg
      PROVE  /\ Direction(h, d)'[1] \in DOMAIN slots'
             /\ Direction(h, d)' = Current(Direction(h, d)[1])'
             /\ slots'[Direction(h, d)'[1]].active.kind = "readiness"
             /\ slots'[Direction(h, d)'[1]].active.handle = h
             /\ d \in slots'[Direction(h, d)'[1]].active.interests
  <2>1. CASE source.kind = "readiness" /\ h = source.handle /\ d \in source.interests
    <3>1. Direction(h, d)' = r
      BY <2>1
    <3> QED
      BY <1>1, <1>2, <1>3, <2>1, <3>1 DEF Current
  <2>2. CASE ~(source.kind = "readiness" /\ h = source.handle /\ d \in source.interests)
    <3> DEFINE q == Direction(h, d)
    <3>1. q' = q /\ q # NoReg
      BY <1>8, <2>2
    <3>2. h \in DOMAIN handles
      BY <3>1 DEF Direction
    <3>3. /\ q[1] \in DOMAIN slots /\ q = Current(q[1])
          /\ slots[q[1]].active.kind = "readiness"
          /\ slots[q[1]].active.handle = h
          /\ d \in slots[q[1]].active.interests
      BY <3>1, <3>2 DEF HandlesOK
    <3>4. slots[q[1]].active # NoSource
      BY <1>6, <3>3
    <3>5. slots'[q[1]] = slots[q[1]] /\ q[1] \in DOMAIN slots'
      BY <1>1, <1>5, <3>3, <3>4
    <3> QED
      BY <3>1, <3>3, <3>5 DEF Current
  <2> QED
    BY <2>1, <2>2
<1>9. ASSUME NEW k \in DOMAIN slots', slots'[k].active.kind = "readiness",
             NEW d \in slots'[k].active.interests
      PROVE  Direction(slots[k].active.handle, d)' = Current(k)'
  <2>1. CASE k = r[1]
    <3>1. source.interests \subseteq Directions
      BY <1>2, <1>6, <1>9, <2>1, SourceFacts DEF Active0
    <3>2. \A g : g = slots'[k].active.handle => Direction(g, d)' = r
      BY <1>2, <1>9, <2>1, <3>1
    <3> QED
      BY <1>4, <2>1, <3>2
  <2>2. CASE k # r[1]
    <3>1. slots'[k] = slots[k] /\ k \in DOMAIN slots
      BY <1>1, <2>2
    <3>2. slots[k].active \in Sources
      BY <1>6, <1>9, <3>1, SlotFacts DEF Active0
    <3>3. d \in Directions
      BY <1>9, <3>1, <3>2, SourceFacts
    <3>4. Direction(slots[k].active.handle, d) = Current(k) /\ Current(k) # NoReg
      <4>1. k \in 1..Len(slots)
        BY <3>1, SlotFacts
      <4>2. Current(k) # NoReg
        BY <4>1, SlotFacts DEF Current, NoReg
      <4> QED
        BY <1>9, <3>1, <4>2 DEF HandlesOK
    <3>5. ~(slots[k].active.handle = source.handle /\ d \in source.interests)
      BY <3>4 DEF Free
    <3>6. \A g : g = slots'[k].active.handle => Direction(g, d)' = Current(k)'
      BY <1>4, <2>2, <3>1, <3>3, <3>4, <3>5
    <3> QED
      BY <3>6
  <2> QED
    BY <2>1, <2>2
<1>10. TimersOK'
  BY <1>7 DEF TimersOK
<1>11. HandlesOK'
  BY <1>8, <1>9 DEF HandlesOK
<1> QED
  BY <1>10, <1>11

\* fire_timers ends the registrations of the timers that are due, each once.
LEMMA FireTimersFacts ==
    ASSUME CoreType, FreeOK, TimersOK, now \in Nat, FireTimers
    PROVE  \E rs \in Seq(Regs) :
              /\ \A i \in DOMAIN rs : rs[i] \in Live /\ slots[rs[i][1]].active.kind = "timer"
              /\ \A i, j \in DOMAIN rs : rs[i] = rs[j] => i = j
              /\ Retire(rs) /\ ready' = ready \o rs
              /\ DOMAIN timers' \subseteq DOMAIN timers
              /\ timers' \in [DOMAIN timers' -> Regs]
              /\ \A t \in DOMAIN timers' : timers'[t] = timers[t] /\ ~\E i \in DOMAIN rs : rs[i] = timers[t]
<1> USE ReactorAssumption
<1> DEFINE n  == Cardinality(Due)
           rs == [i \in 1..n |-> timers[Ordered(Due)[i]]]
<1>1. /\ timers \in [DOMAIN timers -> Regs]
      /\ DOMAIN timers \subseteq (1..MaxNow) \X (1..MaxIssued)
      /\ Due \subseteq DOMAIN timers
  BY DEF CoreType, Due
<1>2. IsFiniteSet(Due) /\ n \in Nat
  <2>1. IsFiniteSet(1..MaxNow) /\ IsFiniteSet(1..MaxIssued)
    BY FS_Interval
  <2>2. IsFiniteSet((1..MaxNow) \X (1..MaxIssued))
    BY <2>1, FS_Product
  <2> QED
    BY <1>1, <2>2, FS_Subset, FS_CardinalityType
<1>3. /\ Ordered(Due) \in [1..n -> Due]
      /\ \A i, j \in 1..n : i < j => Before(Ordered(Due)[i], Ordered(Due)[j])
      /\ \A t \in Due : \E i \in 1..n : Ordered(Due)[i] = t
  <2>1. Due \subseteq Nat \X Nat
    BY <1>1
  <2> QED
    BY <1>2, <2>1, OrderedTimers
<1>4. \A i, j \in 1..n : Ordered(Due)[i] = Ordered(Due)[j] => i = j
  <2>1. \A t \in Due : ~Before(t, t)
    BY <1>1 DEF Before
  <2> QED
    BY <1>2, <1>3, <2>1
<1>5. \A s, t \in DOMAIN timers : timers[s] = timers[t] => s = t
  <2> TAKE s, t \in DOMAIN timers
  <2> HAVE timers[s] = timers[t]
  <2>1. s[2] = t[2]
    BY DEF TimersOK, Current
  <2>2. Source("timer", {}, NoHandle, s[1]).due = Source("timer", {}, NoHandle, t[1]).due
    BY <2>1 DEF TimersOK
  <2>3. s[1] = t[1]
    BY <2>2 DEF Source
  <2> QED
    BY <1>1, <2>1, <2>3
<1>6. \A t \in DOMAIN timers : timers[t] \in Live /\ slots[timers[t][1]].active.kind = "timer"
  <2> TAKE t \in DOMAIN timers
  <2>1. /\ t[2] \in DOMAIN slots /\ timers[t] = Current(t[2]) /\ timers[t][1] = t[2]
        /\ slots[t[2]].active = Source("timer", {}, NoHandle, t[1])
    BY DEF TimersOK, Current
  <2>2. slots[t[2]].active.kind = "timer"
    BY <2>1 DEF Source
  <2>3. slots[t[2]].active # NoSource
    BY <2>2, SourceFacts
  <2> QED
    BY <1>1, <2>1, <2>2, <2>3, LiveFacts
<1>7. rs \in Seq(Regs) /\ DOMAIN rs = 1..n
  BY <1>1, <1>2, <1>3
<1>8. \A i \in 1..n : rs[i] = timers[Ordered(Due)[i]] /\ Ordered(Due)[i] \in Due /\ Ordered(Due)[i] \in DOMAIN timers
  BY <1>1, <1>3
<1>9. Retire(rs) /\ ready' = ready \o rs /\ timers' = Restrict(timers, DOMAIN timers \ Due)
  BY DEF FireTimers, FinishAll
<1> HIDE DEF rs, n
<1>10. \A i \in DOMAIN rs : rs[i] \in Live /\ slots[rs[i][1]].active.kind = "timer"
  BY <1>6, <1>7, <1>8
<1>11. \A i, j \in DOMAIN rs : rs[i] = rs[j] => i = j
  BY <1>4, <1>5, <1>7, <1>8
<1>12. DOMAIN timers' = DOMAIN timers \ Due /\ timers' \in [DOMAIN timers \ Due -> Regs]
       /\ \A t \in DOMAIN timers \ Due : timers'[t] = timers[t]
  BY <1>1, <1>9 DEF Restrict
<1>13. \A t \in DOMAIN timers' : timers'[t] = timers[t] /\ ~\E i \in DOMAIN rs : rs[i] = timers[t]
  BY <1>5, <1>7, <1>8, <1>12
<1> QED
  BY <1>7, <1>9, <1>10, <1>11, <1>12, <1>13

\* Notifications are queued: the registry sees them fire.
LEMMA FiresAbstractly ==
    ASSUME NEW rs \in Seq(Regs), ready \in Seq(Regs),
           \A i \in DOMAIN rs : rs[i] \in Live,
           \A i, j \in DOMAIN rs : rs[i] = rs[j] => i = j,
           ready' = ready \o rs, Issued' = Issued, Live' = Live \ {rs[i] : i \in DOMAIN rs},
           answer' = NoAnswer
    PROVE  Abstract!Next
<1>1. CASE rs = <<>>
  <2>1. ready' = ready
    BY <1>1
  <2>2. Live' = Live
    BY <1>1
  <2>3. Abstract!Other
    BY <2>1, <2>2 DEF Abstract!Other, Abstract!NoAnswer, NoAnswer
  <2> QED
    BY <2>3 DEF Abstract!Next
<1>2. CASE rs # <<>>
  <2> DEFINE n == Len(rs)
  <2>1. n \in 1..Len(ready') /\ Len(ready') = Len(ready) + n /\ ready' \in Seq(Regs)
    BY <1>2
  <2>2. SubSeq(ready', 1, Len(ready') - n) = ready
    BY <2>1
  <2>3. SubSeq(ready', Len(ready') - n + 1, Len(ready')) = rs
    BY <2>1
  <2>4. Abstract!Elements(rs) = {rs[i] : i \in DOMAIN rs}
    BY DEF Abstract!Elements
  <2> HIDE DEF n
  <2>5. \E m \in 1..Len(ready') :
            LET old == SubSeq(ready', 1, Len(ready') - m)
                new == SubSeq(ready', Len(ready') - m + 1, Len(ready'))
            IN  /\ old = ready
                /\ \A i, j \in DOMAIN new : new[i] = new[j] => i = j
                /\ Abstract!Elements(new) \subseteq Live
                /\ Live' = Live \ Abstract!Elements(new)
    <3>1. Abstract!Elements(rs) \subseteq Live /\ Live' = Live \ Abstract!Elements(rs)
      BY <2>4
    <3> DEFINE old == SubSeq(ready', 1, Len(ready') - n)
               new == SubSeq(ready', Len(ready') - n + 1, Len(ready'))
    <3>2. old = ready /\ new = rs
      BY <2>2, <2>3
    <3> HIDE DEF old, new
    <3>3. \A i, j \in DOMAIN new : new[i] = new[j] => i = j
      BY <3>2
    <3>4. Abstract!Elements(new) \subseteq Live /\ Live' = Live \ Abstract!Elements(new)
      BY <3>1, <3>2
    <3> USE DEF old, new
    <3> n \in 1..Len(ready')
      BY <2>1
    <3> WITNESS n \in 1..Len(ready')
    <3> QED
      BY <3>2, <3>3, <3>4
  <2>6. Abstract!Fire
    BY <2>5 DEF Abstract!Fire, Abstract!NoAnswer, NoAnswer
  <2> QED
    BY <2>6 DEF Abstract!Next
<1> QED
  BY <1>1, <1>2

\* A registration is live exactly if it finds its source.
LEMMA ActiveFacts ==
    ASSUME CoreType, NEW r \in Issued
    PROVE  /\ r \in Live <=> Active(r) # NoSource
           /\ r \in Live => /\ r \in Regs /\ r[1] \in DOMAIN slots /\ r = Current(r[1])
                            /\ Active(r) = slots[r[1]].active /\ Active(r) \in Sources
<1>1. r \in Live <=> Active(r) # NoSource
  BY DEF Live, Active
<1>2. ASSUME r \in Live
      PROVE  /\ r \in Regs /\ r[1] \in DOMAIN slots /\ r = Current(r[1])
             /\ Active(r) = slots[r[1]].active /\ Active(r) \in Sources
  <2>1. /\ r \in Regs /\ r[1] \in DOMAIN slots /\ r = Current(r[1])
        /\ slots[r[1]].active # NoSource
    BY <1>2, LiveFacts
  <2>2. Active(r) = slots[r[1]].active
    BY <1>2 DEF Active, Live
  <2> QED
    BY <2>1, <2>2, SlotFacts DEF Active0
<1> QED
  BY <1>1, <1>2

\* What a direction of a handle waits for is live and waits for that handle.
LEMMA DirectionFacts ==
    ASSUME CoreType, HandlesOK
    PROVE  \A g : \A d \in Directions :
              /\ Direction(g, d) \in RegOrNot
              /\ Direction(g, d) # NoReg =>
                    /\ g \in DOMAIN handles /\ Direction(g, d) \in Live /\ Direction(g, d) \in Regs
                    /\ slots[Direction(g, d)[1]].active.kind = "readiness"
                    /\ slots[Direction(g, d)[1]].active.handle = g
<1> TAKE g
<1> TAKE d \in Directions
<1>1. Direction(g, d) \in RegOrNot
  BY DEF Direction, CoreType, Entries, RegOrNot
<1>2. ASSUME Direction(g, d) # NoReg
      PROVE  /\ g \in DOMAIN handles /\ Direction(g, d) \in Live /\ Direction(g, d) \in Regs
             /\ slots[Direction(g, d)[1]].active.kind = "readiness"
             /\ slots[Direction(g, d)[1]].active.handle = g
  <2> DEFINE r == Direction(g, d)
  <2>1. g \in DOMAIN handles
    BY <1>2 DEF Direction
  <2>2. /\ r[1] \in DOMAIN slots /\ r = Current(r[1])
        /\ slots[r[1]].active.kind = "readiness" /\ slots[r[1]].active.handle = g
    BY <1>2, <2>1 DEF HandlesOK
  <2>3. r \in Regs /\ slots[r[1]].active # NoSource
    BY <1>1, <1>2, <2>2, SourceFacts DEF RegOrNot
  <2>4. r \in Live
    BY <2>2, <2>3, LiveFacts
  <2> QED
    BY <2>1, <2>2, <2>3, <2>4
<1> QED
  BY <1>1, <1>2

\* Registrations other than readiness end without a change of native interest.
LEMMA EndsElsewhere ==
    ASSUME CoreInv, NEW rs \in Seq(Regs),
           \A i \in DOMAIN rs : rs[i] \in Live /\ slots[rs[i][1]].active.kind # "readiness",
           \A i, j \in DOMAIN rs : rs[i] = rs[j] => i = j,
           Retire(rs), UNCHANGED <<handles, pollKeys, lastKey>>,
           timers' \in [DOMAIN timers' -> Regs], DOMAIN timers' \subseteq DOMAIN timers,
           \A t \in DOMAIN timers' : timers'[t] = timers[t] /\ ~\E i \in DOMAIN rs : rs[i] = timers[t]
    PROVE  CoreInv' /\ Issued' = Issued /\ Live' = Live \ {rs[i] : i \in DOMAIN rs}
<1>1. CoreType /\ FreeOK /\ TimersOK /\ HandlesOK /\ KeysOK
  BY DEF CoreInv
<1>2. /\ slots' \in Seq(Slot) /\ Len(slots') = Len(slots)
      /\ free' \in Seq(Nat) /\ FreeOK'
      /\ Issued' = Issued
      /\ Live' = Live \ {rs[i] : i \in DOMAIN rs}
  BY <1>1, RetireFacts
<1>3. \A g : \A d \in Directions :
          Direction(g, d)' = IF \E i \in DOMAIN rs : rs[i] = Direction(g, d)
                             THEN NoReg ELSE Direction(g, d)
  <2> TAKE g
  <2> TAKE d \in Directions
  <2>1. Direction(g, d)' = Direction(g, d)
    BY DEF Direction
  <2>2. Direction(g, d) # NoReg => ~\E i \in DOMAIN rs : rs[i] = Direction(g, d)
    BY <1>1, DirectionFacts
  <2> QED
    BY <2>1, <2>2
<1>4. \A g \in DOMAIN handles' : Dirs(handles'[g].read, handles'[g].write) # {}
  BY <1>1 DEF HandlesOK
<1>5. TimersOK' /\ HandlesOK'
  BY <1>1, <1>3, <1>4, RetireKeeps
<1>6. CoreType'
  BY <1>1, <1>2 DEF CoreType
<1>7. KeysOK'
  BY <1>1 DEF KeysOK
<1> QED
  BY <1>2, <1>5, <1>6, <1>7 DEF CoreInv

\* Registrations of one handle end together with its interest in them.
LEMMA EndsAtHandle ==
    ASSUME CoreInv, native \in [Handles -> Interests],
           NEW h \in Handles, NEW rs \in Seq(Regs), NEW read, NEW write,
           \A i \in DOMAIN rs : \E d \in Directions : rs[i] = Direction(h, d),
           \A i, j \in DOMAIN rs : rs[i] = rs[j] => i = j,
           read = IF \E i \in DOMAIN rs : rs[i] = Direction(h, "read") THEN NoReg ELSE Direction(h, "read"),
           write = IF \E i \in DOMAIN rs : rs[i] = Direction(h, "write") THEN NoReg ELSE Direction(h, "write"),
           Update(h, read, write) \/ (NoInterest(h) /\ Dirs(read, write) = {}),
           Retire(rs), UNCHANGED timers
    PROVE  /\ CoreInv' /\ native' \in [Handles -> Interests]
           /\ Issued' = Issued /\ Live' = Live \ {rs[i] : i \in DOMAIN rs}
           /\ \A i \in DOMAIN rs : rs[i] \in Live
           /\ Watched(h)'
           /\ \A g \in Handles : g # h => /\ g \in DOMAIN handles' <=> g \in DOMAIN handles
                                          /\ g \in DOMAIN handles => handles'[g] = handles[g]
                                          /\ native'[g] = native[g]
<1> USE ReactorAssumption
<1>1. CoreType /\ FreeOK /\ TimersOK /\ HandlesOK /\ KeysOK
  BY DEF CoreInv
<1>2. "read" \in Directions /\ "write" \in Directions /\ \A d \in Directions : d = "read" \/ d = "write"
  BY DEF Directions
<1>3. NoReg \notin Regs /\ NoReg \in RegOrNot
  BY DEF NoReg, Regs, RegOrNot
<1>4. read \in RegOrNot /\ write \in RegOrNot
  BY <1>1, <1>2, <1>3, DirectionFacts
<1>5. \A i \in DOMAIN rs : /\ rs[i] \in Live /\ rs[i] \in Regs
                           /\ slots[rs[i][1]].active.kind = "readiness" /\ slots[rs[i][1]].active.handle = h
  <2> TAKE i \in DOMAIN rs
  <2>1. rs[i] \in Regs
    OBVIOUS
  <2> QED
    BY <1>1, <1>3, <2>1, DirectionFacts
<1>6. /\ slots' \in Seq(Slot) /\ Len(slots') = Len(slots)
      /\ free' \in Seq(Nat) /\ FreeOK'
      /\ Issued' = Issued
      /\ Live' = Live \ {rs[i] : i \in DOMAIN rs}
  BY <1>1, <1>5, RetireFacts
<1>7. /\ handles' \in [DOMAIN handles' -> Entries] /\ DOMAIN handles' \subseteq Handles
      /\ pollKeys' \in [DOMAIN pollKeys' -> Handles] /\ DOMAIN pollKeys' \subseteq 1..lastKey'
      /\ lastKey' \in Nat
      /\ native' \in [Handles -> Interests]
      /\ KeysOK'
      /\ \A g : g # h => (g \in DOMAIN handles' <=> g \in DOMAIN handles)
      /\ \A g \in DOMAIN handles : g # h => handles'[g] = handles[g]
      /\ \A g \in Handles : g # h => native'[g] = native[g]
      /\ \A g : \A d \in Directions :
            Direction(g, d)' = IF g = h THEN (IF d = "read" THEN read ELSE write) ELSE Direction(g, d)
      /\ h \in DOMAIN handles' => Dirs(handles'[h].read, handles'[h].write) # {}
      /\ Watched(h)'
  BY <1>1, <1>4, UpdateFacts
<1>8. \A g : \A d \in Directions :
          Direction(g, d)' = IF \E i \in DOMAIN rs : rs[i] = Direction(g, d)
                             THEN NoReg ELSE Direction(g, d)
  <2> TAKE g
  <2> TAKE d \in Directions
  <2>1. CASE g = h
    BY <1>2, <1>7, <2>1
  <2>2. CASE g # h
    <3>1. Direction(g, d)' = Direction(g, d)
      BY <1>7, <2>2
    <3>2. Direction(g, d) # NoReg => ~\E i \in DOMAIN rs : rs[i] = Direction(g, d)
      BY <1>1, <1>5, <2>2, DirectionFacts
    <3> QED
      BY <3>1, <3>2
  <2> QED
    BY <2>1, <2>2
<1>9. \A g \in DOMAIN handles' : Dirs(handles'[g].read, handles'[g].write) # {}
  BY <1>1, <1>7 DEF HandlesOK
<1>10. \A t \in DOMAIN timers' :
           t \in DOMAIN timers /\ timers'[t] = timers[t] /\ ~\E i \in DOMAIN rs : rs[i] = timers[t]
  <2> TAKE t \in DOMAIN timers'
  <2>1. t \in DOMAIN timers /\ timers'[t] = timers[t]
    OBVIOUS
  <2>2. timers[t][1] = t[2] /\ slots[t[2]].active = Source("timer", {}, NoHandle, t[1])
    BY <1>1, <2>1 DEF TimersOK, Current
  <2>3. slots[timers[t][1]].active.kind = "timer"
    BY <2>2 DEF Source
  <2> QED
    BY <1>5, <2>1, <2>3
<1>11. TimersOK' /\ HandlesOK'
  BY <1>1, <1>5, <1>8, <1>9, <1>10, RetireKeeps
<1>12. CoreType'
  BY <1>1, <1>6, <1>7 DEF CoreType
<1> QED
  BY <1>5, <1>6, <1>7, <1>11, <1>12 DEF CoreInv

-----------------------------------------------------------------------------
(* One lemma per action: the invariant is kept, and the registry takes the *)
(* step of the same name.                                                  *)

\* The parts of the invariant.
LEMMA InvParts ==
    ASSUME ReactorInv
    PROVE  /\ CoreInv /\ CoreType /\ FreeOK /\ TimersOK /\ HandlesOK /\ KeysOK
           /\ WaiterType /\ native \in [Handles -> Interests] /\ ready \in Seq(Regs)
           /\ failures \in Nat /\ waking \in Nat /\ now \in Nat /\ NativeOK /\ NoOversleep
BY DEF ReactorInv, CoreInv, WaiterType

\* What the poller watches stays right when nothing it depends on changes.
LEMMA WatchedKept ==
    ASSUME NEW g \in Handles, Watched(g),
           g \in DOMAIN handles' <=> g \in DOMAIN handles,
           g \in DOMAIN handles => handles'[g] = handles[g],
           native'[g] = native[g],
           g \in DOMAIN handles => \A e \in batch : e.key = handles[g].key => e \in batch'
    PROVE  Watched(g)'
<1>1. CASE g \in DOMAIN handles
  <2>1. native'[g].armed \/ \E e \in batch' : e.key = handles'[g].key
    BY <1>1 DEF Watched
  <2> QED
    BY <1>1, <2>1 DEF Watched
<1>2. CASE g \notin DOMAIN handles
  BY <1>2 DEF Watched
<1> QED
  BY <1>1, <1>2

\* A call that wakes the poller leaves nobody oversleeping.
LEMMA WakesUp ==
    ASSUME woken' = TRUE
    PROVE  NoOversleep'
BY DEF NoOversleep

LEMMA RegisterStep ==
    ASSUME ReactorInv, NEW source \in Sources, RegisterWait(source)
    PROVE  ReactorInv' /\ Abstract!Next
<1> USE ReactorAssumption
<1> DEFINE r == NextReg
           h == source.handle
           read  == IF "read" \in source.interests THEN r ELSE Direction(h, "read")
           write == IF "write" \in source.interests THEN r ELSE Direction(h, "write")
<1>1. /\ CoreInv /\ CoreType /\ FreeOK /\ TimersOK /\ HandlesOK /\ KeysOK
      /\ WaiterType /\ native \in [Handles -> Interests] /\ failures \in Nat /\ NativeOK
  BY InvParts
<1>2. /\ Cardinality(Issued) < MaxIssued /\ Free(source) /\ woken' = TRUE
      /\ answer' = NoAnswer /\ UNCHANGED <<ready, waking, pc, deadline, until, batch, now>>
  BY DEF RegisterWait, Notify, waiter
<1>3. r \in Regs /\ r \notin Issued /\ r = <<r[1], r[2]>>
  BY <1>1, <1>2, NextFresh DEF Regs
<1>4. source \in Active0 /\ NoSource \in Active0 /\ source # NoSource
  BY SourceFacts DEF Active0
<1>5. "read" \in Directions /\ "write" \in Directions /\ \A d \in Directions : d = "read" \/ d = "write"
  BY DEF Directions
<1>6. NoOversleep'
  BY <1>2, WakesUp
<1>7. ASSUME CoreInv', native' \in [Handles -> Interests], failures' \in Nat,
             pc # "failed" => \A g \in Handles : Watched(g)'
      PROVE  ReactorInv'
  <2>1. WaiterType'
    BY <1>1, <1>2, <1>7 DEF WaiterType
  <2>2. NativeOK'
    BY <1>1, <1>2, <1>7 DEF NativeOK
  <2> QED
    BY <1>6, <1>7, <2>1, <2>2 DEF ReactorInv
<1>8. ASSUME Issued' = Issued \cup {r}, Live' = Live \cup {r}
      PROVE  Abstract!Next
  <2>1. Abstract!Register(r)
    BY <1>2, <1>3, <1>8 DEF Abstract!Register, Abstract!NoAnswer, NoAnswer
  <2> QED
    BY <1>3, <2>1 DEF Abstract!Next, Regs
<1>9. ASSUME UNCHANGED <<handles, pollKeys, lastKey, native, failures>>,
             source.kind # "readiness",
             Insert(r, source),
             timers' \in [DOMAIN timers' -> Regs],
             DOMAIN timers' \subseteq (1..MaxNow) \X (1..MaxIssued),
             \A t \in DOMAIN timers' :
                 \/ t \in DOMAIN timers /\ timers'[t] = timers[t]
                 \/ source.kind = "timer" /\ t = <<source.due, r[1]>> /\ timers'[t] = r
      PROVE  ReactorInv' /\ Abstract!Next
  <2> HIDE DEF r
  <2>0. r = NextReg
    BY DEF r
  <2>1. slots' = Fill(r, source) /\ free' \in Seq(Nat) /\ FreeOK'
    BY <1>1, <1>2, <1>4, <1>9, <2>0, InsertFacts
  <2>2. /\ slots' \in Seq(Slot) /\ Len(slots') <= MaxIssued
        /\ Issued' = Issued \cup {r} /\ Live' = Live \cup {r}
    BY <1>1, <1>2, <1>4, <2>0, <2>1, FillFacts
  <2>3. \A g : \A d \in Directions :
            Direction(g, d)' = IF source.kind = "readiness" /\ g = source.handle /\ d \in source.interests
                               THEN r ELSE Direction(g, d)
    BY <1>9 DEF Direction
  <2>4. \A g \in DOMAIN handles' : Dirs(handles'[g].read, handles'[g].write) # {}
    BY <1>1, <1>9 DEF HandlesOK
  <2>5. TimersOK' /\ HandlesOK'
    BY <1>1, <1>2, <1>4, <1>9, <2>0, <2>1, <2>3, <2>4, InsertKeeps
  <2>6. CoreType'
    BY <1>1, <1>9, <2>1, <2>2 DEF CoreType
  <2>7. KeysOK'
    BY <1>1, <1>9 DEF KeysOK
  <2>8. pc # "failed" => \A g \in Handles : Watched(g)'
    BY <1>1, <1>2, <1>9 DEF NativeOK, Watched
  <2>9. CoreInv'
    BY <2>1, <2>5, <2>6, <2>7 DEF CoreInv
  <2>10. native' \in [Handles -> Interests] /\ failures' \in Nat
    BY <1>1, <1>9
  <2>11. ReactorInv'
    BY <1>7, <2>8, <2>9, <2>10
  <2>12. Abstract!Next
    BY <1>8, <2>2
  <2> QED
    BY <2>11, <2>12
<1>10. CASE /\ source.kind = "readiness" /\ Update(h, read, write)
            /\ Insert(r, source) /\ UNCHANGED timers
  <2>1. h \in Handles /\ source.interests \subseteq Directions /\ source.interests # {}
    BY <1>10, SourceFacts
  <2>2. read \in RegOrNot /\ write \in RegOrNot
    BY <1>1, <1>3, <1>5, DirectionFacts DEF RegOrNot
  <2>3. \A d \in Directions : (IF d = "read" THEN read ELSE write) = IF d \in source.interests THEN r ELSE Direction(h, d)
    BY <1>5
  <2> HIDE DEF r, h, read, write
  <2>4. r = NextReg /\ h = source.handle
    BY DEF r, h
  <2>5. failures' = failures /\ (Update(h, read, write) \/ (NoInterest(h) /\ Dirs(read, write) = {}))
    BY <1>10 DEF Update
  <2>6. /\ handles' \in [DOMAIN handles' -> Entries] /\ DOMAIN handles' \subseteq Handles
        /\ pollKeys' \in [DOMAIN pollKeys' -> Handles] /\ DOMAIN pollKeys' \subseteq 1..lastKey'
        /\ lastKey' \in Nat
        /\ native' \in [Handles -> Interests]
        /\ KeysOK'
        /\ \A g : g # h => (g \in DOMAIN handles' <=> g \in DOMAIN handles)
        /\ \A g \in DOMAIN handles : g # h => handles'[g] = handles[g]
        /\ \A g \in Handles : g # h => native'[g] = native[g]
        /\ \A g : \A d \in Directions :
              Direction(g, d)' = IF g = h THEN (IF d = "read" THEN read ELSE write) ELSE Direction(g, d)
        /\ h \in DOMAIN handles' => Dirs(handles'[h].read, handles'[h].write) # {}
        /\ Watched(h)'
    BY <1>1, <2>1, <2>2, <2>5, UpdateFacts
  <2>7. slots' = Fill(r, source) /\ free' \in Seq(Nat) /\ FreeOK'
    BY <1>1, <1>2, <1>4, <1>10, <2>4, InsertFacts
  <2>8. /\ slots' \in Seq(Slot) /\ Len(slots') <= MaxIssued
        /\ Issued' = Issued \cup {r} /\ Live' = Live \cup {r}
    BY <1>1, <1>2, <1>4, <2>4, <2>7, FillFacts
  <2>9. \A g : \A d \in Directions :
            Direction(g, d)' = IF source.kind = "readiness" /\ g = source.handle /\ d \in source.interests
                               THEN r ELSE Direction(g, d)
    BY <1>10, <2>3, <2>4, <2>6
  <2>10. \A g \in DOMAIN handles' : Dirs(handles'[g].read, handles'[g].write) # {}
    BY <1>1, <2>6 DEF HandlesOK
  <2>11. \A t \in DOMAIN timers' :
             \/ t \in DOMAIN timers /\ timers'[t] = timers[t]
             \/ source.kind = "timer" /\ t = <<source.due, r[1]>> /\ timers'[t] = r
    BY <1>10
  <2>12. TimersOK' /\ HandlesOK'
    BY <1>1, <1>2, <1>4, <2>4, <2>7, <2>9, <2>10, <2>11, InsertKeeps
  <2>13. CoreType'
    BY <1>1, <1>10, <2>6, <2>7, <2>8 DEF CoreType
  <2>14. CoreInv'
    BY <2>6, <2>7, <2>12, <2>13 DEF CoreInv
  <2>15. pc # "failed" => \A g \in Handles : Watched(g)'
    <3> SUFFICES ASSUME pc # "failed", NEW g \in Handles PROVE Watched(g)'
      OBVIOUS
    <3>1. Watched(g)
      BY <1>1 DEF NativeOK
    <3>2. CASE g # h
      BY <1>2, <2>6, <3>1, <3>2, WatchedKept
    <3> QED
      BY <2>6, <3>2
  <2>16. ReactorInv'
    BY <1>1, <1>7, <2>5, <2>6, <2>14, <2>15
  <2>17. Abstract!Next
    BY <1>8, <2>8
  <2> QED
    BY <2>16, <2>17
<1>11. CASE /\ source.kind = "readiness" /\ Rejected(h, read, write)
            /\ InsertRemove(r) /\ UNCHANGED timers
  <2>1. h \in Handles
    BY <1>11, SourceFacts
  <2> HIDE DEF r, h, read, write
  <2>2. r = NextReg
    BY DEF r
  <2>3. /\ UNCHANGED <<handles, pollKeys>> /\ failures' \in Nat
        /\ DOMAIN pollKeys' \subseteq 1..lastKey' /\ lastKey' \in Nat
        /\ native' \in [Handles -> Interests]
        /\ \A g \in Handles : g # h => native'[g] = native[g]
        /\ Watched(h) => Watched(h)'
    BY <1>1, <1>11, <2>1, RejectedFacts
  <2>4. slots' = Fill(r, NoSource) /\ free' \in Seq(Nat) /\ FreeOK'
    BY <1>1, <1>2, <1>4, <1>11, <2>2, InsertFacts
  <2>5. /\ slots' \in Seq(Slot) /\ Len(slots') <= MaxIssued
        /\ Issued' = Issued \cup {r} /\ Live' = Live
    BY <1>1, <1>2, <1>4, <2>2, <2>4, FillFacts
  <2>6. NoSource.kind = "none" /\ Free(NoSource)
    BY DEF NoSource, Source, Free
  <2>7. \A g : \A d \in Directions :
            Direction(g, d)' = IF NoSource.kind = "readiness" /\ g = NoSource.handle /\ d \in NoSource.interests
                               THEN r ELSE Direction(g, d)
    BY <2>3, <2>6 DEF Direction
  <2>8. \A g \in DOMAIN handles' : Dirs(handles'[g].read, handles'[g].write) # {}
    BY <1>1, <2>3 DEF HandlesOK
  <2>9. \A t \in DOMAIN timers' :
            \/ t \in DOMAIN timers /\ timers'[t] = timers[t]
            \/ NoSource.kind = "timer" /\ t = <<NoSource.due, r[1]>> /\ timers'[t] = r
    BY <1>11
  <2>10. TimersOK' /\ HandlesOK'
    BY <1>1, <1>2, <1>4, <2>2, <2>4, <2>6, <2>7, <2>8, <2>9, InsertKeeps
  <2>11. CoreType'
    BY <1>1, <1>11, <2>3, <2>4, <2>5 DEF CoreType
  <2>12. KeysOK'
    BY <1>1, <2>3 DEF KeysOK
  <2>13. CoreInv'
    BY <2>4, <2>10, <2>11, <2>12 DEF CoreInv
  <2>14. pc # "failed" => \A g \in Handles : Watched(g)'
    <3> SUFFICES ASSUME pc # "failed", NEW g \in Handles PROVE Watched(g)'
      OBVIOUS
    <3>1. Watched(g)
      BY <1>1 DEF NativeOK
    <3>2. CASE g # h
      BY <1>2, <2>3, <3>1, <3>2, WatchedKept
    <3> QED
      BY <2>3, <3>1, <3>2
  <2>15. ReactorInv'
    BY <1>7, <2>3, <2>13, <2>14
  <2>16. Abstract!Abandon(r)
    BY <1>2, <1>3, <2>5 DEF Abstract!Abandon, Abstract!NoAnswer, NoAnswer
  <2> QED
    BY <1>3, <2>15, <2>16 DEF Abstract!Next, Regs
<1>12. CASE /\ source.kind = "timer" /\ Insert(r, source)
            /\ timers' = With(timers, <<source.due, r[1]>>, r)
            /\ UNCHANGED <<handles, pollKeys, lastKey, native, failures>>
  <2>1. source.due \in 1..MaxNow /\ r[1] \in 1..MaxIssued
    BY <1>3, <1>12, SourceFacts DEF Regs
  <2>2. timers \in [DOMAIN timers -> Regs] /\ DOMAIN timers \subseteq (1..MaxNow) \X (1..MaxIssued)
    BY <1>1 DEF CoreType
  <2> HIDE DEF r
  <2>3. /\ DOMAIN timers' = DOMAIN timers \cup {<<source.due, r[1]>>}
        /\ timers' \in [DOMAIN timers' -> Regs]
        /\ \A t \in DOMAIN timers' : timers'[t] = IF t = <<source.due, r[1]>> THEN r ELSE timers[t]
    BY <1>3, <1>12, <2>2 DEF With
  <2>4. /\ DOMAIN timers' \subseteq (1..MaxNow) \X (1..MaxIssued)
        /\ \A t \in DOMAIN timers' :
              \/ t \in DOMAIN timers /\ timers'[t] = timers[t]
              \/ source.kind = "timer" /\ t = <<source.due, r[1]>> /\ timers'[t] = r
    BY <1>12, <2>1, <2>2, <2>3
  <2>5. source.kind # "readiness"
    BY <1>12
  <2> QED
    BY <1>9, <1>12, <2>3, <2>4, <2>5
<1>13. CASE /\ source.kind = "completion" /\ Insert(r, source)
            /\ UNCHANGED <<timers, handles, pollKeys, lastKey, native, failures>>
  <2>1. timers \in [DOMAIN timers -> Regs] /\ DOMAIN timers \subseteq (1..MaxNow) \X (1..MaxIssued)
    BY <1>1 DEF CoreType
  <2>2. source.kind # "readiness"
    BY <1>13
  <2> HIDE DEF r
  <2> QED
    BY <1>9, <1>13, <2>1, <2>2
<1> QED
  BY <1>10, <1>11, <1>12, <1>13 DEF RegisterWait

\* The tables are sound as long as nobody changes them.
LEMMA CoreKept ==
    ASSUME CoreInv, UNCHANGED <<slots, free, timers, handles, pollKeys, lastKey>>
    PROVE  CoreInv' /\ Issued' = Issued /\ Live' = Live
<1>1. CoreType'
  BY DEF CoreInv, CoreType
<1>2. FreeOK' /\ TimersOK'
  BY DEF CoreInv, FreeOK, TimersOK, Current
<1>3. HandlesOK'
  BY DEF CoreInv, HandlesOK, Current, Direction
<1>4. KeysOK'
  BY DEF CoreInv, KeysOK
<1>5. Issued' = Issued /\ Live' = Live
  BY DEF Issued, Live
<1> QED
  BY <1>1, <1>2, <1>3, <1>4, <1>5 DEF CoreInv

\* A call that names an ended registration changes nothing and is told so.
LEMMA StaleStep ==
    ASSUME ReactorInv, NEW r \in Issued, CancelStale(r) \/ CompleteStale(r)
    PROVE  ReactorInv' /\ Abstract!Next
<1>1. UNCHANGED <<core, poller, waiter, now>> /\ Active(r) = NoSource
      /\ answer' \in {<<"cancel", r, FALSE>>, <<"complete", r, FALSE>>}
  BY DEF CancelStale, CompleteStale
<1>2. r \notin Live
  BY <1>1, InvParts, ActiveFacts
<1>3. ReactorInv'
  <2>1. CoreInv'
    BY <1>1, InvParts, CoreKept DEF core
  <2>2. WaiterType'
    BY <1>1, InvParts DEF WaiterType, core, poller, waiter
  <2>3. NativeOK'
    BY <1>1, InvParts DEF NativeOK, Watched, core, poller, waiter
  <2>4. NoOversleep'
    BY <1>1, InvParts DEF NoOversleep, core, poller, waiter
  <2> QED
    BY <2>1, <2>2, <2>3, <2>4 DEF ReactorInv
<1>4. Issued' = Issued /\ Live' = Live /\ ready' = ready
  BY <1>1, InvParts, CoreKept DEF core
<1>5. Live \ {r} = Live
  BY <1>2
<1>6. (r \in Live) = FALSE
  BY <1>2
<1>7. CASE answer' = <<"cancel", r, FALSE>>
  <2>1. Abstract!Cancel(r)
    BY <1>4, <1>5, <1>6, <1>7 DEF Abstract!Cancel
  <2> QED
    BY <1>3, <2>1 DEF Abstract!Next
<1>8. CASE answer' = <<"complete", r, FALSE>>
  <2>1. Abstract!Complete(r)
    BY <1>2, <1>4, <1>5, <1>6, <1>8 DEF Abstract!Complete
  <2> QED
    BY <1>3, <2>1 DEF Abstract!Next
<1> QED
  BY <1>1, <1>7, <1>8

\* What every call that retires registrations without the waiter has in common.
LEMMA CallKeeps ==
    ASSUME ReactorInv, CoreInv', native' \in [Handles -> Interests], failures' \in Nat,
           waking' \in Nat, woken' \in BOOLEAN, ready' \in Seq(Regs),
           UNCHANGED <<pc, deadline, until, batch, now>>, NoOversleep',
           pc # "failed" => \A g \in Handles : Watched(g)'
    PROVE  ReactorInv'
<1>1. WaiterType /\ NativeOK
  BY InvParts
<1>2. WaiterType'
  BY <1>1 DEF WaiterType
<1>3. NativeOK'
  BY <1>1 DEF NativeOK
<1> QED
  BY <1>2, <1>3 DEF ReactorInv

LEMMA CancelStep ==
    ASSUME ReactorInv, NEW r \in Issued, Cancel(r)
    PROVE  ReactorInv' /\ Abstract!Next
<1> USE ReactorAssumption
<1> DEFINE source == Active(r)
           h      == source.handle
           read   == IF Direction(h, "read") = r THEN NoReg ELSE Direction(h, "read")
           write  == IF Direction(h, "write") = r THEN NoReg ELSE Direction(h, "write")
           rs     == <<r>>
<1>1. /\ CoreInv /\ CoreType /\ FreeOK /\ TimersOK /\ HandlesOK /\ KeysOK
      /\ WaiterType /\ native \in [Handles -> Interests] /\ failures \in Nat /\ NativeOK
      /\ waking \in Nat /\ ready \in Seq(Regs)
  BY InvParts
<1>2. /\ source # NoSource /\ woken' = TRUE /\ Retire(<<r>>) /\ answer' = <<"cancel", r, TRUE>>
      /\ UNCHANGED <<ready, waking, pc, deadline, until, batch, now>>
  BY DEF Cancel, Notify, waiter
<1>3. /\ r \in Live /\ r \in Regs /\ r[1] \in DOMAIN slots /\ r = Current(r[1])
      /\ source = slots[r[1]].active /\ source \in Sources
  BY <1>1, <1>2, ActiveFacts
<1>4. rs \in Seq(Regs) /\ DOMAIN rs = {1} /\ rs[1] = r
  BY <1>3
<1>5. /\ \A i \in DOMAIN rs : rs[i] = r
      /\ \A i, j \in DOMAIN rs : rs[i] = rs[j] => i = j
      /\ {rs[i] : i \in DOMAIN rs} = {r}
      /\ \A x : (\E i \in DOMAIN rs : rs[i] = x) <=> x = r
  BY <1>4
<1>6. NoOversleep'
  BY <1>2, WakesUp
<1>7. Retire(rs)
  BY <1>2
<1>8. ASSUME Issued' = Issued, Live' = Live \ {r}
      PROVE  Abstract!Next
  <2>1. (r \in Live) = TRUE
    BY <1>3
  <2>2. Abstract!Cancel(r)
    BY <1>2, <1>8, <2>1 DEF Abstract!Cancel
  <2> QED
    BY <2>2 DEF Abstract!Next
<1>9. ASSUME source.kind # "readiness",
             timers' \in [DOMAIN timers' -> Regs], DOMAIN timers' \subseteq DOMAIN timers,
             \A t \in DOMAIN timers' : timers'[t] = timers[t] /\ timers[t] # r,
             UNCHANGED <<handles, pollKeys, lastKey, native, failures>>
      PROVE  ReactorInv' /\ Abstract!Next
  <2> HIDE DEF rs
  <2>1. CoreInv' /\ Issued' = Issued /\ Live' = Live \ {rs[i] : i \in DOMAIN rs}
    BY <1>1, <1>3, <1>4, <1>5, <1>7, <1>9, EndsElsewhere
  <2>2. pc # "failed" => \A g \in Handles : Watched(g)'
    BY <1>1, <1>2, <1>9 DEF NativeOK, Watched
  <2>3. ReactorInv'
    BY <1>1, <1>2, <1>6, <1>9, <2>1, <2>2, CallKeeps
  <2> QED
    BY <1>5, <1>8, <2>1, <2>3
<1>10. CASE source.kind = "readiness" /\ Update(h, read, write) /\ UNCHANGED timers
  <2>1. h \in Handles /\ source.interests \subseteq Directions /\ source.interests # {}
    BY <1>3, <1>10, SourceFacts
  <2>2. PICK d \in Directions : r = Direction(h, d)
    BY <1>1, <1>3, <1>10, <2>1 DEF HandlesOK
  <2>3. /\ read = IF \E i \in DOMAIN rs : rs[i] = Direction(h, "read") THEN NoReg ELSE Direction(h, "read")
        /\ write = IF \E i \in DOMAIN rs : rs[i] = Direction(h, "write") THEN NoReg ELSE Direction(h, "write")
    BY <1>5
  <2>4. failures' = failures
    BY <1>10 DEF Update
  <2> HIDE DEF rs, read, write, h
  <2>0. PICK c \in Handles : c = h
    BY <2>1
  <2>5. /\ CoreInv' /\ native' \in [Handles -> Interests]
        /\ Issued' = Issued /\ Live' = Live \ {rs[i] : i \in DOMAIN rs}
        /\ Watched(c)'
        /\ \A g \in Handles : g # c => /\ g \in DOMAIN handles' <=> g \in DOMAIN handles
                                       /\ g \in DOMAIN handles => handles'[g] = handles[g]
                                       /\ native'[g] = native[g]
    <3>1. /\ \A i \in DOMAIN rs : \E x \in Directions : rs[i] = Direction(c, x)
          /\ read = IF \E i \in DOMAIN rs : rs[i] = Direction(c, "read") THEN NoReg ELSE Direction(c, "read")
          /\ write = IF \E i \in DOMAIN rs : rs[i] = Direction(c, "write") THEN NoReg ELSE Direction(c, "write")
      BY <1>5, <2>0, <2>2, <2>3
    <3>2. Update(c, read, write)
      BY <1>10, <2>0
    <3> QED
      BY <1>1, <1>4, <1>5, <1>7, <1>10, <3>1, <3>2, EndsAtHandle
  <2>6. pc # "failed" => \A g \in Handles : Watched(g)'
    <3> SUFFICES ASSUME pc # "failed", NEW g \in Handles PROVE Watched(g)'
      OBVIOUS
    <3>1. Watched(g)
      BY <1>1 DEF NativeOK
    <3>2. CASE g # c
      BY <1>2, <2>5, <3>1, <3>2, WatchedKept
    <3> QED
      BY <2>5, <3>2
  <2>7. ReactorInv'
    BY <1>1, <1>2, <1>6, <2>4, <2>5, <2>6, CallKeeps
  <2> QED
    BY <1>5, <1>8, <2>5, <2>7
<1>11. CASE /\ source.kind = "timer" /\ timers' = Without(timers, <<source.due, r[1]>>)
            /\ UNCHANGED <<handles, pollKeys, lastKey, native, failures>>
  <2>1. timers \in [DOMAIN timers -> Regs]
    BY <1>1 DEF CoreType
  <2> HIDE DEF source
  <2>2. /\ timers' \in [DOMAIN timers' -> Regs] /\ DOMAIN timers' = DOMAIN timers \ {<<source.due, r[1]>>}
        /\ \A t \in DOMAIN timers' : timers'[t] = timers[t]
    BY <1>11, <2>1 DEF Without, Restrict
  <2>3. \A t \in DOMAIN timers : timers[t] = r => t = <<source.due, r[1]>>
    <3> TAKE t \in DOMAIN timers
    <3> HAVE timers[t] = r
    <3>1. t[2] = r[1] /\ slots[t[2]].active = Source("timer", {}, NoHandle, t[1])
      BY <1>1 DEF TimersOK, Current
    <3>2. source.due = t[1]
      BY <1>3, <3>1 DEF Source
    <3>3. t = <<t[1], t[2]>>
      BY <1>1 DEF CoreType
    <3> QED
      BY <3>1, <3>2, <3>3
  <2> QED
    BY <1>9, <1>11, <2>2, <2>3
<1>12. CASE /\ source.kind = "completion"
            /\ UNCHANGED <<timers, handles, pollKeys, lastKey, native, failures>>
  <2>1. timers \in [DOMAIN timers -> Regs]
    BY <1>1 DEF CoreType
  <2>2. \A t \in DOMAIN timers : timers[t] # r
    <3> SUFFICES ASSUME NEW t \in DOMAIN timers, timers[t] = r PROVE FALSE
      OBVIOUS
    <3>1. t[2] = r[1] /\ slots[t[2]].active = Source("timer", {}, NoHandle, t[1])
      BY <1>1 DEF TimersOK, Current
    <3> QED
      BY <1>3, <1>12, <3>1 DEF Source
  <2> QED
    BY <1>9, <1>12, <2>1, <2>2
<1> QED
  BY <1>10, <1>11, <1>12 DEF Cancel

\* A call whose change of interest is rejected leaves the registrations alone.
LEMMA RejectedCall ==
    ASSUME ReactorInv, NEW c \in Handles, NEW read, NEW write, Rejected(c, read, write),
           woken' = TRUE, answer' = NoAnswer,
           UNCHANGED <<slots, free, timers, ready, waking, pc, deadline, until, batch, now>>
    PROVE  ReactorInv' /\ Abstract!Next
<1>1. /\ CoreInv /\ CoreType /\ FreeOK /\ TimersOK /\ HandlesOK /\ KeysOK
      /\ WaiterType /\ native \in [Handles -> Interests] /\ failures \in Nat /\ NativeOK
      /\ waking \in Nat /\ ready \in Seq(Regs)
  BY InvParts
<1>2. /\ woken' = TRUE /\ Rejected(c, read, write) /\ answer' = NoAnswer
      /\ UNCHANGED <<slots, free, timers, ready, waking, pc, deadline, until, batch, now>>
  OBVIOUS
<1>5. /\ UNCHANGED <<handles, pollKeys>> /\ failures' \in Nat
      /\ DOMAIN pollKeys' \subseteq 1..lastKey' /\ lastKey' \in Nat
      /\ native' \in [Handles -> Interests]
      /\ \A g \in Handles : g # c => native'[g] = native[g]
      /\ Watched(c) => Watched(c)'
  <2> QED
    BY <1>1, <1>2, RejectedFacts
<1>6. pc # "failed" => \A g \in Handles : Watched(g)'
  <2> SUFFICES ASSUME pc # "failed", NEW g \in Handles PROVE Watched(g)'
    OBVIOUS
  <2>1. Watched(g)
    BY <1>1 DEF NativeOK
  <2>2. CASE g # c
    BY <1>2, <1>5, <2>1, <2>2, WatchedKept
  <2> QED
    BY <1>5, <2>1, <2>2
<1>7. CoreType'
  BY <1>1, <1>2, <1>5 DEF CoreType
<1>8. FreeOK' /\ TimersOK' /\ HandlesOK' /\ KeysOK'
  <2>1. FreeOK' /\ TimersOK'
    BY <1>1, <1>2, <1>5 DEF FreeOK, TimersOK, Current
  <2>2. HandlesOK'
    <3>1. HandlesOK /\ handles' = handles /\ slots' = slots
      BY <1>1, <1>2, <1>5
    <3>2. /\ \A g, d : Direction(g, d)' = Direction(g, d)
          /\ \A k : Current(k)' = Current(k)
      BY ONLY <3>1 DEF Current, Direction
    <3> QED
      BY ONLY <3>1, <3>2 DEF HandlesOK
  <2>3. KeysOK'
    BY <1>1, <1>2, <1>5 DEF KeysOK
  <2> QED
    BY <2>1, <2>2, <2>3
<1>9. CoreInv'
  BY <1>7, <1>8 DEF CoreInv
<1>10. NoOversleep'
  BY <1>2, WakesUp
<1>11. ReactorInv'
  BY <1>1, <1>2, <1>5, <1>6, <1>9, <1>10, CallKeeps
<1>12. Issued' = Issued /\ Live' = Live
  BY <1>2 DEF Issued, Live
<1>13. Abstract!Other
  BY <1>2, <1>12 DEF Abstract!Other, Abstract!NoAnswer, NoAnswer
<1> QED
  BY <1>11, <1>13 DEF Abstract!Next

LEMMA CancelFailsStep ==
    ASSUME ReactorInv, NEW r \in Issued, CancelFails(r)
    PROVE  ReactorInv' /\ Abstract!Next
<1> DEFINE h     == Active(r).handle
           read  == IF Direction(h, "read") = r THEN NoReg ELSE Direction(h, "read")
           write == IF Direction(h, "write") = r THEN NoReg ELSE Direction(h, "write")
<1>1. /\ Active(r).kind = "readiness" /\ woken' = TRUE /\ Rejected(h, read, write) /\ answer' = NoAnswer
      /\ UNCHANGED <<slots, free, timers, ready, waking, pc, deadline, until, batch, now>>
  BY DEF CancelFails, Notify, waiter
<1>2. h \in Handles
  BY <1>1, InvParts, ActiveFacts, SourceFacts
<1> HIDE DEF h, read, write
<1> QED
  BY <1>1, <1>2, RejectedCall

LEMMA RevokeFailsStep ==
    ASSUME ReactorInv, NEW h \in Handles, RevokeFails(h)
    PROVE  ReactorInv' /\ Abstract!Next
<1>1. /\ woken' = TRUE /\ Rejected(h, NoReg, NoReg) /\ answer' = NoAnswer
      /\ UNCHANGED <<slots, free, timers, ready, waking, pc, deadline, until, batch, now>>
  BY DEF RevokeFails, Notify, waiter
<1> QED
  BY <1>1, RejectedCall

LEMMA RevokeStep ==
    ASSUME ReactorInv, NEW h \in Handles, Revoke(h)
    PROVE  ReactorInv' /\ Abstract!Next
<1> USE ReactorAssumption
<1> DEFINE read  == Direction(h, "read")
           write == Direction(h, "write")
           rs    == IF read = NoReg THEN <<write>>
                    ELSE IF write \in {NoReg, read} THEN <<read>> ELSE <<read, write>>
<1>1. /\ CoreInv /\ CoreType /\ FreeOK /\ TimersOK /\ HandlesOK /\ KeysOK
      /\ WaiterType /\ native \in [Handles -> Interests] /\ failures \in Nat /\ NativeOK
      /\ waking \in Nat /\ ready \in Seq(Regs)
  BY InvParts
<1>2. /\ h \in DOMAIN handles /\ woken' = TRUE /\ NoInterest(h) /\ Retire(rs) /\ ready' = ready \o rs
      /\ answer' = NoAnswer
      /\ UNCHANGED <<timers, failures, waking, pc, deadline, until, batch, now>>
  BY DEF Revoke, Notify, FinishAll, waiter
<1>3. read # NoReg \/ write # NoReg
  BY <1>1, <1>2 DEF HandlesOK, Dirs, Direction
<1>4. "read" \in Directions /\ "write" \in Directions
  BY DEF Directions
<1>5. (read # NoReg => read \in Regs) /\ (write # NoReg => write \in Regs)
  BY <1>1, <1>4, DirectionFacts
<1>6. /\ rs \in Seq(Regs)
      /\ \A i \in DOMAIN rs : \E d \in Directions : rs[i] = Direction(h, d)
      /\ \A i, j \in DOMAIN rs : rs[i] = rs[j] => i = j
      /\ read = NoReg \/ \E i \in DOMAIN rs : rs[i] = read
      /\ write = NoReg \/ \E i \in DOMAIN rs : rs[i] = write
  <2>1. CASE read = NoReg
    <3>1. rs = <<write>>
      BY <2>1
    <3> HIDE DEF rs, read, write
    <3>2. rs \in Seq(Regs) /\ DOMAIN rs = {1} /\ rs[1] = write
      BY <1>3, <1>5, <2>1, <3>1
    <3> QED
      BY <1>4, <2>1, <3>2 DEF write
  <2>2. CASE read # NoReg /\ write \in {NoReg, read}
    <3>1. rs = <<read>>
      BY <2>2
    <3> HIDE DEF rs, read, write
    <3>2. rs \in Seq(Regs) /\ DOMAIN rs = {1} /\ rs[1] = read
      BY <1>5, <2>2, <3>1
    <3> QED
      BY <1>4, <2>2, <3>2 DEF read
  <2>3. CASE read # NoReg /\ write \notin {NoReg, read}
    <3>1. rs = <<read, write>>
      BY <2>3
    <3> HIDE DEF rs, read, write
    <3>2. rs \in Seq(Regs) /\ DOMAIN rs = {1, 2} /\ rs[1] = read /\ rs[2] = write
      BY <1>5, <2>3, <3>1
    <3> QED
      BY <1>4, <2>3, <3>2 DEF read, write
  <2> QED
    BY <2>1, <2>2, <2>3
<1> HIDE DEF rs, read, write
<1>7. /\ NoReg = IF \E i \in DOMAIN rs : rs[i] = Direction(h, "read") THEN NoReg ELSE Direction(h, "read")
      /\ NoReg = IF \E i \in DOMAIN rs : rs[i] = Direction(h, "write") THEN NoReg ELSE Direction(h, "write")
      /\ Update(h, NoReg, NoReg) \/ (NoInterest(h) /\ Dirs(NoReg, NoReg) = {})
      /\ UNCHANGED timers
  BY <1>2, <1>6 DEF Dirs, read, write
<1>8. /\ CoreInv' /\ native' \in [Handles -> Interests]
      /\ Issued' = Issued /\ Live' = Live \ {rs[i] : i \in DOMAIN rs}
      /\ \A i \in DOMAIN rs : rs[i] \in Live
      /\ Watched(h)'
      /\ \A g \in Handles : g # h => /\ g \in DOMAIN handles' <=> g \in DOMAIN handles
                                     /\ g \in DOMAIN handles => handles'[g] = handles[g]
                                     /\ native'[g] = native[g]
  <2>1. PICK a, b :
            /\ a = IF \E i \in DOMAIN rs : rs[i] = Direction(h, "read") THEN NoReg ELSE Direction(h, "read")
            /\ b = IF \E i \in DOMAIN rs : rs[i] = Direction(h, "write") THEN NoReg ELSE Direction(h, "write")
            /\ Update(h, a, b) \/ (NoInterest(h) /\ Dirs(a, b) = {})
    BY <1>7
  <2> QED
    <3>1. /\ CoreInv /\ native \in [Handles -> Interests] /\ Retire(rs) /\ UNCHANGED timers
          /\ rs \in Seq(Regs)
          /\ \A i \in DOMAIN rs : \E d \in Directions : rs[i] = Direction(h, d)
          /\ \A i, j \in DOMAIN rs : rs[i] = rs[j] => i = j
      BY <1>1, <1>2, <1>6
    <3> QED
      BY <2>1, <3>1, EndsAtHandle
<1>9. pc # "failed" => \A g \in Handles : Watched(g)'
  <2> SUFFICES ASSUME pc # "failed", NEW g \in Handles PROVE Watched(g)'
    OBVIOUS
  <2>1. Watched(g)
    BY <1>1 DEF NativeOK
  <2>2. CASE g # h
    BY <1>2, <1>8, <2>1, <2>2, WatchedKept
  <2> QED
    BY <1>8, <2>2
<1>10. ready' \in Seq(Regs)
  BY <1>1, <1>2, <1>6
<1>11. ReactorInv'
  BY <1>1, <1>2, <1>8, <1>9, <1>10, WakesUp, CallKeeps
<1>12. Abstract!Next
  BY <1>1, <1>2, <1>6, <1>8, FiresAbstractly
<1> QED
  BY <1>11, <1>12

LEMMA CompleteStep ==
    ASSUME ReactorInv, NEW r \in Issued, Complete(r)
    PROVE  ReactorInv' /\ Abstract!Next
<1> DEFINE rs == <<r>>
<1>1. /\ CoreInv /\ CoreType /\ TimersOK
      /\ WaiterType /\ native \in [Handles -> Interests] /\ failures \in Nat /\ NativeOK /\ NoOversleep
      /\ waking \in Nat /\ ready \in Seq(Regs)
  BY InvParts
<1>2. /\ Active(r).kind = "completion" /\ Retire(rs) /\ ready' = ready \o rs
      /\ waking' = waking + 1 /\ answer' = <<"complete", r, TRUE>>
      /\ UNCHANGED <<timers, handles, pollKeys, lastKey, native, woken, failures, pc, deadline, until, batch, now>>
  BY DEF Complete, FinishAll, waiter
<1>3. /\ r \in Live /\ r \in Regs /\ r[1] \in DOMAIN slots /\ r = Current(r[1])
      /\ Active(r) = slots[r[1]].active
  BY <1>1, <1>2, ActiveFacts, SourceFacts
<1>4. rs \in Seq(Regs) /\ DOMAIN rs = {1} /\ rs[1] = r
  BY <1>3
<1>5. /\ \A i \in DOMAIN rs : rs[i] = r
      /\ \A i, j \in DOMAIN rs : rs[i] = rs[j] => i = j
      /\ {rs[i] : i \in DOMAIN rs} = {r}
      /\ ready' = Append(ready, r)
  <2>1. ready' = Append(ready, r)
    BY <1>1, <1>2, <1>3
  <2> QED
    BY <1>4, <2>1
<1>6. \A t \in DOMAIN timers : timers[t] # r
  <2> SUFFICES ASSUME NEW t \in DOMAIN timers, timers[t] = r PROVE FALSE
    OBVIOUS
  <2>1. t[2] = r[1] /\ slots[t[2]].active = Source("timer", {}, NoHandle, t[1])
    BY <1>1 DEF TimersOK, Current
  <2> QED
    BY <1>2, <1>3, <2>1 DEF Source
<1> HIDE DEF rs
<1>7. CoreInv' /\ Issued' = Issued /\ Live' = Live \ {rs[i] : i \in DOMAIN rs}
  <2>1. timers \in [DOMAIN timers -> Regs]
    BY <1>1 DEF CoreType
  <2>2. \A i \in DOMAIN rs : rs[i] \in Live /\ slots[rs[i][1]].active.kind # "readiness"
    BY <1>2, <1>3, <1>5
  <2>3. \A t \in DOMAIN timers' : timers'[t] = timers[t] /\ ~\E i \in DOMAIN rs : rs[i] = timers[t]
    BY <1>2, <1>5, <1>6
  <2> QED
    BY <1>1, <1>2, <1>4, <1>5, <2>1, <2>2, <2>3, EndsElsewhere
<1>8. pc # "failed" => \A g \in Handles : Watched(g)'
  BY <1>1, <1>2 DEF NativeOK, Watched
<1>9. NoOversleep'
  BY <1>1, <1>2 DEF NoOversleep
<1>10. ready' \in Seq(Regs) /\ waking' \in Nat /\ woken' \in BOOLEAN
  BY <1>1, <1>2, <1>3, <1>5 DEF WaiterType
<1>11. ReactorInv'
  BY <1>1, <1>2, <1>7, <1>8, <1>9, <1>10, CallKeeps
<1>12. (r \in Live) = TRUE
  BY <1>3
<1>13. Abstract!Complete(r)
  BY <1>2, <1>3, <1>5, <1>7, <1>12 DEF Abstract!Complete
<1> QED
  BY <1>11, <1>13 DEF Abstract!Next

\* Steps that leave the tables alone: Poller::notify fails, a completion's wakeup, the
\* clock, and the owner consuming a notification.
LEMMA PlainStep ==
    ASSUME ReactorInv, NotifyFails \/ Wakeup \/ Tick \/ PopReady
    PROVE  ReactorInv' /\ Abstract!Next
<1>1. /\ CoreInv /\ WaiterType /\ NativeOK /\ NoOversleep /\ ready \in Seq(Regs)
  BY InvParts
<1>2. /\ UNCHANGED <<slots, free, timers, handles, pollKeys, lastKey, native, pc, deadline, until, batch>>
      /\ answer' = NoAnswer
  BY DEF NotifyFails, Wakeup, Tick, PopReady, core, poller, waiter
<1>3. CoreInv' /\ Issued' = Issued /\ Live' = Live
  BY <1>1, <1>2, CoreKept
<1>4. NativeOK'
  BY <1>1, <1>2 DEF NativeOK, Watched
<1>5. CASE NotifyFails \/ Wakeup \/ Tick
  <2>1. /\ ready' = ready /\ waking' \in Nat /\ failures' \in Nat /\ now' \in Nat
        /\ woken' = TRUE \/ (woken' = woken /\ waking' = waking)
    <3>0. waking \in Nat /\ failures \in Nat /\ now \in Nat
      BY InvParts
    <3>1. CASE NotifyFails
      BY <3>0, <3>1 DEF NotifyFails, core
    <3>2. CASE Wakeup
      BY <3>0, <3>2 DEF Wakeup, Notify, core
    <3>3. CASE Tick
      BY <3>0, <3>3 DEF Tick, core, poller
    <3> QED
      BY <1>5, <3>1, <3>2, <3>3
  <2>2. WaiterType'
    BY <1>1, <1>2, <2>1 DEF WaiterType
  <2>3. NoOversleep'
    BY <1>1, <1>2, <2>1 DEF NoOversleep, WaiterType
  <2>4. Abstract!Other
    BY <1>2, <1>3, <2>1 DEF Abstract!Other, Abstract!NoAnswer, NoAnswer
  <2> QED
    BY <1>3, <1>4, <2>2, <2>3, <2>4 DEF ReactorInv, Abstract!Next
<1>6. CASE PopReady
  <2>1. ready # <<>> /\ ready' = Tail(ready) /\ UNCHANGED <<woken, waking, failures, now>> /\ pc = "idle"
    BY <1>6 DEF PopReady, poller
  <2>2. ready' \in Seq(Regs)
    BY <1>1, <2>1
  <2>3. WaiterType'
    BY <1>1, <1>2, <2>1, <2>2 DEF WaiterType
  <2>4. NoOversleep'
    BY <1>2, <2>1 DEF NoOversleep
  <2>5. Abstract!Consume
    BY <1>2, <1>3, <2>1 DEF Abstract!Consume, Abstract!NoAnswer, NoAnswer
  <2> QED
    BY <1>3, <1>4, <2>3, <2>4, <2>5 DEF ReactorInv, Abstract!Next
<1> QED
  BY <1>5, <1>6

LEMMA PollFailsStep ==
    ASSUME ReactorInv, PollFails
    PROVE  ReactorInv' /\ Abstract!Next
<1>1. /\ CoreInv /\ WaiterType /\ NativeOK
  BY InvParts
<1>2. /\ UNCHANGED <<slots, free, timers, handles, pollKeys, lastKey, ready, native>>
      /\ UNCHANGED <<woken, waking, deadline, batch, now>>
      /\ pc = "poll" /\ pc' = "failed" /\ until' = Never /\ answer' = NoAnswer /\ failures' = failures + 1
  BY DEF PollFails, core
<1>3. CoreInv' /\ Issued' = Issued /\ Live' = Live
  BY <1>1, <1>2, CoreKept
<1>4. NativeOK'
  BY <1>1, <1>2 DEF NativeOK, Watched
<1>5. WaiterType'
  BY <1>1, <1>2, ReactorAssumption DEF WaiterType, Phases, Never
<1>6. NoOversleep'
  BY <1>2 DEF NoOversleep
<1>7. Abstract!Other
  BY <1>2, <1>3 DEF Abstract!Other, Abstract!NoAnswer, NoAnswer
<1> QED
  BY <1>3, <1>4, <1>5, <1>6, <1>7 DEF ReactorInv, Abstract!Next

\* fire_timers in wait(): the tables stay sound and the registry sees timers fire.
LEMMA TimersFire ==
    ASSUME ReactorInv, FireTimers, UNCHANGED <<handles, pollKeys, lastKey>>, answer' = NoAnswer
    PROVE  CoreInv' /\ ready' \in Seq(Regs) /\ Abstract!Next
<1>1. /\ CoreInv /\ CoreType /\ FreeOK /\ TimersOK /\ now \in Nat /\ ready \in Seq(Regs)
  BY InvParts
<1>2. PICK rs \in Seq(Regs) :
          /\ \A i \in DOMAIN rs : rs[i] \in Live /\ slots[rs[i][1]].active.kind = "timer"
          /\ \A i, j \in DOMAIN rs : rs[i] = rs[j] => i = j
          /\ Retire(rs) /\ ready' = ready \o rs
          /\ DOMAIN timers' \subseteq DOMAIN timers
          /\ timers' \in [DOMAIN timers' -> Regs]
          /\ \A t \in DOMAIN timers' : timers'[t] = timers[t] /\ ~\E i \in DOMAIN rs : rs[i] = timers[t]
  BY <1>1, FireTimersFacts
<1>3. \A i \in DOMAIN rs : rs[i] \in Live /\ slots[rs[i][1]].active.kind # "readiness"
  BY <1>2
<1>4. CoreInv' /\ Issued' = Issued /\ Live' = Live \ {rs[i] : i \in DOMAIN rs}
  BY <1>1, <1>2, <1>3, EndsElsewhere
<1>5. ready' \in Seq(Regs)
  BY <1>1, <1>2
<1>6. Abstract!Next
  BY <1>1, <1>2, <1>4, FiresAbstractly
<1> QED
  BY <1>4, <1>5, <1>6

LEMMA OwnerStep ==
    ASSUME ReactorInv, (\E t \in {0, Never} : Wait(t)) \/ Sleep \/ Settle
    PROVE  ReactorInv' /\ Abstract!Next
<1> USE ReactorAssumption
<1>1. /\ WaiterType /\ NativeOK /\ now \in Nat /\ deadline \in Nat /\ until \in Nat /\ Never \in Nat
  BY InvParts DEF WaiterType, Never
<1>2. /\ FireTimers /\ UNCHANGED <<handles, pollKeys, lastKey, native, woken, waking, failures, batch, now>>
      /\ answer' = NoAnswer
  BY DEF Wait, Sleep, Settle, poller
<1>3. CoreInv' /\ ready' \in Seq(Regs) /\ Abstract!Next
  BY <1>2, TimersFire
<1>4. \A h \in Handles : Watched(h) => Watched(h)'
  BY <1>2 DEF Watched
<1>5. ASSUME deadline' \in Nat, until' \in Nat, pc \in Phases \ {"failed"}, batch = {},
             pc' \in {"idle", "loop", "poll"}, NoOversleep'
      PROVE  ReactorInv'
  <2>1. WaiterType'
    BY <1>1, <1>2, <1>3, <1>5 DEF WaiterType, Phases
  <2>2. NativeOK'
    BY <1>1, <1>2, <1>4, <1>5 DEF NativeOK
  <2> QED
    BY <1>3, <1>5, <2>1, <2>2 DEF ReactorInv
<1>6. CASE \E t \in {0, Never} : Wait(t)
  <2>1. PICK t \in {0, Never} : Wait(t)
    BY <1>6
  <2>2. pc = "idle" /\ pc' \in {"idle", "loop"} /\ until' = until
    BY <2>1 DEF Wait
  <2>3. deadline' \in Nat
    BY <1>1, <2>1 DEF Wait
  <2>4. NoOversleep'
    BY <2>2 DEF NoOversleep
  <2>5. batch = {}
    BY <1>1, <2>2 DEF NativeOK
  <2>6. ReactorInv'
    BY <1>1, <1>5, <2>2, <2>3, <2>4, <2>5 DEF Phases
  <2> QED
    BY <1>3, <2>6
<1>7. CASE Settle
  <2>1. pc \in {"returned", "dispatch"} /\ batch = {} /\ pc' \in {"idle", "loop"} /\ until' = until
        /\ deadline' \in {Never, deadline}
    BY <1>7 DEF Settle
  <2>2. NoOversleep'
    BY <2>1 DEF NoOversleep
  <2>3. ReactorInv'
    BY <1>1, <1>5, <2>1, <2>2 DEF Phases
  <2> QED
    BY <1>3, <2>3
<1>8. CASE Sleep
  <2>1. pc = "loop" /\ batch = {}
    BY <1>1, <1>8 DEF Sleep, NativeOK
  <2>2. CASE ready' # <<>>
    <3>1. pc' = "idle" /\ deadline' = Never /\ until' = until
      BY <1>8, <2>2 DEF Sleep
    <3>2. NoOversleep'
      BY <3>1 DEF NoOversleep
    <3>3. ReactorInv'
      BY <1>1, <1>5, <2>1, <3>1, <3>2 DEF Phases
    <3> QED
      BY <1>3, <3>3
  <2>3. CASE ready' = <<>>
    <3> DEFINE e == Earliest(DOMAIN timers')
    <3>1. pc' = "poll" /\ deadline' = deadline /\ until' = IF e < deadline THEN e ELSE deadline
      BY <1>8, <2>3 DEF Sleep
    <3>2. DOMAIN timers' \subseteq Nat \X Nat
      BY <1>3 DEF CoreInv, CoreType
    <3>3. e \in Nat /\ \A t \in DOMAIN timers' : e <= t[1] /\ t[1] \in Nat
      <4>1. CASE DOMAIN timers' = {}
        BY <1>1, <4>1 DEF Earliest
      <4>2. CASE DOMAIN timers' # {}
        BY <3>2, <4>2, EarliestTimer
      <4> QED
        BY <4>1, <4>2
    <3> HIDE DEF e
    <3>4. until' \in Nat /\ \A t \in DOMAIN timers' : until' <= t[1]
      BY <1>1, <3>1, <3>3
    <3>5. NoOversleep'
      BY <2>3, <3>4 DEF NoOversleep
    <3>6. ReactorInv'
      BY <1>1, <1>5, <2>1, <3>1, <3>4, <3>5 DEF Phases
    <3> QED
      BY <1>3, <3>6
  <2> QED
    BY <2>2, <2>3
<1> QED
  BY <1>6, <1>7, <1>8

LEMMA PollReturnStep ==
    ASSUME ReactorInv, NEW hs \in SUBSET Handles, NEW flags, PollReturn(hs, flags)
    PROVE  ReactorInv' /\ Abstract!Next
<1> USE ReactorAssumption
<1>1. /\ CoreInv /\ WaiterType /\ NativeOK /\ native \in [Handles -> Interests]
  BY InvParts
<1>2. /\ pc = "poll" /\ pc' = "returned" /\ woken' = FALSE /\ until' = Never /\ answer' = NoAnswer
      /\ hs \subseteq {h \in Handles : native[h].armed}
      /\ native' = [h \in Handles |-> IF h \in hs THEN [native[h] EXCEPT !.armed = FALSE] ELSE native[h]]
      /\ batch' = {[key |-> native[h].key, flags |-> flags[h]] : h \in hs}
      /\ UNCHANGED <<slots, free, timers, handles, pollKeys, lastKey, ready, waking, failures, deadline, now>>
  BY DEF PollReturn, core
<1>3. CoreInv' /\ Issued' = Issued /\ Live' = Live
  BY <1>1, <1>2, CoreKept
<1>4. native' \in [Handles -> Interests]
  BY <1>1, <1>2 DEF Interests
<1>5. WaiterType'
  <2>1. Never \in Nat
    BY DEF Never
  <2>2. pc' \in Phases
    BY <1>2 DEF Phases
  <2> QED
    BY <1>1, <1>2, <1>4, <2>1, <2>2 DEF WaiterType
<1>6. batch = {}
  BY <1>1, <1>2 DEF NativeOK
<1>7. ASSUME NEW h \in Handles PROVE Watched(h)'
  <2>1. Watched(h)
    BY <1>1, <1>2 DEF NativeOK
  <2>2. native'[h] = IF h \in hs THEN [native[h] EXCEPT !.armed = FALSE] ELSE native[h]
    BY <1>2
  <2>3. CASE h \in hs
    <3>1. native[h].armed /\ native[h] \in Interests
      BY <1>1, <1>2, <2>3
    <3>2. h \in DOMAIN handles
      BY <2>1, <3>1 DEF Watched, Unwatched
    <3>3. native'[h].key = native[h].key /\ native'[h].dirs = native[h].dirs
      BY <2>2, <2>3, <3>1 DEF Interests
    <3>4. \E e \in batch' : e.key = native[h].key
      <4>1. [key |-> native[h].key, flags |-> flags[h]] \in batch'
        BY <1>2, <2>3
      <4> QED
        BY <4>1
    <3> QED
      BY <1>2, <2>1, <3>2, <3>3, <3>4 DEF Watched
  <2>4. CASE h \notin hs
    BY <1>2, <1>6, <2>1, <2>2, <2>4 DEF Watched
  <2> QED
    BY <2>3, <2>4
<1>8. NativeOK'
  BY <1>2, <1>7 DEF NativeOK
<1>9. NoOversleep'
  BY <1>2 DEF NoOversleep
<1>10. Abstract!Other
  BY <1>2, <1>3 DEF Abstract!Other, Abstract!NoAnswer, NoAnswer
<1> QED
  BY <1>3, <1>5, <1>8, <1>9, <1>10 DEF ReactorInv, Abstract!Next

\* What an event ends: the registrations of the directions it hits, each once.
LEMMA EndedFacts ==
    ASSUME CoreType, HandlesOK, NEW e, NEW h
    PROVE  /\ Ended(e, h) \in Seq(Regs)
           /\ \A i \in DOMAIN Ended(e, h) : \E d \in Directions : Ended(e, h)[i] = Direction(h, d)
           /\ \A i, j \in DOMAIN Ended(e, h) : Ended(e, h)[i] = Ended(e, h)[j] => i = j
           /\ Keep(e, h, "read") = IF \E i \in DOMAIN Ended(e, h) : Ended(e, h)[i] = Direction(h, "read")
                                   THEN NoReg ELSE Direction(h, "read")
           /\ Keep(e, h, "write") = IF \E i \in DOMAIN Ended(e, h) : Ended(e, h)[i] = Direction(h, "write")
                                    THEN NoReg ELSE Direction(h, "write")
<1> DEFINE read  == Direction(h, "read")
           write == Direction(h, "write")
           rs    == Ended(e, h)
           r     == Hit(e, h, "read")
           w     == Hit(e, h, "write")
<1>1. "read" \in Directions /\ "write" \in Directions /\ \A d \in Directions : d = "read" \/ d = "write"
  BY DEF Directions
<1>2. (r => read \in Regs) /\ (w => write \in Regs)
  BY <1>1, DirectionFacts DEF Hit
<1>3. rs = (IF r THEN <<read>> ELSE <<>>) \o (IF w /\ ~(r /\ read = write) THEN <<write>> ELSE <<>>)
  BY DEF Ended
<1>4. /\ Keep(e, h, "read") = IF r \/ (w /\ write = read) THEN NoReg ELSE read
      /\ Keep(e, h, "write") = IF w \/ (r /\ read = write) THEN NoReg ELSE write
  BY <1>1 DEF Keep
<1> HIDE DEF read, write, rs, r, w
<1>5. /\ rs \in Seq(Regs)
      /\ \A i \in DOMAIN rs : rs[i] = read \/ rs[i] = write
      /\ \A i, j \in DOMAIN rs : rs[i] = rs[j] => i = j
      /\ (\E i \in DOMAIN rs : rs[i] = read) <=> r \/ (w /\ write = read)
      /\ (\E i \in DOMAIN rs : rs[i] = write) <=> w \/ (r /\ read = write)
  <2>1. CASE r /\ w /\ read # write
    <3>1. rs = <<read>> \o <<write>>
      BY <1>3, <2>1
    <3>2. rs \in Seq(Regs) /\ DOMAIN rs = {1, 2} /\ rs[1] = read /\ rs[2] = write
      BY <1>2, <2>1, <3>1
    <3> QED
      BY <2>1, <3>2
  <2>2. CASE r /\ ~(w /\ read # write)
    <3>1. rs = <<read>> \o <<>>
      BY <1>3, <2>2
    <3>2. rs \in Seq(Regs) /\ DOMAIN rs = {1} /\ rs[1] = read
      BY <1>2, <2>2, <3>1
    <3> QED
      BY <2>2, <3>2
  <2>3. CASE ~r /\ w
    <3>1. rs = <<>> \o <<write>>
      BY <1>3, <2>3
    <3>2. rs \in Seq(Regs) /\ DOMAIN rs = {1} /\ rs[1] = write
      BY <1>2, <2>3, <3>1
    <3> QED
      BY <2>3, <3>2
  <2>4. CASE ~r /\ ~w
    <3>1. rs = <<>> \o <<>>
      BY <1>3, <2>4
    <3>2. rs \in Seq(Regs) /\ DOMAIN rs = {}
      BY <3>1
    <3> QED
      BY <2>4, <3>2
  <2> QED
    BY <2>1, <2>2, <2>3, <2>4
<1>6. \A i \in DOMAIN rs : \E d \in Directions : rs[i] = Direction(h, d)
  BY <1>1, <1>5 DEF read, write
<1> QED
  BY <1>4, <1>5, <1>6 DEF read, write, rs

LEMMA DispatchStep ==
    ASSUME ReactorInv, NEW e \in batch, Dispatch(e)
    PROVE  ReactorInv' /\ Abstract!Next
<1> USE ReactorAssumption
<1>1. /\ CoreInv /\ CoreType /\ FreeOK /\ TimersOK /\ HandlesOK /\ KeysOK
      /\ WaiterType /\ native \in [Handles -> Interests] /\ failures \in Nat /\ NativeOK
      /\ waking \in Nat /\ ready \in Seq(Regs)
  BY InvParts
<1>2. /\ pc \in {"returned", "dispatch"} /\ batch' = batch \ {e} /\ pc' \in {"dispatch", "failed"}
      /\ answer' = NoAnswer /\ UNCHANGED <<woken, waking, deadline, until, now>>
  BY DEF Dispatch
<1>3. pc' \in Phases /\ NoOversleep'
  BY <1>2 DEF Phases, NoOversleep
<1>4. \A g \in Handles : Watched(g)
  BY <1>1, <1>2 DEF NativeOK
<1>5. ASSUME ready' \in Seq(Regs), native' \in [Handles -> Interests], failures' \in Nat, CoreInv',
             pc' # "failed" => \A g \in Handles : Watched(g)'
      PROVE  ReactorInv'
  <2>1. WaiterType'
    BY <1>1, <1>2, <1>3, <1>5 DEF WaiterType
  <2>2. NativeOK'
    BY <1>2, <1>5 DEF NativeOK
  <2> QED
    BY <1>3, <1>5, <2>1, <2>2 DEF ReactorInv
<1>6. CASE e.key \notin DOMAIN pollKeys /\ UNCHANGED <<core, native, failures>>
  <2>1. UNCHANGED <<slots, free, timers, handles, pollKeys, lastKey, ready, native, failures>>
    BY <1>6 DEF core
  <2>2. CoreInv' /\ Issued' = Issued /\ Live' = Live
    BY <1>1, <2>1, CoreKept
  <2>3. \A g \in Handles : Watched(g)'
    <3> TAKE g \in Handles
    <3>1. g \in DOMAIN handles => \A x \in batch : x.key = handles[g].key => x \in batch'
      BY <1>1, <1>2, <1>6 DEF KeysOK
    <3> QED
      BY <1>4, <2>1, <3>1, WatchedKept
  <2>4. ReactorInv'
    BY <1>1, <1>5, <2>1, <2>2, <2>3
  <2>5. Abstract!Other
    BY <1>2, <2>1, <2>2 DEF Abstract!Other, Abstract!NoAnswer, NoAnswer
  <2> QED
    BY <2>4, <2>5 DEF Abstract!Next
<1>7. ASSUME e.key \in DOMAIN pollKeys
      PROVE  \E c \in Handles : /\ c = pollKeys[e.key] /\ c \in DOMAIN handles /\ handles[c].key = e.key
                                /\ \A g \in DOMAIN handles : g # c => handles[g].key # e.key
  <2>1. pollKeys[e.key] \in DOMAIN handles /\ handles[pollKeys[e.key]].key = e.key
    BY <1>1, <1>7 DEF KeysOK
  <2>2. pollKeys[e.key] \in Handles
    BY <2>1, <1>1 DEF CoreType
  <2>3. \A g \in DOMAIN handles : handles[g].key = e.key => g = pollKeys[e.key]
    BY <1>1 DEF KeysOK
  <2> QED
    BY <2>1, <2>2, <2>3
<1>8. ASSUME NEW c \in Handles, e.key \in DOMAIN pollKeys, c = pollKeys[e.key],
             Update(c, Keep(e, c, "read"), Keep(e, c, "write")), FinishAll(Ended(e, c)), UNCHANGED timers
      PROVE  ReactorInv' /\ Abstract!Next
  <2>1. /\ c \in DOMAIN handles /\ handles[c].key = e.key
        /\ \A g \in DOMAIN handles : g # c => handles[g].key # e.key
    BY <1>7, <1>8
  <2>2. PICK rs, read, write : rs = Ended(e, c) /\ read = Keep(e, c, "read") /\ write = Keep(e, c, "write")
    OBVIOUS
  <2>3. /\ rs \in Seq(Regs)
        /\ \A i \in DOMAIN rs : \E d \in Directions : rs[i] = Direction(c, d)
        /\ \A i, j \in DOMAIN rs : rs[i] = rs[j] => i = j
        /\ read = IF \E i \in DOMAIN rs : rs[i] = Direction(c, "read") THEN NoReg ELSE Direction(c, "read")
        /\ write = IF \E i \in DOMAIN rs : rs[i] = Direction(c, "write") THEN NoReg ELSE Direction(c, "write")
    BY <1>1, <2>2, EndedFacts
  <2>4. Update(c, read, write) /\ Retire(rs) /\ ready' = ready \o rs /\ UNCHANGED timers
    BY <1>8, <2>2 DEF FinishAll
  <2>5. /\ CoreInv' /\ native' \in [Handles -> Interests]
        /\ Issued' = Issued /\ Live' = Live \ {rs[i] : i \in DOMAIN rs}
        /\ \A i \in DOMAIN rs : rs[i] \in Live
        /\ Watched(c)'
        /\ \A g \in Handles : g # c => /\ g \in DOMAIN handles' <=> g \in DOMAIN handles
                                       /\ g \in DOMAIN handles => handles'[g] = handles[g]
                                       /\ native'[g] = native[g]
    BY <1>1, <2>3, <2>4, EndsAtHandle
  <2>6. \A g \in Handles : Watched(g)'
    <3> TAKE g \in Handles
    <3>1. CASE g # c
      <4>1. g \in DOMAIN handles => \A x \in batch : x.key = handles[g].key => x \in batch'
        BY <1>2, <2>1, <3>1
      <4> QED
        BY <1>4, <2>5, <3>1, <4>1, WatchedKept
    <3> QED
      BY <2>5, <3>1
  <2>7. ready' \in Seq(Regs)
    BY <1>1, <2>3, <2>4
  <2>8. failures' = failures
    BY <1>8 DEF Update
  <2>9. ReactorInv'
    BY <1>1, <1>5, <2>5, <2>6, <2>7, <2>8
  <2>10. Abstract!Next
    BY <1>1, <1>2, <2>3, <2>4, <2>5, FiresAbstractly
  <2> QED
    BY <2>9, <2>10
<1>9. ASSUME NEW c \in Handles, e.key \in DOMAIN pollKeys, c = pollKeys[e.key], pc' = "failed",
             Rejected(c, Keep(e, c, "read"), Keep(e, c, "write")), UNCHANGED <<slots, free, timers, ready>>
      PROVE  ReactorInv' /\ Abstract!Next
  <2>1. /\ UNCHANGED <<handles, pollKeys>> /\ failures' \in Nat
        /\ DOMAIN pollKeys' \subseteq 1..lastKey' /\ lastKey' \in Nat
        /\ native' \in [Handles -> Interests]
    BY <1>1, <1>9, RejectedFacts
  <2>2. CoreType'
    BY <1>1, <1>9, <2>1 DEF CoreType
  <2>3. FreeOK' /\ TimersOK' /\ HandlesOK' /\ KeysOK'
    <3>1. FreeOK' /\ TimersOK'
      BY <1>1, <1>9, <2>1 DEF FreeOK, TimersOK, Current
    <3>2. HandlesOK'
      BY <1>1, <1>9, <2>1 DEF HandlesOK, Current, Direction
    <3>3. KeysOK'
      BY <1>1, <1>9, <2>1 DEF KeysOK
    <3> QED
      BY <3>1, <3>2, <3>3
  <2>4. CoreInv'
    BY <2>2, <2>3 DEF CoreInv
  <2>5. ReactorInv'
    BY <1>1, <1>5, <1>9, <2>1, <2>4
  <2>6. Issued' = Issued /\ Live' = Live
    BY <1>9 DEF Issued, Live
  <2>7. Abstract!Other
    BY <1>2, <1>9, <2>6 DEF Abstract!Other, Abstract!NoAnswer, NoAnswer
  <2> QED
    BY <2>5, <2>7 DEF Abstract!Next
<1>10. CASE e.key \in DOMAIN pollKeys
  <2>1. PICK c \in Handles : c = pollKeys[e.key]
    BY <1>7, <1>10
  <2>2. \/ /\ Update(c, Keep(e, c, "read"), Keep(e, c, "write"))
           /\ FinishAll(Ended(e, c)) /\ UNCHANGED timers
        \/ /\ pc' = "failed"
           /\ Rejected(c, Keep(e, c, "read"), Keep(e, c, "write"))
           /\ UNCHANGED <<slots, free, timers, ready>>
    BY <1>10, <2>1 DEF Dispatch
  <2> QED
    BY <1>8, <1>9, <1>10, <2>1, <2>2
<1> QED
  BY <1>6, <1>10 DEF Dispatch

-----------------------------------------------------------------------------
(* Theorems.                                                               *)

LEMMA ReactorInit ==
    ASSUME Init
    PROVE  ReactorInv /\ Abstract!Init
<1> USE ReactorAssumption
<1>1. CoreType
  BY DEF Init, CoreType
<1>2. FreeOK /\ TimersOK /\ HandlesOK /\ KeysOK
  BY DEF Init, FreeOK, TimersOK, HandlesOK, KeysOK
<1>3. WaiterType
  <2>1. Unwatched \in Interests
    BY DEF Unwatched, Interests
  <2>2. native \in [Handles -> Interests]
    BY <2>1 DEF Init
  <2>3. Never \in Nat
    BY DEF Never
  <2>4. woken \in BOOLEAN /\ pc \in Phases
    BY DEF Init, Phases
  <2>5. ready \in Seq(Regs) /\ waking \in Nat /\ failures \in Nat
    BY DEF Init
  <2>6. deadline \in Nat /\ until \in Nat /\ now \in Nat
    BY <2>3 DEF Init
  <2> QED
    BY <2>2, <2>4, <2>5, <2>6 DEF WaiterType
<1>4. NativeOK /\ NoOversleep
  BY DEF Init, NativeOK, NoOversleep, Watched
<1>5. Issued = {} /\ Live = {}
  BY DEF Init, Issued, Live
<1>6. Abstract!Init
  BY <1>5 DEF Init, Abstract!Init, Abstract!NoAnswer, NoAnswer
<1> QED
  BY <1>1, <1>2, <1>3, <1>4, <1>6 DEF ReactorInv, CoreInv

LEMMA ReactorStep ==
    ASSUME ReactorInv, [Next]_vars
    PROVE  ReactorInv' /\ [Abstract!Next]_(Abstract!vars)
<1>1. ASSUME NEW s \in Sources, RegisterWait(s) PROVE ReactorInv' /\ Abstract!Next
  BY <1>1, RegisterStep
<1>2. ASSUME NEW r \in Issued,
             CancelStale(r) \/ Cancel(r) \/ CancelFails(r) \/ CompleteStale(r) \/ Complete(r)
      PROVE  ReactorInv' /\ Abstract!Next
  BY <1>2, StaleStep, CancelStep, CancelFailsStep, CompleteStep
<1>3. ASSUME NEW h \in Handles, Revoke(h) \/ RevokeFails(h) PROVE ReactorInv' /\ Abstract!Next
  BY <1>3, RevokeStep, RevokeFailsStep
<1>4. CASE (Unlocked /\ NotifyFails) \/ Wakeup \/ PopReady \/ Tick
  BY <1>4, PlainStep
<1>5. CASE (\E t \in {0, Never} : Wait(t)) \/ Sleep \/ Settle
  BY <1>5, OwnerStep
<1>6. ASSUME NEW hs \in SUBSET Handles, NEW flags \in [hs -> Flags], PollReturn(hs, flags)
      PROVE  ReactorInv' /\ Abstract!Next
  BY <1>6, PollReturnStep
<1>7. ASSUME NEW e \in batch, Dispatch(e) PROVE ReactorInv' /\ Abstract!Next
  BY <1>7, DispatchStep
<1>9. CASE PollFails
  BY <1>9, PollFailsStep
<1>8. CASE UNCHANGED vars
  <2>1. UNCHANGED <<core, poller, waiter, now, answer>>
    BY <1>8 DEF vars
  <2>2. CoreInv' /\ Issued' = Issued /\ Live' = Live
    BY <2>1, InvParts, CoreKept DEF core
  <2>3. WaiterType'
    BY <2>1, InvParts DEF WaiterType, core, poller, waiter
  <2>4. NativeOK'
    BY <2>1, InvParts DEF NativeOK, Watched, core, poller, waiter
  <2>5. NoOversleep'
    BY <2>1, InvParts DEF NoOversleep, core, poller, waiter
  <2>6. UNCHANGED Abstract!vars
    BY <2>1, <2>2 DEF Abstract!vars, core
  <2> QED
    BY <2>2, <2>3, <2>4, <2>5, <2>6 DEF ReactorInv
<1> QED
  BY <1>1, <1>2, <1>3, <1>4, <1>5, <1>6, <1>7, <1>8, <1>9 DEF Next

\* Every reachable state of the reactor satisfies the inductive invariant: the tables of
\* slots, timers, directions and polling identities agree with each other.
THEOREM ReactorInvariant == Spec => []ReactorInv
<1>1. Init => ReactorInv
  BY ReactorInit
<1>2. ReactorInv /\ [Next]_vars => ReactorInv'
  BY ReactorStep
<1> QED
  BY <1>1, <1>2, PTL DEF Spec

\* However many handles and registrations there are, the poller watches exactly the
\* handles with a live registration, for the directions and under the key of the core.
THEOREM ReactorInterest == Spec => []InterestOK
<1>1. ReactorInv => InterestOK
  <2> SUFFICES ASSUME ReactorInv, pc # "failed", NEW h \in Handles
               PROVE  IF h \in DOMAIN handles
                      THEN /\ native[h].key = handles[h].key
                           /\ native[h].dirs = Dirs(handles[h].read, handles[h].write)
                           /\ native[h].armed \/ \E e \in batch : e.key = handles[h].key
                           /\ \A d \in native[h].dirs :
                                  Direction(h, d) \in Live /\ Active(Direction(h, d)).handle = h
                      ELSE /\ native[h] = Unwatched
                           /\ \A r \in Live : Active(r).handle # h
    BY DEF InterestOK
  <2>1. CoreType /\ HandlesOK /\ Watched(h)
    BY InvParts DEF NativeOK
  <2>2. CASE h \in DOMAIN handles
    <3>1. ASSUME NEW d \in native[h].dirs
          PROVE  Direction(h, d) \in Live /\ Active(Direction(h, d)).handle = h
      <4>1. d \in Directions /\ Direction(h, d) # NoReg
        BY <2>1, <2>2 DEF Watched, Dirs, Direction, Directions
      <4>2. Direction(h, d) \in Live /\ slots[Direction(h, d)[1]].active.handle = h
        BY <2>1, <4>1, DirectionFacts
      <4>3. Active(Direction(h, d)) = slots[Direction(h, d)[1]].active
        BY <2>1, <4>2, ActiveFacts DEF Live
      <4> QED
        BY <4>2, <4>3
    <3> QED
      BY <2>1, <2>2, <3>1 DEF Watched
  <2>3. CASE h \notin DOMAIN handles
    <3>1. ASSUME NEW r \in Live, Active(r).handle = h PROVE FALSE
      <4>1. /\ r \in Issued /\ r[1] \in DOMAIN slots /\ r = Current(r[1])
            /\ Active(r) = slots[r[1]].active /\ Active(r) \in Sources
        BY <2>1, ActiveFacts DEF Live
      <4>2. Active(r).kind = "readiness"
        BY <3>1, <4>1, SourceFacts, ReactorAssumption
      <4>3. PICK d \in Directions : d \in Active(r).interests
        BY <4>1, <4>2, SourceFacts
      <4>4. Direction(h, d) = r
        BY <2>1, <3>1, <4>1, <4>2, <4>3 DEF HandlesOK
      <4>5. r # NoReg
        BY <4>1, SlotFacts, <2>1 DEF Current, NoReg
      <4> QED
        BY <2>3, <4>4, <4>5 DEF Direction
    <3> QED
      BY <2>1, <2>3, <3>1 DEF Watched
  <2> QED
    BY <2>2, <2>3
<1> QED
  BY <1>1, ReactorInvariant, PTL

\* A waiter asleep in the poller with no wakeup on its way has nothing to consume and
\* wakes no later than the first timer, for any number of timers.
THEOREM ReactorNoOversleep == Spec => []NoOversleep
<1>1. ReactorInv => NoOversleep
  BY DEF ReactorInv
<1> QED
  BY <1>1, ReactorInvariant, PTL

\* The reactor, for all constants, implements the registry of one-shot waits: slots and
\* their generations never let a registration fire twice, fire after it was cancelled or be
\* ended in the name of an earlier one.
THEOREM ReactorRefines == Spec => Implements
<1>1. Init => Abstract!Init
  BY ReactorInit
<1>2. ReactorInv /\ [Next]_vars => [Abstract!Next]_(Abstract!vars)
  BY ReactorStep
<1> QED
  BY <1>1, <1>2, ReactorInvariant, PTL DEF Spec, Implements, Abstract!Spec
=============================================================================
