-------------------------- MODULE SharedHeapProofs --------------------------
(***************************************************************************)
(* Proofs about SharedHeap, for any set of threads and slots: relocation   *)
(* stops the world, no mutator holds a stale address, and no wake-up of    *)
(* the rendezvous is lost.                                                 *)
(***************************************************************************)
EXTENDS SharedHeap, TLAPS

\* Every action keeps the variables in their types.
LEMMA TypeStep == TypeOK /\ [Next]_vars => TypeOK'
<1> SUFFICES ASSUME TypeOK, [Next]_vars PROVE TypeOK'
  OBVIOUS
<1> USE DEF TypeOK, Phases, Registrations
<1>1. ASSUME NEW t \in Threads, Attach(t) PROVE TypeOK'
  BY <1>1 DEF Attach
<1>2. ASSUME NEW t \in Threads, Enter(t) PROVE TypeOK'
  BY <1>2 DEF Enter
<1>3. ASSUME NEW t \in Threads, Detach(t) PROVE TypeOK'
  BY <1>3 DEF Detach
<1>4. ASSUME NEW t \in Threads, Checkpoint(t) PROVE TypeOK'
  BY <1>4 DEF Checkpoint
<1>5. ASSUME NEW t \in Threads, CheckpointPark(t) PROVE TypeOK'
  BY <1>5 DEF CheckpointPark
<1>6. ASSUME NEW t \in Threads, ParkNative(t) PROVE TypeOK'
  BY <1>6 DEF ParkNative
<1>7. ASSUME NEW t \in Threads, NativeReturn(t) PROVE TypeOK'
  BY <1>7 DEF NativeReturn
<1>8. ASSUME NEW t \in Threads, Resume(t) PROVE TypeOK'
  BY <1>8 DEF Resume
<1>9. ASSUME NEW t \in Threads, Collect(t) PROVE TypeOK'
  BY <1>9 DEF Collect
<1>10. ASSUME NEW t \in Threads, Rendezvous(t) PROVE TypeOK'
  BY <1>10 DEF Rendezvous
<1>11. ASSUME NEW t \in Threads, FinishCollect(t) PROVE TypeOK'
  BY <1>11 DEF FinishCollect, Roots
<1>12. ASSUME NEW t \in Threads, SpuriousWake(t) PROVE TypeOK'
  BY <1>12 DEF SpuriousWake
<1>13. ASSUME NEW t \in Threads, NEW s \in Slots, Publish(t, s) PROVE TypeOK'
  BY <1>13 DEF Publish
<1>14. ASSUME NEW s \in Slots, DropSlot(s) PROVE TypeOK'
  BY <1>14 DEF DropSlot
<1>15. CASE UNCHANGED vars
  BY <1>15 DEF vars
<1> QED
  BY <1>1, <1>2, <1>3, <1>4, <1>5, <1>6, <1>7, <1>8,
     <1>9, <1>10, <1>11, <1>12, <1>13, <1>14, <1>15 DEF Next

\* The type invariant of the mutator boundary.
THEOREM TypeCorrect == Spec => []TypeOK
<1>1. Init => TypeOK
  BY HeapAssumption DEF Init, TypeOK, Phases, Registrations
<1> QED
  BY <1>1, TypeStep, PTL DEF Spec

\* The registration table keeps following the threads.
LEMMA RegisteredStep == HeapInv /\ [Next]_vars => Registered'
<1> SUFFICES ASSUME HeapInv, [Next]_vars PROVE Registered'
  OBVIOUS
<1> USE DEF HeapInv, TypeOK, Phases, Registrations, Registered, Mutating
<1>1. ASSUME NEW t \in Threads, Attach(t) PROVE Registered'
  BY <1>1 DEF Attach
<1>2. ASSUME NEW t \in Threads, Enter(t) PROVE Registered'
  BY <1>2 DEF Enter
<1>3. ASSUME NEW t \in Threads, Detach(t) PROVE Registered'
  BY <1>3 DEF Detach
<1>4. ASSUME NEW t \in Threads, Checkpoint(t) PROVE Registered'
  BY <1>4 DEF Checkpoint
<1>5. ASSUME NEW t \in Threads, CheckpointPark(t) PROVE Registered'
  BY <1>5 DEF CheckpointPark
<1>6. ASSUME NEW t \in Threads, ParkNative(t) PROVE Registered'
  BY <1>6 DEF ParkNative
<1>7. ASSUME NEW t \in Threads, NativeReturn(t) PROVE Registered'
  BY <1>7 DEF NativeReturn
<1>8. ASSUME NEW t \in Threads, Resume(t) PROVE Registered'
  BY <1>8 DEF Resume
<1>9. ASSUME NEW t \in Threads, Collect(t) PROVE Registered'
  BY <1>9 DEF Collect
<1>10. ASSUME NEW t \in Threads, Rendezvous(t) PROVE Registered'
  BY <1>10 DEF Rendezvous
<1>11. ASSUME NEW t \in Threads, FinishCollect(t) PROVE Registered'
  BY <1>11 DEF FinishCollect
<1>12. ASSUME NEW t \in Threads, SpuriousWake(t) PROVE Registered'
  BY <1>12 DEF SpuriousWake
<1>13. ASSUME NEW t \in Threads, NEW s \in Slots, Publish(t, s) PROVE Registered'
  BY <1>13 DEF Publish
<1>14. ASSUME NEW s \in Slots, DropSlot(s) PROVE Registered'
  BY <1>14 DEF DropSlot
<1>15. CASE UNCHANGED vars
  BY <1>15 DEF vars
<1> QED
  BY <1>1, <1>2, <1>3, <1>4, <1>5, <1>6, <1>7, <1>8,
     <1>9, <1>10, <1>11, <1>12, <1>13, <1>14, <1>15 DEF Next

\* The request, its single collector and the control mutex stay together.
LEMMA OwnershipStep ==
    HeapInv /\ [Next]_vars => ControlHeld' /\ RequestOwned' /\ SleepPhases'
<1> SUFFICES ASSUME HeapInv, [Next]_vars
             PROVE  ControlHeld' /\ RequestOwned' /\ SleepPhases'
  OBVIOUS
<1> USE HeapAssumption DEF HeapInv, TypeOK, Phases, Registrations, Registered, Mutating,
        ControlHeld, RequestOwned, SleepPhases, AllParked, TakesControl, Awake
<1>1. ASSUME NEW t \in Threads, Attach(t) PROVE ControlHeld' /\ RequestOwned' /\ SleepPhases'
  BY <1>1 DEF Attach
<1>2. ASSUME NEW t \in Threads, Enter(t) PROVE ControlHeld' /\ RequestOwned' /\ SleepPhases'
  BY <1>2 DEF Enter
<1>3. ASSUME NEW t \in Threads, Detach(t) PROVE ControlHeld' /\ RequestOwned' /\ SleepPhases'
  BY <1>3 DEF Detach
<1>4. ASSUME NEW t \in Threads, Checkpoint(t) PROVE ControlHeld' /\ RequestOwned' /\ SleepPhases'
  BY <1>4 DEF Checkpoint
<1>5. ASSUME NEW t \in Threads, CheckpointPark(t) PROVE ControlHeld' /\ RequestOwned' /\ SleepPhases'
  BY <1>5 DEF CheckpointPark
<1>6. ASSUME NEW t \in Threads, ParkNative(t) PROVE ControlHeld' /\ RequestOwned' /\ SleepPhases'
  BY <1>6 DEF ParkNative
<1>7. ASSUME NEW t \in Threads, NativeReturn(t) PROVE ControlHeld' /\ RequestOwned' /\ SleepPhases'
  BY <1>7 DEF NativeReturn
<1>8. ASSUME NEW t \in Threads, Resume(t) PROVE ControlHeld' /\ RequestOwned' /\ SleepPhases'
  BY <1>8 DEF Resume
<1>9. ASSUME NEW t \in Threads, Collect(t) PROVE ControlHeld' /\ RequestOwned' /\ SleepPhases'
  BY <1>9 DEF Collect
<1>10. ASSUME NEW t \in Threads, Rendezvous(t) PROVE ControlHeld' /\ RequestOwned' /\ SleepPhases'
  BY <1>10 DEF Rendezvous
<1>11. ASSUME NEW t \in Threads, FinishCollect(t) PROVE ControlHeld' /\ RequestOwned' /\ SleepPhases'
  BY <1>11 DEF FinishCollect
<1>12. ASSUME NEW t \in Threads, SpuriousWake(t) PROVE ControlHeld' /\ RequestOwned' /\ SleepPhases'
  BY <1>12 DEF SpuriousWake
<1>13. ASSUME NEW t \in Threads, NEW s \in Slots, Publish(t, s) PROVE ControlHeld' /\ RequestOwned' /\ SleepPhases'
  BY <1>13 DEF Publish
<1>14. ASSUME NEW s \in Slots, DropSlot(s) PROVE ControlHeld' /\ RequestOwned' /\ SleepPhases'
  BY <1>14 DEF DropSlot
<1>15. CASE UNCHANGED vars
  BY <1>15 DEF vars
<1> QED
  BY <1>1, <1>2, <1>3, <1>4, <1>5, <1>6, <1>7, <1>8,
     <1>9, <1>10, <1>11, <1>12, <1>13, <1>14, <1>15 DEF Next

\* A sleeper's condition cannot become true without a notification.
LEMMA SleepersStep == HeapInv /\ [Next]_vars => SleepersJustified'
<1> SUFFICES ASSUME HeapInv, [Next]_vars PROVE SleepersJustified'
  OBVIOUS
<1> USE DEF HeapInv, TypeOK, Phases, Registrations, Registered, Mutating,
        ControlHeld, RequestOwned, SleepPhases, AllParked, TakesControl, Awake, SleepersJustified
<1>1. ASSUME NEW t \in Threads, Attach(t) PROVE SleepersJustified'
  BY <1>1 DEF Attach
<1>2. ASSUME NEW t \in Threads, Enter(t) PROVE SleepersJustified'
  BY <1>2 DEF Enter
<1>3. ASSUME NEW t \in Threads, Detach(t) PROVE SleepersJustified'
  BY <1>3 DEF Detach
<1>4. ASSUME NEW t \in Threads, Checkpoint(t) PROVE SleepersJustified'
  BY <1>4 DEF Checkpoint
<1>5. ASSUME NEW t \in Threads, CheckpointPark(t) PROVE SleepersJustified'
  BY <1>5 DEF CheckpointPark
<1>6. ASSUME NEW t \in Threads, ParkNative(t) PROVE SleepersJustified'
  BY <1>6 DEF ParkNative
<1>7. ASSUME NEW t \in Threads, NativeReturn(t) PROVE SleepersJustified'
  BY <1>7 DEF NativeReturn
<1>8. ASSUME NEW t \in Threads, Resume(t) PROVE SleepersJustified'
  BY <1>8 DEF Resume
<1>9. ASSUME NEW t \in Threads, Collect(t) PROVE SleepersJustified'
  BY <1>9 DEF Collect
<1>10. ASSUME NEW t \in Threads, Rendezvous(t) PROVE SleepersJustified'
  BY <1>10 DEF Rendezvous
<1>11. ASSUME NEW t \in Threads, FinishCollect(t) PROVE SleepersJustified'
  BY <1>11 DEF FinishCollect
<1>12. ASSUME NEW t \in Threads, SpuriousWake(t) PROVE SleepersJustified'
  BY <1>12 DEF SpuriousWake
<1>13. ASSUME NEW t \in Threads, NEW s \in Slots, Publish(t, s) PROVE SleepersJustified'
  BY <1>13 DEF Publish
<1>14. ASSUME NEW s \in Slots, DropSlot(s) PROVE SleepersJustified'
  BY <1>14 DEF DropSlot
<1>15. CASE UNCHANGED vars
  BY <1>15 DEF vars
<1> QED
  BY <1>1, <1>2, <1>3, <1>4, <1>5, <1>6, <1>7, <1>8,
     <1>9, <1>10, <1>11, <1>12, <1>13, <1>14, <1>15 DEF Next

\* Nothing but a relocation outdates an address, and it rewrites every
\* registered root.
LEMMA FreshStep == HeapInv /\ [Next]_vars => RootsFresh'
<1> SUFFICES ASSUME HeapInv, [Next]_vars PROVE RootsFresh'
  OBVIOUS
<1> USE DEF HeapInv, TypeOK, Phases, Registrations, Registered, Mutating, RootsFresh, Roots
<1>1. ASSUME NEW t \in Threads, Attach(t) PROVE RootsFresh'
  BY <1>1 DEF Attach
<1>2. ASSUME NEW t \in Threads, Enter(t) PROVE RootsFresh'
  BY <1>2 DEF Enter
<1>3. ASSUME NEW t \in Threads, Detach(t) PROVE RootsFresh'
  BY <1>3 DEF Detach
<1>4. ASSUME NEW t \in Threads, Checkpoint(t) PROVE RootsFresh'
  BY <1>4 DEF Checkpoint
<1>5. ASSUME NEW t \in Threads, CheckpointPark(t) PROVE RootsFresh'
  BY <1>5 DEF CheckpointPark
<1>6. ASSUME NEW t \in Threads, ParkNative(t) PROVE RootsFresh'
  BY <1>6 DEF ParkNative
<1>7. ASSUME NEW t \in Threads, NativeReturn(t) PROVE RootsFresh'
  BY <1>7 DEF NativeReturn
<1>8. ASSUME NEW t \in Threads, Resume(t) PROVE RootsFresh'
  BY <1>8 DEF Resume
<1>9. ASSUME NEW t \in Threads, Collect(t) PROVE RootsFresh'
  BY <1>9 DEF Collect
<1>10. ASSUME NEW t \in Threads, Rendezvous(t) PROVE RootsFresh'
  BY <1>10 DEF Rendezvous
<1>11. ASSUME NEW t \in Threads, FinishCollect(t) PROVE RootsFresh'
  BY <1>11 DEF FinishCollect
<1>12. ASSUME NEW t \in Threads, SpuriousWake(t) PROVE RootsFresh'
  BY <1>12 DEF SpuriousWake
<1>13. ASSUME NEW t \in Threads, NEW s \in Slots, Publish(t, s) PROVE RootsFresh'
  BY <1>13 DEF Publish
<1>14. ASSUME NEW s \in Slots, DropSlot(s) PROVE RootsFresh'
  BY <1>14 DEF DropSlot
<1>15. CASE UNCHANGED vars
  BY <1>15 DEF vars
<1> QED
  BY <1>1, <1>2, <1>3, <1>4, <1>5, <1>6, <1>7, <1>8,
     <1>9, <1>10, <1>11, <1>12, <1>13, <1>14, <1>15 DEF Next

\* Whoever executes managed code is registered, so its roots are traced.
LEMMA RootsFreshSuffices == Registered /\ RootsFresh => NoStaleAddress
  BY DEF Registered, Mutating, RootsFresh, Roots, NoStaleAddress

\* A complete rendezvous leaves no thread in managed code: the table says
\* that nobody runs, and the table is right.
LEMMA RendezvousStopsTheWorld ==
    TypeOK /\ Registered /\ ControlHeld /\ RequestOwned => StopTheWorld
  BY DEF TypeOK, Phases, Registrations, Registered, Mutating, ControlHeld,
         RequestOwned, AllParked, StopTheWorld

\* HeapInv is an invariant of the mutator boundary.
THEOREM HeapInvariant == Spec => []HeapInv
<1>1. Init => HeapInv
  BY HeapAssumption
  DEF Init, HeapInv, TypeOK, Phases, Registrations, Registered, Mutating,
      ControlHeld, SleepPhases, RequestOwned, RootsFresh, Roots, StopTheWorld, NoStaleAddress,
      SleepersJustified
<1>2. HeapInv /\ [Next]_vars => HeapInv'
  <2> SUFFICES ASSUME HeapInv, [Next]_vars PROVE HeapInv'
    OBVIOUS
  <2>1. TypeOK'
    BY TypeStep DEF HeapInv
  <2>2. Registered'
    BY RegisteredStep
  <2>3. ControlHeld' /\ RequestOwned' /\ SleepPhases'
    BY OwnershipStep
  <2>4. SleepersJustified' /\ RootsFresh'
    BY SleepersStep, FreshStep
  <2>5. StopTheWorld' /\ NoStaleAddress'
    BY <2>1, <2>2, <2>3, <2>4, RendezvousStopsTheWorld, RootsFreshSuffices, PTL
  <2> QED
    BY <2>1, <2>2, <2>3, <2>4, <2>5 DEF HeapInv
<1> QED
  BY <1>1, <1>2, PTL DEF Spec

\* While one thread relocates the heap no other thread executes managed code
\* or relocates, however many threads attach and park.
THEOREM StopTheWorldHolds == Spec => []StopTheWorld
<1>1. HeapInv => StopTheWorld
  BY DEF HeapInv
<1> QED
  BY <1>1, HeapInvariant, PTL

\* No mutator and no published slot ever holds an address from before a
\* relocation.
THEOREM NoStaleAddressHolds == Spec => []NoStaleAddress
<1>1. HeapInv => NoStaleAddress
  BY DEF HeapInv
<1> QED
  BY <1>1, HeapInvariant, PTL

\* The rendezvous loses no wake-up: whoever sleeps still waits for something
\* that has not happened.
THEOREM NoLostWakeup == Spec => []SleepersJustified
<1>1. HeapInv => SleepersJustified
  BY DEF HeapInv
<1> QED
  BY <1>1, HeapInvariant, PTL
=============================================================================
