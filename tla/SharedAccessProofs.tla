------------------------- MODULE SharedAccessProofs -------------------------
(***************************************************************************)
(* Proofs about SharedAccess for any set of threads, locks and             *)
(* cancellable workers: the lock excludes, a cancellation of a blocked     *)
(* worker is always delivered.                                             *)
(***************************************************************************)
EXTENDS SharedAccess, TLAPS

\* Every action keeps the variables in their types; a guard is of a lock
\* because a thread that completes an acquisition wants one.
LEMMA TypeStep == TypeOK /\ WantOK /\ [Next]_vars => TypeOK'
<1> SUFFICES ASSUME TypeOK, WantOK, [Next]_vars PROVE TypeOK'
  OBVIOUS
<1> USE AccessAssumption DEF TypeOK, WantOK, Phases, cancelVars
<1>1. ASSUME NEW t \in Threads, NEW l \in Locks, Lock(t, l) PROVE TypeOK'
  BY <1>1 DEF Lock, Unwind
<1>2. ASSUME NEW t \in Threads, NEW l \in Locks, Unlock(t, l) PROVE TypeOK'
  BY <1>2 DEF Unlock
<1>3. ASSUME NEW t \in Threads, WorkerCheckpoint(t) PROVE TypeOK'
  BY <1>3 DEF WorkerCheckpoint, Unwind
<1>4. ASSUME NEW t \in Threads, TryAcquire(t) PROVE TypeOK'
  <2>1. want[t] \in Locks
    BY <1>4 DEF TryAcquire
  <2>2. guards[t] \cup {want[t]} \in SUBSET Locks
    BY <2>1
  <2>3. guards' \in [Threads -> SUBSET Locks]
    BY <1>4, <2>2 DEF TryAcquire, Unwind, Guard
  <2>4. held' \in [Locks -> BOOLEAN]
    BY <1>4 DEF TryAcquire
  <2>5. /\ pc' \in [Threads -> Phases]
        /\ want' \in [Threads -> Locks \cup {None}]
        /\ unwinding' \in SUBSET Threads
    BY <1>4 DEF TryAcquire, Unwind, Guard
  <2> QED
    BY <1>4, <2>3, <2>4, <2>5 DEF TryAcquire
<1>5. ASSUME NEW t \in Threads, WaitOn(t) PROVE TypeOK'
  BY <1>5 DEF WaitOn
<1>6. ASSUME NEW t \in Threads, Loop(t) PROVE TypeOK'
  <2>1. want[t] \in Locks
    BY <1>6 DEF Loop
  <2>2. guards[t] \cup {want[t]} \in SUBSET Locks
    BY <2>1
  <2>3. guards' \in [Threads -> SUBSET Locks]
    BY <1>6, <2>2 DEF Loop, Guard
  <2>4. held' \in [Locks -> BOOLEAN]
    BY <1>6 DEF Loop
  <2>5. /\ pc' \in [Threads -> Phases]
        /\ want' \in [Threads -> Locks \cup {None}]
        /\ asleep' \in SUBSET Threads
    BY <1>6 DEF Loop, Guard
  <2> QED
    BY <1>6, <2>3, <2>4, <2>5 DEF Loop
<1>7. ASSUME NEW t \in Threads, ClearWait(t) PROVE TypeOK'
  BY <1>7 DEF ClearWait, Guard, Unwind
<1>8. ASSUME NEW t \in Threads, Notify(t) PROVE TypeOK'
  BY <1>8 DEF Notify
<1>9. ASSUME NEW t \in Threads, Exit(t) PROVE TypeOK'
  BY <1>9 DEF Exit
<1>10. ASSUME NEW t \in Threads, NewActivation(t) PROVE TypeOK'
  BY <1>10 DEF NewActivation
<1>11. ASSUME NEW t \in Threads, CancelStore(t) PROVE TypeOK'
  BY <1>11 DEF CancelStore
<1>12. ASSUME NEW t \in Threads, CancelClone(t) PROVE TypeOK'
  BY <1>12 DEF CancelClone
<1>13. ASSUME NEW t \in Threads, CancelWake(t) PROVE TypeOK'
  BY <1>13 DEF CancelWake
<1>14. ASSUME NEW t \in Threads, SpuriousWake(t) PROVE TypeOK'
  BY <1>14 DEF SpuriousWake
<1>15. CASE UNCHANGED vars
  BY <1>15 DEF vars, cancelVars
<1> QED
  BY <1>1, <1>2, <1>3, <1>4, <1>5, <1>6, <1>7, <1>8,
     <1>9, <1>10, <1>11, <1>12, <1>13, <1>14, <1>15 DEF Next

\* A thread's wish follows its position.
LEMMA WantStep == AccessInv /\ [Next]_vars => WantOK'
<1> SUFFICES ASSUME AccessInv, [Next]_vars PROVE WantOK'
  OBVIOUS
<1> USE AccessAssumption DEF AccessInv, TypeOK, Phases, WantOK, cancelVars
<1>1. ASSUME NEW t \in Threads, NEW l \in Locks, Lock(t, l) PROVE WantOK'
  BY <1>1 DEF Lock, Unwind
<1>2. ASSUME NEW t \in Threads, NEW l \in Locks, Unlock(t, l) PROVE WantOK'
  BY <1>2 DEF Unlock
<1>3. ASSUME NEW t \in Threads, WorkerCheckpoint(t) PROVE WantOK'
  BY <1>3 DEF WorkerCheckpoint, Unwind
<1>4. ASSUME NEW t \in Threads, TryAcquire(t) PROVE WantOK'
  BY <1>4 DEF TryAcquire, Unwind, Guard
<1>5. ASSUME NEW t \in Threads, WaitOn(t) PROVE WantOK'
  BY <1>5 DEF WaitOn
<1>6. ASSUME NEW t \in Threads, Loop(t) PROVE WantOK'
  BY <1>6 DEF Loop, Guard
<1>7. ASSUME NEW t \in Threads, ClearWait(t) PROVE WantOK'
  BY <1>7 DEF ClearWait, Guard, Unwind
<1>8. ASSUME NEW t \in Threads, Notify(t) PROVE WantOK'
  BY <1>8 DEF Notify
<1>9. ASSUME NEW t \in Threads, Exit(t) PROVE WantOK'
  BY <1>9 DEF Exit
<1>10. ASSUME NEW t \in Threads, NewActivation(t) PROVE WantOK'
  BY <1>10 DEF NewActivation
<1>11. ASSUME NEW t \in Threads, CancelStore(t) PROVE WantOK'
  BY <1>11 DEF CancelStore
<1>12. ASSUME NEW t \in Threads, CancelClone(t) PROVE WantOK'
  BY <1>12 DEF CancelClone
<1>13. ASSUME NEW t \in Threads, CancelWake(t) PROVE WantOK'
  BY <1>13 DEF CancelWake
<1>14. ASSUME NEW t \in Threads, SpuriousWake(t) PROVE WantOK'
  BY <1>14 DEF SpuriousWake
<1>15. CASE UNCHANGED vars
  BY <1>15 DEF vars, cancelVars
<1> QED
  BY <1>1, <1>2, <1>3, <1>4, <1>5, <1>6, <1>7, <1>8,
     <1>9, <1>10, <1>11, <1>12, <1>13, <1>14, <1>15 DEF Next

\* Control.waiting follows the slow path.
LEMMA WaitingStep == AccessInv /\ [Next]_vars => WaitingOK'
<1> SUFFICES ASSUME AccessInv, [Next]_vars PROVE WaitingOK'
  OBVIOUS
<1> USE AccessAssumption DEF AccessInv, TypeOK, Phases, WantOK, WaitingOK, Interruptible,
        Requested, cancelVars
<1>1. ASSUME NEW t \in Threads, NEW l \in Locks, Lock(t, l) PROVE WaitingOK'
  BY <1>1 DEF Lock, Unwind
<1>2. ASSUME NEW t \in Threads, NEW l \in Locks, Unlock(t, l) PROVE WaitingOK'
  BY <1>2 DEF Unlock
<1>3. ASSUME NEW t \in Threads, WorkerCheckpoint(t) PROVE WaitingOK'
  BY <1>3 DEF WorkerCheckpoint, Unwind
<1>4. ASSUME NEW t \in Threads, TryAcquire(t) PROVE WaitingOK'
  BY <1>4 DEF TryAcquire, Unwind, Guard
<1>5. ASSUME NEW t \in Threads, WaitOn(t) PROVE WaitingOK'
  BY <1>5 DEF WaitOn
<1>6. ASSUME NEW t \in Threads, Loop(t) PROVE WaitingOK'
  BY <1>6 DEF Loop, Guard
<1>7. ASSUME NEW t \in Threads, ClearWait(t) PROVE WaitingOK'
  BY <1>7 DEF ClearWait, Guard, Unwind
<1>8. ASSUME NEW t \in Threads, Notify(t) PROVE WaitingOK'
  BY <1>8 DEF Notify
<1>9. ASSUME NEW t \in Threads, Exit(t) PROVE WaitingOK'
  BY <1>9 DEF Exit
<1>10. ASSUME NEW t \in Threads, NewActivation(t) PROVE WaitingOK'
  BY <1>10 DEF NewActivation
<1>11. ASSUME NEW t \in Threads, CancelStore(t) PROVE WaitingOK'
  BY <1>11 DEF CancelStore
<1>12. ASSUME NEW t \in Threads, CancelClone(t) PROVE WaitingOK'
  BY <1>12 DEF CancelClone
<1>13. ASSUME NEW t \in Threads, CancelWake(t) PROVE WaitingOK'
  BY <1>13 DEF CancelWake
<1>14. ASSUME NEW t \in Threads, SpuriousWake(t) PROVE WaitingOK'
  BY <1>14 DEF SpuriousWake
<1>15. CASE UNCHANGED vars
  BY <1>15 DEF vars, cancelVars
<1> QED
  BY <1>1, <1>2, <1>3, <1>4, <1>5, <1>6, <1>7, <1>8,
     <1>9, <1>10, <1>11, <1>12, <1>13, <1>14, <1>15 DEF Next

\* The flag and its holder change together.
LEMMA ExclusionStep == AccessInv /\ [Next]_vars => MutualExclusion'
<1> SUFFICES ASSUME AccessInv, [Next]_vars PROVE MutualExclusion'
  OBVIOUS
<1> USE AccessAssumption DEF AccessInv, TypeOK, Phases, WantOK, MutualExclusion, Holds,
        cancelVars
<1>1. ASSUME NEW t \in Threads, NEW l \in Locks, Lock(t, l) PROVE MutualExclusion'
  BY <1>1 DEF Lock, Unwind
<1>2. ASSUME NEW t \in Threads, NEW l \in Locks, Unlock(t, l) PROVE MutualExclusion'
  BY <1>2 DEF Unlock
<1>3. ASSUME NEW t \in Threads, WorkerCheckpoint(t) PROVE MutualExclusion'
  BY <1>3 DEF WorkerCheckpoint, Unwind
<1>4. ASSUME NEW t \in Threads, TryAcquire(t) PROVE MutualExclusion'
  BY <1>4, SMTT(30) DEF TryAcquire, Unwind, Guard
<1>5. ASSUME NEW t \in Threads, WaitOn(t) PROVE MutualExclusion'
  BY <1>5 DEF WaitOn
<1>6. ASSUME NEW t \in Threads, Loop(t) PROVE MutualExclusion'
  BY <1>6, SMTT(30) DEF Loop, Guard
<1>7. ASSUME NEW t \in Threads, ClearWait(t) PROVE MutualExclusion'
  <2>1. \A u \in Threads, l \in Locks : Holds(u, l)' <=> Holds(u, l)
    <3>1. CASE pc[t] = "won" /\ Guard(t)
      BY <1>7, <3>1 DEF ClearWait, Guard
    <3>2. CASE pc[t] = "lost" /\ Unwind(t) /\ UNCHANGED guards
      BY <1>7, <3>2 DEF ClearWait, Unwind
    <3> QED
      BY <1>7, <3>1, <3>2 DEF ClearWait
  <2>2. UNCHANGED held
    BY <1>7 DEF ClearWait
  <2> HIDE DEF Holds
  <2> QED
    BY <2>1, <2>2
<1>8. ASSUME NEW t \in Threads, Notify(t) PROVE MutualExclusion'
  BY <1>8 DEF Notify
<1>9. ASSUME NEW t \in Threads, Exit(t) PROVE MutualExclusion'
  BY <1>9 DEF Exit
<1>10. ASSUME NEW t \in Threads, NewActivation(t) PROVE MutualExclusion'
  BY <1>10 DEF NewActivation
<1>11. ASSUME NEW t \in Threads, CancelStore(t) PROVE MutualExclusion'
  BY <1>11 DEF CancelStore
<1>12. ASSUME NEW t \in Threads, CancelClone(t) PROVE MutualExclusion'
  BY <1>12 DEF CancelClone
<1>13. ASSUME NEW t \in Threads, CancelWake(t) PROVE MutualExclusion'
  BY <1>13 DEF CancelWake
<1>14. ASSUME NEW t \in Threads, SpuriousWake(t) PROVE MutualExclusion'
  BY <1>14 DEF SpuriousWake
<1>15. CASE UNCHANGED vars
  BY <1>15 DEF vars, cancelVars
<1> QED
  BY <1>1, <1>2, <1>3, <1>4, <1>5, <1>6, <1>7, <1>8,
     <1>9, <1>10, <1>11, <1>12, <1>13, <1>14, <1>15 DEF Next

\* A waiter cannot fall asleep past its own cancellation, and the canceller
\* cannot finish without waking it.
LEMMA DeliveryStep == AccessInv /\ [Next]_vars => CancelDelivered'
<1> SUFFICES ASSUME AccessInv, [Next]_vars PROVE CancelDelivered'
  OBVIOUS
<1> USE AccessAssumption DEF AccessInv, TypeOK, Phases, WantOK, WaitingOK, CancelDelivered,
        Interruptible, Requested, cancelVars
<1>1. ASSUME NEW t \in Threads, NEW l \in Locks, Lock(t, l) PROVE CancelDelivered'
  BY <1>1 DEF Lock, Unwind
<1>2. ASSUME NEW t \in Threads, NEW l \in Locks, Unlock(t, l) PROVE CancelDelivered'
  BY <1>2 DEF Unlock
<1>3. ASSUME NEW t \in Threads, WorkerCheckpoint(t) PROVE CancelDelivered'
  BY <1>3 DEF WorkerCheckpoint, Unwind
<1>4. ASSUME NEW t \in Threads, TryAcquire(t) PROVE CancelDelivered'
  BY <1>4 DEF TryAcquire, Unwind, Guard
<1>5. ASSUME NEW t \in Threads, WaitOn(t) PROVE CancelDelivered'
  BY <1>5 DEF WaitOn
<1>6. ASSUME NEW t \in Threads, Loop(t) PROVE CancelDelivered'
  BY <1>6 DEF Loop, Guard
<1>7. ASSUME NEW t \in Threads, ClearWait(t) PROVE CancelDelivered'
  BY <1>7 DEF ClearWait, Guard, Unwind
<1>8. ASSUME NEW t \in Threads, Notify(t) PROVE CancelDelivered'
  BY <1>8 DEF Notify
<1>9. ASSUME NEW t \in Threads, Exit(t) PROVE CancelDelivered'
  BY <1>9 DEF Exit
<1>10. ASSUME NEW t \in Threads, NewActivation(t) PROVE CancelDelivered'
  BY <1>10 DEF NewActivation
<1>11. ASSUME NEW t \in Threads, CancelStore(t) PROVE CancelDelivered'
  BY <1>11 DEF CancelStore
<1>12. ASSUME NEW t \in Threads, CancelClone(t) PROVE CancelDelivered'
  BY <1>12 DEF CancelClone
<1>13. ASSUME NEW t \in Threads, CancelWake(t) PROVE CancelDelivered'
  BY <1>13 DEF CancelWake
<1>14. ASSUME NEW t \in Threads, SpuriousWake(t) PROVE CancelDelivered'
  BY <1>14 DEF SpuriousWake
<1>15. CASE UNCHANGED vars
  BY <1>15 DEF vars, cancelVars
<1> QED
  BY <1>1, <1>2, <1>3, <1>4, <1>5, <1>6, <1>7, <1>8,
     <1>9, <1>10, <1>11, <1>12, <1>13, <1>14, <1>15 DEF Next

\* AccessInv is an invariant of the lock and its cancellation.
THEOREM AccessInvariant == Spec => []AccessInv
<1>1. Init => AccessInv
  BY AccessAssumption
  DEF Init, AccessInv, TypeOK, Phases, WantOK, WaitingOK, MutualExclusion,
      Holds, CancelDelivered
<1>2. AccessInv /\ [Next]_vars => AccessInv'
  BY TypeStep, WantStep, WaitingStep, ExclusionStep, DeliveryStep
  DEF AccessInv
<1> QED
  BY <1>1, <1>2, PTL DEF Spec

\* At most one thread holds a lock, and the flag says exactly whether one
\* does, however acquisitions are cancelled, faulted or unwound.
THEOREM MutualExclusionHolds == Spec => []MutualExclusion
<1>1. AccessInv => MutualExclusion
  BY DEF AccessInv
<1> QED
  BY <1>1, AccessInvariant, PTL

\* No cancelled worker sleeps in a mutex without a wake-up of its canceller
\* still to come.
THEOREM CancelDeliveredHolds == Spec => []CancelDelivered
<1>1. AccessInv => CancelDelivered
  BY DEF AccessInv
<1> QED
  BY <1>1, AccessInvariant, PTL

\* Without cancellation a release always reaches a waiter: the lock is held,
\* or a notification or a woken thread stands between it and every sleeper.
LEMMA ReleaseStep ==
    ASSUME Cancellable = {}
    PROVE  AccessInv /\ FreeLockWakes /\ [Next]_vars => FreeLockWakes'
<1> SUFFICES ASSUME AccessInv, FreeLockWakes, [Next]_vars PROVE FreeLockWakes'
  OBVIOUS
<1> USE AccessAssumption DEF AccessInv, TypeOK, Phases, WantOK, FreeLockWakes,
        Interruptible, Requested, cancelVars
<1>1. ASSUME NEW t \in Threads, NEW l \in Locks, Lock(t, l) PROVE FreeLockWakes'
  BY <1>1 DEF Lock, Unwind
<1>2. ASSUME NEW t \in Threads, NEW l \in Locks, Unlock(t, l) PROVE FreeLockWakes'
  BY <1>2 DEF Unlock
<1>3. ASSUME NEW t \in Threads, WorkerCheckpoint(t) PROVE FreeLockWakes'
  BY <1>3 DEF WorkerCheckpoint, Unwind
<1>4. ASSUME NEW t \in Threads, TryAcquire(t) PROVE FreeLockWakes'
  BY <1>4 DEF TryAcquire, Unwind, Guard
<1>5. ASSUME NEW t \in Threads, WaitOn(t) PROVE FreeLockWakes'
  BY <1>5 DEF WaitOn
<1>6. ASSUME NEW t \in Threads, Loop(t) PROVE FreeLockWakes'
  BY <1>6 DEF Loop, Guard
<1>7. ASSUME NEW t \in Threads, ClearWait(t) PROVE FreeLockWakes'
  BY <1>7 DEF ClearWait, Guard, Unwind
<1>8. ASSUME NEW t \in Threads, Notify(t) PROVE FreeLockWakes'
  BY <1>8 DEF Notify
<1>9. ASSUME NEW t \in Threads, Exit(t) PROVE FreeLockWakes'
  BY <1>9 DEF Exit
<1>10. ASSUME NEW t \in Threads, NewActivation(t) PROVE FreeLockWakes'
  BY <1>10 DEF NewActivation
<1>11. ASSUME NEW t \in Threads, CancelStore(t) PROVE FreeLockWakes'
  BY <1>11 DEF CancelStore
<1>12. ASSUME NEW t \in Threads, CancelClone(t) PROVE FreeLockWakes'
  BY <1>12 DEF CancelClone
<1>13. ASSUME NEW t \in Threads, CancelWake(t) PROVE FreeLockWakes'
  BY <1>13 DEF CancelWake
<1>14. ASSUME NEW t \in Threads, SpuriousWake(t) PROVE FreeLockWakes'
  BY <1>14 DEF SpuriousWake
<1>15. CASE UNCHANGED vars
  BY <1>15 DEF vars, cancelVars
<1> QED
  BY <1>1, <1>2, <1>3, <1>4, <1>5, <1>6, <1>7, <1>8,
     <1>9, <1>10, <1>11, <1>12, <1>13, <1>14, <1>15 DEF Next

\* Without cancellable workers no wake-up of the lock is lost.  (With them
\* one is: the run lost_wakeup shows how.)
THEOREM PlainReleaseWakes ==
    ASSUME Cancellable = {}
    PROVE  Spec => []FreeLockWakes
<1>1. Init => FreeLockWakes
  BY DEF Init, FreeLockWakes
<1>2. AccessInv /\ FreeLockWakes /\ [Next]_vars => FreeLockWakes'
  BY ReleaseStep
<1> QED
  BY <1>1, <1>2, AccessInvariant, PTL DEF Spec
=============================================================================
