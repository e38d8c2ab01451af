---------------------------- MODULE SharedAccess ----------------------------
(***************************************************************************)
(* The lock under source mutexes, its acquisition and release, and the     *)
(* cooperative cancellation of a worker that is blocked in it:             *)
(* compiler/runtime/src/shared_access.rs (Access), mutex.rs (scoped guards)*)
(* and worker_control.rs (Control).                                        *)
(*                                                                         *)
(* An Access is a flag under a native mutex and a condition variable.  A   *)
(* critical section of the native mutex is one step; `asleep` holds the    *)
(* threads inside Condvar::wait, each on the condition variable of the     *)
(* lock it wants.  Control.requested is an atomic flag and Control.waiting *)
(* sits under a mutex of its own, so storing the one and reading the other *)
(* are separate steps of Control::cancel.                                  *)
(***************************************************************************)

CONSTANTS
    Threads,      \* native threads
    Cancellable,  \* those that run a worker activation with a Control
    Locks,        \* mutex identities
    None          \* Option::None

ASSUME AccessAssumption ==
    /\ Cancellable \subseteq Threads
    /\ None \notin Locks

VARIABLES
    held,       \* Access.held of every lock
    guards,     \* GUARDS: the locks each thread holds a guard of
    pc,         \* where each thread is
    want,       \* the lock its current operation is about
    asleep,     \* threads inside Condvar::wait
    unwinding,  \* threads running cleanup after a cancellation or a fault
    requested,  \* Control.requested
    waiting,    \* Control.waiting
    canceller,  \* progress of Control::cancel on each thread's control
    target      \* the access Control::cancel cloned

vars == <<held, guards, pc, want, asleep, unwinding, requested, waiting,
          canceller, target>>

cancelVars == <<requested, waiting, canceller, target>>

Phases == {"run", "acquiring", "publish", "looping", "won", "lost",
           "notifying", "exited"}

\* The thread has taken the lock and not yet given it back.
Holds(t, l) == l \in guards[t] \/ (pc[t] = "won" /\ want[t] = l)

\* worker_control::current: a thread without a Control, and one that runs
\* cleanup (which masks cancellation), acquires without being interrupted.
Interruptible(t) == t \in Cancellable \ unwinding

Requested(t) == Interruptible(t) /\ requested[t]

Init ==
    /\ held = [l \in Locks |-> FALSE]
    /\ guards = [t \in Threads |-> {}]
    /\ pc = [t \in Threads |-> "run"]
    /\ want = [t \in Threads |-> None]
    /\ asleep = {}
    /\ unwinding = {}
    /\ requested = [t \in Threads |-> FALSE]
    /\ waiting = [t \in Threads |-> None]
    /\ canceller = [t \in Threads |-> "idle"]
    /\ target = [t \in Threads |-> None]

\* cleanup::cancel or a language fault: the scoped guards are released next.
Unwind(t) ==
    /\ unwinding' = unwinding \cup {t}
    /\ pc' = [pc EXCEPT ![t] = "run"]
    /\ want' = [want EXCEPT ![t] = None]
-----------------------------------------------------------------------------
\* Mutant: a thread may lock again what it holds a guard of.
LockReentrant(t, l) ==
    /\ pc[t] = "run"
    /\ ~Requested(t)
    /\ pc' = [pc EXCEPT ![t] = "acquiring"]
    /\ want' = [want EXCEPT ![t] = l]
    /\ UNCHANGED <<held, guards, asleep, unwinding, cancelVars>>

\* loom_rt_mutex_lock up to the acquisition: the worker checkpoint, then the
\* test that this thread holds no guard of the same lock.
Lock(t, l) ==
    /\ pc[t] = "run"
    /\ \/ /\ Requested(t) \/ l \in guards[t]
          /\ Unwind(t)
       \/ /\ ~Requested(t) /\ l \notin guards[t]
          /\ pc' = [pc EXCEPT ![t] = "acquiring"]
          /\ want' = [want EXCEPT ![t] = l]
          /\ UNCHANGED unwinding
    /\ UNCHANGED <<held, guards, asleep, cancelVars>>

\* loom_rt_worker_checkpoint in generated code.
WorkerCheckpoint(t) ==
    /\ pc[t] = "run"
    /\ Requested(t)
    /\ Unwind(t)
    /\ UNCHANGED <<held, guards, asleep, cancelVars>>

\* GUARDS.push: the acquisition is complete and the caller runs again.
Guard(t) ==
    /\ guards' = [guards EXCEPT ![t] = @ \cup {want[t]}]
    /\ want' = [want EXCEPT ![t] = None]
    /\ pc' = [pc EXCEPT ![t] = "run"]

\* Somebody else may be inside the native mutex of this lock, which makes
\* try_lock fail although the lock is free.
Contended(t, l) ==
    \E u \in Threads \ {t} :
        \/ pc[u] \in {"acquiring", "looping"} /\ u \notin asleep /\ want[u] = l
        \/ canceller[u] = "waking" /\ target[u] = l

\* The fast path of acquire and acquire_cancellable.
TryAcquire(t) ==
    /\ pc[t] = "acquiring"
    /\ \/ /\ Requested(t)
          /\ Unwind(t)
          /\ UNCHANGED <<held, guards>>
       \/ /\ ~Requested(t) /\ ~held[want[t]]
          /\ held' = [held EXCEPT ![want[t]] = TRUE]
          /\ Guard(t)
          /\ UNCHANGED unwinding
       \/ /\ ~Requested(t) /\ (held[want[t]] \/ Contended(t, want[t]))
          /\ pc' = [pc EXCEPT ![t] = IF Interruptible(t) THEN "publish"
                                                         ELSE "looping"]
          /\ UNCHANGED <<held, guards, want, unwinding>>
    /\ UNCHANGED <<asleep, cancelVars>>

\* Mutant: the thread parks without publishing what it waits on.
WaitOnUnpublished(t) ==
    /\ pc[t] = "publish"
    /\ pc' = [pc EXCEPT ![t] = "looping"]
    /\ UNCHANGED <<held, guards, want, asleep, unwinding, cancelVars>>

\* control.wait_on(Some(access)), before the thread parks.
WaitOn(t) ==
    /\ pc[t] = "publish"
    /\ waiting' = [waiting EXCEPT ![t] = want[t]]
    /\ pc' = [pc EXCEPT ![t] = "looping"]
    /\ UNCHANGED <<held, guards, want, asleep, unwinding, requested,
                   canceller, target>>

\* Mutant: the cancellation is tested after the flag has been taken.
LoopTakesFirst(t) ==
    /\ pc[t] = "looping"
    /\ t \notin asleep
    /\ \/ /\ held[want[t]]
          /\ asleep' = asleep \cup {t}
          /\ UNCHANGED <<held, pc>>
       \/ /\ ~held[want[t]]
          /\ held' = [held EXCEPT ![want[t]] = TRUE]
          /\ pc' = [pc EXCEPT ![t] = IF Requested(t) THEN "lost" ELSE "won"]
          /\ UNCHANGED asleep
    /\ UNCHANGED <<guards, want, unwinding, cancelVars>>

\* One turn of the slow path's loop, under the native mutex: give up when
\* cancelled, sleep while the lock is held, otherwise take it.
Loop(t) ==
    /\ pc[t] = "looping"
    /\ t \notin asleep
    /\ \/ /\ Requested(t)
          /\ pc' = [pc EXCEPT ![t] = "lost"]
          /\ UNCHANGED <<held, guards, want, asleep>>
       \/ /\ ~Requested(t) /\ held[want[t]]
          /\ asleep' = asleep \cup {t}
          /\ UNCHANGED <<held, guards, want, pc>>
       \/ /\ ~Requested(t) /\ ~held[want[t]]
          /\ held' = [held EXCEPT ![want[t]] = TRUE]
          /\ IF Interruptible(t)
             THEN pc' = [pc EXCEPT ![t] = "won"] /\ UNCHANGED <<guards, want>>
             ELSE Guard(t)
          /\ UNCHANGED asleep
    /\ UNCHANGED <<unwinding, cancelVars>>

\* control.wait_on(None), and the end of worker_control::acquire.
ClearWait(t) ==
    /\ waiting' = [waiting EXCEPT ![t] = None]
    /\ \/ pc[t] = "won" /\ Guard(t) /\ UNCHANGED unwinding
       \/ pc[t] = "lost" /\ Unwind(t) /\ UNCHANGED guards
    /\ UNCHANGED <<held, asleep, requested, canceller, target>>

\* Mutant: the release forgets to notify.
UnlockSilent(t, l) ==
    /\ pc[t] = "run"
    /\ l \in guards[t]
    /\ guards' = [guards EXCEPT ![t] = @ \ {l}]
    /\ held' = [held EXCEPT ![l] = FALSE]
    /\ UNCHANGED <<pc, want, asleep, unwinding, cancelVars>>

\* loom_rt_mutex_unlock up to the store of Access::release: the guard goes
\* first, and the flag is cleared under the native mutex.
Unlock(t, l) ==
    /\ pc[t] = "run"
    /\ l \in guards[t]
    /\ guards' = [guards EXCEPT ![t] = @ \ {l}]
    /\ held' = [held EXCEPT ![l] = FALSE]
    /\ pc' = [pc EXCEPT ![t] = "notifying"]
    /\ want' = [want EXCEPT ![t] = l]
    /\ UNCHANGED <<asleep, unwinding, cancelVars>>

\* The end of Access::release: notify_one, outside the native mutex.
Notify(t) ==
    LET sleepers == {u \in asleep : want[u] = want[t]}
    IN  /\ pc[t] = "notifying"
        /\ \/ sleepers = {} /\ UNCHANGED asleep
           \/ \E u \in sleepers : asleep' = asleep \ {u}
        /\ pc' = [pc EXCEPT ![t] = "run"]
        /\ want' = [want EXCEPT ![t] = None]
        /\ UNCHANGED <<held, guards, unwinding, cancelVars>>

\* The activation ends when its guards are released.
Exit(t) ==
    /\ pc[t] = "run"
    /\ guards[t] = {}
    /\ pc' = [pc EXCEPT ![t] = "exited"]
    /\ unwinding' = unwinding \ {t}
    /\ UNCHANGED <<held, guards, want, asleep, cancelVars>>

\* The pool thread takes another job, with a fresh Control.
NewActivation(t) ==
    /\ pc[t] = "exited"
    /\ canceller[t] \in {"idle", "done"}
    /\ pc' = [pc EXCEPT ![t] = "run"]
    /\ requested' = [requested EXCEPT ![t] = FALSE]
    /\ canceller' = [canceller EXCEPT ![t] = "idle"]
    /\ UNCHANGED <<held, guards, want, asleep, unwinding, waiting, target>>
-----------------------------------------------------------------------------
\* Control::cancel, first step: the flag.
CancelStore(t) ==
    /\ t \in Cancellable
    /\ canceller[t] = "idle"
    /\ requested' = [requested EXCEPT ![t] = TRUE]
    /\ canceller' = [canceller EXCEPT ![t] = "stored"]
    /\ UNCHANGED <<held, guards, pc, want, asleep, unwinding, waiting, target>>

\* Second step: clone Control.waiting; without an access there is no wake.
CancelClone(t) ==
    /\ canceller[t] = "stored"
    /\ target' = [target EXCEPT ![t] = waiting[t]]
    /\ canceller' = [canceller EXCEPT
            ![t] = IF waiting[t] = None THEN "done" ELSE "waking"]
    /\ UNCHANGED <<held, guards, pc, want, asleep, unwinding, requested, waiting>>

\* Mutant: the wake notifies nobody.
CancelWakeLost(t) ==
    /\ canceller[t] = "waking"
    /\ canceller' = [canceller EXCEPT ![t] = "done"]
    /\ target' = [target EXCEPT ![t] = None]
    /\ UNCHANGED <<held, guards, pc, want, asleep, unwinding, requested, waiting>>

\* Third step, Access::wake: notify_all under the native mutex.
CancelWake(t) ==
    /\ canceller[t] = "waking"
    /\ asleep' = {u \in asleep : want[u] # target[t]}
    /\ canceller' = [canceller EXCEPT ![t] = "done"]
    /\ target' = [target EXCEPT ![t] = None]
    /\ UNCHANGED <<held, guards, pc, want, unwinding, requested, waiting>>

\* Condvar::wait may return without a notification.
SpuriousWake(t) ==
    /\ t \in asleep
    /\ asleep' = asleep \ {t}
    /\ UNCHANGED <<held, guards, pc, want, unwinding, cancelVars>>

Next ==
    \E t \in Threads :
        \/ \E l \in Locks : Lock(t, l) \/ Unlock(t, l)
        \/ WorkerCheckpoint(t)
        \/ TryAcquire(t)
        \/ WaitOn(t)
        \/ Loop(t)
        \/ ClearWait(t)
        \/ Notify(t)
        \/ Exit(t)
        \/ NewActivation(t)
        \/ CancelStore(t)
        \/ CancelClone(t)
        \/ CancelWake(t)
        \/ SpuriousWake(t)

\* Runnable threads and a started Control::cancel keep running.  Nothing says
\* that a holder ever releases, and no waiter is preferred to another.
Fairness ==
    \A t \in Threads :
        /\ WF_vars(TryAcquire(t))
        /\ WF_vars(WaitOn(t))
        /\ WF_vars(Loop(t))
        /\ WF_vars(ClearWait(t))
        /\ WF_vars(Notify(t))
        /\ WF_vars(CancelClone(t))
        /\ WF_vars(CancelWake(t))

Spec == Init /\ [][Next]_vars /\ Fairness
-----------------------------------------------------------------------------
TypeOK ==
    /\ held \in [Locks -> BOOLEAN]
    /\ guards \in [Threads -> SUBSET Locks]
    /\ pc \in [Threads -> Phases]
    /\ want \in [Threads -> Locks \cup {None}]
    /\ asleep \in SUBSET Threads
    /\ unwinding \in SUBSET Threads
    /\ requested \in [Threads -> BOOLEAN]
    /\ waiting \in [Threads -> Locks \cup {None}]
    /\ canceller \in [Threads -> {"idle", "stored", "waking", "done"}]
    /\ target \in [Threads -> Locks \cup {None}]

\* The flag is set exactly while one thread holds the lock: neither a
\* cancelled acquisition nor a release by unwinding leaves it behind.
MutualExclusion ==
    /\ \A t, u \in Threads, l \in Locks : Holds(t, l) /\ Holds(u, l) => t = u
    /\ \A l \in Locks : held[l] <=> \E t \in Threads : Holds(t, l)

\* A cancellation is never lost between a waiter's test and its wait: a
\* cancelled sleeper still has the notification of Control::cancel to come.
CancelDelivered ==
    \A t \in asleep : Requested(t) =>
        \/ canceller[t] = "stored" /\ waiting[t] = want[t]
        \/ canceller[t] = "waking" /\ target[t] = want[t]

\* What a thread wants follows from where it is; it asks only for a lock it
\* has no guard of, and only threads in the slow path sleep.
WantOK ==
    /\ \A t \in Threads : want[t] = None <=> pc[t] \in {"run", "exited"}
    /\ \A t \in Threads : pc[t] \in {"acquiring", "publish", "looping", "won", "lost"}
            => want[t] \notin guards[t]
    /\ \A t \in asleep : pc[t] = "looping"

\* Control.waiting is published exactly while an interruptible thread is in
\* the slow path.
WaitingOK ==
    \A t \in Threads :
        /\ pc[t] \in {"publish", "won", "lost"} => Interruptible(t)
        /\ pc[t] \in {"won", "lost"} \/ (pc[t] = "looping" /\ Interruptible(t))
                => waiting[t] = want[t]

\* The inductive invariant.
AccessInv == TypeOK /\ WantOK /\ WaitingOK /\ MutualExclusion /\ CancelDelivered

\* A free lock does not leave a thread asleep in front of it: a thread that
\* will re-test the lock, or a notification on its way, takes care of it.
FreeLockWakes ==
    \A t \in asleep : ~held[want[t]] =>
        \E u \in Threads :
            \/ pc[u] = "notifying" /\ want[u] = want[t]
            \/ pc[u] = "looping" /\ want[u] = want[t] /\ u \notin asleep
            \/ canceller[u] = "waking" /\ target[u] = want[t]

\* A cancelled worker leaves a blocked acquisition even if the holder of the
\* lock never releases it.
CancelInterrupts ==
    \A t \in Cancellable :
        (pc[t] = "looping" /\ Requested(t)) ~> (pc[t] # "looping")

\* The release of a guard lets a blocked acquisition proceed: no thread stays
\* blocked forever on a lock that from some point on nobody holds.
ReleaseUnblocks ==
    \A t \in Threads, l \in Locks :
        <>[]~held[l] => []<>~(pc[t] = "looping" /\ want[t] = l)
=============================================================================
