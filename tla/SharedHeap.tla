----------------------------- MODULE SharedHeap -----------------------------
(***************************************************************************)
(* The cooperative mutator boundary of compiler/runtime/src/shared_heap.rs *)
(* (moving, stop-the-world collection over one heap shared by several      *)
(* native threads).                                                        *)
(*                                                                         *)
(* A native thread attaches as a participant, runs managed code, parks at  *)
(* safe points and detaches.  A collecting participant publishes its own   *)
(* roots, requests a rendezvous and, once every participant is parked,     *)
(* relocates the heap while it holds the control mutex.                    *)
(*                                                                         *)
(* Every critical section of the control mutex is one step, except the     *)
(* one that holds it across the relocation; `control` names that holder.   *)
(* The condition variable `changed` is the set `asleep`: waiting adds a    *)
(* thread, notify_all empties it, and a thread that left it still has to   *)
(* take the mutex again before it re-tests its condition.                  *)
(*                                                                         *)
(* Addresses are abstracted to whether they are up to date: `fresh` holds  *)
(* the threads whose managed snapshots, and the slots whose value, name    *)
(* the current location of their object.  A relocation leaves exactly the  *)
(* roots it rewrote in `fresh`.                                            *)
(***************************************************************************)

CONSTANTS
    Threads,   \* native threads: the owner of the scope and its workers
    Slots,     \* identities of SharedSlot records
    NoThread   \* the control mutex is free

ASSUME HeapAssumption ==
    /\ NoThread \notin Threads
    /\ Threads \cap Slots = {}

VARIABLES
    pc,            \* where each native thread is
    participants,  \* Control.participants: absent, None or Some(roots)
    requested,     \* SharedHeap.requested
    control,       \* holder of the control mutex across a relocation
    asleep,        \* threads waiting on SharedHeap.changed
    slots,         \* Control.slots: registered traced slots
    fresh          \* threads and slots whose addresses are up to date

vars == <<pc, participants, requested, control, asleep, slots, fresh>>

Phases == {"detached", "attaching", "entered", "running", "checkpoint",
           "native", "resuming", "rendezvous", "collecting"}

\* The registration recorded for a thread in each phase.
Registrations == {"absent", "running", "parked"}

\* A thread in one of these phases executes managed code or may return to it
\* without looking at the request again.
Mutating(t) == pc[t] \in {"entered", "running", "checkpoint"}

Init ==
    /\ pc = [t \in Threads |-> "detached"]
    /\ participants = [t \in Threads |-> "absent"]
    /\ requested = FALSE
    /\ control = NoThread
    /\ asleep = {}
    /\ slots = {}
    /\ fresh = Threads \cup Slots

Awake(t) == t \notin asleep

\* lock(&self.control): free, and the thread is not inside Condvar::wait.
TakesControl(t) == control = NoThread /\ Awake(t)
-----------------------------------------------------------------------------
\* SharedHeap::attach, up to the callback.  The thread registers unless a
\* collection is pending.
Attach(t) ==
    /\ pc[t] \in {"detached", "attaching"}
    /\ TakesControl(t)
    /\ \/ /\ requested
          /\ pc' = [pc EXCEPT ![t] = "attaching"]
          /\ asleep' = asleep \cup {t}
          /\ UNCHANGED <<participants, fresh>>
       \/ /\ ~requested
          /\ pc' = [pc EXCEPT ![t] = "entered"]
          /\ participants' = [participants EXCEPT ![t] = "running"]
          /\ fresh' = fresh \cup {t}     \* no managed snapshot yet
          /\ UNCHANGED asleep
    /\ UNCHANGED <<requested, control, slots>>

\* The attached callback begins.  A job entered through SharedSlot::enter
\* reads its slot now, after registration and without the control mutex; the
\* owner of the scope and loom_rt_shared_enter start without a managed value.
Enter(t) ==
    /\ pc[t] = "entered"
    /\ pc' = [pc EXCEPT ![t] = "running"]
    /\ \/ UNCHANGED fresh
       \/ \E s \in slots :
            fresh' = IF s \in fresh THEN fresh ELSE fresh \ {t}
    /\ UNCHANGED <<participants, requested, control, asleep, slots>>

\* Mutant: leaving does not notify the collector.
DetachQuiet(t) ==
    /\ pc[t] = "running"
    /\ TakesControl(t)
    /\ pc' = [pc EXCEPT ![t] = "detached"]
    /\ participants' = [participants EXCEPT ![t] = "absent"]
    /\ UNCHANGED <<requested, control, asleep, slots, fresh>>

\* Drop for Participant: removing the registration is also a rendezvous.
Detach(t) ==
    /\ pc[t] = "running"
    /\ TakesControl(t)
    /\ pc' = [pc EXCEPT ![t] = "detached"]
    /\ participants' = [participants EXCEPT ![t] = "absent"]
    /\ asleep' = {}
    /\ UNCHANGED <<requested, control, slots, fresh>>

\* loom_rt_shared_checkpoint, first half: the flag is read without the mutex.
Checkpoint(t) ==
    /\ pc[t] = "running"
    /\ requested
    /\ pc' = [pc EXCEPT ![t] = "checkpoint"]
    /\ UNCHANGED <<participants, requested, control, asleep, slots, fresh>>

\* Second half: park, then resume in the same critical section.  The request
\* may have been served meanwhile, then the thread never gives up the mutex.
CheckpointPark(t) ==
    /\ pc[t] = "checkpoint"
    /\ TakesControl(t)
    /\ \/ /\ requested
          /\ pc' = [pc EXCEPT ![t] = "resuming"]
          /\ participants' = [participants EXCEPT ![t] = "parked"]
          /\ asleep' = {t}
       \/ /\ ~requested
          /\ pc' = [pc EXCEPT ![t] = "running"]
          /\ asleep' = {}
          /\ UNCHANGED participants
    /\ UNCHANGED <<requested, control, slots, fresh>>

\* park_native: publish the roots, release the mutex, block in native code.
ParkNative(t) ==
    /\ pc[t] = "running"
    /\ TakesControl(t)
    /\ pc' = [pc EXCEPT ![t] = "native"]
    /\ participants' = [participants EXCEPT ![t] = "parked"]
    /\ asleep' = {}
    /\ UNCHANGED <<requested, control, slots, fresh>>

\* Mutant: the native call returns to managed code without resume().
NativeReturnRuns(t) ==
    /\ pc[t] = "native"
    /\ pc' = [pc EXCEPT ![t] = "running"]
    /\ UNCHANGED <<participants, requested, control, asleep, slots, fresh>>

\* The native call of park_native returns; the thread heads for resume().
NativeReturn(t) ==
    /\ pc[t] = "native"
    /\ pc' = [pc EXCEPT ![t] = "resuming"]
    /\ UNCHANGED <<participants, requested, control, asleep, slots, fresh>>

\* resume: wait while a collection is pending, then run.
Resume(t) ==
    /\ pc[t] = "resuming"
    /\ TakesControl(t)
    /\ \/ /\ requested
          /\ asleep' = asleep \cup {t}
          /\ UNCHANGED <<pc, participants>>
       \/ /\ ~requested
          /\ pc' = [pc EXCEPT ![t] = "running"]
          /\ participants' = [participants EXCEPT ![t] = "running"]
          /\ UNCHANGED asleep
    /\ UNCHANGED <<requested, control, slots, fresh>>
-----------------------------------------------------------------------------
\* The rendezvous test of collect(): nobody else is registered as running.
AllParked(reg) == \A u \in Threads : reg[u] # "running"

\* collect(): park, and either leave the work to the pending collector or
\* become the collector and look for running participants.
Collect(t) ==
    /\ pc[t] = "running"
    /\ TakesControl(t)
    /\ participants' = [participants EXCEPT ![t] = "parked"]
    /\ \/ /\ requested
          /\ pc' = [pc EXCEPT ![t] = "resuming"]
          /\ asleep' = {t}
          /\ UNCHANGED <<requested, control>>
       \/ /\ ~requested
          /\ requested' = TRUE
          /\ \/ /\ AllParked(participants')
                /\ pc' = [pc EXCEPT ![t] = "collecting"]
                /\ control' = t
                /\ asleep' = {}
             \/ /\ ~AllParked(participants')
                /\ pc' = [pc EXCEPT ![t] = "rendezvous"]
                /\ asleep' = {t}
                /\ UNCHANGED control
    /\ UNCHANGED <<slots, fresh>>

\* Mutant: the rendezvous is not re-tested after a wakeup.
RendezvousOnce(t) ==
    /\ pc[t] = "rendezvous"
    /\ TakesControl(t)
    /\ pc' = [pc EXCEPT ![t] = "collecting"]
    /\ control' = t
    /\ UNCHANGED <<participants, requested, asleep, slots, fresh>>

\* The collector was notified and re-tests the rendezvous.
Rendezvous(t) ==
    /\ pc[t] = "rendezvous"
    /\ TakesControl(t)
    /\ \/ /\ AllParked(participants)
          /\ pc' = [pc EXCEPT ![t] = "collecting"]
          /\ control' = t
          /\ UNCHANGED asleep
       \/ /\ ~AllParked(participants)
          /\ asleep' = asleep \cup {t}
          /\ UNCHANGED <<pc, control>>
    /\ UNCHANGED <<participants, requested, slots, fresh>>

\* Mutant: trace_slots is forgotten.
RootsWithoutSlots == {u \in Threads : participants[u] # "absent"}

\* The roots handed to the relocation: every registered participant's chain
\* and every registered slot.
Roots == {u \in Threads : participants[u] # "absent"} \cup slots

\* Mutants: the request is withdrawn without a notification, and with
\* notify_one in place of notify_all.
FinishCollectWaking(t, woken) ==
    /\ pc[t] = "collecting"
    /\ control = t
    /\ fresh' = Roots
    /\ requested' = FALSE
    /\ participants' = [participants EXCEPT ![t] = "running"]
    /\ pc' = [pc EXCEPT ![t] = "running"]
    /\ asleep' = asleep \ woken
    /\ control' = NoThread
    /\ UNCHANGED slots

FinishCollectQuiet(t) == FinishCollectWaking(t, {})

FinishCollectOne(t) ==
    \/ asleep = {} /\ FinishCollectWaking(t, {})
    \/ \E u \in asleep : FinishCollectWaking(t, {u})

\* run(&roots) and the end of collect(): objects move, the traced roots are
\* rewritten, the request is withdrawn and everyone is notified.
FinishCollect(t) ==
    /\ pc[t] = "collecting"
    /\ control = t
    /\ fresh' = Roots
    /\ requested' = FALSE
    /\ participants' = [participants EXCEPT ![t] = "running"]
    /\ pc' = [pc EXCEPT ![t] = "running"]
    /\ asleep' = {}
    /\ control' = NoThread
    /\ UNCHANGED slots
-----------------------------------------------------------------------------
\* publish: a running participant registers a slot holding one of its values.
Publish(t, s) ==
    /\ pc[t] = "running"
    /\ TakesControl(t)
    /\ s \notin slots
    /\ slots' = slots \cup {s}
    /\ fresh' = IF t \in fresh THEN fresh \cup {s} ELSE fresh \ {s}
    /\ UNCHANGED <<pc, participants, requested, control, asleep>>

\* Drop for SharedSlot: the last native owner, attached or not, unregisters.
DropSlot(s) ==
    /\ s \in slots
    /\ control = NoThread
    /\ slots' = slots \ {s}
    /\ UNCHANGED <<pc, participants, requested, control, asleep, fresh>>

\* Condvar::wait may return without a notification.
SpuriousWake(t) ==
    /\ t \in asleep
    /\ asleep' = asleep \ {t}
    /\ UNCHANGED <<pc, participants, requested, control, slots, fresh>>

Next ==
    \/ \E t \in Threads :
        \/ Attach(t)
        \/ Enter(t)
        \/ Detach(t)
        \/ Checkpoint(t)
        \/ CheckpointPark(t)
        \/ ParkNative(t)
        \/ NativeReturn(t)
        \/ Resume(t)
        \/ Collect(t)
        \/ Rendezvous(t)
        \/ FinishCollect(t)
        \/ SpuriousWake(t)
        \/ \E s \in Slots : Publish(t, s)
    \/ \E s \in Slots : DropSlot(s)

\* The operating system schedules every runnable thread, generated code
\* reaches a checkpoint while it runs, and a relocation terminates.  Nothing
\* promises that a native call returns, that a running thread collects or
\* leaves, or that a mutex is handed over in any order.
Fairness ==
    \A t \in Threads :
        /\ WF_vars(Attach(t) /\ pc[t] = "attaching")
        /\ WF_vars(Enter(t))
        /\ WF_vars(Checkpoint(t))
        /\ WF_vars(CheckpointPark(t))
        /\ WF_vars(Resume(t))
        /\ WF_vars(Rendezvous(t))
        /\ WF_vars(FinishCollect(t))

Spec == Init /\ [][Next]_vars /\ Fairness
-----------------------------------------------------------------------------
TypeOK ==
    /\ pc \in [Threads -> Phases]
    /\ participants \in [Threads -> Registrations]
    /\ requested \in BOOLEAN
    /\ control \in Threads \cup {NoThread}
    /\ asleep \in SUBSET Threads
    /\ slots \in SUBSET Slots
    /\ fresh \in SUBSET (Threads \cup Slots)

\* Relocation is exclusive: while one thread relocates the heap, no thread
\* executes managed code and no second thread relocates.  This is what makes
\* the unsynchronised root rewriting of collect() sound.
StopTheWorld ==
    \A t \in Threads : pc[t] = "collecting" =>
        \A u \in Threads \ {t} : ~Mutating(u) /\ pc[u] # "collecting"

\* A thread that executes managed code holds no address from before a
\* relocation, including one it read from a published slot.
NoStaleAddress ==
    /\ \A t \in Threads : Mutating(t) => t \in fresh
    /\ slots \subseteq fresh

\* No lost wake-up: a thread sleeps on `changed` only while the condition it
\* waits for is still false, so the notification it needs is still to come.
SleepersJustified ==
    \A t \in asleep :
        /\ pc[t] \in {"attaching", "resuming"} => requested
        /\ pc[t] = "rendezvous" => ~AllParked(participants)

\* The registration table agrees with where each thread is: a thread that
\* executes managed code is registered as running, one that published its
\* roots as parked.  The collector reads only this table.
Registered ==
    \A t \in Threads :
        /\ participants[t] = "absent" <=> pc[t] \in {"detached", "attaching"}
        /\ participants[t] = "running" <=> Mutating(t)

\* The control mutex is held exactly by a relocating thread, whose rendezvous
\* is complete.
ControlHeld ==
    /\ control # NoThread => pc[control] = "collecting"
    /\ \A t \in Threads :
        pc[t] = "collecting" => control = t /\ AllParked(participants)

\* Only the threads inside Condvar::wait sleep.
SleepPhases ==
    \A t \in asleep : pc[t] \in {"attaching", "resuming", "rendezvous"}

\* Parked roots stay up to date as well: what a relocation rewrites is what
\* the parked threads use again when they resume.
RootsFresh == Roots \subseteq fresh

\* A pending request always has exactly one collector that will withdraw it.
RequestOwned ==
    /\ requested => \E t \in Threads : pc[t] \in {"rendezvous", "collecting"}
    /\ \A t, u \in Threads :
        /\ pc[t] \in {"rendezvous", "collecting"}
        /\ pc[u] \in {"rendezvous", "collecting"}
        => t = u /\ requested

\* The inductive invariant: the safety properties above with the facts about
\* the registration table and the control mutex they rest on.
HeapInv ==
    /\ TypeOK
    /\ Registered
    /\ ControlHeld
    /\ SleepPhases
    /\ RequestOwned
    /\ RootsFresh
    /\ StopTheWorld
    /\ NoStaleAddress
    /\ SleepersJustified

\* Every requested collection is eventually finished, whatever the other
\* threads do meanwhile (attach, block in native code, collect, detach).
CollectionCompletes == requested ~> ~requested

\* When collections cease, every parked mutator resumes and every waiting
\* attachment enters: no notification was lost on the way.
WaitersReleased ==
    \A t \in Threads :
        <>[]~requested => []<>(pc[t] \notin {"attaching", "resuming"})
=============================================================================
