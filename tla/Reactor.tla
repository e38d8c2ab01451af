------------------------------ MODULE Reactor ------------------------------
(***************************************************************************)
(* The wait reactor (wait.rs, and wait_abi.rs which exports it): timers,   *)
(* native readiness and completions as one-shot registrations over slots   *)
(* that are reused under a new generation.  One owner waits and consumes;  *)
(* any thread registers, cancels and completes.  Every call holds the core *)
(* lock from its first read to its last write, so it is one action, except *)
(* that the waiter sleeps in the poller without the lock and that a        *)
(* completion wakes the poller after the lock is released.                 *)
(*                                                                         *)
(* The poller (the polling crate over epoll) is external: one interest per *)
(* handle, disarmed by the event it delivers; a wakeup flag; and calls     *)
(* that may fail, at most MaxFailures of them.  An event carries the key   *)
(* that was set when the poller took it.                                   *)
(***************************************************************************)
EXTENDS Naturals, Sequences, FiniteSets, Functions

CONSTANTS Handles,      \* native descriptors lent to the reactor
          NoHandle,     \* the handle field of a source that has none
          MaxIssued,    \* registrations made
          MaxKeys,      \* polling identities used
          MaxNow,       \* last instant of the clock
          MaxFailures   \* failing poller calls

ASSUME ReactorAssumption == /\ NoHandle \notin Handles
                            /\ MaxIssued \in Nat \ {0}
                            /\ MaxKeys \in Nat
                            /\ MaxNow \in Nat
                            /\ MaxFailures \in Nat

VARIABLES
    slots,     \* Core.slots: generation and active source of each
    free,      \* Core.free, a stack
    timers,    \* Core.timers: <<deadline, key>> to registration
    handles,   \* Core.handles: native handle to its two directions
    pollKeys,  \* Core.poll_keys: polling identity to native handle
    lastKey,   \* Core.next_poll_key
    ready,     \* Core.ready
    native,    \* the poller's interest in each handle
    woken,     \* the poller's wakeup flag
    waking,    \* completions committed whose poller wakeup is outstanding
    pc,        \* where the waiting owner is in wait()
    deadline,  \* the deadline of wait()
    until,     \* when the poller's own timeout ends
    batch,     \* events the poller returned, not yet applied
    now, failures, answer

core   == <<slots, free, timers, handles, pollKeys, lastKey, ready>>
poller == <<native, woken, waking, failures>>
waiter == <<pc, deadline, until, batch>>
vars   == <<core, poller, waiter, now, answer>>

Directions == {"read", "write"}
Never      == MaxNow + 1               \* no deadline
NoReg      == <<0, 0>>                 \* Option::None
NoAnswer   == <<"none">>

Source(kind, interests, handle, due) ==
    [kind |-> kind, interests |-> interests, handle |-> handle, due |-> due]
NoSource    == Source("none", {}, NoHandle, 0)
Sources     == {Source("timer", {}, NoHandle, d) : d \in 1..MaxNow}
                   \cup {Source("readiness", i, h, 0) :
                            i \in (SUBSET Directions) \ {{}}, h \in Handles}
                   \cup {Source("completion", {}, NoHandle, 0)}

Unwatched == [key |-> 0, dirs |-> {}, armed |-> FALSE]

Init == /\ slots = <<>> /\ free = <<>> /\ timers = <<>>
        /\ handles = <<>> /\ pollKeys = <<>> /\ lastKey = 0 /\ ready = <<>>
        /\ native = [h \in Handles |-> Unwatched]
        /\ woken = FALSE /\ waking = 0 /\ failures = 0
        /\ pc = "idle" /\ deadline = Never /\ until = Never /\ batch = {}
        /\ now = 0 /\ answer = NoAnswer

-----------------------------------------------------------------------------
(* Slots and registrations.  A registration is <<key, generation>>.        *)

\* Mutant: any registration of the slot is taken for the current one.
ActiveBySlot(r) == slots[r[1]].active

\* The source behind a registration, unless its slot has moved on.
Active(r) ==
    IF slots[r[1]].generation = r[2] THEN slots[r[1]].active ELSE NoSource

Issued == {r \in (DOMAIN slots) \X (1..MaxIssued) : r[2] <= slots[r[1]].generation}
Live   == {r \in Issued : slots[r[1]].generation = r[2] /\ slots[r[1]].active # NoSource}

\* The identity the next insertion gives out: the last slot freed, or a new one.
NextReg == IF free = <<>> THEN <<Len(slots) + 1, 1>>
           ELSE <<free[Len(free)], slots[free[Len(free)]].generation + 1>>

Fill(r, source) ==
    LET slot == [generation |-> r[2], active |-> source]
    IN  IF r[1] > Len(slots) THEN Append(slots, slot) ELSE [slots EXCEPT ![r[1]] = slot]

\* insert
Insert(r, source) ==
    /\ slots' = Fill(r, source)
    /\ free' = IF free = <<>> THEN free ELSE SubSeq(free, 1, Len(free) - 1)

\* insert followed by remove: the identity is spent and the slot is free.
InsertRemove(r) ==
    /\ slots' = Fill(r, NoSource)
    /\ free' = IF free = <<>> THEN <<r[1]>> ELSE free

\* remove, for each registration of a sequence.
Retire(rs) ==
    /\ slots' = [k \in DOMAIN slots |->
                    IF \E i \in DOMAIN rs : rs[i][1] = k
                    THEN [slots[k] EXCEPT !.active = NoSource] ELSE slots[k]]
    /\ free' = free \o [i \in DOMAIN rs |-> rs[i][1]]

\* finish, for each registration of a sequence.
FinishAll(rs) == Retire(rs) /\ ready' = ready \o rs

-----------------------------------------------------------------------------
(* Native interest.                                                        *)

Without(f, x) == Restrict(f, DOMAIN f \ {x})
With(f, x, y) == [z \in DOMAIN f \cup {x} |-> IF z = x THEN y ELSE f[z]]

Dirs(read, write) == {d \in Directions : IF d = "read" THEN read # NoReg ELSE write # NoReg}

Direction(h, d) == IF h \notin DOMAIN handles THEN NoReg
                   ELSE IF d = "read" THEN handles[h].read ELSE handles[h].write

Keys(h) == IF h \in DOMAIN handles THEN Without(pollKeys, handles[h].key) ELSE pollKeys

\* update_handle succeeds with at least one direction left: a fresh key, so that
\* an event of the previous interest no longer finds the handle.
Interest(h, read, write) ==
    LET k == lastKey + 1
    IN  /\ lastKey' = k
        /\ native' = [native EXCEPT ![h] = [key |-> k, dirs |-> Dirs(read, write), armed |-> TRUE]]
        /\ handles' = With(handles, h, [key |-> k, read |-> read, write |-> write])
        /\ pollKeys' = With(Keys(h), k, h)

\* update_handle succeeds with no direction left.
NoInterest(h) ==
    /\ native' = [native EXCEPT ![h] = Unwatched]
    /\ handles' = Without(handles, h)
    /\ pollKeys' = Keys(h)
    /\ UNCHANGED lastKey

Update(h, read, write) ==
    /\ IF Dirs(read, write) = {} THEN NoInterest(h)
       ELSE Interest(h, read, write)
    /\ UNCHANGED failures

\* Mutant: the interest is removed and not put back.
RejectedDropped(h, read, write) ==
    /\ failures < MaxFailures
    /\ failures' = failures + 1
    /\ IF Dirs(read, write) = {} THEN UNCHANGED lastKey
       ELSE lastKey' = lastKey + 1
    /\ native' = [native EXCEPT ![h] = Unwatched]
    /\ UNCHANGED <<handles, pollKeys>>

\* update_handle fails: a rejected first interest was never there; a changed one
\* is removed and the previous interest is added again under its own key.  If that
\* fails too the process ends (fatal), so no behaviour goes on from there.
Rejected(h, read, write) ==
    /\ failures < MaxFailures
    /\ failures' = failures + 1
    /\ IF Dirs(read, write) = {} THEN UNCHANGED lastKey
       ELSE lastKey' = lastKey + 1
    /\ IF h \in DOMAIN handles
       THEN native' = [native EXCEPT ![h] = [key   |-> handles[h].key,
                                            dirs  |-> Dirs(handles[h].read, handles[h].write),
                                            armed |-> TRUE]]
       ELSE UNCHANGED native
    /\ UNCHANGED <<handles, pollKeys>>

-----------------------------------------------------------------------------
(* Calls of any thread.  The waiter holds the core lock while it applies   *)
(* a batch of events.                                                      *)

Unlocked == pc # "dispatch"

\* Polling identities left once the events in hand are applied.
Room == lastKey + Cardinality(batch) < MaxKeys

\* Poller::notify fails before anything is published.
NotifyFails == /\ failures < MaxFailures
               /\ failures' = failures + 1
               /\ answer' = NoAnswer
               /\ UNCHANGED <<core, native, woken, waking, waiter, now>>

\* Mutant: the sleeping waiter is not woken.
NotifyForgotten == UNCHANGED woken
Notify == woken' = TRUE

Free(source) == \A d \in source.interests : Direction(source.handle, d) = NoReg

RegisterWait(source) ==
    LET r == NextReg
        h == source.handle
        read  == IF "read" \in source.interests THEN r ELSE Direction(h, "read")
        write == IF "write" \in source.interests THEN r ELSE Direction(h, "write")
    IN  /\ Unlocked
        /\ Cardinality(Issued) < MaxIssued /\ Room
        /\ Free(source)
        /\ Notify
        /\ \/ /\ source.kind = "readiness"
              /\ Update(h, read, write)
              /\ Insert(r, source)
              /\ UNCHANGED timers
           \/ /\ source.kind = "readiness"
              /\ Rejected(h, read, write)
              /\ InsertRemove(r)
              /\ UNCHANGED timers
           \/ /\ source.kind = "timer"
              /\ Insert(r, source)
              /\ timers' = With(timers, <<source.due, r[1]>>, r)
              /\ UNCHANGED <<handles, pollKeys, lastKey, native, failures>>
           \/ /\ source.kind = "completion"
              /\ Insert(r, source)
              /\ UNCHANGED <<timers, handles, pollKeys, lastKey, native, failures>>
        /\ answer' = NoAnswer
        /\ UNCHANGED <<ready, waking, waiter, now>>

\* A caller may hold a registration that ended long ago.
CancelStale(r) ==
    /\ Unlocked
    /\ Active(r) = NoSource
    /\ answer' = <<"cancel", r, FALSE>>
    /\ UNCHANGED <<core, poller, waiter, now>>

Cancel(r) ==
    LET source == Active(r)
        h      == source.handle
        read   == IF Direction(h, "read") = r THEN NoReg ELSE Direction(h, "read")
        write  == IF Direction(h, "write") = r THEN NoReg ELSE Direction(h, "write")
    IN  /\ Unlocked
        /\ source # NoSource /\ Room
        /\ Notify
        /\ \/ /\ source.kind = "readiness"
              /\ Update(h, read, write)
              /\ UNCHANGED timers
           \/ /\ source.kind = "timer"
              /\ timers' = Without(timers, <<source.due, r[1]>>)
              /\ UNCHANGED <<handles, pollKeys, lastKey, native, failures>>
           \/ /\ source.kind = "completion"
              /\ UNCHANGED <<timers, handles, pollKeys, lastKey, native, failures>>
        /\ Retire(<<r>>)
        /\ answer' = <<"cancel", r, TRUE>>
        /\ UNCHANGED <<ready, waking, waiter, now>>

\* The interest could not be changed: the registration stays.
CancelFails(r) ==
    LET h     == Active(r).handle
        read  == IF Direction(h, "read") = r THEN NoReg ELSE Direction(h, "read")
        write == IF Direction(h, "write") = r THEN NoReg ELSE Direction(h, "write")
    IN  /\ Unlocked
        /\ Active(r).kind = "readiness" /\ Room
        /\ Notify
        /\ Rejected(h, read, write)
        /\ answer' = NoAnswer
        /\ UNCHANGED <<slots, free, timers, ready, waking, waiter, now>>

\* revoke_readiness: both directions of a handle end in an error notification.
Revoke(h) ==
    LET read  == Direction(h, "read")
        write == Direction(h, "write")
    IN  /\ Unlocked
        /\ h \in DOMAIN handles
        /\ Notify
        /\ NoInterest(h)
        /\ FinishAll(IF read = NoReg THEN <<write>>
                     ELSE IF write \in {NoReg, read} THEN <<read>>
                     ELSE <<read, write>>)
        /\ answer' = NoAnswer
        /\ UNCHANGED <<timers, failures, waking, waiter, now>>

\* The interest could not be removed: both registrations stay.
RevokeFails(h) ==
    /\ Unlocked
    /\ h \in DOMAIN handles
    /\ Notify
    /\ Rejected(h, NoReg, NoReg)
    /\ answer' = NoAnswer
    /\ UNCHANGED <<slots, free, timers, ready, waking, waiter, now>>

CompleteStale(r) ==
    /\ Unlocked
    /\ Active(r) = NoSource
    /\ answer' = <<"complete", r, FALSE>>
    /\ UNCHANGED <<core, poller, waiter, now>>

\* notify_completion up to the release of the lock.
Complete(r) ==
    /\ Unlocked
    /\ Active(r).kind = "completion"
    /\ FinishAll(<<r>>)
    /\ waking' = waking + 1
    /\ answer' = <<"complete", r, TRUE>>
    /\ UNCHANGED <<timers, handles, pollKeys, lastKey, native, woken, failures, waiter, now>>

\* ... and its wakeup, whose failure the callers turn into fatal().
Wakeup ==
    /\ waking > 0
    /\ waking' = waking - 1
    /\ Notify
    /\ answer' = NoAnswer
    /\ UNCHANGED <<core, native, failures, waiter, now>>

-----------------------------------------------------------------------------
(* The waiting owner.                                                      *)

\* Mutant: a timer is due only after its deadline.
DueLate == {t \in DOMAIN timers : t[1] < now}

Due == {t \in DOMAIN timers : t[1] <= now}

\* Keys of the timer map in its order.
Before(s, t) == s[1] < t[1] \/ (s[1] = t[1] /\ s[2] < t[2])
Ordered(ts) == CHOOSE s \in [1..Cardinality(ts) -> ts] :
                   \A i, j \in DOMAIN s : i < j => Before(s[i], s[j])

\* fire_timers
FireTimers ==
    /\ FinishAll([i \in 1..Cardinality(Due) |-> timers[Ordered(Due)[i]]])
    /\ timers' = Restrict(timers, DOMAIN timers \ Due)

\* The first block of wait(): timers first, then what is already queued.
Wait(timeout) ==
    /\ pc = "idle"
    /\ FireTimers
    /\ IF ready' # <<>> THEN UNCHANGED <<pc, deadline>>
       ELSE /\ pc' = "loop"
            /\ deadline' = IF timeout = Never \/ now + timeout > MaxNow THEN Never
                           ELSE now + timeout
    /\ answer' = NoAnswer
    /\ UNCHANGED <<handles, pollKeys, lastKey, poller, until, batch, now>>

Earliest(ts) == IF ts = {} THEN Never
                ELSE CHOOSE d \in {t[1] : t \in ts} : \A t \in ts : d <= t[1]

\* The head of the loop computes how long the poller may sleep.
Sleep ==
    /\ pc = "loop"
    /\ FireTimers
    /\ IF ready' # <<>>
       THEN pc' = "idle" /\ deadline' = Never /\ UNCHANGED until
       ELSE /\ pc' = "poll" /\ UNCHANGED deadline
            /\ until' = LET e == Earliest(DOMAIN timers')
                        IN  IF e < deadline THEN e ELSE deadline
    /\ answer' = NoAnswer
    /\ UNCHANGED <<handles, pollKeys, lastKey, poller, batch, now>>

\* Poller::wait returns: woken, timed out or with events of armed interests,
\* each of which it disarms.
PollReturn(hs, flags) ==
    /\ pc = "poll"
    /\ hs \subseteq {h \in Handles : native[h].armed}
    /\ lastKey + Cardinality(hs) <= MaxKeys
    /\ hs # {} \/ woken \/ until <= now
    /\ pc' = "returned"
    /\ woken' = FALSE
    /\ native' = [h \in Handles |-> IF h \in hs THEN [native[h] EXCEPT !.armed = FALSE]
                                    ELSE native[h]]
    /\ batch' = {[key |-> native[h].key, flags |-> flags[h]] : h \in hs}
    /\ until' = Never
    /\ answer' = NoAnswer
    /\ UNCHANGED <<core, waking, failures, deadline, now>>

\* Poller::wait fails, and with it wait().
PollFails ==
    /\ pc = "poll"
    /\ failures < MaxFailures
    /\ failures' = failures + 1
    /\ pc' = "failed"
    /\ until' = Never
    /\ answer' = NoAnswer
    /\ UNCHANGED <<core, native, woken, waking, deadline, batch, now>>

\* Event e ends what direction d of h waits for: the kernel also reports errors
\* and hang-ups nobody asked for.
Hit(e, h, d) == Direction(h, d) # NoReg /\ e.flags \cap {d, "error"} # {}

\* What direction d still waits for: a registration for both completes once.
Keep(e, h, d) == IF \E x \in Directions : Hit(e, h, x) /\ Direction(h, x) = Direction(h, d)
                 THEN NoReg ELSE Direction(h, d)

Ended(e, h) ==
    LET read  == Direction(h, "read")
        write == Direction(h, "write")
    IN  (IF Hit(e, h, "read") THEN <<read>> ELSE <<>>)
            \o (IF Hit(e, h, "write") /\ ~(Hit(e, h, "read") /\ read = write) THEN <<write>> ELSE <<>>)

\* readiness: apply one event.  The lock is taken with the first of the batch;
\* the native interest is changed before the notification is queued.
Dispatch(e) ==
    LET h == pollKeys[e.key]
    IN  /\ pc \in {"returned", "dispatch"}
        /\ e \in batch
        /\ batch' = batch \ {e}
        /\ \/ /\ e.key \notin DOMAIN pollKeys          \* an older interest
              /\ pc' = "dispatch"
              /\ UNCHANGED <<core, native, failures>>
           \/ /\ e.key \in DOMAIN pollKeys
              /\ pc' = "dispatch"
              /\ Update(h, Keep(e, h, "read"), Keep(e, h, "write"))
              /\ FinishAll(Ended(e, h))
              /\ UNCHANGED timers
           \/ /\ e.key \in DOMAIN pollKeys             \* wait() returns the error
              /\ pc' = "failed"
              /\ Rejected(h, Keep(e, h, "read"), Keep(e, h, "write"))
              /\ UNCHANGED <<slots, free, timers, ready>>
        /\ answer' = NoAnswer
        /\ UNCHANGED <<woken, waking, deadline, until, now>>

\* The batch is applied: wait() returns or goes round its loop.
Settle ==
    /\ pc \in {"returned", "dispatch"}
    /\ batch = {}
    /\ FireTimers
    /\ IF ready' # <<>> \/ deadline <= now
       THEN pc' = "idle" /\ deadline' = Never
       ELSE pc' = "loop" /\ UNCHANGED deadline
    /\ answer' = NoAnswer
    /\ UNCHANGED <<handles, pollKeys, lastKey, poller, until, batch, now>>

PopReady ==
    /\ pc = "idle"
    /\ ready # <<>>
    /\ ready' = Tail(ready)
    /\ answer' = NoAnswer
    /\ UNCHANGED <<slots, free, timers, handles, pollKeys, lastKey, poller, waiter, now>>

Tick == /\ now < MaxNow
        /\ now' = now + 1
        /\ answer' = NoAnswer
        /\ UNCHANGED <<core, poller, waiter>>

-----------------------------------------------------------------------------
\* What the poller may report: an error also stands for a hang-up.
Flags == {{"read"}, {"write"}, {"read", "write"}, {"error"}}

Next == \/ \E s \in Sources : RegisterWait(s)
        \/ \E r \in Issued : \/ CancelStale(r) \/ Cancel(r) \/ CancelFails(r)
                              \/ CompleteStale(r) \/ Complete(r)
        \/ \E h \in Handles : Revoke(h) \/ RevokeFails(h)
        \/ (Unlocked /\ NotifyFails) \/ Wakeup
        \/ \E t \in {0, Never} : Wait(t)
        \/ Sleep \/ PollFails
        \/ \E hs \in SUBSET Handles : \E flags \in [hs -> Flags] : PollReturn(hs, flags)
        \/ \E e \in batch : Dispatch(e)
        \/ Settle \/ PopReady \/ Tick

\* The owner keeps calling wait() and consumes what it returns, the poller
\* returns when it must, and a committed completion reaches its wakeup.
Fairness == /\ WF_vars(\E t \in {0, Never} : Wait(t))
            /\ WF_vars(Sleep)
            /\ WF_vars(PollReturn({}, <<>>))
            /\ WF_vars(\E e \in batch : Dispatch(e))
            /\ WF_vars(Settle)
            /\ WF_vars(PopReady)
            /\ WF_vars(Wakeup)

Spec == Init /\ [][Next]_vars /\ Fairness

-----------------------------------------------------------------------------
(* Properties.                                                             *)

\* The reactor implements the registry of one-shot waits: no registration fires
\* twice, fires after a successful cancellation or is ended by a call that names
\* an earlier user of its slot.
Abstract == INSTANCE Registry
                WITH Reg <- (1..MaxIssued) \X (1..MaxIssued),
                     issued <- Issued, live <- Live, queue <- ready, answer <- answer
Implements == Abstract!Spec

\* The poller watches exactly the handles with a live registration, under the key
\* and for the directions the core has for them, and the interest is armed or its
\* event is in hand: no wait is forgotten and no handle that its owner may already
\* have closed is still watched.
InterestOK ==
    pc # "failed" =>
        \A h \in Handles :
            IF h \in DOMAIN handles
            THEN /\ native[h].key = handles[h].key
                 /\ native[h].dirs = Dirs(handles[h].read, handles[h].write)
                 /\ native[h].armed \/ \E e \in batch : e.key = handles[h].key
                 /\ \A d \in native[h].dirs :
                        Direction(h, d) \in Live /\ Active(Direction(h, d)).handle = h
            ELSE /\ native[h] = Unwatched
                 /\ \A r \in Live : Active(r).handle # h

\* A waiter asleep in the poller with no wakeup on its way has nothing to consume
\* and wakes no later than the first timer.
NoOversleep ==
    pc = "poll" /\ ~woken /\ waking = 0 =>
        /\ ready = <<>>
        /\ \A t \in DOMAIN timers : until <= t[1]

\* A timer whose deadline has passed fires, unless it is cancelled or the reactor fails.
DueFires ==
    \A k \in 1..MaxIssued :
        (\E t \in DOMAIN timers : t[2] = k /\ t[1] <= now)
            ~> ((~\E t \in DOMAIN timers : t[2] = k /\ t[1] <= now) \/ pc = "failed")
=============================================================================
