------------------------------- MODULE Waits -------------------------------
(***************************************************************************)
(* What files, processes, sockets and TLS streams share: a task's external *)
(* wait (tasks.rs) over the reactor as Registry describes it.  A wait      *)
(* holds one registration and, for a socket, a lease that keeps its handle *)
(* open.  One owner thread runs all tasks; only completions and readiness  *)
(* come from elsewhere.                                                    *)
(***************************************************************************)
EXTENDS Naturals, Sequences, FiniteSets

CONSTANTS Tasks,
          MaxWaits      \* registrations made

ASSUME WaitsAssumption == MaxWaits \in Nat

VARIABLES issued,       \* sources registered so far; a registration is an index of it
          live,         \* registrations that have not fired or been cancelled
          queue,        \* notifications the owner has not consumed
          wait,         \* Task.external
          done          \* tasks that ended, were cancelled or faulted

waitVars == <<issued, live, queue, wait, done>>

None   == 0
NoWait == [reg |-> None, ready |-> FALSE, error |-> FALSE, lease |-> None]

\* A source is a handle and the direction waited for; a completion has neither.
Completion == [handle |-> None, direction |-> "none"]

WaitsInit == /\ issued = <<>>
             /\ live = {}
             /\ queue = <<>>
             /\ wait = [t \in Tasks |-> NoWait]
             /\ done = {}

\* A task the owner may resume outside any external wait.
Idle(t)   == t \notin done /\ wait[t].reg = None
Parked(t) == wait[t].reg # None /\ ~wait[t].ready
Woken(t)  == wait[t].reg # None /\ wait[t].ready

Room == Len(issued) < MaxWaits

\* The end of wait_source: a new registration becomes the task's wait.
Park(t, source, lease) ==
    /\ Room
    /\ issued' = Append(issued, source)
    /\ live' = live \cup {Len(issued) + 1}
    /\ wait' = [wait EXCEPT ![t] = [reg |-> Len(issued) + 1, ready |-> FALSE, error |-> FALSE,
                                    lease |-> lease]]

\* The notifications a set of live registrations makes, in some order.
Notices(regs, error) ==
    LET n == Cardinality(regs)
    IN  {[i \in 1..n |-> [reg |-> s[i], error |-> error]] :
            s \in {f \in [1..n -> regs] : \A i, j \in 1..n : i # j => f[i] # f[j]}}

\* Registrations fire: notify_completion, readiness, revoke_readiness.
FireAll(regs, error) ==
    /\ live' = live \ regs
    /\ \E s \in Notices(regs \cap live, error) : queue' = queue \o s

\* cancel_wait: the registration ends, and with the wait its lease.
CancelWaits(ts) ==
    /\ live' = live \ {wait[t].reg : t \in {x \in ts : ~wait[x].ready}}
    /\ wait' = [t \in Tasks |-> IF t \in ts THEN NoWait ELSE wait[t]]

\* The task a notification is for, if it still waits for it.
Wakes(n) == {t \in Tasks : Parked(t) /\ wait[t].reg = n.reg}

\* One turn of poll.
Poll == /\ queue # <<>>
        /\ queue' = Tail(queue)
        /\ wait' = [t \in Tasks |-> IF t \in Wakes(Head(queue))
                                    THEN [wait[t] EXCEPT !.ready = TRUE, !.error = Head(queue).error]
                                    ELSE wait[t]]
        /\ UNCHANGED <<issued, live, done>>

\* A wait that was delivered is consumed by the resumed task.
Consume(t) == wait' = [wait EXCEPT ![t] = NoWait]
=============================================================================
