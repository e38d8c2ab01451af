------------------------------ MODULE Sockets ------------------------------
(***************************************************************************)
(* Owner-local sockets (tasks_socket.rs).  The table and every wait on a   *)
(* socket own a share of it; its native handle is closed with the last     *)
(* share, and the kernel then gives the same number to the next socket.    *)
(* The reactor only borrows the number.  A task tries an operation, waits  *)
(* when it would block and tries again; close is refused while a wait      *)
(* holds a share, abort takes the token away and wakes the waiters.        *)
(*                                                                         *)
(* The kernel (external) is a set of bits for each socket: what it can do  *)
(* without blocking.                                                       *)
(***************************************************************************)
EXTENDS Waits

CONSTANTS MaxSockets,      \* sockets made, each with a token of its own
          MaxArrivals      \* times the kernel makes a socket ready

ASSUME SocketsAssumption == IsFiniteSet(Tasks) /\ MaxSockets \in Nat

VARIABLES sockets,         \* Sockets.handles: the tokens in the table
          made,            \* Sockets.next
          socket,          \* kind, connection and native handle of each socket
          bits,            \* kernel: directions in which each socket is ready
          arrivals,
          wanted           \* the token and direction a task's operation is about

socketVars == <<sockets, made, socket, bits, arrivals, wanted>>

Directions == {"read", "write"}
NoSocket   == [kind |-> "none", connection |-> "none", handle |-> None]
Nothing    == [token |-> None, direction |-> "none"]

SocketsInit ==
    /\ sockets = {} /\ made = 0
    /\ socket = [s \in 1..MaxSockets |-> NoSocket]
    /\ bits = [s \in 1..MaxSockets |-> {}] /\ arrivals = 0
    /\ wanted = [t \in Tasks |-> Nothing]

Leases(s) == {t \in Tasks : wait[t].lease = s}
Shares(s) == Cardinality(Leases(s)) + (IF s \in sockets THEN 1 ELSE 0)   \* Rc::strong_count
Alive(s)  == s \in sockets \/ Leases(s) # {}

\* The kernel's lowest free handle (external).
FreshHandle == CHOOSE h \in 1..MaxSockets :
                   /\ \A s \in 1..MaxSockets : Alive(s) => socket[s].handle # h
                   /\ \A g \in 1..(h - 1) : \E s \in 1..MaxSockets : Alive(s) /\ socket[s].handle = g

Insert(kind, connection) ==
    /\ made < MaxSockets
    /\ made' = made + 1
    /\ sockets' = sockets \cup {made + 1}
    /\ socket' = [socket EXCEPT ![made + 1] =
                     [kind |-> kind, connection |-> connection, handle |-> FreshHandle]]

Rest(t) == Idle(t) /\ wanted[t] = Nothing

\* listen, bind_datagram, connect_datagram, and connect, which may find the peer at once.
Make(t, kind, connection) ==
    /\ Rest(t)
    /\ \/ kind \in {"listener", "datagram"} /\ connection = "none"
       \/ kind = "stream" /\ connection \in {"pending", "connected"}
    /\ Insert(kind, connection)
    /\ UNCHANGED <<waitVars, bits, arrivals, wanted>>

\* The kernel makes a socket ready, or ends a connection attempt (external).
Arrive(s, b) ==
    /\ arrivals < MaxArrivals
    /\ Alive(s) /\ s <= made
    /\ b \in (IF socket[s].connection = "pending" THEN {"write", "error"} ELSE Directions) \ bits[s]
    /\ bits' = [bits EXCEPT ![s] = @ \cup {b}]
    /\ arrivals' = arrivals + 1
    /\ UNCHANGED <<waitVars, sockets, made, socket, wanted>>

-----------------------------------------------------------------------------
(* Operations of a task.                                                   *)

\* accept, read, receive_from, write_bytes, send_to, send_datagram: the directions in
\* which a token can be used at all; a use in any other answers -1.
Usable(k) ==
    IF k \notin sockets THEN {}
    ELSE IF socket[k].kind = "listener" THEN {"read"}
    ELSE IF socket[k].kind = "datagram" \/ socket[k].connection = "connected" THEN Directions
    ELSE {}

\* The operation goes through and takes what there is; an accept makes a socket.
Transfer(t, k, d) ==
    /\ Rest(t)
    /\ d \in Usable(k) /\ d \in bits[k]
    /\ bits' = [bits EXCEPT ![k] = @ \ {d}]
    /\ IF socket[k].kind = "listener" THEN Insert("stream", "connected")
       ELSE UNCHANGED <<sockets, made, socket>>
    /\ UNCHANGED <<waitVars, arrivals, wanted>>

\* It would block (-2): the source waits and tries again.
WouldBlock(t, k, d) ==
    /\ Rest(t)
    /\ d \in Usable(k) /\ d \notin bits[k]
    /\ wanted' = [wanted EXCEPT ![t] = [token |-> k, direction |-> d]]
    /\ UNCHANGED <<waitVars, sockets, made, socket, bits, arrivals>>

\* connect_status -2: the source waits for the connection to become writable.
StatusPending(t, k) ==
    /\ Rest(t)
    /\ k \in sockets /\ socket[k].connection = "pending"
    /\ wanted' = [wanted EXCEPT ![t] = [token |-> k, direction |-> "write"]]
    /\ UNCHANGED <<waitVars, sockets, made, socket, bits, arrivals>>

\* connect_status after a notification: the kernel is asked once.  A notification of
\* an error may come without a socket error, and the peer may be gone without one.
ConnectStatus(t, k) ==
    /\ Rest(t)
    /\ k \in sockets /\ socket[k].connection = "notified"
    /\ \E outcome \in {"connected", "failed"} : socket' = [socket EXCEPT ![k].connection = outcome]
    /\ UNCHANGED <<waitVars, sockets, made, bits, arrivals, wanted>>

Source(t) == [handle |-> socket[wanted[t].token].handle, direction |-> wanted[t].direction]

\* The directions Socket::source allows a wait for.
Waitable(k) == IF socket[k].kind = "listener" THEN {"read"}
               ELSE IF socket[k].kind = "stream" /\ socket[k].connection # "connected" THEN {"write"}
               ELSE Directions

Busy(source) == \E r \in live : issued[r] = source

\* Mutant: the wait does not own a share of its socket.
LeaseNothing(t) == None
Lease(t) == wanted[t].token

\* loom_rt_task_wait_socket, the first time.
WaitSocket(t) ==
    /\ Idle(t) /\ wanted[t].token \in sockets
    /\ wanted[t].direction \in Waitable(wanted[t].token)
    /\ ~Busy(Source(t))
    /\ Park(t, Source(t), Lease(t))
    /\ UNCHANGED <<queue, done, socketVars>>

\* The direction is taken by another wait, or no wait can be had: the task faults.
WaitFails(t) ==
    /\ Idle(t) /\ wanted[t].token \in sockets
    /\ wanted[t].direction \notin Waitable(wanted[t].token) \/ Busy(Source(t))
    /\ done' = done \cup {t}
    /\ wanted' = [wanted EXCEPT ![t] = Nothing]
    /\ UNCHANGED <<issued, live, queue, wait, sockets, made, socket, bits, arrivals>>

\* ... resumed with its wait delivered: consumed, and the operation tried again.
Resume(t) ==
    /\ Woken(t) /\ wanted[t].token \in sockets
    /\ Consume(t)
    /\ wanted' = [wanted EXCEPT ![t] = Nothing]
    /\ UNCHANGED <<issued, live, queue, done, sockets, made, socket, bits, arrivals>>

\* ... with the token gone, before the wait or after it was delivered.
Revoked(t) ==
    /\ t \notin done /\ wanted[t].token # None /\ ~Parked(t)
    /\ wanted[t].token \notin sockets
    /\ CancelWaits({t})
    /\ wanted' = [wanted EXCEPT ![t] = Nothing]
    /\ UNCHANGED <<issued, queue, done, sockets, made, socket, bits, arrivals>>

\* A task is cancelled: its wait and lease go.
CancelSocketTask(t) ==
    /\ t \notin done
    /\ CancelWaits({t})
    /\ done' = done \cup {t}
    /\ wanted' = [wanted EXCEPT ![t] = Nothing]
    /\ UNCHANGED <<issued, queue, sockets, made, socket, bits, arrivals>>

Closable(k) == k \in sockets /\ Shares(k) = 1

Close(t, k) ==
    /\ Rest(t) /\ Closable(k)
    /\ sockets' = sockets \ {k}
    /\ UNCHANGED <<waitVars, made, socket, bits, arrivals, wanted>>

Watching(h) == {r \in live : issued[r].handle = h}

\* Only streams and datagrams can be aborted.
Retirable(k) == k \in sockets /\ socket[k].kind \in {"stream", "datagram"}

\* loom_rt_socket_abort: the token first, then the native interest.
AbortSocket(t, k) ==
    /\ Rest(t) /\ Retirable(k)
    /\ sockets' = sockets \ {k}
    /\ FireAll(Watching(socket[k].handle), TRUE)
    /\ UNCHANGED <<issued, wait, done, made, socket, bits, arrivals, wanted>>

-----------------------------------------------------------------------------
(* The reactor and the poller (external; Reactor has the details).         *)

\* A watched handle is ready, or reports an error.
Readiness(r) ==
    \E s \in 1..made :
        /\ r \in live
        /\ Alive(s) /\ socket[s].handle = issued[r].handle
        /\ bits[s] \cap {issued[r].direction, "error"} # {}
        /\ FireAll({r}, "error" \in bits[s])
        /\ UNCHANGED <<issued, wait, done, socketVars>>

\* Socket::ready, called by poll for the socket a wait has leased.
Readied(s, error) ==
    IF s \in 1..MaxSockets /\ socket[s].connection = "pending"
    THEN [socket EXCEPT ![s].connection = IF error THEN "failed" ELSE "notified"]
    ELSE socket

PollSockets ==
    /\ Poll
    /\ LET woken == Wakes(Head(queue))
       IN  socket' = IF woken = {} THEN socket
                     ELSE Readied(wait[CHOOSE t \in woken : TRUE].lease, Head(queue).error)
    /\ UNCHANGED <<sockets, made, bits, arrivals, wanted>>

-----------------------------------------------------------------------------
\* Whatever the reactor watches is the open handle of the very socket its task waits
\* on: a number the kernel has given to another socket never delivers to an old wait.
WatchedOpen ==
    \A r \in live :
        issued[r].handle # None =>
            \E t \in Tasks :
                /\ wait[t].reg = r
                /\ Alive(wanted[t].token)
                /\ socket[wanted[t].token].handle = issued[r].handle
                /\ \A s \in 1..MaxSockets :
                       Alive(s) /\ socket[s].handle = issued[r].handle => s = wanted[t].token
=============================================================================
