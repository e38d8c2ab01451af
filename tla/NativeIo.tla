------------------------------ MODULE NativeIo ------------------------------
(***************************************************************************)
(* The native resources of one task owner over the one-shot waits they     *)
(* share.  Worker jobs, sockets and a TLS stream meet only in those waits  *)
(* and in the owner's scheduling, so a behaviour exercises one of them,    *)
(* chosen by part; a captured process is what one job's operation does.    *)
(***************************************************************************)
EXTENDS Jobs, Sockets, Tls, Capture

VARIABLE part

vars == <<waitVars, jobVars, socketVars, tlsVars, captureVars, part>>

Init ==
    /\ part \in {"jobs", "sockets", "tls", "capture"}
    /\ WaitsInit /\ JobsInit /\ SocketsInit /\ TlsInit /\ CaptureInit
    /\ part # "jobs" => pool = "io"
    /\ part # "capture" => piped = Streams /\ limit = 0

InJobs    == part = "jobs" /\ UNCHANGED <<socketVars, tlsVars, captureVars, part>>
InSockets == part = "sockets" /\ UNCHANGED <<jobVars, tlsVars, captureVars, part>>
InTls     == part = "tls" /\ UNCHANGED <<jobVars, socketVars, captureVars, part>>
InCapture == part = "capture" /\ UNCHANGED <<waitVars, jobVars, socketVars, tlsVars, part>>

NextJobs ==
    \/ \E t \in Tasks, kind \in Kinds : Submit(t, kind) /\ InJobs
    \/ \E t \in Tasks : SubmitFails(t) /\ InJobs
    \/ \E t \in Tasks : Result(t) /\ InJobs
    \/ \E t \in Tasks : End(t) /\ InJobs
    \/ \E t \in Tasks : Cancel(t) /\ InJobs
    \/ \E t \in Tasks : Ask(t) /\ InJobs
    \/ \E w \in Workers : Fetch(w) /\ InJobs
    \/ \E w \in Workers : Start(w) /\ InJobs
    \/ \E w \in Workers : Finish(w) /\ InJobs
    \/ \E w \in Workers : NotifyCompletion(w) /\ InJobs
    \/ \E k \in DOMAIN handles : Abort(k) /\ InJobs
    \/ Sleep /\ InJobs
    \/ Drain /\ InJobs
    \/ Answer /\ InJobs
    \/ Turn /\ InJobs
    \/ ClosePool /\ InJobs
    \/ Join /\ InJobs

NextSockets ==
    \/ \E t \in Tasks, kind \in {"listener", "datagram", "stream"},
          c \in {"none", "pending", "connected"} : Make(t, kind, c) /\ InSockets
    \/ \E t \in Tasks, k \in 1..made, d \in Directions : Transfer(t, k, d) /\ InSockets
    \/ \E t \in Tasks, k \in 1..made, d \in Directions : WouldBlock(t, k, d) /\ InSockets
    \/ \E t \in Tasks, k \in 1..made : StatusPending(t, k) /\ InSockets
    \/ \E t \in Tasks, k \in 1..made : ConnectStatus(t, k) /\ InSockets
    \/ \E t \in Tasks, k \in 1..made : Close(t, k) /\ InSockets
    \/ \E t \in Tasks, k \in 1..made : AbortSocket(t, k) /\ InSockets
    \/ \E t \in Tasks : WaitSocket(t) /\ InSockets
    \/ \E t \in Tasks : WaitFails(t) /\ InSockets
    \/ \E t \in Tasks : Resume(t) /\ InSockets
    \/ \E t \in Tasks : Revoked(t) /\ InSockets
    \/ \E t \in Tasks : CancelSocketTask(t) /\ InSockets
    \/ \E s \in 1..made, b \in Directions \cup {"error"} : Arrive(s, b) /\ InSockets
    \/ \E r \in live : Readiness(r) /\ InSockets
    \/ PollSockets /\ InSockets

NextTls ==
    \/ \E t \in Roles : BeginRead(t) /\ InTls
    \/ \E t \in Roles, shut \in BOOLEAN : BeginWrite(t, shut) /\ InTls
    \/ \E t \in Roles : Flush(t) /\ InTls
    \/ \E t \in Roles : Wait(t) /\ InTls
    \/ \E t \in Roles : WaitOver(t) /\ InTls
    \/ \E t \in Roles : Sent(t) /\ InTls
    \/ \E t \in Roles : SendFails(t) /\ InTls
    \/ \E t \in Roles : AfterFlush(t) /\ InTls
    \/ \E t \in Roles : Receive(t) /\ InTls
    \/ \E t \in Roles : AfterReceive(t) /\ InTls
    \/ \E t \in Roles : ReceiveFails(t) /\ InTls
    \/ \E t \in Roles : CancelOperation(t) /\ InTls
    \/ \E drained \in BOOLEAN : Retire(drained) /\ InTls
    \/ TlsPoll /\ InTls

NextCapture ==
    \/ SpawnChild /\ InCapture
    \/ \E s \in Streams : SpawnThread(s) /\ InCapture
    \/ \E c \in channel : ReceiveCompletion(c) /\ InCapture
    \/ WaitChild /\ InCapture
    \/ WaitFailed /\ InCapture
    \/ Kill /\ InCapture
    \/ JoinThreads /\ InCapture
    \/ \E s \in Outputs : ReadPipe(s) /\ InCapture
    \/ \E s \in Outputs, ok \in BOOLEAN : ReaderEnds(s, ok) /\ InCapture
    \/ WriteInput /\ InCapture
    \/ \E ok \in BOOLEAN : WriterEnds(ok) /\ InCapture
    \/ \E s \in Streams : ChildCalls(s) /\ InCapture
    \/ CallReturns /\ InCapture
    \/ \E s \in Streams : ChildCloses(s) /\ InCapture
    \/ ChildExits /\ InCapture

Next == NextJobs \/ NextSockets \/ NextTls \/ NextCapture

\* The capturing thread and its workers go on as long as they can, and the kernel ends
\* a call of the child that need not block; the child itself owes nothing.
Fairness ==
    /\ WF_vars(CaptureStep /\ InCapture)
    /\ \A s \in Outputs : WF_vars((ReadPipe(s) \/ ReaderEnds(s, TRUE)) /\ InCapture)
    /\ WF_vars((WriteInput \/ WriterEnds(TRUE)) /\ InCapture)
    /\ WF_vars(CallReturns /\ InCapture)

Spec == Init /\ [][Next]_vars /\ Fairness

-----------------------------------------------------------------------------
(* Why a live registration will still fire.                                *)

JobPending(r) ==
    \/ \E i \in DOMAIN fifo : fifo[i] = r
    \/ \E w \in Workers : worker[w].job = r

TokenHeld(t) == wanted[t].token \in sockets

TurnComes(t) == /\ session.live /\ flags.flushing
                /\ wait[t].reg \in session.waiters
                /\ seen[t] = session.generation

\* No wakeup is lost.  A parked task's notification is on its way, or its registration
\* is live and somebody is going to end it: a worker has its job or will fetch it, its
\* socket still has its token, another flusher of the generation it saw is at work.
\* Threads sleep only while there is nothing for them to do.
NoLostWakeup ==
    /\ \A t \in Tasks : Parked(t) =>
          \/ \E i \in DOMAIN queue : queue[i].reg = wait[t].reg
          \/ /\ wait[t].reg \in live
             /\ part = "jobs" => JobPending(wait[t].reg)
             /\ part = "sockets" => TokenHeld(t)
             /\ part = "tls" => TurnComes(t)
    /\ (\E w \in Workers : worker[w].pc = "sleep") =>
          /\ ~closed
          /\ Len(fifo) <= Cardinality({w \in Workers : worker[w].pc = "loop"})
    /\ owner.asleep => job[owner.job].state = "running"
=============================================================================
