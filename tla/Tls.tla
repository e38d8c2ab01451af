-------------------------------- MODULE Tls --------------------------------
(***************************************************************************)
(* One TLS stream: the packet engine and its generation counter            *)
(* (tls/src/lib.rs) under the reader, the writer and the close rules of    *)
(* std.net.tls (tls.loom).  The engine does no I/O: whoever flushes moves  *)
(* its output to the transport, one flusher at a time; the others wait for *)
(* the next generation.  Every action is one resume of a task up to its    *)
(* next await, and each callee of an await is a task that starts later:    *)
(* that is where other tasks come in between.                              *)
(*                                                                         *)
(* Bytes are records numbered in the order the engine produces them.  The  *)
(* transport (a TCP stream, see Sockets) is external.                      *)
(***************************************************************************)
EXTENDS Waits

CONSTANTS Reader, Writer,  \* tasks
          MaxRecords,      \* records the engine produces
          MaxReads         \* transport reads that bring input

ASSUME TlsAssumption == Reader \in Tasks /\ Writer \in Tasks /\ Reader # Writer

VARIABLES session,     \* Session: live, generation, waiters, output, input, shut
          flags,       \* closed, reading, writing, flushing, shut
          at,          \* where the operation of each task is
          seen,        \* the generation a task is going to wait on
          chunk,       \* the records a flusher is sending
          result,      \* outcome of the flush a task has awaited
          sent,        \* records the transport took
          broken,      \* the transport has failed a write
          produced, reads

tlsVars == <<session, flags, at, seen, chunk, result, sent, broken, produced, reads>>

Roles == {Reader, Writer}
Draining(t) == t = Writer    \* flush(stream, true)

TlsInit ==
    /\ session = [live |-> TRUE, generation |-> 0, waiters |-> {}, output |-> <<>>,
                  input |-> FALSE, shut |-> FALSE]
    /\ flags = [closed |-> FALSE, reading |-> FALSE, writing |-> FALSE, flushing |-> FALSE, shut |-> FALSE]
    /\ at = [t \in Tasks |-> "idle"]
    /\ seen = [t \in Tasks |-> 0]
    /\ chunk = [t \in Tasks |-> <<>>]
    /\ result = [t \in Tasks |-> "none"]
    /\ sent = <<>> /\ broken = FALSE /\ produced = 0 /\ reads = 0

Claim(t) == IF t = Reader THEN "reading" ELSE "writing"

\* What the engine does: input may become plaintext or call for an answer, output is
\* handed over once.
Fed(s, plain, answer) == [(IF answer THEN [s EXCEPT !.output = Append(@, produced + 1)] ELSE s)
                             EXCEPT !.input = plain]
Emptied(s) == [s EXCEPT !.output = <<>>]

\* The engine queues one more record.
Produce(s) == [s EXCEPT !.output = Append(@, produced + 1)]

\* loom_rt_tls_notify
Notified(s) == IF s.live THEN [s EXCEPT !.generation = @ + 1, !.waiters = {}] ELSE s

\* loom_rt_tls_release
Released(s) == [s EXCEPT !.live = FALSE, !.waiters = {}]

\* The waiters that notify or release let go.
Waiters == IF session.live THEN session.waiters ELSE {}

\* The end of a flush that holds the flag (its defer): t goes on with outcome o.
EndFlush(t, o) ==
    /\ flags' = [flags EXCEPT !.flushing = FALSE]
    /\ session' = Notified(session)
    /\ FireAll(Waiters, FALSE)
    /\ chunk' = [chunk EXCEPT ![t] = <<>>]
    /\ at' = [at EXCEPT ![t] = "flushed"]
    /\ result' = [result EXCEPT ![t] = o]

\* A flush that never got the flag.
SkipFlush(t, o) ==
    /\ at' = [at EXCEPT ![t] = "flushed"]
    /\ result' = [result EXCEPT ![t] = o]
    /\ UNCHANGED <<live, queue, flags, session, chunk>>

\* One turn of the sending loop: loom_rt_tls_output moves all there is.
SendMore(t) ==
    \/ ~session.live /\ EndFlush(t, "error")
    \/ session.live /\ session.output = <<>> /\ EndFlush(t, "ok")
    \/ /\ session.live /\ session.output # <<>>
       /\ chunk' = [chunk EXCEPT ![t] = session.output]
       /\ session' = Emptied(session)
       /\ flags' = [flags EXCEPT !.flushing = TRUE]
       /\ at' = [at EXCEPT ![t] = "sending"]
       /\ UNCHANGED <<live, queue, result>>

Generation == session.generation

\* Mutant: a second flusher goes ahead.
MayFlushAnyway == TRUE
MayFlush == ~flags.flushing

\* A flush task at the head of its loop: first resume, or after a wait.
Flush(t) ==
    /\ at[t] = "flush" /\ Idle(t)
    /\ \/ /\ ~MayFlush /\ ~Draining(t) /\ flags.writing
          /\ SkipFlush(t, "ok") /\ UNCHANGED seen
       \/ /\ ~MayFlush /\ (Draining(t) \/ ~flags.writing) /\ ~session.live
          /\ SkipFlush(t, "error") /\ UNCHANGED seen
       \/ /\ ~MayFlush /\ (Draining(t) \/ ~flags.writing) /\ session.live
          /\ seen' = [seen EXCEPT ![t] = Generation]
          /\ at' = [at EXCEPT ![t] = "wait"]
          /\ UNCHANGED <<live, queue, flags, session, chunk, result>>
       \/ /\ MayFlush /\ flags.closed
          /\ SkipFlush(t, "error") /\ UNCHANGED seen
       \/ /\ MayFlush /\ ~flags.closed /\ ~Draining(t) /\ flags.writing
          /\ SkipFlush(t, "ok") /\ UNCHANGED seen
       \/ /\ MayFlush /\ ~flags.closed /\ (Draining(t) \/ ~flags.writing)
          /\ SendMore(t) /\ UNCHANGED seen
    /\ UNCHANGED <<issued, wait, done, sent, broken, produced, reads>>

\* Mutant: whether the generation has moved on is not asked.
MovedOnUnseen(t) == ~session.live
MovedOn(t) == ~session.live \/ session.generation # seen[t]

\* loom_rt_tls_wait in a task of its own: nothing to wait for, or one more waiter.
Wait(t) ==
    /\ at[t] = "wait" /\ Idle(t)
    /\ at' = [at EXCEPT ![t] = "flush"]
    /\ \/ MovedOn(t) /\ UNCHANGED <<issued, live, wait, session>>
       \/ /\ ~MovedOn(t)
          /\ Park(t, Completion, None)
          /\ session' = [session EXCEPT !.waiters = @ \cup {Len(issued) + 1}]
    /\ UNCHANGED <<queue, done, flags, seen, chunk, result, sent, broken, produced, reads>>

\* ... resumed: by now the generation differs or the session is gone.
WaitOver(t) ==
    /\ at[t] = "flush" /\ Woken(t)
    /\ Consume(t)
    /\ UNCHANGED <<issued, live, queue, done, tlsVars>>

\* The transport took the chunk (external: its write waits in Sockets).
Sent(t) ==
    /\ at[t] = "sending" /\ ~flags.closed /\ ~broken
    /\ sent' = sent \o chunk[t]
    /\ IF Draining(t) THEN SendMore(t) ELSE EndFlush(t, "ok")
    /\ UNCHANGED <<issued, wait, done, seen, broken, produced, reads>>

\* The transport failed or was aborted, for good; a prefix may have gone out.
SendFails(t) ==
    /\ at[t] = "sending"
    /\ broken' = TRUE
    /\ EndFlush(t, "error")
    /\ UNCHANGED <<issued, wait, done, seen, sent, produced, reads>>

-----------------------------------------------------------------------------
(* The operations.                                                         *)

\* abort inside a resume: flags first, then the session and its waiters.  The other
\* direction meets the closed transport (Sockets wakes it).
AbortStream(fs) ==
    /\ flags' = [fs EXCEPT !.closed = TRUE]
    /\ session' = Released(session)
    /\ FireAll(Waiters, FALSE)

\* finish_operation: the claim ends; a failed operation retires the stream.
EndOperation(t, success) ==
    /\ at' = [at EXCEPT ![t] = "idle"]
    /\ result' = [result EXCEPT ![t] = "none"]
    /\ IF success \/ flags.closed
       THEN /\ flags' = [flags EXCEPT ![Claim(t)] = FALSE,
                                      !.shut = @ \/ (t = Writer /\ success /\ session.shut)]
            /\ UNCHANGED <<session, live, queue>>
       ELSE AbortStream([flags EXCEPT ![Claim(t)] = FALSE])

\* loom_rt_tls_read on session s: plaintext ends the read, an error too; otherwise the
\* transport is read.
ReadEngine(t, s, fs) ==
    \/ ~s.live /\ EndOperation(t, FALSE)
    \/ /\ s.live /\ s.input
       /\ at' = [at EXCEPT ![t] = "idle"]
       /\ result' = [result EXCEPT ![t] = "none"]
       /\ flags' = [fs EXCEPT ![Claim(t)] = FALSE]
       /\ session' = [s EXCEPT !.input = FALSE]
       /\ UNCHANGED <<live, queue>>
    \/ /\ s.live /\ ~s.input
       /\ at' = [at EXCEPT ![t] = "receiving"]
       /\ result' = [result EXCEPT ![t] = "none"]
       /\ flags' = fs /\ session' = s
       /\ UNCHANGED <<live, queue>>

\* The reader's loop: it flushes first unless a writer is at work.
ReadOn(t, s, fs) ==
    \/ flags.writing /\ ReadEngine(t, s, fs)
    \/ /\ ~flags.writing
       /\ at' = [at EXCEPT ![t] = "flush"]
       /\ flags' = fs /\ session' = s
       /\ UNCHANGED <<live, queue, result>>

Open(t) == at[t] = "idle" /\ Idle(t) /\ ~flags.closed /\ ~flags[Claim(t)]

BeginRead(t) ==
    /\ t = Reader /\ Open(t)
    /\ ReadOn(t, session, [flags EXCEPT !.reading = TRUE])
    /\ UNCHANGED <<issued, wait, done, seen, chunk, sent, broken, produced, reads>>

\* write_bytes, and shutdown_write, which queues the end of the stream.
BeginWrite(t, shut) ==
    /\ t = Writer /\ Open(t)
    /\ shut \/ ~flags.shut
    /\ ~session.shut /\ produced < MaxRecords
    /\ session' = [Produce(session) EXCEPT !.shut = shut]
    /\ produced' = produced + 1
    /\ at' = [at EXCEPT ![t] = "flush"]
    /\ flags' = [flags EXCEPT !.writing = TRUE]
    /\ UNCHANGED <<waitVars, seen, chunk, result, sent, broken, reads>>

\* The operation resumes after its flush task ended.  A write may have more to say.
AfterFlush(t) ==
    /\ at[t] = "flushed" /\ Idle(t)
    /\ \/ result[t] = "error" /\ EndOperation(t, FALSE) /\ UNCHANGED produced
       \/ result[t] = "ok" /\ t = Reader /\ ReadEngine(t, session, flags) /\ UNCHANGED produced
       \/ result[t] = "ok" /\ t = Writer /\ EndOperation(t, TRUE) /\ UNCHANGED produced
       \/ /\ result[t] = "ok" /\ t = Writer /\ ~session.live
          /\ EndOperation(t, FALSE) /\ UNCHANGED produced
       \/ /\ result[t] = "ok" /\ t = Writer /\ session.live /\ ~session.shut
          /\ produced < MaxRecords
          /\ session' = Produce(session)
          /\ produced' = produced + 1
          /\ at' = [at EXCEPT ![t] = "flush"]
          /\ UNCHANGED <<live, queue, flags, result>>
    /\ UNCHANGED <<issued, wait, done, seen, chunk, sent, broken, reads>>

\* Input came: loom_rt_tls_receive feeds the engine, which may have to answer the peer.
Receive(t) ==
    /\ at[t] = "receiving" /\ ~flags.closed /\ reads < MaxReads
    /\ reads' = reads + 1
    /\ \E plain, answer \in BOOLEAN :
          /\ answer => produced < MaxRecords
          /\ session' = Fed(session, plain, answer)
          /\ produced' = IF answer THEN produced + 1 ELSE produced
    /\ at' = [at EXCEPT ![t] = "received"]
    /\ UNCHANGED <<waitVars, flags, seen, chunk, result, sent, broken>>

AfterReceive(t) ==
    /\ at[t] = "received"
    /\ ReadOn(t, session, flags)
    /\ UNCHANGED <<issued, wait, done, seen, chunk, sent, broken, produced, reads>>

\* The transport or the protocol fails, or the transport was aborted.
ReceiveFails(t) ==
    /\ at[t] = "receiving"
    /\ EndOperation(t, FALSE)
    /\ UNCHANGED <<issued, wait, done, seen, chunk, sent, broken, produced, reads>>

\* The operation's task is cancelled where it waits: the flush task's defer, then its own.
CancelOperation(t) ==
    LET holding == at[t] = "sending"
        fs == [flags EXCEPT ![Claim(t)] = FALSE, !.flushing = @ /\ ~holding, !.closed = TRUE]
        waiting == IF Parked(t) THEN {wait[t].reg} ELSE {}
    IN  /\ at[t] \in {"flush", "wait", "sending", "flushed", "receiving", "received"}
        /\ flags' = fs
        /\ session' = Released(IF holding THEN Notified(session) ELSE session)
        /\ at' = [at EXCEPT ![t] = "idle"]
        /\ chunk' = [chunk EXCEPT ![t] = <<>>]
        /\ result' = [result EXCEPT ![t] = "none"]
        /\ wait' = [wait EXCEPT ![t] = NoWait]
        /\ live' = live \ (Waiters \cup waiting)
        /\ \E s \in Notices((Waiters \ waiting) \cap live, FALSE) : queue' = queue \o s
        /\ UNCHANGED <<issued, done, seen, sent, broken, produced, reads>>

\* abort by any other task, and close, which waits for active operations to end.
Retire(drained) ==
    /\ ~flags.closed
    /\ drained => ~flags.reading /\ ~flags.writing
    /\ AbortStream(flags)
    /\ UNCHANGED <<issued, wait, done, at, seen, chunk, result, sent, broken, produced, reads>>

TlsPoll == Poll /\ UNCHANGED tlsVars

-----------------------------------------------------------------------------
\* One flusher at a time, and the peer gets the records in the order the engine made
\* them: none is repeated or overtaken, and none is lost while the stream is in order.
RecordsInOrder ==
    /\ flags.flushing = (\E t \in Roles : at[t] = "sending")
    /\ sent = [i \in 1..Len(sent) |-> i]
    /\ ~flags.closed /\ ~broken =>
          sent \o chunk[Reader] \o chunk[Writer] \o session.output = [i \in 1..produced |-> i]
=============================================================================
