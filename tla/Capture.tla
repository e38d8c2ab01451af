------------------------------ MODULE Capture ------------------------------
(***************************************************************************)
(* Running a child process with its input and output captured, or with     *)
(* input only (process_io.rs): the calling thread, a reader for each       *)
(* output stream, a writer for the input, the child, and the bounded pipes *)
(* between them.                                                           *)
(*                                                                         *)
(* The child (external) makes calls that block in the kernel, to write or  *)
(* to read, in any order and as few as it likes.  Between calls it may     *)
(* close any stream, and it may exit or be killed at any time; then its    *)
(* ends of the pipes are closed.  Descendants that keep them open are      *)
(* outside (process_io.rs:57).                                             *)
(***************************************************************************)
EXTENDS Naturals

CONSTANTS PipeSize,     \* bytes a pipe holds
          Chatter       \* input bytes, and the most the child writes to a stream

VARIABLES
    child,     \* "none", "running", "exited", "reaped"
    call,      \* the stream of the call the child is blocked in, if any
    holds,     \* streams the child has not closed
    pipe,      \* bytes in each pipe
    written,   \* bytes put into each pipe so far
    thread,    \* state of each worker thread
    kept,      \* bytes each reader has kept
    channel,   \* completions not yet received
    caller,    \* where the calling thread is
    received,  \* completions received
    limit,     \* bytes to keep of each output
    piped      \* streams connected to pipes

kernelVars  == <<child, call, holds>>
captureVars == <<kernelVars, pipe, written, thread, kept, channel, caller, received, limit, piped>>

Outputs  == {"stdout", "stderr"}
Streams  == Outputs \cup {"stdin"}
NoLimit  == Chatter + 1
NoCall   == "none"

\* capture without and with input, and run_input, whose outputs are inherited.
Entries  == {Outputs, Streams, {"stdin"}}
RunInput == piped = {"stdin"}

CaptureInit ==
    /\ child = "none" /\ call = NoCall /\ holds = {}
    /\ pipe = [s \in Streams |-> 0] /\ written = [s \in Streams |-> 0]
    /\ thread = [s \in Streams |-> "none"] /\ kept = [s \in Outputs |-> 0]
    /\ channel = {} /\ caller = "start" /\ received = {}
    /\ limit \in {0, NoLimit} /\ piped \in Entries

\* No child, or one with its pipes.
SpawnChild ==
    /\ caller = "start"
    /\ \/ caller' = "failed" /\ UNCHANGED <<child, holds>>
       \/ /\ caller' = "threads"
          /\ child' = "running" /\ holds' = piped
    /\ UNCHANGED <<call, pipe, written, thread, kept, channel, received, limit, piped>>

Order == [stdout |-> 1, stderr |-> 2, stdin |-> 3]
Started(s) == thread[s] # "none"
NextThread(s) == /\ s \in piped /\ ~Started(s)
                 /\ \A r \in piped : Order[r] < Order[s] => Started(r)

\* The threads are started in order; one that cannot be had ends the capture.
SpawnThread(s) ==
    /\ caller = "threads" /\ NextThread(s)
    /\ \/ /\ thread' = [thread EXCEPT ![s] = "running"]
          /\ caller' = IF \A r \in piped : Started(r)' THEN "receive" ELSE "threads"
       \/ /\ caller' = "dropping"
          /\ UNCHANGED thread
    /\ UNCHANGED <<kernelVars, pipe, written, kept, channel, received, limit, piped>>

-----------------------------------------------------------------------------
(* Worker threads.                                                         *)

\* Mutant: the reader stops at its limit.
WantsKept(s) == kept[s] <= limit
\* read_all keeps up to one byte more than the limit and then goes on reading.
Wants(s) == TRUE

ReadPipe(s) ==
    /\ s \in Outputs /\ thread[s] = "running"
    /\ Wants(s) /\ pipe[s] > 0
    /\ pipe' = [pipe EXCEPT ![s] = @ - 1]
    /\ kept' = [kept EXCEPT ![s] = IF @ <= limit THEN @ + 1 ELSE @]
    /\ UNCHANGED <<kernelVars, written, thread, channel, caller, received, limit, piped>>

Report(s, ok) ==
    /\ thread' = [thread EXCEPT ![s] = "ended"]
    /\ channel' = channel \cup {[stream |-> s, ok |-> ok]}
    /\ UNCHANGED <<kernelVars, pipe, written, kept, caller, received, limit, piped>>

\* End of file, or an error or a panic, which is reported at once.
ReaderEnds(s, ok) ==
    /\ s \in Outputs /\ thread[s] = "running"
    /\ ok => pipe[s] = 0 /\ s \notin holds
    /\ Report(s, ok)

WriteInput ==
    /\ thread["stdin"] = "running" /\ "stdin" \in holds
    /\ written["stdin"] < Chatter /\ pipe["stdin"] < PipeSize
    /\ pipe' = [pipe EXCEPT !["stdin"] = @ + 1]
    /\ written' = [written EXCEPT !["stdin"] = @ + 1]
    /\ UNCHANGED <<kernelVars, thread, kept, channel, caller, received, limit, piped>>

\* The writer has written everything, met a pipe that nobody reads any more, which
\* counts as success, or failed; the pipe is closed before the completion is sent.
WriterEnds(ok) ==
    /\ thread["stdin"] = "running"
    /\ ok => written["stdin"] = Chatter \/ "stdin" \notin holds
    /\ Report("stdin", ok)

-----------------------------------------------------------------------------
(* The child (external).                                                   *)

ChildCalls(s) ==
    /\ child = "running" /\ call = NoCall
    /\ s \in holds
    /\ s \in Outputs => written[s] < Chatter
    /\ call' = s
    /\ UNCHANGED <<child, holds, pipe, written, thread, kept, channel, caller, received, limit, piped>>

\* The kernel ends a write once there is room, and a read once there is a byte; at end of
\* file, or when nobody reads what it writes, the child is done with the stream.
CallReturns ==
    /\ child = "running" /\ call # NoCall
    /\ call' = NoCall
    /\ \/ /\ call \in Outputs /\ thread[call] # "ended" /\ pipe[call] < PipeSize
          /\ pipe' = [pipe EXCEPT ![call] = @ + 1]
          /\ written' = [written EXCEPT ![call] = @ + 1]
          /\ UNCHANGED holds
       \/ /\ call = "stdin" /\ pipe["stdin"] > 0
          /\ pipe' = [pipe EXCEPT !["stdin"] = @ - 1]
          /\ UNCHANGED <<written, holds>>
       \/ /\ thread[call] = "ended" /\ (call = "stdin" => pipe["stdin"] = 0)
          /\ holds' = holds \ {call}
          /\ UNCHANGED <<pipe, written>>
    /\ UNCHANGED <<child, thread, kept, channel, caller, received, limit, piped>>

ChildCloses(s) ==
    /\ child = "running" /\ call = NoCall
    /\ s \in holds
    /\ holds' = holds \ {s}
    /\ UNCHANGED <<child, call, pipe, written, thread, kept, channel, caller, received, limit, piped>>

Gone(state) == child' = state /\ call' = NoCall /\ holds' = {}

ChildExits ==
    /\ child = "running"
    /\ Gone("exited")
    /\ UNCHANGED <<pipe, written, thread, kept, channel, caller, received, limit, piped>>

-----------------------------------------------------------------------------
(* The caller.                                                             *)

\* One completion.  A failed stream ends a capture at once; run_input reaps the child
\* before it reports one.
ReceiveCompletion(c) ==
    /\ caller = "receive" /\ c \in channel
    /\ channel' = channel \ {c}
    /\ received' = received \cup {c.stream}
    /\ caller' = IF ~c.ok /\ ~RunInput THEN "dropping"
                 ELSE IF received' = piped THEN "wait" ELSE "receive"
    /\ UNCHANGED <<kernelVars, pipe, written, thread, kept, limit, piped>>

WaitChild ==
    /\ caller = "wait" /\ child = "exited"
    /\ child' = "reaped"
    /\ caller' = "join"
    /\ UNCHANGED <<call, holds, pipe, written, thread, kept, channel, received, limit, piped>>

\* The wait fails; the child is not known to be reaped.
WaitFailed ==
    /\ caller = "wait"
    /\ caller' = "dropping"
    /\ UNCHANGED <<kernelVars, pipe, written, thread, kept, channel, received, limit, piped>>

\* Running::drop of a child that is not reaped: killed and waited for, before the join.
Kill == /\ caller = "dropping"
        /\ Gone("reaped")
        /\ caller' = "join"
        /\ UNCHANGED <<pipe, written, thread, kept, channel, received, limit, piped>>

JoinThreads ==
    /\ caller = "join"
    /\ \A s \in Streams : thread[s] # "running"
    /\ caller' = "returned"
    /\ UNCHANGED <<kernelVars, pipe, written, thread, kept, channel, received, limit, piped>>

\* What the calling thread does unless it is blocked; no wait has to fail.
CaptureStep == \/ SpawnChild \/ (\E s \in Streams : SpawnThread(s))
               \/ (\E c \in channel : ReceiveCompletion(c))
               \/ WaitChild \/ Kill \/ JoinThreads

-----------------------------------------------------------------------------
\* The child goes on by itself: it runs, is in no call that blocks, and the caller has
\* nothing to do but to wait for it.
ChildOnItsOwn == child = "running" /\ call = NoCall /\ caller \in {"receive", "wait"}

\* A capture that started ends, with the child reaped and every thread over, unless the
\* child runs for ever without another call: whatever it writes, reads and closes in
\* which order, wherever it stops, and whichever step fails.  Full pipes, a child that
\* reads to the end of its input or stops reading it, a reader past its limit, a failed
\* stream: nobody waits on anybody for ever.
CaptureEnds ==
    (caller = "threads") ~> (\/ /\ caller = "returned" /\ child = "reaped"
                                /\ \A s \in Streams : thread[s] # "running"
                             \/ []ChildOnItsOwn)
=============================================================================
