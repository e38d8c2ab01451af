----------------------------- MODULE Execution -----------------------------
(* Emitted code running on the native runtime: root frames, a collector    *)
(* that moves every object, registered cleanups, fault boundaries and the  *)
(* cancellation of a worker (cleanup.rs, worker_control.rs, fault_abi.rs). *)
(* Each collecting call moves every object: a word that no active root     *)
(* holds is stale from then on.                                            *)
EXTENDS Emitter

CONSTANTS Programs,      \* a sequence of [fns, shared, hook]: the functions of a program,
                         \* whether it is a worker's, whether a task hook precedes a drain
          EachCalls,     \* callback calls of one collection cleanup
          MaxChoices     \* Boolean results a run may choose freely

VARIABLES prog,          \* the program
          stack,         \* native frames: emitted code, drains, collection cleanups
          head,          \* registered cleanups, oldest first
          bounds,        \* fault boundaries, innermost last
          requested,     \* the worker's cancellation was requested
          allocated,     \* objects so far
          choices,       \* Boolean results so far
          trace,         \* operations so far
          stale,         \* a moved object was used or traced
          outcome
vars == <<prog, stack, head, bounds, requested, allocated, choices, trace, stale, outcome>>

M == INSTANCE Meaning

\* The programs with their code.
Loaded ==
    Once(Programs, LAMBDA ps :
         <<>> \o [i \in DOMAIN ps |-> [fns |-> ps[i].fns, shared |-> ps[i].shared, hook |-> ps[i].hook,
                                       code |-> Compile(ps[i].fns, ps[i].shared)]])

-----------------------------------------------------------------------------
(* Words, frames and memory *)

Scalar(v) == [p |-> FALSE, v |-> v, ok |-> TRUE]
Object(v) == [p |-> TRUE, v |-> v, ok |-> TRUE]
Null(t) == [i \in DOMAIN Words[t] |-> [p |-> Words[t][i], v |-> 0, ok |-> TRUE]]
Junk == [i \in 1..3 |-> [p |-> TRUE, v |-> -1, ok |-> FALSE]]

Moved(value) == [i \in DOMAIN value |-> [value[i] EXCEPT !.ok = ~value[i].p \/ value[i].v = 0]]
Stale(value) == \E i \in DOMAIN value : ~value[i].ok
Seen(value) == [i \in DOMAIN value |-> value[i].v]

\* Three kinds of frames: emitted code; fault() or cancel() draining the
\* cleanups of a boundary; cleanup_each.
Nop == I("label", <<>>, <<>>, 0)
Frame(kind, key, owner, mem) ==
    [kind |-> kind, key |-> key, pc |-> 1, at |-> Nop, owner |-> owner, mem |-> mem, reg |-> <<>>,
     active |-> {}, left |-> IF kind = "each" THEN EachCalls ELSE 0, first |-> 0, open |-> FALSE]

CodeOf(f) ==
    Once(Loaded[f.key[3]].code[f.key[1]], LAMBDA unit : unit[CHOOSE i \in DOMAIN unit : unit[i].id = f.key[2]].code)

FrameOf(st, place) == IF place[3] = 1 THEN Last(st).owner ELSE Len(st)
Cell(place) == <<place[1], place[2], 0>>
Read(st, place) ==
    LET mem == st[FrameOf(st, place)].mem
    IN IF Cell(place) \in DOMAIN mem THEN mem[Cell(place)] ELSE Junk
Write(st, place, value) == [st EXCEPT ![FrameOf(st, place)].mem = Insert(@, Cell(place), value)]
WriteEach(st, cells, F(_)) == [st EXCEPT ![Len(st)].mem = [q \in cells |-> F(q[2])] @@ @]
Words1(value, words) == IF words = <<>> THEN value ELSE [i \in DOMAIN words |-> value[words[i]]]

\* A collection: active slots follow their objects, nothing else does.
Collected(st) ==
    [k \in DOMAIN st |->
       [st[k] EXCEPT !.reg = [r \in DOMAIN @ |-> Moved(@[r])],
                     !.mem = [q \in DOMAIN @ |-> IF q \in st[k].active THEN @[q] ELSE Moved(@[q])]]]
TracesStale(st) ==
    \E k \in DOMAIN st : \E q \in st[k].active : q \notin DOMAIN st[k].mem \/ Stale(st[k].mem[q])

-----------------------------------------------------------------------------
(* Instructions that only move data or control *)

LabelAt(code, to) == CHOOSE i \in DOMAIN code : code[i].op = "label" /\ code[i].d = to

Reg(f, r) == IF r \in DOMAIN f.reg THEN f.reg[r] ELSE Junk

SwitchTarget(value, arms) ==
    LET taken == {j \in DOMAIN arms : arms[j].tag \in {0, value[1].v}}
        exact == {j \in taken : arms[j].tag # 0}
    IN arms[CHOOSE j \in IF exact = {} THEN taken ELSE exact : TRUE].to

Quiet == {"load", "literal", "move", "project", "pack", "store", "reload", "root", "begin", "end",
          "restore", "clear", "label", "jump", "branch", "switch"}

\* One quiet instruction of the top frame.
Effect(st, i, code) ==
    LET f == Last(st)
        set(r, value) == [st EXCEPT ![Len(st)].reg = Insert(@, r, value), ![Len(st)].pc = @ + 1]
        next(s) == [s EXCEPT ![Len(s)].pc = @ + 1]
        go(to) == [st EXCEPT ![Len(st)].pc = LabelAt(code, to)]
        values == FlattenSeq([k \in DOMAIN i.s |-> Reg(f, i.s[k])])
    IN CASE i.op = "load" -> set(i.d, Words1(Read(st, i.x.place), i.x.words))
         [] i.op = "literal" -> set(i.d, <<Scalar(0)>>)
         [] i.op = "move" -> set(i.d, values)
         [] i.op = "project" -> set(i.d, <<values[i.x]>>)
         [] i.op = "pack" ->
              set(i.d, IF i.x = 0 THEN values
                       ELSE <<Scalar(i.x)>> \o (IF values = <<>> THEN <<Object(0)>> ELSE values))
         [] i.op = "store" ->
              next(FoldSet(LAMBDA place, s : Write(s, place, Words1(values, i.x)), st, i.d))
         [] i.op = "reload" -> set(i.d, Read(st, i.x))
         [] i.op = "root" ->
              next(IF i.x.parameter /\ Large(i.x.type) THEN st
                   ELSE Write(st, i.d, IF i.x.parameter THEN Read(st, Storage(i.d[2])) ELSE Null(i.x.type)))
         [] i.op = "begin" -> next([st EXCEPT ![Len(st)].active = @ \cup {i.d}])
         [] i.op = "end" -> next([st EXCEPT ![Len(st)].active = @ \ {i.d}])
         [] i.op = "restore" ->
              next(WriteEach(st, {Storage(l) : l \in i.d}, LAMBDA l : Read(st, LocalSlot(l))))
         [] i.op = "clear" ->
              next(WriteEach(st, {LocalSlot(l) : l \in i.d}, LAMBDA l : Null(i.x[l])))
         [] i.op = "label" -> next(st)
         [] i.op = "jump" -> go(i.d)
         [] i.op = "branch" -> go(i.x[IF values[1].v = 1 THEN 1 ELSE 2])
         [] i.op = "switch" -> go(SwitchTarget(values, i.x))

\* On to the next instruction that matters, which the frame shows.
RECURSIVE RunQuiet(_, _)
RunQuiet(st, code) ==
    Once(code[Last(st).pc], LAMBDA i :
         IF i.op \in Quiet THEN RunQuiet(Effect(st, i, code), code) ELSE [st EXCEPT ![Len(st)].at = i])
Settled(st) ==
    IF st = <<>> \/ Last(st).kind # "code" THEN st
    ELSE Once(CodeOf(Last(st)), LAMBDA code : RunQuiet(st, code))

\* A call: parameters are stored in the callee's frame.
Parameters(fn, args) ==
    LET place(l) == IF Large(fn.locals[l]) THEN LocalSlot(l) ELSE Storage(l)
    IN [q \in {place(l) : l \in 1..fn.params} |-> args[q[2]]]
FunctionFrame(q, f, args) == Frame("code", <<f, 0, q>>, 0, Parameters(Loaded[q].fns[f], args))
CallbackFrame(record) == Frame("code", record.key, record.owner, <<>>)

-----------------------------------------------------------------------------
(* Steps of the emitted code *)

Top == Last(stack)
Op == Top.at
At(op) == outcome = "running" /\ Top.kind = "code" /\ Op.op = op
Args == FlattenSeq([k \in DOMAIN Op.s |-> Reg(Top, Op.s[k])])

\* The top frame after its instruction, with the value it leaves.
Passed(st) == [st EXCEPT ![Len(st)].pc = @ + 1]
Given(st, r, value) == Passed(IF r = <<>> \/ value = <<>> THEN st ELSE [st EXCEPT ![Len(st)].reg = Insert(@, r, value)])

Event(name, seen) == [e |-> name, v |-> seen]
Boundary(depth, hook) == [head |-> Len(head), depth |-> depth, first |-> 0, cancelled |-> FALSE, hook |-> hook]

Init ==
    /\ prog \in DOMAIN Programs
    /\ stack = Settled(<<FunctionFrame(prog, 1, <<>>)>>)
    /\ head = <<>>
    /\ bounds = <<[head |-> 0, depth |-> 0, first |-> 0, cancelled |-> FALSE, hook |-> Loaded[prog].hook]>>
    /\ requested = FALSE
    /\ allocated = 0
    /\ choices = <<>>
    /\ trace = <<>>
    /\ stale = FALSE
    /\ outcome = "running"

\* A primitive that cannot collect; some have a Boolean result.
Observe ==
    /\ At("observe")
    /\ LET chooses == Op.x \in {"len", "binary"}
           free == chooses /\ Len(choices) < MaxChoices
       IN \E v \in IF free THEN {0, 1} ELSE {0} :
            /\ choices' = IF free THEN Append(choices, v = 1) ELSE choices
            /\ stack' = Settled(Given(stack, Op.d, IF chooses THEN <<Scalar(v)>> ELSE <<>>))
    /\ trace' = Append(trace, Event(Op.x, Seen(Args)))
    /\ stale' = (stale \/ Stale(Args))
    /\ UNCHANGED <<prog, head, bounds, requested, allocated, outcome>>

\* A primitive that collects and may return a new object.
Allocate ==
    /\ At("allocate")
    /\ allocated' = IF Op.x = "grow" THEN allocated ELSE allocated + 1
    /\ stack' = Settled(Given(Collected(stack), Op.d, <<Object(allocated + 1)>>))
    /\ trace' = IF Op.x = "concat" THEN Append(trace, Event("concat", Append(Seen(Args), allocated + 1))) ELSE trace
    /\ stale' = (stale \/ Stale(Args) \/ TracesStale(stack))
    /\ UNCHANGED <<prog, head, bounds, requested, choices, outcome>>

\* Opening shared storage may wait, and so park for a collection.
OpenAccess ==
    /\ At("access")
    /\ stack' = Settled(Passed(Collected(stack)))
    /\ stale' = (stale \/ Stale(Args) \/ TracesStale(stack))
    /\ UNCHANGED <<prog, head, bounds, requested, allocated, choices, trace, outcome>>

\* A buffer is full or has room.
Capacity ==
    /\ At("either")
    /\ \E to \in Range(Op.x) : stack' = Settled([stack EXCEPT ![Len(stack)].pc = LabelAt(CodeOf(Top), to)])
    /\ UNCHANGED <<prog, head, bounds, requested, allocated, choices, trace, stale, outcome>>

CallFunction ==
    /\ At("call")
    /\ stack' = Settled(Append(stack, FunctionFrame(prog, Op.x, [k \in DOMAIN Op.s |-> Reg(Top, Op.s[k])])))
    /\ UNCHANGED <<prog, head, bounds, requested, allocated, choices, trace, stale, outcome>>

CallCallback ==
    /\ At("callback")
    /\ stack' = Settled(Append(stack, CallbackFrame([key |-> <<Top.key[1], Op.x, prog>>, owner |-> Len(stack)])))
    /\ UNCHANGED <<prog, head, bounds, requested, allocated, choices, trace, stale, outcome>>

\* A return to emitted code, to a drain or a collection cleanup, or from the
\* program, which must leave no cleanup registered.
Return ==
    /\ At("ret")
    /\ LET below == Front(stack)
       IN /\ stack' = IF below = <<>> \/ Last(below).kind # "code" THEN below
                      ELSE Settled(Given(below, Last(below).at.d, Args))
          /\ outcome' = IF below # <<>> THEN outcome ELSE IF head = <<>> THEN "done" ELSE "fatal"
    /\ trace' = IF Top.key[2] = 0 THEN trace ELSE Append(trace, Event("done", <<Top.key[2]>>))
    /\ UNCHANGED <<prog, head, bounds, requested, allocated, choices, stale>>

-----------------------------------------------------------------------------
(* Cleanups, faults and cancellation *)

\* loom_rt_cleanup_push
CleanupPush ==
    /\ At("cleanup_push")
    /\ head' = Append(head, [key |-> <<Top.key[1], Op.x, prog>>, owner |-> Len(stack)])
    /\ stack' = Settled(Passed(stack))
    /\ trace' = Append(trace, Event("defer", <<Op.x>>))
    /\ UNCHANGED <<prog, bounds, requested, allocated, choices, stale, outcome>>

\* loom_rt_cleanup_pop unlinks exactly this registration.
CleanupPop ==
    /\ At("cleanup_pop")
    /\ LET record == [key |-> <<Top.key[1], Op.x, prog>>, owner |-> Len(stack)]
           found == {k \in DOMAIN head : head[k] = record}
       IN /\ head' = SelectSeq(head, LAMBDA r : r # record)
          /\ outcome' = IF found = {} THEN "fatal" ELSE outcome
    /\ stack' = Settled(Passed(stack))
    /\ trace' = Append(trace, Event("run", <<Op.x>>))
    /\ UNCHANGED <<prog, bounds, requested, allocated, choices, stale>>

\* fault() with a message, cancel() without (0): the innermost boundary keeps
\* the first message, its hook runs once, and the drain begins on top of the
\* abandoned frames, with cancellation masked.
Raise(st, bs, msg) ==
    /\ bounds' = [bs EXCEPT ![Len(bs)].first = IF @ = 0 THEN msg ELSE @,
                            ![Len(bs)].cancelled = @ \/ msg = 0,
                            ![Len(bs)].hook = FALSE]
    /\ stack' = Append(st, Frame("drain", <<>>, 0, <<>>))
    /\ trace' = trace \o (IF msg = 0 THEN <<Event("cancel", <<>>)>> ELSE <<>>)
                      \o (IF Last(bs).hook THEN <<Event("hook", <<>>)>> ELSE <<>>)
Masked == \E k \in DOMAIN stack : stack[k].kind = "drain"

\* loom_rt_worker_checkpoint: a safe point, then the request is looked at.
Checkpoint ==
    /\ At("checkpoint")
    /\ IF requested /\ ~Masked THEN Raise(Collected(stack), bounds, 0)
       ELSE /\ stack' = Settled(Passed(Collected(stack)))
            /\ UNCHANGED <<bounds, trace>>
    /\ stale' = (stale \/ TracesStale(stack))
    /\ UNCHANGED <<prog, head, requested, allocated, choices, outcome>>

\* Control::cancel, from another thread.
Request ==
    /\ outcome = "running" /\ Loaded[prog].shared /\ ~requested
    /\ requested' = TRUE
    /\ UNCHANGED <<prog, stack, head, bounds, allocated, choices, trace, stale, outcome>>

Guard ==
    /\ At("guard")
    /\ IF Args[1].v = 0 THEN Raise(stack, bounds, Op.x)
       ELSE stack' = Settled(Passed(stack)) /\ UNCHANGED <<bounds, trace>>
    /\ UNCHANGED <<prog, head, requested, allocated, choices, stale, outcome>>

\* Mutant: the oldest registration goes first.
DrainOldest ==
    /\ outcome = "running" /\ Top.kind = "drain" /\ Len(head) > Last(bounds).head
    /\ head' = Tail(head)
    /\ stack' = Settled(Append(stack, CallbackFrame(Head(head))))
    /\ trace' = Append(trace, Event("run", <<Head(head).key[2]>>))
    /\ UNCHANGED <<prog, bounds, requested, allocated, choices, stale, outcome>>

\* drain_to: a registration is popped before its callback runs.
DrainNext ==
    /\ outcome = "running" /\ Top.kind = "drain" /\ Len(head) > Last(bounds).head
    /\ head' = Front(head)
    /\ stack' = Settled(Append(stack, CallbackFrame(Last(head))))
    /\ trace' = Append(trace, Event("run", <<Last(head).key[2]>>))
    /\ UNCHANGED <<prog, bounds, requested, allocated, choices, stale, outcome>>

\* The drained stack is abandoned up to the boundary.  Its owner gets the
\* fault or the cancellation; an inner owner is cleanup_each, which keeps the
\* first fault and passes a cancellation on (propagate_cancel).
Unwind ==
    /\ outcome = "running" /\ Top.kind = "drain" /\ Len(head) = Last(bounds).head
    /\ LET b == Last(bounds)
           below == SubSeq(stack, 1, b.depth)
       IN \/ /\ b.depth = 0
             /\ outcome' = IF b.first # 0 THEN "fault" ELSE "cancelled"
             /\ stack' = <<>>
             /\ UNCHANGED <<bounds, trace>>
          \/ /\ b.depth > 0 /\ b.first # 0
             /\ bounds' = Front(bounds)
             /\ stack' = [below EXCEPT ![b.depth].open = FALSE,
                                       ![b.depth].first = IF @ = 0 THEN b.first ELSE @]
             /\ UNCHANGED <<outcome, trace>>
          \/ /\ b.depth > 0 /\ b.first = 0
             /\ Raise(below, Front(bounds), 0)
             /\ UNCHANGED outcome
    /\ UNCHANGED <<prog, head, requested, allocated, choices, stale>>

-----------------------------------------------------------------------------
(* loom_rt_cleanup_each: every element is visited, whatever faults *)

EachStart ==
    /\ At("each")
    /\ stack' = Append(stack, Frame("each", <<>>, 0, <<>>))
    /\ UNCHANGED <<prog, head, bounds, requested, allocated, choices, trace, stale, outcome>>

EachTop == outcome = "running" /\ Top.kind = "each"

\* Enters a boundary, or calls inside it with the container's current address.
EachEnter ==
    /\ EachTop /\ Top.left > 0 /\ ~Top.open
    /\ bounds' = Append(bounds, Boundary(Len(stack), FALSE))
    /\ stack' = [stack EXCEPT ![Len(stack)].open = TRUE]
    /\ UNCHANGED <<prog, head, requested, allocated, choices, trace, stale, outcome>>
EachCall ==
    /\ EachTop /\ Top.left > 0 /\ Top.open
    /\ LET below == Front(stack)
       IN stack' = Settled(Append([stack EXCEPT ![Len(stack)].left = @ - 1],
                                  FunctionFrame(prog, Last(below).at.x, <<Read(below, Last(below).at.d)>>)))
    /\ UNCHANGED <<prog, head, bounds, requested, allocated, choices, trace, stale, outcome>>

\* Normal return from the boundary, which must be balanced.
EachLeave ==
    /\ EachTop /\ Top.left = 0 /\ Top.open
    /\ bounds' = Front(bounds)
    /\ outcome' = IF Len(head) = Last(bounds).head /\ Last(bounds).first = 0 THEN outcome ELSE "fatal"
    /\ stack' = [stack EXCEPT ![Len(stack)].open = FALSE]
    /\ UNCHANGED <<prog, head, requested, allocated, choices, trace, stale>>

\* The first fault is raised again once all calls are done.
EachFinish ==
    /\ EachTop /\ Top.left = 0 /\ ~Top.open
    /\ IF Top.first # 0 THEN Raise(stack, bounds, Top.first)
       ELSE stack' = Settled(Passed(Front(stack))) /\ UNCHANGED <<bounds, trace>>
    /\ UNCHANGED <<prog, head, requested, allocated, choices, stale, outcome>>

\* A program that ended stays so.  Emitted code that reaches `unreachable`
\* has no step at all.
Ended == outcome # "running" /\ UNCHANGED vars

Next ==
    \/ Observe \/ Allocate \/ OpenAccess \/ Capacity \/ CallFunction \/ CallCallback \/ Return
    \/ CleanupPush \/ CleanupPop \/ Checkpoint \/ Request \/ Guard \/ DrainNext \/ Unwind
    \/ EachStart \/ EachEnter \/ EachCall \/ EachLeave \/ EachFinish \/ Ended

Spec == Init /\ [][Next]_vars

-----------------------------------------------------------------------------
(* Properties *)

\* No operation, no return and no collection ever meets a word whose object
\* was moved while no active root held that word: the temporary slots, the
\* restored locals and the retired ones of llvm_gc.rs and
\* llvm_gc_liveness.rs always cover what the emitted code still uses.
NoStaleUse == ~stale

Cancelled == \E k \in DOMAIN trace : trace[k].e = "cancel"

\* Code generation and the fault boundaries are transparent: a program that
\* was not cancelled performs the operations of its source meaning, on the
\* same objects and in the same order, cleanups and hook included, and ends
\* as the source says, with the first fault of its outermost boundary.
Ends(meant) ==
    /\ trace = meant.trace
    /\ outcome = IF meant.ok THEN "done" ELSE "fault"
    /\ bounds[1].first = IF meant.ok THEN 0 ELSE meant.fault
Faithful ==
    outcome # "running" /\ ~Cancelled =>
        Once(M!Meaning(Loaded[prog].fns, Loaded[prog].hook, choices), Ends)

\* Every registered cleanup starts at most once and only while registered;
\* once a cancellation drains, the newest registration always goes first;
\* when the program has ended, however it ended, none is left.
CleanupsOnce ==
    LET step(q, event) ==
            CASE event.e = "defer" -> [q EXCEPT !.open = Append(@, event.v[1])]
              [] event.e = "cancel" -> [q EXCEPT !.draining = TRUE]
              [] event.e = "run" ->
                   [q EXCEPT !.open = SelectSeq(@, LAMBDA id : id # event.v[1]),
                             !.ok = @ /\ event.v[1] \in Range(q.open)
                                      /\ (q.draining => Last(q.open) = event.v[1])]
              [] OTHER -> q
        final == Iterate(LAMBDA q, k : step(q, trace[k]), [open |-> <<>>, draining |-> FALSE, ok |-> TRUE], Len(trace))
    IN final.ok /\ (outcome # "running" => final.open = <<>>)

\* "Cancellation cannot interrupt mandatory cleanup" (cleanup.rs:329): when a
\* cancelled worker has ended, every cleanup it started also completed.
CleanupCompletes ==
    LET Count(name) == Cardinality({k \in DOMAIN trace : trace[k].e = name})
    IN outcome = "cancelled" => Count("run") = Count("done")
=============================================================================
