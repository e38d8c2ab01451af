-------------------------------- MODULE Heap --------------------------------
(***************************************************************************)
(* The moving heap of lib.rs as its one active mutator drives it: arenas   *)
(* of bump-allocated pages and separately owned large objects (pages.rs),  *)
(* root frames, the copying collector, growable lists and bytes, the views *)
(* that outlive the elements they show, the frame-root table               *)
(* (frame_roots.rs) and the lock tables keyed by address                   *)
(* (shared_access.rs).  Runtime calls are split where they allocate:       *)
(* that is where a collection may move everything.  Other mutators are     *)
(* parked meanwhile (SharedHeap), but may collect while a native call is   *)
(* parked.                                                                 *)
(*                                                                         *)
(* Sizes are in words: a text or a header takes one, a buffer its          *)
(* capacity.  Addresses are numbers and are reused once their owner is     *)
(* unmapped.  Identities (id, cell) are ghosts: they travel with the       *)
(* bytes they are part of and the collector never looks at them.           *)
(***************************************************************************)
EXTENDS Naturals, Sequences, SequencesExt, FiniteSets

CONSTANTS PageSize, PagesPerMapping,
          LargeSize,      \* LARGE_OBJECT_THRESHOLD
          MinThreshold,   \* MIN_THRESHOLD
          MinCap,         \* the smallest capacity reserve gives
          MaxLen,         \* longest list of a program
          MaxOps,         \* operations of a program
          Menus           \* programs: the kinds of operations they use, and how many

HeaderSize == 1

ASSUME HeapAssumption ==
    /\ {PageSize, PagesPerMapping, LargeSize, MinCap} \subseteq Nat \ {0}
    /\ {MinThreshold, MaxLen, MaxOps} \subseteq Nat
    /\ \A m \in Menus : m.limit <= MaxOps
    /\ LargeSize > 1
    /\ HeaderSize + LargeSize <= PageSize + 1    \* every small object fits a page

VARIABLES
    heap,     \* Heap: objects, previous, bytes, threshold, work, collecting, stress
    views,    \* Heap.list_views
    locks,    \* Heap.access: address to the access made for an object
    frames,   \* the ROOTS chain, newest last
    table,    \* the frame-root Store of the owner scope
    cursor,   \* one more than the frames the collector has yet to trace, 0 when it is off
    call,     \* the runtime call in progress
    menu, ops,
    env,      \* ghost: the object each root slot of the program stands for
    shown,    \* ghost: the cells each view of the program was made over
    value,    \* ghost: the text each cell holds
    named     \* ghost: the frame roots handed out and the objects they stand for, 0 once removed

vars == <<heap, views, locks, frames, table, cursor, call, menu, ops, env, shown, value, named>>

Null == 0
Bigger(a, b) == IF a > b THEN a ELSE b

-----------------------------------------------------------------------------
(* Objects and storage.                                                    *)

Text(id, n) == [kind |-> "text", size |-> 1, id |-> id, n |-> n, forwarded |-> Null]
Data(elems) == [kind |-> "data", size |-> Len(elems), elems |-> elems, forwarded |-> Null]
List(id, managed) ==
    [kind |-> "list", size |-> 1, id |-> id, data |-> Null, len |-> 0, cap |-> 0,
     managed |-> managed, watched |-> FALSE, forwarded |-> Null]
Raw         == [ptr |-> Null, cell |-> 0]          \* capacity nobody initialized
Elem(p, c)  == [ptr |-> p, cell |-> c]

NoObjects == [live |-> <<>>, mappings |-> <<>>, pages |-> 0, used |-> 0, filled |-> 0]

Owned(size) == size >= LargeSize                   \* individually_owned

Occupied(size) == IF Owned(size) THEN size ELSE HeaderSize + size

\* Mutant: an abandoned slice is taken for free space.
GrowthCostDiff(old, size) == IF Owned(old) THEN size - old ELSE Occupied(size) - Occupied(old)

\* Growth of a separate allocation only adds the difference; a small one leaves its
\* slice occupied until the next collection.
GrowthCost(old, size) == IF Owned(old) THEN size - old ELSE Occupied(size)

\* Mapping::new: an aligned group of pages that nobody has (external: mmap).
FreshMapping(h) ==
    CHOOSE m \in 1..(Len(h.objects.mappings) + Len(h.previous.mappings) + 1) :
        /\ m \notin ToSet(h.objects.mappings) \cup ToSet(h.previous.mappings)
        /\ \A k \in 1..(m - 1) : k \in ToSet(h.objects.mappings) \cup ToSet(h.previous.mappings)

\* Arena::allocate: the objects with one more slice, and its base.
Slice(h, size) ==
    LET o    == h.objects
        full == o.pages = 0 \/ o.used + Occupied(size) > PageSize
        maps == IF full /\ o.pages % PagesPerMapping = 0
                THEN Append(o.mappings, FreshMapping(h)) ELSE o.mappings
        n    == IF full THEN o.pages + 1 ELSE o.pages
        used == IF full THEN 0 ELSE o.used
        page == maps[Len(maps)] * PagesPerMapping + ((n - 1) % PagesPerMapping)
    IN  [objects |-> [o EXCEPT !.mappings = maps, !.pages = n, !.used = used + Occupied(size),
                            !.filled = @ + Occupied(size)],      \* ghost
         at      |-> page * PageSize + used + HeaderSize]

\* Separately owned storage (external: the system allocator).
LargeZone == 1000
FreshLarge(h) ==
    LET taken == DOMAIN h.objects.live \cup DOMAIN h.previous.live
    IN  CHOOSE a \in LargeZone..(LargeZone + Cardinality(taken)) :
            a \notin taken /\ \A b \in LargeZone..(a - 1) : b \in taken

\* storage
Storage(h, size) == IF Owned(size) THEN [objects |-> h.objects, at |-> FreshLarge(h)]
                    ELSE Slice(h, size)

Put(objects, a, object) == [objects EXCEPT !.live = [x \in DOMAIN @ \cup {a} |->
                                                        IF x = a THEN object ELSE @[x]]]

\* The end of allocate_storage.
Allocated(h, object) ==
    LET s == Storage(h, object.size)
    IN  [h  |-> [h EXCEPT !.objects = Put(s.objects, s.at, object),
                          !.bytes = @ + Occupied(object.size)],
         at |-> s.at]

Pressure(h, cost) == h.stress \/ h.bytes + cost >= h.threshold

-----------------------------------------------------------------------------
(* The collector.                                                          *)

KeepsLarge(h, o) == ~h.stress /\ Owned(o.size)

\* loom_rt_visit: the heap after the visit, and where the object is now.
Visit(h, p) ==
    IF p \notin DOMAIN h.previous.live THEN [h |-> h, at |-> p]
    ELSE LET o == h.previous.live[p]
             s == IF KeepsLarge(h, o) THEN [objects |-> h.objects, at |-> p]
                  ELSE Storage(h, o.size)
         IN  IF o.forwarded # Null THEN [h |-> h, at |-> o.forwarded]
             ELSE [h  |-> [h EXCEPT !.objects = Put(s.objects, s.at, o),
                                    !.previous.live[p].forwarded = s.at,
                                    !.bytes = @ + Occupied(o.size),
                                    !.work = IF o.kind = "list" THEN Append(@, s.at) ELSE @],
                   at |-> s.at]

\* Mutant: elements are traced up to the capacity the list started with.
TracedShort(o) == IF o.managed /\ o.len > 0 THEN o.len - 1 ELSE 0
Traced(o) == IF o.managed THEN o.len ELSE 0

\* trace_list and trace_bytes, of a header already moved.
TraceList(h, a) ==
    LET o    == h.objects.live[a]
        d    == Visit(h, o.data)
        Step(g, i) ==
            LET e == Visit(g, g.objects.live[d.at].elems[i].ptr)
            IN  [e.h EXCEPT !.objects.live[d.at].elems[i].ptr = e.at]
    IN  FoldLeft(Step, [d.h EXCEPT !.objects.live[a].data = d.at], [i \in 1..Traced(o) |-> i])

Off == 0
Collecting == cursor # Off

\* collect_roots up to the root chain: the spaces change places.
BeginCollect ==
    /\ heap' = [heap EXCEPT !.objects = NoObjects, !.previous = heap.objects, !.bytes = 0,
                            !.work = <<>>, !.collecting = TRUE]
    /\ cursor' = Len(frames) + 1

\* A call that is about to allocate collects first when the heap is under pressure.
CollectFirst ==
    /\ ~Collecting
    /\ call.op # "none" /\ ~call.collected
    /\ Pressure(heap, call.cost)
    /\ BeginCollect
    /\ call' = [call EXCEPT !.collected = TRUE]
    /\ UNCHANGED <<views, locks, frames, table, menu, ops, env, shown, value, named>>

\* Another mutator collects while this one is parked in a native call.
CollectParked ==
    /\ ~Collecting
    /\ call.op # "none" /\ call.stage = "park" /\ ~call.collected
    /\ BeginCollect
    /\ call' = [call EXCEPT !.collected = TRUE]
    /\ UNCHANGED <<views, locks, frames, table, menu, ops, env, shown, value, named>>

\* Visit the pointers of a sequence in order.
VisitAll(h, ps) ==
    LET Step(acc, i) == LET v == Visit(acc.h, ps[i])
                        IN  [h |-> v.h, ps |-> Append(acc.ps, v.at)]
    IN  FoldLeft(Step, [h |-> h, ps |-> <<>>], [i \in DOMAIN ps |-> i])

\* The roots of the next frame of the chain; the one root of the owner scope is the
\* table, whose tracer visits every active entry.
TraceFrame ==
    LET f == frames[cursor - 1]
        v == VisitAll(heap, IF f.table THEN [i \in DOMAIN table.active |-> table.active[i].ptr]
                            ELSE f.slots)
    IN  /\ cursor > 1
        /\ cursor' = cursor - 1
        /\ heap' = v.h
        /\ IF f.table
           THEN /\ table' = [table EXCEPT !.active =
                                [i \in DOMAIN @ |-> [@[i] EXCEPT !.ptr = v.ps[i]]]]
                /\ UNCHANGED frames
           ELSE /\ frames' = [frames EXCEPT ![cursor - 1].slots = v.ps]
                /\ UNCHANGED table
        /\ UNCHANGED <<views, locks, call, menu, ops, env, shown, value, named>>

TraceWork ==
    LET n == Len(heap.work)
    IN  /\ cursor = 1 /\ n > 0
        /\ heap' = TraceList([heap EXCEPT !.work = SubSeq(@, 1, n - 1)], heap.work[n])
        /\ UNCHANGED <<views, locks, frames, table, cursor, call, menu, ops, env, shown, value, named>>

\* Where a weak reference leads after tracing, Null when its object died.
Moved(p) == IF p \in DOMAIN heap.previous.live THEN heap.previous.live[p].forwarded ELSE Null

\* Mutant: the registry keeps the addresses of the old space.
SurvivingViewsStale ==
    SelectSeq(views, LAMBDA v : Moved(v.source) # Null /\ Moved(v.removed) # Null)

SurvivingViews ==
    LET alive == SelectSeq(views, LAMBDA v : Moved(v.source) # Null /\ Moved(v.removed) # Null)
    IN  [i \in DOMAIN alive |-> [alive[i] EXCEPT !.source = Moved(@), !.removed = Moved(@)]]

\* Mutant: locks of dead objects stay under the old address.
RelocatedStale(l) == l

\* shared_access::relocate
Relocated(l) ==
    [a \in {Moved(p) : p \in DOMAIN l} \ {Null} |-> l[CHOOSE p \in DOMAIN l : Moved(p) = a]]

\* The end of collect_roots: weak tables, watched flags, the old space, the threshold.
EndCollect ==
    LET kept    == SurvivingViews
        sources == {Moved(views[i].source) : i \in DOMAIN views} \ {Null}
        watched == {kept[i].source : i \in DOMAIN kept}
        live    == [a \in DOMAIN heap.objects.live |->
                       IF a \in sources
                       THEN [heap.objects.live[a] EXCEPT !.watched = a \in watched]
                       ELSE heap.objects.live[a]]
    IN  /\ cursor = 1 /\ heap.work = <<>>
        /\ cursor' = Off
        /\ locks' = Relocated(locks)
        /\ views' = kept
        /\ heap' = [heap EXCEPT !.objects.live = live, !.previous = NoObjects,
                                !.threshold = Bigger(2 * heap.bytes, MinThreshold),
                                !.collecting = FALSE]
        /\ UNCHANGED <<frames, table, call, menu, ops, env, shown, value, named>>

-----------------------------------------------------------------------------
(* The program and its runtime calls.  Its own frame has a root slot for a *)
(* list, a text, a bytes value and, for two views, the source list and the *)
(* list of removed cells.  A call runs in stages, each ending in an        *)
(* allocation, and roots what it still needs in a frame of its own.        *)

L == 1
T == 2
B == 3
Views == {1, 2}
S(v) == 2 + 2 * v
R(v) == 3 + 2 * v
SlotCount == 7

Frame(slots) == [table |-> FALSE, slots |-> slots]
Top   == frames[Len(frames)].slots
Left(n) == SubSeq(frames, 1, Len(frames) - n)      \* loom_rt_roots_leave, n times
Slot(s) == frames[1].slots[s]
At(p)   == heap.objects.live[p]

Idle == [op |-> "none", stage |-> "none", cost |-> 0, collected |-> FALSE, arg |-> 0]
Call(op, stage, cost, arg) ==
    [op |-> op, stage |-> stage, cost |-> cost, collected |-> FALSE, arg |-> arg]

Begin(op) == /\ ~Collecting /\ call.op = "none"
             /\ op \in menu.kinds /\ ops < menu.limit
             /\ ops' = ops + 1

\* The allocation of a stage, once a collection it called for is over.
Ready(stage) == /\ ~Collecting
                /\ call.stage = stage
                /\ call.collected \/ ~Pressure(heap, call.cost)

Nothing  == <<0, 0>>
Known(id, n) == <<id, n>>

\* The program's slot s takes pointer p, which stands for k.
Assign(fs, s, p, k) == /\ frames' = [fs EXCEPT ![1].slots[s] = p]
                       /\ env' = [env EXCEPT ![s] = k]

\* Element e after the last one of a list with room.
Stored(h, list, e) ==
    LET o == h.objects.live[list]
    IN  [h EXCEPT !.objects.live[o.data].elems[o.len + 1] = e,
                  !.objects.live[list].len = @ + 1]

Full(list) == At(list).len = At(list).cap

NewCap(o) == Bigger(o.len + 1, Bigger(2 * o.cap, MinCap))

GrowCost(list) ==
    LET o == At(list)
    IN  IF o.data = Null THEN Occupied(NewCap(o)) ELSE GrowthCost(o.cap, NewCap(o))

\* The slow path of reserve, after its collection: a first buffer, a reallocated
\* large one, or a new slice that takes over the initialized elements.
Grown(h, owner) ==
    LET o    == h.objects.live[owner]
        cap  == NewCap(o)
        old  == IF o.data = Null THEN <<>> ELSE h.objects.live[o.data].elems
        rest == [h EXCEPT !.objects.live = [a \in DOMAIN @ \ {o.data} |-> @[a]]]
        s    == Storage(rest, cap)
        data == Data([i \in 1..cap |-> IF i <= o.len THEN old[i] ELSE Raw])
        cost == IF o.data = Null THEN Occupied(cap) ELSE GrowthCost(o.cap, cap)
    IN  [h EXCEPT !.objects = [Put(s.objects, s.at, data) EXCEPT !.live[owner].data = s.at,
                                                                 !.live[owner].cap = cap],
                  !.bytes = @ + cost]

-----------------------------------------------------------------------------
(* Texts.                                                                  *)

NewText == /\ Begin("text")
           /\ call' = Call("text", "text", Occupied(1), 0)
           /\ UNCHANGED <<heap, views, locks, frames, table, cursor, menu, env, shown, value, named>>

\* loom_rt_text_concat: both operands are rooted before the allocation.
Concat == /\ Begin("concat")
          /\ Slot(T) # Null
          /\ frames' = Append(frames, Frame(<<Slot(T), Slot(T)>>))
          /\ call' = Call("concat", "concat", Occupied(1), 0)
          /\ UNCHANGED <<heap, views, locks, table, cursor, menu, env, shown, value, named>>

\* An operand, read again from its root after the allocation.
Operand(i) == Top[i]

FinishConcat ==
    LET n == At(Operand(1)).n + At(Operand(2)).n
        a == Allocated(heap, Text(ops, n))
    IN  /\ Ready("concat")
        /\ heap' = a.h
        /\ Assign(Left(1), T, a.at, Known(ops, 2 * env[T][2]))
        /\ call' = Idle
        /\ UNCHANGED <<views, locks, table, cursor, menu, ops, shown, value, named>>

-----------------------------------------------------------------------------
(* Lists and bytes.                                                        *)

\* loom_rt_list_new, loom_rt_bytes_new and loom_rt_bytes_from_static.
NewList(op, cap) ==
    /\ Begin(op)
    /\ call' = Call(op, "header", Occupied(1), cap)
    /\ UNCHANGED <<heap, views, locks, frames, table, cursor, menu, env, shown, value, named>>

\* loom_rt_list_retain_range, on the new list of removed cells.
Retain(v, start, end, h, removed) ==
    IF start = end THEN views' = views /\ heap' = h
    ELSE /\ views' = Append(views, [source |-> Slot(L), removed |-> removed,
                                    start |-> start, end |-> end])
         /\ heap' = [h EXCEPT !.objects.live[Slot(L)].watched = TRUE]

\* std.list.view.capture
Capture(v, start, end) ==
    /\ Begin("capture")
    /\ Slot(L) # Null /\ Slot(R(v)) = Null
    /\ start <= end /\ end <= At(Slot(L)).len
    /\ call' = Call("capture", "header", Occupied(1), <<v, start, end>>)
    /\ UNCHANGED <<heap, views, locks, frames, table, cursor, menu, env, shown, value, named>>

FinishHeader ==
    LET a == Allocated(heap, List(ops, call.op # "bytes"))
    IN  /\ Ready("header")
        /\ \/ /\ call.op \in {"list", "bytes"} /\ call.arg = 0
              /\ heap' = a.h
              /\ Assign(frames, IF call.op = "list" THEN L ELSE B, a.at, Known(ops, 0))
              /\ call' = Idle
              /\ UNCHANGED <<views, shown>>
           \/ /\ call.op = "pop" \/ (call.op \in {"list", "bytes"} /\ call.arg > 0)
              /\ heap' = a.h
              /\ frames' = Append(frames, Frame(<<a.at>>))
              /\ call' = [call EXCEPT !.stage = "buffer", !.collected = FALSE,
                                      !.cost = Occupied(call.arg)]
              /\ UNCHANGED <<views, env, shown>>
           \/ /\ call.op = "capture"
              /\ LET v     == call.arg[1]
                     start == call.arg[2]
                     end   == call.arg[3]
                     src   == heap.objects.live[Slot(L)]
                 IN  /\ Retain(v, start, end, a.h, a.at)
                     /\ frames' = [frames EXCEPT ![1].slots[S(v)] = Slot(L),
                                                 ![1].slots[R(v)] = a.at]
                     /\ env' = [env EXCEPT ![S(v)] = env[L], ![R(v)] = Known(ops, 0)]
                     /\ shown' = [shown EXCEPT ![v] =
                            [start |-> start, end |-> end,
                             cells |-> [i \in 1..(end - start) |->
                                           At(src.data).elems[start + i].cell]]]
              /\ call' = Idle
        /\ UNCHANGED <<locks, table, cursor, menu, ops, value, named>>

\* The header, read again from its root after the allocation of its buffer.
NewHeader == Top[1]

\* The buffer of a new list; detach goes on to fill the cell it made.
FinishBuffer ==
    LET a == Allocated(heap, Data([i \in 1..call.arg |-> Raw]))
        h == [a.h EXCEPT !.objects.live[NewHeader].data = a.at,
                         !.objects.live[NewHeader].cap = call.arg]
    IN  /\ Ready("buffer")
        /\ \/ /\ call.op = "list"
              /\ heap' = h
              /\ Assign(Left(1), L, NewHeader, Known(ops, 0))
              /\ call' = Idle
           \/ /\ call.op = "bytes"
              /\ heap' = [h EXCEPT !.objects.live[NewHeader].len = call.arg]
              /\ Assign(Left(1), B, NewHeader, Known(ops, 0))
              /\ call' = Idle
           \/ /\ call.op = "pop"
              /\ LET source == At(frames[Len(frames) - 1].slots[1])
                     last   == At(source.data).elems[source.len]
                 IN  heap' = Stored(h, NewHeader, last)
              /\ frames' = [Left(1) EXCEPT ![Len(frames) - 1].slots[2] = NewHeader]
              /\ call' = [call EXCEPT !.stage = "attach", !.cost = 0, !.arg = 3]
              /\ UNCHANGED env
        /\ UNCHANGED <<views, locks, table, cursor, menu, ops, shown, value, named>>

\* buffer_push of the generated code: only growth crosses the runtime.
Push ==
    /\ Begin("push")
    /\ Slot(L) # Null /\ Slot(T) # Null
    /\ At(Slot(L)).len < MaxLen
    /\ IF Full(Slot(L))
       THEN /\ frames' = Append(frames, Frame(<<Slot(L)>>))
            /\ call' = Call("push", "grow", GrowCost(Slot(L)), 0)
            /\ UNCHANGED <<heap, value>>
       ELSE /\ heap' = Stored(heap, Slot(L), Elem(Slot(T), ops'))
            /\ value' = [value EXCEPT ![ops'] = env[T][1]]
            /\ UNCHANGED <<frames, call>>
    /\ UNCHANGED <<views, locks, table, cursor, menu, env, shown, named>>

\* A native call appends its result: read and the environment to bytes, directory
\* names to a list.  The output is rooted across the park.
Native(op, s) ==
    /\ Begin(op)
    /\ Slot(s) # Null
    /\ At(Slot(s)).len < MaxLen
    /\ frames' = Append(frames, Frame(<<Slot(s), Null>>))
    /\ call' = Call(op, "park", 0, 0)
    /\ UNCHANGED <<heap, views, locks, table, cursor, menu, env, shown, value, named>>

\* list_push and its like onto slot k of the top frame: grow first if need be.
Unpark ==
    /\ ~Collecting /\ call.stage = "park"
    /\ \/ /\ frames' = Left(1)                         \* failed, or nothing to add
          /\ call' = Idle
          /\ UNCHANGED heap
       \/ /\ call.op = "dir"
          /\ call' = Call("dir", "text", Occupied(1), 0)
          /\ UNCHANGED <<heap, frames>>
       \/ /\ call.op = "read" /\ Full(Top[1])
          /\ frames' = Append(frames, Frame(<<Top[1]>>))
          /\ call' = Call("read", "grow", GrowCost(Top[1]), 0)
          /\ UNCHANGED heap
       \/ /\ call.op = "read" /\ ~Full(Top[1])
          /\ heap' = Stored(heap, Top[1], Raw)
          /\ frames' = Left(1)
          /\ call' = Idle
    /\ UNCHANGED <<views, locks, table, cursor, menu, ops, env, shown, value, named>>

FinishText ==
    LET a == Allocated(heap, Text(ops, 1))
    IN  /\ Ready("text")
        /\ \/ /\ call.op = "text"
              /\ heap' = a.h
              /\ Assign(frames, T, a.at, Known(ops, 1))
              /\ call' = Idle
              /\ UNCHANGED value
           \/ /\ call.op = "dir" /\ Full(Top[1])
              /\ heap' = a.h
              /\ frames' = Append([frames EXCEPT ![Len(frames)].slots[2] = a.at], Frame(<<Top[1]>>))
              /\ call' = Call("dir", "grow", GrowCost(Top[1]), 0)
              /\ UNCHANGED <<env, value>>
           \/ /\ call.op = "dir" /\ ~Full(Top[1])
              /\ heap' = Stored(a.h, Top[1], Elem(a.at, ops))
              /\ frames' = Left(1)
              /\ call' = Idle
              /\ value' = [value EXCEPT ![ops] = ops]
              /\ UNCHANGED env
        /\ UNCHANGED <<views, locks, table, cursor, menu, ops, shown, named>>

\* The end of reserve, and the store that asked for it: its owner and item are read
\* again from their roots.
FinishGrow ==
    LET h     == Grown(heap, Top[1])
        outer == frames[Len(frames) - 1].slots
    IN  /\ Ready("grow")
        /\ \/ /\ call.op = "push"
              /\ heap' = Stored(h, Slot(L), Elem(Slot(T), ops))
              /\ value' = [value EXCEPT ![ops] = env[T][1]]
              /\ frames' = Left(1)
              /\ call' = Idle
           \/ /\ call.op = "read"
              /\ heap' = Stored(h, outer[1], Raw)
              /\ frames' = Left(2)
              /\ call' = Idle
              /\ UNCHANGED value
           \/ /\ call.op = "dir"
              /\ heap' = Stored(h, outer[1], Elem(outer[2], ops))
              /\ value' = [value EXCEPT ![ops] = h.objects.live[outer[2]].id]
              /\ frames' = Left(2)
              /\ call' = Idle
           \/ /\ call.op = "pop"
              /\ heap' = Stored(h, outer[call.arg], Elem(outer[2], 0))
              /\ frames' = Left(1)
              /\ call' = [call EXCEPT !.stage = "attach", !.cost = 0, !.arg = @ + 1]
              /\ UNCHANGED value
        /\ UNCHANGED <<views, locks, table, cursor, menu, ops, env, shown, named>>

-----------------------------------------------------------------------------
(* Views.                                                                  *)

\* The view's first element that is not yet removed is the last of the list.
ShowsLast(v, list) ==
    /\ v.source = list
    /\ v.start < At(list).len
    /\ v.end - At(v.removed).len = At(list).len

\* The end of list_pop: the last element moves to the text slot.
Popped(list, fs) ==
    LET o == At(list)
        e == At(o.data).elems[o.len]
    IN  /\ heap' = [heap EXCEPT !.objects.live[list].len = @ - 1]
        /\ Assign(fs, T, e.ptr, Known(At(e.ptr).id, At(e.ptr).n))

\* list_pop of the generated code, and the first part of loom_rt_list_detach.
Pop ==
    LET list  == Slot(L)
        shows == SelectSeq(views, LAMBDA v : ShowsLast(v, list))
    IN  /\ Begin("pop")
        /\ list # Null
        /\ At(list).len > 0
        /\ IF At(list).watched /\ shows # <<>>
           THEN /\ frames' = Append(frames, Frame(<<list, Null>> \o
                                [i \in DOMAIN shows |-> shows[i].removed]))
                /\ call' = Call("pop", "header", Occupied(1), 1)
                /\ UNCHANGED <<heap, env>>
           ELSE Popped(list, frames) /\ UNCHANGED call
        /\ UNCHANGED <<views, locks, table, cursor, menu, shown, value, named>>

\* The loop of detach: every view that shows the element gets the one cell.
Attach ==
    LET k == call.arg
    IN  /\ ~Collecting /\ call.stage = "attach"
        /\ \/ /\ k > Len(Top)
              /\ Popped(Top[1], Left(1))
              /\ call' = Idle
           \/ /\ k <= Len(Top) /\ Full(Top[k])
              /\ frames' = Append(frames, Frame(<<Top[k]>>))
              /\ call' = [call EXCEPT !.stage = "grow", !.collected = FALSE,
                                      !.cost = GrowCost(Top[k])]
              /\ UNCHANGED <<heap, env>>
           \/ /\ k <= Len(Top) /\ ~Full(Top[k])
              /\ heap' = Stored(heap, Top[k], Elem(Top[2], 0))
              /\ call' = [call EXCEPT !.arg = k + 1]
              /\ UNCHANGED <<frames, env>>
        /\ UNCHANGED <<views, locks, table, cursor, menu, ops, shown, value, named>>

\* Where position i of view v is kept: a buffer and an index in it.
Place(v, i) ==
    LET position == shown[v].start + i - 1
        removed  == At(Slot(R(v)))
    IN  IF position < shown[v].end - removed.len
        THEN <<At(Slot(S(v))).data, position + 1>>
        ELSE <<At(At(removed.data).elems[shown[v].end - position].ptr).data, 1>>

\* std.list.view.set
ViewSet(v, i) ==
    LET p == Place(v, i)
    IN  /\ Begin("set")
        /\ Slot(R(v)) # Null /\ Slot(T) # Null
        /\ i <= Len(shown[v].cells)
        /\ heap' = [heap EXCEPT !.objects.live[p[1]].elems[p[2]].ptr = Slot(T)]
        /\ value' = [value EXCEPT ![shown[v].cells[i]] = env[T][1]]
        /\ UNCHANGED <<views, locks, frames, table, cursor, call, menu, env, shown, named>>

-----------------------------------------------------------------------------
(* Slots, locks and frame roots: none of these allocates.                  *)

\* The program overwrites slots whose values it no longer needs.
Drop(ss) ==
    /\ Begin("drop")
    /\ \E s \in ss : Slot(s) # Null
    /\ frames' = [frames EXCEPT ![1].slots = [s \in DOMAIN @ |-> IF s \in ss THEN Null ELSE @[s]]]
    /\ env' = [s \in DOMAIN env |-> IF s \in ss THEN Nothing ELSE env[s]]
    /\ UNCHANGED <<heap, views, locks, table, cursor, call, menu, shown, value, named>>

\* loom_rt_shared_access_begin makes the access of an object on first use.
Lock ==
    /\ Begin("lock")
    /\ Slot(L) \in DOMAIN heap.objects.live
    /\ locks' = IF Slot(L) \in DOMAIN locks THEN locks
                ELSE [a \in DOMAIN locks \cup {Slot(L)} |->
                         IF a = Slot(L) THEN env[L][1] ELSE locks[a]]
    /\ UNCHANGED <<heap, views, frames, table, cursor, call, menu, env, shown, value, named>>

\* Store::position, 0 for None.
Position(id) ==
    IF table.slots[id[1]].generation = id[2] THEN table.slots[id[1]].position ELSE 0

\* The identity the next insertion gives out.
NextRoot ==
    IF table.free = <<>> THEN <<Len(table.slots) + 1, 1>>
    ELSE <<Last(table.free), table.slots[Last(table.free)].generation + 1>>

RootInsert ==
    LET id   == NextRoot
        slot == [generation |-> id[2], position |-> Len(table.active) + 1]
    IN  /\ Begin("root")
        /\ Slot(T) # Null
        /\ table' = [active |-> Append(table.active, [slot |-> id[1], ptr |-> Slot(T)]),
                     slots  |-> IF id[1] > Len(table.slots) THEN Append(table.slots, slot)
                                ELSE [table.slots EXCEPT ![id[1]] = slot],
                     free   |-> IF table.free = <<>> THEN <<>> ELSE Front(table.free)]
        /\ named' = Append(named, [id |-> id, object |-> env[T][1]])
        /\ UNCHANGED <<heap, views, locks, frames, cursor, call, menu, env, shown, value>>

RootReplace(k) ==
    LET id == named[k].id IN
    /\ Begin("root")
    /\ Slot(T) # Null
    /\ Position(id) # 0
    /\ table' = [table EXCEPT !.active[Position(id)].ptr = Slot(T)]
    /\ named' = [named EXCEPT ![k].object = env[T][1]]
    /\ UNCHANGED <<heap, views, locks, frames, cursor, call, menu, env, shown, value>>

\* swap_remove: the last entry takes the place of the removed one.
SwapRemove(active, p) ==
    [i \in 1..(Len(active) - 1) |-> IF i = p THEN Last(active) ELSE active[i]]

\* Mutant: the slot of the entry that moved keeps its old position.
RemovedUnpatched(p) ==
    [table EXCEPT !.active = SwapRemove(@, p),
                  !.slots[table.active[p].slot].position = 0,
                  !.free = Append(@, table.active[p].slot)]

Removed(p) ==
    [table EXCEPT !.active = SwapRemove(@, p),
                  !.slots = [k \in DOMAIN @ |->
                      IF k = table.active[p].slot THEN [@[k] EXCEPT !.position = 0]
                      ELSE IF k = Last(table.active).slot THEN [@[k] EXCEPT !.position = p]
                      ELSE @[k]],
                  !.free = Append(@, table.active[p].slot)]

RootRemove(k) ==
    LET id == named[k].id IN
    /\ Begin("root")
    /\ Position(id) # 0
    /\ table' = Removed(Position(id))
    /\ named' = [named EXCEPT ![k].object = 0]
    /\ UNCHANGED <<heap, views, locks, frames, cursor, call, menu, env, shown, value>>

-----------------------------------------------------------------------------
Init ==
    /\ heap \in [objects : {NoObjects}, previous : {NoObjects}, bytes : {0},
                 threshold : {MinThreshold}, work : {<<>>}, collecting : {FALSE},
                 stress : BOOLEAN]
    /\ views = <<>> /\ locks = <<>>
    /\ frames = <<Frame([s \in 1..SlotCount |-> Null]), [table |-> TRUE, slots |-> <<>>]>>
    /\ table = [active |-> <<>>, slots |-> <<>>, free |-> <<>>]
    /\ cursor = Off /\ call = Idle
    /\ menu \in Menus /\ ops = 0
    /\ env = [s \in 1..SlotCount |-> Nothing]
    /\ shown = [v \in Views |-> [start |-> 0, end |-> 0, cells |-> <<>>]]
    /\ value = [c \in 1..MaxOps |-> 0]
    /\ named = <<>>

Collector == CollectFirst \/ CollectParked \/ TraceFrame \/ TraceWork \/ EndCollect

Next ==
    \/ Collector
    \/ NewText \/ Concat \/ FinishConcat \/ FinishText
    \/ \E cap \in {0, 1} : NewList("list", cap) \/ NewList("bytes", cap)
    \/ FinishHeader \/ FinishBuffer \/ Push \/ FinishGrow
    \/ Native("read", B) \/ Native("dir", L) \/ Unpark
    \/ Pop \/ Attach
    \/ \E v \in Views : \/ \E start, end \in 0..MaxLen : Capture(v, start, end)
                        \/ \E i \in 1..MaxLen : ViewSet(v, i)
    \/ \E ss \in {{L}, {T}, {B}} \cup {{S(v), R(v)} : v \in Views} : Drop(ss)
    \/ Lock \/ RootInsert
    \/ \E k \in DOMAIN named : RootReplace(k) \/ RootRemove(k)

Spec == Init /\ [][Next]_vars

-----------------------------------------------------------------------------
(* Properties.                                                             *)

Live == DOMAIN heap.objects.live

\* Outside a collection every root slot of the program holds the address of the very
\* object it stands for, and no object keeps a pointer to storage that is gone: no
\* call uses a pointer from before a collection.
Denotes ==
    ~Collecting =>
        /\ \A s \in 1..SlotCount :
               IF env[s] = Nothing THEN Slot(s) = Null
               ELSE /\ Slot(s) \in Live
                    /\ At(Slot(s)).id = env[s][1]
                    /\ At(Slot(s)).kind = "text" => At(Slot(s)).n = env[s][2]
        /\ \A a \in Live :
               At(a).kind = "list" =>
                   /\ At(a).data = Null => At(a).cap = 0
                   /\ At(a).data # Null => At(a).data \in Live /\ At(At(a).data).size = At(a).cap
                   /\ At(a).len <= At(a).cap
                   /\ At(a).managed => \A i \in 1..At(a).len : At(At(a).data).elems[i].ptr \in Live

\* A view shows the elements it was made over, in their latest values, however the
\* list was popped and refilled, overlapped by other views and moved.
ViewsOK ==
    ~Collecting =>
        \A v \in Views : Slot(R(v)) # Null =>
            \A i \in DOMAIN shown[v].cells :
                LET p == Place(v, i)
                    e == At(p[1]).elems[p[2]]
                IN  /\ e.cell = shown[v].cells[i]
                    /\ At(e.ptr).id = value[e.cell]

\* A frame root leads to its own object until it is removed and nowhere afterwards,
\* although slots are reused and entries change places.
RootsOK ==
    ~Collecting =>
        \A k \in DOMAIN named :
            LET position == Position(named[k].id)
            IN  IF named[k].object = 0 THEN position = 0
                ELSE /\ position \in DOMAIN table.active
                     /\ table.active[position].ptr \in Live
                     /\ At(table.active[position].ptr).id = named[k].object

\* An access belongs to the object it was made for: an object at a reused address
\* does not find the access of a dead one.
LocksFollow ==
    ~Collecting => \A a \in DOMAIN locks : a \in Live /\ At(a).id = locks[a]

\* The bytes that decide when to collect are those of the large objects and of the
\* slices taken from the arena, abandoned ones included, and slices never overlap.
BytesOK ==
    LET large   == {a \in Live : Owned(At(a).size)}
        Size(a) == Occupied(At(a).size)
    IN  /\ heap.bytes = MapThenSumSet(Size, large) + heap.objects.filled
        /\ \A a, b \in Live \ large : a < b => a + Size(a) <= b
=============================================================================
