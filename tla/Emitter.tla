------------------------------ MODULE Emitter ------------------------------
(* The native code of a function and of its cleanup callbacks, as far as   *)
(* roots, control flow and safe points go (llvm.rs, llvm_cleanup.rs,       *)
(* llvm_gc_lower.rs).  Every expression leaves its value in a register     *)
(* named by its path.  A local has its own storage and, when it is rooted, *)
(* a root slot; large locals and captured ones live in the slot itself.    *)
EXTENDS RootSlots

\* An instruction: d the register or the place written, s the registers
\* read, x the rest.
I(op, d, s, x) == [op |-> op, d |-> d, s |-> s, x |-> x]

Label(p, name) == I("label", <<p, name>>, <<>>, 0)
Jump(p, name) == I("jump", <<p, name>>, <<>>, 0)
Branch(s, p, yes, no) == I("branch", <<>>, <<s>>, <<<<p, yes>>, <<p, no>>>>)

\* The block being filled has no terminator yet.
live(code) == code = <<>> \/ Last(code).op \notin {"jump", "branch", "switch", "ret", "unreachable"}

\* Code that follows only where control can still arrive.
Then(code, more) == IF live(code) THEN code \o more ELSE code

When1(condition, instruction) == IF condition THEN <<instruction>> ELSE <<>>

\* Places in memory: the storage and the slot of a local, a temporary slot,
\* and, in a callback, the same of the owner's frame.
Storage(l) == <<"storage", l, 0>>
LocalSlot(l) == <<"local", l, 0>>
TemporarySlot(k) == <<"temporary", k, 0>>
Owned(place) == <<place[1], place[2], 1>>

InSlot(c, l) == l \in c.roots.locals /\ Large(c.f.locals[l])
PlaceOf(c, l) ==
    IF l \in DOMAIN c.captures THEN Owned(c.captures[l])
    ELSE IF InSlot(c, l) THEN LocalSlot(l) ELSE Storage(l)

\* Locals whose storage is their slot need no copy back.
Shadowed(c) == {l \in c.roots.locals : ~InSlot(c, l)}
restore_locals(c, p) ==
    LET wanted == IF p \in DOMAIN c.plan.restores THEN c.plan.restores[p] \cup c.plan.pinned
                  ELSE Shadowed(c)
    IN When1(c.roots.locals # {}, I("restore", wanted \cap Shadowed(c), <<>>, 0))

\* A block is no continuation of an expression: it restores every local.
Everything == <<0, 0>>

\* Mutant: a captured local is cleared like any other.
clear_even_pinned(c, locals) ==
    LET dead == locals \cap c.roots.locals
    IN When1(dead # {}, I("clear", dead, <<>>, [l \in dead |-> c.f.locals[l]]))

clear_dead_local(c, locals) ==
    LET dead == (locals \cap c.roots.locals) \ c.plan.pinned
    IN When1(dead # {}, I("clear", dead, <<>>, [l \in dead |-> c.f.locals[l]]))

store_local(c, l, s, words) ==
    When1(c.f.locals[l] # "U",
          I("store", {PlaceOf(c, l)} \cup (IF l \in c.roots.locals THEN {LocalSlot(l)} ELSE {}), <<s>>, words))

reload(c, p) ==
    When1(p \in DOMAIN c.roots.expressions,
          I("reload", p, <<>>, TemporarySlot(c.roots.expressions[p])))

Ascending(s) == SelectSeq([i \in 1..Max(s \cup {0}) |-> i], LAMBDA i : i \in s)

SetToMarkers(op, slots) ==
    LET order == Ascending(slots)
    IN [i \in DOMAIN order |-> I(op, TemporarySlot(order[i]), <<>>, 0)]

worker_checkpoint(c) ==
    IF c.shared THEN <<I("checkpoint", <<>>, <<>>, 0)>> \o restore_locals(c, Everything) ELSE <<>>

leave_roots(c) ==
    LET locals == Ascending(c.roots.locals)
    IN [i \in DOMAIN locals |-> I("end", LocalSlot(locals[i]), <<>>, 0)]
         \o SetToMarkers("end", 1..c.roots.temporaries)

\* A field of a record in a local is read in place.
RECURSIVE InLocal(_)
InLocal(e) == IF e.k = "field" THEN InLocal(e.a[1]) ELSE e.k = "local"
LocalOf(e) == CHOOSE l \in field_local(e) : TRUE

ArmLabels == <<"arm1", "arm2">>

RECURSIVE Expr(_, _, _), ExprInner(_, _, _), BlockCode(_, _, _)
Expr(c, e, p) ==
    LET slot == c.roots.expressions[p]
    IN Then(ExprInner(c, e, p),
            (IF p \in DOMAIN c.roots.expressions
             THEN <<I("store", {TemporarySlot(slot)}, <<p>>, <<>>),
                    I("begin", TemporarySlot(slot), <<>>, 0)>>
             ELSE <<>>)
            \o (IF p \in DOMAIN c.roots.retired THEN SetToMarkers("end", c.roots.retired[p]) ELSE <<>>)
            \o (IF p \in DOMAIN c.plan.expressions THEN clear_dead_local(c, c.plan.expressions[p]) ELSE <<>>))

\* Operands in order, then those that may have moved, again.
operands(c, e, p) ==
    LET again(i) == reload(c, Arg(p, i))
    IN Then(Iterate(LAMBDA code, i : Then(code, Expr(c, e.a[i], Arg(p, i))), <<>>, Len(e.a)),
            Flat(Len(e.a), again))

\* The branches of a conditional or a match, joined in the register p.
RECURSIVE JoinArms(_, _, _, _, _)
JoinArms(c, e, p, arms, code) ==
    IF arms = <<>> THEN code
    ELSE LET arm == Head(arms)
             end == Then(arm.code, (IF e.t # "U" THEN <<I("move", p, <<arm.value>>, 0)>> ELSE <<>>)
                                   \o <<Jump(p, "done")>>)
         IN JoinArms(c, e, p, Tail(arms), code \o <<Label(p, arm.name)>> \o end)
join(c, e, p, arms) ==
    JoinArms(c, e, p, arms, <<>>)
        \o <<Label(p, "done")>>
        \o When1(\A i \in DOMAIN arms : ~live(arms[i].code), I("unreachable", <<>>, <<>>, 0))

Arm(c, e, p, j, name, stores) ==
    [name |-> name, value |-> TailOf(Body(p, j)), code |-> stores \o BlockCode(c, e.b[j], Body(p, j))]

\* The registers of the operands, and their reload after a safe point.
Registers(e, p) == [i \in DOMAIN e.a |-> Arg(p, i)]
Again(c, e, p) == Flat(Len(e.a), LAMBDA i : reload(c, Arg(p, i)))

\* Shared storage is opened before it is used: the frame of a store, the list
\* handles of a primitive (the pushed item is no access).
Opened(e) ==
    {i \in DOMAIN e.a : IF e.k = "store" THEN i = 1 ELSE e.a[i].t = "L" /\ (i = 1 \/ e.k # "push")}
access_begin(c, e, p) ==
    LET order == Ascending(Opened(e))
    IN IF c.shared /\ order # <<>>
       THEN <<I("access", <<>>, [i \in DOMAIN order |-> Arg(p, order[i])], 0)>>
            \o restore_locals(c, p) \o Again(c, e, p)
       ELSE <<>>

\* A full buffer grows, which collects, before the item is stored.
buffer_push(c, e, p) ==
    <<I("either", <<>>, <<>>, <<<<p, "grow">>, <<p, "ready">>>>), Label(p, "grow"),
      I("allocate", <<>>, <<Arg(p, 1)>>, "grow")>> \o restore_locals(c, p) \o Again(c, e, p)
    \o <<Jump(p, "ready"), Label(p, "ready"), I("observe", <<>>, Registers(e, p), "push")>>

primitive_values(c, e, p) ==
    CASE e.k = "len" -> <<I("observe", p, Registers(e, p), "len")>>
      [] e.k = "concat" -> <<I("allocate", p, Registers(e, p), "concat")>> \o restore_locals(c, p)
      [] e.k = "push" -> buffer_push(c, e, p)
      [] e.k = "each" ->
           <<I("each", TemporarySlot(c.roots.expressions[Arg(p, 1)]), <<>>, e.x)>> \o restore_locals(c, p)
primitive(c, e, p) ==
    Then(operands(c, e, p), (IF e.k = "each" THEN <<>> ELSE access_begin(c, e, p)) \o primitive_values(c, e, p))

\* Allocated first, initialised with the operands as the collection left them.
dyn_box(c, e, p) ==
    Then(operands(c, e, p), <<I("allocate", p, <<>>, "new")>> \o restore_locals(c, p) \o Again(c, e, p)
                            \o <<I("observe", <<>>, <<p>> \o Registers(e, p), "init")>>)
frame_store(c, e, p) ==
    Then(operands(c, e, p), access_begin(c, e, p) \o <<I("observe", p, Registers(e, p), "store")>>)

\* A direct call to a function that cannot collect restores nothing.
dyn_call(c, e, p) ==
    Then(operands(c, e, p),
         <<I("call", p, Registers(e, p), e.x)>>
         \o (IF e.k = "dyn" \/ e.x \in c.alloc THEN restore_locals(c, p) ELSE <<>>))

short_circuit(c, e, p) ==
    Then(Expr(c, e.a[1], Arg(p, 1)),
         <<I("move", p, <<Arg(p, 1)>>, 0), Branch(Arg(p, 1), p, "rhs", "done"), Label(p, "rhs")>>
         \o Then(Expr(c, e.a[2], Arg(p, 2)), <<I("move", p, <<Arg(p, 2)>>, 0), Jump(p, "done")>>)
         \o <<Label(p, "done")>>)

\* An arm stores its bindings, each to storage and slot, before its body.
Bindings(c, m, scrutinee) ==
    (IF m.whole = 0 THEN <<>> ELSE store_local(c, m.whole, scrutinee, <<>>))
    \o Flat(Len(m.binds), LAMBDA i : IF m.binds[i] = 0 THEN <<>>
                                     ELSE store_local(c, m.binds[i], scrutinee, <<i + 1>>))
match_expr(c, e, p) ==
    Then(Expr(c, e.a[1], Arg(p, 1)),
         <<I("switch", p, Registers(e, p), [j \in DOMAIN e.x |-> [tag |-> e.x[j].tag, to |-> <<p, ArmLabels[j]>>]])>>
         \o join(c, e, p, [j \in DOMAIN e.b |->
                             Arm(c, e, p, j, ArmLabels[j], Bindings(c, e.x[j], Arg(p, 1)))]))

Conditional(c, e, p) ==
    Then(Expr(c, e.a[1], Arg(p, 1)),
         <<Branch(Arg(p, 1), p, "then", "else")>>
         \o join(c, e, p, <<Arm(c, e, p, 1, "then", <<>>),
                            IF Len(e.b) = 2 THEN Arm(c, e, p, 2, "else", <<>>)
                            ELSE [name |-> "else", value |-> <<>>, code |-> <<>>]>>))

ExprInner(c, e, p) ==
    CASE e.k = "local" -> <<I("load", p, <<>>, [place |-> PlaceOf(c, e.x), words |-> <<>>])>>
      [] e.k = "text" -> <<I("literal", p, <<>>, 0)>>
      [] e.k = "field" /\ InLocal(e) ->
           <<I("load", p, <<>>, [place |-> PlaceOf(c, LocalOf(e)), words |-> <<e.x>>])>>
      [] e.k = "field" -> Then(operands(c, e, p), <<I("project", p, Registers(e, p), e.x)>>)
      [] e.k = "wrap" -> Then(operands(c, e, p), <<I("move", p, Registers(e, p), 0)>>)
      [] e.k = "pack" -> Then(operands(c, e, p), <<I("pack", p, Registers(e, p), e.x)>>)
      [] e.k = "logic" -> short_circuit(c, e, p)
      [] e.k = "binary" ->
           Then(Then(Expr(c, e.a[1], Arg(p, 1)), Expr(c, e.a[2], Arg(p, 2))),
                reload(c, Arg(p, 1)) \o <<I("observe", p, Registers(e, p), "binary")>>)
      [] e.k = "store" -> frame_store(c, e, p)
      [] e.k = "new" -> dyn_box(c, e, p)
      [] e.k \in {"len", "concat", "push", "each"} -> primitive(c, e, p)
      [] e.k \in {"call", "dyn"} -> dyn_call(c, e, p)
      [] e.k = "block" ->
           Then(BlockCode(c, e.b[1], Body(p, 1)),
                When1(e.t # "U", I("move", p, <<TailOf(Body(p, 1))>>, 0)))
      [] e.k = "if" -> Conditional(c, e, p)
      [] e.k = "match" -> match_expr(c, e, p)

StatementAfter(c, n, p, value) ==
    CASE n.k \in {"let", "assign"} -> Then(value, store_local(c, n.x, Arg(p, 1), <<>>))
      [] n.k = "return" ->
           Then(value, leave_roots(c)
                       \o <<I("ret", <<>>, IF n.a = <<>> THEN <<>> ELSE <<Arg(p, 1)>>, 0)>>)
      [] n.k = "assert" -> Then(value, <<I("guard", <<>>, <<Arg(p, 1)>>, n.x)>>)
      [] n.k = "expr" -> value
      [] n.k = "defer" -> <<I("cleanup_push", <<>>, <<>>, n.x)>>
      [] n.k = "cleanup" ->
           <<I("cleanup_pop", <<>>, <<>>, n.x), I("callback", <<>>, <<>>, n.x)>>
           \o restore_locals(c, Everything)
      [] n.k \in {"break", "continue"} ->
           (IF p \in DOMAIN c.roots.exits THEN SetToMarkers("end", c.roots.exits[p]) ELSE <<>>)
           \o <<Jump(c.loop, IF n.k = "break" THEN "exit" ELSE "test")>>
      [] n.k = "while" ->
           <<Jump(p, "test"), Label(p, "test")>> \o worker_checkpoint(c)
           \o Then(value, <<Branch(Arg(p, 1), p, "run", "exit"), Label(p, "run")>>
                          \o Then(BlockCode([c EXCEPT !.loop = p], n.b[1], Body(p, 1)), <<Jump(p, "test")>>)
                          \o <<Label(p, "exit")>>)
Statement(c, n, p) ==
    Once(IF n.a = <<>> THEN <<>> ELSE Expr(c, n.a[1], Arg(p, 1)), LAMBDA value : StatementAfter(c, n, p, value))

Retiring(c, code, retired, p) ==
    Then(code, IF p \in DOMAIN retired THEN clear_dead_local(c, retired[p]) ELSE <<>>)

BlockCode(c, b, p) ==
    Then(Once(Iterate(LAMBDA code, i : Then(code, Retiring(c, Statement(c, b.s[i], Stmt(p, i)), c.plan.retired, Stmt(p, i))),
                      Retiring(c, <<>>, c.plan.entries, p), Len(b.s)),
              LAMBDA stated : IF b.tail = <<>> THEN stated ELSE Then(stated, Expr(c, b.tail[1], TailOf(p)))),
         When1(~b.falls, I("unreachable", <<>>, <<>>, 0)))

\* The frame begins with every slot of a local holding its parameter or null.
Prologue(c, params) ==
    LET locals == Ascending(c.roots.locals)
        root(i) == <<I("root", LocalSlot(locals[i]), <<>>,
                       [type |-> c.f.locals[locals[i]], parameter |-> locals[i] <= params]),
                     I("begin", LocalSlot(locals[i]), <<>>, 0)>>
    IN Flat(Len(locals), root)

\* cleanup::plans: what each registered body captures and declares.
plans(f) ==
    LET ns == BlockNodes(f.body, FALSE)
        defers == SelectSeq(ns, LAMBDA n : n.k = "defer")
        plan(n) == LET inner == BlockNodes(n.b[1], FALSE)
                       declared == Lets(inner) \cup Patterns(inner)
                   IN [id |-> n.x, body |-> n.b[1], locals |-> declared,
                       captures |-> {l \in (Reads(inner) \cup Assigns(inner)) \ declared : f.locals[l] # "U"}]
    IN [i \in DOMAIN defers |-> plan(defers[i])]

\* Descriptor writes: a marker that repeats what its basic block already
\* knows, and one that only precedes the return of the frame, write nothing.
lower(code) ==
    LET marker(i) == code[i].op \in {"begin", "end"}
        begun == {code[i].d : i \in {j \in DOMAIN code : code[j].op = "begin"}}
        ends(i) == ~live(<<code[i]>>) \/ code[i].op \in {"label", "guard"}
        known(i) == \E j \in 1..i - 1 : /\ code[j].op = code[i].op /\ code[j].d = code[i].d
                                       /\ \A k \in j + 1..i - 1 : ~ends(k) /\ (marker(k) => code[k].d # code[i].d)
        atReturn(i) == \E j \in i + 1..Len(code) : code[j].op = "ret" /\ \A k \in i..j - 1 : code[k].op = "end"
        kept == SelectSeq([i \in DOMAIN code |-> i],
                          LAMBDA i : marker(i) => code[i].d \in begun /\ ~known(i) /\ ~atReturn(i))
    IN <<>> \o [n \in DOMAIN kept |-> code[kept[n]]]

\* What code generation knows while it emits: `borrowed` are the captured
\* locals that a callback finds in its owner's frame.
Emission(c, fn, roots, plan, borrowed) ==
    [alloc |-> c.alloc, shared |-> c.shared, f |-> fn, roots |-> roots, plan |-> plan, loop |-> <<>>,
     captures |-> [l \in borrowed |-> IF managed(fn.locals[l]) THEN LocalSlot(l) ELSE Storage(l)]]
Planned(c, fn, roots, body, params, pinned, borrowed) ==
    Emission(c, fn, roots, IF roots.locals \cup roots.borrowed = {} THEN EmptyPlan({})
                           ELSE LivePlan(c, body, params, pinned), borrowed)

Returned(c, code, s) == Then(code, leave_roots(c) \o <<I("ret", <<>>, s, 0)>>)

\* The code of a function: its frame, its preconditions and its body.
FunctionBody(c, fn) ==
    Prologue(c, fn.params) \o worker_checkpoint(c)
      \o Flat(Len(fn.requires), LAMBDA i : Expr(c, fn.requires[i], Requirement(i))
                                           \o <<I("guard", <<>>, <<Requirement(i)>>, 0 - i)>>)
      \o Returned(c, BlockCode(c, fn.body, <<>>), IF fn.result = "U" THEN <<>> ELSE <<TailOf(<<>>)>>)
FunctionCode(q, fn, allocating, latent, captured) ==
    Once(IF allocating \/ \E l \in captured : managed(fn.locals[l])
         THEN RootFrame(q, fn, fn.body, TRUE, DOMAIN fn.locals \ latent, {}) ELSE NoRoots,
         LAMBDA roots :
    Once(Planned(q, fn, roots, fn.body, fn.params, captured, {}), LAMBDA c :
    Once(FunctionBody(c, fn), lower)))

\* The code of a cleanup callback: it works on its owner's slots.
CallbackBody(c, body) == Prologue(c, 0) \o Returned(c, BlockCode(c, body, <<>>), <<>>)
CallbackCode(q, fn, cleanup) ==
    Once(RootFrame(q, fn, cleanup.body, FALSE, cleanup.locals, cleanup.captures), LAMBDA roots :
    Once(Planned(q, fn, roots, cleanup.body, 0, {}, cleanup.captures), LAMBDA c :
    Once(CallbackBody(c, cleanup.body), lower)))

\* The code of a program: for every function, its own (id 0) and that of its
\* cleanups.
UnitCode(q, fn, allocating, cleanups) ==
    <<[id |-> 0, code |-> FunctionCode(q, fn, allocating,
                                       UNION {cleanups[i].locals : i \in DOMAIN cleanups},
                                       UNION {cleanups[i].captures : i \in DOMAIN cleanups})]>>
    \o [i \in DOMAIN cleanups |-> [id |-> cleanups[i].id, code |-> CallbackCode(q, fn, cleanups[i])]]
Compile(program, shared) ==
    Once([alloc |-> allocating_functions(program, shared), shared |-> shared], LAMBDA q :
         <<>> \o [f \in DOMAIN program |->
                    Once(plans(program[f]), LAMBDA cleanups : UnitCode(q, program[f], f \in q.alloc, cleanups))])
=============================================================================
