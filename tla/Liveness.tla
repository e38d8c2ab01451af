------------------------------ MODULE Liveness ------------------------------
(* Which calls may collect (llvm_gc.rs) and which locals are live at the   *)
(* boundaries of expressions, statements and blocks (llvm_gc_liveness.rs). *)
(* `c` is the context of an analysis: c.alloc the functions that may       *)
(* collect, c.shared whether the program runs workers.                     *)
EXTENDS Checked, TLC

allocates(e) == e.k \in {"concat", "push", "each"}

RECURSIVE may_allocate(_, _), block_allocates(_, _)
may_allocate(c, e) ==
    \/ c.shared
    \/ e.k \in {"new", "dyn"}
    \/ allocates(e)
    \/ e.k = "call" /\ e.x \in c.alloc
    \/ \E i \in DOMAIN e.a : may_allocate(c, e.a[i])
    \/ \E j \in DOMAIN e.b : block_allocates(c, e.b[j])
block_allocates(c, b) ==
    \/ \E i \in DOMAIN b.s : /\ b.s[i].k # "defer"
                             /\ \/ \E j \in DOMAIN b.s[i].a : may_allocate(c, b.s[i].a[j])
                                \/ \E j \in DOMAIN b.s[i].b : block_allocates(c, b.s[i].b[j])
    \/ \E i \in DOMAIN b.tail : may_allocate(c, b.tail[i])

\* The functions that may reach a collection, closed under direct calls; with
\* workers every call is a safe point.
RECURSIVE CallersOf(_, _)
\* "dyn" always allocates, as a DynCall does and an IndirectCall in a library; that an
\* executable looks for the functions an IndirectCall can mean is left out.
Reaches(ns, found) ==
    \E i \in DOMAIN ns : \/ ns[i].k \in {"new", "dyn"} \/ allocates(ns[i])
                         \/ ns[i].k = "call" /\ ns[i].x \in found
CallersOf(program, found) ==
    Once(found \cup {f \in DOMAIN program : Reaches(AllNodes(program[f]), found)}, LAMBDA more :
         IF more = found THEN found ELSE CallersOf(program, more))
allocating_functions(program, shared) ==
    IF shared THEN DOMAIN program ELSE CallersOf(program, {})

\* A plan maps paths to the locals to retire there; restores, to the locals a
\* collecting expression reloads.
EmptyPlan(pinned) ==
    [entries |-> <<>>, retired |-> <<>>, expressions |-> <<>>, restores |-> <<>>, pinned |-> pinned]

\* The last pass over a loop wins.
Insert(map, p, locals) == (p :> locals) @@ map
expression_retirement(map, p, locals) ==
    IF locals = {} THEN [q \in DOMAIN map \ {p} |-> map[q]] ELSE Insert(map, p, locals)

When(condition, locals) == IF condition THEN locals ELSE {}

RECURSIVE field_local(_)
field_local(e) ==
    IF e.k = "local" THEN {e.x} ELSE IF e.k = "field" THEN field_local(e.a[1]) ELSE {}

\* Mutant: the operand right after the i-th is not looked at.
LaterSkipsNext(c, e, i) == \E k \in i + 2..Len(e.a) : may_allocate(c, e.a[k])

\* Some operand after the i-th may collect.
Later(c, e, i) == \E k \in i + 1..Len(e.a) : may_allocate(c, e.a[k])

\* The analysis runs backwards over s = [live, defs, plan]; `future` says that
\* a collection may follow, `at` what is live at the ends of the loop.
\* The blocks of a conditional or a match are all analysed from what is live
\* after it; inside[j] is live at the entry of block j, before[j] before its
\* bindings.
EmptyArms(s) == [s |-> s, inside |-> <<>>, before |-> <<>>]
NextArm(q, r, bound) ==
    [s |-> [r EXCEPT !.defs = @ \cup bound], inside |-> Append(q.inside, r.live),
     before |-> Append(q.before, r.live \ bound)]

retire(r, p, locals) == [r EXCEPT !.plan.expressions = expression_retirement(@, p, locals)]

\* What the scrutinee is analysed from: each block retires what only its
\* siblings use, a conditional also what no later code uses.
Scrutinised(c, e, p, live, future, arms) ==
    LET collects(j) == future \/ block_allocates(c, e.b[j])
        branches == UNION Range(arms.before) \cup When(e.k = "if" /\ Len(e.b) = 1, live)
        enter(entries, j) == Insert(entries, Body(p, j), When(collects(j), branches \ arms.inside[j]))
        r == IF e.k = "if" THEN retire(arms.s, p, When(future, branches \ live)) ELSE arms.s
    IN [r EXCEPT !.live = branches, !.plan.entries = Iterate(enter, @, Len(e.b))]

RECURSIVE expression(_, _, _, _, _, _), block(_, _, _, _, _, _), WhileHead(_, _, _, _, _, _, _)

Operand(c, e, p, i, s, at, future) == expression(c, e.a[i], Arg(p, i), s, at, future)
Arms(c, e, p, s, at, future) ==
    Iterate(LAMBDA q, j : NextArm(q, block(c, e.b[j], Body(p, j), [q.s EXCEPT !.live = s.live], at, future),
                                  IF e.k = "match" THEN ArmLocals(e.x[j]) ELSE {}),
            EmptyArms(s), Len(e.b))
Operands(c, e, p, s, at, future) ==
    Iterate(LAMBDA q, k : Operand(c, e, p, Len(e.a) + 1 - k, q, at, future \/ Later(c, e, Len(e.a) + 1 - k)),
            s, Len(e.a))
ExpressionFrom(c, e, p, s, at, future) ==
    CASE e.k = "local" ->
           [retire(s, p, When(future /\ e.x \notin s.live /\ e.t \notin {"U", "B"}, {e.x}))
               EXCEPT !.live = @ \cup {e.x}]
      [] e.k = "field" ->
           Operand(c, e, p, 1, retire(s, p, When(future, field_local(e.a[1]) \ s.live)), at, future)
      [] e.k = "logic" ->
           Once(Operand(c, e, p, 2, s, at, future), LAMBDA r :
                Operand(c, e, p, 1, [retire(r, p, When(future, r.live \ s.live)) EXCEPT !.live = @ \cup s.live],
                        at, future \/ Later(c, e, 1)))
      [] e.k = "block" -> block(c, e.b[1], Body(p, 1), s, at, future)
      [] e.k \in {"if", "match"} ->
           Once(Arms(c, e, p, s, at, future), LAMBDA arms :
                Operand(c, e, p, 1, Scrutinised(c, e, p, s.live, future, arms), at,
                        future \/ \E j \in DOMAIN e.b : block_allocates(c, e.b[j])))
      [] OTHER ->
           Operands(c, e, p, s, at,
                    future \/ e.k \in {"new", "dyn"} \/ allocates(e) \/ (e.k = "call" /\ e.x \in c.alloc))
expression(c, e, p, s, at, future) ==
    Once(IF may_allocate(c, e) THEN [s EXCEPT !.plan.restores = Insert(@, p, s.live)] ELSE s, LAMBDA r :
         ExpressionFrom(c, e, p, r, at, future))

\* One statement done: what it alone used is retired after it.
Stated(q, sp, r, future) ==
    [s |-> [r EXCEPT !.plan.retired = Insert(@, sp, When(q.future, (r.live \cup r.defs) \ q.s.live)),
                     !.defs = @ \cup q.s.defs],
     future |-> future]

\* What is live before a statement transfers control.
Transferred(n, r, at) ==
    CASE n.k \in {"let", "assign"} -> [r EXCEPT !.live = @ \ {n.x}, !.defs = {n.x}]
      [] n.k = "return" -> [r EXCEPT !.live = {}]
      [] n.k = "break" -> [r EXCEPT !.live = at.exit]
      [] n.k = "continue" -> [r EXCEPT !.live = at.head]
      [] OTHER -> r
StatementFrom(c, n, p, r, at, collects, future) ==
    IF n.k = "while" THEN WhileHead(c, n, p, r, at, future \/ collects, {})
    ELSE IF n.a = <<>> THEN Transferred(n, r, at)
    ELSE expression(c, n.a[1], Arg(p, 1), Transferred(n, r, at), at, n.k # "return" /\ future)
statement(c, n, p, q, at) ==
    Once(\/ \E j \in DOMAIN n.a : may_allocate(c, n.a[j])
         \/ n.k # "defer" /\ \E j \in DOMAIN n.b : block_allocates(c, n.b[j]), LAMBDA collects :
    Once(StatementFrom(c, n, p, [q.s EXCEPT !.defs = {}], at, collects, q.future), LAMBDA r :
         Stated(q, p, r, n.k \in {"break", "continue"} \/ collects \/ (n.k # "return" /\ q.future))))

block(c, b, p, s, at, future) ==
    Iterate(LAMBDA q, k : statement(c, b.s[Len(b.s) + 1 - k], Stmt(p, Len(b.s) + 1 - k), q, at),
            IF b.tail = <<>> THEN [s |-> s, future |-> future]
            ELSE [s |-> expression(c, b.tail[1], TailOf(p), s, at, future),
                  future |-> future \/ may_allocate(c, b.tail[1])],
            Len(b.s)).s

\* What is live at the head of a loop: the least fixed point.
WhileHead(c, n, sp, r, at, future, head) ==
    Once(block(c, n.b[1], Body(sp, 1), [r EXCEPT !.live = head], [exit |-> r.live, head |-> head], future),
         LAMBDA body :
         Once(expression(c, n.a[1], Arg(sp, 1), [body EXCEPT !.live = @ \cup r.live], at, future),
              LAMBDA test :
              IF test.live # head THEN WhileHead(c, n, sp, [test EXCEPT !.live = r.live], at, future, test.live)
              ELSE [test EXCEPT !.plan.entries = Insert(@, Body(sp, 1), When(future, head \ body.live))]))

\* Plan::new
LivePlan(c, body, params, pinned) ==
    Once(block(c, body, <<>>, [live |-> {}, defs |-> {}, plan |-> EmptyPlan(pinned)],
               [exit |-> {}, head |-> {}], c.shared), LAMBDA s :
         [s.plan EXCEPT !.entries =
             Insert(@, <<>>, When(block_allocates(c, body), (1..params) \ s.live))])
=============================================================================
