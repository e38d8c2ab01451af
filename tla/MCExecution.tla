---------------------------- MODULE MCExecution ----------------------------
(* Small programs for Execution: every pair of operand forms under a        *)
(* collecting operator, and the control flow, cleanups and faults around    *)
(* them.                                                                     *)
EXTENDS Execution

E(k, t, x, a) == Node(k, t, x, a, <<>>)
S(k, x, a) == Node(k, "U", x, a, <<>>)
local(l, t) == E("local", t, l, <<>>)
new(a) == E("new", "T", 0, a)
len(e) == E("len", "B", 0, <<e>>)
binary(a, b) == E("binary", "B", 0, <<a, b>>)
concat(a, b) == E("concat", "T", 0, <<a, b>>)
call(f, t, a) == E("call", t, f, a)
within(s, e) == Node("block", e.t, 0, <<>>, <<Block(s, <<e>>)>>)
if(c, t, s1, e1, s2, e2) == Node("if", t, 0, <<c>>, <<Block(s1, e1), Block(s2, e2)>>)
let(l, e) == S("let", l, <<e>>)
set(l, e) == S("assign", l, <<e>>)
do(e) == S("expr", 0, <<e>>)
while(c, s) == Node("while", "U", 0, <<c>>, <<Block(s, <<>>)>>)
Break == S("break", 0, <<>>)
Continue == S("continue", 0, <<>>)
Arm2(tag, binds, whole) == [tag |-> tag, binds |-> binds, whole |-> whole]
match(e, t, arms, b1, b2) == Node("match", t, arms, <<e>>, <<b1, b2>>)

\* The locals of every function: x and y, an enum, a pair, a large record, a
\* list, pattern locals and a scalar.
Locals == <<"T", "T", "E", "P", "R", "L", "T", "T", "T", "T", "B", "T">>
x == local(1, "T")
y == local(2, "T")
list == local(6, "L")
flag == local(11, "B")
some(e) == E("pack", "E", 1, <<e>>)

\* Operand forms; `side` keeps the pattern locals of two operands apart.
Form(k, side) ==
    <<x,
      new(<<x>>),
      E("text", "T", 0, <<>>),
      within(<<set(1, new(<<>>))>>, x),
      if(len(x), "T", <<>>, <<x>>, <<>>, <<new(<<>>)>>),
      match(some(x), "T", <<Arm2(1, <<7 + side>>, 0), Arm2(0, <<>>, 0)>>,
            Block(<<>>, <<local(7 + side, "T")>>), Block(<<>>, <<new(<<>>)>>)),
      call(2, "T", <<x>>),
      E("field", "T", 2, <<local(5, "R")>>),
      E("field", "T", 2, <<E("pack", "P", 0, <<new(<<>>), E("wrap", "T", 0, <<x>>)>>)>>),
      call(3, "T", <<x>>),
      within(<<while(binary(x, x), <<set(1, new(<<>>)), do(if(len(x), "U", <<Break>>, <<>>, <<>>, <<>>))>>)>>, x),
      match(some(new(<<x>>)), "T", <<Arm2(1, <<9 + side>>, 0), Arm2(0, <<>>, 0)>>,
            Block(<<>>, <<concat(local(9 + side, "T"), local(9 + side, "T"))>>), Block(<<>>, <<x>>)),
      within(<<do(E("push", "U", 0, <<list, x>>))>>, x),
      E("dyn", "T", 4, <<x, new(<<>>)>>),
      if(E("logic", "B", 0, <<len(x), binary(new(<<>>), x)>>), "T", <<set(1, new(<<>>))>>, <<x>>, <<>>, <<x>>)>>[k]
Forms == 15

F(params, s, e) == Function(params, Locals, e.t, <<>>, Block(s, <<e>>))

\* 2 and 4 collect, 3 and 5 do not; 2 has a precondition.
F2 == Function(1, Locals, "T", <<len(x)>>, Block(<<>>, <<new(<<x>>)>>))
F3 == F(1, <<>>, x)
F4 == F(2, <<do(len(y))>>, concat(x, new(<<y>>)))
F5 == F(2, <<do(binary(x, y))>>, y)

Operator(o, a, b) ==
    <<concat(a, b),
      new(<<a, b>>),
      call(4, "T", <<a, b>>),
      call(5, "T", <<a, b>>),
      E("dyn", "T", 4, <<a, b>>),
      E("field", "T", 1, <<E("pack", "P", 0, <<a, b>>)>>),
      within(<<do(binary(a, b))>>, x),
      within(<<do(E("store", "U", 0, <<a, b>>))>>, x),
      if(len(a), "T", <<>>, <<b>>, <<>>, <<new(<<b>>)>>)>>[o]
Operators == 9

Begin == <<let(1, new(<<>>)), let(5, E("pack", "R", 0, <<new(<<>>), x, new(<<>>)>>)), let(6, E("new", "L", 0, <<>>))>>
Main(s) == Function(0, Locals, "U", <<>>, Block(Begin \o s, <<>>))
Program(fns, shared, hook) == [fns |-> fns, shared |-> shared, hook |-> hook]
when(c, s) == do(if(c, "U", s, <<>>, <<>>, <<>>))
defer(id, s) == Node("defer", "U", id, <<>>, <<Block(s, <<>>)>>)
cleanup(id, s) == Node("cleanup", "U", id, <<>>, <<Block(s, <<>>)>>)
assert(msg, e) == S("assert", msg, <<e>>)

\* Where an expression is evaluated: alone, in a loop, under pending
\* operands, under pending operands of a loop that may be left, and with a
\* cleanup registered.
Context(k, e) ==
    <<<<let(2, e), do(len(y))>>,
      <<while(len(x), <<let(2, e), when(len(y), <<Continue>>), do(binary(x, y))>>), do(len(x))>>,
      <<let(2, concat(x, e)), do(len(y)), do(binary(x, E("field", "T", 3, <<local(5, "R")>>)))>>,
      <<while(len(x), <<let(2, concat(new(<<>>), within(<<when(len(x), <<Break>>)>>, e)))>>), do(len(x))>>,
      <<defer(1, <<set(1, new(<<x>>))>>), let(2, e), cleanup(1, <<set(1, new(<<x>>))>>), do(binary(x, y))>> >>[k]
Contexts == 5

\* Every pair of operands under some of the operators, contexts in turn.
Grid(shared, layers) ==
    [n \in 1..layers * Forms * Forms |->
       LET a == (n - 1) % Forms
           b == ((n - 1) \div Forms) % Forms
           o == (n - 1) \div (Forms * Forms)
           e == Operator(((a + b + 2 * o) % Operators) + 1, Form(a + 1, 0), Form(b + 1, 1))
       IN Program(<<Main(Context(((a + 2 * b + o) % Contexts) + 1, e)), F2, F3, F4, F5>>, shared, FALSE)]

\* Cleanups.  6 registers one and may fault or return early, 7 and 8 are the
\* steps of collection cleanups.
F6 == F(1, <<defer(3, <<do(len(x))>>), let(2, new(<<x>>)), assert(3, len(y)),
             when(len(y), <<let(12, y), cleanup(3, <<do(len(x))>>), S("return", 0, <<local(12, "T")>>)>>),
             cleanup(3, <<do(len(x))>>)>>, y)
Items == [Locals EXCEPT ![1] = "L"]
items == local(1, "L")
Step(s) == Function(1, Items, "U", <<>>, Block(s, <<>>))
F7 == Step(<<let(2, new(<<items>>)), do(len(items)), assert(7, len(y))>>)
F8 == Step(<<defer(4, <<do(len(items))>>), assert(8, len(items)), cleanup(4, <<do(len(items))>>)>>)
each(f) == do(E("each", "U", f, <<list>>))

Bodies ==
    LET use == <<do(len(x))>>
        grow == <<set(1, new(<<x>>))>>
        failing(msg) == grow \o <<assert(msg, len(x))>>
        large == <<do(len(E("field", "T", 2, <<local(5, "R")>>))), set(11, len(x))>>
        turning == <<while(len(x), grow)>>
    IN <<<<defer(1, use), let(2, new(<<x>>)), assert(1, len(y)), cleanup(1, use), do(len(x))>>,
         <<defer(1, failing(11)), defer(2, failing(12)), assert(1, len(x)),
           cleanup(2, failing(12)), cleanup(1, failing(11)), do(len(x))>>,
         <<defer(1, grow), let(2, call(6, "T", <<x>>)), cleanup(1, grow), do(binary(x, y))>>,
         <<defer(1, use), let(2, concat(new(<<>>), call(2, "T", <<x>>))), cleanup(1, use), do(len(y))>>,
         <<each(7), do(len(x))>>,
         <<defer(1, <<each(7)>>), assert(1, len(x)), cleanup(1, <<each(7)>>), do(len(x))>>,
         <<defer(1, use), each(8), cleanup(1, use)>>,
         <<while(len(x), <<defer(1, use), when(len(x), <<cleanup(1, use), Break>>)>> \o grow \o <<cleanup(1, use)>>)>>,
         <<let(11, len(x)), defer(1, large), let(2, new(<<x>>)), cleanup(1, large), assert(1, flag), do(len(y))>>,
         <<defer(1, grow), defer(2, use), cleanup(1, grow), assert(1, len(x)), cleanup(2, use)>>,
         <<defer(1, turning), cleanup(1, turning), do(len(x))>> >>

Ways == <<<<FALSE, FALSE>>, <<FALSE, TRUE>>, <<TRUE, FALSE>>>>
Cleanups ==
    [n \in 1..Len(Bodies) * 3 |->
       LET way == Ways[((n - 1) % 3) + 1]
       IN Program(<<Main(Bodies[((n - 1) \div 3) + 1]), F2, F3, F4, F5, F6, F7, F8>>, way[1], way[2])]

AllPrograms == Cleanups \o Grid(FALSE, 4) \o Grid(TRUE, 2)

\* A worker whose cleanup reaches a safe point.
Interrupted == <<Program(<<Main(<<defer(1, <<do(call(3, "T", <<x>>))>>), cleanup(1, <<do(call(3, "T", <<x>>))>>)>>),
                           F2, F3>>, TRUE, FALSE)>>
=============================================================================
