------------------------------ MODULE Meaning ------------------------------
(* What a checked program means, without roots, slots or collections: the  *)
(* objects its operations see, in order, and how it ends.  The reference   *)
(* that the emitted code and the runtime's fault boundaries are compared   *)
(* with.  r is the state of an evaluation: vars the locals of the function, *)
(* cl its registered cleanups, n the objects allocated, choices the        *)
(* Boolean results still to come, trace the operations done, msg the first *)
(* fault since the innermost boundary, depth the boundaries entered.       *)
EXTENDS Checked

CONSTANTS EachCalls      \* callback calls of one collection cleanup

Event(name, objects) == [e |-> name, v |-> objects]
Done(r, name, objects) == [r EXCEPT !.trace = Append(@, Event(name, objects))]
Valued(r, value) == [r EXCEPT !.val = value]

\* The next Boolean result of the environment; none left means FALSE.
Drawn(r) ==
    IF r.choices = <<>> THEN Valued(r, <<0>>)
    ELSE [r EXCEPT !.val = <<IF Head(r.choices) THEN 1 ELSE 0>>, !.choices = Tail(@)]

\* The first fault of a boundary is kept; the hook of the outermost runs once.
Raised(r, msg) ==
    LET hooked == IF r.hook /\ r.depth = 0 THEN [Done(r, "hook", <<>>) EXCEPT !.hook = FALSE] ELSE r
    IN [hooked EXCEPT !.ctl = "fault", !.msg = IF @ = 0 THEN msg ELSE @]

Padded(value, t) == value \o [i \in 1..Len(Words[t]) - Len(value) |-> 0]

RECURSIVE Evaluate(_, _, _), Execute(_, _, _), Perform(_, _, _), Loop(_, _, _),
          Call(_, _, _, _), Unwound(_, _), Each(_, _, _, _, _)

\* A continuation runs only where the evaluation before it went well.
Ok(r, F(_)) == Once(r, LAMBDA q : IF q.ctl = "ok" THEN F(q) ELSE q)

\* Operands in order: o.r the state after them, o.vals their values.
OperandValues(P, e, r) ==
    Iterate(LAMBDA o, i : Once(Evaluate(P, e.a[i], o.r), LAMBDA v : [r |-> v, vals |-> Append(o.vals, v.val)]),
            [r |-> r, vals |-> <<>>], Len(e.a))

\* An operation on evaluated operands.
Applied(P, e, r, vals, seen) ==
    LET fresh == [r EXCEPT !.n = @ + 1, !.val = <<r.n + 1>>]
    IN CASE e.k = "field" -> Valued(r, <<vals[1][e.x]>>)
         [] e.k = "wrap" -> r
         [] e.k = "pack" -> Valued(r, IF e.x = 0 THEN seen ELSE Padded(<<e.x>> \o seen, e.t))
         [] e.k \in {"len", "binary"} -> Drawn(Done(r, e.k, seen))
         [] e.k \in {"store", "push"} -> Done(r, e.k, seen)
         [] e.k = "concat" -> Done(fresh, "concat", Append(seen, fresh.n))
         [] e.k = "new" -> Done(fresh, "init", <<fresh.n>> \o seen)
         [] e.k \in {"call", "dyn"} -> Call(P, e.x, vals, r)
         [] e.k = "each" -> Each(P, e, vals[1], [r EXCEPT !.depth = @ + 1, !.msg = 0],
                                 [left |-> EachCalls, first |-> 0, msg |-> r.msg])

\* The arm a match takes, the first that fits, and the locals it binds.
Taken(e, value) ==
    LET fits(j) == e.x[j].tag \in {0, value[1]}
    IN CHOOSE j \in DOMAIN e.x : fits(j) /\ \A i \in 1..j - 1 : ~fits(i)
Bound(arm, r) ==
    [r EXCEPT !.vars = [l \in DOMAIN @ |->
        IF arm.whole = l THEN r.val
        ELSE IF \E i \in DOMAIN arm.binds : arm.binds[i] = l
        THEN <<r.val[(CHOOSE i \in DOMAIN arm.binds : arm.binds[i] = l) + 1]>>
        ELSE @[l]]]

\* What follows the first operand of a conditional, a match, && or ||.
Chosen(P, e, first) ==
    CASE e.k = "logic" -> IF first.val = <<1>> THEN Evaluate(P, e.a[2], first) ELSE first
      [] e.k = "if" -> IF first.val = <<1>> THEN Execute(P, e.b[1], first)
                       ELSE IF Len(e.b) = 2 THEN Execute(P, e.b[2], first) ELSE first
      [] e.k = "match" ->
           Once(Taken(e, first.val), LAMBDA j : Execute(P, e.b[j], Bound(e.x[j], first)))

Evaluate(P, e, r) ==
    CASE e.k = "local" -> Valued(r, r.vars[e.x])
      [] e.k = "text" -> Valued(r, <<0>>)
      [] e.k = "block" -> Execute(P, e.b[1], r)
      [] e.k \in {"logic", "if", "match"} -> Ok(Evaluate(P, e.a[1], r), LAMBDA first : Chosen(P, e, first))
      [] OTHER -> Once(OperandValues(P, e, r), LAMBDA o :
                       IF o.r.ctl # "ok" THEN o.r ELSE Applied(P, e, o.r, o.vals, FlattenSeq(o.vals)))

Execute(P, b, r) ==
    Ok(Iterate(LAMBDA q, i : Ok(q, LAMBDA v : Perform(P, b.s[i], v)), r, Len(b.s)), LAMBDA stated :
       IF b.tail = <<>> THEN stated ELSE Evaluate(P, b.tail[1], stated))

\* A cleanup body, run as such.
Cleaned(P, id, body, r) == Ok(Execute(P, body, Done(r, "run", <<id>>)), LAMBDA v : Done(v, "done", <<id>>))

Concluded(n, v) ==
    CASE n.k \in {"let", "assign"} -> [v EXCEPT !.vars[n.x] = v.val]
      [] n.k = "return" -> [v EXCEPT !.ctl = "return"]
      [] n.k = "assert" -> IF v.val = <<0>> THEN Raised(v, n.x) ELSE v
      [] n.k = "expr" -> v
Perform(P, n, r) ==
    CASE n.k \in {"break", "continue"} -> [r EXCEPT !.ctl = n.k]
      [] n.k = "while" -> Loop(P, n, r)
      [] n.k = "defer" -> [Done(r, "defer", <<n.x>>) EXCEPT !.cl = Append(@, [id |-> n.x, body |-> n.b[1]])]
      [] n.k = "cleanup" ->
           Cleaned(P, n.x, n.b[1], [r EXCEPT !.cl = SelectSeq(@, LAMBDA d : d.id # n.x)])
      [] OTHER -> Ok(IF n.a = <<>> THEN r ELSE Evaluate(P, n.a[1], r), LAMBDA v : Concluded(n, v))

Turned(P, n, turn) ==
    IF turn.ctl \in {"ok", "continue"} THEN Loop(P, n, [turn EXCEPT !.ctl = "ok"])
    ELSE IF turn.ctl = "break" THEN [turn EXCEPT !.ctl = "ok"] ELSE turn
Loop(P, n, r) ==
    Ok(Evaluate(P, n.a[1], r), LAMBDA test :
       IF test.val = <<0>> THEN test ELSE Once(Execute(P, n.b[1], test), LAMBDA turn : Turned(P, n, turn)))

\* A function runs with its own locals and cleanups.
Entered(fn, args, r) ==
    [r EXCEPT !.vars = [l \in DOMAIN fn.locals |-> IF l <= fn.params THEN args[l] ELSE <<>>], !.cl = <<>>]
Required(P, fn, r) ==
    Iterate(LAMBDA q, i : Ok(q, LAMBDA s : Ok(Evaluate(P, fn.requires[i], s), LAMBDA v :
                                              IF v.val = <<0>> THEN Raised(v, 0 - i) ELSE v)),
            r, Len(fn.requires))
Call(P, f, args, r) ==
    Once(Ok(Required(P, P[f], Entered(P[f], args, r)), LAMBDA q : Execute(P, P[f].body, q)), LAMBDA ran :
         [Unwound(P, ran) EXCEPT !.vars = r.vars, !.cl = r.cl, !.ctl = IF @ = "return" THEN "ok" ELSE @])

\* A fault runs what is registered, newest first, and goes on.
Unwound(P, r) ==
    IF r.ctl # "fault" \/ r.cl = <<>> THEN r
    ELSE Once(Cleaned(P, Last(r.cl).id, Last(r.cl).body, [r EXCEPT !.cl = Front(@), !.ctl = "ok"]), LAMBDA ran :
              Unwound(P, [ran EXCEPT !.ctl = "fault"]))

\* A collection cleanup makes all its calls and raises its first fault.
Each(P, e, list, r, q) ==
    IF q.left > 0
    THEN Once(Call(P, e.x, <<list>>, r), LAMBDA called :
              Each(P, e, list, [called EXCEPT !.ctl = "ok", !.msg = 0],
                   [q EXCEPT !.left = @ - 1, !.first = IF @ = 0 THEN called.msg ELSE @]))
    ELSE IF q.first = 0 THEN [r EXCEPT !.depth = @ - 1, !.msg = q.msg]
    ELSE Raised([r EXCEPT !.depth = @ - 1, !.msg = q.msg], q.first)

\* The trace and the end of a program under the given choices.
Meaning(P, hook, choices) ==
    Once(Call(P, 1, <<>>, [vars |-> <<>>, cl |-> <<>>, n |-> 0, choices |-> choices, trace |-> <<>>,
                           val |-> <<>>, ctl |-> "ok", msg |-> 0, hook |-> hook, depth |-> 0]), LAMBDA r :
         [trace |-> r.trace, fault |-> r.msg, ok |-> r.ctl = "ok"])
=============================================================================
