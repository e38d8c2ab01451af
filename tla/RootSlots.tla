----------------------------- MODULE RootSlots -----------------------------
(* The root slots of one native function (llvm_gc.rs): a permanent slot    *)
(* for each managed local, and temporary slots for the operands that a     *)
(* later collection may move, reused by type once their expression is done. *)
EXTENDS Liveness

\* Literals, and aggregates of literals, never move.
RECURSIVE needs_snapshot(_)
needs_snapshot(e) ==
    IF e.k = "text" THEN FALSE
    ELSE IF e.k \in {"pack", "wrap"} THEN \E i \in DOMAIN e.a : needs_snapshot(e.a[i])
    ELSE managed(e.t)

NoSlots ==
    [types |-> <<>>, pools |-> [t \in DOMAIN Words |-> <<>>], used |-> [t \in DOMAIN Words |-> 0],
     expressions |-> <<>>, retired |-> <<>>, exits |-> <<>>]

\* The next free slot of the type, or a new one.
Reserve(u, p, t) ==
    LET fresh == u.used[t] = Len(u.pools[t])
        pool == IF fresh THEN Append(u.pools[t], Len(u.types) + 1) ELSE u.pools[t]
    IN [u EXCEPT !.types = IF fresh THEN Append(@, t) ELSE @,
                 !.pools[t] = pool,
                 !.expressions = Insert(@, p, pool[u.used[t] + 1]),
                 !.used[t] = @ + 1]

retired_since(u, base) == UNION {{u.pools[t][i] : i \in base[t] + 1..u.used[t]} : t \in DOMAIN base}

InsertSome(map, p, slots) == IF slots = {} THEN map ELSE Insert(map, p, slots)

\* The slots an expression used are free after it.
Released(before, p, u) ==
    [u EXCEPT !.retired = InsertSome(@, p, retired_since(u, before.used)), !.used = before.used]

\* Alternatives begin with the same slots and hold the larger number.
AtLeast(u, other) ==
    [u EXCEPT !.used = [t \in DOMAIN @ |-> IF @[t] > other.used[t] THEN @[t] ELSE other.used[t]]]

\* `base` is what the enclosing loop held when its body began.
RECURSIVE SlotExpression(_, _, _, _, _, _), SlotBlock(_, _, _, _, _)

\* Whether e itself may collect after its operands.
CollectsItself(c, e) ==
    CASE e.k \in {"wrap", "field", "store"} -> c.shared
      [] e.k \in {"new", "dyn"} -> TRUE
      [] e.k = "call" -> e.x \in c.alloc
      [] e.k \in {"len", "concat", "push", "each"} -> c.shared \/ allocates(e)
      [] OTHER -> FALSE
SlotBranches(c, e, p, base, r) ==
    Iterate(LAMBDA q, j : AtLeast(SlotBlock(c, e.b[j], Body(p, j), [q EXCEPT !.used = r.used], base), q),
            r, Len(e.b))
SlotExpression(c, e, p, u, base, protect) ==
    Once(IF protect /\ needs_snapshot(e) THEN Reserve(u, p, e.t) ELSE u, LAMBDA u1 :
    Released(u1, p,
             Once(Iterate(LAMBDA r, i : SlotExpression(c, e.a[i], Arg(p, i), r, base,
                                                       CollectsItself(c, e) \/ Later(c, e, i)),
                          u1, IF e.k \in {"if", "match"} THEN 1 ELSE Len(e.a)),
                  LAMBDA r : SlotBranches(c, e, p, base, r))))

SlotStatement(c, n, p, r, base) ==
    CASE n.k = "while" ->
           Once(SlotExpression(c, n.a[1], Arg(p, 1), r, base, FALSE), LAMBDA q :
                SlotBlock(c, n.b[1], Body(p, 1), q, q.used))
      [] n.k \in {"break", "continue"} -> [r EXCEPT !.exits = InsertSome(@, p, retired_since(r, base))]
      [] OTHER -> IF n.a = <<>> THEN r ELSE SlotExpression(c, n.a[1], Arg(p, 1), r, base, FALSE)
SlotBlock(c, b, p, u, base) ==
    Once(Iterate(LAMBDA r, i : [SlotStatement(c, b.s[i], Stmt(p, i), r, base) EXCEPT !.used = u.used], u, Len(b.s)),
         LAMBDA done : IF b.tail = <<>> THEN done
                       ELSE SlotExpression(c, b.tail[1], TailOf(p), done, base, FALSE))

\* The path of the i-th requirement of a function.
Requirement(i) == <<0, 0, i>>

TemporarySlots(c, f, body, own) ==
    Once(Iterate(LAMBDA u, i : [SlotExpression(c, f.requires[i], Requirement(i), u, u.used, FALSE)
                                    EXCEPT !.used = NoSlots.used],
                 NoSlots, IF own THEN Len(f.requires) ELSE 0),
         LAMBDA required : SlotBlock(c, body, <<>>, required, required.used))

\* Pattern locals that are the whole of their arm need no slot: nothing
\* collects between the extraction and the one read.
Immediate(arm, b) ==
    {l \in ArmLocals(arm) : /\ b.s = <<>> /\ b.falls /\ b.tail # <<>>
                            /\ b.tail[1].k = "local" /\ b.tail[1].x = l}
Handoffs(f, ns) ==
    LET matches == {i \in DOMAIN ns : ns[i].k = "match"}
        bindings(l) == {m \in matches \X {1, 2} : /\ m[2] \in DOMAIN ns[m[1]].x
                                                  /\ l \in ArmLocals(ns[m[1]].x[m[2]])}
        reads(l) == {i \in DOMAIN ns : ns[i].k = "local" /\ ns[i].x = l}
        found == UNION {UNION {Immediate(ns[i].x[j], ns[i].b[j]) : j \in DOMAIN ns[i].b} : i \in matches}
    IN {l \in found : /\ l > f.params /\ l \notin Lets(ns) \cup Assigns(ns) /\ managed(f.locals[l])
                      /\ Cardinality(reads(l)) = 1 /\ Cardinality(bindings(l)) = 1}
immediate_match_handoffs(f) == Once(AllNodes(f), LAMBDA ns : Handoffs(f, ns))

\* root_function: `stored` are the locals with storage in this function,
\* `borrowed` the captured ones that live in the owner's slots.
Framed(f, rooted, borrowed, slots) ==
    [locals |-> {l \in rooted \ borrowed : managed(f.locals[l])},
     borrowed |-> {l \in borrowed : managed(f.locals[l])},
     temporaries |-> Len(slots.types), expressions |-> slots.expressions,
     retired |-> slots.retired, exits |-> slots.exits]
RootFrame(c, f, body, own, stored, borrowed) ==
    Once(TemporarySlots(c, f, body, own), LAMBDA slots :
         Framed(f, stored \ (IF c.shared THEN {} ELSE immediate_match_handoffs(f)), borrowed, slots))

NoRoots == [locals |-> {}, borrowed |-> {}, temporaries |-> 0, expressions |-> <<>>,
            retired |-> <<>>, exits |-> <<>>]
=============================================================================
