------------------------------ MODULE Checked ------------------------------
(* Checked programs, the input of native code generation (model.rs,        *)
(* `checked`).  An expression or a statement is one record                 *)
(*   [k |-> kind, t |-> type, x |-> attribute, a |-> operands in the       *)
(*    order they are evaluated, b |-> the blocks it holds]                 *)
(* and is named by its path: the operands and blocks that lead to it from  *)
(* the body of its function.  The kinds stand for                          *)
(*   local text                     a local; a literal that needs no root  *)
(*   new                            List, FrameNew, DynBox, Bytes          *)
(*   len concat push each           Primitive: one that cannot collect,    *)
(*                                  one that can, ListPush, CleanupEach    *)
(*   call dyn                       Call; DynCall, IndirectCall            *)
(*   pack field store wrap          Record, Variant; Field; FrameStore;    *)
(*                                  Coerce, and Unary and Closure, which   *)
(*                                  hold a pointer iff their operand does  *)
(*   binary logic block if match    as in the source                       *)
(*   let assign return assert expr while break continue defer cleanup      *)
(*                                  the statements                         *)
EXTENDS Integers, Sequences, FiniteSets, SequencesExt

\* A type is known by the words of its values: TRUE for a managed pointer.
\* B is any scalar, T Text, L a List or Bytes, E an enum of two variants, P a
\* record of two pointers, R one too large for two machine words, U Unit.
Words == [B |-> <<FALSE>>, T |-> <<TRUE>>, L |-> <<TRUE>>, E |-> <<FALSE, TRUE>>,
          P |-> <<TRUE, TRUE>>, R |-> <<TRUE, TRUE, TRUE>>, U |-> <<>>]

managed(t) == \E i \in DOMAIN Words[t] : Words[t][i]

\* Locals of this size are scanned in place, without a shadow root.
Large(t) == Len(Words[t]) > 2

Node(k, t, x, a, b) == [k |-> k, t |-> t, x |-> x, a |-> a, b |-> b]

\* falls_through: no statement of the block ends it abruptly.
Block(s, tail) ==
    [s |-> s, tail |-> tail,
     falls |-> ~\E i \in DOMAIN s : s[i].k \in {"return", "break", "continue"}]

\* Parameters are the first locals.
Function(params, locals, result, requires, body) ==
    [params |-> params, locals |-> locals, result |-> result, requires |-> requires, body |-> body]

Arg(p, i) == Append(p, i)
Body(p, j) == Append(p, 0 - j)
Stmt(p, i) == Append(p, i)
TailOf(p) == Append(p, 0)

\* F(value), with the value evaluated once: a bound variable is no thunk.
Once(value, F(_)) == CHOOSE result \in {F(v) : v \in {value}} : TRUE

\* op over 1..n, in order.
Iterate(op(_, _), base, n) ==
    LET to[i \in 0..n] ==
            IF i = 0 THEN base ELSE CHOOSE result \in {op(last, i) : last \in {to[i - 1]}} : TRUE
    IN to[n]

Flat(n, F(_)) == FlattenSeq([i \in 1..n |-> F(i)])

\* The nodes of a tree, a latent cleanup body included or not.
RECURSIVE Nodes(_, _), BlockNodes(_, _)
Nodes(n, latent) ==
    <<n>> \o Flat(Len(n.a), LAMBDA i : Nodes(n.a[i], latent))
          \o (IF n.k \in {"defer", "cleanup"} /\ ~latent THEN <<>>
              ELSE Flat(Len(n.b), LAMBDA j : BlockNodes(n.b[j], latent)))
BlockNodes(b, latent) ==
    Flat(Len(b.s), LAMBDA i : Nodes(b.s[i], latent)) \o Flat(Len(b.tail), LAMBDA i : Nodes(b.tail[i], latent))

AllNodes(f) ==
    Flat(Len(f.requires), LAMBDA i : Nodes(f.requires[i], TRUE)) \o BlockNodes(f.body, TRUE)

ArmLocals(arm) == (Range(arm.binds) \cup {arm.whole}) \ {0}

\* The locals a sequence of nodes reads, declares, assigns and
\* binds in patterns.
Reads(ns) == {ns[i].x : i \in {j \in DOMAIN ns : ns[j].k = "local"}}
Lets(ns) == {ns[i].x : i \in {j \in DOMAIN ns : ns[j].k = "let"}}
Assigns(ns) == {ns[i].x : i \in {j \in DOMAIN ns : ns[j].k = "assign"}}
Patterns(ns) ==
    UNION {UNION {ArmLocals(ns[i].x[j]) : j \in DOMAIN ns[i].x} : i \in {j \in DOMAIN ns : ns[j].k = "match"}}
=============================================================================
