------------------------------- MODULE MCHeap -------------------------------
(* The moving heap for TLC: kinds of programs, each over a few operations.    *)
EXTENDS Heap
Programs ==
    {[kinds |-> {"list", "text", "push", "pop", "capture"}, limit |-> 8],
     [kinds |-> {"list", "text", "push", "pop", "capture", "set"}, limit |-> 7],
     [kinds |-> {"list", "text", "push", "pop", "capture", "drop"}, limit |-> 6],
     [kinds |-> {"text", "root", "drop"}, limit |-> 7],
     [kinds |-> {"list", "lock", "drop", "text"}, limit |-> 6],
     [kinds |-> {"list", "text", "concat", "bytes", "read", "dir"}, limit |-> 5]}
=============================================================================
