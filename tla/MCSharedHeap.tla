---------------------------- MODULE MCSharedHeap ----------------------------
(* Model-checking instance of SharedHeap. *)
EXTENDS SharedHeap
=============================================================================
