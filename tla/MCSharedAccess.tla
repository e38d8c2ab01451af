--------------------------- MODULE MCSharedAccess ---------------------------
(* Model-checking instance of SharedAccess. *)
EXTENDS SharedAccess
=============================================================================
