----------------------------- MODULE MCReactor -----------------------------
(* An instance of the reactor for TLC. *)
EXTENDS Reactor
=============================================================================
