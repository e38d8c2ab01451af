------------------------------ MODULE MCTasks ------------------------------
(* Instances of the task executor for TLC. *)
EXTENDS Tasks
=============================================================================
