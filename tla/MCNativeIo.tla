----------------------------- MODULE MCNativeIo -----------------------------
(* An instance of the native resources for TLC. *)
EXTENDS NativeIo
=============================================================================
