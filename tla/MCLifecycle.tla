---------------------------- MODULE MCLifecycle ----------------------------
(* Small instances of Lifecycle for TLC. *)
EXTENDS Lifecycle, TLC
=============================================================================
