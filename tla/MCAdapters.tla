----------------------------- MODULE MCAdapters -----------------------------
(* Small instances of Adapters for TLC. *)
EXTENDS Adapters
=============================================================================
