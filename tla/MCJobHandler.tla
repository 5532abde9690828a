---------------------------- MODULE MCJobHandler ----------------------------
(* Small instances of JobHandler for TLC. *)
EXTENDS JobHandler
=============================================================================
