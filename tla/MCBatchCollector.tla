-------------------------- MODULE MCBatchCollector --------------------------
(* Small instances of BatchCollector for TLC. *)
EXTENDS BatchCollector
=============================================================================
