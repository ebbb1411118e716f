-------------------------- MODULE MCCodingRuntime --------------------------
(* Two tasks on two files, with one vendor and the structured body, for TLC. *)
EXTENDS CodingRuntime
=============================================================================
