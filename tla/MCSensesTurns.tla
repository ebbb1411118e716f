--------------------------- MODULE MCSensesTurns ---------------------------
(* A few turns of one session for TLC. *)
EXTENDS SensesTurns, TLC

CONSTANTS t1, t2, v1

\* Turn ids of a kind are interchangeable.
Symmetric == Permutations(TextTurns) \cup Permutations(VoiceTurns)
=============================================================================
