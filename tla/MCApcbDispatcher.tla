-------------------------- MODULE MCApcbDispatcher --------------------------
(* Small instances of the bridge for TLC: one work item, one or two          *)
(* principals, one or two attempts.                                          *)
EXTENDS ApcbDispatcher

CONSTANTS w1, p1, p2
=============================================================================
