------------------------- MODULE MCFleetOperations -------------------------
(* One driver and the four jobs, for TLC. *)
EXTENDS FleetOperations
=============================================================================
