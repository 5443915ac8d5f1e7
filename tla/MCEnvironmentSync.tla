------------------------- MODULE MCEnvironmentSync -------------------------
(* Model-checking instance of EnvironmentSync: two environments, one there at the *)
(* start, that arrive, are purged and may arrive again, and two loops.            *)
EXTENDS EnvironmentSync, TLC
=============================================================================
