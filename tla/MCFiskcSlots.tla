---------------------------- MODULE MCFiskcSlots ----------------------------
(* Model-checking instance of FiskcSlots: two processes that may distribute or not, *)
(* in conflict in every pool, or three that may not, of which two wait in one pool; *)
(* a monitor, and a compiler that may be replaced once.                             *)
EXTENDS FiskcSlots

CONSTANTS c1, c2, c3

Make(a, b, c) == [d \in Conns |-> CASE d = c1 -> a [] d = c2 -> b [] d = c3 -> c]

MCMakes == {Make("idle", "idle", "exited"), Make("idle", "local", "exited"),
            Make("local", "local", "local")}
=============================================================================
