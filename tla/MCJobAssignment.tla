-------------------------- MODULE MCJobAssignment --------------------------
(* Model-checking instance of JobAssignment: builder a, of one slot, connects *)
(* twice, b, of two slots, once; clients k1 and k2 would take either builder, *)
(* k3 insists on a, and k1 and k3 compile the cached object.                  *)
EXTENDS JobAssignment, TLC

CONSTANTS a1, a2, b1, a, b, k1, k2, k3

MCMachineOf == [c \in Conns |-> IF c = b1 THEN b ELSE a]
MCSlotsOf == [m \in Machines |-> IF m = a THEN 1 ELSE 2]
MCWants == [k \in Clients |-> IF k = k3 THEN {a} ELSE {a, b}]
=============================================================================
