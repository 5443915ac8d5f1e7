------------------------- MODULE MCBuilderRegistry -------------------------
(* Model-checking instance of BuilderRegistry: two builders of 4 and 8 slots, *)
(* one connection each.                                                       *)
EXTENDS BuilderRegistry, TLC

CONSTANTS a1, b1, a, b

MCMachineOf == [c \in Conns |-> IF c = a1 THEN a ELSE b]
MCSlotsOf == [m \in Machines |-> IF m = a THEN 4 ELSE 8]
=============================================================================
