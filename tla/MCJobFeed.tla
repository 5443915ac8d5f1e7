------------------------------ MODULE MCJobFeed ------------------------------
(* Model-checking instance of JobFeed: a builder of 4 slots. *)
EXTENDS JobFeed, TLC

CONSTANTS a1, a2, a3, a, j1, j2

MCMachineOf == [c \in Conns |-> a]
MCSlotsOf == [m \in Machines |-> 4]

\* The attempts of one builder are alike, and so are the jobs.
FeedSymmetry == Permutations(Jobs) \cup Permutations(Conns)
=============================================================================
