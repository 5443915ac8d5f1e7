--------------------------- MODULE MCBuilderJobs ---------------------------
(* Model-checking instance of BuilderJobs. *)
EXTENDS BuilderJobs, TLC

CONSTANTS j1, j2, j3

\* j3 is the urgent one.
JobPriority == [j \in Jobs |-> IF j = j3 THEN 1 ELSE 0]
=============================================================================
