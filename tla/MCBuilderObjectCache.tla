----------------------- MODULE MCBuilderObjectCache -----------------------
(* Model-checking instance of BuilderObjectCache: one object whose fetched copy *)
(* is as large as the compiled one and one whose copy is not; both do not fit.  *)
EXTENDS BuilderObjectCache, TLC
CONSTANTS s1, s2
MCObjects == {s1, s2}
MCObjectSize == s1 :> [compile |-> 2, fetch |-> 2] @@ s2 :> [compile |-> 2, fetch |-> 3]
MCGens == 1..2
=============================================================================
