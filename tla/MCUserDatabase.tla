--------------------------- MODULE MCUserDatabase ---------------------------
(* Model-checking instance of UserDatabase: one user is known and one is not, *)
(* and one environment is linked to the other.                                *)
EXTENDS UserDatabase, TLC

CONSTANTS u1, u2, e1, e2

MCStored == [users |-> u1 :> 0 @@ u2 :> Absent, links |-> e1 :> {e2} @@ e2 :> {}]
=============================================================================
