------------------------ MODULE MCObjectCacheManager ------------------------
(* Model-checking instance of ObjectCacheManager: three builders, one of which *)
(* reconnects, and two objects, one of which leaves no room for the other.     *)
EXTENDS ObjectCacheManager, TLC

CONSTANTS a1, a2, b1, c1, a, b, c, s, t

MCAddrOf == [n \in Conns |-> CASE n \in {a1, a2} -> a [] n = b1 -> b [] n = c1 -> c]
MCFileSize == [x \in Shas |-> IF x = s THEN 1 ELSE 2]
=============================================================================
