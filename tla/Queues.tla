------------------------------- MODULE Queues -------------------------------
(***************************************************************************)
(* Queues of distinct elements: a JavaScript Map or array used as a        *)
(* waiting line, from which an element can also leave out of turn.         *)
(***************************************************************************)
EXTENDS Naturals, Sequences, SequencesExt

\* Where p stands in q.
Position(q, p) == CHOOSE i \in 1..Len(q) : q[i] = p

\* q once p has left it (Map.delete, splice(indexOf(p), 1)).
Without(q, p) == IF p \in ToSet(q) THEN RemoveAt(q, Position(q, p)) ELSE q

\* No element waits twice.
Distinct(q) == \A i, j \in 1..Len(q) : q[i] = q[j] => i = j
=============================================================================
