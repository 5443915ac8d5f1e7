--------------------------- MODULE FifoSemaphore ---------------------------
(***************************************************************************)
(* What one slot pool of the daemon (daemon/Slots.ts) promises, without    *)
(* the code that keeps the promise: at most Capacity holders, waiters only *)
(* when there is no room, and waiters served in the order they came.       *)
(*                                                                         *)
(* The specification is abstract: DaemonSlots is the code, and its three   *)
(* pools are shown to implement this module one by one.                    *)
(***************************************************************************)
EXTENDS Naturals, FiniteSets, Queues

CONSTANTS Procs,     \* who may hold a slot
          Capacity   \* how many may hold one at a time, a natural number

VARIABLES holders,   \* the processes that hold a slot
          waiting    \* the processes that asked and were told to wait, in order

semVars == <<holders, waiting>>

Idle(p) == p \notin holders /\ p \notin ToSet(waiting)

SemInit == holders = {} /\ waiting = <<>>

\* There is room: the slot is handed over at once.
Enter(p) ==
    /\ Idle(p)
    /\ Cardinality(holders) < Capacity
    /\ holders' = holders \cup {p}
    /\ UNCHANGED waiting

\* There is no room: p joins the end of the queue.
Enqueue(p) ==
    /\ Idle(p)
    /\ Cardinality(holders) >= Capacity
    /\ waiting' = Append(waiting, p)
    /\ UNCHANGED holders

\* A holder leaves and the longest waiting process, if any, takes its place.
Leave(p) ==
    /\ p \in holders
    /\ IF waiting = <<>>
       THEN holders' = holders \ {p} /\ UNCHANGED waiting
       ELSE /\ holders' = (holders \ {p}) \cup {Head(waiting)}
            /\ waiting' = Tail(waiting)

\* A waiting process gives up its place.
GiveUp(p) ==
    /\ p \in ToSet(waiting)
    /\ waiting' = Without(waiting, p)
    /\ UNCHANGED holders

SemNext == \E p \in Procs : Enter(p) \/ Enqueue(p) \/ Leave(p) \/ GiveUp(p)

SemSpec == SemInit /\ [][SemNext]_semVars
=============================================================================
