------------------------- MODULE SchedulerRegistry -------------------------
(***************************************************************************)
(* The scheduler's registry of builders (scheduler/fisk-scheduler.ts,      *)
(* insertBuilder and removeBuilder).  It is keyed by address and port,     *)
(* while connections come and go: a builder that reconnects may be         *)
(* inserted again before the scheduler hears that its old connection       *)
(* closed.                                                                 *)
(***************************************************************************)
EXTENDS Integers, FiniteSets

CONSTANTS Machines,        \* the builders, by address and port
          Conns,           \* their connections
          MachineOf,       \* the builder of each connection
          SlotsOf,         \* its x-fisk-slots
          None

ASSUME RegistryAssumption ==
    /\ IsFiniteSet(Conns)
    /\ MachineOf \in [Conns -> Machines]
    /\ SlotsOf \in [Machines -> Nat \ {0}]
    /\ None \notin Conns

VARIABLES
    sched,        \* the scheduler's end: "none", "open", "closing", "closed"
    registry,     \* builders[builderKey]
    builderCount,
    capacity

registryVars == <<sched, registry, builderCount, capacity>>

RegistryInit ==
    /\ sched = [c \in Conns |-> "none"]
    /\ registry = [m \in Machines |-> None]
    /\ builderCount = 0
    /\ capacity = 0

ConnsOf(m) == {c \in Conns : MachineOf[c] = m}

\* The connections whose "close" the scheduler has not handled.
Inserted == {c \in Conns : sched[c] \in {"open", "closing"}}

\* Mutant of InsertBuilder: a key that is already there is not counted again.
InsertBuilderOnce(c) ==
    LET m == MachineOf[c]
        new == registry[m] = None
    IN /\ sched[c] = "none"
       /\ sched' = [sched EXCEPT ![c] = "open"]
       /\ registry' = [registry EXCEPT ![m] = c]
       /\ builderCount' = builderCount + (IF new THEN 1 ELSE 0)
       /\ capacity' = capacity + (IF new THEN SlotsOf[m] ELSE 0)

\* server.on("builder"): insertBuilder.
InsertBuilder(c) ==
    LET m == MachineOf[c]
    IN /\ sched[c] = "none"
       /\ sched' = [sched EXCEPT ![c] = "open"]
       /\ registry' = [registry EXCEPT ![m] = c]
       /\ builderCount' = builderCount + 1
       /\ capacity' = capacity + SlotsOf[m]

\* builder.on("close"): removeBuilder deletes the entry of the builder's key.
RemoveBuilder(c) ==
    LET m == MachineOf[c]
    IN /\ c \in Inserted
       /\ sched' = [sched EXCEPT ![c] = "closed"]
       /\ registry' = [registry EXCEPT ![m] = None]
       /\ builderCount' = builderCount - 1
       /\ capacity' = capacity - SlotsOf[m]

----------------------------------------------------------------------------
(* Properties *)

RegistryTypeOK ==
    /\ sched \in [Conns -> {"none", "open", "closing", "closed"}]
    /\ registry \in [Machines -> Conns \cup {None}]
    /\ builderCount \in Nat
    /\ capacity \in Nat

(* The registry never offers a connection whose close the scheduler has handled,
   however many connections of one builder overlap. *)
RegistryIsLive ==
    \A m \in Machines : registry[m] # None =>
       registry[m] \in Inserted /\ MachineOf[registry[m]] = m

\* The slots the inserted connections came with.
SlotsAt(c) == {c} \X (1..SlotsOf[MachineOf[c]])
SlotsInserted == UNION {SlotsAt(c) : c \in Inserted}

(* The counters that utilization and the log are computed from count each
   connection exactly while it is inserted, overwritten registry entries included. *)
CountersMatch ==
    /\ builderCount = Cardinality(Inserted)
    /\ capacity = Cardinality(SlotsInserted)

(* What the registry and the counters say of the connections is so. *)
RegistryIsRight == RegistryIsLive /\ CountersMatch
=============================================================================
