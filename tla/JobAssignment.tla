--------------------------- MODULE JobAssignment ---------------------------
(***************************************************************************)
(* The scheduler's answer to a client (scheduler/fisk-scheduler.ts,        *)
(* server.on("compile")): which connection of which builder gets the job,  *)
(* and the counters that the next choice reads.  A client that disconnects *)
(* may have an "error" before its "close", a builder may have disconnected *)
(* meanwhile, and the object cache knows builders by connection while the  *)
(* registry knows them by address.                                         *)
(***************************************************************************)
EXTENDS SchedulerRegistry, FiniteSetsExt

CONSTANTS Clients,
          Wants,    \* the builders that filterBuilder accepts for a client and
                    \* that have an environment it can use
          Sharing,  \* the clients whose sha1 is the one object of the cache
          Loads     \* the loads a builder reports, in percent

ASSUME ClientsAssumption ==
    /\ IsFiniteSet(Clients)
    /\ Wants \in [Clients -> SUBSET Machines]
    /\ Sharing \subseteq Clients
    /\ Loads \subseteq 0..100

VARIABLES
    client,        \* "new", "refused", "assigned", "failed" (had an error), "gone"
    builder,       \* the builder of each client's closure
    activeJobs,
    activeClients, \* of each Builder, which may outlive its connection
    load,
    lastJob,       \* a logical clock: jobs assigned in one millisecond tie
    holders        \* objectCache.get(sha1).nodes, of the one object

jobVars == <<client, builder, activeJobs, activeClients, load, lastJob, holders>>
vars == <<registryVars, jobVars>>

Init ==
    /\ RegistryInit
    /\ client = [k \in Clients |-> "new"]
    /\ builder = [k \in Clients |-> None]
    /\ activeJobs = 0
    /\ activeClients = [c \in Conns |-> 0]
    /\ load = [c \in Conns |-> 0]
    /\ lastJob = [c \in Conns |-> 0]
    /\ holders = {}

----------------------------------------------------------------------------
(* The choice *)

\* Mutant of Score: at least four slots count as available, not at most.
ScoreAtLeastFour(c) == Max({4, SlotsOf[MachineOf[c]] - activeClients[c]}) * (100 - load[c])

Score(c) == Min({4, SlotsOf[MachineOf[c]] - activeClients[c]}) * (100 - load[c])

Better(c, d) ==
    \/ Score(c) > Score(d)
    \/ Score(c) = Score(d) /\ lastJob[c] < lastJob[d]

\* Either scan keeps the first of the best.
Best(S) == {c \in S : \A d \in S : ~Better(d, c)}

Suits(k, c) == MachineOf[c] \in Wants[k]
Cached(k) == IF k \in Sharing THEN {c \in holders : Suits(k, c)} ELSE {}
Registered(k) == {c \in Conns : registry[MachineOf[c]] = c /\ Suits(k, c)}

\* Only without a cached candidate are the registered builders scanned.
Candidates(k) == IF Cached(k) # {} THEN Cached(k) ELSE Registered(k)

----------------------------------------------------------------------------
(* Clients *)

\* server.on("compile") finds a builder.
Assign(k) ==
    /\ client[k] = "new"
    /\ \E c \in Best(Candidates(k)) :
          /\ client' = [client EXCEPT ![k] = "assigned"]
          /\ builder' = [builder EXCEPT ![k] = c]
          /\ activeJobs' = activeJobs + 1
          /\ activeClients' = [activeClients EXCEPT ![c] = @ + 1]
          /\ LET latest == Max({lastJob[d] : d \in Conns})
             IN \E now \in {Max({latest, 1}), latest + 1} :
                   lastJob' = [lastJob EXCEPT ![c] = now]
    /\ UNCHANGED <<load, holders, registryVars>>

\* server.on("compile") finds none: the client is sent an empty "builder".
Refuse(k) ==
    /\ client[k] = "new"
    /\ Candidates(k) = {}
    /\ client' = [client EXCEPT ![k] = "refused"]
    /\ UNCHANGED <<builder, activeJobs, activeClients, load, lastJob, holders, registryVars>>

\* What the handlers of "error" and "close" share: the first of them gives the
\* builder back.
GiveBack(k) ==
    IF builder[k] = None
    THEN UNCHANGED <<builder, activeJobs, activeClients>>
    ELSE /\ builder' = [builder EXCEPT ![k] = None]
         /\ activeJobs' = activeJobs - 1
         /\ activeClients' = [activeClients EXCEPT ![builder[k]] = @ - 1]

\* compile.on("error"): of the websocket, or a message the server rejects.
ClientError(k) ==
    /\ client[k] = "assigned"
    /\ client' = [client EXCEPT ![k] = "failed"]
    /\ GiveBack(k)
    /\ UNCHANGED <<load, lastJob, holders, registryVars>>

\* Mutant of ClientClose: left to the error handler.
ClientCloseIfFailed(k) ==
    /\ client[k] \in {"refused", "assigned", "failed"}
    /\ client' = [client EXCEPT ![k] = "gone"]
    /\ UNCHANGED <<builder, activeJobs, activeClients, load, lastJob, holders, registryVars>>

\* compile.on("close").
ClientClose(k) ==
    /\ client[k] \in {"refused", "assigned", "failed"}
    /\ client' = [client EXCEPT ![k] = "gone"]
    /\ GiveBack(k)
    /\ UNCHANGED <<load, lastJob, holders, registryVars>>

----------------------------------------------------------------------------
(* Builders *)

\* builder.on("load").
Load(c) ==
    /\ sched[c] = "open"
    /\ \E l \in Loads : load' = [load EXCEPT ![c] = l]
    /\ UNCHANGED <<client, builder, activeJobs, activeClients, lastJob, holders, registryVars>>

\* builder.on("objectCache"), on("objectCacheAdded").
ObjectAdded(c) ==
    /\ sched[c] = "open"
    /\ holders' = holders \cup {c}
    /\ UNCHANGED <<client, builder, activeJobs, activeClients, load, lastJob, registryVars>>

\* builder.on("objectCacheRemoved").
ObjectRemoved(c) ==
    /\ sched[c] = "open"
    /\ holders' = holders \ {c}
    /\ UNCHANGED <<client, builder, activeJobs, activeClients, load, lastJob, registryVars>>

\* server.on("builder"): a Builder with no clients and no load yet.
BuilderArrives(c) ==
    /\ InsertBuilder(c)
    /\ UNCHANGED jobVars

\* Mutant of BuilderGone: the object cache is not told.
BuilderGoneFromRegistry(c) ==
    /\ RemoveBuilder(c)
    /\ UNCHANGED jobVars

\* builder.on("close"): removeBuilder and objectCache.removeNode; the clients of
\* the connection keep their Builder.
BuilderGone(c) ==
    /\ RemoveBuilder(c)
    /\ holders' = holders \ {c}
    /\ UNCHANGED <<client, builder, activeJobs, activeClients, load, lastJob>>

Next ==
    \/ \E k \in Clients : Assign(k) \/ Refuse(k) \/ ClientError(k) \/ ClientClose(k)
    \/ \E c \in Conns : Load(c) \/ ObjectAdded(c) \/ ObjectRemoved(c) \/ BuilderArrives(c) \/ BuilderGone(c)

Spec == Init /\ [][Next]_vars

----------------------------------------------------------------------------
(* Properties *)

TypeOK ==
    /\ RegistryTypeOK
    /\ client \in [Clients -> {"new", "refused", "assigned", "failed", "gone"}]
    /\ builder \in [Clients -> Conns \cup {None}]
    /\ activeJobs \in Nat
    /\ activeClients \in [Conns -> Nat]
    /\ load \in [Conns -> 0..100]
    /\ lastJob \in [Conns -> Nat]
    /\ holders \in SUBSET Conns

(* activeJobs and each activeClients, from which utilization and the score are
   computed, count every connected client with a builder once, whether it ends
   with an error, a close, or both, before or after its builder. *)
ClientsAreCounted ==
    /\ \A k \in Clients : builder[k] # None <=> client[k] = "assigned"
    /\ activeJobs = Cardinality({k \in Clients : builder[k] # None})
    /\ \A c \in Conns : activeClients[c] = Cardinality({k \in Clients : builder[k] = c})

(* A client is only sent to a connection whose close has not been handled, also
   when the object cache found it and the registry has another one. *)
AssignedIsConnected ==
    [][\A k \in Clients : builder'[k] # builder[k] /\ builder'[k] # None =>
          builder'[k] \in Inserted]_vars

(* Unless the cache decides, no client is sent to a builder whose slots are all
   taken while another would do that has a slot free and a load below 100%. *)
FreeBuilderFirst ==
    [][\A k \in Clients :
          /\ builder'[k] # builder[k]
          /\ builder'[k] # None
          /\ Cached(k) = {}
          /\ activeClients[builder'[k]] >= SlotsOf[MachineOf[builder'[k]]]
          => \A c \in Registered(k) :
                activeClients[c] >= SlotsOf[MachineOf[c]] \/ load[c] = 100]_vars
=============================================================================
