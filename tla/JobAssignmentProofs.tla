------------------------ MODULE JobAssignmentProofs ------------------------
(***************************************************************************)
(* Proofs about JobAssignment, for any finite sets of clients and of       *)
(* builders' connections: the scheduler's counters of jobs count the       *)
(* connected clients that have a builder, each once; a client is sent only *)
(* to a connected builder, and to a busy one only if none is free.         *)
(***************************************************************************)
EXTENDS JobAssignment, FiniteSetTheorems, TLAPS

\* The types that the counting argument needs.
JobsTyped ==
    /\ client \in [Clients -> {"new", "refused", "assigned", "failed", "gone"}]
    /\ builder \in [Clients -> Conns \cup {None}]
    /\ activeJobs \in Nat
    /\ activeClients \in [Conns -> Nat]

CountInv == JobsTyped /\ ClientsAreCounted

\* Where candidates come from: both the registry and the object cache know only
\* connections whose close has not been handled.
SourcesLive ==
    /\ sched \in [Conns -> {"none", "open", "closing", "closed"}]
    /\ registry \in [Machines -> Conns \cup {None}]
    /\ RegistryIsLive
    /\ holders \subseteq Inserted

LoadsTyped == load \in [Conns -> 0..100]

IInv == CountInv /\ SourcesLive /\ LoadsTyped

(* Cardinality of a finite set that gains, or loses, one element. *)
LEMMA OneMore ==
    ASSUME NEW S, IsFiniteSet(S), NEW x, x \notin S
    PROVE  Cardinality(S \cup {x}) = Cardinality(S) + 1 /\ Cardinality(S) \in Nat
BY FS_AddElement, FS_CardinalityType

LEMMA OneLess ==
    ASSUME NEW S, IsFiniteSet(S), NEW x \in S
    PROVE  /\ Cardinality(S \ {x}) = Cardinality(S) - 1
           /\ Cardinality(S \ {x}) \in Nat
<1>1. IsFiniteSet(S \ {x}) /\ x \notin S \ {x} /\ S = (S \ {x}) \cup {x}
  BY FS_RemoveElement
<1>2. Cardinality(S) = Cardinality(S \ {x}) + 1 /\ Cardinality(S \ {x}) \in Nat
  BY <1>1, FS_AddElement, FS_CardinalityType
<1> QED BY <1>2

\* The clients that have a builder, and those that have a given one.
Having == {k \in Clients : builder[k] # None}
HavingThis(c) == {k \in Clients : builder[k] = c}

LEMMA HavingFinite ==
    /\ IsFiniteSet(Having)
    /\ \A c : IsFiniteSet(HavingThis(c))
BY ClientsAssumption, FS_Subset DEF Having, HavingThis

LEMMA Counted ==
    ClientsAreCounted <=>
       /\ \A k \in Clients : builder[k] # None <=> client[k] = "assigned"
       /\ activeJobs = Cardinality(Having)
       /\ \A c \in Conns : activeClients[c] = Cardinality(HavingThis(c))
BY DEF ClientsAreCounted, Having, HavingThis

(* A client that leaves gives its builder back: GiveBack moves the three
   counters together. *)
LEMMA GiveBackCounts ==
    ASSUME CountInv, NEW k \in Clients, NEW status \in {"failed", "gone"},
           client' = [client EXCEPT ![k] = status],
           GiveBack(k)
    PROVE  CountInv'
<1> USE DEF CountInv, JobsTyped
<1>1. CASE builder[k] = None
  <2>1. UNCHANGED <<builder, activeJobs, activeClients>>
    BY <1>1 DEF GiveBack
  <2>2. Having' = Having /\ \A c : HavingThis(c)' = HavingThis(c)
    BY <2>1 DEF Having, HavingThis
  <2>3. client[k] # "assigned"
    BY <1>1 DEF ClientsAreCounted
  <2>4. \A j \in Clients : builder'[j] # None <=> client'[j] = "assigned"
    BY <2>1, <2>3 DEF ClientsAreCounted
  <2> QED BY <2>1, <2>2, <2>4, Counted DEF ClientsAreCounted, Having, HavingThis
<1>2. CASE builder[k] # None
  <2>0. PICK b \in Conns : b = builder[k]
    BY <1>2
  <2>1. /\ builder' = [builder EXCEPT ![k] = None]
        /\ activeJobs' = activeJobs - 1
        /\ activeClients' = [activeClients EXCEPT ![b] = @ - 1]
    BY <1>2, <2>0 DEF GiveBack
  <2>2. Having' = Having \ {k} /\ k \in Having
    BY <1>2, <2>1 DEF Having
  <2>3. HavingThis(b)' = HavingThis(b) \ {k} /\ k \in HavingThis(b)
    BY <2>0, <2>1, RegistryAssumption DEF HavingThis
  <2>4. \A c \in Conns \ {b} : HavingThis(c)' = HavingThis(c)
    BY <2>0, <2>1, RegistryAssumption DEF HavingThis
  <2>5. activeJobs' = Cardinality(Having') /\ activeJobs' \in Nat
    BY <2>1, <2>2, HavingFinite, OneLess, Counted
  <2>6. activeClients'[b] = Cardinality(HavingThis(b)') /\ activeClients'[b] \in Nat
    BY <2>1, <2>3, HavingFinite, OneLess, Counted
  <2>7. \A c \in Conns \ {b} : activeClients'[c] = Cardinality(HavingThis(c)')
    BY <2>1, <2>4, Counted
  <2>8. activeClients' \in [Conns -> Nat]
    BY <2>1, <2>6
  <2>9. \A j \in Clients : builder'[j] # None <=> client'[j] = "assigned"
    BY <2>1 DEF ClientsAreCounted
  <2>10. JobsTyped'
    BY <2>1, <2>5, <2>8
  <2>11. \A c \in Conns : activeClients'[c] = Cardinality(HavingThis(c)')
    BY <2>6, <2>7
  <2>12. ClientsAreCounted'
    BY <2>5, <2>9, <2>11 DEF ClientsAreCounted, Having, HavingThis
  <2> QED BY <2>10, <2>12
<1> QED BY <1>1, <1>2

(* Whichever scan finds a builder, it finds a connected one. *)
LEMMA CandidatesLive ==
    ASSUME SourcesLive, NEW k \in Clients
    PROVE  Best(Candidates(k)) \subseteq Inserted
<1>1. Cached(k) \subseteq Inserted
  BY DEF Cached, SourcesLive
<1>2. Registered(k) \subseteq Inserted
  BY RegistryAssumption DEF Registered, SourcesLive, RegistryIsLive
<1> QED BY <1>1, <1>2 DEF Best, Candidates

(* A client that is given a builder is counted. *)
LEMMA AssignCounts ==
    ASSUME CountInv, SourcesLive, NEW k \in Clients, Assign(k)
    PROVE  CountInv'
<1> USE DEF CountInv, JobsTyped
<1>1. PICK b \in Conns :
        /\ client' = [client EXCEPT ![k] = "assigned"]
        /\ builder' = [builder EXCEPT ![k] = b]
        /\ activeJobs' = activeJobs + 1
        /\ activeClients' = [activeClients EXCEPT ![b] = @ + 1]
  <2>1. Best(Candidates(k)) \subseteq Conns
    BY CandidatesLive DEF Inserted
  <2>2. PICK b \in Best(Candidates(k)) :
          /\ client' = [client EXCEPT ![k] = "assigned"]
          /\ builder' = [builder EXCEPT ![k] = b]
          /\ activeJobs' = activeJobs + 1
          /\ activeClients' = [activeClients EXCEPT ![b] = @ + 1]
    BY DEF Assign
  <2> QED BY <2>1, <2>2
<1>2. client[k] = "new" /\ builder[k] = None
  BY DEF Assign, ClientsAreCounted
<1>3. Having' = Having \cup {k} /\ k \notin Having
  BY <1>1, <1>2, RegistryAssumption DEF Having
<1>4. HavingThis(b)' = HavingThis(b) \cup {k} /\ k \notin HavingThis(b)
  BY <1>1, <1>2, RegistryAssumption DEF HavingThis
<1>5. \A c \in Conns \ {b} : HavingThis(c)' = HavingThis(c)
  BY <1>1, <1>2, RegistryAssumption DEF HavingThis
<1>6. activeJobs' = Cardinality(Having') /\ activeJobs' \in Nat
  BY <1>1, <1>3, HavingFinite, OneMore, Counted
<1>7. activeClients'[b] = Cardinality(HavingThis(b)') /\ activeClients'[b] \in Nat
  BY <1>1, <1>4, HavingFinite, OneMore, Counted
<1>8. \A c \in Conns \ {b} : activeClients'[c] = Cardinality(HavingThis(c)')
  BY <1>1, <1>5, Counted
<1>9. \A j \in Clients : builder'[j] # None <=> client'[j] = "assigned"
  BY <1>1, RegistryAssumption DEF ClientsAreCounted
<1>10. activeClients' \in [Conns -> Nat]
  BY <1>1, <1>7
<1>11. JobsTyped'
  BY <1>1, <1>6, <1>10
<1>12. \A c \in Conns : activeClients'[c] = Cardinality(HavingThis(c)')
  BY <1>7, <1>8
<1>13. ClientsAreCounted'
  BY <1>6, <1>9, <1>12 DEF ClientsAreCounted, Having, HavingThis
<1> QED BY <1>11, <1>13

(* The counters do not depend on the connections of the builders. *)
LEMMA CountFrame ==
    ASSUME CountInv, UNCHANGED <<builder, activeJobs, activeClients>>,
           client' \in [Clients -> {"new", "refused", "assigned", "failed", "gone"}],
           \A k \in Clients : client'[k] = "assigned" <=> client[k] = "assigned"
    PROVE  CountInv'
BY DEF CountInv, JobsTyped, ClientsAreCounted

(* The sources of candidates survive each step: a connection leaves both before
   its close has been handled. *)
LEMMA SourcesStep ==
    ASSUME SourcesLive, [Next]_vars
    PROVE  SourcesLive'
<1> USE DEF SourcesLive, RegistryIsLive, Inserted
<1>1. ASSUME UNCHANGED <<sched, registry, holders>> PROVE SourcesLive'
  BY <1>1
<1>2. ASSUME NEW k \in Clients, Assign(k) \/ Refuse(k) \/ ClientError(k) \/ ClientClose(k)
      PROVE  SourcesLive'
  BY <1>1, <1>2 DEF Assign, Refuse, ClientError, ClientClose, registryVars
<1>3. ASSUME NEW c \in Conns, Load(c) PROVE SourcesLive'
  BY <1>1, <1>3 DEF Load, registryVars
<1>4. ASSUME NEW c \in Conns, ObjectAdded(c) \/ ObjectRemoved(c) PROVE SourcesLive'
  BY <1>4 DEF ObjectAdded, ObjectRemoved, registryVars
<1>5. ASSUME NEW c \in Conns, BuilderArrives(c) PROVE SourcesLive'
  BY <1>5, RegistryAssumption DEF BuilderArrives, InsertBuilder, jobVars
<1>6. ASSUME NEW c \in Conns, BuilderGone(c) PROVE SourcesLive'
  BY <1>6, RegistryAssumption DEF BuilderGone, RemoveBuilder
<1> QED BY <1>1, <1>2, <1>3, <1>4, <1>5, <1>6 DEF Next, vars, jobVars, registryVars

LEMMA CountStep ==
    ASSUME IInv, [Next]_vars
    PROVE  CountInv'
<1> USE DEF IInv
<1>1. ASSUME NEW k \in Clients, Assign(k) PROVE CountInv'
  BY <1>1, AssignCounts
<1>2. ASSUME NEW k \in Clients, Refuse(k) PROVE CountInv'
  BY <1>2, CountFrame DEF Refuse, CountInv, JobsTyped
<1>3. ASSUME NEW k \in Clients, ClientError(k) PROVE CountInv'
  BY <1>3, GiveBackCounts DEF ClientError
<1>4. ASSUME NEW k \in Clients, ClientClose(k) PROVE CountInv'
  BY <1>4, GiveBackCounts DEF ClientClose
<1>5. ASSUME UNCHANGED <<client, builder, activeJobs, activeClients>> PROVE CountInv'
  BY <1>5, CountFrame DEF CountInv, JobsTyped
<1>6. ASSUME NEW c \in Conns,
             Load(c) \/ ObjectAdded(c) \/ ObjectRemoved(c) \/ BuilderArrives(c) \/ BuilderGone(c)
      PROVE  CountInv'
  BY <1>5, <1>6 DEF Load, ObjectAdded, ObjectRemoved, BuilderArrives, BuilderGone, jobVars
<1> QED BY <1>1, <1>2, <1>3, <1>4, <1>5, <1>6 DEF Next, vars, jobVars

LEMMA LoadsStep ==
    ASSUME LoadsTyped, [Next]_vars
    PROVE  LoadsTyped'
<1> USE DEF LoadsTyped
<1>1. ASSUME NEW c \in Conns, Load(c) PROVE LoadsTyped'
  BY <1>1, ClientsAssumption DEF Load
<1>2. ASSUME UNCHANGED load PROVE LoadsTyped'
  BY <1>2
<1>3. ASSUME NEW k \in Clients, Assign(k) \/ Refuse(k) \/ ClientError(k) \/ ClientClose(k)
      PROVE  LoadsTyped'
  BY <1>2, <1>3 DEF Assign, Refuse, ClientError, ClientClose
<1>4. ASSUME NEW c \in Conns,
             ObjectAdded(c) \/ ObjectRemoved(c) \/ BuilderArrives(c) \/ BuilderGone(c)
      PROVE  LoadsTyped'
  BY <1>2, <1>4 DEF ObjectAdded, ObjectRemoved, BuilderArrives, BuilderGone, jobVars
<1> QED BY <1>1, <1>2, <1>3, <1>4 DEF Next, vars, jobVars

LEMMA InitIInv == Init => IInv
<1> SUFFICES ASSUME Init PROVE IInv
  OBVIOUS
<1>1. SourcesLive
  BY DEF Init, RegistryInit, SourcesLive, RegistryIsLive
<1>2. JobsTyped
  BY DEF Init, JobsTyped
<1>3. Having = {} /\ \A c \in Conns : HavingThis(c) = {}
  BY RegistryAssumption DEF Init, Having, HavingThis
<1>4. \A k \in Clients : builder[k] # None <=> client[k] = "assigned"
  BY DEF Init
<1>5. ClientsAreCounted
  BY <1>3, <1>4, FS_EmptySet, Counted DEF Init
<1>6. LoadsTyped
  BY DEF Init, LoadsTyped
<1> QED BY <1>1, <1>2, <1>5, <1>6 DEF IInv, CountInv

(* The invariant holds in every state. *)
THEOREM Invariance == Spec => []IInv
<1>1. Init => IInv
  BY InitIInv
<1>2. IInv /\ [Next]_vars => IInv'
  BY SourcesStep, CountStep, LoadsStep DEF IInv
<1> QED BY <1>1, <1>2, PTL DEF Spec

(* The counters that the next choice and the utilization read are right: each
   connected client with a builder is counted once, however it ends. *)
THEOREM CountersAreRight == Spec => []ClientsAreCounted
<1>1. IInv => ClientsAreCounted
  BY DEF IInv, CountInv
<1> QED BY <1>1, Invariance, PTL

(* No client is ever sent to a connection whose close has been handled. *)
THEOREM OnlyConnectedAssigned == Spec => AssignedIsConnected
<1> DEFINE Step == \A k \in Clients : builder'[k] # builder[k] /\ builder'[k] # None =>
                                         builder'[k] \in Inserted
<1>1. ASSUME IInv, [Next]_vars PROVE [Step]_vars
  <2>1. ASSUME NEW j \in Clients, Assign(j) PROVE Step
    <3>1. PICK b \in Best(Candidates(j)) : builder' = [builder EXCEPT ![j] = b]
      BY <2>1 DEF Assign
    <3>2. b \in Inserted
      BY <1>1, CandidatesLive DEF IInv
    <3> QED BY <3>1, <3>2, <1>1 DEF IInv, CountInv, JobsTyped
  <2>2. ASSUME NEW j \in Clients, ClientError(j) \/ ClientClose(j) PROVE Step
    BY <2>2, <1>1 DEF ClientError, ClientClose, GiveBack, IInv, CountInv, JobsTyped
  <2>3. ASSUME UNCHANGED builder PROVE Step
    BY <2>3
  <2>4. ASSUME NEW j \in Clients, Refuse(j) PROVE Step
    BY <2>4, <2>3 DEF Refuse
  <2>5. ASSUME NEW c \in Conns,
               Load(c) \/ ObjectAdded(c) \/ ObjectRemoved(c) \/ BuilderArrives(c) \/ BuilderGone(c)
        PROVE  Step
    BY <2>5, <2>3 DEF Load, ObjectAdded, ObjectRemoved, BuilderArrives, BuilderGone, jobVars
  <2> QED BY <1>1, <2>1, <2>2, <2>3, <2>4, <2>5 DEF Next, vars, jobVars
<1>2. IInv /\ [Next]_vars => [Step]_vars
  BY <1>1
<1> QED BY <1>2, Invariance, PTL DEF Spec, AssignedIsConnected

----------------------------------------------------------------------------
(* The score *)

LEMMA MinOfTwo ==
    ASSUME NEW a \in Int, NEW b \in Int
    PROVE  Min({a, b}) = IF a <= b THEN a ELSE b
<1>1. PICK m \in {a, b} : m = (IF a <= b THEN a ELSE b) /\ \A y \in {a, b} : m <= y
  OBVIOUS
<1>2. \A x \in {a, b} : (\A y \in {a, b} : x <= y) => x = m
  BY <1>1
<1> QED BY <1>1, <1>2 DEF Min

LEMMA Products ==
    ASSUME NEW a \in Int, NEW b \in Nat
    PROVE  /\ a * b \in Int
           /\ a <= 0 => a * b <= 0
           /\ a > 0 /\ b > 0 => a * b > 0
OBVIOUS

(* A builder without a free slot, or fully loaded, does not score; one that has
   a free slot and is not fully loaded does. *)
LEMMA ScoreTellsFree ==
    ASSUME JobsTyped, LoadsTyped, NEW c \in Conns
    PROVE  /\ Score(c) \in Int
           /\ activeClients[c] >= SlotsOf[MachineOf[c]] => Score(c) <= 0
           /\ activeClients[c] < SlotsOf[MachineOf[c]] /\ load[c] # 100 => Score(c) > 0
<1>1. PICK n \in Int : n = SlotsOf[MachineOf[c]] - activeClients[c]
  BY RegistryAssumption DEF JobsTyped
<1>2. PICK l \in Nat : l = 100 - load[c]
  BY DEF LoadsTyped
<1>3. PICK a \in Int : a = (IF 4 <= n THEN 4 ELSE n)
  OBVIOUS
<1>4. Score(c) = a * l
  BY <1>1, <1>2, <1>3, MinOfTwo DEF Score
<1>5. activeClients[c] >= SlotsOf[MachineOf[c]] => a <= 0
  BY <1>1, <1>3, RegistryAssumption DEF JobsTyped
<1>6. activeClients[c] < SlotsOf[MachineOf[c]] => a > 0
  BY <1>1, <1>3, RegistryAssumption DEF JobsTyped
<1>7. load[c] # 100 => l > 0
  BY <1>2 DEF LoadsTyped
<1> QED BY <1>4, <1>5, <1>6, <1>7, Products

(* Unless the object cache decides, a client goes to a builder whose slots are all
   taken only if every other that would do is as busy, or fully loaded. *)
THEOREM FreeBuildersComeFirst == Spec => FreeBuilderFirst
<1> DEFINE Busy(c) == activeClients[c] >= SlotsOf[MachineOf[c]]
           Step == \A k \in Clients :
                      /\ builder'[k] # builder[k]
                      /\ builder'[k] # None
                      /\ Cached(k) = {}
                      /\ Busy(builder'[k])
                      => \A c \in Registered(k) : Busy(c) \/ load[c] = 100
<1>1. ASSUME IInv, [Next]_vars PROVE [Step]_vars
  <2>1. ASSUME NEW j \in Clients, Assign(j) PROVE Step
    <3>1. PICK b \in Best(Candidates(j)) : builder' = [builder EXCEPT ![j] = b]
      BY <2>1 DEF Assign
    <3>2. SUFFICES ASSUME Cached(j) = {}, Busy(b), NEW c \in Registered(j),
                          ~Busy(c), load[c] # 100
                   PROVE  FALSE
      BY <3>1, <1>1 DEF IInv, CountInv, JobsTyped
    <3>3. b \in Registered(j) /\ ~Better(c, b) /\ b \in Conns /\ c \in Conns
      BY <3>1, <3>2 DEF Best, Candidates, Registered
    <3>4. Score(b) <= 0 /\ Score(b) \in Int
      BY <1>1, <3>2, <3>3, ScoreTellsFree DEF IInv, CountInv
    <3>5. activeClients[c] < SlotsOf[MachineOf[c]]
      BY <1>1, <3>2, <3>3, RegistryAssumption DEF IInv, CountInv, JobsTyped
    <3>6. Score(c) > 0 /\ Score(c) \in Int
      BY <1>1, <3>2, <3>3, <3>5, ScoreTellsFree DEF IInv, CountInv
    <3> QED BY <3>3, <3>4, <3>6 DEF Better
  <2>2. ASSUME NEW j \in Clients, ClientError(j) \/ ClientClose(j) PROVE Step
    BY <2>2, <1>1 DEF ClientError, ClientClose, GiveBack, IInv, CountInv, JobsTyped
  <2>3. ASSUME UNCHANGED builder PROVE Step
    BY <2>3
  <2>4. ASSUME NEW j \in Clients, Refuse(j) PROVE Step
    BY <2>4, <2>3 DEF Refuse
  <2>5. ASSUME NEW c \in Conns,
               Load(c) \/ ObjectAdded(c) \/ ObjectRemoved(c) \/ BuilderArrives(c) \/ BuilderGone(c)
        PROVE  Step
    BY <2>5, <2>3 DEF Load, ObjectAdded, ObjectRemoved, BuilderArrives, BuilderGone, jobVars
  <2> QED BY <1>1, <2>1, <2>2, <2>3, <2>4, <2>5 DEF Next, vars, jobVars
<1>2. IInv /\ [Next]_vars => [Step]_vars
  BY <1>1
<1> QED BY <1>2, Invariance, PTL DEF Spec, FreeBuilderFirst
=============================================================================
