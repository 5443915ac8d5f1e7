--------------------------- MODULE JobFeedProofs ---------------------------
(***************************************************************************)
(* Proofs about the scheduler's connections and what goes over them, for   *)
(* any builders, connection attempts, jobs, limits and restarts.  First    *)
(* BuilderRegistry: the registry stays right and builders keep trying.     *)
(* Then JobFeed: it is BuilderRegistry with jobs and a monitor, a job gets *)
(* its own result but for an id that was handed out twice, and what the    *)
(* monitor shows is right.                                                 *)
(***************************************************************************)
EXTENDS JobFeed, FiniteSetTheorems, TLAPS

----------------------------------------------------------------------------
(* What insertBuilder and removeBuilder preserve, for any finite set of connections and
   any slots *)

\* RegistryIsRight with the types, and the finiteness that counting needs.
RegistryInv ==
    /\ RegistryTypeOK
    /\ RegistryIsRight
    /\ IsFiniteSet(SlotsInserted)

LEMMA InsertedFinite == IsFiniteSet(Inserted)
BY RegistryAssumption, FS_Subset DEF Inserted

(* The slots of one connection are as many as its x-fisk-slots. *)
LEMMA SlotsAtCount ==
    ASSUME NEW c \in Conns
    PROVE  /\ IsFiniteSet(SlotsAt(c))
           /\ Cardinality(SlotsAt(c)) = SlotsOf[MachineOf[c]]
           /\ SlotsOf[MachineOf[c]] \in Nat \ {0}
<1> DEFINE n == SlotsOf[MachineOf[c]]
<1>1. n \in Nat \ {0}
  BY RegistryAssumption
<1>2. IsFiniteSet({c}) /\ Cardinality({c}) = 1
  BY FS_Singleton
<1>3. IsFiniteSet(1..n) /\ Cardinality(1..n) = n
  <2>1. 1 \in Int /\ n \in Int /\ ~(1 > n) /\ n - 1 + 1 = n
    BY <1>1
  <2> QED BY <2>1, FS_Interval
<1>4. IsFiniteSet({c} \X (1..n)) /\ Cardinality({c} \X (1..n)) = 1 * n
  <2>1. /\ IsFiniteSet({c} \X (1..n))
        /\ Cardinality({c} \X (1..n)) = Cardinality({c}) * Cardinality(1..n)
    BY <1>2, <1>3, FS_Product
  <2> QED BY <1>2, <1>3, <2>1
<1>5. 1 * n = n
  BY <1>1
<1> QED BY <1>1, <1>4, <1>5 DEF SlotsAt

LEMMA RegistryInitInv == RegistryInit => RegistryInv
<1> SUFFICES ASSUME RegistryInit PROVE RegistryInv
  OBVIOUS
<1>1. Inserted = {}
  BY DEF RegistryInit, Inserted
<1>2. SlotsInserted = {}
  BY <1>1 DEF SlotsInserted
<1>3. RegistryTypeOK /\ RegistryIsLive
  BY DEF RegistryInit, RegistryTypeOK, RegistryIsLive
<1>4. CountersMatch /\ IsFiniteSet(SlotsInserted)
  BY <1>1, <1>2, FS_EmptySet DEF RegistryInit, CountersMatch
<1> QED BY <1>3, <1>4 DEF RegistryInv, RegistryIsRight

(* insertBuilder counts the connection once, and its slots. *)
LEMMA InsertBuilderKeeps ==
    ASSUME RegistryInv, NEW c \in Conns, InsertBuilder(c)
    PROVE  RegistryInv'
<1>1. Inserted' = Inserted \cup {c} /\ c \notin Inserted
  BY DEF InsertBuilder, Inserted, RegistryInv, RegistryTypeOK
<1>2. SlotsInserted' = SlotsInserted \cup SlotsAt(c)
  BY <1>1 DEF SlotsInserted, SlotsAt
<1>3. SlotsInserted \cap SlotsAt(c) = {}
  BY <1>1 DEF SlotsInserted, SlotsAt
<1>4. /\ IsFiniteSet(SlotsInserted')
      /\ Cardinality(SlotsInserted') = Cardinality(SlotsInserted) + SlotsOf[MachineOf[c]]
      /\ Cardinality(SlotsInserted') \in Nat
  <2>1. /\ IsFiniteSet(SlotsInserted) /\ Cardinality(SlotsInserted) \in Nat
        /\ IsFiniteSet(SlotsAt(c)) /\ Cardinality(SlotsAt(c)) \in Nat
    BY SlotsAtCount, FS_CardinalityType DEF RegistryInv
  <2>2. Cardinality(SlotsInserted \cap SlotsAt(c)) = 0
    BY <1>3, FS_EmptySet
  <2>3. /\ IsFiniteSet(SlotsInserted \cup SlotsAt(c))
        /\ Cardinality(SlotsInserted \cup SlotsAt(c))
             = Cardinality(SlotsInserted) + Cardinality(SlotsAt(c)) - 0
    BY <2>1, <2>2, FS_Union
  <2>4. Cardinality(SlotsInserted) + Cardinality(SlotsAt(c)) - 0 \in Nat
    BY <2>1
  <2>5. Cardinality(SlotsAt(c)) = SlotsOf[MachineOf[c]]
    BY SlotsAtCount
  <2> QED BY <1>2, <2>1, <2>3, <2>4, <2>5
<1>5. Cardinality(Inserted') = Cardinality(Inserted) + 1 /\ Cardinality(Inserted') \in Nat
  BY <1>1, InsertedFinite, FS_AddElement, FS_CardinalityType
<1>6. CountersMatch'
  BY <1>4, <1>5 DEF InsertBuilder, CountersMatch, RegistryInv, RegistryIsRight
<1>7. RegistryTypeOK'
  BY <1>4, <1>5, RegistryAssumption
     DEF InsertBuilder, CountersMatch, RegistryInv, RegistryIsRight, RegistryTypeOK
<1>8. RegistryIsLive'
  BY <1>1, RegistryAssumption DEF InsertBuilder, RegistryInv, RegistryIsRight, RegistryTypeOK, RegistryIsLive
<1> QED BY <1>4, <1>6, <1>7, <1>8 DEF RegistryInv, RegistryIsRight

(* removeBuilder takes back what the insertion of the connection counted. *)
LEMMA RemoveBuilderKeeps ==
    ASSUME RegistryInv, NEW c \in Conns, RemoveBuilder(c)
    PROVE  RegistryInv'
<1>1. Inserted' = Inserted \ {c} /\ c \in Inserted
  BY DEF RemoveBuilder, Inserted, RegistryInv, RegistryTypeOK
<1>2. SlotsInserted' = SlotsInserted \ SlotsAt(c)
  BY <1>1 DEF SlotsInserted, SlotsAt
<1>3. SlotsInserted \cap SlotsAt(c) = SlotsAt(c)
  BY <1>1 DEF SlotsInserted
<1>4. /\ IsFiniteSet(SlotsInserted')
      /\ Cardinality(SlotsInserted') = Cardinality(SlotsInserted) - SlotsOf[MachineOf[c]]
      /\ Cardinality(SlotsInserted') \in Nat
  <2>1. IsFiniteSet(SlotsInserted)
    BY DEF RegistryInv
  <2>2. /\ IsFiniteSet(SlotsInserted \ SlotsAt(c))
        /\ Cardinality(SlotsInserted \ SlotsAt(c))
             = Cardinality(SlotsInserted) - Cardinality(SlotsInserted \cap SlotsAt(c))
    BY <2>1, FS_Difference
  <2>3. Cardinality(SlotsInserted \ SlotsAt(c)) \in Nat
    BY <2>2, FS_CardinalityType
  <2>4. Cardinality(SlotsAt(c)) = SlotsOf[MachineOf[c]]
    BY SlotsAtCount
  <2> QED BY <1>2, <1>3, <2>2, <2>3, <2>4
<1>5. Cardinality(Inserted') = Cardinality(Inserted) - 1 /\ Cardinality(Inserted') \in Nat
  BY <1>1, InsertedFinite, FS_RemoveElement, FS_CardinalityType
<1>6. CountersMatch'
  BY <1>4, <1>5 DEF RemoveBuilder, CountersMatch, RegistryInv, RegistryIsRight
<1>7. RegistryTypeOK'
  BY <1>4, <1>5, RegistryAssumption
     DEF RemoveBuilder, CountersMatch, RegistryInv, RegistryIsRight, RegistryTypeOK
<1>8. RegistryIsLive'
  BY <1>1, RegistryAssumption DEF RemoveBuilder, RegistryInv, RegistryIsRight, RegistryTypeOK, RegistryIsLive
<1> QED BY <1>4, <1>6, <1>7, <1>8 DEF RegistryInv, RegistryIsRight

(* A step of others, or one that only lets the scheduler close connections. *)
LEMMA RegistryFrame ==
    ASSUME RegistryInv, UNCHANGED registryVars
    PROVE  RegistryInv'
<1>1. Inserted' = Inserted /\ SlotsInserted' = SlotsInserted
  BY DEF registryVars, Inserted, SlotsInserted, SlotsAt
<1> QED BY <1>1 DEF registryVars, RegistryInv, RegistryIsRight, RegistryTypeOK,
                    RegistryIsLive, CountersMatch

----------------------------------------------------------------------------
(* The builders and their connections *)

\* A builder's Client.ws is an attempt or connection of its own that it listens to,
\* and only living websockets count as deaf.
ClientsOwn ==
    /\ \A m \in Machines : ws[m] # None =>
          /\ MachineOf[ws[m]] = m
          /\ peer[ws[m]] \in {"connecting", "open"}
          /\ ws[m] \notin deaf
    /\ \A c \in deaf : peer[c] \in {"connecting", "open"}

Inv == RegistryInv /\ KeepsTrying /\ ClientsOwn

\* What only the builder's steps change.
BuilderPart == KeepsTrying /\ ClientsOwn

LEMMA BuilderFrame ==
    ASSUME BuilderPart, RegistryTypeOK', UNCHANGED builderVars,
           unanswered' \in [Conns -> 0..MaxSilence]
    PROVE  BuilderPart'
BY DEF BuilderPart, KeepsTrying, ClientsOwn, TypeOK, builderVars, ConnsOf

LEMMA InitInv == Init => Inv
<1> SUFFICES ASSUME Init PROVE Inv
  OBVIOUS
<1>1. RegistryInv
  BY RegistryInitInv DEF Init
<1>2. TypeOK
  BY <1>1, RegistryAssumption, BuilderAssumption DEF Init, TypeOK, RegistryInv
<1>3. KeepsTrying /\ ClientsOwn
  BY <1>2 DEF Init, KeepsTrying, ClientsOwn
<1> QED BY <1>1, <1>3 DEF Inv

LEMMA OpenedKeeps ==
    ASSUME Inv, NEW c \in Conns, Opened(c)
    PROVE  Inv'
<1> USE RegistryAssumption DEF Inv, KeepsTrying, TypeOK
<1>1. RegistryInv'
  BY RegistryFrame DEF Opened
<1>2. TypeOK'
  BY <1>1 DEF Opened, RegistryInv
<1>3. ClientsOwn'
  BY DEF Opened, ClientsOwn
<1>4. \A m \in Machines : up'[m] =>
         timer'[m] \/ \E d \in ConnsOf(m) \ deaf' : peer'[d] \in {"connecting", "open"}
  BY DEF Opened, ConnsOf
<1> QED BY <1>1, <1>2, <1>3, <1>4 DEF ConnsOf

LEMMA ConnectKeeps ==
    ASSUME Inv, NEW c \in Conns, Connect(c)
    PROVE  Inv'
<1> USE RegistryAssumption DEF Inv, KeepsTrying, TypeOK
<1>1. RegistryInv'
  BY RegistryFrame DEF Connect
<1>2. TypeOK'
  BY <1>1 DEF Connect, RegistryInv
<1>3. c \notin deaf
  BY DEF Connect, ClientsOwn
<1>4. ClientsOwn'
  BY <1>3 DEF Connect, ClientsOwn
<1>5. \A m \in Machines : up'[m] =>
         timer'[m] \/ \E d \in ConnsOf(m) \ deaf' : peer'[d] \in {"connecting", "open"}
  BY <1>3 DEF Connect, ConnsOf
<1> QED BY <1>1, <1>2, <1>4, <1>5 DEF ConnsOf

LEMMA PeerClosesKeeps ==
    ASSUME Inv, NEW c \in Conns, PeerCloses(c)
    PROVE  Inv'
<1> USE RegistryAssumption DEF Inv, KeepsTrying, TypeOK
<1>1. RegistryInv'
  BY RegistryFrame DEF PeerCloses
<1>2. PICK m \in Machines : m = MachineOf[c]
  OBVIOUS
<1>3. /\ peer' = [peer EXCEPT ![c] = "gone"]
      /\ deaf' = deaf \cup ({ws[m]} \ {None, c})
      /\ ws' = [ws EXCEPT ![m] = None]
      /\ timer' = [timer EXCEPT ![m] = TRUE]
      /\ c \notin deaf
      /\ UNCHANGED <<up, registryVars, unanswered>>
  BY <1>2 DEF PeerCloses
<1>4. TypeOK'
  BY <1>1, <1>3 DEF RegistryInv
<1>5. ClientsOwn'
  BY <1>2, <1>3 DEF ClientsOwn
<1>6. \A k \in Machines \ {m} : \A d \in ConnsOf(k) : d \in deaf' => d \in deaf
  BY <1>2, <1>3 DEF ConnsOf, ClientsOwn
<1>7. \A k \in Machines : up'[k] =>
         timer'[k] \/ \E d \in ConnsOf(k) \ deaf' : peer'[d] \in {"connecting", "open"}
  BY <1>2, <1>3, <1>6 DEF ConnsOf
<1> QED BY <1>1, <1>4, <1>5, <1>7 DEF ConnsOf

LEMMA DeafClosesKeeps ==
    ASSUME Inv, NEW c \in Conns, DeafCloses(c)
    PROVE  Inv'
<1> USE RegistryAssumption DEF Inv, KeepsTrying, TypeOK
<1>1. RegistryInv'
  BY RegistryFrame DEF DeafCloses
<1>2. TypeOK'
  BY <1>1 DEF DeafCloses, RegistryInv
<1>3. ClientsOwn'
  BY DEF DeafCloses, ClientsOwn
<1>4. \A m \in Machines : up'[m] =>
         timer'[m] \/ \E d \in ConnsOf(m) \ deaf' : peer'[d] \in {"connecting", "open"}
  BY DEF DeafCloses, ConnsOf
<1> QED BY <1>1, <1>2, <1>3, <1>4 DEF ConnsOf

LEMMA DeafFailsKeeps ==
    ASSUME Inv, NEW c \in Conns, DeafFails(c)
    PROVE  Inv'
<1> USE RegistryAssumption DEF Inv, KeepsTrying, TypeOK
<1>1. RegistryInv'
  BY RegistryFrame DEF DeafFails
<1>2. TypeOK'
  BY <1>1 DEF DeafFails, RegistryInv
<1>3. ClientsOwn'
  BY DEF DeafFails, ClientsOwn, ConnsOf
<1>4. \A m \in Machines : up'[m] =>
         timer'[m] \/ \E d \in ConnsOf(m) \ deaf' : peer'[d] \in {"connecting", "open"}
  BY DEF DeafFails, ConnsOf
<1> QED BY <1>1, <1>2, <1>3, <1>4 DEF ConnsOf

(* The scheduler's steps keep the registry right and leave the builders alone. *)
LEMMA PingAllKeeps ==
    ASSUME Inv, PingAll
    PROVE  Inv'
<1>1. sched' = sched
  BY DEF PingAll, GivesUp, OptionGiven, Inv, RegistryInv, RegistryTypeOK
<1>2. RegistryInv'
  BY <1>1, RegistryFrame DEF PingAll, registryVars, Inv
<1>3. unanswered' \in [Conns -> 0..MaxSilence]
  BY BuilderAssumption DEF PingAll, Inv, KeepsTrying, TypeOK
<1> QED BY <1>2, <1>3, BuilderFrame DEF PingAll, Inv, BuilderPart, RegistryInv

LEMMA RestartKeeps ==
    ASSUME Inv, SchedulerRestarts
    PROVE  Inv'
<1>1. Inserted' = {} /\ SlotsInserted' = {}
  BY DEF SchedulerRestarts, Inserted, SlotsInserted, Inv, RegistryInv, RegistryTypeOK
<1>2. RegistryInv'
  BY <1>1, FS_EmptySet
     DEF SchedulerRestarts, Inv, RegistryInv, RegistryTypeOK, RegistryIsRight,
         RegistryIsLive, CountersMatch
<1> QED BY <1>2, BuilderFrame, BuilderAssumption
        DEF SchedulerRestarts, Inv, BuilderPart, RegistryInv

LEMMA NextKeeps == Inv /\ [Next]_vars => Inv'
<1> SUFFICES ASSUME Inv, [Next]_vars PROVE Inv'
  OBVIOUS
<1>1. ASSUME NEW c \in Conns, Connect(c) PROVE Inv'
  BY <1>1, ConnectKeeps
<1>2. ASSUME NEW c \in Conns, Opened(c) PROVE Inv'
  BY <1>2, OpenedKeeps
<1>3. ASSUME NEW c \in Conns, PeerCloses(c) PROVE Inv'
  BY <1>3, PeerClosesKeeps
<1>4. ASSUME NEW c \in Conns, DeafCloses(c) PROVE Inv'
  BY <1>4, DeafClosesKeeps
<1>5. ASSUME NEW c \in Conns, DeafFails(c) PROVE Inv'
  BY <1>5, DeafFailsKeeps
<1>6. ASSUME NEW c \in Conns, BuilderArrives(c) PROVE Inv'
  <2>1. RegistryInv'
    BY <1>6, InsertBuilderKeeps DEF BuilderArrives, Inv
  <2> QED BY <1>6, <2>1, BuilderFrame
          DEF BuilderArrives, Inv, BuilderPart, RegistryInv, KeepsTrying, TypeOK
<1>7. ASSUME NEW c \in Conns, BuilderCloses(c) PROVE Inv'
  <2>1. RegistryInv'
    BY <1>7, RemoveBuilderKeeps DEF BuilderCloses, Inv
  <2>2. unanswered' \in [Conns -> 0..MaxSilence]
    BY <1>7, BuilderAssumption DEF BuilderCloses, Inv, KeepsTrying, TypeOK
  <2> QED BY <1>7, <2>1, <2>2, BuilderFrame DEF BuilderCloses, Inv, BuilderPart, RegistryInv
<1>8. ASSUME NEW c \in Conns, Pong(c) PROVE Inv'
  <2>1. RegistryInv'
    BY <1>8, RegistryFrame DEF Pong, registryVars, Inv
  <2>2. unanswered' \in [Conns -> 0..MaxSilence]
    BY <1>8, BuilderAssumption DEF Pong, Inv, KeepsTrying, TypeOK
  <2> QED BY <1>8, <2>1, <2>2, BuilderFrame DEF Pong, Inv, BuilderPart, RegistryInv
<1>9. CASE UNCHANGED vars
  BY <1>9, RegistryFrame, BuilderFrame DEF vars, Inv, BuilderPart, RegistryInv, KeepsTrying, TypeOK
<1> QED BY <1>1, <1>2, <1>3, <1>4, <1>5, <1>6, <1>7, <1>8, <1>9, PingAllKeeps, RestartKeeps
        DEF Next

LEMMA InvHolds == Spec => []Inv
BY InitInv, NextKeeps, PTL DEF Spec

(* The registry never offers a closed connection, and builderCount and capacity count
   the inserted connections and their slots, whatever the reconnects and restarts. *)
THEOREM RegistryStaysRight == Spec => []RegistryIsRight
<1>1. Inv => RegistryIsRight
  BY DEF Inv, RegistryInv
<1> QED BY <1>1, InvHolds, PTL

(* A running builder always has an attempt it listens to, or its timer. *)
THEOREM BuildersKeepTrying == Spec => []KeepsTrying
<1>1. Inv => KeepsTrying
  BY DEF Inv
<1> QED BY <1>1, InvHolds, PTL

LEMMA NextForgets ==
    ASSUME Inv, [Next]_vars, NEW m \in Machines,
           registry[m] # None, registry'[m] # registry[m], registry[m] \in Inserted'
    PROVE  \E c \in ConnsOf(m) \ {registry[m]} : sched'[c] # sched[c]
<1>1. /\ registry[m] \in Inserted /\ MachineOf[registry[m]] = m
      /\ registry \in [Machines -> Conns \cup {None}]
      /\ sched \in [Conns -> {"none", "open", "closing", "closed"}]
  BY DEF Inv, RegistryInv, RegistryIsRight, RegistryIsLive, RegistryTypeOK
<1>2. ASSUME NEW c \in Conns, InsertBuilder(c)
      PROVE  c \in ConnsOf(m) \ {registry[m]} /\ sched'[c] # sched[c]
  BY <1>1, <1>2, RegistryAssumption DEF InsertBuilder, ConnsOf, Inserted
<1>3. ASSUME NEW c \in Conns, RemoveBuilder(c)
      PROVE  c \in ConnsOf(m) \ {registry[m]} /\ sched'[c] # sched[c]
  BY <1>1, <1>3, RegistryAssumption DEF RemoveBuilder, ConnsOf, Inserted
<1>4. CASE SchedulerRestarts
  BY <1>1, <1>4 DEF SchedulerRestarts, Inserted
<1> QED BY <1>2, <1>3, <1>4
        DEF Next, Connect, Opened, PeerCloses, DeafCloses, DeafFails, BuilderArrives,
            BuilderCloses, Pong, PingAll, vars, registryVars

(* The scheduler forgets a living connection only when another one of the same builder
   is inserted or closed. *)
THEOREM OnlyRivalsForget == Spec => ForgottenOnlyByRival
<1>1. Inv /\ [Next]_vars =>
        [\A m \in Machines :
           (registry[m] # None /\ registry'[m] # registry[m] /\ registry[m] \in Inserted') =>
              \E c \in ConnsOf(m) \ {registry[m]} : sched'[c] # sched[c]]_vars
  BY NextForgets
<1> QED BY <1>1, InvHolds, PTL DEF Spec, ForgottenOnlyByRival

----------------------------------------------------------------------------
(* The connections are those of BuilderRegistry *)

LEMMA FeedInitIsInit == FeedInit => Init
BY DEF FeedInit

LEMMA FeedStepIsStep == [FeedNext]_allVars => [Next]_vars
BY DEF FeedNext, Next, allVars, BuilderComes, BuilderGoes, BuilderDies, Restart, Schedule,
       JobStarts, CompileEnds, JobAborts, MonitorConnects, SendInfo, MonitorCloses

(* Jobs and a monitor change nothing about the connections, so that whatever holds of
   BuilderRegistry holds here. *)
THEOREM FeedIsARegistry == FeedSpec => Spec
BY FeedInitIsInit, FeedStepIsStep, PTL DEF FeedSpec, Spec

(* The registry and its counters stay right with jobs, a monitor and restarts. *)
THEOREM FeedRegistryIsRight == FeedSpec => []RegistryIsRight
BY FeedIsARegistry, RegistryStaysRight, PTL

(* The builders keep trying. *)
THEOREM FeedKeepsTrying == FeedSpec => []KeepsTrying
BY FeedIsARegistry, BuildersKeepTrying, PTL

(* Only rivals make the scheduler forget a living connection. *)
THEOREM FeedForgetsOnlyForRivals == FeedSpec => ForgottenOnlyByRival
BY FeedIsARegistry, OnlyRivalsForget, PTL

----------------------------------------------------------------------------
(* The jobs *)

\* Who was numbered when: the serials of one life of the scheduler differ.
Numbering ==
    /\ \A j \in Numbered :
          /\ job[j].at \in Machines
          /\ job[j].serial \in 1..MaxSerial
          /\ job[j].life \in 1..life
          /\ job[j].life = life => job[j].serial <= jobId
    /\ \A j, k \in Numbered :
          (j # k /\ job[j].life = job[k].life) => job[j].serial # job[k].serial
    /\ \A j \in Jobs : job[j].compiler => job[j].phase \in {"running", "over"}

\* VM.compiles holds, under its own id, a compile of this builder whose compiler runs.
CompilesRight ==
    \A m \in Machines, i \in Ids : compiles[m][i] # None =>
       /\ job[compiles[m][i]].at = m
       /\ job[compiles[m][i]].compiler
       /\ Id(compiles[m][i]) = i

\* ResultsAreOwn but for who has one id with whom: results go by the id, and only a job
\* with the same id takes the place of another in VM.compiles.
ResultsById ==
    /\ \A k \in Jobs : job[k].result # None =>
          /\ k \in Numbered
          /\ job[k].result \in Numbered
          /\ Id(job[k].result) = Id(k)
    /\ \A k \in Jobs : job[k].phase = "running" =>
          \/ compiles[job[k].at][Id(k)] = k /\ job[k].compiler
          \/ \E j \in Numbered \ {k} : Id(j) = Id(k)

JobsInv == JobsTypeOK /\ Numbering /\ CompilesRight /\ ResultsById

LEMMA IdsAreIds ==
    ASSUME JobsInv, NEW j \in Numbered
    PROVE  Id(j) \in Ids
BY FeedAssumption DEF JobsInv, Numbering, Id, IdOf, Ids

(* Two jobs have one id only across a restart or the limit. *)
LEMMA OneIdNamesakes ==
    ASSUME JobsInv, NEW j \in Numbered, NEW k \in Numbered, j # k, Id(j) = Id(k)
    PROVE  Namesakes(j, k)
<1>1. job[j].serial \in Nat /\ job[k].serial \in Nat /\ IdLimit \in Nat
  BY FeedAssumption DEF JobsInv, Numbering
<1>2. CASE job[j].serial = job[k].serial
  BY <1>2 DEF JobsInv, Numbering, Namesakes
<1>3. CASE job[j].serial # job[k].serial
  BY <1>1, <1>3 DEF Namesakes, Id, IdOf
<1> QED BY <1>2, <1>3

LEMMA JobsInvOwn == JobsInv => ResultsAreOwn
<1> SUFFICES ASSUME JobsInv PROVE ResultsAreOwn
  OBVIOUS
<1>1. \A k \in Jobs : job[k].result \notin {None, k} => Namesakes(k, job[k].result)
  BY OneIdNamesakes DEF JobsInv, ResultsById
<1>2. ASSUME NEW k \in Jobs, job[k].phase = "running"
      PROVE  \/ compiles[job[k].at][Id(k)] = k /\ job[k].compiler
             \/ \E j \in Numbered \ {k} : Namesakes(j, k)
  <2>1. k \in Numbered
    BY <1>2 DEF Numbered
  <2> QED BY <1>2, <2>1, OneIdNamesakes DEF JobsInv, ResultsById
<1> QED BY <1>1, <1>2 DEF JobsInv, ResultsAreOwn

JobRecords ==
    [serial : 0..MaxSerial, life : 0..MaxLives, at : Machines \cup {None},
     phase : {"none", "scheduled", "running", "over"}, compiler : BOOLEAN,
     result : Jobs \cup {None}]

LEMMA JobsInit == FeedInit => JobsInv
BY FeedAssumption
   DEF FeedInit, JobsInv, JobsTypeOK, Numbering, CompilesRight, ResultsById, NewJob, Ids, Numbered

LEMMA JobsFrame ==
    ASSUME JobsInv, UNCHANGED jobVars
    PROVE  JobsInv'
BY DEF jobVars, JobsInv, JobsTypeOK, Numbering, CompilesRight, ResultsById, Id, IdOf, Ids, Numbered

LEMMA ScheduleKeepsJobs ==
    ASSUME JobsInv, NEW j \in Jobs, NEW m \in Machines, Schedule(j, m)
    PROVE  JobsInv'
<1> DEFINE new == [NewJob EXCEPT !.serial = jobId + 1, !.life = life, !.at = m,
                                 !.phase = "scheduled"]
<1>1. /\ job' = [job EXCEPT ![j] = new]
      /\ jobId' = jobId + 1 /\ jobId + 1 \in 1..MaxSerial
      /\ life' = life /\ compiles' = compiles
      /\ job[j].phase = "none"
  <2>1. jobId \in Nat /\ MaxSerial \in Nat /\ jobId < MaxSerial /\ jobId' = jobId + 1
    BY FeedAssumption DEF Schedule, JobsInv, JobsTypeOK
  <2>2. job' = [job EXCEPT ![j] = new]
    BY <2>1 DEF Schedule
  <2> QED BY <2>1, <2>2 DEF Schedule
<1>2. /\ Numbered' = Numbered \cup {j} /\ j \notin Numbered
      /\ job'[j] = new
      /\ \A i \in Jobs \ {j} : job'[i] = job[i] /\ Id(i)' = Id(i)
  BY <1>1 DEF Numbered, Id, JobsInv, JobsTypeOK, NewJob
<1>3. JobsTypeOK'
  <2>1. jobId + 1 \in 0..MaxSerial /\ life \in 0..MaxLives /\ life \in 1..MaxLives
    BY <1>1, FeedAssumption DEF JobsInv, JobsTypeOK
  <2>2. new \in JobRecords
    BY <2>1 DEF NewJob, JobRecords
  <2> HIDE DEF new
  <2>3. job' \in [Jobs -> JobRecords]
    BY <1>1, <2>2 DEF JobsInv, JobsTypeOK, JobRecords
  <2> QED BY <1>1, <2>1, <2>3 DEF JobsInv, JobsTypeOK, JobRecords
<1>4. Numbering'
  <2>1. /\ new.at = m /\ new.serial = jobId + 1 /\ new.life = life /\ ~new.compiler
        /\ new.result = None /\ new.phase = "scheduled"
    BY DEF NewJob
  <2>2. life \in Nat \ {0} /\ jobId \in Nat
    BY FeedAssumption DEF JobsInv, JobsTypeOK
  <2> HIDE DEF new
  <2>3. \A i \in Numbered : i \in Jobs \ {j}
    BY <1>2 DEF Numbered
  <2>4. \A i \in Numbered : job[i].life = life => job[i].serial < jobId + 1
    BY <2>2 DEF JobsInv, Numbering
  <2>5. \A i \in Numbered' : /\ job'[i].at \in Machines
                             /\ job'[i].serial \in 1..MaxSerial
                             /\ job'[i].life \in 1..life'
                             /\ job'[i].life = life' => job'[i].serial <= jobId'
    BY <1>1, <1>2, <2>1, <2>2, <2>3, <2>4 DEF JobsInv, Numbering
  <2>6. \A i, k \in Numbered' :
          (i # k /\ job'[i].life = job'[k].life) => job'[i].serial # job'[k].serial
    BY <1>2, <2>1, <2>2, <2>3, <2>4 DEF JobsInv, Numbering
  <2>7. \A i \in Jobs : job'[i].compiler => job'[i].phase \in {"running", "over"}
    BY <1>2, <2>1 DEF JobsInv, Numbering
  <2> QED BY <2>5, <2>6, <2>7 DEF Numbering
<1>5. CompilesRight'
  <2>1. \A n \in Machines, i \in Ids : compiles[n][i] # None => compiles[n][i] \in Jobs \ {j}
    BY <1>1 DEF JobsInv, CompilesRight, Numbering, JobsTypeOK
  <2> QED BY <1>1, <1>2, <2>1 DEF CompilesRight, JobsInv
<1>6. ResultsById'
  <2>1. new.result = None /\ new.phase = "scheduled"
    BY DEF NewJob
  <2> HIDE DEF new
  <2> QED BY <1>1, <1>2, <2>1 DEF ResultsById, JobsInv, Numbered
<1> QED BY <1>3, <1>4, <1>5, <1>6 DEF JobsInv

\* A step that changes no number of a job, nor the numbering.
SameNumber(j) ==
    /\ job'[j].serial = job[j].serial
    /\ job'[j].life = job[j].life
    /\ job'[j].at = job[j].at
    /\ job'[j].phase = "none" <=> job[j].phase = "none"
    /\ job'[j].compiler => job'[j].phase \in {"running", "over"}

SameNumbers == (\A j \in Jobs : SameNumber(j)) /\ UNCHANGED <<jobId, life>>

LEMMA NumbersFrame ==
    ASSUME JobsInv, SameNumbers
    PROVE  /\ Numbering'
           /\ Numbered' = Numbered
           /\ \A j \in Jobs : Id(j)' = Id(j)
<1>1. Numbered' = Numbered
  BY DEF SameNumbers, SameNumber, Numbered
<1>2. Numbering'
  BY <1>1 DEF SameNumbers, SameNumber, Numbering, JobsInv, Numbered
<1> QED BY <1>1, <1>2 DEF SameNumbers, SameNumber, Id

LEMMA StartKeepsJobs ==
    ASSUME JobsInv, NEW j \in Jobs, JobStarts(j)
    PROVE  JobsInv'
<1>1. PICK m \in Machines : m = job[j].at
  BY DEF JobStarts, JobsInv, Numbering, Numbered
<1>2. /\ job' = [job EXCEPT ![j].phase = "running", ![j].compiler = TRUE]
      /\ compiles' = [compiles EXCEPT ![m][Id(j)] = j]
      /\ UNCHANGED <<jobId, life>>
      /\ job[j].phase = "scheduled"
  BY <1>1 DEF JobStarts
<1>3. JobsTypeOK'
  <2>1. job \in [Jobs -> JobRecords]
    BY DEF JobsInv, JobsTypeOK, JobRecords
  <2>2. [job[j] EXCEPT !.phase = "running", !.compiler = TRUE] \in JobRecords
    BY <2>1 DEF JobRecords
  <2>3. job' = [job EXCEPT ![j] = [job[j] EXCEPT !.phase = "running", !.compiler = TRUE]]
    BY <1>2, <2>1
  <2>4. job' \in [Jobs -> JobRecords]
    BY <2>1, <2>2, <2>3
  <2>5. compiles' \in [Machines -> [Ids -> Jobs \cup {None}]]
    BY <1>2 DEF JobsInv, JobsTypeOK
  <2> QED BY <1>2, <2>4, <2>5 DEF JobsInv, JobsTypeOK, JobRecords
<1>4. SameNumbers
  BY <1>2 DEF SameNumbers, SameNumber, JobsInv, JobsTypeOK, Numbering
<1>5. j \in Numbered /\ Id(j) \in Ids
  BY <1>2, IdsAreIds DEF Numbered
<1>6. /\ job'[j].compiler /\ job'[j].result = job[j].result
      /\ \A i \in Jobs \ {j} : job'[i] = job[i]
      /\ \A n \in Machines, i \in Ids :
            compiles'[n][i] = IF n = m /\ i = Id(j) THEN j ELSE compiles[n][i]
  BY <1>2, <1>5 DEF JobsInv, JobsTypeOK
<1>7. CompilesRight'
  BY <1>1, <1>4, <1>6, NumbersFrame DEF CompilesRight, JobsInv, JobsTypeOK, SameNumbers, SameNumber
<1>8. ResultsById'
  <2>1. \A k \in Jobs : job'[k].result # None =>
           k \in Numbered' /\ job'[k].result \in Numbered' /\ Id(job[k].result)' = Id(k)'
    BY <1>4, <1>6, NumbersFrame DEF ResultsById, JobsInv, Numbered
  <2>2. ASSUME NEW k \in Jobs, job'[k].phase = "running"
        PROVE  \/ compiles'[job'[k].at][Id(k)'] = k /\ job'[k].compiler
               \/ \E i \in Numbered' \ {k} : Id(i)' = Id(k)'
    <3>1. CASE k = j
      BY <1>1, <1>4, <1>5, <1>6, <3>1, NumbersFrame DEF SameNumbers, SameNumber
    <3>2. CASE k # j
      <4>1. k \in Numbered /\ job[k].phase = "running" /\ job'[k] = job[k]
        BY <1>6, <2>2, <3>2 DEF Numbered
      <4>2. job[k].at \in Machines /\ Id(k) \in Ids
        BY <4>1, IdsAreIds DEF JobsInv, Numbering
      <4> QED BY <1>4, <1>5, <1>6, <3>2, <4>1, <4>2, NumbersFrame DEF ResultsById, JobsInv, Numbered
    <3> QED BY <3>1, <3>2
  <2> QED BY <1>6, <2>1, <2>2 DEF ResultsById
<1> QED BY <1>3, <1>4, <1>7, <1>8, NumbersFrame DEF JobsInv

LEMMA CompileKeepsJobs ==
    ASSUME JobsInv, NEW j \in Jobs, CompileEnds(j)
    PROVE  JobsInv'
<1>1. /\ j \in Numbered /\ job[j].compiler
      /\ job[j].at \in Machines
      /\ Id(j) \in Ids
  BY IdsAreIds DEF CompileEnds, JobsInv, Numbering, Numbered
<1>2. PICK m \in Machines, n \in Ids : m = job[j].at /\ n = Id(j)
  BY <1>1
<1>3. PICK k \in Jobs \cup {None} : k = compiles[m][n]
  BY <1>2 DEF JobsInv, JobsTypeOK
<1> DEFINE given == k # None /\ job[k].phase = "running"
<1>4. /\ compiles' = [compiles EXCEPT ![m][n] = None]
      /\ UNCHANGED <<jobId, life>>
      /\ job' = IF given THEN [[job EXCEPT ![j].compiler = FALSE]
                                    EXCEPT ![k].phase = "over", ![k].result = j]
                ELSE [job EXCEPT ![j].compiler = FALSE]
  BY <1>2, <1>3 DEF CompileEnds
<1>5. JobsTypeOK'
  <2>1. job \in [Jobs -> JobRecords] /\ j \in Jobs
    BY DEF JobsInv, JobsTypeOK, JobRecords
  <2>2. [job EXCEPT ![j].compiler = FALSE] \in [Jobs -> JobRecords]
    BY <2>1 DEF JobRecords
  <2>3. \A f \in [Jobs -> JobRecords] : given =>
           [f EXCEPT ![k].phase = "over", ![k].result = j] \in [Jobs -> JobRecords]
    BY DEF JobRecords
  <2>4. job' \in [Jobs -> JobRecords]
    BY <1>4, <2>2, <2>3
  <2> QED BY <1>4, <2>4 DEF JobsInv, JobsTypeOK, JobRecords
<1>6. /\ \A i \in Jobs : /\ job'[i].phase = IF given /\ i = k THEN "over" ELSE job[i].phase
                         /\ job'[i].result = IF given /\ i = k THEN j ELSE job[i].result
                         /\ job'[i].compiler = (i # j /\ job[i].compiler)
                         /\ job'[i].at = job[i].at
      /\ \A d \in Machines, i \in Ids :
            compiles'[d][i] = IF d = m /\ i = n THEN None ELSE compiles[d][i]
  BY <1>4 DEF JobsInv, JobsTypeOK
<1>7. SameNumbers
  BY <1>4, <1>6 DEF SameNumbers, SameNumber, JobsInv, JobsTypeOK, Numbering
<1>8. given => k \in Numbered /\ Id(k) = n /\ job[k].at = m
  BY <1>3 DEF JobsInv, CompilesRight, Numbered
<1> HIDE DEF given
<1>9. CompilesRight'
  <2> SUFFICES ASSUME NEW d \in Machines, NEW i \in Ids, compiles'[d][i] # None
               PROVE  /\ job'[compiles'[d][i]].at = d
                      /\ job'[compiles'[d][i]].compiler
                      /\ Id(compiles[d][i])' = i
    BY DEF CompilesRight, Ids
  <2>1. PICK x \in Jobs : x = compiles[d][i] /\ x = compiles'[d][i]
    BY <1>6 DEF JobsInv, JobsTypeOK
  <2>2. job[x].at = d /\ job[x].compiler /\ Id(x) = i
    <3>1. compiles[d][i] # None
      BY <2>1, FeedAssumption
    <3>2. /\ job[compiles[d][i]].at = d
          /\ job[compiles[d][i]].compiler
          /\ Id(compiles[d][i]) = i
      BY <3>1, Zenon DEF JobsInv, CompilesRight
    <3> QED BY <2>1, <3>2, Zenon
  <2>3. x # j
    BY <1>2, <1>6, <2>1, <2>2
  <2>4. job'[x].at = d /\ job'[x].compiler
    BY <1>6, <2>2, <2>3
  <2>5. IdOf(job'[x].serial) = i
    BY <1>7, <2>2 DEF Id, SameNumbers, SameNumber
  <2> QED BY <2>1, <2>4, <2>5 DEF Id
<1>10. ResultsById'
  <2>1. \A x \in Jobs : job'[x].result # None =>
           x \in Numbered' /\ job'[x].result \in Numbered' /\ Id(job[x].result)' = Id(x)'
    BY <1>1, <1>2, <1>6, <1>7, <1>8, NumbersFrame DEF ResultsById, JobsInv, Numbered
  <2>2. ASSUME NEW x \in Jobs, job'[x].phase = "running"
        PROVE  \/ compiles'[job'[x].at][Id(x)'] = x /\ job'[x].compiler
               \/ \E i \in Numbered' \ {x} : Id(i)' = Id(x)'
    <3>1. job[x].phase = "running" /\ job'[x].at = job[x].at /\ ~(given /\ x = k)
      BY <1>6, <2>2
    <3>2. x \in Numbered /\ job[x].at \in Machines /\ Id(x) \in Ids
      BY <3>1, IdsAreIds DEF JobsInv, Numbering, Numbered
    <3>3. CASE compiles[job[x].at][Id(x)] = x /\ job[x].compiler
      <4>1. ~(job[x].at = m /\ Id(x) = n)
        BY <1>3, <3>1, <3>3, FeedAssumption DEF given
      <4>2. x # j
        BY <1>2, <4>1
      <4>3. job'[x].compiler
        BY <1>6, <3>3, <4>2
      <4>4. compiles'[job[x].at][Id(x)] = x
        BY <1>6, <3>2, <3>3, <4>1
      <4> QED BY <1>7, <3>1, <4>3, <4>4, NumbersFrame
    <3>4. CASE \E i \in Numbered \ {x} : Id(i) = Id(x)
      BY <1>7, <3>4, NumbersFrame DEF Numbered
    <3> QED BY <3>1, <3>3, <3>4 DEF JobsInv, ResultsById
  <2> QED BY <2>1, <2>2 DEF ResultsById
<1> QED BY <1>5, <1>7, <1>9, <1>10, NumbersFrame DEF JobsInv

LEMMA AbortKeepsJobs ==
    ASSUME JobsInv, NEW j \in Jobs, JobAborts(j)
    PROVE  JobsInv'
<1>1. /\ job' = [job EXCEPT ![j].phase = "over"]
      /\ UNCHANGED <<jobId, life, compiles>>
      /\ job[j].phase = "running"
  BY DEF JobAborts
<1>2. JobsTypeOK'
  BY <1>1, FeedAssumption DEF JobsInv, JobsTypeOK
<1>3. \A i \in Jobs : /\ job'[i].phase = IF i = j THEN "over" ELSE job[i].phase
                      /\ job'[i].compiler = job[i].compiler
                      /\ job'[i].result = job[i].result
                      /\ job'[i].at = job[i].at
  BY <1>1 DEF JobsInv, JobsTypeOK
<1>4. SameNumbers
  BY <1>1, <1>3 DEF SameNumbers, SameNumber, JobsInv, JobsTypeOK, Numbering
<1>5. CompilesRight'
  BY <1>1, <1>3, <1>4, NumbersFrame DEF CompilesRight, JobsInv, JobsTypeOK
<1>6. ResultsById'
  <2>1. \A x \in Jobs : job'[x].result # None =>
           x \in Numbered' /\ job'[x].result \in Numbered' /\ Id(job[x].result)' = Id(x)'
    BY <1>3, <1>4, NumbersFrame DEF ResultsById, JobsInv, Numbered
  <2>2. ASSUME NEW x \in Jobs, job'[x].phase = "running"
        PROVE  \/ compiles'[job'[x].at][Id(x)'] = x /\ job'[x].compiler
               \/ \E i \in Numbered' \ {x} : Id(i)' = Id(x)'
    <3>1. job[x].phase = "running"
      BY <1>3, <2>2
    <3> QED BY <1>1, <1>3, <1>4, <2>2, <3>1, NumbersFrame DEF ResultsById, JobsInv, Numbered
  <2> QED BY <2>1, <2>2 DEF ResultsById
<1> QED BY <1>2, <1>4, <1>5, <1>6, NumbersFrame DEF JobsInv

(* The death of a builder ends its jobs, and leaves them their numbers. *)
LEMMA DeathKeepsNumbers ==
    ASSUME JobsInv, NEW c \in Conns, BuilderDies(c)
    PROVE  SameNumbers
<1>1. \A j \in Jobs : \/ job'[j] = job[j]
                     \/ /\ job[j].phase \in {"running", "over"}
                        /\ job'[j] = [job[j] EXCEPT !.phase = "over", !.compiler = FALSE]
  BY DEF BuilderDies
<1>2. \A j \in Jobs : job[j] \in JobRecords
  BY DEF JobsInv, JobsTypeOK, JobRecords
<1>3. \A j \in Jobs : job[j].compiler => job[j].phase \in {"running", "over"}
  BY DEF JobsInv, Numbering
<1>4. ASSUME NEW j \in Jobs PROVE SameNumber(j)
  <2>1. CASE job'[j] = job[j]
    BY <1>3, <2>1 DEF SameNumber
  <2>2. CASE /\ job[j].phase \in {"running", "over"}
             /\ job'[j] = [job[j] EXCEPT !.phase = "over", !.compiler = FALSE]
    BY <1>2, <2>2 DEF JobRecords, SameNumber
  <2> QED BY <1>1, <2>1, <2>2
<1>5. UNCHANGED <<jobId, life>>
  BY DEF BuilderDies
<1> QED BY <1>4, <1>5 DEF SameNumbers

LEMMA DeathKeepsJobs ==
    ASSUME JobsInv, NEW c \in Conns, BuilderDies(c)
    PROVE  JobsInv'
<1>1. PICK m \in Machines : m = MachineOf[c]
  BY RegistryAssumption
<1>2. /\ job' = [j \in Jobs |->
                   IF job[j].at = m /\ job[j].phase \in {"running", "over"}
                   THEN [job[j] EXCEPT !.phase = "over", !.compiler = FALSE] ELSE job[j]]
      /\ compiles' = [compiles EXCEPT ![m] = [i \in Ids |-> None]]
      /\ UNCHANGED <<jobId, life>>
  BY <1>1 DEF BuilderDies
<1>3. JobsTypeOK'
  <2>1. job \in [Jobs -> JobRecords]
    BY DEF JobsInv, JobsTypeOK, JobRecords
  <2>2. \A r \in JobRecords : [r EXCEPT !.phase = "over", !.compiler = FALSE] \in JobRecords
    BY DEF JobRecords
  <2>3. job' \in [Jobs -> JobRecords]
    BY <1>2, <2>1, <2>2
  <2>4. compiles' \in [Machines -> [Ids -> Jobs \cup {None}]]
    BY <1>2 DEF JobsInv, JobsTypeOK
  <2> QED BY <1>2, <2>3, <2>4 DEF JobsInv, JobsTypeOK, JobRecords
<1>4. \A i \in Jobs : /\ job[i].at # m => job'[i] = job[i]
                      /\ job'[i].phase = "running" => job'[i] = job[i] /\ job[i].at # m
                      /\ job'[i].result = job[i].result
                      /\ job'[i].at = job[i].at
  BY <1>2 DEF JobsInv, JobsTypeOK
<1>5. SameNumbers
  BY DeathKeepsNumbers
<1>6. \A d \in Machines, i \in Ids : compiles'[d][i] = IF d = m THEN None ELSE compiles[d][i]
  BY <1>2 DEF JobsInv, JobsTypeOK
<1>7. CompilesRight'
  BY <1>4, <1>5, <1>6, NumbersFrame DEF CompilesRight, JobsInv, JobsTypeOK
<1>8. ResultsById'
  <2>1. \A x \in Jobs : job'[x].result # None =>
           x \in Numbered' /\ job'[x].result \in Numbered' /\ Id(job[x].result)' = Id(x)'
    BY <1>4, <1>5, NumbersFrame DEF ResultsById, JobsInv, Numbered
  <2>2. ASSUME NEW x \in Jobs, job'[x].phase = "running"
        PROVE  \/ compiles'[job'[x].at][Id(x)'] = x /\ job'[x].compiler
               \/ \E i \in Numbered' \ {x} : Id(i)' = Id(x)'
    <3>1. x \in Numbered /\ job[x].at \in Machines /\ Id(x) \in Ids
      BY <1>4, <2>2, IdsAreIds DEF JobsInv, Numbering, Numbered
    <3> QED BY <1>4, <1>5, <1>6, <2>2, <3>1, NumbersFrame DEF ResultsById, JobsInv, Numbered
  <2> QED BY <2>1, <2>2 DEF ResultsById
<1> QED BY <1>3, <1>5, <1>7, <1>8, NumbersFrame DEF JobsInv

LEMMA RestartKeepsJobs ==
    ASSUME JobsInv, Restart
    PROVE  JobsInv'
<1>1. /\ life \in 1..MaxLives /\ life < MaxLives /\ life' = life + 1
      /\ jobId' = 0 /\ UNCHANGED <<job, compiles>>
  BY DEF Restart, JobsInv, JobsTypeOK
<1>2. JobsTypeOK'
  BY <1>1, FeedAssumption DEF JobsInv, JobsTypeOK
<1>3. Numbering'
  BY <1>1, FeedAssumption DEF JobsInv, Numbering, Numbered
<1>4. CompilesRight' /\ ResultsById'
  BY <1>1 DEF JobsInv, CompilesRight, ResultsById, Numbered, Id
<1> QED BY <1>2, <1>3, <1>4 DEF JobsInv

LEMMA JobsKept == JobsInv /\ [FeedNext]_allVars => JobsInv'
<1> SUFFICES ASSUME JobsInv, [FeedNext]_allVars PROVE JobsInv'
  OBVIOUS
<1>1. CASE UNCHANGED jobVars
  BY <1>1, JobsFrame
<1>2. ASSUME NEW c \in Conns, BuilderDies(c) PROVE JobsInv'
  BY <1>2, DeathKeepsJobs
<1>3. ASSUME NEW j \in Jobs, NEW m \in Machines, Schedule(j, m) PROVE JobsInv'
  BY <1>3, ScheduleKeepsJobs
<1>4. ASSUME NEW j \in Jobs, JobStarts(j) \/ CompileEnds(j) \/ JobAborts(j) PROVE JobsInv'
  BY <1>4, StartKeepsJobs, CompileKeepsJobs, AbortKeepsJobs
<1>5. CASE Restart
  BY <1>5, RestartKeepsJobs
<1>6. CASE /\ FeedNext
           /\ ~\E c \in Conns : BuilderDies(c)
           /\ ~\E j \in Jobs, m \in Machines : Schedule(j, m)
           /\ ~\E j \in Jobs : JobStarts(j) \/ CompileEnds(j) \/ JobAborts(j)
           /\ ~Restart
  BY <1>1, <1>6 DEF FeedNext, feedVars, BuilderComes, BuilderGoes, MonitorConnects, SendInfo,
                    MonitorCloses
<1>7. CASE UNCHANGED allVars
  BY <1>1, <1>7 DEF allVars, feedVars
<1> QED BY <1>2, <1>3, <1>4, <1>5, <1>6, <1>7

LEMMA JobsInvHolds == FeedSpec => []JobsInv
BY JobsInit, JobsKept, PTL DEF FeedSpec

(* A client gets the result of its own compile, and gets one, unless the scheduler handed
   its job's id to another job too: in another life, or at the limit. *)
THEOREM ResultsStayOwn == FeedSpec => []ResultsAreOwn
BY JobsInvHolds, JobsInvOwn, PTL

----------------------------------------------------------------------------
(* The monitor *)

Registered == {m \in Machines : registry[m] # None}

\* No two jobs have one id.
Distinct == \A j \in Numbered, k \in Numbered : Id(j) = Id(k) => j = k

KnownRight ==
    /\ known \subseteq Registered
    /\ monitor = "informed" => known = Registered
    /\ monitor = "gone" => known = {}

\* The monitor's table holds jobs that have started, by their ids.
TableRight ==
    \A i \in Ids : table[i] # None =>
       job[table[i]].phase \in {"running", "over"} /\ Id(table[i]) = i

ShownRight == \A j \in shown : j \in Numbered /\ job[j].at \in known /\ table[Id(j)] = j

\* The running jobs of m that the monitor has in its table.
Counted(m) == {j \in Jobs : job[j].at = m /\ job[j].phase = "running" /\ table[Id(j)] = j}

\* A builder that does not report now, on the connection it is registered with, has not
\* reported on it yet.
Bound(m) == IF peer[ws[m]] = "open" THEN Cardinality(Counted(m)) ELSE 0
ActiveRight ==
    \A m \in known : (registry[m] # None /\ ws[m] = registry[m]) => active[m] <= Bound(m)

\* No connection arrives that the builder has not started.
ArrivedRight == \A c \in Conns : peer[c] = "idle" => sched[c] = "none"

MonInv ==
    /\ MonitorTypeOK
    /\ KnownRight
    /\ TableRight
    /\ ArrivedRight
    /\ Distinct => ShownRight /\ ActiveRight

AllInv == Inv /\ JobsInv /\ MonInv

LEMMA CountedIsFinite ==
    ASSUME AllInv, NEW m \in Machines
    PROVE  /\ IsFiniteSet(Counted(m)) /\ IsFiniteSet(Running(m))
           /\ Counted(m) \subseteq Running(m)
           /\ Cardinality(Counted(m)) \in Nat
           /\ Cardinality(Counted(m)) <= Cardinality(Running(m))
           /\ Cardinality(Running(m)) \in Nat
<1>1. IsFiniteSet(Counted(m)) /\ IsFiniteSet(Running(m))
  BY FS_Subset, FeedAssumption DEF Counted, Running
<1>2. Counted(m) \subseteq Running(m)
  BY DEF Counted, Running
<1> QED BY <1>1, <1>2, FS_Subset, FS_CardinalityType

LEMMA MonInit == FeedInit => MonInv
BY DEF FeedInit, Init, RegistryInit, MonInv, MonitorTypeOK, KnownRight, TableRight, ArrivedRight,
       ShownRight, ActiveRight, Registered, Ids

LEMMA MonitorFollows == AllInv => MonitorIsRight
<1> SUFFICES ASSUME AllInv PROVE MonitorIsRight
  OBVIOUS
<1>1. MonitorTypeOK /\ (monitor = "informed" => known = {m \in Machines : registry[m] # None})
  BY DEF AllInv, MonInv, KnownRight, Registered
<1>2. CASE ~Distinct
  BY <1>1, <1>2 DEF Distinct, MonitorIsRight
<1>3. CASE Distinct
  <2>1. \A j \in shown : job[j].at \in known /\ table[Id(j)] = j
    BY <1>3 DEF AllInv, MonInv, ShownRight
  <2>2. ASSUME NEW m \in known, registry[m] # None, ws[m] = registry[m]
        PROVE  active[m] <= Cardinality(Running(m))
    <3>1. m \in Machines /\ active[m] \in Int
      BY DEF AllInv, MonInv, MonitorTypeOK
    <3>2. active[m] <= Bound(m)
      BY <1>3, <2>2 DEF AllInv, MonInv, ActiveRight
    <3>3. Bound(m) \in Nat /\ Bound(m) <= Cardinality(Running(m))
      BY <3>1, CountedIsFinite DEF Bound
    <3> QED BY <3>1, <3>2, <3>3, CountedIsFinite
  <2> QED BY <1>1, <2>1, <2>2 DEF MonitorIsRight
<1> QED BY <1>2, <1>3

----------------------------------------------------------------------------
(* Steps of the connections that no job and no monitor notices *)

\* What a step of a connection must not change of m, or what it must make of it.
CalmAt(m) ==
    \/ ws'[m] # registry'[m]
    \/ registry'[m] = None
    \/ ws'[m] = ws[m] /\ registry'[m] = registry[m] /\ (peer[ws[m]] = "open" => peer'[ws[m]] = "open")

LEMMA FeedFrame ==
    ASSUME UNCHANGED feedVars
    PROVE  /\ Numbered' = Numbered /\ Distinct' = Distinct
           /\ TableRight <=> TableRight'
           /\ ShownRight <=> ShownRight'
           /\ \A m \in Machines : Counted(m)' = Counted(m)
           /\ MonitorTypeOK <=> MonitorTypeOK'
BY DEF feedVars, jobVars, monitorVars, Numbered, Distinct, TableRight, ShownRight, Counted,
       Id, IdOf, Ids, MonitorTypeOK

LEMMA ConnectionFrame ==
    ASSUME AllInv, UNCHANGED feedVars, UNCHANGED registry, ArrivedRight',
           \A m \in Machines : CalmAt(m)
    PROVE  MonInv'
<1>1. MonitorTypeOK' /\ TableRight' /\ (Distinct' => Distinct /\ ShownRight')
  BY FeedFrame DEF AllInv, MonInv
<1>2. KnownRight'
  BY DEF AllInv, MonInv, KnownRight, Registered, feedVars, monitorVars
<1>3. ASSUME Distinct PROVE ActiveRight'
  <2> SUFFICES ASSUME NEW m \in known, registry'[m] # None, ws'[m] = registry'[m]
               PROVE  active[m] <= Bound(m)'
    BY DEF ActiveRight, feedVars, monitorVars
  <2>1. m \in Machines /\ active[m] \in Int
    BY DEF AllInv, MonInv, MonitorTypeOK
  <2>2. CalmAt(m) /\ ws'[m] = ws[m] /\ registry'[m] = registry[m]
        /\ (peer[ws[m]] = "open" => peer'[ws[m]] = "open")
    BY <2>1 DEF CalmAt
  <2>3. active[m] <= Bound(m)
    BY <1>3, <2>2 DEF AllInv, MonInv, ActiveRight
  <2>4. Cardinality(Counted(m)') = Cardinality(Counted(m)) /\ Cardinality(Counted(m)) \in Nat
    BY <2>1, FeedFrame, CountedIsFinite
  <2> QED BY <2>1, <2>2, <2>3, <2>4 DEF Bound
<1> QED BY <1>1, <1>2, <1>3 DEF MonInv

LEMMA QuietStepsKeep ==
    ASSUME AllInv, UNCHANGED feedVars,
           NEW c \in Conns,
           Connect(c) \/ Opened(c) \/ PeerCloses(c) \/ DeafCloses(c) \/ Pong(c) \/ PingAll
    PROVE  MonInv'
<1>1. UNCHANGED registry /\ \A d \in Conns : sched'[d] = sched[d]
  BY DEF Connect, Opened, PeerCloses, DeafCloses, Pong, PingAll, GivesUp, OptionGiven,
         registryVars, AllInv, Inv, RegistryInv, RegistryTypeOK
<1>2. /\ peer \in [Conns -> {"idle", "connecting", "open", "gone"}]
      /\ ws \in [Machines -> Conns \cup {None}]
      /\ MachineOf \in [Conns -> Machines] /\ None \notin Conns
      /\ ArrivedRight
  BY RegistryAssumption DEF AllInv, Inv, KeepsTrying, TypeOK, MonInv
<1>3. \A d \in Conns : peer'[d] = "idle" => peer[d] = "idle"
  BY <1>2 DEF Connect, Opened, PeerCloses, DeafCloses, Pong, PingAll, builderVars
<1>4. ArrivedRight'
  BY <1>1, <1>2, <1>3 DEF ArrivedRight
<1>5. \A m \in Machines : registry[m] # None => sched[registry[m]] # "none"
  BY DEF AllInv, Inv, RegistryInv, RegistryIsRight, RegistryIsLive, Inserted
<1>6. ASSUME NEW m \in Machines PROVE CalmAt(m)
  <2>1. CASE Connect(c)
    <3>1. peer[c] = "idle" /\ sched[c] = "none"
      BY <1>2, <2>1 DEF Connect, ArrivedRight
    <3> QED BY <1>1, <1>2, <1>5, <2>1, <3>1 DEF Connect, CalmAt
  <2>2. CASE Opened(c)
    BY <1>1, <1>2, <2>2 DEF Opened, CalmAt
  <2>3. CASE PeerCloses(c)
    <3>1. CASE m = MachineOf[c]
      BY <1>1, <1>2, <2>3, <3>1 DEF PeerCloses, CalmAt
    <3>2. CASE m # MachineOf[c]
      <4>1. ws[m] # c
        BY <1>2, <3>2 DEF AllInv, Inv, ClientsOwn
      <4> QED BY <1>1, <1>2, <2>3, <3>2, <4>1 DEF PeerCloses, CalmAt
    <3> QED BY <3>1, <3>2
  <2>4. CASE DeafCloses(c)
    <3>1. ws[m] # c
      BY <1>2, <2>4 DEF DeafCloses, AllInv, Inv, ClientsOwn
    <3> QED BY <1>1, <1>2, <2>4, <3>1 DEF DeafCloses, CalmAt
  <2>5. CASE Pong(c) \/ PingAll
    BY <1>1, <2>5 DEF Pong, PingAll, builderVars, CalmAt
  <2> QED BY <2>1, <2>2, <2>3, <2>4, <2>5
<1> QED BY <1>1, <1>4, <1>6, ConnectionFrame

LEMMA NothingKeeps ==
    ASSUME AllInv, UNCHANGED allVars
    PROVE  MonInv'
<1>1. ArrivedRight'
  BY DEF allVars, vars, builderVars, registryVars, AllInv, MonInv, ArrivedRight
<1>2. \A m \in Machines : CalmAt(m)
  BY DEF allVars, vars, builderVars, registryVars, CalmAt
<1> QED BY <1>1, <1>2, ConnectionFrame DEF allVars, vars, registryVars

----------------------------------------------------------------------------
(* Steps of the connections and the monitor *)

LEMMA JobsSame ==
    ASSUME UNCHANGED <<job, table>>
    PROVE  /\ Numbered' = Numbered /\ Distinct' = Distinct
           /\ TableRight <=> TableRight'
           /\ \A m \in Machines : Counted(m)' = Counted(m)
           /\ \A j \in Jobs : Id(j)' = Id(j)
BY DEF Numbered, Distinct, TableRight, Counted, Id, IdOf, Ids

LEMMA ComesKeeps ==
    ASSUME AllInv, NEW c \in Conns, BuilderComes(c)
    PROVE  MonInv'
<1>1. PICK m \in Machines : m = MachineOf[c]
  BY RegistryAssumption
<1>2. /\ registry' = [registry EXCEPT ![m] = c]
      /\ sched' = [sched EXCEPT ![c] = "open"]
      /\ peer[c] # "idle"
      /\ UNCHANGED <<ws, peer, job, monitor>>
      /\ IF Listening THEN Added({m}) ELSE Silent
  BY <1>1 DEF BuilderComes, BuilderArrives, InsertBuilder, builderVars, jobVars
<1>3. /\ MonitorTypeOK /\ KnownRight /\ TableRight /\ ArrivedRight
      /\ registry \in [Machines -> Conns \cup {None}]
      /\ sched \in [Conns -> {"none", "open", "closing", "closed"}]
      /\ c # None
  BY RegistryAssumption DEF AllInv, MonInv, Inv, RegistryInv, RegistryTypeOK
<1>4. UNCHANGED table /\ shown' = shown
  BY <1>2 DEF Added, Silent
<1>5. MonitorTypeOK'
  BY <1>2, <1>3 DEF Added, Silent, MonitorTypeOK
<1>6. KnownRight'
  BY <1>2, <1>3 DEF Added, Silent, KnownRight, Registered, Listening, MonitorTypeOK
<1>7. TableRight' /\ ArrivedRight'
  BY <1>2, <1>3, <1>4, JobsSame DEF ArrivedRight
<1>8. ASSUME Distinct PROVE ShownRight' /\ ActiveRight'
  <2>1. ShownRight /\ ActiveRight
    BY <1>8 DEF AllInv, MonInv
  <2>2. ShownRight'
    BY <1>2, <1>4, <2>1, JobsSame DEF ShownRight, Added, Silent, Id
  <2>3. ASSUME NEW k \in known', registry'[k] # None, ws[k] = registry'[k]
        PROVE  active'[k] <= Bound(k)'
    <3>1. k \in Machines /\ Cardinality(Counted(k)') = Cardinality(Counted(k))
          /\ Cardinality(Counted(k)) \in Nat
      BY <1>2, <1>4, <1>5, JobsSame, CountedIsFinite DEF MonitorTypeOK
    <3>2. CASE k = m
      <4>1. Listening /\ active'[k] = 0
        BY <1>2, <1>3, <3>1, <3>2 DEF Listening, Added, Silent, KnownRight
      <4> QED BY <3>1, <4>1 DEF Bound
    <3>3. CASE k # m
      <4>1. k \in known /\ active'[k] = active[k] /\ registry'[k] = registry[k]
        BY <1>2, <1>3, <3>1, <3>3 DEF Added, Silent
      <4> QED BY <1>2, <2>1, <2>3, <3>1, <4>1 DEF Bound, ActiveRight
    <3> QED BY <3>2, <3>3
  <2> QED BY <1>2, <2>2, <2>3 DEF ActiveRight
<1> QED BY <1>2, <1>4, <1>5, <1>6, <1>7, <1>8, JobsSame DEF MonInv

LEMMA GoesKeeps ==
    ASSUME AllInv, NEW c \in Conns, BuilderGoes(c)
    PROVE  MonInv'
<1>1. PICK m \in Machines : m = MachineOf[c]
  BY RegistryAssumption
<1>2. /\ registry' = [registry EXCEPT ![m] = None]
      /\ sched' = [sched EXCEPT ![c] = "closed"]
      /\ sched[c] # "none"
      /\ UNCHANGED <<ws, peer, job, monitor>>
      /\ IF Listening THEN Removed(m) ELSE Silent
  BY <1>1 DEF BuilderGoes, BuilderCloses, RemoveBuilder, Inserted, builderVars, jobVars
<1>3. /\ MonitorTypeOK /\ KnownRight /\ TableRight /\ ArrivedRight
      /\ registry \in [Machines -> Conns \cup {None}]
      /\ sched \in [Conns -> {"none", "open", "closing", "closed"}]
  BY DEF AllInv, MonInv, Inv, RegistryInv, RegistryTypeOK
<1>4. UNCHANGED table /\ shown' \subseteq shown
  BY <1>2 DEF Removed, Silent
<1>5. MonitorTypeOK'
  BY <1>2, <1>3, <1>4 DEF Removed, Silent, MonitorTypeOK
<1>6. known' = known \ {m}
  BY <1>2, <1>3 DEF Removed, Silent, KnownRight, Listening
<1>7. KnownRight'
  BY <1>2, <1>3, <1>6 DEF KnownRight, Registered
<1>8. TableRight' /\ ArrivedRight'
  BY <1>2, <1>3, <1>4, JobsSame DEF ArrivedRight
<1>9. ASSUME Distinct PROVE ShownRight' /\ ActiveRight'
  <2>1. ShownRight /\ ActiveRight
    BY <1>9 DEF AllInv, MonInv
  <2>2. ASSUME NEW j \in shown'
        PROVE  j \in Numbered' /\ job'[j].at \in known' /\ table'[Id(j)'] = j
    <3>1. j \in Numbered /\ job[j].at \in known /\ table[Id(j)] = j /\ Id(j) \in Ids
      BY <1>4, <2>1, IdsAreIds DEF ShownRight, AllInv
    <3>2. j \in Jobs /\ j # None
      BY <3>1, FeedAssumption DEF Numbered
    <3>3. job[j].at # m
      BY <1>2, <1>3, <2>2, <3>1, <3>2 DEF Removed, Listening, KnownRight
    <3> QED BY <1>2, <1>4, <1>6, <3>1, <3>2, <3>3, JobsSame
  <2>3. ASSUME NEW k \in known', registry'[k] # None, ws[k] = registry'[k]
        PROVE  active'[k] <= Bound(k)'
    <3>1. k \in known /\ k \in Machines /\ Cardinality(Counted(k)') = Cardinality(Counted(k))
          /\ Cardinality(Counted(k)) \in Nat /\ k # m
      BY <1>2, <1>4, <1>5, <1>6, JobsSame, CountedIsFinite DEF MonitorTypeOK
    <3>2. active'[k] = active[k] /\ registry'[k] = registry[k]
      BY <1>2, <1>3, <3>1 DEF Removed, Silent, MonitorTypeOK
    <3> QED BY <1>2, <2>1, <2>3, <3>1, <3>2 DEF Bound, ActiveRight
  <2> QED BY <1>2, <2>2, <2>3 DEF ActiveRight, ShownRight
<1> QED BY <1>2, <1>4, <1>5, <1>7, <1>8, <1>9, JobsSame DEF MonInv

LEMMA ClearedKeeps ==
    ASSUME AllInv, Cleared, monitor' = "gone", UNCHANGED job, ArrivedRight'
    PROVE  MonInv'
<1>1. MonitorTypeOK'
  BY DEF Cleared, MonitorTypeOK
<1>2. \A i \in Ids : table'[i] = None
  BY DEF Cleared
<1>3. KnownRight' /\ TableRight' /\ ShownRight' /\ ActiveRight'
  BY <1>2 DEF Cleared, KnownRight, TableRight, ShownRight, ActiveRight, Ids
<1> QED BY <1>1, <1>3 DEF MonInv

LEMMA RestartKeepsMonitor ==
    ASSUME AllInv, Restart
    PROVE  MonInv'
<1>1. ArrivedRight'
  BY DEF Restart, SchedulerRestarts, builderVars, Inserted, AllInv, MonInv, ArrivedRight, Inv,
         RegistryInv, RegistryTypeOK
<1> QED BY <1>1, ClearedKeeps DEF Restart

LEMMA MonitorStepsKeep ==
    ASSUME AllInv, MonitorConnects \/ SendInfo \/ MonitorCloses
    PROVE  MonInv'
<1>1. /\ MonitorTypeOK /\ KnownRight /\ TableRight /\ ArrivedRight
      /\ UNCHANGED <<peer, sched, ws, registry, job>>
  BY DEF MonitorConnects, SendInfo, MonitorCloses, AllInv, MonInv, vars, builderVars,
         registryVars, jobVars
<1>2. ArrivedRight'
  BY <1>1 DEF ArrivedRight
<1>3. CASE MonitorCloses
  BY <1>1, <1>2, <1>3, ClearedKeeps DEF MonitorCloses
<1>4. CASE MonitorConnects
  <2>1. UNCHANGED <<known, active, table, shown>> /\ monitor = "gone" /\ monitor' = "connected"
    BY <1>4 DEF MonitorConnects
  <2>2. MonitorTypeOK' /\ KnownRight' /\ known = {}
    BY <1>1, <2>1 DEF MonitorTypeOK, KnownRight, Registered
  <2>3. ShownRight <=> ShownRight'
    BY <1>1, <2>1, JobsSame DEF ShownRight, Numbered, Id, IdOf
  <2> QED BY <1>1, <1>2, <2>1, <2>2, <2>3, JobsSame DEF AllInv, MonInv, ActiveRight
<1>5. CASE SendInfo
  <2>1. /\ UNCHANGED <<table, shown>> /\ monitor' = "informed"
        /\ known' = known \cup Registered
        /\ active' = [m \in Machines |-> IF m \in Registered THEN 0 ELSE active[m]]
    BY <1>5 DEF SendInfo, Added, Registered
  <2>2. MonitorTypeOK' /\ KnownRight'
    BY <1>1, <2>1 DEF MonitorTypeOK, KnownRight, Registered
  <2>3. ShownRight => ShownRight'
    BY <1>1, <2>1, JobsSame DEF ShownRight, Numbered, Id, IdOf
  <2>4. ActiveRight'
    <3> SUFFICES ASSUME NEW m \in known' PROVE active'[m] <= Bound(m)'
      BY DEF ActiveRight
    <3>1. m \in Registered /\ m \in Machines /\ active'[m] = 0
      BY <1>1, <2>1 DEF KnownRight, Registered
    <3>2. Cardinality(Counted(m)') = Cardinality(Counted(m)) /\ Cardinality(Counted(m)) \in Nat
      BY <1>1, <2>1, <3>1, JobsSame, CountedIsFinite
    <3> QED BY <3>1, <3>2 DEF Bound
  <2> QED BY <1>1, <1>2, <2>1, <2>2, <2>3, <2>4, JobsSame DEF AllInv, MonInv
<1> QED BY <1>3, <1>4, <1>5

----------------------------------------------------------------------------
(* Steps of the jobs *)

\* Who reports into the void is not counted by anybody.
LEMMA UnheardIsIdle ==
    ASSUME AllInv, Distinct, NEW m \in known, registry[m] # None, ws[m] = registry[m], ~Heard(m)
    PROVE  Bound(m) = 0
<1>1. m \in Machines /\ Listening
  BY DEF AllInv, MonInv, MonitorTypeOK, KnownRight, Listening
<1>2. ws[m] \in Inserted
  BY <1>1 DEF AllInv, Inv, RegistryInv, RegistryIsRight, RegistryIsLive
<1> QED BY <1>1, <1>2 DEF Heard, Bound

LEMMA ScheduleKeepsMonitor ==
    ASSUME AllInv, NEW j \in Jobs, NEW m \in Machines, Schedule(j, m)
    PROVE  MonInv'
<1>1. /\ job[j].phase = "none"
      /\ UNCHANGED <<registry, ws, peer, sched, monitor, known, active, table, shown>>
      /\ \A i \in Jobs \ {j} : job'[i] = job[i]
      /\ job'[j].phase = "scheduled"
  BY DEF Schedule, vars, builderVars, registryVars, monitorVars, AllInv, JobsInv, JobsTypeOK, NewJob
<1>2. /\ Numbered' = Numbered \cup {j} /\ j \notin Numbered
      /\ \A i \in Numbered : job'[i] = job[i] /\ Id(i)' = Id(i)
  BY <1>1 DEF Numbered, Id
<1>3. MonitorTypeOK' /\ KnownRight' /\ ArrivedRight'
  BY <1>1 DEF AllInv, MonInv, MonitorTypeOK, KnownRight, ArrivedRight, Registered, Ids
<1>4. \A i \in Ids : table[i] # None => table[i] \in Jobs \ {j}
  BY <1>1 DEF AllInv, MonInv, MonitorTypeOK, TableRight
<1>5. TableRight'
  BY <1>1, <1>2, <1>4 DEF AllInv, MonInv, TableRight, Id, Ids
<1>6. ASSUME NEW k \in Machines PROVE Counted(k)' = Counted(k)
  BY <1>1, <1>2 DEF Counted, Numbered
<1>7. ASSUME Distinct' PROVE ShownRight' /\ ActiveRight'
  <2>1. Distinct
    BY <1>2, <1>7 DEF Distinct
  <2>2. ShownRight'
    BY <1>1, <1>2, <2>1 DEF AllInv, MonInv, ShownRight
  <2>3. ASSUME NEW k \in known PROVE Bound(k)' = Bound(k)
    BY <1>1, <1>6 DEF Bound, AllInv, MonInv, MonitorTypeOK
  <2> QED BY <1>1, <2>1, <2>2, <2>3 DEF AllInv, MonInv, ActiveRight
<1> QED BY <1>3, <1>5, <1>7 DEF MonInv

\* What SameNumbers leaves to show.
LEMMA NumbersSame ==
    ASSUME AllInv, SameNumbers
    PROVE  /\ Numbered' = Numbered /\ Distinct' = Distinct
           /\ \A i \in Jobs : Id(i)' = Id(i) /\ job'[i].at = job[i].at
           /\ \A i \in Numbered : i \in Jobs /\ Id(i) \in Ids
<1>1. Numbered' = Numbered /\ \A i \in Jobs : Id(i)' = Id(i)
  BY NumbersFrame DEF AllInv
<1>2. Distinct' = Distinct
  BY <1>1 DEF Distinct, Numbered
<1> QED BY <1>1, <1>2, IdsAreIds DEF SameNumbers, SameNumber, AllInv, Numbered

LEMMA StartKeepsMonitor ==
    ASSUME AllInv, NEW j \in Jobs, JobStarts(j)
    PROVE  MonInv'
<1>1. PICK m \in Machines : m = job[j].at
  BY DEF JobStarts, AllInv, JobsInv, Numbering, Numbered
<1>2. /\ job[j].phase = "scheduled" /\ j \in Numbered
      /\ UNCHANGED <<registry, ws, peer, sched, monitor>>
      /\ \A i \in Jobs : job'[i].phase = IF i = j THEN "running" ELSE job[i].phase
      /\ SameNumbers
      /\ IF Heard(m) THEN Started(j) ELSE Silent
  BY <1>1 DEF JobStarts, ReportStart, vars, builderVars, registryVars, AllInv, JobsInv, JobsTypeOK,
              Numbering, SameNumbers, SameNumber, Numbered
<1>3. PICK n \in Ids : n = Id(j)
  BY <1>2, NumbersSame
<1>4. /\ known' = known
      /\ \/ /\ Heard(m) /\ m \in known
            /\ table' = [table EXCEPT ![n] = j]
            /\ shown' = shown \cup {j}
            /\ active' = [active EXCEPT ![m] = @ + 1]
         \/ ~(Heard(m) /\ m \in known) /\ UNCHANGED <<active, table, shown>>
  BY <1>1, <1>2, <1>3 DEF Started, Silent
<1>5. MonitorTypeOK' /\ KnownRight' /\ ArrivedRight'
  BY <1>2, <1>4 DEF AllInv, MonInv, MonitorTypeOK, KnownRight, ArrivedRight, Registered, Ids
<1>6. TableRight'
  <2>1. \A i \in Ids : table'[i] # None =>
           table'[i] \in Jobs /\ job'[table'[i]].phase \in {"running", "over"}
           /\ Id(table'[i]) = i
    BY <1>2, <1>3, <1>4 DEF AllInv, MonInv, MonitorTypeOK, TableRight
  <2>2. \A i \in Jobs : IdOf(job'[i].serial) = Id(i)
    BY <1>2 DEF SameNumbers, SameNumber, Id
  <2> QED BY <2>1, <2>2 DEF TableRight, Id, Ids
<1>7. ASSUME Distinct PROVE ShownRight' /\ ActiveRight'
  <2>1. ShownRight /\ ActiveRight
    BY <1>7 DEF AllInv, MonInv
  <2>2. ASSUME NEW i \in shown'
        PROVE  i \in Numbered' /\ job'[i].at \in known' /\ table'[Id(i)'] = i
    <3>1. CASE i \in shown /\ i # j
      <4>1. i \in Numbered /\ Id(i) # n
        BY <1>2, <1>3, <1>7, <2>1, <3>1 DEF Distinct, ShownRight
      <4> QED BY <1>2, <1>4, <2>1, <3>1, <4>1, NumbersSame DEF ShownRight, AllInv, MonInv, MonitorTypeOK
    <3>2. CASE i = j /\ Heard(m) /\ m \in known
      BY <1>1, <1>2, <1>3, <1>4, <3>2, NumbersSame DEF AllInv, MonInv, MonitorTypeOK
    <3>3. j \notin shown
      BY <1>2, <1>3, <2>1, FeedAssumption
         DEF ShownRight, AllInv, MonInv, TableRight, Numbered
    <3> QED BY <1>4, <2>2, <3>1, <3>2, <3>3
  <2>3. \A i \in Jobs \ {j} : job[i].phase = "running" => Id(i) # n
    BY <1>2, <1>3, <1>7 DEF Distinct, Numbered
  <2>4. ASSUME NEW k \in Machines
        PROVE  Counted(k)' = IF k = m /\ Heard(m) /\ m \in known
                             THEN Counted(k) \cup {j} ELSE Counted(k)
    <3>1. table[n] # j
      BY <1>2, <1>3, FeedAssumption DEF AllInv, MonInv, TableRight
    <3>2. \A i \in Jobs \ {j} : i \in Counted(k)' <=> i \in Counted(k)
      BY <1>2, <1>4, <2>3, NumbersSame DEF Counted, Numbered, AllInv, MonInv, MonitorTypeOK
    <3>3. j \notin Counted(k)
      BY <1>2 DEF Counted
    <3>4. j \in Counted(k)' <=> k = m /\ Heard(m) /\ m \in known
      BY <1>1, <1>2, <1>3, <1>4, <3>1, NumbersSame DEF Counted, AllInv, MonInv, MonitorTypeOK
    <3> QED BY <3>2, <3>3, <3>4 DEF Counted
  <2>5. ASSUME NEW k \in known, registry[k] # None, ws[k] = registry[k]
        PROVE  active'[k] <= Bound(k)'
    <3>1. k \in Machines /\ active[k] \in Int /\ active[k] <= Bound(k)
      BY <2>1, <2>5 DEF ActiveRight, AllInv, MonInv, MonitorTypeOK
    <3>2. CASE k = m /\ Heard(m) /\ m \in known
      <4>1. Cardinality(Counted(k) \cup {j}) = Cardinality(Counted(k)) + 1
        BY <1>2, <3>1, CountedIsFinite, FS_AddElement DEF Counted
      <4>2. Cardinality(Counted(k)') = Cardinality(Counted(k)) + 1
        BY <2>4, <3>1, <3>2, <4>1
      <4>3. peer[ws[k]] = "open" /\ Bound(k) = Cardinality(Counted(k)) /\ active'[k] = active[k] + 1
        BY <1>4, <3>1, <3>2 DEF Heard, Bound, AllInv, MonInv, MonitorTypeOK
      <4> QED BY <1>2, <3>1, <4>2, <4>3, CountedIsFinite DEF Bound
    <3>3. CASE ~(k = m /\ Heard(m) /\ m \in known)
      <4>1. Counted(k)' = Counted(k) /\ active'[k] = active[k]
        BY <1>4, <2>4, <3>1, <3>3 DEF AllInv, MonInv, MonitorTypeOK
      <4> QED BY <1>2, <3>1, <4>1 DEF Bound
    <3> QED BY <3>2, <3>3
  <2> QED BY <1>2, <1>4, <2>2, <2>5 DEF ShownRight, ActiveRight
<1> QED BY <1>2, <1>5, <1>6, <1>7, NumbersSame DEF MonInv

(* The running job k ends, with its report or without; a compiler may end with it. *)
LEMMA EndKeeps ==
    ASSUME AllInv, SameNumbers, UNCHANGED <<registry, ws, peer, sched, monitor>>,
           NEW k \in Jobs, job[k].phase = "running",
           \A i \in Jobs : job'[i].phase = IF i = k THEN "over" ELSE job[i].phase,
           IF Heard(job[k].at) THEN Ended(Id(k)) ELSE Silent
    PROVE  MonInv'
<1>1. PICK m \in Machines, n \in Ids : m = job[k].at /\ n = Id(k)
  BY NumbersSame DEF AllInv, JobsInv, Numbering, Numbered
<1>2. PICK x \in Jobs \cup {None} : x = table[n]
  BY DEF AllInv, MonInv, MonitorTypeOK
<1>3. /\ known' = known
      /\ \/ /\ Heard(m) /\ x # None
            /\ table' = [table EXCEPT ![n] = None]
            /\ shown' = shown \ {x}
            /\ active' = IF job[x].at \in known THEN [active EXCEPT ![job[x].at] = @ - 1] ELSE active
         \/ ~(Heard(m) /\ x # None) /\ UNCHANGED <<active, table, shown>>
  BY <1>1, <1>2 DEF Ended, Silent
<1>4. MonitorTypeOK' /\ KnownRight' /\ ArrivedRight'
  <2>1. active' \in [Machines -> Int]
    BY <1>3 DEF AllInv, MonInv, MonitorTypeOK
  <2> QED BY <1>3, <2>1 DEF AllInv, MonInv, MonitorTypeOK, KnownRight, ArrivedRight, Registered, Ids
<1>5. TableRight'
  <2>1. \A i \in Ids : table'[i] # None =>
           table'[i] \in Jobs /\ job'[table'[i]].phase \in {"running", "over"}
           /\ Id(table'[i]) = i
    BY <1>3 DEF AllInv, MonInv, MonitorTypeOK, TableRight
  <2>2. \A i \in Jobs : IdOf(job'[i].serial) = Id(i)
    BY DEF SameNumbers, SameNumber, Id
  <2> QED BY <2>1, <2>2 DEF TableRight, Id, Ids
<1>6. ASSUME Distinct PROVE ShownRight' /\ ActiveRight'
  <2>1. ShownRight /\ ActiveRight
    BY <1>6 DEF AllInv, MonInv
  <2>2. x # None => x = k
    BY <1>1, <1>2, <1>6 DEF Distinct, Numbered, AllInv, MonInv, TableRight
  <2>3. ASSUME NEW i \in shown'
        PROVE  i \in Numbered' /\ job'[i].at \in known' /\ table'[Id(i)'] = i
    <3>1. i \in Numbered /\ job[i].at \in known /\ table[Id(i)] = i /\ i \in Jobs /\ Id(i) \in Ids
      BY <1>3, <2>1, <2>3, NumbersSame DEF ShownRight
    <3>2. Heard(m) /\ x # None => Id(i) # n
      BY <1>2, <1>3, <2>3, <3>1
    <3>3. table'[Id(i)] = i
      BY <1>3, <3>1, <3>2 DEF AllInv, MonInv, MonitorTypeOK
    <3> QED BY <1>3, <3>1, <3>3, NumbersSame
  <2>4. ASSUME NEW d \in Machines PROVE Counted(d)' = Counted(d) \ {k}
    <3>1. \A i \in Jobs \ {k} : job[i].phase = "running" => Id(i) # n /\ Id(i) \in Ids
      BY <1>1, <1>6, NumbersSame DEF Distinct, Numbered
    <3>2. \A i \in Jobs \ {k} : i \in Counted(d)' <=> i \in Counted(d)
      BY <1>3, <3>1, NumbersSame DEF Counted, AllInv, MonInv, MonitorTypeOK
    <3>3. k \notin Counted(d)'
      BY DEF Counted
    <3> QED BY <3>2, <3>3 DEF Counted
  <2>5. ASSUME NEW d \in known, registry[d] # None, ws[d] = registry[d]
        PROVE  active'[d] <= Bound(d)'
    <3>1. d \in Machines /\ active[d] \in Int /\ active[d] <= Bound(d)
      BY <2>1, <2>5 DEF ActiveRight, AllInv, MonInv, MonitorTypeOK
    <3>2. /\ Cardinality(Counted(d) \ {k}) =
               IF k \in Counted(d) THEN Cardinality(Counted(d)) - 1 ELSE Cardinality(Counted(d))
          /\ Cardinality(Counted(d)) \in Nat
      BY <3>1, CountedIsFinite, FS_RemoveElement
    <3>3. Cardinality(Counted(d)') =
               IF k \in Counted(d) THEN Cardinality(Counted(d)) - 1 ELSE Cardinality(Counted(d))
      BY <2>4, <3>1, <3>2
    <3>4. CASE k \in Counted(d)
      <4>1. d = m /\ x = k /\ k # None
        BY <1>1, <1>2, <3>4, FeedAssumption DEF Counted
      <4>2. CASE Heard(m)
        <5>1. active'[d] = active[d] - 1
          BY <1>1, <1>3, <3>1, <4>1, <4>2 DEF AllInv, MonInv, MonitorTypeOK
        <5>2. Bound(d) = Cardinality(Counted(d)) /\ peer[ws[d]] = "open"
          BY <4>1, <4>2 DEF Heard, Bound
        <5> QED BY <3>1, <3>2, <3>3, <3>4, <5>1, <5>2 DEF Bound
      <4>3. CASE ~Heard(m)
        <5>1. peer[ws[d]] # "open" /\ active'[d] = active[d]
          BY <1>3, <2>5, <3>1, <4>1, <4>3
             DEF Heard, Listening, AllInv, Inv, RegistryInv, RegistryIsRight, RegistryIsLive,
                 MonInv, KnownRight
        <5> QED BY <3>1, <5>1 DEF Bound
      <4> QED BY <4>2, <4>3
    <3>5. CASE k \notin Counted(d)
      <4>1. active'[d] <= active[d] /\ active'[d] \in Int
        BY <1>3, <1>4, <3>1 DEF AllInv, MonInv, MonitorTypeOK
      <4> QED BY <3>1, <3>2, <3>3, <3>5, <4>1 DEF Bound
    <3> QED BY <3>4, <3>5
  <2> QED BY <1>3, <2>3, <2>5 DEF ShownRight, ActiveRight
<1> QED BY <1>4, <1>5, <1>6, NumbersSame DEF MonInv

LEMMA AbortKeepsMonitor ==
    ASSUME AllInv, NEW j \in Jobs, JobAborts(j)
    PROVE  MonInv'
<1>1. /\ \A i \in Jobs : /\ job'[i].phase = IF i = j THEN "over" ELSE job[i].phase
                         /\ job'[i].compiler = job[i].compiler
      /\ SameNumbers
      /\ job[j].phase = "running"
      /\ UNCHANGED <<registry, ws, peer, sched, monitor>>
  BY DEF JobAborts, SameNumbers, SameNumber, vars, builderVars, registryVars, AllInv, JobsInv, JobsTypeOK,
         Numbering
<1> QED BY <1>1, EndKeeps DEF JobAborts, ReportEnd

LEMMA CompileKeepsMonitor ==
    ASSUME AllInv, NEW j \in Jobs, CompileEnds(j)
    PROVE  MonInv'
<1>1. /\ j \in Numbered /\ job[j].compiler
      /\ UNCHANGED <<registry, ws, peer, sched, monitor, jobId, life>>
  BY DEF CompileEnds, AllInv, JobsInv, Numbering, Numbered, vars, builderVars, registryVars
<1>2. PICK m \in Machines, n \in Ids : m = job[j].at /\ n = Id(j)
  BY <1>1, IdsAreIds DEF AllInv, JobsInv, Numbering
<1>3. PICK k \in Jobs \cup {None} : k = compiles[m][n]
  BY <1>2 DEF AllInv, JobsInv, JobsTypeOK
<1> DEFINE given == k # None /\ job[k].phase = "running"
<1>4. IF given
      THEN /\ job' = [[job EXCEPT ![j].compiler = FALSE] EXCEPT ![k].phase = "over", ![k].result = j]
           /\ ReportEnd(j)
      ELSE job' = [job EXCEPT ![j].compiler = FALSE] /\ Silent
  BY <1>2, <1>3 DEF CompileEnds
<1>5. \A i \in Jobs : /\ job'[i].phase = IF given /\ i = k THEN "over" ELSE job[i].phase
                      /\ job'[i].compiler => job[i].compiler
                      /\ job'[i].at = job[i].at
                      /\ job'[i].serial = job[i].serial
                      /\ job'[i].life = job[i].life
  <2>1. job \in [Jobs -> JobRecords]
    BY DEF AllInv, JobsInv, JobsTypeOK, JobRecords
  <2>2. [job EXCEPT ![j].compiler = FALSE] \in [Jobs -> JobRecords]
    BY <2>1 DEF JobRecords
  <2>3. CASE given
    BY <1>4, <2>1, <2>2, <2>3 DEF JobRecords
  <2>4. CASE ~given
    BY <1>4, <2>1, <2>4 DEF JobRecords
  <2> QED BY <2>3, <2>4
<1>6. SameNumbers
  BY <1>1, <1>5 DEF SameNumbers, SameNumber, AllInv, JobsInv, JobsTypeOK, Numbering
<1>7. CASE given
  <2>1. k \in Jobs /\ Id(k) = Id(j) /\ job[k].at = job[j].at
    BY <1>2, <1>3, <1>7 DEF AllInv, JobsInv, CompilesRight
  <2>2. IF Heard(job[k].at) THEN Ended(Id(k)) ELSE Silent
    BY <1>4, <1>7, <2>1 DEF ReportEnd
  <2> QED BY <1>1, <1>5, <1>6, <1>7, <2>1, <2>2, EndKeeps
<1>8. CASE ~given
  <2>1. Silent /\ \A i \in Jobs : job'[i].phase = job[i].phase
    BY <1>4, <1>5, <1>8
  <2>2. MonitorTypeOK' /\ KnownRight' /\ ArrivedRight'
    BY <1>1, <2>1 DEF Silent, AllInv, MonInv, MonitorTypeOK, KnownRight, ArrivedRight, Registered, Ids
  <2>3. TableRight'
    <3>1. \A i \in Jobs : IdOf(job'[i].serial) = Id(i)
      BY <1>5 DEF Id
    <3> QED BY <2>1, <3>1 DEF Silent, AllInv, MonInv, MonitorTypeOK, TableRight, Id, Ids
  <2>4. ASSUME NEW d \in Machines PROVE Counted(d)' = Counted(d)
    BY <1>6, <2>1, NumbersSame DEF Silent, Counted
  <2>5. ASSUME Distinct PROVE ShownRight' /\ ActiveRight'
    <3>1. ShownRight'
      BY <1>6, <2>1, <2>5, NumbersSame DEF Silent, AllInv, MonInv, ShownRight
    <3>2. \A d \in known : Bound(d)' = Bound(d)
      BY <1>1, <2>4 DEF Bound, AllInv, MonInv, MonitorTypeOK
    <3> QED BY <1>1, <2>1, <2>5, <3>1, <3>2 DEF Silent, AllInv, MonInv, ActiveRight
  <2> QED BY <1>6, <2>2, <2>3, <2>5, NumbersSame DEF MonInv
<1> QED BY <1>7, <1>8

LEMMA DeathKeepsMonitor ==
    ASSUME AllInv, NEW c \in Conns, BuilderDies(c)
    PROVE  MonInv'
<1>1. PICK m \in Machines : m = MachineOf[c]
  BY RegistryAssumption
<1>2. /\ UNCHANGED <<registry, sched, jobId, life, monitor, known, active, table, shown>>
      /\ ws' = [ws EXCEPT ![m] = None]
      /\ peer' = [d \in Conns |-> IF MachineOf[d] = m /\ peer[d] # "idle" THEN "gone" ELSE peer[d]]
  BY <1>1 DEF BuilderDies, DeafFails, registryVars, monitorVars
<1>3. \A i \in Jobs : /\ job[i].phase \in {"running", "over"} <=> job'[i].phase \in {"running", "over"}
                      /\ job[i].at # m => job'[i].phase = job[i].phase
                      /\ job'[i].serial = job[i].serial
                      /\ job'[i].at = job[i].at
  <2>1. \A i \in Jobs : job'[i] = IF job[i].at = m /\ job[i].phase \in {"running", "over"}
                                 THEN [job[i] EXCEPT !.phase = "over", !.compiler = FALSE] ELSE job[i]
    BY <1>1 DEF BuilderDies
  <2>2. \A i \in Jobs : job[i] \in JobRecords
    BY DEF AllInv, JobsInv, JobsTypeOK, JobRecords
  <2> QED BY <2>1, <2>2 DEF JobRecords
<1>4. SameNumbers
  BY DeathKeepsNumbers DEF AllInv
<1>5. MonitorTypeOK' /\ KnownRight' /\ ArrivedRight'
  BY <1>2 DEF AllInv, MonInv, MonitorTypeOK, KnownRight, ArrivedRight, Registered, Ids
<1>6. TableRight'
  <2>1. \A i \in Jobs : IdOf(job'[i].serial) = Id(i)
    BY <1>3 DEF Id
  <2> QED BY <1>2, <1>3, <2>1 DEF AllInv, MonInv, MonitorTypeOK, TableRight, Id, Ids
<1>7. ASSUME NEW d \in Machines \ {m} PROVE Counted(d)' = Counted(d)
  BY <1>2, <1>3, <1>4, NumbersSame DEF Counted
<1>8. ASSUME Distinct PROVE ShownRight' /\ ActiveRight'
  <2>1. ShownRight /\ ActiveRight
    BY <1>8 DEF AllInv, MonInv
  <2>2. ShownRight'
    BY <1>2, <1>4, <2>1, NumbersSame DEF ShownRight
  <2>3. ASSUME NEW d \in known, registry[d] # None, ws'[d] = registry[d]
        PROVE  active[d] <= Bound(d)'
    <3>1. d \in Machines \ {m} /\ ws'[d] = ws[d] /\ MachineOf[ws[d]] = d /\ ws[d] \in Conns
      BY <1>2, <2>3, RegistryAssumption
         DEF AllInv, MonInv, MonitorTypeOK, Inv, KeepsTrying, TypeOK, ClientsOwn
    <3>2. peer'[ws[d]] = peer[ws[d]]
      BY <1>2, <3>1
    <3>3. Bound(d)' = Bound(d)
      BY <1>7, <3>1, <3>2 DEF Bound
    <3> QED BY <2>1, <2>3, <3>1, <3>3 DEF ActiveRight
  <2> QED BY <1>2, <2>2, <2>3 DEF ActiveRight
<1> QED BY <1>4, <1>5, <1>6, <1>8, NumbersSame DEF MonInv

----------------------------------------------------------------------------
LEMMA MonitorKept == AllInv /\ [FeedNext]_allVars => MonInv'
<1> SUFFICES ASSUME AllInv, [FeedNext]_allVars PROVE MonInv'
  OBVIOUS
<1>1. ASSUME NEW c \in Conns, BuilderComes(c) \/ BuilderGoes(c) \/ BuilderDies(c) PROVE MonInv'
  BY <1>1, ComesKeeps, GoesKeeps, DeathKeepsMonitor
<1>2. ASSUME UNCHANGED feedVars, NEW c \in Conns,
             Connect(c) \/ Opened(c) \/ PeerCloses(c) \/ DeafCloses(c) \/ Pong(c)
      PROVE  MonInv'
  BY <1>2, QuietStepsKeep
<1>3. ASSUME UNCHANGED feedVars, PingAll PROVE MonInv'
  <2>1. \E c \in Conns : TRUE
    BY <1>3 DEF PingAll
  <2> QED BY <1>3, <2>1, QuietStepsKeep
<1>4. ASSUME NEW j \in Jobs, NEW m \in Machines, Schedule(j, m) PROVE MonInv'
  BY <1>4, ScheduleKeepsMonitor
<1>5. ASSUME NEW j \in Jobs, JobStarts(j) \/ CompileEnds(j) \/ JobAborts(j) PROVE MonInv'
  BY <1>5, StartKeepsMonitor, CompileKeepsMonitor, AbortKeepsMonitor
<1>6. CASE MonitorConnects \/ SendInfo \/ MonitorCloses
  BY <1>6, MonitorStepsKeep
<1>7. CASE Restart
  BY <1>7, RestartKeepsMonitor
<1>8. CASE UNCHANGED allVars
  BY <1>8, NothingKeeps
<1> QED BY <1>1, <1>2, <1>3, <1>4, <1>5, <1>6, <1>7, <1>8 DEF FeedNext

LEMMA AllInvHolds == FeedSpec => []AllInv
<1>1. FeedInit => AllInv
  BY FeedInitIsInit, InitInv, JobsInit, MonInit DEF AllInv
<1>2. AllInv /\ [FeedNext]_allVars => AllInv'
  BY FeedStepIsStep, NextKeeps, JobsKept, MonitorKept DEF AllInv
<1> QED BY <1>1, <1>2, PTL DEF FeedSpec

(* An informed monitor has the registry's builders, lists jobs of builders it knows, and
   shows no builder that reports on its registered connection busier than it is, unless
   two jobs have one id. *)
THEOREM MonitorStaysRight == FeedSpec => []MonitorIsRight
BY AllInvHolds, MonitorFollows, PTL

=============================================================================
