-------------------------- MODULE EnvironmentProofs --------------------------
(***************************************************************************)
(* Proofs about what the scheduler keeps of environments.                  *)
(*                                                                         *)
(* EnvironmentSync, for any environments, any number of loops at a time,   *)
(* and any arrivals and failures: what the scheduler lists the builder has *)
(* a VM for, and every VM has its whole root, save for the directories     *)
(* that were crossed or that a removal was cut short in.                   *)
(*                                                                         *)
(* UserDatabase, for any users, environments, monitors and bounds: the     *)
(* links between environments, and the users in the same file, are what    *)
(* was asked for, over every interleaving, failure and crash.  There the   *)
(* invariant says which messages the queued operations belong to, what     *)
(* the operation that is performed has read, and that the last write of    *)
(* links in the queue holds those in force.                                *)
(*                                                                         *)
(* EnvironmentUpload, for any clients: until two uploads overlap, what the *)
(* scheduler lists is a whole upload on disk.                              *)
(***************************************************************************)
EXTENDS EnvironmentSync, UserDatabase, EnvironmentUpload, SequenceTheorems, FiniteSetTheorems, TLAPS

----------------------------------------------------------------------------
(* Sequences and their elements *)

LEMMA Elements ==
    ASSUME NEW S, NEW q \in Seq(S)
    PROVE  /\ ToSet(q) \subseteq S
           /\ \A i \in DOMAIN q : q[i] \in ToSet(q)
           /\ q # <<>> => /\ Head(q) \in ToSet(q)
                          /\ Tail(q) \in Seq(S)
                          /\ ToSet(Tail(q)) \subseteq ToSet(q)
<1>1. Len(q) \in Nat /\ DOMAIN q = 1..Len(q)
  BY LenProperties
<1>2. ToSet(q) \subseteq S /\ \A i \in DOMAIN q : q[i] \in ToSet(q)
  BY <1>1, ElementOfSeq DEF ToSet
<1>3. ASSUME q # <<>>
      PROVE  Head(q) \in ToSet(q) /\ Tail(q) \in Seq(S) /\ ToSet(Tail(q)) \subseteq ToSet(q)
  <2>1. Len(q) >= 1 /\ Head(q) = q[1]
    BY <1>1, <1>3, EmptySeq
  <2>2. Head(q) \in ToSet(q)
    BY <1>1, <1>2, <2>1
  <2>3. /\ Tail(q) \in Seq(S) /\ Len(Tail(q)) = Len(q) - 1
        /\ \A i \in 1..Len(Tail(q)) : Tail(q)[i] = q[i + 1]
    BY <1>3, HeadTailProperties
  <2>4. DOMAIN Tail(q) = 1..(Len(q) - 1)
    BY <2>3, LenProperties
  <2>5. \A i \in DOMAIN Tail(q) : Tail(q)[i] \in ToSet(q)
    BY <1>1, <1>2, <2>3, <2>4
  <2> QED BY <2>2, <2>3, <2>5 DEF ToSet
<1> QED BY <1>2, <1>3

LEMMA ConcatElements ==
    ASSUME NEW S, NEW a \in Seq(S), NEW b \in Seq(S)
    PROVE  a \o b \in Seq(S) /\ ToSet(a \o b) \subseteq ToSet(a) \cup ToSet(b)
<1>1. /\ Len(a) \in Nat /\ DOMAIN a = 1..Len(a) /\ Len(b) \in Nat /\ DOMAIN b = 1..Len(b)
      /\ a \o b \in Seq(S) /\ Len(a \o b) = Len(a) + Len(b)
      /\ \A i \in 1..Len(a) + Len(b) : (a \o b)[i] = IF i <= Len(a) THEN a[i] ELSE b[i - Len(a)]
  BY LenProperties, ConcatProperties
<1>2. DOMAIN (a \o b) = 1..(Len(a) + Len(b))
  BY <1>1, LenProperties
<1>3. ASSUME NEW i \in DOMAIN (a \o b) PROVE (a \o b)[i] \in ToSet(a) \cup ToSet(b)
  <2>1. PICK m \in Nat, n \in Nat : m = Len(a) /\ n = Len(b)
    BY <1>1
  <2>2. i \in 1..(m + n) /\ (a \o b)[i] = IF i <= m THEN a[i] ELSE b[i - m]
    BY <1>1, <1>2, <1>3, <2>1
  <2>3. i <= m => i \in DOMAIN a
    BY <1>1, <2>1, <2>2
  <2>4. ~(i <= m) => i - m \in DOMAIN b
    BY <1>1, <2>1, <2>2
  <2> QED BY <2>2, <2>3, <2>4 DEF ToSet
<1> QED BY <1>1, <1>3 DEF ToSet

LEMMA AppendedElements ==
    ASSUME NEW S, NEW q \in Seq(S), NEW x \in S
    PROVE  Append(q, x) \in Seq(S) /\ ToSet(Append(q, x)) \subseteq ToSet(q) \cup {x}
<1>1. /\ Len(q) \in Nat /\ DOMAIN q = 1..Len(q)
      /\ Append(q, x) \in Seq(S) /\ Len(Append(q, x)) = Len(q) + 1
      /\ \A i \in 1..Len(q) : Append(q, x)[i] = q[i]
      /\ Append(q, x)[Len(q) + 1] = x
  BY LenProperties, AppendProperties
<1>2. DOMAIN Append(q, x) = 1..(Len(q) + 1)
  BY <1>1, LenProperties
<1>3. \A i \in DOMAIN Append(q, x) : i \in 1..Len(q) \/ i = Len(q) + 1
  BY <1>1, <1>2
<1> QED BY <1>1, <1>3 DEF ToSet

LEMMA Listing ==
    ASSUME NEW S, IsFiniteSet(S)
    PROVE  SetToSeq(S) \in Seq(S)
<1>1. Cardinality(S) \in Nat /\ ExistsBijection(1..Cardinality(S), S)
  BY FS_CardinalityType
<1>2. \E f \in [1..Cardinality(S) -> S] : IsInjective(f)
  BY <1>1 DEF ExistsBijection, Bijection, Injection, IsInjective
<1>3. SetToSeq(S) \in [1..Cardinality(S) -> S]
  BY <1>2 DEF SetToSeq
<1> QED BY <1>1, <1>3, SeqDef

----------------------------------------------------------------------------
(* The invariant *)

Messages == [type : {"get", "drop"}, envs : SUBSET Envs]
LoopStates == [stage : Stages, todo : Seq(Envs), env : Envs \cup {None}]

Types ==
    /\ has \in SUBSET Envs
    /\ listed \in SUBSET Envs
    /\ conn \in {"down", "trying", "up"}
    /\ toBuilder \in Seq(Messages)
    /\ \A m \in ToSet(toBuilder) : m.envs # {}
    /\ toSched \in Seq(SUBSET Envs)
    /\ conn = "trying" => toSched # <<>>
    /\ have \in SUBSET Envs
    /\ dir \in [Envs -> Directories]
    /\ owner \in [Envs -> Loops \cup {None}]
    /\ loop \in [Loops -> LoopStates]
    /\ dying \in SUBSET Envs /\ removing \in SUBSET Envs
    /\ arrivals \in 0..MaxArrivals
    /\ failures \in 0..MaxFailures
    /\ crossed \in SUBSET Envs /\ torn \in SUBSET Envs
    /\ stale \in BOOLEAN
    /\ purged \in BOOLEAN

\* What the builder can have heard of: the scheduler still has it, if it never purges.
Known == IF purged THEN Runnable ELSE has \cap Runnable

BuilderKnows ==
    /\ have \subseteq Known
    /\ \A e \in Envs : dir[e] # "none" => e \in Known
    /\ \A l \in Loops :
          /\ ToSet(loop[l].todo) \subseteq Known
          /\ loop[l].env \in IF loop[l].stage \in Busy THEN Known ELSE {None}

ToldOfKnown == \A m \in ToSet(toBuilder) : m.type = "get" => m.envs \subseteq Known

\* Nothing the scheduler lists or is told of is dropped.
ListedRight ==
    ~purged =>
       /\ listed \subseteq have
       /\ \A S \in ToSet(toSched) : S \subseteq have
       /\ \A m \in ToSet(toBuilder) : m.type = "get"

At(l, e) == loop[l].stage \in Busy /\ loop[l].env = e

\* A directory that was never crossed is used by a VM, its removal or one loop; what a
\* removal leaves in it is known, and a loop starts the VM when the root is there.
RootRight(e) ==
    /\ e \in have => /\ dir[e] = "whole" \/ (dir[e] = "gutted" /\ e \in torn)
                     /\ e \notin dying \cup removing
    /\ dir[e] = "gutted" => e \in torn \cup removing
    /\ \A l \in Loops : At(l, e) =>
          /\ e \notin have \cup dying \cup removing
          /\ loop[l].stage = "start" => dir[e] = "whole"
          /\ \A k \in Loops \ {l} : ~At(k, e)

RootsRight == \A e \in Envs \ crossed : RootRight(e)

Inv == Types /\ BuilderKnows /\ ToldOfKnown /\ ListedRight /\ RootsRight

LEMMA InitInv == Init => Inv
<1> SUFFICES ASSUME Init PROVE Inv
  OBVIOUS
<1>1. /\ <<>> \in Seq(Messages) /\ <<>> \in Seq(SUBSET Envs) /\ <<>> \in Seq(Envs)
      /\ ToSet(<<>>) = {}
  BY EmptySeq DEF ToSet
<1>2. Types
  <2>1. Free \in LoopStates
    BY <1>1 DEF LoopStates, Free, Stages
  <2>2. loop \in [Loops -> LoopStates]
    BY <2>1 DEF Init
  <2>3. /\ dir \in [Envs -> Directories]
        /\ owner \in [Envs -> Loops \cup {None}]
    BY DEF Init, Directories
  <2>4. 0 \in 0..MaxArrivals /\ 0 \in 0..MaxFailures /\ Initial \in SUBSET Envs
    BY SyncAssumption
  <2>5. toBuilder \in Seq(Messages) /\ toSched \in Seq(SUBSET Envs) /\ ToSet(toBuilder) = {}
    BY <1>1 DEF Init
  <2> QED BY <2>2, <2>3, <2>4, <2>5 DEF Init, Types
<1>3. BuilderKnows /\ ToldOfKnown
  <2>1. Initial \subseteq Known
    BY SyncAssumption DEF Init, Known
  <2>2. \A e \in Envs : dir[e] # "none" => e \in Initial
    BY DEF Init
  <2>3. \A l \in Loops : loop[l] = Free
    BY DEF Init
  <2> QED BY <1>1, <2>1, <2>2, <2>3 DEF Init, BuilderKnows, ToldOfKnown, Free, Busy
<1>4. ListedRight /\ RootsRight
  <2>1. ASSUME NEW e \in Envs PROVE RootRight(e)
    <3>1. /\ have = Initial /\ dying = {} /\ removing = {}
          /\ dir[e] = IF e \in Initial THEN "whole" ELSE "none"
      BY DEF Init
    <3>2. \A l \in Loops : ~At(l, e)
      BY DEF Init, At, Free, Busy
    <3> QED BY <3>1, <3>2 DEF RootRight
  <2> QED BY <1>1, <2>1 DEF Init, ListedRight, RootsRight
<1> QED BY <1>2, <1>3, <1>4 DEF Inv

LEMMA InvTypes == Inv => TypeOK /\ Known \subseteq Runnable
<1> SUFFICES ASSUME Inv PROVE TypeOK /\ Known \subseteq Runnable
  OBVIOUS
<1>1. Known \subseteq Runnable
  BY DEF Known
<1>2. ASSUME NEW i \in DOMAIN toBuilder
      PROVE  toBuilder[i] \in Messages /\ toBuilder[i].envs # {}
  BY Elements DEF Inv, Types
<1>3. ASSUME NEW m \in Messages, m.envs # {}
      PROVE  m \in [type : {"get", "drop"}, envs : (SUBSET Envs) \ {{}}]
  <2>1. m = [type |-> m.type, envs |-> m.envs] /\ m.type \in {"get", "drop"} /\ m.envs \in SUBSET Envs
    BY DEF Messages
  <2>2. m.envs \in (SUBSET Envs) \ {{}}
    BY <1>3, <2>1
  <2> QED BY <2>1, <2>2
<1>4. ASSUME NEW l \in Loops
      PROVE  /\ loop[l].stage \in Stages
             /\ loop[l].todo \in Seq(Envs)
             /\ loop[l].env \in IF loop[l].stage \in Busy THEN Runnable ELSE {None}
  BY <1>1 DEF Inv, Types, LoopStates, BuilderKnows
<1> QED BY <1>1, <1>2, <1>3, <1>4, SyncAssumption DEF Inv, Types, BuilderKnows, TypeOK

----------------------------------------------------------------------------
(* The scheduler's steps *)

LEMMA MessageElements ==
    ASSUME NEW t \in {"get", "drop"}, NEW S \in SUBSET Envs
    PROVE  /\ Message(t, S) \in Seq(Messages)
           /\ \A m \in ToSet(Message(t, S)) : m.type = t /\ m.envs = S /\ S # {}
<1>1. CASE S = {}
  BY <1>1, EmptySeq DEF Message, ToSet
<1>2. CASE S # {}
  <2>1. Message(t, S) = <<[type |-> t, envs |-> S]>>
    BY <1>2 DEF Message
  <2>2. [type |-> t, envs |-> S] \in Messages
    BY DEF Messages
  <2>3. Message(t, S) \in Seq(Messages)
    BY <2>1, <2>2
  <2>4. ToSet(Message(t, S)) = {[type |-> t, envs |-> S]}
    BY <2>1 DEF ToSet
  <2> QED BY <1>2, <2>3, <2>4
<1> QED BY <1>1, <1>2

(* What a builder is sent when it is synced. *)
LEMMA SyncSends ==
    ASSUME toBuilder \in Seq(Messages), NEW e \in SUBSET Envs, NEW l \in SUBSET Envs, Sync(e, l)
    PROVE  /\ toBuilder' \in Seq(Messages)
           /\ \A m \in ToSet(toBuilder') :
                 \/ m \in ToSet(toBuilder)
                 \/ m.type = "drop" /\ m.envs = l \ e /\ l \ e # {}
                 \/ m.type = "get" /\ m.envs = (e \cap Runnable) \ l /\ m.envs # {}
<1>1. PICK d, g : d = Message("drop", l \ e) /\ g = Message("get", (e \cap Runnable) \ l)
  OBVIOUS
<1>2. d \in Seq(Messages) /\ \A m \in ToSet(d) : m.type = "drop" /\ m.envs = l \ e /\ l \ e # {}
  BY <1>1, MessageElements
<1>3. /\ g \in Seq(Messages)
      /\ \A m \in ToSet(g) : m.type = "get" /\ m.envs = (e \cap Runnable) \ l /\ m.envs # {}
  BY <1>1, MessageElements
<1>4. toBuilder' = toBuilder \o d \o g
  BY <1>1 DEF Sync
<1>5. toBuilder \o d \in Seq(Messages) /\ ToSet(toBuilder \o d) \subseteq ToSet(toBuilder) \cup ToSet(d)
  BY <1>2, ConcatElements
<1>6. toBuilder' \in Seq(Messages) /\ ToSet(toBuilder') \subseteq ToSet(toBuilder \o d) \cup ToSet(g)
  BY <1>3, <1>4, <1>5, ConcatElements
<1> QED BY <1>2, <1>3, <1>5, <1>6

(* Whatever the builder knew it still knows: the scheduler has more, or has purged. *)
LEMMA SchedulerKeeps ==
    ASSUME Inv, UNCHANGED builderVars, Known \subseteq Known',
           has' \in SUBSET Envs, listed' \in SUBSET Envs, conn' \in {"down", "trying", "up"},
           conn' = "trying" => toSched' # <<>>,
           toBuilder' \in Seq(Messages), toSched' \in Seq(SUBSET Envs),
           arrivals' \in 0..MaxArrivals, failures' \in 0..MaxFailures,
           stale' \in BOOLEAN, purged' \in BOOLEAN,
           \A m \in ToSet(toBuilder') :
              m.envs # {} /\ (m.type = "get" => m.envs \subseteq Known'),
           ListedRight'
    PROVE  Inv'
<1>1. Types'
  BY DEF Inv, Types, builderVars
<1>2. BuilderKnows'
  BY DEF Inv, BuilderKnows, builderVars
<1>3. ToldOfKnown' /\ RootsRight'
  BY DEF Inv, ToldOfKnown, RootsRight, RootRight, At, builderVars
<1> QED BY <1>1, <1>2, <1>3 DEF Inv

LEMMA ArriveKeeps ==
    ASSUME Inv, NEW e \in Envs, NEW gone \in SUBSET Envs, Arrive(e, gone)
    PROVE  Inv'
<1>1. /\ has' = (has \cup {e}) \ gone /\ purged' = (purged \/ gone # {})
      /\ arrivals' = arrivals + 1 /\ arrivals < MaxArrivals
      /\ UNCHANGED <<conn, toSched, failures, stale>> /\ UNCHANGED builderVars
  BY DEF Arrive
<1>2. /\ has' \in SUBSET Envs /\ purged' \in BOOLEAN /\ arrivals' \in 0..MaxArrivals
      /\ listed \in SUBSET Envs /\ toBuilder \in Seq(Messages) /\ have' = have
  BY <1>1, SyncAssumption DEF Inv, Types, builderVars
<1>3. Known \subseteq Known'
  BY <1>1 DEF Known
<1>4. ~purged' => gone = {} /\ ~purged /\ has \subseteq has'
  BY <1>1
<1>5. CASE conn = "up"
  <2>1. Sync(has', listed)
    BY <1>5 DEF Arrive
  <2>2. /\ toBuilder' \in Seq(Messages)
        /\ \A m \in ToSet(toBuilder') :
              \/ m \in ToSet(toBuilder)
              \/ m.type = "drop" /\ m.envs = listed \ has' /\ listed \ has' # {}
              \/ m.type = "get" /\ m.envs = (has' \cap Runnable) \ listed /\ m.envs # {}
    BY <1>2, <2>1, SyncSends
  <2>3. listed' = listed \cap has'
    BY <2>1 DEF Sync
  <2>4. has' \cap Runnable \subseteq Known'
    BY DEF Known
  <2>5. \A m \in ToSet(toBuilder') : m.envs # {} /\ (m.type = "get" => m.envs \subseteq Known')
    BY <1>3, <2>2, <2>4 DEF Inv, Types, ToldOfKnown
  <2>6. ~purged => listed \subseteq has
    BY DEF Inv, ListedRight, BuilderKnows, Known
  <2>7. ListedRight'
    BY <1>1, <1>2, <1>4, <2>2, <2>3, <2>6 DEF Inv, ListedRight
  <2> QED BY <1>1, <1>2, <1>3, <2>2, <2>3, <2>5, <2>7, SchedulerKeeps DEF Inv, Types
<1>6. CASE conn # "up"
  <2>1. UNCHANGED <<listed, toBuilder>>
    BY <1>6 DEF Arrive
  <2>2. ListedRight'
    BY <1>1, <1>2, <1>4, <2>1 DEF Inv, ListedRight
  <2>3. \A m \in ToSet(toBuilder') : m.envs # {} /\ (m.type = "get" => m.envs \subseteq Known')
    BY <1>3, <2>1 DEF Inv, Types, ToldOfKnown
  <2> QED BY <1>1, <1>2, <1>3, <2>1, <2>2, <2>3, SchedulerKeeps DEF Inv, Types
<1> QED BY <1>5, <1>6

(* A builder is synced with what it has, or had when it wrote. *)
LEMMA SyncKeeps ==
    ASSUME Inv, NEW l \in SUBSET Envs, ~purged => l \subseteq have, Sync(has, l),
           UNCHANGED <<schedVars, builderVars, failures>>,
           conn' = "up", stale' \in BOOLEAN,
           toSched' \in Seq(SUBSET Envs), ToSet(toSched') \subseteq ToSet(toSched)
    PROVE  Inv'
<1>1. UNCHANGED <<has, arrivals, purged, have, failures>> /\ UNCHANGED builderVars
  BY DEF schedVars, builderVars
<1>2. Known' = Known /\ has \in SUBSET Envs
  BY <1>1 DEF Known, Inv, Types
<1>3. /\ toBuilder' \in Seq(Messages)
      /\ \A m \in ToSet(toBuilder') :
            \/ m \in ToSet(toBuilder)
            \/ m.type = "drop" /\ m.envs = l \ has /\ l \ has # {}
            \/ m.type = "get" /\ m.envs = (has \cap Runnable) \ l /\ m.envs # {}
  BY <1>2, SyncSends DEF Inv, Types
<1>4. listed' = l \cap has
  BY DEF Sync
<1>5. has \cap Runnable \subseteq Known
  BY DEF Known
<1>6. \A m \in ToSet(toBuilder') : m.envs # {} /\ (m.type = "get" => m.envs \subseteq Known')
  BY <1>2, <1>3, <1>5 DEF Inv, Types, ToldOfKnown
<1>7. ~purged => l \subseteq has
  BY DEF Inv, BuilderKnows, Known
<1>8. ListedRight'
  BY <1>1, <1>3, <1>4, <1>7 DEF Inv, ListedRight
<1> QED BY <1>1, <1>2, <1>3, <1>4, <1>6, <1>8, SchedulerKeeps DEF Inv, Types

LEMMA SchedulerStepKeeps ==
    ASSUME Inv, Informed \/ Connect \/ Disconnect \/ Attempt
    PROVE  Inv'
<1>1. <<>> \in Seq(Messages) /\ <<>> \in Seq(SUBSET Envs) /\ ToSet(<<>>) = {}
  BY EmptySeq DEF ToSet
<1>2. CASE toSched # <<>> /\ (Informed \/ Connect)
  <2>1. /\ Head(toSched) \in ToSet(toSched) /\ Head(toSched) \in SUBSET Envs
        /\ Tail(toSched) \in Seq(SUBSET Envs) /\ ToSet(Tail(toSched)) \subseteq ToSet(toSched)
    BY <1>2, Elements DEF Inv, Types
  <2>2. ~purged => Head(toSched) \subseteq have
    BY <2>1 DEF Inv, ListedRight
  <2>3. /\ Sync(has, Head(toSched)) /\ UNCHANGED <<schedVars, builderVars, failures>>
        /\ conn' = "up" /\ stale' \in BOOLEAN
        /\ toSched' = Tail(toSched) \/ toSched' = <<>>
    BY <1>2 DEF Informed, Connect, Inv, Types
  <2> QED BY <1>1, <2>1, <2>2, <2>3, SyncKeeps
<1>3. CASE Disconnect
  <2>1. /\ conn' = "down" /\ listed' = {} /\ toBuilder' = <<>> /\ toSched' = <<>>
        /\ UNCHANGED <<has, arrivals, purged>> /\ UNCHANGED builderVars
        /\ failures < MaxFailures /\ failures' = failures + 1 /\ stale' = FALSE
    BY <1>3 DEF Disconnect, Cut, Fail, schedVars
  <2>2. Known' = Known /\ ListedRight'
    BY <1>1, <2>1 DEF Known, ListedRight
  <2>3. failures' \in 0..MaxFailures
    BY <2>1, SyncAssumption DEF Inv, Types
  <2> QED BY <1>1, <2>1, <2>2, <2>3, SchedulerKeeps DEF Inv, Types
<1>4. CASE Attempt
  <2>1. /\ conn' = "trying" /\ toSched' = <<have>>
        /\ UNCHANGED <<has, arrivals, purged, listed, toBuilder, failures, stale>>
        /\ UNCHANGED builderVars /\ have' = have
    BY <1>4 DEF Attempt, schedVars, builderVars
  <2>2. <<have>> \in Seq(SUBSET Envs) /\ ToSet(<<have>>) = {have}
    BY DEF Inv, Types, ToSet
  <2>3. Known' = Known /\ ListedRight'
    BY <2>1, <2>2 DEF Known, ListedRight, Inv
  <2>4. \A m \in ToSet(toBuilder') : m.envs # {} /\ (m.type = "get" => m.envs \subseteq Known')
    BY <2>1, <2>3 DEF Inv, Types, ToldOfKnown
  <2> QED BY <2>1, <2>2, <2>3, <2>4, SchedulerKeeps DEF Inv, Types
<1>5. Connect => toSched # <<>>
  BY DEF Connect, Inv, Types
<1> QED BY <1>2, <1>3, <1>4, <1>5 DEF Informed

----------------------------------------------------------------------------
(* The builder's steps *)

(* One loop changes, and the others do not. *)
LEMMA OneLoop ==
    ASSUME loop \in [Loops -> LoopStates], NEW l \in Loops, NEW r \in LoopStates,
           loop' = [loop EXCEPT ![l] = r]
    PROVE  /\ loop' \in [Loops -> LoopStates]
           /\ loop'[l] = r
           /\ \A k \in Loops \ {l} : loop'[k] = loop[k]
OBVIOUS

LEMMA LoopSteps ==
    ASSUME loop \in [Loops -> LoopStates], NEW l \in Loops, NEW at \in Stages, Step(l, at)
    PROVE  /\ loop' \in [Loops -> LoopStates]
           /\ loop'[l].stage = at /\ loop'[l].todo = loop[l].todo /\ loop'[l].env = loop[l].env
           /\ \A k \in Loops \ {l} : loop'[k] = loop[k]
<1>1. loop[l] \in LoopStates
  OBVIOUS
<1>2. PICK r : r = [loop[l] EXCEPT !.stage = at]
  OBVIOUS
<1>3. r \in LoopStates /\ r.stage = at /\ r.todo = loop[l].todo /\ r.env = loop[l].env
  BY <1>1, <1>2 DEF LoopStates
<1>4. loop' = [loop EXCEPT ![l] = r]
  BY <1>2 DEF Step
<1> QED BY <1>3, <1>4, OneLoop

LEMMA LoopGoesOn ==
    ASSUME loop \in [Loops -> LoopStates], NEW l \in Loops, NextEnv(l)
    PROVE  /\ loop' \in [Loops -> LoopStates]
           /\ loop'[l].stage = "next" /\ loop'[l].todo = loop[l].todo /\ loop'[l].env = None
           /\ \A k \in Loops \ {l} : loop'[k] = loop[k]
<1>1. loop[l] \in LoopStates
  OBVIOUS
<1>2. PICK r : r = [loop[l] EXCEPT !.stage = "next", !.env = None]
  OBVIOUS
<1>3. r \in LoopStates /\ r.stage = "next" /\ r.todo = loop[l].todo /\ r.env = None
  BY <1>1, <1>2 DEF LoopStates, Stages
<1>4. loop' = [loop EXCEPT ![l] = r]
  BY <1>2 DEF NextEnv
<1> QED BY <1>3, <1>4, OneLoop

(* A step of the builder that neither reads nor writes a message. *)
LEMMA BuilderKeeps ==
    ASSUME Inv, UNCHANGED schedVars, UNCHANGED <<listed, conn, toBuilder, toSched, stale>>,
           have' \in SUBSET Envs, dir' \in [Envs -> Directories],
           owner' \in [Envs -> Loops \cup {None}], loop' \in [Loops -> LoopStates],
           dying' \in SUBSET Envs, removing' \in SUBSET Envs, failures' \in 0..MaxFailures,
           crossed' \in SUBSET Envs, torn' \in SUBSET Envs,
           have \subseteq have', BuilderKnows', RootsRight'
    PROVE  Inv'
<1>1. Types'
  BY DEF Inv, Types, schedVars
<1>2. ToldOfKnown' /\ ListedRight'
  BY DEF Inv, ToldOfKnown, ListedRight, Known, schedVars
<1> QED BY <1>1, <1>2 DEF Inv

(* Of a destroyed VM's directory only the removal makes anything else. *)
LEMMA RemovalKeeps ==
    ASSUME Inv, NEW e \in Envs, Exit(e) \/ RemoveSome(e) \/ Removed(e) \/ RemovalFails(e)
    PROVE  Inv'
<1>1. /\ UNCHANGED schedVars /\ UNCHANGED <<listed, conn, toBuilder, toSched, stale>>
      /\ UNCHANGED <<have, loop, crossed>>
  BY DEF Exit, RemoveSome, Removed, RemovalFails, exitVars
<1>2. /\ dir' \in [Envs -> Directories] /\ owner' \in [Envs -> Loops \cup {None}]
      /\ dying' \in SUBSET Envs /\ removing' \in SUBSET Envs /\ torn' \in SUBSET Envs
      /\ \A f \in Envs : \/ dir'[f] = dir[f]
                         \/ f = e /\ dir'[f] = "gutted" /\ dir[f] = "whole"
                         \/ f = e /\ dir'[f] = "none"
  BY DEF Exit, RemoveSome, Removed, RemovalFails, Directories, Inv, Types
<1>3. failures' \in 0..MaxFailures
  BY SyncAssumption DEF Inv, Types, Exit, RemoveSome, Removed, RemovalFails, Fail
<1>4. BuilderKnows'
  <2>1. Known' = Known
    BY <1>1 DEF Known, schedVars
  <2>2. \A f \in Envs : dir'[f] # "none" => dir[f] # "none"
    BY <1>2
  <2> QED BY <1>1, <2>1, <2>2 DEF Inv, BuilderKnows
<1>5. ASSUME NEW f \in Envs \ crossed PROVE RootRight(f)'
  <2>1. RootRight(f)
    BY DEF Inv, RootsRight
  <2>2. /\ e \in dying \cup removing /\ dying' \cup removing' \subseteq dying \cup removing
        /\ f # e => (f \in removing' <=> f \in removing) /\ (f \in torn' <=> f \in torn)
    BY DEF Exit, RemoveSome, Removed, RemovalFails
  <2>3. CASE f # e
    <3>1. dir'[f] = dir[f]
      BY <1>2, <2>3
    <3> QED BY <1>1, <2>1, <2>2, <2>3, <3>1 DEF RootRight, At
  <2>4. CASE f = e
    <3>1. e \notin have /\ \A l \in Loops : ~At(l, e)
      BY <2>1, <2>2, <2>4 DEF RootRight
    <3>2. dir'[e] = "gutted" => e \in torn' \cup removing'
      BY <2>1, <2>4 DEF RootRight, Exit, RemoveSome, Removed, RemovalFails, Inv, Types
    <3> QED BY <1>1, <2>4, <3>1, <3>2 DEF RootRight, At
  <2> QED BY <2>3, <2>4
<1>6. RootsRight'
  BY <1>1, <1>5 DEF RootsRight
<1> QED BY <1>1, <1>2, <1>3, <1>4, <1>6, BuilderKeeps DEF Inv, Types

LEMMA WorkKeeps ==
    ASSUME Inv, NEW l \in Loops, Work(l)
    PROVE  Inv'
<1>1. PICK e : e = Head(loop[l].todo)
  OBVIOUS
<1>2. /\ loop[l].stage = "next" /\ loop[l].todo # <<>>
      /\ loop' = [loop EXCEPT ![l] = [stage |-> "download", todo |-> Tail(loop[l].todo), env |-> e]]
      /\ dir' = [dir EXCEPT ![e] = "partial"] /\ owner' = [owner EXCEPT ![e] = l]
      /\ crossed' = IF e \in have \cup dying \cup removing \/ \E k \in Loops : loop[k].env = e
                    THEN crossed \cup {e} ELSE crossed
      /\ torn' = torn \ {e}
      /\ UNCHANGED schedVars /\ UNCHANGED <<listed, conn, toBuilder, toSched, stale>>
      /\ UNCHANGED <<have, dying, removing, failures>>
  BY <1>1 DEF Work, loopVars, Inv, Types
<1>3. loop \in [Loops -> LoopStates] /\ loop[l].todo \in Seq(Envs)
  BY DEF Inv, Types, LoopStates
<1>4. /\ e \in ToSet(loop[l].todo) /\ e \in Envs /\ Tail(loop[l].todo) \in Seq(Envs)
      /\ ToSet(Tail(loop[l].todo)) \subseteq ToSet(loop[l].todo)
  BY <1>1, <1>2, <1>3, Elements
<1>5. ToSet(loop[l].todo) \subseteq Known /\ e \in Known /\ Known' = Known
  BY <1>2, <1>4 DEF Inv, BuilderKnows, Known, schedVars
<1>6. PICK r : r = [stage |-> "download", todo |-> Tail(loop[l].todo), env |-> e]
  OBVIOUS
<1>7. /\ r \in LoopStates /\ r.stage = "download" /\ r.env = e
      /\ ToSet(r.todo) \subseteq Known
  <2>1. r.stage = "download" /\ r.env = e /\ r.todo = Tail(loop[l].todo)
    BY <1>6
  <2>2. r \in LoopStates
    <3>1. PICK t \in Seq(Envs) : t = Tail(loop[l].todo)
      BY <1>4
    <3>2. "download" \in Stages /\ e \in Envs \cup {None}
      BY <1>4 DEF Stages, Busy
    <3>3. r = [stage |-> "download", todo |-> t, env |-> e]
      BY <1>6, <3>1
    <3> QED BY <3>2, <3>3 DEF LoopStates
  <2>3. ToSet(Tail(loop[l].todo)) \subseteq Known
    BY <1>4, <1>5
  <2> QED BY <2>1, <2>2, <2>3
<1>8. /\ loop' \in [Loops -> LoopStates] /\ loop'[l] = r
      /\ \A k \in Loops \ {l} : loop'[k] = loop[k]
  BY <1>2, <1>3, <1>6, <1>7, OneLoop
<1>9. /\ dir' \in [Envs -> Directories]
      /\ owner' \in [Envs -> Loops \cup {None}]
      /\ crossed' \in SUBSET Envs /\ torn' \in SUBSET Envs
      /\ dir'[e] = "partial" /\ \A f \in Envs \ {e} : dir'[f] = dir[f]
  BY <1>2, <1>4 DEF Inv, Types, Directories
<1>10. BuilderKnows'
  <2>1. have' \subseteq Known' /\ \A f \in Envs : dir'[f] # "none" => f \in Known'
    BY <1>2, <1>5, <1>9 DEF Inv, BuilderKnows
  <2>2. ASSUME NEW k \in Loops
        PROVE  /\ ToSet(loop'[k].todo) \subseteq Known
               /\ loop'[k].env \in IF loop'[k].stage \in Busy THEN Known ELSE {None}
    BY <1>5, <1>7, <1>8 DEF Inv, BuilderKnows, Busy
  <2> QED BY <1>5, <2>1, <2>2 DEF BuilderKnows
<1>11. ASSUME NEW f \in Envs \ crossed' PROVE RootRight(f)'
  <2>1. f \notin crossed /\ RootRight(f)
    BY <1>2 DEF Inv, RootsRight
  <2>2. CASE f = e
    <3>1. e \notin have \cup dying \cup removing /\ \A k \in Loops : loop[k].env # e
      BY <1>2, <2>2
    <3>2. \A k \in Loops \ {l} : ~At(k, e)'
      BY <1>8, <3>1 DEF At
    <3>3. dir'[e] = "partial" /\ loop'[l].stage = "download"
      BY <1>7, <1>8, <1>9
    <3>4. ASSUME NEW k \in Loops, At(k, e)' PROVE k = l
      BY <3>2, <3>4
    <3> QED BY <1>2, <2>2, <3>1, <3>2, <3>3, <3>4 DEF RootRight
  <2>3. CASE f # e
    <3>1. /\ dir'[f] = dir[f] /\ (f \in torn' <=> f \in torn)
          /\ have' = have /\ dying' = dying /\ removing' = removing
      BY <1>2, <1>9, <2>3
    <3>2. ~At(l, f)'
      BY <1>7, <1>8, <2>3 DEF At
    <3>3. \A k \in Loops \ {l} : (At(k, f)' <=> At(k, f)) /\ loop'[k] = loop[k]
      BY <1>8 DEF At
    <3> QED BY <2>1, <3>1, <3>2, <3>3 DEF RootRight
  <2> QED BY <2>2, <2>3
<1>12. RootsRight'
  BY <1>11 DEF RootsRight
<1> QED BY <1>2, <1>8, <1>9, <1>10, <1>12, BuilderKeeps DEF Inv, Types

(* A loop goes on with its environment, whose directory changes if it is still its own. *)
LEMMA LoopStepKeeps ==
    ASSUME Inv, NEW l \in Loops, NEW at \in Stages, Step(l, at),
           loop[l].stage \in Busy <=> at \in Busy,
           UNCHANGED schedVars, UNCHANGED <<listed, conn, toBuilder, toSched, stale>>,
           UNCHANGED <<have, dying, removing, crossed, torn>>, failures' \in 0..MaxFailures,
           dir' \in [Envs -> Directories], owner' \in [Envs -> Loops \cup {None}],
           at = "start" => dir'[loop[l].env] = "whole",
           \A e \in Envs : dir'[e] = dir[e] \/ (At(l, e) /\ dir'[e] # "gutted")
    PROVE  Inv'
<1>1. /\ loop' \in [Loops -> LoopStates]
      /\ loop'[l].stage = at /\ loop'[l].todo = loop[l].todo /\ loop'[l].env = loop[l].env
      /\ \A k \in Loops \ {l} : loop'[k] = loop[k]
  BY LoopSteps DEF Inv, Types
<1>2. Known' = Known
  BY DEF Known, schedVars
<1>3. \A k \in Loops : /\ loop'[k].stage \in Busy <=> loop[k].stage \in Busy
                       /\ loop'[k].todo = loop[k].todo /\ loop'[k].env = loop[k].env
  BY <1>1
<1>4. BuilderKnows'
  <2>1. \A e \in Envs : dir'[e] # "none" => e \in Known
    BY DEF Inv, BuilderKnows, At
  <2>2. \A k \in Loops : /\ ToSet(loop'[k].todo) \subseteq Known
                         /\ loop'[k].env \in IF loop'[k].stage \in Busy THEN Known ELSE {None}
    BY <1>3 DEF Inv, BuilderKnows
  <2> QED BY <1>2, <2>1, <2>2 DEF Inv, BuilderKnows
<1>5. ASSUME NEW e \in Envs \ crossed PROVE RootRight(e)'
  <2>1. RootRight(e)
    BY DEF Inv, RootsRight
  <2>2. \A k \in Loops : At(k, e)' <=> At(k, e)
    BY <1>3 DEF At
  <2>3. CASE At(l, e)
    <3>1. e \notin have \cup dying \cup removing /\ \A k \in Loops \ {l} : ~At(k, e)
      BY <2>1, <2>3 DEF RootRight
    <3>2. dir'[e] = "gutted" => e \in torn
      BY <2>1, <3>1 DEF RootRight
    <3>3. loop'[l].stage = "start" => dir'[e] = "whole"
      BY <1>1, <2>3 DEF At
    <3>4. ASSUME NEW k \in Loops, At(k, e)' PROVE k = l
      BY <2>2, <3>1, <3>4
    <3> QED BY <2>2, <3>1, <3>2, <3>3, <3>4 DEF RootRight
  <2>4. CASE ~At(l, e)
    <3>1. dir'[e] = dir[e]
      BY <2>4
    <3>2. \A k \in Loops : At(k, e)' => loop'[k] = loop[k]
      BY <1>1, <2>2, <2>4
    <3> QED BY <2>1, <2>2, <3>1, <3>2 DEF RootRight
  <2> QED BY <2>3, <2>4
<1>6. RootsRight'
  BY <1>5 DEF RootsRight
<1> QED BY <1>1, <1>4, <1>6, BuilderKeeps DEF Inv, Types

(* A loop leaves its environment: the builder's now, or gone, or left as a removal
   that failed leaves it. *)
LEMMA LoopLeavesKeeps ==
    ASSUME Inv, NEW l \in Loops, loop[l].stage \in Busy,
           loop' \in [Loops -> LoopStates], loop'[l].stage \notin Busy, loop'[l].env = None,
           ToSet(loop'[l].todo) \subseteq ToSet(loop[l].todo),
           \A k \in Loops \ {l} : loop'[k] = loop[k],
           UNCHANGED schedVars, UNCHANGED <<listed, conn, toBuilder, toSched, stale>>,
           UNCHANGED <<dying, removing, crossed>>, failures' \in 0..MaxFailures,
           dir' \in [Envs -> Directories], owner' \in [Envs -> Loops \cup {None}],
           \A e \in Envs : dir'[e] = dir[e] \/ e = loop[l].env,
           torn' = torn \/ torn' = torn \cup {loop[l].env},
           \/ /\ have' = have
              /\ \/ dir'[loop[l].env] \in {dir[loop[l].env], "none"}
                 \/ loop[l].env \in torn'
           \/ /\ have' = have \cup {loop[l].env}
              /\ loop[l].stage = "start" /\ dir' = dir
    PROVE  Inv'
<1>1. PICK e : e = loop[l].env
  OBVIOUS
<1>2. Known' = Known /\ Known \subseteq Envs /\ e \in Known
  BY <1>1, SyncAssumption DEF Known, schedVars, Inv, Types, BuilderKnows
<1>3. /\ have' \in SUBSET Envs /\ have \subseteq have' /\ have' \subseteq Known
      /\ torn' \in SUBSET Envs
  BY <1>1, <1>2 DEF Inv, Types, BuilderKnows
<1>4. BuilderKnows'
  <2>1. \A f \in Envs : dir'[f] # "none" => f \in Known
    BY <1>1, <1>2 DEF Inv, BuilderKnows
  <2>2. ASSUME NEW k \in Loops
        PROVE  /\ ToSet(loop'[k].todo) \subseteq Known
               /\ loop'[k].env \in IF loop'[k].stage \in Busy THEN Known ELSE {None}
    BY DEF Inv, BuilderKnows
  <2> QED BY <1>2, <1>3, <2>1, <2>2 DEF BuilderKnows
<1>5. ASSUME NEW f \in Envs \ crossed PROVE RootRight(f)'
  <2>1. RootRight(f)
    BY DEF Inv, RootsRight
  <2>2. ~At(l, f)' /\ \A k \in Loops \ {l} : At(k, f)' <=> At(k, f)
    BY DEF At
  <2>3. CASE f # e
    <3>1. dir'[f] = dir[f] /\ (f \in have' <=> f \in have) /\ (f \in torn' <=> f \in torn)
      BY <1>1, <2>3
    <3>2. \A k \in Loops : At(k, f)' => k # l /\ At(k, f) /\ loop'[k] = loop[k]
      BY <2>2
    <3> QED BY <2>1, <2>2, <3>1, <3>2 DEF RootRight
  <2>4. CASE f = e
    <3>1. At(l, e)
      BY <1>1 DEF At
    <3>2. e \notin have \cup dying \cup removing /\ \A k \in Loops \ {l} : ~At(k, e)
      BY <2>1, <2>4, <3>1 DEF RootRight
    <3>3. \A k \in Loops : ~At(k, e)'
      BY <2>2, <2>4, <3>2
    <3>4. dir'[e] = "gutted" => e \in torn'
      BY <1>1, <2>1, <2>4, <3>2 DEF RootRight
    <3>5. e \in have' => dir'[e] = "whole"
      BY <1>1, <2>1, <2>4, <3>1, <3>2 DEF RootRight
    <3> QED BY <2>4, <3>2, <3>3, <3>4, <3>5 DEF RootRight
  <2> QED BY <2>3, <2>4
<1>6. RootsRight'
  BY <1>5 DEF RootsRight
<1> QED BY <1>3, <1>4, <1>6, BuilderKeeps DEF Inv, Types

LEMMA DirectoryStepKeeps ==
    ASSUME Inv, NEW l \in Loops, Finish(l) \/ Unpack(l) \/ DownloadFails(l) \/ LeftBehind(l)
    PROVE  Inv'
<1>1. /\ UNCHANGED schedVars /\ UNCHANGED <<listed, conn, toBuilder, toSched, stale>>
      /\ UNCHANGED <<have, dying, removing, crossed>>
      /\ loop[l].stage \in {"download", "unpack"} /\ loop[l].stage \in Busy
  BY DEF Finish, Unpack, DownloadFails, LeftBehind, loopVars, Busy
<1>2. failures' \in 0..MaxFailures
  BY SyncAssumption DEF Inv, Types, Finish, Unpack, DownloadFails, LeftBehind, Fail
<1>3. loop[l].env \in Envs
  BY <1>1, SyncAssumption DEF Inv, BuilderKnows, Known
<1>4. NextEnv(l) => /\ loop' \in [Loops -> LoopStates] /\ loop'[l].stage \notin Busy
                    /\ loop'[l].env = None /\ ToSet(loop'[l].todo) \subseteq ToSet(loop[l].todo)
                    /\ \A k \in Loops \ {l} : loop'[k] = loop[k]
  BY LoopGoesOn DEF Inv, Types, Busy
<1>5. CASE GiveUp(l) /\ UNCHANGED torn
  <2>1. /\ NextEnv(l)
        /\ dir' = [dir EXCEPT ![loop[l].env] = "none"]
        /\ owner' = [owner EXCEPT ![loop[l].env] = None]
    BY <1>5 DEF GiveUp
  <2>2. /\ dir' \in [Envs -> Directories]
        /\ owner' \in [Envs -> Loops \cup {None}]
        /\ dir'[loop[l].env] = "none" /\ \A e \in Envs : dir'[e] = dir[e] \/ e = loop[l].env
    BY <1>3, <2>1 DEF Inv, Types, Directories
  <2> QED BY <1>1, <1>2, <1>4, <1>5, <2>1, <2>2, LoopLeavesKeeps
<1>6. CASE LeftBehind(l)
  <2>1. /\ NextEnv(l) /\ UNCHANGED owner
        /\ dir' = [dir EXCEPT ![loop[l].env] = "gutted"]
        /\ torn' = torn \cup {loop[l].env}
    BY <1>6 DEF LeftBehind
  <2>2. /\ dir' \in [Envs -> Directories] /\ owner' \in [Envs -> Loops \cup {None}]
        /\ loop[l].env \in torn' /\ \A e \in Envs : dir'[e] = dir[e] \/ e = loop[l].env
    BY <1>3, <2>1 DEF Inv, Types, Directories
  <2> QED BY <1>1, <1>2, <1>4, <2>1, <2>2, LoopLeavesKeeps
<1>7. CASE Finish(l)
  <2>1. /\ Step(l, "unpack") /\ UNCHANGED torn
        /\ \/ /\ dir' = [dir EXCEPT ![loop[l].env] = "archive"]
              /\ owner' = [owner EXCEPT ![loop[l].env] = None]
           \/ UNCHANGED <<dir, owner>>
    BY <1>7 DEF Finish
  <2>2. /\ dir' \in [Envs -> Directories] /\ owner' \in [Envs -> Loops \cup {None}]
        /\ \A e \in Envs : dir'[e] = dir[e] \/ (At(l, e) /\ dir'[e] # "gutted")
    BY <1>1, <1>3, <2>1 DEF Inv, Types, Directories, At
  <2>3. "unpack" \in Stages /\ "unpack" \in Busy
    BY DEF Stages, Busy
  <2> QED BY <1>1, <1>2, <2>1, <2>2, <2>3, LoopStepKeeps
<1>8. CASE Unpack(l) /\ dir[loop[l].env] = "archive"
  <2>1. /\ Step(l, "start") /\ UNCHANGED <<owner, torn>>
        /\ dir' = [dir EXCEPT ![loop[l].env] = "whole"]
    BY <1>8 DEF Unpack
  <2>2. /\ dir' \in [Envs -> Directories] /\ owner' \in [Envs -> Loops \cup {None}]
        /\ dir'[loop[l].env] = "whole"
        /\ \A e \in Envs : dir'[e] = dir[e] \/ (At(l, e) /\ dir'[e] # "gutted")
    BY <1>1, <1>3, <2>1 DEF Inv, Types, Directories, At
  <2>3. "start" \in Stages /\ "start" \in Busy
    BY DEF Stages, Busy
  <2> QED BY <1>1, <1>2, <2>1, <2>2, <2>3, LoopStepKeeps
<1> QED BY <1>5, <1>6, <1>7, <1>8 DEF Unpack, DownloadFails

LEMMA ChildStepKeeps ==
    ASSUME Inv, NEW l \in Loops, VMStarts(l) \/ ChildExits(l)
    PROVE  Inv'
<1>1. /\ UNCHANGED schedVars /\ UNCHANGED <<listed, conn, toBuilder, toSched, stale>>
      /\ UNCHANGED <<dir, owner, dying, removing, crossed, torn>>
      /\ loop[l].stage = "start" /\ loop[l].stage \in Busy
  BY DEF VMStarts, ChildExits, loopVars, Busy
<1>2. failures' \in 0..MaxFailures
  BY SyncAssumption DEF Inv, Types, VMStarts, ChildExits, Fail
<1>3. CASE NextEnv(l) /\ have' = have \cup {loop[l].env}
  <2>1. /\ loop' \in [Loops -> LoopStates] /\ loop'[l].stage \notin Busy
        /\ loop'[l].env = None /\ ToSet(loop'[l].todo) \subseteq ToSet(loop[l].todo)
        /\ \A k \in Loops \ {l} : loop'[k] = loop[k]
    BY <1>3, LoopGoesOn DEF Inv, Types, Busy
  <2> QED BY <1>1, <1>2, <1>3, <2>1, LoopLeavesKeeps DEF Inv, Types
<1>4. CASE Stall(l) /\ UNCHANGED have
  <2>1. PICK r : r = [Free EXCEPT !.stage = "stalled"]
    OBVIOUS
  <2>2. r.stage = "stalled" /\ r.todo = <<>> /\ r.env = None
    BY <2>1 DEF Free
  <2>3. r \in LoopStates /\ r.stage \notin Busy /\ ToSet(r.todo) = {}
    <3>1. <<>> \in Seq(Envs) /\ ToSet(<<>>) = {}
      BY EmptySeq DEF ToSet
    <3> QED BY <2>1, <2>2, <3>1 DEF Free, LoopStates, Stages, Busy
  <2>4. /\ loop' \in [Loops -> LoopStates] /\ loop'[l] = r
        /\ \A k \in Loops \ {l} : loop'[k] = loop[k]
    BY <1>4, <2>1, <2>3, OneLoop DEF Stall, Inv, Types
  <2> QED BY <1>1, <1>2, <1>4, <2>2, <2>3, <2>4, LoopLeavesKeeps DEF Inv, Types
<1> QED BY <1>3, <1>4 DEF VMStarts, ChildExits

LEMMA DoneKeeps ==
    ASSUME Inv, NEW l \in Loops, Done(l)
    PROVE  Inv'
<1>1. /\ Step(l, "inform") /\ loop[l].stage = "next"
      /\ UNCHANGED schedVars /\ UNCHANGED <<listed, conn, toBuilder, toSched, stale>>
      /\ UNCHANGED <<have, dir, owner, dying, removing, failures, crossed, torn>>
  BY DEF Done, loopVars
<1>2. "inform" \in Stages /\ "inform" \notin Busy /\ loop[l].stage \notin Busy
  BY <1>1 DEF Stages, Busy
<1> QED BY <1>1, <1>2, LoopStepKeeps DEF Inv, Types

(* A loop that is at no directory, before and after. *)
LEMMA OtherRootsRight ==
    ASSUME RootsRight, NEW l \in Loops, loop[l].stage \notin Busy, loop'[l].stage \notin Busy,
           \A k \in Loops \ {l} : loop'[k] = loop[k],
           UNCHANGED <<have, dir, dying, removing, crossed, torn>>
    PROVE  RootsRight'
<1>1. ASSUME NEW e \in Envs \ crossed PROVE RootRight(e)'
  <2>1. RootRight(e)
    BY DEF RootsRight
  <2>2. \A k \in Loops : (At(k, e)' <=> At(k, e)) /\ (At(k, e) => loop'[k] = loop[k])
    BY DEF At
  <2> QED BY <2>1, <2>2 DEF RootRight
<1> QED BY <1>1 DEF RootsRight

LEMMA InformKeeps ==
    ASSUME Inv, NEW l \in Loops, Inform(l)
    PROVE  Inv'
<1>1. /\ loop' = [loop EXCEPT ![l] = Free] /\ loop[l].stage = "inform"
      /\ toSched' = IF conn = "up" THEN Append(toSched, have) ELSE toSched
      /\ stale' = (stale /\ conn # "up")
      /\ UNCHANGED schedVars
      /\ UNCHANGED <<listed, conn, toBuilder, have, dir, owner, dying, removing, failures,
                     crossed, torn>>
  BY DEF Inform
<1>2. /\ Free \in LoopStates /\ Free.stage \notin Busy /\ Free.env = None /\ ToSet(Free.todo) = {}
      /\ loop[l].stage \notin Busy
  BY <1>1, EmptySeq DEF Free, LoopStates, Stages, Busy, ToSet
<1>3. /\ loop' \in [Loops -> LoopStates] /\ loop'[l] = Free
      /\ \A k \in Loops \ {l} : loop'[k] = loop[k]
  BY <1>1, <1>2, OneLoop DEF Inv, Types
<1>4. toSched' \in Seq(SUBSET Envs) /\ ToSet(toSched') \subseteq ToSet(toSched) \cup {have}
  <2>1. have \in SUBSET Envs /\ toSched \in Seq(SUBSET Envs)
    BY DEF Inv, Types
  <2>2. /\ Append(toSched, have) \in Seq(SUBSET Envs)
        /\ ToSet(Append(toSched, have)) \subseteq ToSet(toSched) \cup {have}
    BY <2>1, AppendedElements
  <2> QED BY <1>1, <2>1, <2>2
<1>5. Types'
  BY <1>1, <1>3, <1>4 DEF Inv, Types, schedVars
<1>6. Known' = Known
  BY <1>1 DEF Known, schedVars
<1>7. BuilderKnows' /\ ToldOfKnown'
  <2>1. ASSUME NEW k \in Loops
        PROVE  /\ ToSet(loop'[k].todo) \subseteq Known
               /\ loop'[k].env \in IF loop'[k].stage \in Busy THEN Known ELSE {None}
    BY <1>2, <1>3 DEF Inv, BuilderKnows
  <2> QED BY <1>1, <1>6, <2>1 DEF Inv, BuilderKnows, ToldOfKnown
<1>8. ListedRight'
  BY <1>1, <1>4 DEF Inv, ListedRight, schedVars
<1>9. RootsRight'
  BY <1>1, <1>2, <1>3, OtherRootsRight DEF Inv
<1> QED BY <1>5, <1>7, <1>8, <1>9 DEF Inv

LEMMA GetKeeps ==
    ASSUME Inv, NEW l \in Loops, Get(l)
    PROVE  Inv'
<1>1. PICK m : m = Head(toBuilder)
  OBVIOUS
<1>2. /\ toBuilder # <<>> /\ m.type = "get" /\ loop[l] = Free
      /\ loop' = [loop EXCEPT ![l] = [Free EXCEPT !.stage = "next", !.todo = SetToSeq(m.envs)]]
      /\ toBuilder' = Tail(toBuilder)
      /\ UNCHANGED schedVars
      /\ UNCHANGED <<listed, conn, toSched, have, dir, owner, dying, removing, failures,
                     crossed, torn, stale>>
  BY <1>1 DEF Get
<1>3. toBuilder \in Seq(Messages)
  BY DEF Inv, Types
<1>4. /\ m \in ToSet(toBuilder) /\ m \in Messages /\ toBuilder' \in Seq(Messages)
      /\ ToSet(toBuilder') \subseteq ToSet(toBuilder)
  BY <1>1, <1>2, <1>3, Elements
<1>5. m.envs \subseteq Known /\ m.envs \in SUBSET Envs
  BY <1>2, <1>4 DEF Inv, ToldOfKnown, Messages
<1>6. SetToSeq(m.envs) \in Seq(m.envs)
  BY <1>5, FS_Subset, SyncAssumption, Listing
<1>7. ToSet(SetToSeq(m.envs)) \subseteq Known /\ SetToSeq(m.envs) \in Seq(Envs)
  <2>1. ToSet(SetToSeq(m.envs)) \subseteq m.envs
    BY <1>6, Elements
  <2>2. Seq(m.envs) \subseteq Seq(Envs)
    BY <1>5
  <2> QED BY <1>5, <1>6, <2>1, <2>2
<1>8. PICK r : r = [Free EXCEPT !.stage = "next", !.todo = SetToSeq(m.envs)]
  OBVIOUS
<1>9. r.stage = "next" /\ r.env = None /\ r.todo = SetToSeq(m.envs)
  BY <1>8 DEF Free
<1>10. r \in LoopStates /\ r.stage \notin Busy /\ ToSet(r.todo) \subseteq Known
  <2>1. r \in LoopStates
    BY <1>7, <1>8 DEF LoopStates, Free, Stages
  <2> QED BY <1>7, <1>9, <2>1 DEF Busy
<1>11. /\ loop' \in [Loops -> LoopStates] /\ loop'[l] = r
       /\ \A k \in Loops \ {l} : loop'[k] = loop[k]
  BY <1>2, <1>8, <1>10, OneLoop DEF Inv, Types
<1>12. Types'
  BY <1>2, <1>4, <1>11 DEF Inv, Types, schedVars
<1>13. Known' = Known
  BY <1>2 DEF Known, schedVars
<1>14. BuilderKnows' /\ ToldOfKnown'
  <2>1. ASSUME NEW k \in Loops
        PROVE  /\ ToSet(loop'[k].todo) \subseteq Known
               /\ loop'[k].env \in IF loop'[k].stage \in Busy THEN Known ELSE {None}
    BY <1>9, <1>10, <1>11 DEF Inv, BuilderKnows
  <2> QED BY <1>2, <1>4, <1>13, <2>1 DEF Inv, BuilderKnows, ToldOfKnown
<1>15. ListedRight'
  BY <1>2, <1>4 DEF Inv, ListedRight, schedVars
<1>16. RootsRight'
  <2>1. loop[l].stage \notin Busy
    BY <1>2 DEF Free, Busy
  <2> QED BY <1>2, <1>10, <1>11, <2>1, OtherRootsRight DEF Inv
<1> QED BY <1>12, <1>14, <1>15, <1>16 DEF Inv

(* Only after a purge is a builder told to drop anything. *)
LEMMA DropKeeps ==
    ASSUME Inv, DropEnvironments
    PROVE  Inv'
<1>1. PICK m : m = Head(toBuilder)
  OBVIOUS
<1>2. /\ toBuilder # <<>> /\ m.type = "drop"
      /\ have' = have \ m.envs /\ dying' = dying \cup (have \cap m.envs)
      /\ toBuilder' = Tail(toBuilder)
      /\ UNCHANGED schedVars
      /\ UNCHANGED <<listed, conn, toSched, dir, owner, loop, removing, failures, crossed,
                     torn, stale>>
  BY <1>1 DEF DropEnvironments
<1>3. toBuilder \in Seq(Messages)
  BY DEF Inv, Types
<1>4. /\ m \in ToSet(toBuilder) /\ toBuilder' \in Seq(Messages)
      /\ ToSet(toBuilder') \subseteq ToSet(toBuilder)
  BY <1>1, <1>2, <1>3, Elements
<1>5. purged
  BY <1>2, <1>4 DEF Inv, ListedRight
<1>6. Types'
  BY <1>2, <1>4 DEF Inv, Types, schedVars
<1>7. BuilderKnows' /\ ToldOfKnown'
  BY <1>2, <1>4 DEF Inv, BuilderKnows, ToldOfKnown, Known, schedVars
<1>8. ListedRight'
  BY <1>2, <1>5 DEF ListedRight, schedVars
<1>9. ASSUME NEW e \in Envs \ crossed PROVE RootRight(e)'
  <2>1. RootRight(e)
    BY DEF Inv, RootsRight
  <2>2. /\ e \in have' => e \in have /\ e \notin m.envs
        /\ e \in dying' => e \in dying \/ (e \in have /\ e \in m.envs)
    BY <1>2
  <2>3. \A k \in Loops : At(k, e)' <=> At(k, e)
    BY <1>2 DEF At
  <2> QED BY <1>2, <2>1, <2>2, <2>3 DEF RootRight
<1>10. RootsRight'
  BY <1>2, <1>9 DEF RootsRight
<1> QED BY <1>6, <1>7, <1>8, <1>10 DEF Inv

(* What it finds at the start, and loads, is whole or known to have been left. *)
LEMMA StartKeeps ==
    ASSUME Inv, NEW found \in [Envs -> Directories], NEW left \in SUBSET Envs,
           removing \subseteq left,
           \A e \in Envs : found[e] # dir[e] =>
              /\ found[e] = "none" \/ (found[e] = "gutted" /\ e \in left)
              /\ dir[e] # "none",
           StartAgain(found, left)
    PROVE  Inv'
<1>1. /\ have' = {e \in Envs : found[e] \in Loadable}
      /\ dir' = [e \in Envs |-> IF found[e] \in Loadable THEN found[e] ELSE "none"]
      /\ owner' = [e \in Envs |-> None] /\ loop' = [l \in Loops |-> Free]
      /\ dying' = {} /\ removing' = {}
      /\ torn' = (torn \cup left) \cap have' /\ crossed' = crossed \cap have'
      /\ conn' = "down" /\ listed' = {} /\ toBuilder' = <<>> /\ toSched' = <<>> /\ stale' = FALSE
      /\ UNCHANGED schedVars
      /\ failures < MaxFailures /\ failures' = failures + 1
  BY DEF StartAgain, Cut, Fail
<1>2. /\ <<>> \in Seq(Messages) /\ <<>> \in Seq(SUBSET Envs) /\ <<>> \in Seq(Envs)
      /\ ToSet(<<>>) = {}
  BY EmptySeq DEF ToSet
<1>3. Free \in LoopStates /\ Free.stage \notin Busy /\ Free.env = None /\ Free.todo = <<>>
  BY <1>2 DEF Free, LoopStates, Stages, Busy
<1>4. /\ loop' \in [Loops -> LoopStates] /\ \A l \in Loops : loop'[l] = Free
      /\ failures' \in 0..MaxFailures /\ have' \in SUBSET Envs
      /\ crossed' \in SUBSET Envs /\ torn' \in SUBSET Envs
      /\ dir' \in [Envs -> Directories]
      /\ owner' \in [Envs -> Loops \cup {None}]
  <2>1. failures' \in 0..MaxFailures
    BY <1>1, SyncAssumption DEF Inv, Types
  <2>2. loop' \in [Loops -> LoopStates] /\ \A l \in Loops : loop'[l] = Free
    BY <1>1, <1>3
  <2>3. have' \in SUBSET Envs /\ crossed' \in SUBSET Envs /\ torn' \in SUBSET Envs
    BY <1>1
  <2>4. dir' \in [Envs -> Directories]
    BY <1>1 DEF Directories
  <2>5. owner' \in [Envs -> Loops \cup {None}]
    BY <1>1
  <2> QED BY <2>1, <2>2, <2>3, <2>4, <2>5
<1>5. Types'
  BY <1>1, <1>2, <1>4 DEF Inv, Types, schedVars
<1>6. Known' = Known
  BY <1>1 DEF Known, schedVars
<1>7. \A e \in have' : e \in Known
  BY <1>1 DEF Inv, BuilderKnows, Loadable
<1>8. \A e \in Envs : dir'[e] # "none" => e \in have' /\ dir'[e] = found[e] /\ found[e] \in Loadable
  BY <1>1
<1>9. BuilderKnows' /\ ToldOfKnown'
  BY <1>1, <1>2, <1>3, <1>4, <1>6, <1>7, <1>8 DEF BuilderKnows, ToldOfKnown
<1>10. ASSUME NEW e \in Envs \ crossed' PROVE RootRight(e)'
  <2>1. \A l \in Loops : ~At(l, e)'
    BY <1>3, <1>4 DEF At
  <2>2. CASE e \in have'
    <3>1. e \notin crossed /\ RootRight(e)
      BY <1>1, <2>2 DEF Inv, RootsRight
    <3>2. dir'[e] = found[e] /\ found[e] \in {"whole", "gutted"}
      BY <1>1, <2>2 DEF Loadable
    <3>3. found[e] = "gutted" => e \in torn'
      BY <1>1, <2>2, <3>1 DEF RootRight
    <3> QED BY <1>1, <2>1, <3>2, <3>3 DEF RootRight
  <2>3. CASE e \notin have'
    <3>1. dir'[e] = "none"
      BY <1>8, <2>3
    <3> QED BY <2>1, <2>3, <3>1 DEF RootRight
  <2> QED BY <2>2, <2>3
<1>11. ListedRight' /\ RootsRight'
  BY <1>1, <1>2, <1>10 DEF ListedRight, RootsRight
<1> QED BY <1>5, <1>9, <1>11 DEF Inv

LEMMA RestartKeeps ==
    ASSUME Inv, Restart \/ \E gone, half \in SUBSET Envs : Quit(gone, half)
    PROVE  Inv'
<1>1. removing \in SUBSET Envs /\ dir \in [Envs -> Directories]
  BY DEF Inv, Types
<1>2. CASE Restart
  BY <1>1, <1>2, StartKeeps DEF Restart
<1>3. ASSUME NEW gone \in SUBSET Envs, NEW half \in SUBSET Envs, Quit(gone, half)
      PROVE  Inv'
  <2>1. PICK found : found = [e \in Envs |-> IF e \in gone THEN "none"
                                             ELSE IF e \in half THEN "gutted" ELSE dir[e]]
    OBVIOUS
  <2>2. /\ StartAgain(found, removing \cup half)
        /\ \A e \in half : dir[e] \in {"archive", "whole"}
    BY <1>3, <2>1 DEF Quit
  <2>3. /\ found \in [Envs -> Directories]
        /\ removing \cup half \in SUBSET Envs
    BY <1>1, <2>1 DEF Directories
  <2>4. \A e \in Envs : found[e] = IF e \in gone THEN "none"
                                   ELSE IF e \in half THEN "gutted" ELSE dir[e]
    BY <2>1
  <2>5. ASSUME NEW e \in Envs, found[e] # dir[e]
        PROVE  /\ found[e] = "none" \/ (found[e] = "gutted" /\ e \in removing \cup half)
               /\ dir[e] # "none"
    BY <2>2, <2>4, <2>5
  <2> QED BY <2>2, <2>3, <2>5, StartKeeps
<1> QED BY <1>2, <1>3

----------------------------------------------------------------------------
(* The theorems *)

LEMMA NextKeeps ==
    ASSUME Inv, [Next]_vars
    PROVE  Inv'
<1>1. CASE UNCHANGED vars
  <2>1. UNCHANGED <<has, listed, conn, toBuilder, toSched, have, dir, owner, loop, dying,
                    removing, arrivals, failures, crossed, torn, stale, purged>>
    BY <1>1 DEF vars
  <2>2. RootsRight'
    BY <2>1 DEF Inv, RootsRight, RootRight, At
  <2> QED BY <2>1, <2>2 DEF Inv, Types, BuilderKnows, ToldOfKnown, ListedRight, Known
<1>2. CASE Next
  <2>1. CASE \E e \in Envs : \/ \E gone \in SUBSET Envs : Arrive(e, gone)
                             \/ Exit(e) \/ RemoveSome(e) \/ Removed(e) \/ RemovalFails(e)
    BY <2>1, RemovalKeeps, ArriveKeeps
  <2>2. CASE Attempt \/ Informed \/ Connect \/ Disconnect \/ DropEnvironments
    BY <2>2, SchedulerStepKeeps, DropKeeps
  <2>3. CASE Restart \/ \E gone, half \in SUBSET Envs : Quit(gone, half)
    BY <2>3, RestartKeeps
  <2>4. CASE \E l \in Loops : Get(l) \/ Work(l) \/ Done(l) \/ Inform(l)
    BY <2>4, GetKeeps, WorkKeeps, DoneKeeps, InformKeeps
  <2>5. CASE \E l \in Loops : Finish(l) \/ Unpack(l) \/ DownloadFails(l) \/ LeftBehind(l)
    BY <2>5, DirectoryStepKeeps
  <2>6. CASE \E l \in Loops : VMStarts(l) \/ ChildExits(l)
    BY <2>6, ChildStepKeeps
  <2> QED BY <1>2, <2>1, <2>2, <2>3, <2>4, <2>5, <2>6 DEF Next
<1> QED BY <1>1, <1>2

(* Over every interleaving of loops, messages, failures and restarts of the builder, the
   scheduler lists only environments that the builder has a VM for, until it purges one. *)
THEOREM SchedulerListsWhatIsThere == Spec => []ListedIsHad
<1>1. Inv => ListedIsHad
  BY InvTypes DEF ListedIsHad, Inv, ListedRight
<1> QED BY <1>1, InitInv, NextKeeps, PTL DEF Spec

(* Every environment the builder has a VM for has its whole root in place, over crashes
   in the middle of downloads and removals too, unless its own directory was made while
   another loop, a VM or a removal used it, or is what a removal left that failed or
   that the end of the builder cut short. *)
THEOREM EnvironmentsHaveRoots == Spec => []RootsAreWhole
<1>1. Inv => RootsAreWhole
  <2> SUFFICES ASSUME Inv, NEW e \in have, e \notin crossed, e \notin torn
               PROVE  dir[e] = "whole"
    BY DEF RootsAreWhole
  <2>1. e \in Envs
    BY DEF Inv, Types
  <2> QED BY <2>1 DEF Inv, RootsRight, RootRight
<1> QED BY <1>1, InitInv, NextKeeps, PTL DEF Spec

----------------------------------------------------------------------------
(* UserDatabase: the invariant *)

AllLinks == [Environments -> SUBSET Environments]
AllUsers == [Users -> Requests \cup {0, Absent}]

UserOps == [type : {"get", "users"}, by : Requests]
LinkOps ==
    {op \in [type : {"links"}, targets : AllLinks, live : SUBSET Environments,
             then : {"done", "targets", "sync"}, env : Environments \cup {Absent}] :
       op.then # "done" => op.env \in Environments}
Ops == UserOps \cup LinkOps

RequestStates == [pc : {"unsent", "get", "hash", "set", "answered"},
                  kind : {"-", "add", "remove", "login"},
                  name : Users \cup {"-"},
                  from : Monitors \cup {"-"}]

DatabaseTypes ==
    /\ DatabaseTypeOK
    /\ ops \in Seq(Ops)
    /\ req \in [Requests -> RequestStates]
    /\ \A r \in Waiting : req[r].name \in Users /\ req[r].from \in Monitors
    /\ pendingUsers \subseteq Users
    /\ lingering \subseteq Environments
    /\ overlapped \in BOOLEAN
    /\ unsaved \in BOOLEAN

\* The operations of messages are those the messages wait for, one each.
OpsAwaited ==
    /\ \A i \in 1..Len(ops) :
          /\ ops[i].type = "get" => req[ops[i].by].pc = "get"
          /\ ops[i].type = "users" => req[ops[i].by].pc = "set"
    /\ \A i, j \in 1..Len(ops) :
          ops[i].type # "links" /\ ops[j].type # "links" /\ ops[i].by = ops[j].by => i = j

\* Only a set() writes, and what it renames is whole.
Writing ==
    /\ stage # "reading" => ops # <<>> /\ ops[1].type \in {"users", "links"}
    /\ stage = "renaming" => tmp = "whole"

\* Two messages never hold one name.
NamesHeld ==
    /\ pendingUsers = {req[r].name : r \in {w \in Waiting : Exclusive(req[w].kind)}}
    /\ \A r, w \in Waiting :
          Exclusive(req[r].kind) /\ Exclusive(req[w].kind) /\ req[r].name = req[w].name => r = w

\* What a set() has read, and what it has put in place.
CopyRight ==
    stage \in {"writing", "renaming"} =>
       IF ops[1].type = "users"
       THEN /\ copy.users = [base[ops[1].by] EXCEPT ![req[ops[1].by].name] = Entry(ops[1].by)]
            /\ unsaved \/ copy.links = file.links
       ELSE /\ copy.links = ops[1].targets
            /\ overlapped \/ copy.users = file.users

InPlace ==
    stage = "renamed" =>
       IF ops[1].type = "users"
       THEN overlapped \/ file.users[req[ops[1].by].name] = Entry(ops[1].by)
       ELSE unsaved \/ file.links = ops[1].targets

\* What monitors were told is in the file, or is about to be told.
Kept ==
    ~overlapped =>
       /\ file # Corrupt
       /\ \A u \in Users :
             \/ file.users[u] = promised[u]
             \/ /\ stage = "renamed" /\ ops[1].type = "users"
                /\ req[ops[1].by].name = u /\ file.users[u] = Entry(ops[1].by)

CorruptKnown == file = Corrupt => overlapped /\ unsaved

\* The last write of links that is queued holds the links in force.
LastWritesLinks ==
    \A i \in LinksUnderWay :
       (\A j \in LinksUnderWay : j <= i) => ops[i].targets = links

\* Nothing is left of the links of e, and those to it go when its removal is saved.
GoneOf(e) ==
    /\ links[e] = {}
    /\ \/ \E i \in LinksUnderWay : ops[i].then = "targets" /\ ops[i].env = e
       \/ \A s \in Environments : e \notin links[s]

LinksGone == \A e \in Environments \ (envs \cup lingering) : GoneOf(e)

LinksSettled == LinksUnderWay = {} /\ ~unsaved => file.links = links

DatabaseInv ==
    /\ DatabaseTypes /\ OpsAwaited /\ Writing /\ NamesHeld
    /\ CopyRight /\ InPlace /\ CorruptKnown /\ Kept
    /\ LastWritesLinks /\ LinksGone /\ LinksSettled

----------------------------------------------------------------------------
(* The queue of the database *)

\* What is left of an operation when the Links it refers to change.
Same(new, old) ==
    /\ new.type = old.type
    /\ new.type = "links" => new.then = old.then /\ new.env = old.env
    /\ new.type # "links" => new = old

\* The first k operations are over, at most one is new, and it is the last.
Survive(k) ==
    /\ ops' \in Seq(Ops)
    /\ Len(ops) - k \in Nat
    /\ Len(ops') = Len(ops) - k \/ Len(ops') = Len(ops) - k + 1
    /\ \A i \in 1..(Len(ops) - k) : Same(ops'[i], ops[i + k])

PlainStep(k) ==
    /\ Survive(k)
    /\ \A i \in 1..(Len(ops) - k) : ops'[i] = ops[i + k]
    /\ Len(ops') = Len(ops) - k + 1 => ops'[Len(ops')].type # "links"
    /\ links' = links

RelinkStep(k) ==
    /\ Survive(k)
    /\ Len(ops') = Len(ops) - k + 1
    /\ ops'[Len(ops')].type = "links"
    /\ ops'[Len(ops')].targets = links'

LEMMA OpsTyped ==
    ASSUME NEW op \in Ops
    PROVE  /\ op.type \in {"get", "users", "links"}
           /\ op.type # "links" => op \in UserOps /\ op.by \in Requests
           /\ op.type = "links" => /\ op \in LinkOps /\ op.targets \in AllLinks
                                   /\ op.env \in Environments \cup {Absent}
                                   /\ op.then # "done" => op.env \in Environments
                                   /\ op.then \in {"done", "targets", "sync"}
           /\ Same(op, op)
  BY DEF Ops, UserOps, LinkOps, Same

LEMMA QueueTyped ==
    ASSUME NEW q \in Seq(Ops)
    PROVE  /\ Len(q) \in Nat
           /\ DOMAIN q = 1..Len(q)
           /\ \A i \in 1..Len(q) : q[i] \in Ops
           /\ q # <<>> => Len(q) >= 1 /\ Head(q) = q[1] /\ Head(q) \in Ops
           /\ Len(q) >= 1 => q # <<>>
<1>1. Len(q) \in Nat /\ DOMAIN q = 1..Len(q) /\ \A i \in 1..Len(q) : q[i] \in Ops
  BY LenProperties, ElementOfSeq
<1>2. q # <<>> => Len(q) >= 1 /\ Head(q) = q[1]
  BY <1>1, EmptySeq
<1>3. Len(q) >= 1 => q # <<>>
  BY EmptySeq
<1> QED BY <1>1, <1>2, <1>3

LEMMA Unappended ==
    ASSUME NEW q \in Seq(Ops), q # <<>>
    PROVE  LET new == Tail(q) \o <<>>
           IN  /\ new \in Seq(Ops)
               /\ Len(new) = Len(q) - 1
               /\ \A i \in 1..(Len(q) - 1) : new[i] = q[i + 1]
<1>1. /\ Tail(q) \in Seq(Ops)
      /\ Len(Tail(q)) = Len(q) - 1
      /\ \A i \in 1..Len(Tail(q)) : Tail(q)[i] = q[i + 1]
  BY HeadTailProperties
<1>2. Tail(q) \o <<>> = Tail(q)
  BY <1>1, ConcatEmptySeq
<1> QED BY <1>1, <1>2

LEMMA TailAnd ==
    ASSUME NEW q \in Seq(Ops), q # <<>>, NEW x \in Ops
    PROVE  LET new == Tail(q) \o <<x>>
           IN  /\ new \in Seq(Ops)
               /\ Len(new) = Len(q)
               /\ \A i \in 1..(Len(q) - 1) : new[i] = q[i + 1]
               /\ new[Len(q)] = x
<1>1. /\ Tail(q) \in Seq(Ops)
      /\ Len(Tail(q)) = Len(q) - 1
      /\ \A i \in 1..Len(Tail(q)) : Tail(q)[i] = q[i + 1]
  BY HeadTailProperties
<1>2. Len(q) \in Nat /\ Len(q) >= 1
  BY QueueTyped
<1>3. <<x>> \in Seq(Ops) /\ Len(<<x>>) = 1 /\ <<x>>[1] = x
  OBVIOUS
<1>4. /\ Tail(q) \o <<x>> \in Seq(Ops)
      /\ Len(Tail(q) \o <<x>>) = Len(Tail(q)) + 1
      /\ \A i \in 1..(Len(Tail(q)) + 1) :
            (Tail(q) \o <<x>>)[i] = IF i <= Len(Tail(q)) THEN Tail(q)[i]
                                    ELSE <<x>>[i - Len(Tail(q))]
  BY <1>1, <1>3, ConcatProperties
<1>5. /\ Len(Tail(q) \o <<x>>) = Len(q)
      /\ \A i \in 1..Len(q) :
            (Tail(q) \o <<x>>)[i] = IF i <= Len(q) - 1 THEN Tail(q)[i]
                                    ELSE <<x>>[i - (Len(q) - 1)]
  BY <1>1, <1>2, <1>4
<1>6. \A i \in 1..(Len(q) - 1) : (Tail(q) \o <<x>>)[i] = q[i + 1]
  BY <1>1, <1>2, <1>5
<1>7. (Tail(q) \o <<x>>)[Len(q)] = <<x>>[1]
  BY <1>2, <1>5
<1> QED BY <1>3, <1>4, <1>5, <1>6, <1>7

LEMMA AppendedAnd ==
    ASSUME NEW q \in Seq(Ops), NEW x \in Ops
    PROVE  LET new == Append(q, x)
           IN  /\ new \in Seq(Ops)
               /\ Len(new) = Len(q) + 1
               /\ \A i \in 1..Len(q) : new[i] = q[i]
               /\ new[Len(q) + 1] = x
  BY AppendProperties

LEMMA Replaced ==
    ASSUME NEW q \in Seq(Ops), NEW f \in [1..Len(q) -> Ops]
    PROVE  /\ f \in Seq(Ops)
           /\ Len(f) = Len(q)
<1>1. Len(q) \in Nat
  BY LenProperties
<1>2. f \in Seq(Ops)
  BY <1>1, SeqDef
<1>3. DOMAIN f = 1..Len(f) /\ DOMAIN f = 1..Len(q) /\ Len(f) \in Nat
  BY <1>2, LenProperties
<1> QED BY <1>1, <1>2, <1>3

LEMMA UnchangedQueue ==
    ASSUME DatabaseTypes, ops' = ops, links' = links
    PROVE  PlainStep(0) /\ Len(ops') = Len(ops)
<1>1. ops \in Seq(Ops) /\ Len(ops) \in Nat /\ \A i \in 1..Len(ops) : ops[i] \in Ops
  BY QueueTyped DEF DatabaseTypes
<1>2. \A i \in 1..Len(ops) : Same(ops[i], ops[i]) /\ i + 0 = i
  BY <1>1, OpsTyped
<1> QED BY <1>1, <1>2 DEF PlainStep, Survive

LEMMA FinishedQueue ==
    ASSUME DatabaseTypes, ops # <<>>, FinishedOperation(ops, <<>>), links' = links
    PROVE  PlainStep(1) /\ Len(ops') = Len(ops) - 1 /\ stage' = "reading"
<1>1. ops \in Seq(Ops) /\ Len(ops) \in Nat /\ Len(ops) >= 1 /\ \A i \in 1..Len(ops) : ops[i] \in Ops
  BY QueueTyped DEF DatabaseTypes
<1>2. /\ ops' \in Seq(Ops)
      /\ Len(ops') = Len(ops) - 1
      /\ \A i \in 1..(Len(ops) - 1) : ops'[i] = ops[i + 1]
  BY <1>1, Unappended DEF FinishedOperation
<1>3. ASSUME NEW i \in 1..(Len(ops) - 1) PROVE Same(ops'[i], ops[i + 1])
  <2>1. i + 1 \in 1..Len(ops)
    BY <1>1
  <2> QED BY <1>1, <1>2, <2>1, OpsTyped
<1>4. Len(ops) - 1 \in Nat /\ Len(ops') # Len(ops) - 1 + 1
  BY <1>1, <1>2
<1> QED BY <1>2, <1>3, <1>4 DEF PlainStep, Survive, FinishedOperation

LEMMA AppendedQueue ==
    ASSUME DatabaseTypes, NEW x \in UserOps, ops' = Append(ops, x), links' = links
    PROVE  PlainStep(0) /\ Len(ops') = Len(ops) + 1 /\ ops'[Len(ops')] = x
<1>1. ops \in Seq(Ops) /\ Len(ops) \in Nat /\ \A i \in 1..Len(ops) : ops[i] \in Ops
  BY QueueTyped DEF DatabaseTypes
<1>2. x \in Ops /\ x.type # "links"
  BY DEF Ops, UserOps
<1>3. /\ ops' \in Seq(Ops)
      /\ Len(ops') = Len(ops) + 1
      /\ \A i \in 1..Len(ops) : ops'[i] = ops[i]
      /\ ops'[Len(ops')] = x
  BY <1>1, <1>2, AppendedAnd
<1>4. \A i \in 1..Len(ops) : Same(ops'[i], ops[i]) /\ i + 0 = i
  BY <1>1, <1>3, OpsTyped
<1>5. Len(ops) - 0 = Len(ops)
  BY <1>1
<1> QED BY <1>1, <1>2, <1>3, <1>4, <1>5 DEF PlainStep, Survive

LEMMA FirstOperation ==
    ASSUME DatabaseTypes, ops # <<>>
    PROVE  /\ Head(ops) = ops[1]
           /\ ops[1] \in Ops
           /\ Len(ops) \in Nat
           /\ Len(ops) >= 1
           /\ 1 \in 1..Len(ops)
<1>1. Head(ops) = ops[1] /\ ops[1] \in Ops /\ Len(ops) \in Nat /\ Len(ops) >= 1
  BY QueueTyped DEF DatabaseTypes
<1> QED BY <1>1

LEMMA GotUsersQueue ==
    ASSUME DatabaseTypes, GotUsers
    PROVE  /\ ops # <<>> /\ ops[1].type = "get" /\ ops[1].by \in Requests
           /\ PlainStep(1)
           /\ \/ Len(ops') = Len(ops) - 1
              \/ /\ Len(ops') = Len(ops)
                 /\ ops'[Len(ops')] = SetUsers(ops[1].by)
                 /\ req'[ops[1].by].pc = "set"
           /\ stage' = "reading"
<1> DEFINE r == ops[1].by
<1>1. ops # <<>> /\ ops[1].type = "get" /\ Head(ops) = ops[1] /\ ops[1] \in Ops
  BY FirstOperation DEF GotUsers, Performing
<1>2. r \in Requests
  BY <1>1, OpsTyped
<1>3. links' = links
  BY DEF GotUsers, linkVars
<1>4. CASE FinishedOperation(ops, <<>>)
  BY <1>1, <1>2, <1>3, <1>4, FinishedQueue
<1>5. CASE FinishedOperation(ops, <<SetUsers(r)>>) /\ req' = [req EXCEPT ![r].pc = "set"]
  <2>1. ops \in Seq(Ops) /\ Len(ops) \in Nat /\ Len(ops) >= 1 /\ \A i \in 1..Len(ops) : ops[i] \in Ops
    BY <1>1, QueueTyped DEF DatabaseTypes
  <2>2. SetUsers(r) \in Ops /\ SetUsers(r).type # "links"
    BY <1>2 DEF SetUsers, Ops, UserOps
  <2>3. /\ ops' \in Seq(Ops)
        /\ Len(ops') = Len(ops)
        /\ \A i \in 1..(Len(ops) - 1) : ops'[i] = ops[i + 1]
        /\ ops'[Len(ops')] = SetUsers(r)
    BY <1>1, <1>5, <2>1, <2>2, TailAnd DEF FinishedOperation
  <2>4. ASSUME NEW i \in 1..(Len(ops) - 1) PROVE Same(ops'[i], ops[i + 1])
    <3>1. i + 1 \in 1..Len(ops)
      BY <2>1
    <3> QED BY <2>1, <2>3, <3>1, OpsTyped
  <2>5. Len(ops) - 1 \in Nat /\ Len(ops') = Len(ops) - 1 + 1
    BY <2>1, <2>3
  <2>6. PlainStep(1)
    BY <1>3, <2>2, <2>3, <2>4, <2>5 DEF PlainStep, Survive
  <2>7. req'[r].pc = "set"
    BY <1>2, <1>5 DEF DatabaseTypes, RequestStates
  <2> QED BY <1>1, <1>2, <1>5, <2>3, <2>6, <2>7 DEF FinishedOperation
<1>6. FinishedOperation(ops, <<>>) \/ (FinishedOperation(ops, <<SetUsers(r)>>) /\ req' = [req EXCEPT ![r].pc = "set"])
  BY <1>1 DEF GotUsers
<1> QED BY <1>4, <1>5, <1>6

LEMMA NewLinks ==
    ASSUME NEW value \in AllLinks, NEW then \in {"done", "targets", "sync"},
           NEW e \in Environments \cup {Absent}, then # "done" => e \in Environments
    PROVE  /\ SetLinks(value, then, e) \in Ops
           /\ SetLinks(value, then, e).type = "links"
           /\ SetLinks(value, then, e).targets = value
           /\ SetLinks(value, then, e).then = then
           /\ SetLinks(value, then, e).env = e
  BY DEF SetLinks, Ops, LinkOps

\* What a pending set sees of a change of links leaves it the operation it was.
LEMMA SeenQueue ==
    ASSUME DatabaseTypes, NEW ls \in AllLinks, NEW gone \in SUBSET Environments
    PROVE  /\ Seen(ops, ls, gone) \in Seq(Ops)
           /\ Len(Seen(ops, ls, gone)) = Len(ops)
           /\ \A i \in 1..Len(ops) : Same(Seen(ops, ls, gone)[i], ops[i])
           /\ ops # <<>> /\ stage # "reading" => Seen(ops, ls, gone)[1] = ops[1]
<1> DEFINE T == Seen(ops, ls, gone)
           SeenOp(i) ==
             IF ops[i].type = "links" /\ (i > 1 \/ stage = "reading")
             THEN [ops[i] EXCEPT
                     !.targets = [s \in Environments |-> IF s \in ops[i].live \ gone THEN ls[s] ELSE @[s]],
                     !.live = {s \in @ \ gone : ls[s] # {}}]
             ELSE ops[i]
<1>1. ops \in Seq(Ops) /\ Len(ops) \in Nat /\ DOMAIN ops = 1..Len(ops)
      /\ \A i \in 1..Len(ops) : ops[i] \in Ops
  BY QueueTyped DEF DatabaseTypes
<1>2. ASSUME NEW i \in 1..Len(ops) PROVE SeenOp(i) \in Ops /\ Same(SeenOp(i), ops[i])
  <2>1. CASE ops[i].type # "links"
    BY <1>1, <2>1, OpsTyped
  <2>2. CASE ops[i].type = "links"
    <3>1. ops[i] \in LinkOps
      BY <1>1, <2>2, OpsTyped
    <3>2. SeenOp(i) \in LinkOps /\ SeenOp(i).type = "links" /\ SeenOp(i).then = ops[i].then
          /\ SeenOp(i).env = ops[i].env
      BY <2>2, <3>1 DEF LinkOps, AllLinks
    <3> QED BY <2>2, <3>2 DEF Same, Ops
  <2> QED BY <2>1, <2>2
<1>3. T = [i \in 1..Len(ops) |-> SeenOp(i)]
  BY <1>1 DEF Seen
<1>4. stage # "reading" => SeenOp(1) = ops[1]
  OBVIOUS
<1> HIDE DEF SeenOp, T
<1>5. T \in Seq(Ops) /\ Len(T) = Len(ops) /\ \A i \in 1..Len(ops) : T[i] = SeenOp(i)
  BY <1>2, <1>3, Replaced
<1>6. ops # <<>> => 1 \in 1..Len(ops)
  BY <1>1, QueueTyped
<1> QED BY <1>2, <1>4, <1>5, <1>6 DEF T

LEMMA LinksSavedQueue ==
    ASSUME DatabaseTypes, LinksSaved
    PROVE  /\ ops # <<>> /\ ops[1].type = "links" /\ ops[1] \in LinkOps
           /\ IF ops[1].then = "done" THEN PlainStep(1) /\ Len(ops') = Len(ops) - 1
              ELSE RelinkStep(1)
           /\ IF ops[1].then = "targets"
              THEN links' = [s \in Environments |-> links[s] \ {ops[1].env}]
              ELSE links' = links
           /\ stage' = "reading"
<1> DEFINE op == Head(ops)
           rest == LinksWithout(op.env)
           seen == Seen(ops, rest, {})
<1>1. ops # <<>> /\ op.type = "links" /\ op = ops[1] /\ op \in Ops /\ stage = "renamed"
  BY FirstOperation DEF LinksSaved, Performing
<1>2. /\ op \in LinkOps /\ op.then \in {"done", "targets", "sync"}
      /\ op.then # "done" => op.env \in Environments
  BY <1>1, OpsTyped
<1>3. ops \in Seq(Ops) /\ Len(ops) \in Nat /\ Len(ops) >= 1 /\ DOMAIN ops = 1..Len(ops)
      /\ \A i \in 1..Len(ops) : ops[i] \in Ops
  BY <1>1, QueueTyped DEF DatabaseTypes
<1>4. links \in AllLinks /\ rest \in AllLinks
  BY DEF DatabaseTypes, DatabaseTypeOK, AllLinks, LinksWithout
<1>5. CASE op.then = "done"
  <2>1. FinishedOperation(ops, <<>>) /\ links' = links
    BY <1>1, <1>5 DEF LinksSaved
  <2> QED BY <1>1, <1>2, <1>5, <2>1, FinishedQueue
<1>6. CASE op.then = "sync"
  <2> DEFINE x == SetLinks(links, "done", Absent)
  <2>1. FinishedOperation(ops, <<x>>) /\ links' = links
    BY <1>1, <1>6 DEF LinksSaved
  <2>2. x \in Ops /\ x.type = "links" /\ x.targets = links
    BY <1>2, <1>4, NewLinks
  <2> HIDE DEF x
  <2>3. /\ ops' \in Seq(Ops)
        /\ Len(ops') = Len(ops)
        /\ \A i \in 1..(Len(ops) - 1) : ops'[i] = ops[i + 1]
        /\ ops'[Len(ops')] = x
    <3>1. ops' = Tail(ops) \o <<x>>
      BY <2>1 DEF FinishedOperation
    <3>2. /\ (Tail(ops) \o <<x>>) \in Seq(Ops)
          /\ Len(Tail(ops) \o <<x>>) = Len(ops)
          /\ \A i \in 1..(Len(ops) - 1) : (Tail(ops) \o <<x>>)[i] = ops[i + 1]
          /\ (Tail(ops) \o <<x>>)[Len(ops)] = x
      BY <1>1, <1>3, <2>2, TailAnd
    <3> QED BY <3>1, <3>2
  <2>4. ASSUME NEW i \in 1..(Len(ops) - 1) PROVE Same(ops'[i], ops[i + 1])
    <3>1. i + 1 \in 1..Len(ops)
      BY <1>3
    <3> QED BY <1>3, <2>3, <3>1, OpsTyped
  <2>5. Len(ops) - 1 \in Nat /\ Len(ops') = Len(ops) - 1 + 1
    BY <1>3, <2>3
  <2>6. RelinkStep(1)
    BY <2>1, <2>2, <2>3, <2>4, <2>5 DEF RelinkStep, Survive
  <2> QED BY <1>1, <1>2, <1>6, <2>1, <2>6 DEF FinishedOperation
<1>7. CASE op.then = "targets"
  <2> DEFINE x == SetLinks(rest, "sync", op.env)
  <2>1. FinishedOperation(seen, <<x>>) /\ links' = rest
    BY <1>1, <1>7 DEF LinksSaved
  <2>2. x \in Ops /\ x.type = "links" /\ x.targets = rest
    BY <1>2, <1>4, <1>7, NewLinks
  <2>5. /\ seen \in Seq(Ops) /\ Len(seen) = Len(ops)
        /\ \A i \in 1..Len(ops) : Same(seen[i], ops[i])
    BY <1>4, SeenQueue
  <2>6. seen # <<>>
    BY <1>3, <2>5, QueueTyped, EmptySeq
  <2> HIDE DEF seen, x
  <2>7. /\ ops' \in Seq(Ops)
        /\ Len(ops') = Len(ops)
        /\ \A i \in 1..(Len(ops) - 1) : ops'[i] = seen[i + 1]
        /\ ops'[Len(ops')] = x
    BY <2>1, <2>2, <2>5, <2>6, TailAnd DEF FinishedOperation
  <2>8. ASSUME NEW i \in 1..(Len(ops) - 1) PROVE Same(ops'[i], ops[i + 1])
    <3>1. i + 1 \in 1..Len(ops)
      BY <1>3
    <3> QED BY <2>5, <2>7, <3>1
  <2>9. Len(ops) - 1 \in Nat /\ Len(ops') = Len(ops) - 1 + 1
    BY <1>3, <2>7
  <2>10. RelinkStep(1)
    BY <2>1, <2>2, <2>7, <2>8, <2>9 DEF RelinkStep, Survive
  <2> QED BY <1>1, <1>2, <1>7, <2>1, <2>10 DEF FinishedOperation, LinksWithout
<1> QED BY <1>2, <1>5, <1>6, <1>7

\* A set of links that is performed keeps what it has read.
LEMMA RelinkQueue ==
    ASSUME DatabaseTypes, NEW ls \in AllLinks, NEW gone \in SUBSET Environments,
           NEW then \in {"done", "targets", "sync"}, NEW e \in Environments \cup {Absent},
           then # "done" => e \in Environments, Relink(ls, gone, then, e)
    PROVE  /\ RelinkStep(0)
           /\ links' = ls
           /\ stage' = stage
           /\ ops'[Len(ops')].then = then
           /\ ops'[Len(ops')].env = e
           /\ stage # "reading" /\ ops # <<>> => ops'[1].targets = ops[1].targets
<1> DEFINE T == Seen(ops, ls, gone)
           x == SetLinks(ls, then, e)
<1>1. ops \in Seq(Ops) /\ Len(ops) \in Nat
  BY QueueTyped DEF DatabaseTypes
<1>2. links' = ls /\ ops' = Append(T, x) /\ stage' = stage
  BY DEF Relink
<1>3. x \in Ops /\ x.type = "links" /\ x.targets = ls /\ x.then = then /\ x.env = e
  BY NewLinks
<1>4. /\ T \in Seq(Ops) /\ Len(T) = Len(ops)
      /\ \A i \in 1..Len(ops) : Same(T[i], ops[i])
      /\ ops # <<>> /\ stage # "reading" => T[1] = ops[1]
  BY SeenQueue
<1> HIDE DEF x, T
<1>5. /\ ops' \in Seq(Ops)
      /\ Len(ops') = Len(ops) + 1
      /\ \A i \in 1..Len(ops) : ops'[i] = T[i]
      /\ ops'[Len(ops')] = x
  BY <1>2, <1>3, <1>4, AppendedAnd
<1>6. \A i \in 1..Len(ops) : Same(ops'[i], ops[i]) /\ i + 0 = i
  BY <1>1, <1>4, <1>5
<1>7. Len(ops) - 0 = Len(ops)
  BY <1>1
<1>8. RelinkStep(0)
  BY <1>1, <1>2, <1>3, <1>5, <1>6, <1>7 DEF RelinkStep, Survive
<1>9. ASSUME stage # "reading", ops # <<>> PROVE ops'[1].targets = ops[1].targets
  <2>1. 1 \in 1..Len(ops)
    BY <1>1, <1>9, QueueTyped
  <2> QED BY <1>4, <1>5, <1>9, <2>1
<1> QED BY <1>2, <1>3, <1>5, <1>8, <1>9

\* The links that a message leaves.
LEMMA LinkQueue ==
    ASSUME DatabaseTypes, NEW s \in Environments, NEW t \in Environments,
           Link(s, t) \/ Unlink(s, t)
    PROVE  /\ RelinkStep(0)
           /\ links' \in AllLinks
           /\ \/ links' = [links EXCEPT ![s] = @ \cup {t}] /\ lingering' = lingering \cup {s, t}
              \/ (\A e \in Environments : links'[e] \subseteq links[e]) /\ lingering' = lingering
           /\ UNCHANGED <<file, tmp, copy, stage, monitorVars, promised, overlapped, unsaved, envs>>
           /\ stage # "reading" /\ ops # <<>> => ops'[1].targets = ops[1].targets
<1>1. links \in AllLinks
  BY DEF DatabaseTypes, DatabaseTypeOK, AllLinks
<1>2. PICK ls \in AllLinks, gone \in SUBSET Environments :
         /\ Relink(ls, gone, "done", Absent)
         /\ envs' = envs
         /\ \/ ls = [links EXCEPT ![s] = @ \cup {t}] /\ lingering' = lingering \cup {s, t}
            \/ (\A e \in Environments : ls[e] \subseteq links[e]) /\ lingering' = lingering
  <2>1. CASE Link(s, t)
    <3>1. [links EXCEPT ![s] = @ \cup {t}] \in AllLinks
      BY <1>1 DEF AllLinks
    <3> QED BY <2>1, <3>1 DEF Link
  <2>2. CASE Unlink(s, t)
    <3>1. PICK ls \in {[links EXCEPT ![s] = @ \ {t}], [links EXCEPT ![s] = {}], LinksWithout(t)},
               gone \in SUBSET Environments : Relink(ls, gone, "done", Absent)
      BY <2>2 DEF Unlink
    <3>2. ls \in AllLinks /\ \A e \in Environments : ls[e] \subseteq links[e]
      BY <1>1 DEF AllLinks, LinksWithout
    <3>3. envs' = envs /\ lingering' = lingering
      BY <2>2 DEF Unlink
    <3> QED BY <3>1, <3>2, <3>3
  <2> QED BY <2>1, <2>2
<1>3. /\ RelinkStep(0) /\ links' = ls
      /\ stage # "reading" /\ ops # <<>> => ops'[1].targets = ops[1].targets
  BY <1>2, RelinkQueue
<1>4. UNCHANGED <<file, tmp, copy, stage, monitorVars, promised, overlapped, unsaved>>
  BY <1>2 DEF Relink
<1> QED BY <1>2, <1>3, <1>4

LEMMA RemoveQueue ==
    ASSUME DatabaseTypes, NEW e \in Environments, RemoveEnvironment(e)
    PROVE  /\ RelinkStep(0)
           /\ links' = [links EXCEPT ![e] = {}]
           /\ links' \in AllLinks
           /\ stage' = stage
           /\ ops'[Len(ops')].then = "targets"
           /\ ops'[Len(ops')].env = e
           /\ stage # "reading" /\ ops # <<>> => ops'[1].targets = ops[1].targets
<1>1. [links EXCEPT ![e] = {}] \in AllLinks
  BY DEF DatabaseTypes, DatabaseTypeOK, AllLinks
<1>2. Relink([links EXCEPT ![e] = {}], {e}, "targets", e)
  BY DEF RemoveEnvironment
<1>3. links' = [links EXCEPT ![e] = {}]
  BY <1>2 DEF Relink
<1> QED BY <1>1, <1>2, <1>3, RelinkQueue

----------------------------------------------------------------------------
(* Messages *)

MessagesTyped ==
    /\ req \in [Requests -> RequestStates]
    /\ \A r \in Waiting : req[r].name \in Users /\ req[r].from \in Monitors
    /\ base \in [Requests -> AllUsers]
    /\ pendingUsers \subseteq Users

Advanced(r, pc) ==
    /\ req' = [req EXCEPT ![r].pc = pc]
    /\ pc \in {"hash", "set"}

LEMMA OverStep ==
    ASSUME DatabaseTypes, NamesHeld, NEW r \in Waiting, Over(r)
    PROVE  /\ MessagesTyped'
           /\ \A w \in Requests : w # r => req'[w] = req[w] /\ base'[w] = base[w]
           /\ NamesHeld'
<1>1. r \in Requests /\ req \in [Requests -> RequestStates] /\ base \in [Requests -> AllUsers]
  BY DEF DatabaseTypes, DatabaseTypeOK, Waiting, AllUsers
<1>2. req' = [req EXCEPT ![r] = Answered] /\ base' = [base EXCEPT ![r] = NoUsers]
  BY DEF Over
<1>3. Answered \in RequestStates /\ Answered.pc = "answered" /\ NoUsers \in AllUsers
  BY DEF Answered, NoRequest, RequestStates, NoUsers, AllUsers
<1>4. req' \in [Requests -> RequestStates] /\ base' \in [Requests -> AllUsers]
  BY <1>1, <1>2, <1>3
<1>5. \A w \in Requests : w # r => req'[w] = req[w] /\ base'[w] = base[w]
  BY <1>1, <1>2
<1>6. Waiting' = Waiting \ {r}
  <2>1. req'[r].pc = "answered"
    BY <1>1, <1>2, <1>3
  <2> QED BY <1>1, <1>5, <2>1 DEF Waiting
<1>7. pendingUsers = {req[w].name : w \in {v \in Waiting : Exclusive(req[v].kind)}}
  BY DEF NamesHeld
<1>8. pendingUsers' = IF Exclusive(req[r].kind) THEN pendingUsers \ {req[r].name} ELSE pendingUsers
  BY DEF Over
<1>9. \A v, w \in Waiting :
         Exclusive(req[v].kind) /\ Exclusive(req[w].kind) /\ req[v].name = req[w].name => v = w
  BY DEF NamesHeld
<1>10. \A w \in Waiting' : w \in Waiting /\ w # r /\ req'[w] = req[w]
  BY <1>5, <1>6 DEF Waiting
<1>11. \A w \in Waiting : w # r => w \in Waiting' /\ req'[w] = req[w]
  BY <1>5, <1>6 DEF Waiting
<1>12. pendingUsers' = {req'[w].name : w \in {v \in Waiting' : Exclusive(req'[v].kind)}}
  <2>1. ASSUME NEW u \in pendingUsers'
        PROVE  \E w \in Waiting' : Exclusive(req'[w].kind) /\ u = req'[w].name
    <3>1. PICK w \in Waiting : Exclusive(req[w].kind) /\ u = req[w].name
      BY <1>7, <1>8, <2>1
    <3>2. w # r
      BY <1>8, <2>1, <3>1
    <3> QED BY <1>11, <3>1, <3>2
  <2>2. ASSUME NEW w \in Waiting', Exclusive(req'[w].kind)
        PROVE  req'[w].name \in pendingUsers'
    <3>1. w \in Waiting /\ w # r /\ req'[w] = req[w] /\ Exclusive(req[w].kind)
      BY <1>10, <2>2
    <3>2. req[w].name \in pendingUsers
      BY <1>7, <3>1
    <3>3. Exclusive(req[r].kind) => req[w].name # req[r].name
      BY <1>9, <3>1
    <3> QED BY <1>8, <3>1, <3>2, <3>3
  <2> QED BY <2>1, <2>2
<1>13. \A v, w \in Waiting' :
          Exclusive(req'[v].kind) /\ Exclusive(req'[w].kind) /\ req'[v].name = req'[w].name => v = w
  BY <1>9, <1>10
<1>14. (\A w \in Waiting : req[w].name \in Users /\ req[w].from \in Monitors) /\ pendingUsers \subseteq Users
  BY DEF DatabaseTypes
<1>15. MessagesTyped'
  <2>1. \A w \in Waiting' : req'[w].name \in Users /\ req'[w].from \in Monitors
    BY <1>10, <1>14
  <2>2. pendingUsers' \subseteq Users
    BY <1>8, <1>14
  <2> QED BY <1>4, <2>1, <2>2 DEF MessagesTyped
<1> QED BY <1>5, <1>12, <1>13, <1>15 DEF NamesHeld

LEMMA AdvanceStep ==
    ASSUME DatabaseTypes, NamesHeld, NEW r \in Waiting, NEW pc, Advanced(r, pc),
           base' \in [Requests -> AllUsers], pendingUsers' = pendingUsers
    PROVE  /\ MessagesTyped'
           /\ \A w \in Requests : w # r => req'[w] = req[w]
           /\ req'[r].pc = pc /\ req'[r].kind = req[r].kind /\ req'[r].name = req[r].name
           /\ NamesHeld'
<1>1. r \in Requests /\ req \in [Requests -> RequestStates] /\ req[r] \in RequestStates
  BY DEF DatabaseTypes, Waiting
<1>2. req' = [req EXCEPT ![r].pc = pc] /\ pc \in {"hash", "set"}
  BY DEF Advanced
<1>3. \A w \in Requests : w # r => req'[w] = req[w]
  BY <1>1, <1>2
<1>4. req'[r] = [req[r] EXCEPT !.pc = pc]
  BY <1>1, <1>2
<1>5. /\ req'[r] \in RequestStates /\ req'[r].pc = pc
      /\ req'[r].kind = req[r].kind /\ req'[r].name = req[r].name /\ req'[r].from = req[r].from
  BY <1>1, <1>2, <1>4 DEF RequestStates
<1>6. req' \in [Requests -> RequestStates]
  BY <1>1, <1>2, <1>3, <1>5
<1>7. Waiting' = Waiting
  BY <1>1, <1>2, <1>3, <1>5 DEF Waiting
<1>8. \A w \in Waiting : /\ req'[w].kind = req[w].kind /\ req'[w].name = req[w].name
                         /\ req'[w].from = req[w].from
  BY <1>3, <1>5 DEF Waiting
<1>9. pendingUsers = {req[w].name : w \in {v \in Waiting : Exclusive(req[v].kind)}}
  BY DEF NamesHeld
<1>10. pendingUsers' = {req'[w].name : w \in {v \in Waiting' : Exclusive(req'[v].kind)}}
  BY <1>7, <1>8, <1>9
<1>11. \A v, w \in Waiting' :
          Exclusive(req'[v].kind) /\ Exclusive(req'[w].kind) /\ req'[v].name = req'[w].name => v = w
  BY <1>7, <1>8 DEF NamesHeld
<1>12. MessagesTyped'
  BY <1>6, <1>7, <1>8 DEF MessagesTyped, DatabaseTypes
<1> QED BY <1>3, <1>5, <1>10, <1>11, <1>12 DEF NamesHeld

LEMMA MessageStep ==
    ASSUME DatabaseTypes, NamesHeld, NEW r \in Requests, NEW m \in Monitors,
           NEW kind \in {"add", "remove", "login"}, NEW u \in Users, MonitorMessage(r, m, kind, u)
    PROVE  /\ MessagesTyped'
           /\ \A w \in Requests : w # r => req'[w] = req[w]
           /\ req[r].pc = "unsent"
           /\ \/ ops' = ops
              \/ ops' = Append(ops, GetUsers(r)) /\ req'[r].pc = "get"
           /\ NamesHeld'
<1>1. req \in [Requests -> RequestStates] /\ base \in [Requests -> AllUsers]
  BY DEF DatabaseTypes, DatabaseTypeOK, AllUsers
<1>2. req[r].pc = "unsent" /\ r \notin Waiting /\ base' = base
  BY DEF MonitorMessage, Waiting
<1>3. pendingUsers = {req[w].name : w \in {v \in Waiting : Exclusive(req[v].kind)}} /\ pendingUsers \subseteq Users
  BY DEF NamesHeld, DatabaseTypes
<1>4. CASE Exclusive(kind) /\ u \in pendingUsers
  <2>1. req' = [req EXCEPT ![r] = Answered] /\ ops' = ops /\ pendingUsers' = pendingUsers
    BY <1>4 DEF MonitorMessage
  <2>2. Answered \in RequestStates /\ Answered.pc = "answered"
    BY DEF Answered, NoRequest, RequestStates
  <2>3. req' \in [Requests -> RequestStates] /\ \A w \in Requests : w # r => req'[w] = req[w]
    BY <1>1, <2>1, <2>2
  <2>4. req'[r].pc = "answered"
    BY <1>1, <2>1, <2>2
  <2>5. Waiting' = Waiting /\ \A w \in Waiting : req'[w] = req[w]
    BY <1>2, <2>3, <2>4 DEF Waiting
  <2>6. MessagesTyped'
    BY <1>1, <1>2, <2>1, <2>3, <2>5 DEF MessagesTyped, DatabaseTypes
  <2> QED BY <1>2, <1>3, <2>1, <2>3, <2>5, <2>6 DEF NamesHeld
<1>5. CASE ~(Exclusive(kind) /\ u \in pendingUsers)
  <2> DEFINE new == [pc |-> "get", kind |-> kind, name |-> u, from |-> m]
  <2>1. /\ req' = [req EXCEPT ![r] = new] /\ ops' = Append(ops, GetUsers(r))
        /\ pendingUsers' = IF Exclusive(kind) THEN pendingUsers \cup {u} ELSE pendingUsers
    BY <1>5 DEF MonitorMessage
  <2>2. /\ new \in RequestStates /\ new.pc = "get" /\ new.kind = kind /\ new.name = u /\ new.from = m
    BY DEF RequestStates
  <2> HIDE DEF new
  <2>3. req' \in [Requests -> RequestStates] /\ \A w \in Requests : w # r => req'[w] = req[w]
    BY <1>1, <2>1, <2>2
  <2>4. req'[r] = new
    BY <1>1, <2>1
  <2>5. Waiting' = Waiting \cup {r} /\ \A w \in Waiting : w # r /\ req'[w] = req[w]
    BY <1>2, <2>2, <2>3, <2>4 DEF Waiting
  <2>6. MessagesTyped'
    <3>1. \A w \in Waiting' : req'[w].name \in Users /\ req'[w].from \in Monitors
      BY <2>2, <2>4, <2>5 DEF DatabaseTypes
    <3>2. pendingUsers' \subseteq Users
      BY <1>3, <2>1
    <3> QED BY <1>1, <1>2, <2>3, <3>1, <3>2 DEF MessagesTyped
  <2>7. pendingUsers' = {req'[w].name : w \in {v \in Waiting' : Exclusive(req'[v].kind)}}
    <3>1. CASE Exclusive(kind)
      BY <1>3, <2>1, <2>2, <2>4, <2>5, <3>1
    <3>2. CASE ~Exclusive(kind)
      BY <1>3, <2>1, <2>2, <2>4, <2>5, <3>2
    <3> QED BY <3>1, <3>2
  <2>8. \A v, w \in Waiting' :
           Exclusive(req'[v].kind) /\ Exclusive(req'[w].kind) /\ req'[v].name = req'[w].name => v = w
    <3>1. ASSUME NEW w \in Waiting, Exclusive(kind), Exclusive(req[w].kind) PROVE req[w].name # u
      BY <1>3, <1>5, <3>1
    <3> QED BY <2>2, <2>4, <2>5, <3>1 DEF NamesHeld
  <2> QED BY <1>2, <2>1, <2>2, <2>3, <2>4, <2>6, <2>7, <2>8 DEF NamesHeld
<1> QED BY <1>4, <1>5

LEMMA WaitingHeads ==
    ASSUME DatabaseTypes, OpsAwaited, ops # <<>>, ops[1].type # "links"
    PROVE  ops[1].by \in Waiting
<1>1. ops[1] \in Ops /\ 1 \in 1..Len(ops)
  BY FirstOperation
<1>2. ops[1].by \in Requests /\ ops[1].type \in {"get", "users"}
  BY <1>1, OpsTyped
<1> QED BY <1>1, <1>2 DEF OpsAwaited, Waiting

LEMMA GotUsersStep ==
    ASSUME DatabaseTypes, OpsAwaited, NamesHeld, GotUsers
    PROVE  /\ MessagesTyped' /\ NamesHeld'
           /\ \A w \in Requests : w # ops[1].by => req'[w] = req[w]
<1> DEFINE r == ops[1].by
<1>1. ops # <<>> /\ ops[1].type = "get" /\ Head(ops) = ops[1] /\ file # Corrupt
  BY FirstOperation DEF GotUsers, Performing
<1>2. r \in Waiting
  BY <1>1, WaitingHeads
<1>3. CASE Over(r)
  BY <1>2, <1>3, OverStep DEF Waiting
<1>4. CASE /\ base' = [base EXCEPT ![r] = file.users]
           /\ req' = [req EXCEPT ![r].pc = IF req[r].kind = "remove" THEN "set" ELSE "hash"]
           /\ pendingUsers' = pendingUsers
  <2>1. file.users \in AllUsers
    BY <1>1 DEF DatabaseTypes, DatabaseTypeOK, Records, AllUsers
  <2>2. base \in [Requests -> AllUsers]
    BY DEF DatabaseTypes, DatabaseTypeOK, AllUsers
  <2>3. base' \in [Requests -> AllUsers]
    BY <1>4, <2>1, <2>2
  <2>4. PICK pc \in {"hash", "set"} : req' = [req EXCEPT ![r].pc = pc]
    BY <1>4
  <2>5. Advanced(r, pc)
    BY <2>4 DEF Advanced
  <2> QED BY <1>2, <1>4, <2>3, <2>5, AdvanceStep
<1>5. Over(r) \/ /\ base' = [base EXCEPT ![r] = file.users]
                 /\ req' = [req EXCEPT ![r].pc = IF req[r].kind = "remove" THEN "set" ELSE "hash"]
                 /\ pendingUsers' = pendingUsers
  BY <1>1 DEF GotUsers
<1> QED BY <1>3, <1>4, <1>5

LEMMA HashedStep ==
    ASSUME DatabaseTypes, NamesHeld, NEW r \in Requests, NEW right \in BOOLEAN, Hashed(r, right)
    PROVE  /\ MessagesTyped' /\ NamesHeld'
           /\ \A w \in Requests : w # r => req'[w] = req[w] /\ base'[w] = base[w]
           /\ req[r].pc = "hash"
           /\ \/ ops' = ops
              \/ ops' = Append(ops, SetUsers(r)) /\ req'[r].pc = "set"
           /\ user' \in [Monitors -> Users \cup {Absent}]
<1>1. r \in Waiting /\ req[r].pc = "hash"
  BY DEF Hashed, Waiting
<1>2. CASE ~right
  BY <1>1, <1>2, OverStep DEF Hashed, DatabaseTypes, DatabaseTypeOK, Waiting
<1>3. CASE right
  <2>1. /\ req' = [req EXCEPT ![r].pc = "set"] /\ ops' = Append(ops, SetUsers(r))
        /\ pendingUsers' = pendingUsers /\ base' = base
        /\ user' = [user EXCEPT ![req[r].from] = IF req[r].kind = "login" THEN req[r].name ELSE @]
    BY <1>3 DEF Hashed
  <2>2. base' \in [Requests -> AllUsers]
    BY <2>1 DEF DatabaseTypes, DatabaseTypeOK, AllUsers
  <2>3. Advanced(r, "set")
    BY <2>1 DEF Advanced
  <2>4. /\ MessagesTyped' /\ NamesHeld' /\ req'[r].pc = "set"
        /\ \A w \in Requests : w # r => req'[w] = req[w]
    BY <1>1, <2>1, <2>2, <2>3, AdvanceStep
  <2>5. req[r].name \in Users
    BY <1>1 DEF DatabaseTypes
  <2>6. user' \in [Monitors -> Users \cup {Absent}]
    BY <2>1, <2>5 DEF DatabaseTypes, DatabaseTypeOK
  <2> QED BY <1>1, <2>1, <2>4, <2>6
<1> QED BY <1>2, <1>3

LEMMA NothingHeard ==
    ASSUME DatabaseTypes, NamesHeld, UNCHANGED <<req, base, pendingUsers>>
    PROVE  MessagesTyped' /\ NamesHeld'
<1>1. MessagesTyped
  BY DEF MessagesTyped, DatabaseTypes, DatabaseTypeOK, AllUsers
<1> QED BY <1>1 DEF MessagesTyped, NamesHeld, Waiting

LEMMA CrashStep ==
    ASSUME DatabaseTypes, Crash
    PROVE  MessagesTyped' /\ NamesHeld'
<1>1. req' = [r \in Requests |-> IF req[r].pc = "unsent" THEN req[r] ELSE Answered]
      /\ base' = [r \in Requests |-> NoUsers] /\ pendingUsers' = {}
  BY DEF Crash
<1>2. Answered \in RequestStates /\ Answered.pc = "answered" /\ NoUsers \in AllUsers
  BY DEF Answered, NoRequest, RequestStates, NoUsers, AllUsers
<1>3. req \in [Requests -> RequestStates]
  BY DEF DatabaseTypes
<1>4. req' \in [Requests -> RequestStates] /\ base' \in [Requests -> AllUsers]
  BY <1>1, <1>2, <1>3
<1>5. Waiting' = {}
  BY <1>1, <1>2 DEF Waiting
<1> QED BY <1>1, <1>4, <1>5 DEF MessagesTyped, NamesHeld

LEMMA RejectedStep ==
    ASSUME DatabaseTypes, OpsAwaited, NamesHeld, ops # <<>>, Rejected(Head(ops))
    PROVE  /\ MessagesTyped' /\ NamesHeld'
           /\ \A w \in Requests : (ops[1].type = "links" \/ w # ops[1].by) => req'[w] = req[w] /\ base'[w] = base[w]
<1>1. Head(ops) = ops[1]
  BY FirstOperation
<1>2. CASE ops[1].type = "links"
  BY <1>1, <1>2, NothingHeard DEF Rejected
<1>3. CASE ops[1].type # "links"
  <2>1. ops[1].by \in Waiting
    BY <1>3, WaitingHeads
  <2> QED BY <1>1, <1>3, <2>1, OverStep DEF Rejected
<1> QED BY <1>2, <1>3

LEMMA SavedStep ==
    ASSUME DatabaseTypes, OpsAwaited, NamesHeld, Saved
    PROVE  /\ ops # <<>> /\ ops[1].type = "users" /\ stage = "renamed" /\ ops[1].by \in Waiting
           /\ PlainStep(1) /\ Len(ops') = Len(ops) - 1 /\ stage' = "reading"
           /\ MessagesTyped' /\ NamesHeld'
           /\ \A w \in Requests : w # ops[1].by => req'[w] = req[w] /\ base'[w] = base[w]
           /\ promised' = [promised EXCEPT ![req[ops[1].by].name] = Entry(ops[1].by)]
<1>1. ops # <<>> /\ ops[1].type = "users" /\ stage = "renamed" /\ Head(ops) = ops[1]
  BY FirstOperation DEF Saved, Performing
<1>2. ops[1].by \in Waiting
  BY <1>1, WaitingHeads
<1>3. Over(ops[1].by) /\ promised' = [promised EXCEPT ![req[ops[1].by].name] = Entry(ops[1].by)]
      /\ FinishedOperation(ops, <<>>) /\ links' = links
  BY <1>1 DEF Saved, linkVars
<1>4. PlainStep(1) /\ Len(ops') = Len(ops) - 1 /\ stage' = "reading"
  BY <1>1, <1>3, FinishedQueue
<1> QED BY <1>1, <1>2, <1>3, <1>4, OverStep

LEMMA RejectedQueue ==
    ASSUME DatabaseTypes, ops # <<>>, Rejected(Head(ops)), links' = links
    PROVE  /\ PlainStep(1) /\ Len(ops') = Len(ops) - 1 /\ stage' = "reading"
           /\ ops[1].type = "links" => /\ unsaved' = TRUE
                                       /\ ops[1].then = "targets" => ops[1].env \in lingering'
           /\ lingering \subseteq lingering' /\ lingering' \subseteq Environments
           /\ unsaved' \in BOOLEAN /\ (unsaved => unsaved')
<1>1. Head(ops) = ops[1] /\ ops[1] \in Ops /\ FinishedOperation(ops, <<>>)
  BY FirstOperation DEF Rejected
<1>2. PlainStep(1) /\ Len(ops') = Len(ops) - 1 /\ stage' = "reading"
  BY <1>1, FinishedQueue
<1>3. CASE ops[1].type = "links"
  <2>1. ops[1].then = "targets" => ops[1].env \in Environments
    BY <1>1, <1>3, OpsTyped
  <2>2. /\ unsaved' = TRUE
        /\ lingering' = IF ops[1].then = "targets" THEN lingering \cup {ops[1].env} ELSE lingering
    BY <1>1, <1>3 DEF Rejected
  <2> QED BY <1>2, <2>1, <2>2 DEF DatabaseTypes
<1>4. CASE ops[1].type # "links"
  <2>1. unsaved' = unsaved /\ lingering' = lingering
    BY <1>1, <1>4 DEF Rejected
  <2> QED BY <1>2, <1>4, <2>1 DEF DatabaseTypes
<1> QED BY <1>3, <1>4

LEMMA MessagesKept ==
    ASSUME DatabaseTypes, OpsAwaited, NamesHeld, [DatabaseNext]_databaseVars
    PROVE  MessagesTyped' /\ NamesHeld'
<1>1. CASE SetReads \/ Written \/ Renamed \/ LinksSaved \/ Damage \/ UNCHANGED databaseVars
  BY <1>1, NothingHeard
     DEF SetReads, Written, Renamed, LinksSaved, Damage, monitorVars, databaseVars
<1>2. CASE GotUsers
  BY <1>2, GotUsersStep
<1>3. CASE Saved
  BY <1>3, SavedStep
<1>4. CASE Quarantine \/ FileFails
  BY <1>4, RejectedStep DEF Quarantine, FileFails
<1>5. ASSUME NEW r \in Requests, NEW m \in Monitors, NEW kind \in {"add", "remove", "login"},
             NEW u \in Users, MonitorMessage(r, m, kind, u)
      PROVE  MessagesTyped' /\ NamesHeld'
  BY <1>5, MessageStep
<1>6. ASSUME NEW r \in Requests, NEW right \in BOOLEAN, Hashed(r, right)
      PROVE  MessagesTyped' /\ NamesHeld'
  BY <1>6, HashedStep
<1>7. ASSUME NEW s \in Environments, NEW t \in Environments, Link(s, t) \/ Unlink(s, t)
      PROVE  MessagesTyped' /\ NamesHeld'
  BY <1>7, NothingHeard, LinkQueue DEF monitorVars
<1>8. ASSUME NEW e \in Environments, RemoveEnvironment(e) PROVE MessagesTyped' /\ NamesHeld'
  BY <1>8, NothingHeard DEF RemoveEnvironment, Relink, monitorVars
<1>9. CASE Crash
  BY <1>9, CrashStep
<1> QED BY <1>1, <1>2, <1>3, <1>4, <1>5, <1>6, <1>7, <1>8, <1>9 DEF DatabaseNext, Going

----------------------------------------------------------------------------
(* Types *)

LEMMA Entries ==
    ASSUME DatabaseTypes, NEW r \in Requests
    PROVE  Entry(r) \in Requests \cup {0, Absent}
  BY DEF Entry

LEMMA ReadRecords ==
    ASSUME DatabaseTypes, ops # <<>>, ops[1].type \in {"users", "links"}, file # Corrupt
    PROVE  Contents(ops[1]) \in Records
<1>1. file \in Records /\ base \in [Requests -> AllUsers] /\ ops[1] \in Ops
  BY FirstOperation DEF DatabaseTypes, DatabaseTypeOK, AllUsers
<1>2. CASE ops[1].type = "users"
  <2> DEFINE r == ops[1].by
             users == [base[r] EXCEPT ![req[r].name] = Entry(r)]
  <2>1. r \in Requests
    BY <1>1, <1>2, OpsTyped
  <2>2. users \in AllUsers
    BY <1>1, <2>1, Entries DEF AllUsers
  <2> HIDE DEF users
  <2>3. [file EXCEPT !.users = users] \in Records
    BY <1>1, <2>2 DEF Records, AllUsers
  <2>4. Contents(ops[1]) = [file EXCEPT !.users = users]
    BY <1>2 DEF Contents, users
  <2> QED BY <2>3, <2>4
<1>3. CASE ops[1].type = "links"
  <2>1. ops[1].targets \in AllLinks
    BY <1>1, <1>3, OpsTyped
  <2>2. Contents(ops[1]) = [file EXCEPT !.links = ops[1].targets]
    BY <1>3 DEF Contents
  <2> QED BY <1>1, <2>1, <2>2 DEF Records, AllLinks
<1> QED BY <1>2, <1>3

LEMMA EmptyFile == Empty \in Records /\ Empty # Corrupt
  BY DatabaseAssumption DEF Empty, NoUsers, NoLinks, Records

DiskTyped ==
    /\ file \in Records \cup {Corrupt}
    /\ tmp \in {"none", "partial", "whole"}
    /\ copy \in Records
    /\ stage \in {"reading", "writing", "renaming", "renamed"}

MemoryTyped ==
    /\ links \in AllLinks
    /\ envs \subseteq Environments
    /\ user \in [Monitors -> Users \cup {Absent}]
    /\ promised \in AllUsers
    /\ lingering \subseteq Environments
    /\ overlapped \in BOOLEAN
    /\ unsaved \in BOOLEAN

LEMMA TypesSplit == DatabaseTypes => DiskTyped /\ MemoryTyped /\ MessagesTyped
  BY DEF DatabaseTypes, DatabaseTypeOK, DiskTyped, MemoryTyped, MessagesTyped, AllLinks, AllUsers

LEMMA TypesMerge ==
    ASSUME DiskTyped', MemoryTyped', MessagesTyped', ops' \in Seq(Ops)
    PROVE  DatabaseTypes'
<1>1. \A r \in Requests : req'[r].pc \in {"unsent", "get", "hash", "set", "answered"}
  BY DEF MessagesTyped, RequestStates
<1> QED BY <1>1 DEF DatabaseTypes, DatabaseTypeOK, DiskTyped, MemoryTyped, MessagesTyped, AllLinks, AllUsers

LEMMA QueueKept ==
    ASSUME DatabaseTypes, [DatabaseNext]_databaseVars
    PROVE  ops' \in Seq(Ops)
<1>1. CASE ops' = ops /\ links' = links
  BY <1>1 DEF DatabaseTypes
<1>2. CASE SetReads \/ Written \/ Renamed \/ Damage \/ UNCHANGED databaseVars
  BY <1>1, <1>2 DEF SetReads, Written, Renamed, Damage, databaseVars, dbVars, linkVars
<1>3. CASE GotUsers
  BY <1>3, GotUsersQueue DEF PlainStep, Survive
<1>4. CASE Saved
  <2>1. ops # <<>> /\ FinishedOperation(ops, <<>>) /\ links' = links
    BY <1>4 DEF Saved, Performing, linkVars
  <2> QED BY <2>1, FinishedQueue DEF PlainStep, Survive
<1>5. CASE LinksSaved
  BY <1>5, LinksSavedQueue DEF PlainStep, RelinkStep, Survive
<1>6. CASE Quarantine \/ FileFails
  BY <1>6, RejectedQueue DEF Quarantine, FileFails, PlainStep, Survive, linkVars
<1>7. ASSUME NEW r \in Requests, NEW m \in Monitors, NEW kind \in {"add", "remove", "login"},
             NEW u \in Users, MonitorMessage(r, m, kind, u)
      PROVE  ops' \in Seq(Ops)
  <2>1. links' = links /\ (ops' = ops \/ ops' = Append(ops, GetUsers(r)))
    BY <1>7 DEF MonitorMessage, linkVars
  <2>2. GetUsers(r) \in UserOps
    BY DEF GetUsers, UserOps
  <2> QED BY <1>1, <2>1, <2>2, AppendedQueue DEF PlainStep, Survive
<1>8. ASSUME NEW r \in Requests, NEW right \in BOOLEAN, Hashed(r, right)
      PROVE  ops' \in Seq(Ops)
  <2>1. links' = links /\ (ops' = ops \/ ops' = Append(ops, SetUsers(r)))
    BY <1>8 DEF Hashed, linkVars
  <2>2. SetUsers(r) \in UserOps
    BY DEF SetUsers, UserOps
  <2> QED BY <1>1, <2>1, <2>2, AppendedQueue DEF PlainStep, Survive
<1>9. ASSUME NEW s \in Environments, NEW t \in Environments, Link(s, t) \/ Unlink(s, t)
      PROVE  ops' \in Seq(Ops)
  BY <1>9, LinkQueue DEF RelinkStep, Survive
<1>10. ASSUME NEW e \in Environments, RemoveEnvironment(e) PROVE ops' \in Seq(Ops)
  BY <1>10, RemoveQueue DEF RelinkStep, Survive
<1>11. CASE Crash
  BY <1>11 DEF Crash
<1> QED BY <1>2, <1>3, <1>4, <1>5, <1>6, <1>7, <1>8, <1>9, <1>10, <1>11 DEF DatabaseNext, Going

LEMMA DiskKept ==
    ASSUME DatabaseTypes, OpsAwaited, [DatabaseNext]_databaseVars
    PROVE  DiskTyped'
<1>1. DiskTyped
  BY TypesSplit
<1>2. CASE SetReads
  <2>1. ops # <<>> /\ ops[1].type \in {"users", "links"} /\ Head(ops) = ops[1]
    BY <1>2, FirstOperation DEF SetReads, Performing
  <2>2. Contents(ops[1]) \in Records
    BY <1>2, <2>1, ReadRecords DEF SetReads
  <2> QED BY <1>1, <1>2, <2>1, <2>2 DEF SetReads, DiskTyped
<1>3. CASE Written
  BY <1>1, <1>3 DEF Written, DiskTyped
<1>4. CASE Renamed
  BY <1>1, <1>4 DEF Renamed, DiskTyped
<1>5. CASE FinishedOperation(ops, <<>>) /\ file' \in {file, Empty} /\ tmp' = tmp
  BY <1>1, <1>5, EmptyFile DEF FinishedOperation, DiskTyped
<1>6. CASE Saved
  BY <1>5, <1>6 DEF Saved
<1>7. CASE Quarantine \/ FileFails
  BY <1>5, <1>7 DEF Quarantine, FileFails, Rejected
<1>8. ASSUME NEW q, NEW more, FinishedOperation(q, more), file' = file, tmp' = tmp
      PROVE  DiskTyped'
  BY <1>1, <1>8, EmptyFile DEF FinishedOperation, DiskTyped
<1>9. CASE GotUsers
  <2>1. \E more : FinishedOperation(ops, more)
    BY <1>9 DEF GotUsers
  <2> QED BY <1>8, <1>9, <2>1 DEF GotUsers
<1>10. CASE LinksSaved
  <2>1. \E q, more : FinishedOperation(q, more)
    <3>1. ops # <<>> /\ ops[1].type = "links" /\ ops[1] \in LinkOps /\ Head(ops) = ops[1]
      BY <1>10, LinksSavedQueue, FirstOperation
    <3>2. Head(ops).then \in {"done", "targets", "sync"}
      BY <3>1 DEF LinkOps
    <3> QED BY <1>10, <3>2 DEF LinksSaved
  <2> QED BY <1>8, <1>10, <2>1 DEF LinksSaved
<1>11. CASE UNCHANGED <<file, tmp, copy, stage>>
  BY <1>1, <1>11 DEF DiskTyped
<1>12. CASE UNCHANGED databaseVars
  BY <1>11, <1>12 DEF databaseVars, dbVars
<1>13. ASSUME NEW r \in Requests, NEW m \in Monitors, NEW kind \in {"add", "remove", "login"},
             NEW u \in Users, MonitorMessage(r, m, kind, u)
       PROVE  DiskTyped'
  BY <1>11, <1>13 DEF MonitorMessage
<1>14. ASSUME NEW r \in Requests, NEW right \in BOOLEAN, Hashed(r, right)
       PROVE  DiskTyped'
  BY <1>11, <1>14 DEF Hashed
<1>15. ASSUME NEW s \in Environments, NEW t \in Environments, Link(s, t) \/ Unlink(s, t)
       PROVE  DiskTyped'
  BY <1>11, <1>15, LinkQueue
<1>16. ASSUME NEW e \in Environments, RemoveEnvironment(e) PROVE DiskTyped'
  BY <1>11, <1>16 DEF RemoveEnvironment, Relink
<1>17. CASE Damage
  BY <1>1, <1>17 DEF Damage, DiskTyped
<1>18. CASE Crash
  BY <1>1, <1>18, EmptyFile DEF Crash, DiskTyped
<1> QED BY <1>2, <1>3, <1>4, <1>6, <1>7, <1>9, <1>10, <1>12, <1>13, <1>14, <1>15, <1>16, <1>17, <1>18
        DEF DatabaseNext, Going

LEMMA MemoryKept ==
    ASSUME DatabaseTypes, OpsAwaited, NamesHeld, [DatabaseNext]_databaseVars
    PROVE  MemoryTyped'
<1>1. MemoryTyped
  BY TypesSplit
<1>2. CASE UNCHANGED <<linkVars, user, promised, lingering>> /\ overlapped' \in BOOLEAN /\ unsaved' \in BOOLEAN
  BY <1>1, <1>2 DEF MemoryTyped, linkVars
<1>3. overlapped \in BOOLEAN /\ unsaved \in BOOLEAN
  BY <1>1 DEF MemoryTyped
<1>4. CASE SetReads \/ Written \/ UNCHANGED databaseVars
  BY <1>2, <1>3, <1>4 DEF SetReads, Written, databaseVars, history, monitorVars
<1>5. CASE Renamed
  BY <1>2, <1>3, <1>5 DEF Renamed, monitorVars
<1>6. CASE GotUsers
  BY <1>2, <1>3, <1>6 DEF GotUsers, history
<1>7. CASE Saved
  <2>1. ops[1].by \in Requests /\ promised' = [promised EXCEPT ![req[ops[1].by].name] = Entry(ops[1].by)]
    BY <1>7, SavedStep DEF Waiting
  <2>2. promised' \in AllUsers
    BY <1>1, <2>1, Entries DEF MemoryTyped, AllUsers
  <2> QED BY <1>1, <1>7, <2>2 DEF Saved, MemoryTyped, linkVars
<1>8. CASE LinksSaved
  <2>1. links' \in AllLinks
    BY <1>1, <1>8, LinksSavedQueue DEF MemoryTyped, AllLinks
  <2> QED BY <1>1, <1>8, <2>1 DEF LinksSaved, MemoryTyped, monitorVars, history
<1>9. CASE Quarantine \/ FileFails
  <2>1. ops # <<>> /\ Rejected(Head(ops)) /\ links' = links /\ UNCHANGED <<linkVars, user, promised, overlapped>>
    BY <1>9 DEF Quarantine, FileFails, linkVars
  <2>2. unsaved' \in BOOLEAN /\ lingering' \subseteq Environments
    BY <2>1, RejectedQueue
  <2> QED BY <1>1, <2>1, <2>2 DEF MemoryTyped, linkVars
<1>10. ASSUME NEW r \in Requests, NEW m \in Monitors, NEW kind \in {"add", "remove", "login"},
             NEW u \in Users, MonitorMessage(r, m, kind, u)
       PROVE  MemoryTyped'
  <2>1. user' \in [Monitors -> Users \cup {Absent}]
    BY <1>1, <1>10 DEF MonitorMessage, MemoryTyped
  <2> QED BY <1>1, <1>10, <2>1 DEF MonitorMessage, MemoryTyped, linkVars, history
<1>11. ASSUME NEW r \in Requests, NEW right \in BOOLEAN, Hashed(r, right)
       PROVE  MemoryTyped'
  <2>1. user' \in [Monitors -> Users \cup {Absent}]
    BY <1>11, HashedStep
  <2> QED BY <1>1, <1>11, <2>1 DEF Hashed, MemoryTyped, linkVars, history
<1>12. ASSUME NEW s \in Environments, NEW t \in Environments, Link(s, t) \/ Unlink(s, t)
       PROVE  MemoryTyped'
  <2>1. links' \in AllLinks /\ lingering' \subseteq Environments
    BY <1>1, <1>12, LinkQueue DEF MemoryTyped
  <2>2. UNCHANGED <<file, tmp, copy, stage, monitorVars, promised, overlapped, unsaved, envs>>
    BY <1>12, LinkQueue
  <2> QED BY <1>1, <2>1, <2>2 DEF MemoryTyped, monitorVars
<1>13. ASSUME NEW e \in Environments, RemoveEnvironment(e) PROVE MemoryTyped'
  BY <1>1, <1>13, RemoveQueue DEF RemoveEnvironment, Relink, MemoryTyped, monitorVars
<1>14. CASE Damage
  BY <1>1, <1>14 DEF Damage, MemoryTyped, linkVars, monitorVars
<1>15. CASE Crash
  <2>1. file' \in Records
    BY <1>15, EmptyFile DEF Crash, DatabaseTypes, DatabaseTypeOK
  <2>2. links' \in AllLinks
    BY <1>15, <2>1 DEF Crash, Records, AllLinks
  <2>3. promised' \in AllUsers
    <3>1. CASE ~(Performing("users") /\ stage = "renamed")
      BY <1>1, <1>15, <3>1 DEF Crash, MemoryTyped
    <3>2. CASE Performing("users") /\ stage = "renamed"
      <4>1. ops # <<>> /\ ops[1].type = "users" /\ Head(ops) = ops[1]
        BY <3>2, FirstOperation DEF Performing
      <4>2. ops[1].by \in Requests
        BY <4>1, WaitingHeads DEF Waiting
      <4>3. promised' = [promised EXCEPT ![req[ops[1].by].name] = Entry(ops[1].by)]
        BY <1>15, <3>2, <4>1 DEF Crash
      <4> QED BY <1>1, <4>2, <4>3, Entries DEF MemoryTyped, AllUsers
    <3> QED BY <3>1, <3>2
  <2> QED BY <1>1, <1>15, <2>2, <2>3 DEF Crash, MemoryTyped
<1> QED BY <1>4, <1>5, <1>6, <1>7, <1>8, <1>9, <1>10, <1>11, <1>12, <1>13, <1>14, <1>15
        DEF DatabaseNext, Going

LEMMA TypesKept ==
    ASSUME DatabaseTypes, OpsAwaited, NamesHeld, [DatabaseNext]_databaseVars
    PROVE  DatabaseTypes'
  BY QueueKept, DiskKept, MemoryKept, MessagesKept, TypesMerge

----------------------------------------------------------------------------
(* Operations and the messages that wait for them *)

\* A new operation of a message, which has no other.
NewFor(k) ==
    LET x == ops'[Len(ops')]
    IN  /\ x.type = "get" => req'[x.by].pc = "get"
        /\ x.type = "users" => req'[x.by].pc = "set"
        /\ x.type # "links" =>
              \A i \in 1..(Len(ops) - k) : ops[i + k].type # "links" => ops[i + k].by # x.by

LEMMA AwaitedStep ==
    ASSUME DatabaseTypes, OpsAwaited, NEW k \in {0, 1}, Survive(k),
           \A i \in 1..(Len(ops) - k) :
              ops[i + k].type # "links" => req'[ops[i + k].by].pc = req[ops[i + k].by].pc,
           Len(ops') = Len(ops) - k + 1 => NewFor(k)
    PROVE  OpsAwaited'
<1>1. PICK n \in Nat : n = Len(ops) - k
  BY DEF Survive
<1>2. /\ Len(ops') = n \/ Len(ops') = n + 1
      /\ \A i \in 1..n : Same(ops'[i], ops[i + k])
  BY <1>1 DEF Survive
<1>3. Len(ops) = n + k /\ \A i \in 1..n : i + k \in 1..Len(ops) /\ ops[i + k] \in Ops
  <2>1. Len(ops) \in Nat /\ \A i \in 1..Len(ops) : ops[i] \in Ops
    BY QueueTyped DEF DatabaseTypes
  <2>2. Len(ops) = n + k
    BY <1>1, <2>1
  <2> QED BY <2>1, <2>2
<1>4. ASSUME NEW i \in 1..n
      PROVE  /\ ops'[i].type = ops[i + k].type
             /\ ops'[i].type # "links" => ops'[i].by = ops[i + k].by
             /\ ops'[i].type = "get" => req'[ops'[i].by].pc = "get"
             /\ ops'[i].type = "users" => req'[ops'[i].by].pc = "set"
  <2>1. Same(ops'[i], ops[i + k]) /\ i + k \in 1..Len(ops)
    BY <1>2, <1>3
  <2>2. ops[i + k].type # "links" => req'[ops[i + k].by].pc = req[ops[i + k].by].pc
    BY <1>1
  <2> QED BY <2>1, <2>2 DEF Same, OpsAwaited
<1>5. \A i \in 1..Len(ops') : i \in 1..n \/ (i = n + 1 /\ Len(ops') = n + 1)
  BY <1>2
<1>6. Len(ops') = n + 1 =>
         LET x == ops'[n + 1]
         IN  /\ x.type = "get" => req'[x.by].pc = "get"
             /\ x.type = "users" => req'[x.by].pc = "set"
             /\ x.type # "links" =>
                   \A i \in 1..n : ops[i + k].type # "links" => ops[i + k].by # x.by
  BY <1>1 DEF NewFor
<1>7. ASSUME NEW i \in 1..Len(ops')
      PROVE  /\ ops'[i].type = "get" => req'[ops'[i].by].pc = "get"
             /\ ops'[i].type = "users" => req'[ops'[i].by].pc = "set"
  BY <1>4, <1>5, <1>6
<1>8. ASSUME NEW i \in 1..Len(ops'), NEW j \in 1..Len(ops'),
             ops'[i].type # "links", ops'[j].type # "links", ops'[i].by = ops'[j].by
      PROVE  i = j
  <2>1. CASE i \in 1..n /\ j \in 1..n
    <3>1. /\ i + k \in 1..Len(ops) /\ j + k \in 1..Len(ops)
          /\ ops[i + k].type # "links" /\ ops[j + k].type # "links" /\ ops[i + k].by = ops[j + k].by
      BY <1>3, <1>4, <1>8, <2>1
    <3>2. i + k = j + k
      BY <3>1 DEF OpsAwaited
    <3> QED BY <2>1, <3>2
  <2>2. CASE i \in 1..n /\ j = n + 1 /\ Len(ops') = n + 1
    BY <1>4, <1>6, <1>8, <2>2
  <2>3. CASE j \in 1..n /\ i = n + 1 /\ Len(ops') = n + 1
    BY <1>4, <1>6, <1>8, <2>3
  <2> QED BY <1>5, <2>1, <2>2, <2>3
<1> QED BY <1>7, <1>8 DEF OpsAwaited

LEMMA NothingNew ==
    ASSUME DatabaseTypes, NEW k \in {0, 1}, Len(ops') = Len(ops) - k
    PROVE  Len(ops') # Len(ops) - k + 1
<1>1. Len(ops) \in Nat
  BY QueueTyped DEF DatabaseTypes
<1> QED BY <1>1

\* The first operation is over, and only its message changed.
LEMMA AwaitedAfterFirst ==
    ASSUME DatabaseTypes, OpsAwaited, ops # <<>>, Survive(1),
           \A w \in Requests : (ops[1].type = "links" \/ w # ops[1].by) => req'[w] = req[w],
           Len(ops') = Len(ops) =>
              \/ ops'[Len(ops')].type = "links"
              \/ /\ ops[1].type # "links"
                 /\ ops'[Len(ops')] = SetUsers(ops[1].by)
                 /\ req'[ops[1].by].pc = "set"
    PROVE  OpsAwaited'
<1>1. Len(ops) \in Nat /\ Len(ops) >= 1 /\ 1 \in 1..Len(ops) /\ \A i \in 1..Len(ops) : ops[i] \in Ops
  BY FirstOperation, QueueTyped DEF DatabaseTypes
<1>2. ASSUME NEW i \in 1..(Len(ops) - 1), ops[i + 1].type # "links"
      PROVE  /\ ops[i + 1].by \in Requests
             /\ ops[1].type # "links" => ops[i + 1].by # ops[1].by
  <2>1. i + 1 \in 1..Len(ops) /\ i + 1 # 1
    BY <1>1
  <2> QED BY <1>1, <1>2, <2>1, OpsTyped DEF OpsAwaited
<1>3. Len(ops') = Len(ops) - 1 + 1 => NewFor(1)
  <2>1. Len(ops) - 1 + 1 = Len(ops)
    BY <1>1
  <2>2. CASE ops'[Len(ops')].type = "links"
    BY <2>2 DEF NewFor
  <2>3. CASE ops[1].type # "links" /\ ops'[Len(ops')] = SetUsers(ops[1].by) /\ req'[ops[1].by].pc = "set"
    BY <1>2, <2>3 DEF NewFor, SetUsers
  <2> QED BY <2>1, <2>2, <2>3
<1>4. \A i \in 1..(Len(ops) - 1) :
         ops[i + 1].type # "links" => req'[ops[i + 1].by].pc = req[ops[i + 1].by].pc
  BY <1>2
<1> QED BY <1>3, <1>4, AwaitedStep

LEMMA AwaitedAfterNone ==
    ASSUME DatabaseTypes, OpsAwaited, PlainStep(0) \/ RelinkStep(0), UNCHANGED req,
           Len(ops') = Len(ops) \/ ops'[Len(ops')].type = "links"
    PROVE  OpsAwaited'
<1>1. Survive(0)
  BY DEF PlainStep, RelinkStep
<1>2. Len(ops') = Len(ops) - 0 + 1 => NewFor(0)
  <2>1. Len(ops) \in Nat
    BY QueueTyped DEF DatabaseTypes
  <2> QED BY <2>1 DEF NewFor
<1> QED BY <1>1, <1>2, AwaitedStep

\* A message that waited for no operation asks for one.
LEMMA AwaitedAfterMessage ==
    ASSUME DatabaseTypes, OpsAwaited, NEW r \in Requests, req[r].pc \in {"unsent", "hash"},
           \A w \in Requests : w # r => req'[w] = req[w], links' = links,
           \/ ops' = ops
           \/ ops' = Append(ops, GetUsers(r)) /\ req'[r].pc = "get"
           \/ ops' = Append(ops, SetUsers(r)) /\ req'[r].pc = "set"
    PROVE  OpsAwaited'
<1>1. Len(ops) \in Nat /\ \A i \in 1..Len(ops) : ops[i] \in Ops
  BY QueueTyped DEF DatabaseTypes
<1>2. ASSUME NEW i \in 1..Len(ops), ops[i].type # "links" PROVE ops[i].by \in Requests \ {r}
  <2>1. ops[i].type \in {"get", "users"} /\ ops[i].by \in Requests
    BY <1>1, <1>2, OpsTyped
  <2> QED BY <2>1 DEF OpsAwaited
<1>3. \A i \in 1..(Len(ops) - 0) :
         ops[i + 0].type # "links" => req'[ops[i + 0].by].pc = req[ops[i + 0].by].pc
  BY <1>1, <1>2
<1>4. CASE ops' = ops
  <2>1. Survive(0) /\ Len(ops') # Len(ops) - 0 + 1
    BY <1>1, <1>4, UnchangedQueue DEF PlainStep
  <2> QED BY <1>3, <2>1, AwaitedStep
<1>5. ASSUME NEW x \in {GetUsers(r), SetUsers(r)}, ops' = Append(ops, x),
             x.type = "get" => req'[r].pc = "get", x.type = "users" => req'[r].pc = "set"
      PROVE  OpsAwaited'
  <2>1. x \in UserOps /\ x.by = r
    BY <1>5 DEF GetUsers, SetUsers, UserOps
  <2>2. Survive(0) /\ ops'[Len(ops')] = x
    BY <1>5, <2>1, AppendedQueue DEF PlainStep
  <2>3. NewFor(0)
    BY <1>1, <1>2, <1>5, <2>1, <2>2 DEF NewFor
  <2> QED BY <1>3, <2>2, <2>3, AwaitedStep
<1> QED BY <1>4, <1>5 DEF GetUsers, SetUsers

LEMMA AwaitedKept ==
    ASSUME DatabaseTypes, OpsAwaited, NamesHeld, [DatabaseNext]_databaseVars
    PROVE  OpsAwaited'
<1>1. CASE ops' = ops /\ links' = links /\ req' = req
  BY <1>1, UnchangedQueue, AwaitedAfterNone
<1>2. CASE SetReads \/ Written \/ Renamed \/ Damage \/ UNCHANGED databaseVars
  BY <1>1, <1>2 DEF SetReads, Written, Renamed, Damage, databaseVars, dbVars, linkVars, monitorVars
<1>3. CASE GotUsers
  <2>1. /\ ops # <<>> /\ ops[1].type = "get" /\ Survive(1)
        /\ \/ Len(ops') = Len(ops) - 1
           \/ /\ Len(ops') = Len(ops)
              /\ ops'[Len(ops')] = SetUsers(ops[1].by)
              /\ req'[ops[1].by].pc = "set"
    BY <1>3, GotUsersQueue DEF PlainStep
  <2>2. Len(ops) \in Nat
    BY QueueTyped DEF DatabaseTypes
  <2> QED BY <1>3, <2>1, <2>2, GotUsersStep, AwaitedAfterFirst
<1>4. CASE Saved
  <2>1. Len(ops) \in Nat
    BY QueueTyped DEF DatabaseTypes
  <2> QED BY <1>4, <2>1, SavedStep, AwaitedAfterFirst DEF PlainStep
<1>5. CASE LinksSaved
  <2>1. ops # <<>> /\ ops[1].type = "links" /\ req' = req
    BY <1>5, LinksSavedQueue DEF LinksSaved, monitorVars
  <2>2. Len(ops) \in Nat
    BY QueueTyped DEF DatabaseTypes
  <2>3. Survive(1) /\ (Len(ops') = Len(ops) - 1 \/ ops'[Len(ops')].type = "links")
    BY <1>5, LinksSavedQueue DEF PlainStep, RelinkStep
  <2> QED BY <2>1, <2>2, <2>3, AwaitedAfterFirst
<1>6. CASE Quarantine \/ FileFails
  <2>1. ops # <<>> /\ Rejected(Head(ops)) /\ links' = links
    BY <1>6 DEF Quarantine, FileFails, linkVars
  <2>2. Survive(1) /\ Len(ops') = Len(ops) - 1
    BY <2>1, RejectedQueue DEF PlainStep
  <2>3. Len(ops) \in Nat
    BY QueueTyped DEF DatabaseTypes
  <2> QED BY <2>1, <2>2, <2>3, RejectedStep, AwaitedAfterFirst
<1>7. ASSUME NEW r \in Requests, NEW m \in Monitors, NEW kind \in {"add", "remove", "login"},
             NEW u \in Users, MonitorMessage(r, m, kind, u)
      PROVE  OpsAwaited'
  <2>1. links' = links
    BY <1>7 DEF MonitorMessage, linkVars
  <2> QED BY <1>7, <2>1, MessageStep, AwaitedAfterMessage
<1>8. ASSUME NEW r \in Requests, NEW right \in BOOLEAN, Hashed(r, right)
      PROVE  OpsAwaited'
  <2>1. links' = links
    BY <1>8 DEF Hashed, linkVars
  <2> QED BY <1>8, <2>1, HashedStep, AwaitedAfterMessage
<1>9. ASSUME NEW s \in Environments, NEW t \in Environments, Link(s, t) \/ Unlink(s, t)
      PROVE  OpsAwaited'
  <2>1. RelinkStep(0) /\ req' = req
    BY <1>9, LinkQueue DEF monitorVars
  <2> QED BY <2>1, AwaitedAfterNone DEF RelinkStep
<1>10. ASSUME NEW e \in Environments, RemoveEnvironment(e) PROVE OpsAwaited'
  <2>1. RelinkStep(0) /\ req' = req
    BY <1>10, RemoveQueue DEF RemoveEnvironment, Relink, monitorVars
  <2> QED BY <2>1, AwaitedAfterNone DEF RelinkStep
<1>11. CASE Crash
  <2>1. ops' = <<>>
    BY <1>11 DEF Crash
  <2>2. Len(ops') = 0
    BY <2>1
  <2> QED BY <2>2 DEF OpsAwaited
<1> QED BY <1>2, <1>3, <1>4, <1>5, <1>6, <1>7, <1>8, <1>9, <1>10, <1>11 DEF DatabaseNext, Going

LEMMA WritingKept ==
    ASSUME DatabaseTypes, OpsAwaited, NamesHeld, Writing, [DatabaseNext]_databaseVars
    PROVE  Writing'
<1>1. CASE UNCHANGED <<ops, stage, tmp>>
  BY <1>1 DEF Writing
<1>2. CASE Damage \/ UNCHANGED databaseVars
  BY <1>1, <1>2 DEF Damage, databaseVars, dbVars
<1>3. CASE SetReads
  <2>1. ops # <<>> /\ ops[1].type \in {"users", "links"} /\ ops' = ops /\ stage' = "writing"
    BY <1>3, FirstOperation DEF SetReads, Performing
  <2> QED BY <2>1 DEF Writing
<1>4. CASE Written \/ Renamed
  BY <1>4 DEF Written, Renamed, Writing
<1>5. CASE stage' = "reading"
  BY <1>5 DEF Writing
<1>6. CASE GotUsers
  BY <1>5, <1>6, GotUsersQueue
<1>7. CASE Saved
  BY <1>5, <1>7, SavedStep
<1>8. CASE LinksSaved
  BY <1>5, <1>8, LinksSavedQueue
<1>9. CASE Quarantine \/ FileFails \/ Crash
  BY <1>5, <1>9 DEF Quarantine, FileFails, Crash, Rejected, FinishedOperation
\* Something is queued behind what is performed.
<1>10. ASSUME Survive(0), stage' = stage, tmp' = tmp PROVE Writing'
  <2>1. ASSUME stage # "reading" PROVE ops' # <<>> /\ ops'[1].type \in {"users", "links"}
    <3>1. ops # <<>> /\ ops[1].type \in {"users", "links"} /\ Len(ops) \in Nat /\ Len(ops) >= 1
      BY <2>1, FirstOperation DEF Writing
    <3>2. Len(ops') >= 1 /\ Same(ops'[1], ops[1 + 0]) /\ ops' \in Seq(Ops)
      BY <1>10, <3>1 DEF Survive
    <3> QED BY <3>1, <3>2, QueueTyped DEF Same
  <2> QED BY <1>10, <2>1 DEF Writing
<1>11. ASSUME NEW r \in Requests, NEW m \in Monitors, NEW kind \in {"add", "remove", "login"},
             NEW u \in Users, MonitorMessage(r, m, kind, u)
       PROVE  Writing'
  <2>1. links' = links /\ stage' = stage /\ tmp' = tmp /\ (ops' = ops \/ ops' = Append(ops, GetUsers(r)))
    BY <1>11 DEF MonitorMessage, linkVars
  <2>2. GetUsers(r) \in UserOps
    BY DEF GetUsers, UserOps
  <2> QED BY <1>1, <1>10, <2>1, <2>2, AppendedQueue DEF PlainStep
<1>12. ASSUME NEW r \in Requests, NEW right \in BOOLEAN, Hashed(r, right)
       PROVE  Writing'
  <2>1. links' = links /\ stage' = stage /\ tmp' = tmp /\ (ops' = ops \/ ops' = Append(ops, SetUsers(r)))
    BY <1>12 DEF Hashed, linkVars
  <2>2. SetUsers(r) \in UserOps
    BY DEF SetUsers, UserOps
  <2> QED BY <1>1, <1>10, <2>1, <2>2, AppendedQueue DEF PlainStep
<1>13. ASSUME NEW s \in Environments, NEW t \in Environments, Link(s, t) \/ Unlink(s, t)
       PROVE  Writing'
  BY <1>10, <1>13, LinkQueue DEF RelinkStep
<1>14. ASSUME NEW e \in Environments, RemoveEnvironment(e) PROVE Writing'
  BY <1>10, <1>14, RemoveQueue DEF RemoveEnvironment, Relink, RelinkStep
<1> QED BY <1>2, <1>3, <1>4, <1>6, <1>7, <1>8, <1>9, <1>11, <1>12, <1>13, <1>14 DEF DatabaseNext, Going

----------------------------------------------------------------------------
(* The contents of the file *)

FileInv == CopyRight /\ InPlace /\ CorruptKnown /\ Kept

\* What is queued behind the operation that is performed changes nothing of it.
LEMMA FileUntouched ==
    ASSUME FileInv, Writing, UNCHANGED <<file, copy, stage, promised, overlapped, unsaved>>,
           stage # "reading" =>
              /\ ops'[1].type = ops[1].type
              /\ ops[1].type = "links" => ops'[1].targets = ops[1].targets
              /\ ops[1].type = "users" =>
                    LET r == ops[1].by
                    IN  ops'[1].by = r /\ base'[r] = base[r] /\ req'[r] = req[r]
    PROVE  FileInv'
<1>1. CASE stage = "reading"
  BY <1>1 DEF FileInv, CopyRight, InPlace, CorruptKnown, Kept
<1>2. CASE stage # "reading" /\ ops[1].type = "links"
  <2>1. ops'[1].type = "links" /\ ops'[1].targets = ops[1].targets
    BY <1>2
  <2>2. CopyRight'
    BY <1>2, <2>1 DEF FileInv, CopyRight
  <2>3. InPlace'
    BY <1>2, <2>1 DEF FileInv, InPlace
  <2>4. CorruptKnown' /\ Kept'
    BY <1>2, <2>1 DEF FileInv, CorruptKnown, Kept
  <2> QED BY <2>2, <2>3, <2>4 DEF FileInv
<1>3. CASE stage # "reading" /\ ops[1].type = "users"
  <2> DEFINE r == ops[1].by
  <2>1. ops'[1].type = "users" /\ ops'[1].by = r /\ base'[r] = base[r] /\ req'[r] = req[r]
    BY <1>3
  <2>2. Entry(r)' = Entry(r)
    BY <2>1 DEF Entry
  <2>3. Entry(ops[1].by)' = Entry(r)
    BY <2>1, <2>2 DEF Entry
  <2>4. CopyRight'
    BY <1>3, <2>1, <2>3 DEF FileInv, CopyRight
  <2>5. InPlace'
    BY <1>3, <2>1, <2>3 DEF FileInv, InPlace
  <2>6. CorruptKnown' /\ Kept'
    BY <1>3, <2>1, <2>3 DEF FileInv, CorruptKnown, Kept
  <2> QED BY <2>4, <2>5, <2>6 DEF FileInv
<1> QED BY <1>1, <1>2, <1>3 DEF Writing

\* An operation that ends without a reply to a monitor leaves the file as it is.
LEMMA FileAfterFirst ==
    ASSUME FileInv, stage' = "reading", file' = file, promised' = promised, overlapped' = overlapped,
           unsaved => unsaved', stage # "renamed" \/ ops[1].type # "users"
    PROVE  FileInv'
  BY DEF FileInv, CopyRight, InPlace, CorruptKnown, Kept

LEMMA SetReadsFile ==
    ASSUME DatabaseTypes, FileInv, SetReads
    PROVE  FileInv'
<1>1. ops # <<>> /\ ops[1].type \in {"users", "links"} /\ Head(ops) = ops[1]
  BY FirstOperation DEF SetReads, Performing
<1>2. /\ stage = "reading" /\ stage' = "writing" /\ file # Corrupt
      /\ UNCHANGED <<file, ops, base, req, promised, overlapped, unsaved>>
      /\ copy' = Contents(ops[1])
  BY <1>1 DEF SetReads, monitorVars, history
<1>3. Contents(ops[1]) \in Records /\ file \in Records
  BY <1>1, <1>2, ReadRecords DEF DatabaseTypes, DatabaseTypeOK
<1>4. CASE ops[1].type = "users"
  <2> DEFINE users == [base[ops[1].by] EXCEPT ![req[ops[1].by].name] = Entry(ops[1].by)]
  <2>1. copy' = [file EXCEPT !.users = users]
    BY <1>2, <1>4 DEF Contents
  <2>2. copy'.users = users /\ copy'.links = file.links
    BY <1>3, <2>1 DEF Records
  <2>3. CopyRight'
    BY <1>2, <1>4, <2>2 DEF CopyRight, Entry
  <2> QED BY <1>2, <2>3 DEF FileInv, InPlace, CorruptKnown, Kept
<1>5. CASE ops[1].type = "links"
  <2>1. copy' = [file EXCEPT !.links = ops[1].targets]
    BY <1>2, <1>5 DEF Contents
  <2>2. copy'.links = ops[1].targets /\ copy'.users = file.users
    BY <1>3, <2>1 DEF Records
  <2>3. CopyRight'
    BY <1>2, <1>5, <2>2 DEF CopyRight
  <2> QED BY <1>2, <2>3 DEF FileInv, InPlace, CorruptKnown, Kept
<1> QED BY <1>1, <1>4, <1>5

LEMMA RenamedFile ==
    ASSUME DatabaseTypes, OpsAwaited, Writing, FileInv, Renamed
    PROVE  FileInv'
<1>1. ops # <<>> /\ ops[1].type \in {"users", "links"} /\ Head(ops) = ops[1]
  BY FirstOperation DEF Renamed, Writing
<1>2. /\ stage = "renaming" /\ stage' = "renamed" /\ tmp = "whole"
      /\ file' = copy /\ copy \in Records /\ file' # Corrupt
      /\ UNCHANGED <<ops, base, req, promised>>
  BY DatabaseAssumption DEF Renamed, Writing, DatabaseTypes, DatabaseTypeOK, monitorVars
<1>3. CASE ops[1].type = "users"
  <2> DEFINE r == ops[1].by
             name == req[r].name
  <2>1. overlapped' = (overlapped \/ file.users # base[r]) /\ unsaved' = unsaved
    BY <1>1, <1>3 DEF Renamed
  <2>2. copy.users = [base[r] EXCEPT ![name] = Entry(r)]
    BY <1>2, <1>3 DEF FileInv, CopyRight
  <2>3. r \in Requests /\ base[r] \in AllUsers
    BY <1>1, <1>3, FirstOperation, OpsTyped DEF DatabaseTypes, DatabaseTypeOK, AllUsers
  <2>4. \A u \in Users : copy.users[u] = IF u = name THEN Entry(r) ELSE base[r][u]
    BY <2>2, <2>3 DEF AllUsers
  <2>5. Entry(r)' = Entry(r)
    BY <1>2 DEF Entry
  <2>6. ASSUME ~overlapped', NEW u \in Users
        PROVE  copy.users[u] = promised[u] \/ (name = u /\ copy.users[u] = Entry(r))
    <3>1. file.users = base[r] /\ ~overlapped
      BY <2>1, <2>6
    <3>2. file.users[u] = promised[u]
      BY <1>2, <3>1 DEF FileInv, Kept
    <3> QED BY <2>4, <3>1, <3>2
  <2>7. Kept'
    BY <1>2, <1>3, <2>5, <2>6 DEF Kept, Entry
  <2>8. InPlace'
    <3>1. name \in Users
      BY <1>1, <1>3, WaitingHeads DEF DatabaseTypes
    <3>2. file'.users[name] = Entry(r)
      BY <1>2, <2>4, <3>1
    <3> QED BY <1>2, <1>3, <2>5, <3>2 DEF InPlace, Entry
  <2>9. CorruptKnown' /\ CopyRight'
    BY <1>2 DEF CorruptKnown, CopyRight
  <2> QED BY <2>7, <2>8, <2>9 DEF FileInv
<1>4. CASE ops[1].type = "links"
  <2>1. overlapped' = overlapped /\ unsaved' = FALSE
    BY <1>1, <1>4 DEF Renamed
  <2>2. copy.links = ops[1].targets /\ (overlapped \/ copy.users = file.users)
    BY <1>2, <1>4 DEF FileInv, CopyRight
  <2>3. Kept'
    BY <1>2, <1>4, <2>1, <2>2 DEF FileInv, Kept
  <2>4. InPlace'
    BY <1>2, <1>4, <2>2 DEF InPlace
  <2>5. CorruptKnown' /\ CopyRight'
    BY <1>2 DEF CorruptKnown, CopyRight
  <2> QED BY <2>3, <2>4, <2>5 DEF FileInv
<1> QED BY <1>1, <1>3, <1>4

LEMMA SavedFile ==
    ASSUME DatabaseTypes, OpsAwaited, NamesHeld, FileInv, Saved
    PROVE  FileInv'
<1> DEFINE r == ops[1].by
           name == req[r].name
<1>1. /\ ops[1].type = "users" /\ stage = "renamed" /\ r \in Waiting /\ stage' = "reading"
      /\ promised' = [promised EXCEPT ![name] = Entry(r)]
  BY SavedStep
<1>2. UNCHANGED <<file, overlapped, unsaved>>
  BY DEF Saved
<1>3. promised \in AllUsers /\ name \in Users
  BY <1>1 DEF DatabaseTypes, DatabaseTypeOK, AllUsers
<1>4. \A u \in Users : promised'[u] = IF u = name THEN Entry(r) ELSE promised[u]
  BY <1>1, <1>3 DEF AllUsers
<1>5. ASSUME ~overlapped PROVE file # Corrupt /\ \A u \in Users : file.users[u] = promised'[u]
  BY <1>1, <1>4, <1>5 DEF FileInv, Kept, InPlace
<1>6. Kept'
  BY <1>2, <1>5 DEF Kept
<1> QED BY <1>1, <1>2, <1>6 DEF FileInv, CopyRight, InPlace, CorruptKnown

LEMMA CrashFile ==
    ASSUME DatabaseTypes, OpsAwaited, Writing, FileInv, Crash
    PROVE  FileInv'
<1> DEFINE r == ops[1].by
           name == req[r].name
<1>1. /\ stage' = "reading" /\ overlapped' = overlapped
      /\ file' = IF file = Corrupt THEN Empty ELSE file
  BY DEF Crash
<1>2. file' # Corrupt
  BY <1>1, EmptyFile
<1>3. ASSUME ~overlapped, NEW u \in Users PROVE file'.users[u] = promised'[u]
  <2>1. file' = file
    BY <1>1, <1>3 DEF FileInv, Kept
  <2>2. CASE Performing("users") /\ stage = "renamed"
    <3>1. ops # <<>> /\ ops[1].type = "users" /\ Head(ops) = ops[1]
      BY <2>2, FirstOperation DEF Performing
    <3>2. r \in Waiting /\ name \in Users /\ promised \in AllUsers
      BY <3>1, WaitingHeads DEF DatabaseTypes, DatabaseTypeOK, AllUsers
    <3>3. promised' = [promised EXCEPT ![name] = Entry(r)]
      BY <2>2, <3>1 DEF Crash
    <3>4. promised'[u] = IF u = name THEN Entry(r) ELSE promised[u]
      BY <3>2, <3>3 DEF AllUsers
    <3> QED BY <1>3, <2>1, <2>2, <3>1, <3>4 DEF FileInv, Kept, InPlace
  <2>3. CASE ~(Performing("users") /\ stage = "renamed")
    <3>1. promised' = promised
      BY <2>3 DEF Crash
    <3>2. stage # "renamed" \/ ops[1].type # "users"
      BY <2>3, FirstOperation DEF Performing, Writing
    <3> QED BY <1>3, <2>1, <3>1, <3>2 DEF FileInv, Kept
  <2> QED BY <2>2, <2>3
<1>4. Kept'
  BY <1>1, <1>2, <1>3 DEF Kept
<1> QED BY <1>1, <1>2, <1>4 DEF FileInv, CopyRight, InPlace, CorruptKnown

LEMMA FileKept ==
    ASSUME DatabaseTypes, OpsAwaited, NamesHeld, Writing, FileInv, [DatabaseNext]_databaseVars
    PROVE  FileInv'
<1>1. CASE UNCHANGED databaseVars
  BY <1>1, FileUntouched DEF databaseVars, dbVars, monitorVars, history
<1>2. CASE SetReads
  BY <1>2, SetReadsFile
<1>3. CASE Written
  <2>1. /\ stage = "writing" /\ stage' = "renaming"
        /\ UNCHANGED <<file, copy, ops, req, base, promised, overlapped, unsaved>>
    BY <1>3 DEF Written, monitorVars, history
  <2> QED BY <2>1 DEF FileInv, CopyRight, InPlace, CorruptKnown, Kept, Entry
<1>4. CASE Renamed
  BY <1>4, RenamedFile
<1>5. CASE GotUsers
  <2>1. ops[1].type = "get" /\ stage' = "reading"
    BY <1>5, GotUsersQueue
  <2> QED BY <1>5, <2>1, FileAfterFirst DEF GotUsers, history
<1>6. CASE Saved
  BY <1>6, SavedFile
<1>7. CASE LinksSaved
  <2>1. ops[1].type = "links" /\ stage' = "reading"
    BY <1>7, LinksSavedQueue
  <2> QED BY <1>7, <2>1, FileAfterFirst DEF LinksSaved, history
<1>8. CASE FileFails
  <2>1. stage' = "reading" /\ (unsaved => unsaved')
    BY <1>8, RejectedQueue DEF FileFails, linkVars
  <2> QED BY <1>8, <2>1, FileAfterFirst DEF FileFails
<1>9. CASE Quarantine
  <2>1. stage' = "reading" /\ (unsaved => unsaved') /\ file' # Corrupt /\ overlapped /\ overlapped' = overlapped
    BY <1>9, RejectedQueue, EmptyFile DEF Quarantine, linkVars, FileInv, CorruptKnown
  <2> QED BY <2>1 DEF FileInv, CopyRight, InPlace, CorruptKnown, Kept
<1>10. CASE Damage
  <2>1. overlapped' /\ unsaved' /\ UNCHANGED <<copy, ops, stage, req, base>>
    BY <1>10 DEF Damage, monitorVars
  <2> QED BY <2>1 DEF FileInv, CopyRight, InPlace, CorruptKnown, Kept, Entry
<1>11. CASE Crash
  BY <1>11, CrashFile
<1>12. ASSUME PlainStep(0), UNCHANGED <<file, copy, stage, promised, overlapped, unsaved>>,
              NEW r \in Requests, req[r].pc \in {"unsent", "hash"},
              \A w \in Requests : w # r => req'[w] = req[w] /\ base'[w] = base[w]
       PROVE  FileInv'
  <2>1. ASSUME stage # "reading"
        PROVE  /\ ops'[1] = ops[1]
               /\ ops[1].type = "users" => ops[1].by \in Requests \ {r}
    <3>1. ops # <<>> /\ ops[1].type \in {"users", "links"} /\ ops[1] \in Ops
          /\ Len(ops) \in Nat /\ Len(ops) >= 1 /\ 1 \in 1..Len(ops)
      BY <2>1, FirstOperation DEF Writing
    <3>2. ops'[1] = ops[1 + 0]
      BY <1>12, <3>1 DEF PlainStep
    <3>3. ops[1].type = "users" => ops[1].by \in Requests /\ req[ops[1].by].pc = "set"
      BY <3>1, OpsTyped DEF OpsAwaited
    <3> QED BY <1>12, <3>2, <3>3
  <2>2. stage # "reading" =>
           /\ ops'[1].type = ops[1].type
           /\ ops[1].type = "links" => ops'[1].targets = ops[1].targets
           /\ ops[1].type = "users" =>
                 LET w == ops[1].by
                 IN  ops'[1].by = w /\ base'[w] = base[w] /\ req'[w] = req[w]
    BY <1>12, <2>1
  <2> QED BY <1>12, <2>2, FileUntouched
<1>13. ASSUME NEW r \in Requests, NEW m \in Monitors, NEW kind \in {"add", "remove", "login"},
             NEW u \in Users, MonitorMessage(r, m, kind, u)
       PROVE  FileInv'
  <2>1. /\ UNCHANGED <<file, copy, stage, promised, overlapped, unsaved, links, base>>
        /\ ops' = ops \/ ops' = Append(ops, GetUsers(r))
    BY <1>13 DEF MonitorMessage, linkVars, history
  <2>2. GetUsers(r) \in UserOps
    BY DEF GetUsers, UserOps
  <2>3. PlainStep(0)
    BY <2>1, <2>2, UnchangedQueue, AppendedQueue
  <2> QED BY <1>12, <1>13, <2>1, <2>3, MessageStep
<1>14. ASSUME NEW r \in Requests, NEW right \in BOOLEAN, Hashed(r, right)
       PROVE  FileInv'
  <2>1. /\ UNCHANGED <<file, copy, stage, promised, overlapped, unsaved, links>>
        /\ ops' = ops \/ ops' = Append(ops, SetUsers(r))
    BY <1>14 DEF Hashed, linkVars, history
  <2>2. SetUsers(r) \in UserOps
    BY DEF SetUsers, UserOps
  <2>3. PlainStep(0)
    BY <2>1, <2>2, UnchangedQueue, AppendedQueue
  <2> QED BY <1>12, <1>14, <2>1, <2>3, HashedStep
<1>15. ASSUME RelinkStep(0), UNCHANGED <<file, copy, stage, promised, overlapped, unsaved, req, base>>,
              stage # "reading" /\ ops # <<>> => ops'[1].targets = ops[1].targets
       PROVE  FileInv'
  <2>1. ASSUME stage # "reading"
        PROVE  Same(ops'[1], ops[1]) /\ ops'[1].targets = ops[1].targets
    <3>1. ops # <<>> /\ Len(ops) \in Nat /\ Len(ops) >= 1 /\ 1 \in 1..Len(ops)
      BY <2>1, FirstOperation DEF Writing
    <3>2. Same(ops'[1], ops[1 + 0])
      BY <1>15, <3>1 DEF RelinkStep, Survive
    <3> QED BY <1>15, <2>1, <3>1, <3>2
  <2>2. stage # "reading" =>
           /\ ops'[1].type = ops[1].type
           /\ ops[1].type = "links" => ops'[1].targets = ops[1].targets
           /\ ops[1].type = "users" =>
                 LET w == ops[1].by
                 IN  ops'[1].by = w /\ base'[w] = base[w] /\ req'[w] = req[w]
    BY <1>15, <2>1 DEF Same
  <2> QED BY <1>15, <2>2, FileUntouched
<1>16. ASSUME NEW s \in Environments, NEW t \in Environments, Link(s, t) \/ Unlink(s, t)
       PROVE  FileInv'
  BY <1>15, <1>16, LinkQueue DEF monitorVars
<1>17. ASSUME NEW e \in Environments, RemoveEnvironment(e) PROVE FileInv'
  BY <1>15, <1>17, RemoveQueue DEF RemoveEnvironment, Relink, monitorVars
<1> QED BY <1>1, <1>2, <1>3, <1>4, <1>5, <1>6, <1>7, <1>8, <1>9, <1>10, <1>11, <1>13, <1>14,
           <1>16, <1>17 DEF DatabaseNext, Going

----------------------------------------------------------------------------
(* Links *)

LEMMA UnderWay ==
    ASSUME DatabaseTypes
    PROVE  /\ Len(ops) \in Nat
           /\ \A i : i \in LinksUnderWay <=> i \in 1..Len(ops) /\ ops[i].type = "links"
<1>1. Len(ops) \in Nat /\ DOMAIN ops = 1..Len(ops)
  BY QueueTyped DEF DatabaseTypes
<1> QED BY <1>1 DEF LinksUnderWay

LEMMA UnderWayNext ==
    ASSUME ops' \in Seq(Ops)
    PROVE  /\ Len(ops') \in Nat
           /\ \A i : i \in LinksUnderWay' <=> i \in 1..Len(ops') /\ ops'[i].type = "links"
<1>1. Len(ops') \in Nat /\ DOMAIN ops' = 1..Len(ops')
  BY QueueTyped
<1> QED BY <1>1 DEF LinksUnderWay

\* An operation on links that is not the first, or not over, is still there.
LEMMA StillUnderWay ==
    ASSUME DatabaseTypes, NEW k \in {0, 1}, Survive(k), NEW i \in LinksUnderWay, i > k
    PROVE  /\ i - k \in LinksUnderWay'
           /\ ops'[i - k].then = ops[i].then
           /\ ops'[i - k].env = ops[i].env
<1>1. Len(ops) \in Nat /\ i \in 1..Len(ops) /\ ops[i].type = "links"
  BY UnderWay
<1>2. PICK n \in Nat : n = Len(ops) - k
  BY DEF Survive
<1>3. i - k \in 1..n /\ (i - k) + k = i
  BY <1>1, <1>2
<1>4. Same(ops'[i - k], ops[i])
  BY <1>2, <1>3 DEF Survive
<1>5. i - k \in 1..Len(ops')
  BY <1>2, <1>3 DEF Survive
<1>6. ops' \in Seq(Ops)
  BY DEF Survive
<1> QED BY <1>1, <1>4, <1>5, <1>6, UnderWayNext DEF Same

LEMMA LastPlain ==
    ASSUME DatabaseTypes, LastWritesLinks, NEW k \in {0, 1}, PlainStep(k)
    PROVE  LastWritesLinks'
<1>1. PICK n \in Nat : n = Len(ops) - k
  BY DEF PlainStep, Survive
<1>2. /\ Survive(k) /\ ops' \in Seq(Ops) /\ links' = links
      /\ Len(ops') = n \/ (Len(ops') = n + 1 /\ ops'[n + 1].type # "links")
      /\ \A i \in 1..n : ops'[i] = ops[i + k]
  <2>1. Survive(k) /\ links' = links /\ \A i \in 1..n : ops'[i] = ops[i + k]
    BY <1>1 DEF PlainStep
  <2>2. Len(ops') = n \/ Len(ops') = n + 1
    BY <1>1, <2>1 DEF Survive
  <2>3. Len(ops') = n + 1 => ops'[n + 1].type # "links"
    BY <1>1 DEF PlainStep
  <2> QED BY <2>1, <2>2, <2>3 DEF Survive
<1>3. Len(ops) = n + k
  BY <1>1, UnderWay
<1>4. ASSUME NEW i \in LinksUnderWay', \A j \in LinksUnderWay' : j <= i
      PROVE  ops'[i].targets = links'
  <2>1. i \in 1..n /\ ops'[i] = ops[i + k] /\ ops'[i].type = "links"
    <3>1. i \in 1..Len(ops') /\ ops'[i].type = "links"
      BY <1>2, <1>4, UnderWayNext
    <3>2. i \in 1..n
      BY <1>2, <3>1
    <3> QED BY <1>2, <3>1, <3>2
  <2>2. i + k \in LinksUnderWay
    BY <1>3, <2>1, UnderWay
  <2>3. ASSUME NEW j \in LinksUnderWay PROVE j <= i + k
    <3>1. j \in 1..Len(ops)
      BY UnderWay
    <3>2. CASE j > k
      <4>1. j - k \in LinksUnderWay'
        BY <1>2, <3>2, StillUnderWay
      <4>2. j - k <= i
        BY <1>4, <4>1
      <4> QED BY <2>1, <3>1, <4>2
    <3> QED BY <2>1, <3>1, <3>2
  <2>4. ops[i + k].targets = links
    BY <2>2, <2>3 DEF LastWritesLinks
  <2> QED BY <1>2, <2>1, <2>4
<1> QED BY <1>4 DEF LastWritesLinks

LEMMA LastRelinked ==
    ASSUME DatabaseTypes, NEW k \in {0, 1}, RelinkStep(k)
    PROVE  LastWritesLinks' /\ LinksUnderWay' # {} /\ Len(ops') \in LinksUnderWay'
<1>1. ops' \in Seq(Ops) /\ ops'[Len(ops')].type = "links" /\ ops'[Len(ops')].targets = links'
  BY DEF RelinkStep, Survive
<1>2. PICK n \in Nat : Len(ops') = n + 1
  BY DEF RelinkStep, Survive
<1>3. Len(ops') \in LinksUnderWay'
  BY <1>1, <1>2, UnderWayNext
<1>4. ASSUME NEW i \in LinksUnderWay', \A j \in LinksUnderWay' : j <= i
      PROVE  ops'[i].targets = links'
  <2>1. i \in 1..(n + 1) /\ n + 1 <= i
    BY <1>1, <1>2, <1>3, <1>4, UnderWayNext
  <2> QED BY <1>1, <1>2, <2>1
<1> QED BY <1>3, <1>4 DEF LastWritesLinks

LEMMA GoneStep ==
    ASSUME DatabaseTypes, NEW k \in {0, 1}, Survive(k), NEW e \in Environments, GoneOf(e),
           links'[e] = {},
           \A s \in Environments : e \notin links[s] => e \notin links'[s],
           k = 1 /\ ops[1].type = "links" /\ ops[1].then = "targets" /\ ops[1].env = e =>
              \A s \in Environments : e \notin links'[s]
    PROVE  GoneOf(e)'
<1>1. CASE \A s \in Environments : e \notin links[s]
  BY <1>1 DEF GoneOf
<1>2. ASSUME NEW i \in LinksUnderWay, ops[i].then = "targets", ops[i].env = e
      PROVE  GoneOf(e)'
  <2>1. i \in 1..Len(ops) /\ ops[i].type = "links" /\ Len(ops) \in Nat
    BY UnderWay
  <2>2. CASE i > k
    BY <1>2, <2>2, StillUnderWay DEF GoneOf
  <2>3. CASE ~(i > k)
    <3>1. i = 1 /\ k = 1
      BY <2>1, <2>3
    <3> QED BY <1>2, <2>1, <3>1 DEF GoneOf
  <2> QED BY <2>2, <2>3
<1> QED BY <1>1, <1>2 DEF GoneOf

LinksInv == LastWritesLinks /\ LinksGone /\ LinksSettled

\* Nothing is asked for but users, and no link changes.
LEMMA LinksAfterPlain ==
    ASSUME DatabaseTypes, LinksInv, NEW k \in {0, 1}, PlainStep(k), envs' = envs,
           lingering \subseteq lingering',
           k = 1 /\ ops[1].type = "links" /\ ops[1].then = "targets" => ops[1].env \in lingering',
           k = 1 /\ ops[1].type = "links" /\ ~unsaved' => file' = file /\ file.links = ops[1].targets,
           ~unsaved' /\ ~(k = 1 /\ ops[1].type = "links") /\ LinksUnderWay = {} =>
              ~unsaved /\ file'.links = file.links,
           k = 1 => ops # <<>>
    PROVE  LinksInv'
<1>1. LastWritesLinks'
  BY LastPlain DEF LinksInv
<1>2. Survive(k) /\ links' = links /\ ops' \in Seq(Ops)
  BY DEF PlainStep, Survive
<1>3. LinksGone'
  <2>1. ASSUME NEW e \in Environments \ (envs' \cup lingering') PROVE GoneOf(e)'
    <3>1. GoneOf(e) /\ links[e] = {}
      BY <2>1 DEF LinksInv, LinksGone, GoneOf
    <3> QED BY <1>2, <2>1, <3>1, GoneStep
  <2> QED BY <2>1 DEF LinksGone
<1>4. ASSUME LinksUnderWay' = {}, ~unsaved' PROVE file'.links = links'
  <2>1. CASE k = 1 /\ ops[1].type = "links"
    <3>1. 1 \in LinksUnderWay
      BY <2>1, FirstOperation, UnderWay
    <3>2. ASSUME NEW j \in LinksUnderWay PROVE j <= 1
      <4>1. j \in 1..Len(ops) /\ Len(ops) \in Nat
        BY UnderWay
      <4>2. j > 1 => j - 1 \in LinksUnderWay'
        BY <1>2, <2>1, StillUnderWay
      <4> QED BY <1>4, <4>1, <4>2
    <3>3. ops[1].targets = links
      BY <3>1, <3>2 DEF LinksInv, LastWritesLinks
    <3> QED BY <1>2, <1>4, <2>1, <3>3
  <2>2. CASE ~(k = 1 /\ ops[1].type = "links")
    <3>1. ASSUME NEW j \in LinksUnderWay PROVE FALSE
      <4>1. j \in 1..Len(ops) /\ ops[j].type = "links" /\ Len(ops) \in Nat
        BY UnderWay
      <4>2. j > k
        <5>1. CASE k = 0
          BY <4>1, <5>1
        <5>2. CASE k = 1
          <6>1. j # 1
            BY <2>2, <4>1, <5>2
          <6> QED BY <4>1, <5>2, <6>1
        <5> QED BY <5>1, <5>2
      <4>3. j - k \in LinksUnderWay'
        BY <1>2, <4>2, StillUnderWay
      <4> QED BY <1>4, <4>3
    <3>2. ~unsaved /\ file'.links = file.links
      BY <1>4, <2>2, <3>1
    <3> QED BY <1>2, <3>1, <3>2 DEF LinksInv, LinksSettled
  <2> QED BY <2>1, <2>2
<1> QED BY <1>1, <1>3, <1>4 DEF LinksInv, LinksSettled

LEMMA LinksAfterRelink ==
    ASSUME DatabaseTypes, NEW k \in {0, 1}, RelinkStep(k),
           \A e \in Environments \ (envs' \cup lingering') : GoneOf(e)'
    PROVE  LinksInv'
  BY LastRelinked DEF LinksInv, LinksGone, LinksSettled

LEMMA LinkLinks ==
    ASSUME DatabaseTypes, LinksInv, NEW s \in Environments, NEW t \in Environments,
           Link(s, t) \/ Unlink(s, t)
    PROVE  LinksInv'
<1>1. links \in AllLinks
  BY DEF DatabaseTypes, DatabaseTypeOK, AllLinks
<1>2. /\ RelinkStep(0) /\ envs' = envs
      /\ \/ links' = [links EXCEPT ![s] = @ \cup {t}] /\ lingering' = lingering \cup {s, t}
         \/ (\A e \in Environments : links'[e] \subseteq links[e]) /\ lingering' = lingering
  BY LinkQueue
<1>3. ASSUME NEW e \in Environments \ (envs' \cup lingering') PROVE GoneOf(e)'
  <2>1. GoneOf(e) /\ links[e] = {} /\ Survive(0)
    BY <1>2, <1>3 DEF LinksInv, LinksGone, GoneOf, RelinkStep
  <2>2. CASE /\ links' = [links EXCEPT ![s] = @ \cup {t}]
             /\ lingering' = lingering \cup {s, t}
    <3>1. e # s /\ e # t
      BY <1>3, <2>2
    <3>2. links'[e] = {} /\ \A w \in Environments : e \notin links[w] => e \notin links'[w]
      BY <1>1, <2>1, <2>2, <3>1 DEF AllLinks
    <3> QED BY <2>1, <3>2, GoneStep
  <2>3. CASE \A w \in Environments : links'[w] \subseteq links[w]
    <3>1. links'[e] = {} /\ \A w \in Environments : e \notin links[w] => e \notin links'[w]
      BY <2>1, <2>3
    <3> QED BY <2>1, <3>1, GoneStep
  <2> QED BY <1>2, <2>2, <2>3
<1> QED BY <1>2, <1>3, LinksAfterRelink

LEMMA RemoveLinks ==
    ASSUME DatabaseTypes, LinksInv, NEW x \in Environments, RemoveEnvironment(x)
    PROVE  LinksInv'
<1>1. links \in AllLinks
  BY DEF DatabaseTypes, DatabaseTypeOK, AllLinks
<1>2. /\ RelinkStep(0) /\ links' = [links EXCEPT ![x] = {}]
      /\ ops'[Len(ops')].then = "targets" /\ ops'[Len(ops')].env = x
      /\ envs' = envs \ {x} /\ lingering' = lingering \ {x}
  BY RemoveQueue DEF RemoveEnvironment
<1>3. Len(ops') \in LinksUnderWay'
  BY <1>2, LastRelinked
<1>4. ASSUME NEW e \in Environments \ (envs' \cup lingering') PROVE GoneOf(e)'
  <2>1. CASE e = x
    <3>1. links'[e] = {}
      BY <1>1, <1>2, <2>1 DEF AllLinks
    <3> QED BY <1>2, <1>3, <2>1, <3>1 DEF GoneOf
  <2>2. CASE e # x
    <3>1. GoneOf(e) /\ links[e] = {} /\ Survive(0)
      BY <1>2, <1>4, <2>2 DEF LinksInv, LinksGone, GoneOf, RelinkStep
    <3>2. links'[e] = {} /\ \A w \in Environments : e \notin links[w] => e \notin links'[w]
      BY <1>1, <1>2, <2>2, <3>1 DEF AllLinks
    <3> QED BY <3>1, <3>2, GoneStep
  <2> QED BY <2>1, <2>2
<1> QED BY <1>2, <1>4, LinksAfterRelink

LEMMA LinksSavedLinks ==
    ASSUME DatabaseTypes, FileInv, LinksInv, LinksSaved
    PROVE  LinksInv'
<1>1. links \in AllLinks
  BY DEF DatabaseTypes, DatabaseTypeOK, AllLinks
<1>2. /\ ops # <<>> /\ ops[1].type = "links" /\ ops[1] \in LinkOps /\ stage = "renamed"
      /\ UNCHANGED <<file, envs, lingering, unsaved>>
  BY LinksSavedQueue DEF LinksSaved, history
<1>3. CASE ops[1].then = "done"
  <2>1. PlainStep(1)
    BY <1>3, LinksSavedQueue
  <2>2. ~unsaved => file.links = ops[1].targets
    BY <1>2 DEF FileInv, InPlace
  <2> QED BY <1>2, <1>3, <2>1, <2>2, LinksAfterPlain
<1>4. CASE ops[1].then # "done"
  <2>1. RelinkStep(1)
    BY <1>4, LinksSavedQueue
  <2>2. ASSUME NEW e \in Environments \ (envs' \cup lingering') PROVE GoneOf(e)'
    <3>1. GoneOf(e) /\ links[e] = {} /\ Survive(1)
      BY <1>2, <2>1, <2>2 DEF LinksInv, LinksGone, GoneOf, RelinkStep
    <3>2. CASE ops[1].then = "targets"
      <4>1. links' = [s \in Environments |-> links[s] \ {ops[1].env}]
        BY <3>2, LinksSavedQueue
      <4>2. links'[e] = {} /\ \A w \in Environments : e \notin links[w] => e \notin links'[w]
        BY <3>1, <4>1
      <4>3. ops[1].env = e => \A w \in Environments : e \notin links'[w]
        BY <4>1
      <4> QED BY <3>1, <4>2, <4>3, GoneStep
    <3>3. CASE ops[1].then # "targets"
      <4>1. links' = links
        BY <3>3, LinksSavedQueue
      <4> QED BY <3>1, <3>3, <4>1, GoneStep
    <3> QED BY <3>2, <3>3
  <2> QED BY <2>1, <2>2, LinksAfterRelink
<1> QED BY <1>3, <1>4

LEMMA CrashLinks ==
    ASSUME DatabaseTypes, LinksInv, Crash
    PROVE  LinksInv'
<1>1. ops' = <<>> /\ links' = file'.links /\ lingering' = Environments
  BY DEF Crash
<1>2. ops' \in Seq(Ops) /\ Len(ops') = 0
  BY <1>1
<1>3. LinksUnderWay' = {}
  BY <1>2, UnderWayNext
<1> QED BY <1>1, <1>3 DEF LinksInv, LastWritesLinks, LinksGone, LinksSettled

LEMMA LinksInvKept ==
    ASSUME DatabaseTypes, OpsAwaited, NamesHeld, Writing, FileInv, LinksInv, [DatabaseNext]_databaseVars
    PROVE  LinksInv'
<1>1. ASSUME PlainStep(0), UNCHANGED <<file, envs, lingering, unsaved>> PROVE LinksInv'
  BY <1>1, LinksAfterPlain
<1>2. CASE UNCHANGED <<ops, file, linkVars, lingering, unsaved>>
  BY <1>1, <1>2, UnchangedQueue DEF linkVars
<1>3. CASE SetReads \/ Written \/ UNCHANGED databaseVars
  BY <1>2, <1>3 DEF SetReads, Written, databaseVars, dbVars, history
<1>4. CASE Renamed
  <2>1. /\ ops' = ops /\ UNCHANGED <<links, envs, lingering>> /\ file' = copy
        /\ ops # <<>> /\ ops[1].type \in {"users", "links"} /\ Head(ops) = ops[1] /\ stage = "renaming"
    BY <1>4, FirstOperation DEF Renamed, Writing, linkVars
  <2>2. PlainStep(0)
    BY <2>1, UnchangedQueue
  <2>3. ASSUME ~unsaved', LinksUnderWay = {} PROVE ~unsaved /\ file'.links = file.links
    <3>1. ops[1].type = "users"
      <4>1. ops[1].type = "links" => 1 \in LinksUnderWay
        BY <2>1, FirstOperation, UnderWay
      <4> QED BY <2>1, <2>3, <4>1
    <3>2. unsaved' = unsaved
      BY <1>4, <2>1, <3>1 DEF Renamed
    <3> QED BY <2>1, <2>3, <3>1, <3>2 DEF FileInv, CopyRight
  <2> QED BY <2>1, <2>2, <2>3, LinksAfterPlain
<1>5. CASE GotUsers
  <2>1. ops # <<>> /\ ops[1].type = "get" /\ PlainStep(1) /\ UNCHANGED <<file, envs, lingering, unsaved>>
    BY <1>5, GotUsersQueue DEF GotUsers, linkVars, history
  <2> QED BY <2>1, LinksAfterPlain
<1>6. CASE Saved
  <2>1. ops # <<>> /\ ops[1].type = "users" /\ PlainStep(1) /\ UNCHANGED <<file, envs, lingering, unsaved>>
    BY <1>6, SavedStep DEF Saved, linkVars
  <2> QED BY <2>1, LinksAfterPlain
<1>7. CASE LinksSaved
  BY <1>7, LinksSavedLinks
<1>8. CASE Quarantine \/ FileFails
  <2>1. ops # <<>> /\ Rejected(Head(ops)) /\ links' = links /\ envs' = envs
    BY <1>8 DEF Quarantine, FileFails, linkVars
  <2>2. /\ PlainStep(1) /\ lingering \subseteq lingering' /\ (unsaved => unsaved') /\ unsaved' \in BOOLEAN
        /\ ops[1].type = "links" => /\ unsaved' = TRUE
                                    /\ ops[1].then = "targets" => ops[1].env \in lingering'
    BY <2>1, RejectedQueue
  <2>3. ~unsaved' => ~unsaved /\ file' = file
    BY <1>8, <2>2 DEF Quarantine, FileFails, FileInv, CorruptKnown
  <2> QED BY <2>1, <2>2, <2>3, LinksAfterPlain
<1>9. CASE Damage
  <2>1. UNCHANGED <<ops, links, envs, lingering>> /\ unsaved' = TRUE
    BY <1>9 DEF Damage, linkVars
  <2>2. PlainStep(0)
    BY <2>1, UnchangedQueue
  <2> QED BY <2>1, <2>2, LinksAfterPlain
<1>10. CASE Crash
  BY <1>10, CrashLinks
<1>11. ASSUME NEW r \in Requests, NEW m \in Monitors, NEW kind \in {"add", "remove", "login"},
             NEW u \in Users, MonitorMessage(r, m, kind, u)
       PROVE  LinksInv'
  <2>1. UNCHANGED <<file, links, envs, lingering, unsaved>> /\ (ops' = ops \/ ops' = Append(ops, GetUsers(r)))
    BY <1>11 DEF MonitorMessage, linkVars, history
  <2>2. GetUsers(r) \in UserOps
    BY DEF GetUsers, UserOps
  <2> QED BY <1>1, <2>1, <2>2, UnchangedQueue, AppendedQueue
<1>12. ASSUME NEW r \in Requests, NEW right \in BOOLEAN, Hashed(r, right)
       PROVE  LinksInv'
  <2>1. UNCHANGED <<file, links, envs, lingering, unsaved>> /\ (ops' = ops \/ ops' = Append(ops, SetUsers(r)))
    BY <1>12 DEF Hashed, linkVars, history
  <2>2. SetUsers(r) \in UserOps
    BY DEF SetUsers, UserOps
  <2> QED BY <1>1, <2>1, <2>2, UnchangedQueue, AppendedQueue
<1>13. ASSUME NEW s \in Environments, NEW t \in Environments, Link(s, t) \/ Unlink(s, t)
       PROVE  LinksInv'
  BY <1>13, LinkLinks
<1>14. ASSUME NEW e \in Environments, RemoveEnvironment(e) PROVE LinksInv'
  BY <1>14, RemoveLinks
<1> QED BY <1>3, <1>4, <1>5, <1>6, <1>7, <1>8, <1>9, <1>10, <1>11, <1>12, <1>13, <1>14 DEF DatabaseNext, Going

----------------------------------------------------------------------------
(* What the database promises *)

LEMMA DatabaseStarts == DatabaseInit => DatabaseInv
<1> SUFFICES ASSUME DatabaseInit PROVE DatabaseInv
  OBVIOUS
<1>1. /\ file = Stored /\ links = Stored.links /\ promised = Stored.users /\ ops = <<>>
      /\ stage = "reading" /\ copy = Empty /\ tmp = "none" /\ lingering = {} /\ envs = Environments
      /\ overlapped = FALSE /\ unsaved = FALSE /\ pendingUsers = {}
  BY DEF DatabaseInit
<1>2. Stored \in Records /\ Stored # Corrupt
  BY DatabaseAssumption DEF Records
<1>3. req = [r \in Requests |-> NoRequest] /\ base = [r \in Requests |-> NoUsers]
      /\ user = [m \in Monitors |-> Absent]
  BY DEF DatabaseInit
<1>4. NoRequest \in RequestStates /\ NoRequest.pc = "unsent" /\ NoUsers \in AllUsers
  BY DEF NoRequest, RequestStates, NoUsers, AllUsers
<1>5. Waiting = {}
  BY <1>3, <1>4 DEF Waiting
<1>6. ops \in Seq(Ops) /\ Len(ops) = 0 /\ LinksUnderWay = {}
  BY <1>1 DEF LinksUnderWay
<1>7. DatabaseTypes
  <2>1. DiskTyped
    BY <1>1, <1>2, EmptyFile DEF DiskTyped
  <2>2. MemoryTyped
    BY <1>1, <1>2, <1>3 DEF MemoryTyped, Records, AllLinks, AllUsers
  <2>3. MessagesTyped
    BY <1>1, <1>3, <1>4, <1>5 DEF MessagesTyped
  <2>4. \A r \in Requests : req[r].pc \in {"unsent", "get", "hash", "set", "answered"}
    BY <1>3, <1>4
  <2> QED BY <1>6, <2>1, <2>2, <2>3, <2>4
          DEF DatabaseTypes, DatabaseTypeOK, DiskTyped, MemoryTyped, MessagesTyped, AllLinks, AllUsers
<1>8. OpsAwaited /\ Writing /\ NamesHeld
  BY <1>1, <1>5, <1>6 DEF OpsAwaited, Writing, NamesHeld
<1>9. CopyRight /\ InPlace /\ CorruptKnown /\ Kept
  BY <1>1, <1>2 DEF CopyRight, InPlace, CorruptKnown, Kept
<1>10. LastWritesLinks /\ LinksGone /\ LinksSettled
  BY <1>1, <1>6 DEF LastWritesLinks, LinksGone, LinksSettled
<1> QED BY <1>7, <1>8, <1>9, <1>10 DEF DatabaseInv

LEMMA DatabaseSteps == DatabaseInv /\ [DatabaseNext]_databaseVars => DatabaseInv'
<1> SUFFICES ASSUME DatabaseInv, [DatabaseNext]_databaseVars PROVE DatabaseInv'
  OBVIOUS
<1>1. DatabaseTypes /\ OpsAwaited /\ NamesHeld /\ Writing /\ FileInv /\ LinksInv
  BY DEF DatabaseInv, FileInv, LinksInv
<1>2. DatabaseTypes' /\ OpsAwaited' /\ NamesHeld' /\ Writing' /\ FileInv' /\ LinksInv'
  BY <1>1, TypesKept, AwaitedKept, MessagesKept, WritingKept, FileKept, LinksInvKept
<1> QED BY <1>2 DEF DatabaseInv, FileInv, LinksInv

LEMMA DatabaseHolds == DatabaseSpec => []DatabaseInv
  BY DatabaseStarts, DatabaseSteps, PTL DEF DatabaseSpec

(* A name is shut to other monitors exactly while a message adds or removes it,
   however the message ends (fisk-scheduler.ts, pendingUsers). *)
THEOREM NamesFreed == DatabaseSpec => []NamesAreFreed
<1>1. DatabaseInv => NamesAreFreed
  BY DEF DatabaseInv, DatabaseTypes, NamesHeld, NamesAreFreed
<1> QED BY <1>1, DatabaseHolds, PTL

(* Every user in the file is what a monitor was told, or is about to be told, over
   every failure and crash (Database.ts, set), unless two messages overlapped. *)
THEOREM ToldIsKept == DatabaseSpec => []KeptUnlessOverlapped
<1>1. DatabaseInv => KeptUnlessOverlapped
  <2> SUFFICES ASSUME DatabaseInv, ~overlapped
               PROVE  /\ file # Corrupt
                      /\ \A u \in Users :
                            \/ file.users[u] = promised[u]
                            \/ /\ Performing("users") /\ stage = "renamed"
                               /\ req[Head(ops).by].name = u
                               /\ file.users[u] = Entry(Head(ops).by)
    BY DEF KeptUnlessOverlapped
  <2>1. stage = "renamed" => ops # <<>> /\ Head(ops) = ops[1]
    BY FirstOperation DEF DatabaseInv, Writing
  <2> QED BY <2>1 DEF DatabaseInv, Kept, Performing
<1> QED BY <1>1, DatabaseHolds, PTL

(* Between writes the file holds the links in force, and none of a removed
   environment (Environments.ts, remove). *)
THEOREM LinksAreKept == DatabaseSpec => []LinksKept
<1>1. DatabaseInv => LinksKept
  BY DEF DatabaseInv, LinksKept, LinksSettled, LinksGone, GoneOf, CorruptKnown
<1> QED BY <1>1, DatabaseHolds, PTL
----------------------------------------------------------------------------
(* EnvironmentUpload, of one environment by any clients *)

\* Until uploads overlap, one at a time is under way; once it has been read the file
\* is whole, and what made the environment known has ended.
OneUpload ==
    ~raced =>
       /\ \A j, k \in Clients :
             upload[j] \in Uploading /\ upload[k] \in Uploading => j = k
       /\ \A k \in Clients :
             /\ upload[k] = "read" => disk \in whole
             /\ known => upload[k] \notin Uploading
       /\ known => disk \in whole

\* A descriptor in use has a file.
Opened == \A k \in Clients : upload[k] \in BeingWritten => descriptor[k] \in Clients

UploadInv == UploadTypeOK /\ Opened /\ OneUpload

LEMMA UploadTypes ==
    ASSUME UploadTypeOK, Opened, NEW k \in Clients,
           \/ Compile(k) \/ Prepare(k) \/ ReceiveLast(k) \/ ReceiveForNothing(k)
           \/ Error(k) \/ Close(k) \/ SaveFails(k) \/ AllSaved(k)
           \/ Untar(k) \/ Completed(k) \/ Failed(k)
    PROVE  UploadTypeOK' /\ Opened'
<1> USE DEF Opened, BeingWritten, Uploading, Reading, Stuck, StuckIn, UploadTypeOK, UploadStages, Move, HangUp, fileVars
<1>1. CASE Compile(k)
  <2>1. clientConn' \in [Clients -> {"none", "open", "closing", "closed"}]
    BY <1>1 DEF Compile
  <2>2. CASE known \/ waiting
    BY <1>1, <2>1, <2>2 DEF Compile
  <2>3. CASE ~(known \/ waiting)
    <3>1. waiting' \in BOOLEAN
      BY <1>1, <2>3, Zenon DEF Compile
    <3>2. asked' = asked \cup {k}
      BY <1>1, <2>3 DEF Compile
    <3>3. upload' = [upload EXCEPT ![k] = "asked"]
      BY <1>1, <2>3, Zenon DEF Compile
    <3>4. UNCHANGED <<known, raced, disk, descriptor, cut, whole>>
      BY <1>1 DEF Compile
    <3> QED BY <2>1, <3>1, <3>2, <3>3, <3>4
  <2> QED BY <2>2, <2>3
<1>2. CASE Prepare(k)
  <2>1. CASE known
    BY <1>2, <2>1 DEF Prepare
  <2>2. CASE ~known
    <3> DEFINE f == IF disk = NoFile THEN k ELSE disk
    <3>1. /\ f \in Clients
          /\ disk' = f /\ descriptor' = [descriptor EXCEPT ![k] = f]
          /\ cut' = cut \cup {j \in Clients : descriptor[j] = f}
          /\ whole' = whole \ {f}
      BY <1>2, <2>2 DEF Prepare
    <3>2. /\ upload' = [upload EXCEPT ![k] = "receiving"]
          /\ raced' \in BOOLEAN
          /\ UNCHANGED <<clientConn, asked, waiting, known>>
      BY <1>2, <2>2 DEF Prepare
    <3> QED BY <3>1, <3>2
  <2> QED BY <2>1, <2>2
<1>3. CASE ReceiveLast(k) \/ ReceiveForNothing(k)
  BY <1>3 DEF ReceiveLast, ReceiveForNothing
<1>4. CASE Error(k)
  <2>1. CASE upload[k] \in BeingWritten
    <3>1. Discard(k) /\ HangUp(k) /\ UNCHANGED <<asked, known, descriptor, cut, whole, raced>>
      BY <1>4, <2>1 DEF Error
    <3>2. CASE disk # NoFile
      BY <2>1, <3>1, <3>2 DEF Discard
    <3>3. CASE disk = NoFile
      <4> DEFINE s == StuckIn(upload[k])
      <4>1. s \in UploadStages \ BeingWritten
        BY <2>1
      <4>2. upload' = [upload EXCEPT ![k] = s] /\ UNCHANGED <<disk, waiting>>
        BY <3>1, <3>3 DEF Discard
      <4> HIDE DEF s
      <4> QED BY <3>1, <4>1, <4>2
    <3> QED BY <3>2, <3>3
  <2>2. CASE upload[k] \notin BeingWritten
    BY <1>4, <2>2 DEF Error
  <2> QED BY <2>1, <2>2
<1>5. CASE Close(k)
  BY <1>5 DEF Close, Discard
<1>6. CASE SaveFails(k)
  BY <1>6 DEF SaveFails
<1>7. CASE AllSaved(k)
  BY <1>7 DEF AllSaved
<1>8. CASE Untar(k)
  BY <1>8 DEF Untar
<1>9. CASE Completed(k) \/ Failed(k)
  BY <1>9 DEF Completed, Failed
<1> QED BY <1>1, <1>2, <1>3, <1>4, <1>5, <1>6, <1>7, <1>8, <1>9

\* An upload goes on or ends, and no other begins.
LEMMA UploadMoves ==
    ASSUME OneUpload, NEW k \in Clients, NEW s,
           \A j \in Clients : upload'[j] = IF j = k THEN s ELSE upload[j],
           UNCHANGED <<known, raced>>,
           s \in Uploading => upload[k] \in Uploading,
           s = "read" => disk' \in whole',
           (disk' = disk /\ whole \subseteq whole') \/ upload[k] \in BeingWritten
    PROVE  OneUpload'
<1> USE DEF BeingWritten, Uploading, OneUpload
<1>1. ASSUME ~raced, upload[k] \in BeingWritten
      PROVE  ~known /\ \A j \in Clients : upload[j] # "read"
  BY <1>1
<1> QED BY <1>1

LEMMA UploadSteps == UploadInv /\ [UploadNext]_uploadVars => UploadInv'
<1> USE DEF BeingWritten, Uploading, Move
<1> SUFFICES ASSUME UploadInv, [UploadNext]_uploadVars PROVE UploadInv'
  OBVIOUS
<1>1. CASE UNCHANGED uploadVars
  BY <1>1 DEF uploadVars, UploadInv, UploadTypeOK, Opened, OneUpload
<1>2. ASSUME NEW k \in Clients,
             \/ Compile(k) \/ Prepare(k) \/ ReceiveLast(k)
             \/ ReceiveForNothing(k) \/ Error(k) \/ Close(k)
             \/ SaveFails(k) \/ AllSaved(k) \/ Untar(k)
             \/ Completed(k) \/ Failed(k)
      PROVE  UploadInv'
  <2>1. UploadTypeOK' /\ Opened'
    BY <1>2, UploadTypes DEF UploadInv
  <2> SUFFICES OneUpload'
    BY <2>1 DEF UploadInv
  <2>2. OneUpload /\ upload \in [Clients -> UploadStages]
    BY DEF UploadInv, UploadTypeOK
  <2>15. \A s : Move(k, s) => \A j \in Clients : upload'[j] = IF j = k THEN s ELSE upload[j]
    BY <2>2
  <2>3. CASE UNCHANGED <<upload, known, raced, disk, whole>>
    BY <2>2, <2>3 DEF OneUpload
  <2>4. CASE Compile(k)
    <3>1. CASE known \/ waiting
      BY <2>3, <2>4, <3>1 DEF Compile, fileVars
    <3>2. CASE ~(known \/ waiting)
      BY <2>2, <2>4, <3>2, UploadMoves DEF Compile, fileVars
    <3> QED BY <3>1, <3>2
  <2>5. CASE Prepare(k)
    <3>1. CASE known
      BY <2>2, <2>5, <3>1, UploadMoves DEF Prepare, fileVars
    <3>2. CASE ~known
      <4>1. /\ Move(k, "receiving") /\ known' = known
            /\ raced' = (raced \/ \E j \in Clients : upload[j] \in Uploading)
        BY <2>5, <3>2 DEF Prepare
      <4>2. \A j \in Clients : upload'[j] = IF j = k THEN "receiving" ELSE upload[j]
        BY <2>2, <4>1 DEF Move
      <4> QED BY <2>2, <3>2, <4>1, <4>2 DEF OneUpload
    <3> QED BY <3>1, <3>2
  <2>6. CASE ReceiveLast(k) \/ ReceiveForNothing(k)
    BY <2>2, <2>6, UploadMoves
       DEF ReceiveLast, ReceiveForNothing, fileVars
  <2>7. ASSUME Discard(k), upload[k] \in BeingWritten, UNCHANGED <<known, whole, raced>>
        PROVE  OneUpload'
    <3>1. Move(k, "over") \/ Move(k, "stuck receiving") \/ Move(k, "stuck saving")
      BY <2>7 DEF Discard, StuckIn
    <3> QED BY <2>2, <2>7, <2>15, <3>1, UploadMoves
  <2>8. CASE Error(k)
    <3>1. CASE upload[k] \in BeingWritten
      BY <2>7, <2>8, <3>1 DEF Error, Reading, Stuck, StuckIn
    <3>2. CASE upload[k] \notin BeingWritten
      BY <2>3, <2>8, <3>2 DEF Error
    <3> QED BY <3>1, <3>2
  <2>9. CASE Close(k)
    <3>1. UNCHANGED <<known, whole, raced>>
      BY <2>9 DEF Close
    <3>2. \/ UNCHANGED <<upload, disk>>
          \/ upload[k] = "receiving" /\ Discard(k)
          \/ Move(k, "over") /\ disk' = disk
      BY <2>9 DEF Close
    <3>3. CASE upload[k] = "receiving" /\ Discard(k)
      BY <2>7, <3>1, <3>3
    <3>4. CASE Move(k, "over") /\ disk' = disk
      BY <2>2, <3>1, <3>4, UploadMoves
    <3> QED BY <2>3, <3>1, <3>2, <3>3, <3>4
  <2>10. CASE SaveFails(k)
    <3>1. PICK s : Move(k, s) /\ s \in {"broken", "over"}
      BY <2>10 DEF SaveFails
    <3> QED BY <2>2, <2>10, <3>1, UploadMoves DEF SaveFails, fileVars
  <2>11. CASE AllSaved(k)
    BY <2>2, <2>11, UploadMoves DEF AllSaved
  <2>12. CASE Untar(k)
    <3>1. PICK s : /\ Move(k, s) /\ s \in {"read", "unreadable"} /\ (s = "read" => disk \in whole)
                   /\ upload[k] = "completing" /\ UNCHANGED <<known, raced, disk, whole>>
      BY <2>12 DEF Untar, fileVars
    <3> QED BY <2>2, <3>1, UploadMoves
  <2>13. CASE Completed(k)
    <3>1. /\ upload[k] = "read" /\ known' /\ UNCHANGED <<raced, disk, whole>>
          /\ \A j \in Clients : upload'[j] = IF j = k THEN "over" ELSE upload[j]
      BY <2>2, <2>13 DEF Completed, Move, fileVars
    <3> QED BY <2>2, <3>1 DEF OneUpload
  <2>14. CASE Failed(k)
    BY <2>2, <2>14, UploadMoves DEF Failed, fileVars
  <2> QED BY <1>2, <2>4, <2>5, <2>6, <2>8, <2>9, <2>10, <2>11, <2>12, <2>13, <2>14
<1> QED BY <1>1, <1>2 DEF UploadNext

(* For any clients, whose connections fail or close at any time while the scheduler
   writes, closes and reads their uploads: as long as no two uploads overlapped, what
   it lists is a whole upload on disk. *)
THEOREM ListedIsWhole == UploadSpec => []WholeUnlessRaced
<1>1. ASSUME UploadInit PROVE UploadInv
  <2>1. UploadTypeOK
    BY <1>1 DEF UploadInit, UploadTypeOK, UploadStages
  <2> QED BY <1>1, <2>1 DEF UploadInit, UploadInv, Opened, OneUpload, BeingWritten, Uploading
<1>2. UploadInv => WholeUnlessRaced
  BY DEF UploadInv, OneUpload, WholeUnlessRaced
<1> QED BY <1>1, <1>2, UploadSteps, PTL DEF UploadSpec
=============================================================================
