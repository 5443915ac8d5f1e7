---------------------------- MODULE SlotsProofs ----------------------------
(***************************************************************************)
(* The slot pools of the daemon, for any number of connections and any     *)
(* capacities: the safety properties of DaemonSlots, and that each pool    *)
(* implements FifoSemaphore.  Then fiskc processes and their daemon, for   *)
(* any number of them and any replacements of the compiler: the protocol   *)
(* makes only the requests that DaemonSlots takes, no assertion of the     *)
(* daemon fails, the slots bound what runs, and who looks up a compiler    *)
(* learns of the right one.                                                *)
(*                                                                         *)
(* The invariant is per pool: holders and waiters are disjoint, waiters    *)
(* are distinct and exist only beside a full pool (that is what makes one  *)
(* release owe one promotion), and the requested... flags say exactly who  *)
(* holds or waits (that is what makes a disconnect release the right       *)
(* pools).                                                                 *)
(***************************************************************************)
EXTENDS FiskcSlots, QueueTheorems, FiniteSetTheorems

----------------------------------------------------------------------------
(* The daemon *)

\* One pool by itself: u its holders, q its queue, n its capacity.
PoolOK(u, q, n) ==
    /\ u \subseteq Conns
    /\ q \in Seq(Conns)
    /\ Distinct(q)
    /\ u \cap ToSet(q) = {}
    /\ Cardinality(u) <= n
    /\ q # <<>> => Cardinality(u) >= n

PoolsOK == \A k \in Kinds : PoolOK(used[k], pending[k], Count[k])

\* The flags of a connection are its memberships.
FlagsOK ==
    \A c \in Conns, k \in Kinds :
       k \in requested[c] <=> c \in used[k] \cup ToSet(pending[k])

GoneOK == \A c \in Conns : conn[c] # "open" => requested[c] = {}

\* While a lookup runs its connection was accepted and asks for nothing else.
LookupsOK ==
    \A c \in lookups : conn[c] # "new" /\ requested[c] \cap {"cpp", "local"} = {}

SlotInv ==
    /\ TypeOK
    /\ PoolsOK
    /\ FlagsOK
    /\ GoneOK
    /\ LookupsOK
    /\ HoldersWereTold
    /\ SubscribersUpToDate

----------------------------------------------------------------------------
(* One pool *)

(* A set of holders is finite and its size is a number. *)
LEMMA HoldersFinite ==
    ASSUME NEW u \in SUBSET Conns
    PROVE  IsFiniteSet(u) /\ Cardinality(u) \in Nat
BY SlotsAssumption, FS_Subset, FS_CardinalityType

(* The capacity of a pool is a number. *)
LEMMA CountType == Count \in [Kinds -> Nat]
BY SlotsAssumption DEF Count, Kinds

(* Slots.acquire keeps a pool in order, with room and without. *)
LEMMA PoolAcquire ==
    ASSUME NEW u, NEW q, NEW n \in Nat, PoolOK(u, q, n),
           NEW c \in Conns, c \notin u, c \notin ToSet(q)
    PROVE  IF Cardinality(u) < n
           THEN PoolOK(u \cup {c}, q, n)
           ELSE PoolOK(u, Append(q, c), n)
<1>1. IsFiniteSet(u) /\ Cardinality(u) \in Nat
  BY HoldersFinite DEF PoolOK
<1>2. CASE Cardinality(u) < n
  <2>1. Cardinality(u \cup {c}) = Cardinality(u) + 1
    BY <1>1, FS_AddElement
  <2>. QED  BY <1>1, <1>2, <2>1 DEF PoolOK
<1>3. CASE ~(Cardinality(u) < n)
  <2>1. /\ Append(q, c) \in Seq(Conns) /\ Distinct(Append(q, c))
        /\ ToSet(Append(q, c)) = ToSet(q) \cup {c}
    BY AppendElements DEF PoolOK
  <2>. QED  BY <1>1, <1>3, <2>1 DEF PoolOK
<1>. QED  BY <1>2, <1>3

\* What c leaves behind in a pool it leaves: the heir of its slot, the holders
\* and the queue.
Heir(u, q, c) ==
    IF c \in u /\ Without(q, c) # <<>> THEN {Head(Without(q, c))} ELSE {}
HoldersLeft(u, q, c) == (u \ {c}) \cup Heir(u, q, c)
QueueLeft(u, q, c) ==
    IF Heir(u, q, c) = {} THEN Without(q, c) ELSE Tail(Without(q, c))

(* Slots.release keeps a pool in order: the place of a holder goes to the head of
   the queue, a waiter just leaves, and c is in the pool no more. *)
LEMMA PoolRelease ==
    ASSUME NEW u, NEW q, NEW n \in Nat, PoolOK(u, q, n), NEW c \in Conns
    PROVE  /\ PoolOK(HoldersLeft(u, q, c), QueueLeft(u, q, c), n)
           /\ c \notin HoldersLeft(u, q, c) /\ c \notin ToSet(QueueLeft(u, q, c))
           /\ HoldersLeft(u, q, c) \cup ToSet(QueueLeft(u, q, c))
                 = (u \cup ToSet(q)) \ {c}
           /\ Heir(u, q, c) \subseteq ToSet(q) \ {c}
<1> DEFINE r == Without(q, c)
           p == Heir(u, q, c)
           v == HoldersLeft(u, q, c)
           s == QueueLeft(u, q, c)
<1>a. /\ p = IF c \in u /\ r # <<>> THEN {Head(r)} ELSE {}
      /\ v = (u \ {c}) \cup p
      /\ s = IF p = {} THEN r ELSE Tail(r)
  BY DEF Heir, HoldersLeft, QueueLeft
<1>1. IsFiniteSet(u) /\ Cardinality(u) \in Nat
  BY HoldersFinite DEF PoolOK
<1>2. r \in Seq(Conns) /\ ToSet(r) = ToSet(q) \ {c} /\ Distinct(r)
  BY WithoutElements DEF PoolOK
<1>3. q = <<>> => r = <<>>
  BY EmptyQueue DEF Without
<1>b. SUFFICES /\ PoolOK(v, s, n) /\ c \notin v /\ c \notin ToSet(s)
               /\ v \cup ToSet(s) = (u \cup ToSet(q)) \ {c}
               /\ p \subseteq ToSet(q) \ {c}
  OBVIOUS
<1>. HIDE DEF r, p, v, s
<1>4. CASE c \notin u
  <2>1. v = u /\ s = r /\ p = {}
    BY <1>a, <1>4
  <2>2. r # <<>> => Cardinality(u) >= n
    BY <1>3 DEF PoolOK
  <2>. QED  BY <1>2, <1>4, <2>1, <2>2 DEF PoolOK
<1>5. CASE c \in u /\ r = <<>>
  <2>1. v = u \ {c} /\ s = <<>> /\ p = {}
    BY <1>a, <1>5
  <2>2. Cardinality(u \ {c}) = Cardinality(u) - 1
    BY <1>1, <1>5, FS_RemoveElement
  <2>3. c \notin ToSet(q)
    BY <1>5 DEF PoolOK
  <2>. QED  BY <1>1, <1>2, <1>5, <2>1, <2>2, <2>3, EmptyQueue DEF PoolOK
<1>6. CASE c \in u /\ r # <<>>
  <2> DEFINE h == Head(r)
  <2>1. p = {h} /\ v = (u \ {c}) \cup {h} /\ s = Tail(r)
    BY <1>a, <1>6
  <2>2. /\ h \in ToSet(r) /\ h \in Conns
        /\ Tail(r) \in Seq(Conns)
        /\ ToSet(Tail(r)) = ToSet(r) \ {h}
        /\ Distinct(Tail(r))
    BY <1>2, <1>6, TailElements
  <2>. HIDE DEF h
  <2>3. h \notin u /\ h # c
    BY <1>2, <2>2 DEF PoolOK
  <2>4. Cardinality(v) = Cardinality(u)
    <3>1. IsFiniteSet(u \ {c}) /\ Cardinality(u \ {c}) = Cardinality(u) - 1
      BY <1>1, <1>6, FS_RemoveElement
    <3>2. Cardinality((u \ {c}) \cup {h}) = Cardinality(u \ {c}) + 1
      BY <2>3, <3>1, FS_AddElement
    <3>3. Cardinality(v) = Cardinality((u \ {c}) \cup {h})
      BY <2>1
    <3>. QED  BY <1>1, <3>1, <3>2, <3>3
  <2>5. Cardinality(u) >= n
    BY <1>3, <1>6 DEF PoolOK
  <2>6. c \notin ToSet(q)
    BY <1>6 DEF PoolOK
  <2>. QED  BY <1>2, <1>6, <2>1, <2>2, <2>3, <2>4, <2>5, <2>6 DEF PoolOK
<1>. QED  BY <1>4, <1>5, <1>6

----------------------------------------------------------------------------
(* All pools *)

(* The broadcast leaves every subscriber up to date. *)
LEMMA BroadcastInv ==
    ASSUME SlotInv, used' \in [Kinds -> SUBSET Conns], BroadcastSlotsInfo,
           UNCHANGED subscribers
    PROVE  lastInfo' \in [Monitors -> [Kinds -> Nat]] /\ SubscribersUpToDate'
<1>1. SlotsInfo' \in [Kinds -> Nat]
  BY HoldersFinite DEF SlotsInfo
<1>. QED  BY <1>1 DEF SlotInv, TypeOK, SubscribersUpToDate, BroadcastSlotsInfo

(* A connection that is in no pool of kind k acquires there. *)
LEMMA AcquireInv ==
    ASSUME SlotInv, NEW k \in Kinds, NEW c \in Conns, k \notin requested[c],
           Acquire(k, c), requested' = [requested EXCEPT ![c] = @ \cup {k}],
           UNCHANGED subscribers
    PROVE  /\ used' \in [Kinds -> SUBSET Conns]
           /\ pending' \in [Kinds -> Seq(Conns)]
           /\ requested' \in [Conns -> SUBSET Kinds]
           /\ granted' \in [Conns -> SUBSET Kinds]
           /\ lastInfo' \in [Monitors -> [Kinds -> Nat]]
           /\ PoolsOK' /\ FlagsOK' /\ HoldersWereTold' /\ SubscribersUpToDate'
<1> USE DEF SlotInv, TypeOK
<1>1. c \notin used[k] /\ c \notin ToSet(pending[k])
  BY DEF FlagsOK
<1>2. PoolOK(used[k], pending[k], Count[k]) /\ Count[k] \in Nat
  BY CountType DEF PoolsOK
<1>3. IF HasRoom(k)
      THEN PoolOK(used[k] \cup {c}, pending[k], Count[k])
      ELSE PoolOK(used[k], Append(pending[k], c), Count[k])
  BY <1>1, <1>2, PoolAcquire DEF HasRoom
<1>4. CASE HasRoom(k)
  <2>1. /\ used' = [used EXCEPT ![k] = @ \cup {c}]
        /\ granted' = [granted EXCEPT ![c] = @ \cup {k}]
        /\ pending' = pending
        /\ BroadcastSlotsInfo
    BY <1>4 DEF Acquire
  <2>2. used' \in [Kinds -> SUBSET Conns]
    BY <2>1
  <2>3. PoolsOK'
    BY <1>3, <1>4, <2>1 DEF PoolsOK, Count
  <2>4. FlagsOK' /\ HoldersWereTold'
    BY <2>1 DEF FlagsOK, HoldersWereTold
  <2>. QED  BY <2>1, <2>2, <2>3, <2>4, BroadcastInv
<1>5. CASE ~HasRoom(k)
  <2>1. /\ used' = used /\ granted' = granted
        /\ pending' = [pending EXCEPT ![k] = Append(@, c)]
        /\ BroadcastSlotsInfo
    BY <1>5 DEF Acquire
  <2>2. /\ Append(pending[k], c) \in Seq(Conns)
        /\ ToSet(Append(pending[k], c)) = ToSet(pending[k]) \cup {c}
    BY <1>1, <1>2, AppendElements DEF PoolOK
  <2>3. PoolsOK'
    BY <1>3, <1>5, <2>1 DEF PoolsOK, Count
  <2>4. FlagsOK' /\ HoldersWereTold'
    BY <2>1, <2>2 DEF FlagsOK, HoldersWereTold
  <2>. QED  BY <2>1, <2>2, <2>3, <2>4, BroadcastInv
<1>. QED  BY <1>4, <1>5

(* A connection leaves some of the pools it is in. *)
LEMMA ReleaseInv ==
    ASSUME SlotInv, NEW c \in Conns, NEW ks \in SUBSET Kinds,
           Release(c, ks), requested' = [requested EXCEPT ![c] = @ \ ks],
           UNCHANGED subscribers
    PROVE  /\ used' \in [Kinds -> SUBSET Conns]
           /\ pending' \in [Kinds -> Seq(Conns)]
           /\ requested' \in [Conns -> SUBSET Kinds]
           /\ granted' \in [Conns -> SUBSET Kinds]
           /\ lastInfo' \in [Monitors -> [Kinds -> Nat]]
           /\ PoolsOK' /\ FlagsOK' /\ HoldersWereTold' /\ SubscribersUpToDate'
<1> USE DEF SlotInv, TypeOK
<1>1. \A k \in Kinds :
         /\ used'[k] = IF k \in ks THEN (used[k] \ {c}) \cup Promoted(k, c) ELSE used[k]
         /\ pending'[k] = IF k \notin ks THEN pending[k]
                          ELSE IF Promoted(k, c) = {} THEN Without(pending[k], c)
                          ELSE Tail(Without(pending[k], c))
  BY DEF Release
<1>2. ASSUME NEW k \in ks
      PROVE  /\ PoolOK(used'[k], pending'[k], Count[k])
             /\ c \notin used'[k] /\ c \notin ToSet(pending'[k])
             /\ used'[k] \cup ToSet(pending'[k])
                   = (used[k] \cup ToSet(pending[k])) \ {c}
             /\ Promoted(k, c) \subseteq ToSet(pending[k]) \ {c}
             /\ used'[k] = (used[k] \ {c}) \cup Promoted(k, c)
  <2>1. PoolOK(used[k], pending[k], Count[k]) /\ Count[k] \in Nat
    BY CountType DEF PoolsOK
  <2>2. Promoted(k, c) = Heir(used[k], pending[k], c)
    BY DEF Promoted, Heir
  <2>3. used'[k] = HoldersLeft(used[k], pending[k], c)
    BY <1>1, <2>2 DEF HoldersLeft
  <2>4. pending'[k] = QueueLeft(used[k], pending[k], c)
    BY <1>1, <2>2 DEF QueueLeft
  <2>5. /\ PoolOK(used'[k], pending'[k], Count[k])
        /\ c \notin used'[k] /\ c \notin ToSet(pending'[k])
        /\ used'[k] \cup ToSet(pending'[k]) = (used[k] \cup ToSet(pending[k])) \ {c}
        /\ Promoted(k, c) \subseteq ToSet(pending[k]) \ {c}
    BY <2>1, <2>2, <2>3, <2>4, PoolRelease
  <2>6. used'[k] = (used[k] \ {c}) \cup Promoted(k, c)
    BY <1>1
  <2>. QED  BY <2>5, <2>6
<1>3. ASSUME NEW k \in Kinds, k \notin ks
      PROVE  used'[k] = used[k] /\ pending'[k] = pending[k]
  BY <1>1, <1>3
<1>4. PoolsOK'
  <2>1. ASSUME NEW k \in Kinds PROVE PoolOK(used'[k], pending'[k], Count[k])
    BY <1>2, <1>3 DEF PoolsOK
  <2>. QED  BY <2>1 DEF PoolsOK, Count
<1>5. /\ used' \in [Kinds -> SUBSET Conns]
      /\ pending' \in [Kinds -> Seq(Conns)]
  <2>1. \A k \in Kinds : used'[k] \in SUBSET Conns /\ pending'[k] \in Seq(Conns)
    BY <1>2, <1>3 DEF PoolOK
  <2>. QED  BY <2>1 DEF Release
<1>6. FlagsOK'
  BY <1>2, <1>3 DEF FlagsOK
<1>7. /\ granted' \in [Conns -> SUBSET Kinds]
      /\ \A d \in Conns : granted'[d] = (granted[d] \ (IF d = c THEN ks ELSE {}))
                                           \cup {k \in ks : d \in Promoted(k, c)}
  BY DEF Release
<1>8. HoldersWereTold'
  <2>1. ASSUME NEW d \in Conns, NEW k \in Kinds
        PROVE  k \in granted'[d] <=> d \in used'[k]
    <3>0. k \in granted[d] <=> d \in used[k]
      BY DEF HoldersWereTold
    <3>1. CASE k \notin ks
      BY <1>3, <1>7, <3>0, <3>1
    <3>2. CASE k \in ks
      BY <1>2, <1>7, <3>0, <3>2
    <3>. QED  BY <3>1, <3>2
  <2>. QED  BY <2>1 DEF HoldersWereTold
<1>9. BroadcastSlotsInfo
  BY DEF Release
<1>10. requested' \in [Conns -> SUBSET Kinds]
  OBVIOUS
<1>. QED  BY <1>4, <1>5, <1>6, <1>7, <1>8, <1>9, <1>10, BroadcastInv
----------------------------------------------------------------------------
(* The invariant *)

(* The daemon starts in order. *)
LEMMA SlotInvInit == Init => SlotInv
<1> SUFFICES ASSUME Init PROVE SlotInv
  OBVIOUS
<1> USE DEF Init
<1>1. IsFiniteSet({}) /\ Cardinality({}) = 0
  BY FS_EmptySet
<1>2. SlotsInfo \in [Kinds -> Nat]
  BY <1>1 DEF SlotsInfo
<1>3. TypeOK
  BY <1>2, EmptyQueue DEF TypeOK
<1>4. PoolsOK
  BY <1>1, CountType, EmptyQueue DEF PoolsOK, PoolOK
<1>5. FlagsOK /\ HoldersWereTold
  BY EmptyQueue DEF FlagsOK, HoldersWereTold
<1>6. GoneOK /\ LookupsOK /\ SubscribersUpToDate
  BY DEF GoneOK, LookupsOK, SubscribersUpToDate
<1>. QED  BY <1>3, <1>4, <1>5, <1>6 DEF SlotInv

(* What does not touch the pools leaves what is said of them as it was. *)
LEMMA PoolsFrame ==
    ASSUME SlotInv, UNCHANGED <<used, pending, requested, granted>>
    PROVE  /\ PoolsOK' /\ FlagsOK' /\ HoldersWereTold'
           /\ SlotsInfo' = SlotsInfo
<1>1. PoolsOK'
  BY DEF SlotInv, PoolsOK, Count
<1>2. FlagsOK' /\ HoldersWereTold'
  BY DEF SlotInv, FlagsOK, HoldersWereTold
<1>3. SlotsInfo' = SlotsInfo
  BY DEF SlotsInfo
<1>. QED  BY <1>1, <1>2, <1>3

(* Every handler keeps it in order. *)
LEMMA SlotInvStep == SlotInv /\ [Next]_vars => SlotInv'
<1> SUFFICES ASSUME SlotInv, [Next]_vars PROVE SlotInv'
  OBVIOUS
<1>t. TypeOK
  BY DEF SlotInv
<1>1. ASSUME NEW c \in Conns, Connect(c) PROVE SlotInv'
  <2>1. /\ conn[c] = "new" /\ conn' = [conn EXCEPT ![c] = "open"]
        /\ UNCHANGED <<used, pending, requested, lookups, known, granted,
                       subscribers, lastInfo>>
    BY <1>1 DEF Connect, pools, feed
  <2>2. PoolsOK' /\ FlagsOK' /\ HoldersWereTold' /\ SlotsInfo' = SlotsInfo
    BY <2>1, PoolsFrame
  <2>3. TypeOK' /\ GoneOK' /\ LookupsOK' /\ SubscribersUpToDate'
    BY <1>t, <2>1, <2>2 DEF SlotInv, TypeOK, GoneOK, LookupsOK, SubscribersUpToDate
  <2>. QED  BY <2>2, <2>3 DEF SlotInv
<1>2. ASSUME NEW c \in Conns, NEW k \in {"cpp", "compile"}, conn[c] = "open",
             k = "cpp" => c \notin lookups, k \notin requested[c],
             requested' = [requested EXCEPT ![c] = @ \cup {k}],
             Acquire(k, c), UNCHANGED <<conn, lookups, known, subscribers>>
      PROVE  SlotInv'
  <2>1. k \in Kinds
    BY DEF Kinds
  <2>2. /\ used' \in [Kinds -> SUBSET Conns]
        /\ pending' \in [Kinds -> Seq(Conns)]
        /\ requested' \in [Conns -> SUBSET Kinds]
        /\ granted' \in [Conns -> SUBSET Kinds]
        /\ lastInfo' \in [Monitors -> [Kinds -> Nat]]
        /\ PoolsOK' /\ FlagsOK' /\ HoldersWereTold' /\ SubscribersUpToDate'
    BY <1>2, <2>1, AcquireInv
  <2>3. TypeOK'
    BY <1>2, <1>t, <2>2 DEF TypeOK
  <2>4. GoneOK' /\ LookupsOK'
    BY <1>2, <1>t DEF SlotInv, TypeOK, GoneOK, LookupsOK
  <2>. QED  BY <2>2, <2>3, <2>4 DEF SlotInv
<1>3. ASSUME NEW c \in Conns, NEW k \in Kinds, ReleaseSlot(k, c) PROVE SlotInv'
  <2>1. /\ used' \in [Kinds -> SUBSET Conns]
        /\ pending' \in [Kinds -> Seq(Conns)]
        /\ requested' \in [Conns -> SUBSET Kinds]
        /\ granted' \in [Conns -> SUBSET Kinds]
        /\ lastInfo' \in [Monitors -> [Kinds -> Nat]]
        /\ PoolsOK' /\ FlagsOK' /\ HoldersWereTold' /\ SubscribersUpToDate'
    BY <1>3, ReleaseInv DEF ReleaseSlot
  <2>2. TypeOK'
    BY <1>3, <1>t, <2>1 DEF TypeOK, ReleaseSlot
  <2>3. GoneOK' /\ LookupsOK'
    BY <1>3, <1>t DEF SlotInv, TypeOK, GoneOK, LookupsOK, ReleaseSlot
  <2>. QED  BY <2>1, <2>2, <2>3 DEF SlotInv
<1>4. ASSUME NEW c \in Conns, requested[c] \cap {"cpp", "local"} = {}, AcquireSlot(c)
      PROVE  SlotInv'
  <2>1. /\ conn[c] = "open" /\ lookups' = lookups \cup {c}
        /\ UNCHANGED <<used, pending, requested, conn, known, granted,
                       subscribers, lastInfo>>
    BY <1>4 DEF AcquireSlot, pools, feed
  <2>2. PoolsOK' /\ FlagsOK' /\ HoldersWereTold' /\ SlotsInfo' = SlotsInfo
    BY <2>1, PoolsFrame
  <2>3. TypeOK' /\ GoneOK' /\ LookupsOK' /\ SubscribersUpToDate'
    BY <1>t, <1>4, <2>1, <2>2
       DEF SlotInv, TypeOK, GoneOK, LookupsOK, SubscribersUpToDate
  <2>. QED  BY <2>2, <2>3 DEF SlotInv
<1>5. ASSUME NEW c \in Conns, NEW found \in BOOLEAN, NEW loadOk \in BOOLEAN,
             CompilerInfoReady(c, found, loadOk)
      PROVE  SlotInv'
  <2>1. CASE conn[c] = "closed"
    <3>1. /\ lookups' = lookups \ {c}
          /\ UNCHANGED <<used, pending, requested, conn, known, granted,
                         subscribers, lastInfo>>
      BY <1>5, <2>1 DEF CompilerInfoReady, pools
    <3>2. PoolsOK' /\ FlagsOK' /\ HoldersWereTold' /\ SlotsInfo' = SlotsInfo
      BY <3>1, PoolsFrame
    <3>3. TypeOK' /\ GoneOK' /\ LookupsOK' /\ SubscribersUpToDate'
      BY <1>t, <3>1, <3>2 DEF SlotInv, TypeOK, GoneOK, LookupsOK, SubscribersUpToDate
    <3>. QED  BY <3>2, <3>3 DEF SlotInv
  <2>2. CASE conn[c] # "closed"
    <3>1. /\ c \in lookups /\ lookups' = lookups \ {c}
          /\ known' = (IF found THEN known \cup {c} ELSE known \ {c})
          /\ UNCHANGED <<conn, subscribers>>
      BY <1>5, <2>2 DEF CompilerInfoReady
    <3>2. conn[c] = "open" /\ requested[c] \cap {"cpp", "local"} = {}
      BY <1>t, <2>2, <3>1 DEF SlotInv, TypeOK, LookupsOK
    <3>3. PICK k \in {"cpp", "local"} :
             Acquire(k, c) /\ requested' = [requested EXCEPT ![c] = @ \cup {k}]
      BY <1>5, <2>2 DEF CompilerInfoReady
    <3>4. k \in Kinds /\ k \notin requested[c]
      BY <3>2 DEF Kinds
    <3>5. /\ used' \in [Kinds -> SUBSET Conns]
          /\ pending' \in [Kinds -> Seq(Conns)]
          /\ requested' \in [Conns -> SUBSET Kinds]
          /\ granted' \in [Conns -> SUBSET Kinds]
          /\ lastInfo' \in [Monitors -> [Kinds -> Nat]]
          /\ PoolsOK' /\ FlagsOK' /\ HoldersWereTold' /\ SubscribersUpToDate'
      BY <3>1, <3>3, <3>4, AcquireInv
    <3>6. TypeOK'
      BY <1>t, <3>1, <3>5 DEF TypeOK
    <3>7. GoneOK' /\ LookupsOK'
      BY <1>t, <3>1, <3>2, <3>3 DEF SlotInv, TypeOK, GoneOK, LookupsOK
    <3>. QED  BY <3>5, <3>6, <3>7 DEF SlotInv
  <2>. QED  BY <2>1, <2>2
<1>6. ASSUME NEW c \in Conns, Close(c) PROVE SlotInv'
  <2>1. requested' = [requested EXCEPT ![c] = @ \ requested[c]]
    BY <1>t, <1>6 DEF Close, TypeOK
  <2>2. /\ used' \in [Kinds -> SUBSET Conns]
        /\ pending' \in [Kinds -> Seq(Conns)]
        /\ requested' \in [Conns -> SUBSET Kinds]
        /\ granted' \in [Conns -> SUBSET Kinds]
        /\ lastInfo' \in [Monitors -> [Kinds -> Nat]]
        /\ PoolsOK' /\ FlagsOK' /\ HoldersWereTold' /\ SubscribersUpToDate'
    <3>1. requested[c] \in SUBSET Kinds
      BY <1>t DEF TypeOK
    <3>. QED  BY <1>6, <2>1, <3>1, ReleaseInv DEF Close
  <2>3. TypeOK'
    BY <1>6, <1>t, <2>2 DEF TypeOK, Close
  <2>4. GoneOK' /\ LookupsOK'
    BY <1>6, <1>t DEF SlotInv, TypeOK, GoneOK, LookupsOK, Close
  <2>. QED  BY <2>2, <2>3, <2>4 DEF SlotInv
<1>7. ASSUME NEW m \in Monitors, SubscribeSlots(m) \/ Unsubscribe(m) PROVE SlotInv'
  <2>1. SlotsInfo \in [Kinds -> Nat]
    BY <1>t, HoldersFinite DEF SlotsInfo, TypeOK
  <2>2. /\ UNCHANGED <<used, pending, requested, conn, lookups, known, granted>>
        /\ \/ /\ subscribers' = subscribers \cup {m}
              /\ lastInfo' = [lastInfo EXCEPT ![m] = SlotsInfo]
           \/ /\ subscribers' = subscribers \ {m}
              /\ lastInfo' = [lastInfo EXCEPT ![m] = [k \in Kinds |-> 0]]
    BY <1>7 DEF SubscribeSlots, Unsubscribe, pools
  <2>3. PoolsOK' /\ FlagsOK' /\ HoldersWereTold' /\ SlotsInfo' = SlotsInfo
    BY <2>2, PoolsFrame
  <2>4. [k \in Kinds |-> 0] \in [Kinds -> Nat]
    OBVIOUS
  <2>5. lastInfo' \in [Monitors -> [Kinds -> Nat]] /\ subscribers' \subseteq Monitors
    BY <1>t, <2>1, <2>2, <2>4 DEF TypeOK
  <2>6. TypeOK' /\ GoneOK' /\ LookupsOK'
    BY <1>t, <2>2, <2>5 DEF SlotInv, TypeOK, GoneOK, LookupsOK
  <2>7. SubscribersUpToDate'
    BY <1>t, <2>2, <2>3 DEF SlotInv, TypeOK, SubscribersUpToDate
  <2>. QED  BY <2>3, <2>6, <2>7 DEF SlotInv
<1>8. CASE UNCHANGED vars
  <2>1. UNCHANGED <<used, pending, requested, conn, lookups, known, granted,
                    subscribers, lastInfo>>
    BY <1>8 DEF vars
  <2>2. PoolsOK' /\ FlagsOK' /\ HoldersWereTold' /\ SlotsInfo' = SlotsInfo
    BY <2>1, PoolsFrame
  <2>3. TypeOK' /\ GoneOK' /\ LookupsOK' /\ SubscribersUpToDate'
    BY <1>t, <2>1, <2>2 DEF SlotInv, TypeOK, GoneOK, LookupsOK, SubscribersUpToDate
  <2>. QED  BY <2>2, <2>3 DEF SlotInv
<1>9. ASSUME NEW c \in Conns, Request(c) PROVE SlotInv'
  <2>1. CASE c \notin lookups /\ AcquireCppSlot(c)
    BY <1>2, <2>1 DEF AcquireCppSlot
  <2>2. CASE AcquireCompileSlot(c)
    BY <1>2, <2>2 DEF AcquireCompileSlot
  <2>. QED  BY <1>3, <1>4, <1>9, <2>1, <2>2 DEF Request
<1>. QED  BY <1>1, <1>5, <1>6, <1>7, <1>8, <1>9 DEF Next

(* The pools and the flags of the daemon stay in order in every execution. *)
THEOREM SlotsStayInOrder == Spec => []SlotInv
BY SlotInvInit, SlotInvStep, PTL DEF Spec

(* The invariant implies each of the checked safety properties. *)
LEMMA SlotInvImplies ==
    SlotInv => /\ TypeOK /\ WithinCapacity /\ NobodyWaitsBesideAFreeSlot
               /\ FlagsMatchPools /\ TheGoneHoldNothing
               /\ HoldersWereTold /\ SubscribersUpToDate
<1> SUFFICES ASSUME SlotInv
             PROVE  /\ TypeOK /\ WithinCapacity /\ NobodyWaitsBesideAFreeSlot
                    /\ FlagsMatchPools /\ TheGoneHoldNothing
                    /\ HoldersWereTold /\ SubscribersUpToDate
  OBVIOUS
<1>1. WithinCapacity /\ NobodyWaitsBesideAFreeSlot
  BY DEF SlotInv, PoolsOK, PoolOK, WithinCapacity, NobodyWaitsBesideAFreeSlot
<1>2. FlagsMatchPools
  BY DEF SlotInv, PoolsOK, PoolOK, FlagsOK, FlagsMatchPools
<1>3. TheGoneHoldNothing
  BY DEF SlotInv, GoneOK, FlagsOK, TheGoneHoldNothing
<1>. QED  BY <1>1, <1>2, <1>3 DEF SlotInv

(* The variables stay in their ranges. *)
THEOREM TypeCorrect == Spec => []TypeOK
BY SlotsStayInOrder, SlotInvImplies, PTL

(* No pool is ever overcommitted, nobody waits beside a free slot (the assertion of
   Slots.ts:76), and no slot is lost to a client that went away. *)
THEOREM NoSlotIsWasted == Spec => []SlotsWellUsed
<1>1. SlotInv => SlotsWellUsed
  BY SlotInvImplies DEF SlotsWellUsed
<1>. QED  BY <1>1, SlotsStayInOrder, PTL

(* The flags always say who holds or waits, exactly the holders were told that they
   hold a slot, and the subscribers were shown the counters as they are. *)
THEOREM NobodyIsMisled == Spec => []EveryoneAgrees
<1>1. SlotInv => EveryoneAgrees
  BY SlotInvImplies DEF EveryoneAgrees
<1>. QED  BY <1>1, SlotsStayInOrder, PTL

----------------------------------------------------------------------------
(* Each pool is a first-come-first-served semaphore. *)

\* What FifoSemaphore allows the holders and waiters of pool k to do in a step.
PoolStep(k) ==
    \/ used'[k] = used[k] /\ pending'[k] = pending[k]
    \/ \E p \in Conns :
          \/ /\ p \notin used[k] /\ p \notin ToSet(pending[k])
             /\ Cardinality(used[k]) < Count[k]
             /\ used'[k] = used[k] \cup {p} /\ pending'[k] = pending[k]
          \/ /\ p \notin used[k] /\ p \notin ToSet(pending[k])
             /\ Cardinality(used[k]) >= Count[k]
             /\ pending'[k] = Append(pending[k], p) /\ used'[k] = used[k]
          \/ /\ p \in used[k] /\ pending[k] = <<>>
             /\ used'[k] = used[k] \ {p} /\ pending'[k] = pending[k]
          \/ /\ p \in used[k] /\ pending[k] # <<>>
             /\ used'[k] = (used[k] \ {p}) \cup {Head(pending[k])}
             /\ pending'[k] = Tail(pending[k])
          \/ /\ p \in ToSet(pending[k])
             /\ pending'[k] = Without(pending[k], p) /\ used'[k] = used[k]

(* An acquire is such a step in every pool. *)
LEMMA AcquirePoolStep ==
    ASSUME SlotInv, NEW k0 \in Kinds, NEW c \in Conns, k0 \notin requested[c],
           Acquire(k0, c), NEW k \in Kinds
    PROVE  PoolStep(k)
<1>1. c \notin used[k0] /\ c \notin ToSet(pending[k0])
  BY DEF SlotInv, FlagsOK
<1>2. Cardinality(used[k0]) \in Nat /\ Count[k0] \in Nat
  BY HoldersFinite, CountType DEF SlotInv, TypeOK
<1>3. CASE k = k0
  <2>1. CASE HasRoom(k0)
    BY <1>1, <1>3, <2>1 DEF Acquire, PoolStep, HasRoom, SlotInv, TypeOK
  <2>2. CASE ~HasRoom(k0)
    <3>1. Cardinality(used[k0]) >= Count[k0]
      BY <1>2, <2>2 DEF HasRoom
    <3>. QED  BY <1>1, <1>3, <2>2, <3>1 DEF Acquire, PoolStep, SlotInv, TypeOK
  <2>. QED  BY <2>1, <2>2
<1>4. CASE k # k0
  BY <1>4 DEF Acquire, PoolStep, SlotInv, TypeOK
<1>. QED  BY <1>3, <1>4

(* A release is such a step in every pool, also when it releases several. *)
LEMMA ReleasePoolStep ==
    ASSUME SlotInv, NEW c \in Conns, NEW ks \in SUBSET Kinds, Release(c, ks),
           NEW k \in Kinds
    PROVE  PoolStep(k)
<1>1. /\ used'[k] = IF k \in ks THEN (used[k] \ {c}) \cup Promoted(k, c) ELSE used[k]
      /\ pending'[k] = IF k \notin ks THEN pending[k]
                       ELSE IF Promoted(k, c) = {} THEN Without(pending[k], c)
                       ELSE Tail(Without(pending[k], c))
  BY DEF Release
<1>2. CASE k \notin ks
  BY <1>1, <1>2 DEF PoolStep
<1>3. CASE k \in ks /\ c \in used[k]
  <2>1. Without(pending[k], c) = pending[k]
    BY <1>3 DEF SlotInv, PoolsOK, PoolOK, Without
  <2>2. CASE pending[k] = <<>>
    <3>1. Promoted(k, c) = {}
      BY <2>1, <2>2 DEF Promoted
    <3>2. used'[k] = used[k] \ {c} /\ pending'[k] = pending[k]
      BY <1>1, <1>3, <2>1, <3>1
    <3>. QED  BY <1>3, <2>2, <3>2 DEF PoolStep
  <2>3. CASE pending[k] # <<>>
    <3>1. Promoted(k, c) = {Head(pending[k])}
      BY <1>3, <2>1, <2>3 DEF Promoted
    <3>2. /\ used'[k] = (used[k] \ {c}) \cup {Head(pending[k])}
          /\ pending'[k] = Tail(pending[k])
      BY <1>1, <1>3, <2>1, <3>1
    <3>. QED  BY <1>3, <2>3, <3>2 DEF PoolStep
  <2>. QED  BY <2>2, <2>3
<1>4. CASE k \in ks /\ c \notin used[k]
  <2>1. Promoted(k, c) = {}
    BY <1>4 DEF Promoted
  <2>2. used'[k] = used[k] /\ pending'[k] = Without(pending[k], c)
    BY <1>1, <1>4, <2>1
  <2>3. CASE c \in ToSet(pending[k])
    BY <2>2, <2>3 DEF PoolStep
  <2>4. CASE c \notin ToSet(pending[k])
    BY <2>2, <2>4 DEF PoolStep, Without
  <2>. QED  BY <2>3, <2>4
<1>. QED  BY <1>2, <1>3, <1>4

(* So is every step of the daemon. *)
LEMMA DaemonPoolStep ==
    ASSUME SlotInv, [Next]_vars, NEW k \in Kinds
    PROVE  PoolStep(k)
<1>1. ASSUME NEW c \in Conns, Connect(c) \/ AcquireSlot(c) PROVE PoolStep(k)
  BY <1>1 DEF Connect, AcquireSlot, pools, PoolStep
<1>2. ASSUME NEW c \in Conns, AcquireCppSlot(c) PROVE PoolStep(k)
  BY <1>2, AcquirePoolStep DEF AcquireCppSlot, Kinds
<1>3. ASSUME NEW c \in Conns, AcquireCompileSlot(c) PROVE PoolStep(k)
  BY <1>3, AcquirePoolStep DEF AcquireCompileSlot, Kinds
<1>4. ASSUME NEW c \in Conns, NEW j \in Kinds, ReleaseSlot(j, c) PROVE PoolStep(k)
  BY <1>4, ReleasePoolStep DEF ReleaseSlot
<1>5. ASSUME NEW c \in Conns, NEW found \in BOOLEAN, NEW loadOk \in BOOLEAN,
             CompilerInfoReady(c, found, loadOk)
      PROVE  PoolStep(k)
  <2>1. CASE conn[c] = "closed"
    BY <1>5, <2>1 DEF CompilerInfoReady, pools, PoolStep
  <2>2. CASE conn[c] # "closed"
    <3>1. c \in lookups
      BY <1>5 DEF CompilerInfoReady
    <3>2. requested[c] \cap {"cpp", "local"} = {}
      BY <3>1 DEF SlotInv, LookupsOK
    <3>3. PICK j \in {"cpp", "local"} : Acquire(j, c)
      BY <1>5, <2>2 DEF CompilerInfoReady
    <3>4. j \in Kinds /\ j \notin requested[c]
      BY <3>2 DEF Kinds
    <3>. QED  BY <3>3, <3>4, AcquirePoolStep
  <2>. QED  BY <2>1, <2>2
<1>6. ASSUME NEW c \in Conns, Close(c) PROVE PoolStep(k)
  <2>1. requested[c] \in SUBSET Kinds
    BY DEF SlotInv, TypeOK
  <2>. QED  BY <1>6, <2>1, ReleasePoolStep DEF Close
<1>7. ASSUME NEW m \in Monitors, SubscribeSlots(m) \/ Unsubscribe(m) PROVE PoolStep(k)
  BY <1>7 DEF SubscribeSlots, Unsubscribe, pools, PoolStep
<1>8. CASE UNCHANGED vars
  BY <1>8 DEF vars, PoolStep
<1>. QED
  BY <1>1, <1>2, <1>3, <1>4, <1>5, <1>6, <1>7, <1>8 DEF Next, Request

(* The operators on sets and queues mean the same inside the three instances. *)
LEMMA SameOperators ==
    ASSUME NEW S, NEW q, NEW p
    PROVE  /\ CppPool!Cardinality(S) = Cardinality(S) /\ CppPool!ToSet(q) = ToSet(q)
           /\ CppPool!Without(q, p) = Without(q, p)
           /\ CompilePool!Cardinality(S) = Cardinality(S) /\ CompilePool!ToSet(q) = ToSet(q)
           /\ CompilePool!Without(q, p) = Without(q, p)
           /\ LocalPool!Cardinality(S) = Cardinality(S) /\ LocalPool!ToSet(q) = ToSet(q)
           /\ LocalPool!Without(q, p) = Without(q, p)
<1>1. CppPool!Cardinality(S) = Cardinality(S)
  BY DEF CppPool!Cardinality, Cardinality
<1>2. CppPool!ToSet(q) = ToSet(q) /\ CppPool!Without(q, p) = Without(q, p)
  BY DEF CppPool!ToSet, ToSet, CppPool!Without, Without, CppPool!RemoveAt, RemoveAt,
     CppPool!Position, Position
<1>3. CompilePool!Cardinality(S) = Cardinality(S)
  BY DEF CompilePool!Cardinality, Cardinality
<1>4. CompilePool!ToSet(q) = ToSet(q) /\ CompilePool!Without(q, p) = Without(q, p)
  BY DEF CompilePool!ToSet, ToSet, CompilePool!Without, Without, CompilePool!RemoveAt, RemoveAt,
     CompilePool!Position, Position
<1>5. LocalPool!Cardinality(S) = Cardinality(S)
  BY DEF LocalPool!Cardinality, Cardinality
<1>6. LocalPool!ToSet(q) = ToSet(q) /\ LocalPool!Without(q, p) = Without(q, p)
  BY DEF LocalPool!ToSet, ToSet, LocalPool!Without, Without, LocalPool!RemoveAt, RemoveAt,
     LocalPool!Position, Position
<1>. QED  BY <1>1, <1>2, <1>3, <1>4, <1>5, <1>6

(* The daemon implements one FifoSemaphore per pool: at most Capacity holders,
   waiters only beside a full pool, served first come, first served. *)
THEOREM PoolsImplementFifo == Spec => PoolsAreFifo
<1>1. Init => CppPool!SemInit /\ CompilePool!SemInit /\ LocalPool!SemInit
  BY DEF Init, Kinds, CppPool!SemInit, CompilePool!SemInit, LocalPool!SemInit
<1>2. SlotInv /\ [Next]_vars => [CppPool!SemNext]_(CppPool!semVars)
  <2>1. SlotInv /\ [Next]_vars => PoolStep("cpp")
    BY DaemonPoolStep DEF Kinds
  <2>2. Count["cpp"] = CppSlots
    BY DEF Count, Kinds
  <2>. QED
    BY <2>1, <2>2, SameOperators DEF PoolStep, CppPool!SemNext, CppPool!Enter, CppPool!Enqueue,
       CppPool!Leave, CppPool!GiveUp, CppPool!Idle, CppPool!semVars
<1>3. SlotInv /\ [Next]_vars => [CompilePool!SemNext]_(CompilePool!semVars)
  <2>1. SlotInv /\ [Next]_vars => PoolStep("compile")
    BY DaemonPoolStep DEF Kinds
  <2>2. Count["compile"] = CompileSlots
    BY DEF Count, Kinds
  <2>. QED
    BY <2>1, <2>2, SameOperators DEF PoolStep, CompilePool!SemNext, CompilePool!Enter,
       CompilePool!Enqueue, CompilePool!Leave, CompilePool!GiveUp, CompilePool!Idle,
       CompilePool!semVars
<1>4. SlotInv /\ [Next]_vars => [LocalPool!SemNext]_(LocalPool!semVars)
  <2>1. SlotInv /\ [Next]_vars => PoolStep("local")
    BY DaemonPoolStep DEF Kinds
  <2>2. Count["local"] = LocalSlots
    BY DEF Count, Kinds
  <2>. QED
    BY <2>1, <2>2, SameOperators DEF PoolStep, LocalPool!SemNext, LocalPool!Enter, LocalPool!Enqueue,
       LocalPool!Leave, LocalPool!GiveUp, LocalPool!Idle, LocalPool!semVars
<1>. QED
  BY <1>1, <1>2, <1>3, <1>4, SlotsStayInOrder, PTL
     DEF Spec, PoolsAreFifo, CppPool!SemSpec, CompilePool!SemSpec, LocalPool!SemSpec

----------------------------------------------------------------------------
(* The compiler info cache *)

\* A computation that no replacement fell into has run only the compiler of its key.
ProbesRight ==
    \A v \in computing :
       /\ cached[v] = {}
       /\ left[v] >= 1
       /\ v \notin overlapped => installed = v /\ seen[v] \subseteq {v}

CacheRight == \A v \in Compilers : v \notin overlapped => cached[v] \subseteq {v}

LookupsRight ==
    \A c \in Lookers :
       /\ stage[c] \in {"stat", "waiting"} => installed \in window[c]
       /\ stage[c] = "waiting" => key[c] \in computing
       /\ stage[c] = "found" => cached[key[c]] # {}
       /\ stage[c] \in {"waiting", "found"} => key[c] \in window[c]

InfoInv == InfoTypeOK /\ ProbesRight /\ CacheRight /\ LookupsRight

LEMMA InfoInitInv == InfoInit => InfoInv
BY InfoCacheAssumption
   DEF InfoInit, InfoInv, InfoTypeOK, ProbesRight, CacheRight, LookupsRight

LEMMA InfoFrame == InfoInv /\ UNCHANGED infoVars => InfoInv'
BY DEF infoVars, lookupVars, probeVars, InfoInv, InfoTypeOK, ProbesRight, CacheRight, LookupsRight

LEMMA AskKeeps ==
    ASSUME InfoInv, NEW c \in Lookers, Ask(c)
    PROVE  InfoInv'
BY DEF Ask, probeVars, InfoInv, InfoTypeOK, ProbesRight, CacheRight, LookupsRight

LEMMA StatKeeps ==
    ASSUME InfoInv, NEW c \in Lookers, Stat(c) \/ StatFails(c)
    PROVE  InfoInv'
<1> USE InfoCacheAssumption DEF InfoInv
<1>1. CASE StatFails(c)
  BY <1>1 DEF StatFails, probeVars, InfoTypeOK, ProbesRight, CacheRight, LookupsRight
<1>2. CASE Stat(c) /\ (cached[installed] # {} \/ installed \in computing)
  <2>1. InfoTypeOK'
    BY <1>2 DEF Stat, KeyOf, probeVars, InfoTypeOK
  <2>2. ProbesRight' /\ CacheRight'
    BY <1>2 DEF Stat, KeyOf, probeVars, ProbesRight, CacheRight
  <2>3. LookupsRight'
    BY <1>2 DEF Stat, KeyOf, probeVars, InfoTypeOK, LookupsRight
  <2> QED BY <2>1, <2>2, <2>3
<1>3. CASE Stat(c) /\ cached[installed] = {} /\ installed \notin computing
  <2>1. InfoTypeOK'
    BY <1>3 DEF Stat, KeyOf, InfoTypeOK
  <2>2. ProbesRight' /\ CacheRight'
    BY <1>3 DEF Stat, KeyOf, InfoTypeOK, ProbesRight, CacheRight
  <2>3. LookupsRight'
    BY <1>3 DEF Stat, KeyOf, InfoTypeOK, LookupsRight
  <2> QED BY <2>1, <2>2, <2>3
<1> QED BY <1>1, <1>2, <1>3

LEMMA ProbeKeeps ==
    ASSUME InfoInv, NEW v \in Compilers, Probe(v) \/ ProbeFails(v)
    PROVE  InfoInv'
<1> USE InfoCacheAssumption DEF InfoInv
<1>1. CASE ProbeFails(v)
  <2>1. InfoTypeOK'
    BY <1>1 DEF ProbeFails, SettleAll, InfoTypeOK
  <2>2. ProbesRight' /\ CacheRight'
    BY <1>1 DEF ProbeFails, InfoTypeOK, ProbesRight, CacheRight
  <2>3. LookupsRight'
    BY <1>1 DEF ProbeFails, SettleAll, Waiting, InfoTypeOK, LookupsRight
  <2> QED BY <2>1, <2>2, <2>3
<1>2. CASE Probe(v) /\ left[v] > 1
  <2>1. InfoTypeOK'
    BY <1>2 DEF Probe, InfoTypeOK
  <2>2. ProbesRight' /\ CacheRight'
    BY <1>2 DEF Probe, InfoTypeOK, ProbesRight, CacheRight
  <2>3. LookupsRight'
    BY <1>2 DEF Probe, LookupsRight
  <2> QED BY <2>1, <2>2, <2>3
<1>3. CASE Probe(v) /\ ~(left[v] > 1)
  <2>1. InfoTypeOK'
    BY <1>3 DEF Probe, SettleAll, InfoTypeOK
  <2>2. ProbesRight' /\ CacheRight'
    BY <1>3 DEF Probe, InfoTypeOK, ProbesRight, CacheRight
  <2>3. /\ cached' = [cached EXCEPT ![v] = seen[v] \cup {installed}]
        /\ computing' = computing \ {v}
        /\ UNCHANGED <<installed, key, window>>
        /\ \A c \in Lookers : stage'[c] = IF stage[c] = "waiting" /\ key[c] = v
                                         THEN "found" ELSE stage[c]
    BY <1>3 DEF Probe, SettleAll, Waiting
  <2>4. \A w \in Compilers : cached[w] # {} => cached'[w] # {}
    BY <2>3 DEF InfoTypeOK
  <2>5. cached'[v] # {}
    BY <2>3 DEF InfoTypeOK
  <2>6. LookupsRight'
    BY <2>3, <2>4, <2>5 DEF InfoTypeOK, LookupsRight
  <2> QED BY <2>1, <2>2, <2>6
<1> QED BY <1>1, <1>2, <1>3

LEMMA ResolveKeeps ==
    ASSUME InfoInv, NEW c \in Lookers, NEW found \in BOOLEAN, Resolve(c, found)
    PROVE  InfoInv'
BY InfoCacheAssumption
   DEF Resolve, probeVars, InfoInv, InfoTypeOK, ProbesRight, CacheRight, LookupsRight

LEMMA ReplaceKeeps ==
    ASSUME InfoInv, NEW v \in Compilers, Replace(v)
    PROVE  InfoInv'
<1> USE InfoCacheAssumption DEF InfoInv
<1>1. InfoTypeOK'
  BY DEF Replace, probeVars, InfoTypeOK
<1>2. ProbesRight' /\ CacheRight' /\ LookupsRight'
  BY DEF Replace, probeVars, InfoTypeOK, ProbesRight, CacheRight, LookupsRight
<1> QED BY <1>1, <1>2

(* Who was told found was told of the compiler of its key. *)
LEMMA InfoFollows == InfoInv => InfoIsOfTheCompiler
BY DEF InfoInv, InfoTypeOK, CacheRight, LookupsRight, InfoIsOfTheCompiler

----------------------------------------------------------------------------
(* Queues of messages *)

\* The last message is p.
EndsWith(q, p) == q # <<>> /\ q[Len(q)] = p

(* What a process that ends leaves in its socket: a part of its messages, and the end. *)
LEMMA CutElements ==
    ASSUME NEW S, NEW q \in Seq(S), Distinct(q), NEW p \in S, p \notin ToSet(q), NEW n \in 0..Len(q)
    PROVE  /\ SubSeq(q, 1, n) \o <<p>> \in Seq(S)
           /\ Distinct(SubSeq(q, 1, n) \o <<p>>)
           /\ ToSet(SubSeq(q, 1, n) \o <<p>>) \subseteq ToSet(q) \cup {p}
           /\ EndsWith(SubSeq(q, 1, n) \o <<p>>, p)
<1> DEFINE a == SubSeq(q, 1, n)
           r == a \o <<p>>
<1>1. Len(q) \in Nat /\ n \in Nat /\ n <= Len(q) /\ DOMAIN q = 1..Len(q)
  BY LenProperties
<1>2. /\ a \in Seq(S) /\ Len(a) = n
      /\ \A i \in 1..n : a[i] = q[i]
  BY <1>1 
<1>3. /\ <<p>> \in Seq(S) /\ Len(<<p>>) = 1 /\ <<p>>[1] = p
  OBVIOUS
<1> HIDE DEF a
<1>4. /\ r \in Seq(S) /\ Len(r) = n + 1 /\ DOMAIN r = 1..(n + 1)
      /\ \A i \in 1..(n + 1) : r[i] = IF i <= n THEN a[i] ELSE p
  BY <1>1, <1>2, <1>3
<1>5. \A i \in 1..(n + 1) : r[i] = IF i <= n THEN q[i] ELSE p
  BY <1>1, <1>2, <1>4
<1> HIDE DEF r
<1>6. \A i \in 1..Len(q) : q[i] \in ToSet(q)
  BY <1>1 DEF ToSet
<1>7. Distinct(r)
  BY <1>1, <1>4, <1>5, <1>6 DEF Distinct
<1>8. ToSet(r) \subseteq ToSet(q) \cup {p}
  BY <1>1, <1>4, <1>5, <1>6 DEF ToSet
<1>9. EndsWith(r, p)
  BY <1>1, <1>4, <1>5 DEF EndsWith
<1> QED BY <1>4, <1>7, <1>8, <1>9 DEF r, a

(* The last message is the last to be read. *)
LEMMA TailEnds ==
    ASSUME NEW S, NEW q \in Seq(S), Distinct(q), NEW p, EndsWith(q, p)
    PROVE  IF Head(q) = p THEN Tail(q) = <<>> ELSE EndsWith(Tail(q), p)
<1>1. Len(q) \in Nat /\ Len(q) >= 1 /\ Head(q) = q[1] /\ q[Len(q)] = p
  BY EmptySeq, LenProperties DEF EndsWith
<1>2. /\ Tail(q) \in Seq(S) /\ Len(Tail(q)) = Len(q) - 1
      /\ \A i \in 1..Len(Tail(q)) : Tail(q)[i] = q[i + 1]
  BY <1>1, HeadTailProperties DEF EndsWith
<1>3. PICK n \in Nat, r \in Seq(S) : n = Len(q) /\ r = Tail(q) /\ n >= 1
  BY <1>1, <1>2
<1>4. \A i, j \in 1..n : q[i] = q[j] => i = j
  BY <1>3 DEF Distinct
<1>5. Len(r) = n - 1 /\ q[n] = p /\ Head(q) = q[1] /\ \A i \in 1..(n - 1) : r[i] = q[i + 1]
  BY <1>1, <1>2, <1>3
<1>6. (r = <<>>) <=> n = 1
  <2>1. r = <<>> => Len(r) = 0
    BY EmptySeq
  <2>2. r # <<>> => Len(r) \in Nat \ {0}
    BY EmptySeq
  <2>3. Len(r) = n - 1
    BY <1>5
  <2> QED BY <1>3, <2>1, <2>2, <2>3
<1>7. Head(q) = p <=> n = 1
  BY <1>3, <1>4, <1>5
<1>8. n # 1 => r[Len(r)] = p
  <2>1. n # 1 => n - 1 \in 1..(n - 1) /\ n - 1 + 1 = n
    BY <1>3
  <2> QED BY <1>5, <2>1
<1> QED BY <1>3, <1>6, <1>7, <1>8 DEF EndsWith

----------------------------------------------------------------------------
(* The protocol *)

Sent(c) == ToSet(toDaemon[c])

\* c never connected.
Silent(c) == conn[c] = "new" /\ toDaemon[c] = <<>> /\ has[c] = {} /\ c \notin lookups

\* Where process c is, what the daemon has not read of it, and what it holds.
InTouch(c) ==
    /\ Distinct(toDaemon[c])
    /\ pc[c] \in {"idle", "local"} => Silent(c)
    /\ Running(c) => \/ conn[c] = "open" /\ "end" \notin Sent(c)
                     \/ pc[c] = "compiling" /\ Silent(c)
    /\ pc[c] = "exited" => toDaemon[c] = <<>> \/ (conn[c] = "open" /\ EndsWith(toDaemon[c], "end"))
    /\ "acquireSlot" \in Sent(c) =>
          /\ requested[c] \cap {"cpp", "local"} = {}
          /\ c \notin lookups
          /\ "releaseCppSlot" \notin Sent(c)
    /\ "acquireCompileSlot" \in Sent(c) =>
          "compile" \notin requested[c] /\ pc[c] \in {"waitCompile", "compiling", "exited"}
    /\ "releaseCppSlot" \in Sent(c) =>
          /\ "cpp" \in requested[c]
          /\ c \notin lookups
          /\ pc[c] \in {"remote", "waitCompile", "compiling", "exited"}
    /\ has[c] \cap {"cpp", "local"} # {} => "acquireSlot" \notin Sent(c) /\ c \notin lookups
    /\ pc[c] # "exited" => has[c] \ {"cpp"} \subseteq granted[c]
    /\ pc[c] \in {"waitSlot", "preprocessing", "remote"} => "compile" \notin requested[c]
    /\ pc[c] \in {"waitSlot", "preprocessing"} => has[c] \subseteq granted[c]
    /\ pc[c] = "preprocessing" => toDaemon[c] = <<>> /\ "cpp" \in has[c]

\* Once the daemon is dead nobody reads.
ProtoInv == daemonUp => \A c \in Conns : InTouch(c)

FiskcInv == SlotInv /\ InfoInv /\ SlotsTypeOK /\ ProtoInv

LEMMA FiskcInitInv == SlotsInit => FiskcInv
<1> SUFFICES ASSUME SlotsInit PROVE FiskcInv
  OBVIOUS
<1>1. SlotInv /\ InfoInv
  BY SlotInvInit, InfoInitInv DEF SlotsInit
<1>2. pc \in [Conns -> {"idle", "local", "exited"}]
  BY MakesAssumption DEF SlotsInit
<1>3. SlotsTypeOK
  BY <1>1, <1>2, EmptyQueue DEF SlotsInit, SlotsTypeOK, SlotInv, InfoInv, Places
<1>4. ProtoInv
  BY <1>2, EmptyQueue DEF SlotsInit, Init, ProtoInv, InTouch, Sent, Silent, Running
<1> QED BY <1>1, <1>3, <1>4 DEF FiskcInv

(* The steps of others give c slots and take none from it. *)
LEMMA InTouchFrame ==
    ASSUME NEW c \in Conns, InTouch(c), toDaemon'[c] = toDaemon[c], pc'[c] = pc[c],
           has'[c] = has[c], conn'[c] = conn[c], requested'[c] = requested[c],
           c \in lookups' => c \in lookups, granted[c] \subseteq granted'[c]
    PROVE  InTouch(c)'
BY DEF InTouch, Sent, Silent, Running

(* What the pools do to the slots of the connections. *)
LEMMA AcquireGrants ==
    ASSUME TypeOK, NEW k \in Kinds, NEW c \in Conns, Acquire(k, c), NEW d \in Conns
    PROVE  granted[d] \subseteq granted'[d]
<1>1. granted \in [Conns -> SUBSET Kinds]
  BY DEF TypeOK
<1>2. granted' = [granted EXCEPT ![c] = @ \cup {k}] \/ granted' = granted
  BY DEF Acquire
<1> QED BY <1>1, <1>2

LEMMA ReleaseGrants ==
    ASSUME TypeOK, NEW c \in Conns, NEW ks \in SUBSET Kinds, Release(c, ks), NEW d \in Conns
    PROVE  (IF d = c THEN granted[d] \ ks ELSE granted[d]) \subseteq granted'[d]
<1>1. granted \in [Conns -> SUBSET Kinds]
  BY DEF TypeOK
<1>2. granted'[d] = (granted[d] \ (IF d = c THEN ks ELSE {})) \cup {k \in ks : d \in Promoted(k, c)}
  BY DEF Release
<1> QED BY <1>1, <1>2

\* A client's step that sends nothing but perhaps p.
Appends(c, p) == toDaemon' = [toDaemon EXCEPT ![c] = Append(@, p)]

LEMMA AppendSent ==
    ASSUME FiskcInv, NEW c \in Conns, NEW p \in Requests, InTouch(c), p \notin Sent(c), Appends(c, p)
    PROVE  /\ toDaemon' \in [Conns -> Seq(Requests)]
           /\ Distinct(toDaemon'[c])
           /\ Sent(c)' = Sent(c) \cup {p}
           /\ \A d \in Conns \ {c} : toDaemon'[d] = toDaemon[d]
<1>1. toDaemon \in [Conns -> Seq(Requests)] /\ Distinct(toDaemon[c])
  BY DEF FiskcInv, SlotsTypeOK, InTouch
<1>2. /\ Append(toDaemon[c], p) \in Seq(Requests)
      /\ ToSet(Append(toDaemon[c], p)) = ToSet(toDaemon[c]) \cup {p}
      /\ Distinct(Append(toDaemon[c], p))
  BY <1>1, AppendElements DEF Sent
<1>3. toDaemon'[c] = Append(toDaemon[c], p)
  BY <1>1 DEF Appends
<1> QED BY <1>1, <1>2, <1>3 DEF Sent, Appends

\* What the steps of a client leave alone.
LEMMA ClientStepFrame ==
    ASSUME FiskcInv, ClientStep,
           pc' \in [Conns -> Places],
           has' \in [Conns -> SUBSET Kinds],
           toDaemon' \in [Conns -> Seq(Requests)], daemonUp' \in BOOLEAN
    PROVE  /\ SlotInv' /\ InfoInv' /\ SlotsTypeOK'
           /\ UNCHANGED <<requested, conn, lookups, granted, known>>
<1>1. SlotInv' /\ InfoInv'
  BY SlotInvStep, InfoFrame DEF FiskcInv, ClientStep
<1> QED BY <1>1 DEF ClientStep, vars, SlotsTypeOK, SlotInv, InfoInv

(* What a client does by itself, with or without a message. *)
LEMMA ClientKeeps ==
    ASSUME FiskcInv, NEW c \in Conns, ClientStep, UNCHANGED daemonUp,
           NEW at \in {"waitSlot", "preprocessing", "remote", "waitCompile", "compiling", "exited"},
           pc' = [pc EXCEPT ![c] = at],
           has' \in [Conns -> SUBSET Kinds], \A d \in Conns \ {c} : has'[d] = has[d],
           \A d \in Conns \ {c} : toDaemon'[d] = toDaemon[d],
           toDaemon' \in [Conns -> Seq(Requests)],
           daemonUp => InTouch(c)'
    PROVE  [Next]_vars /\ FiskcInv'
<1>1. /\ pc \in [Conns -> Places] /\ at \in Places
      /\ daemonUp \in BOOLEAN
  BY DEF FiskcInv, SlotsTypeOK, Places
<1>2. /\ SlotInv' /\ InfoInv' /\ SlotsTypeOK'
      /\ UNCHANGED <<requested, conn, lookups, granted, known>>
  BY <1>1, ClientStepFrame
<1>3. ASSUME daemonUp, NEW d \in Conns \ {c} PROVE InTouch(d)'
  BY <1>1, <1>2, <1>3, InTouchFrame DEF FiskcInv, ProtoInv
<1>4. ProtoInv'
  BY <1>3 DEF ProtoInv
<1> QED BY <1>2, <1>4 DEF FiskcInv, ClientStep

(* Every step of the system is a step of its daemon, or none, and keeps the protocol. *)
LEMMA StartKeeps ==
    ASSUME FiskcInv, NEW c \in Conns, Start(c) \/ StartAlone(c)
    PROVE  [Next]_vars /\ FiskcInv'
<1>1. CASE StartAlone(c)
  <2>1. /\ ClientStep /\ UNCHANGED <<has, toDaemon, daemonUp>>
        /\ pc[c] \in {"idle", "local"} /\ pc' = [pc EXCEPT ![c] = "compiling"]
    BY <1>1 DEF StartAlone, Goto
  <2>2. /\ pc \in [Conns -> Places] /\ has \in [Conns -> SUBSET Kinds]
        /\ toDaemon \in [Conns -> Seq(Requests)]
        /\ UNCHANGED <<requested, conn, lookups, granted>>
    BY <2>1 DEF FiskcInv, SlotsTypeOK, ClientStep, vars
  <2>3. ASSUME daemonUp PROVE InTouch(c)'
    <3>1. InTouch(c) /\ Silent(c)
      BY <2>1, <2>3 DEF FiskcInv, ProtoInv, InTouch
    <3>2. Silent(c)' /\ Sent(c)' = {}
      BY <2>1, <2>2, <3>1, EmptyQueue DEF Silent, Sent
    <3> QED BY <2>1, <2>2, <3>1, <3>2 DEF InTouch, Silent, Running
  <2> QED BY <2>1, <2>2, <2>3, ClientKeeps
<1>2. CASE Start(c)
  <2>1. Connect(c) /\ daemonUp /\ pc[c] \in {"idle", "local"}
        /\ UNCHANGED <<has, daemonUp, infoVars>>
    BY <1>2 DEF Start
  <2>2. PICK p \in {"acquireSlot", "acquireCompileSlot"} :
           /\ Appends(c, p)
           /\ pc' = [pc EXCEPT ![c] = IF p = "acquireSlot" THEN "waitSlot" ELSE "waitCompile"]
    BY <1>2 DEF Start, RunLocal, Goto, Send, Appends
  <2>3. [Next]_vars
    BY <2>1 DEF Next
  <2>4. SlotInv' /\ InfoInv'
    BY <2>1, <2>3, SlotInvStep, InfoFrame DEF FiskcInv
  <2>5. InTouch(c) /\ toDaemon[c] = <<>> /\ has[c] = {} /\ c \notin lookups /\ conn[c] = "new"
        /\ requested[c] = {}
    BY <2>1 DEF FiskcInv, ProtoInv, InTouch, Silent, SlotInv, GoneOK
  <2>6. Sent(c) = {} /\ p \in Requests
    BY <2>5, EmptyQueue DEF Sent, Requests
  <2>7. /\ toDaemon' \in [Conns -> Seq(Requests)]
        /\ Distinct(toDaemon'[c])
        /\ Sent(c)' = {p}
        /\ \A d \in Conns \ {c} : toDaemon'[d] = toDaemon[d]
    BY <2>2, <2>5, <2>6, AppendSent
  <2>8. SlotsTypeOK'
    BY <2>1, <2>2, <2>4, <2>7 DEF FiskcInv, SlotsTypeOK, SlotInv, InfoInv, Places
  <2>9. /\ UNCHANGED <<requested, lookups, granted>>
        /\ conn' = [conn EXCEPT ![c] = "open"]
        /\ conn \in [Conns -> {"new", "open", "closed"}]
        /\ pc \in [Conns -> Places]
    BY <2>1 DEF Connect, FiskcInv, SlotsTypeOK, TypeOK
  <2>10. InTouch(c)'
    BY <2>1, <2>2, <2>5, <2>7, <2>9 DEF InTouch, Silent, Running
  <2>11. \A d \in Conns \ {c} : InTouch(d)'
    BY <2>1, <2>2, <2>7, <2>9, InTouchFrame DEF FiskcInv, ProtoInv
  <2> QED BY <2>3, <2>4, <2>8, <2>10, <2>11 DEF FiskcInv, ProtoInv
<1> QED BY <1>1, <1>2

LEMMA ReadGrantsKeeps ==
    ASSUME FiskcInv, NEW c \in Conns, ReadGrants(c)
    PROVE  [Next]_vars /\ FiskcInv'
<1>1. /\ Running(c) /\ ClientStep
      /\ has' = [has EXCEPT ![c] = @ \cup granted[c]]
      /\ UNCHANGED <<pc, toDaemon, daemonUp>>
  BY DEF ReadGrants
<1>2. /\ pc \in [Conns -> Places]
      /\ has \in [Conns -> SUBSET Kinds] /\ granted \in [Conns -> SUBSET Kinds]
      /\ toDaemon \in [Conns -> Seq(Requests)]
  BY DEF FiskcInv, SlotsTypeOK, TypeOK
<1>3. granted[c] \subseteq requested[c]
  <2>1. \A k \in Kinds : k \in granted[c] => k \in requested[c]
    BY DEF FiskcInv, SlotInv, HoldersWereTold, FlagsOK
  <2> QED BY <1>2, <2>1
<1>4. c \in lookups => granted[c] \cap {"cpp", "local"} = {}
  BY <1>3 DEF FiskcInv, SlotInv, LookupsOK
<1>5. UNCHANGED <<requested, conn, lookups, granted>>
  BY <1>1 DEF ClientStep, vars
<1>6. ASSUME daemonUp PROVE InTouch(c)'
  <2>1. InTouch(c)
    BY <1>6 DEF FiskcInv, ProtoInv
  <2>2. Silent(c) => granted[c] = {}
    BY <1>2, <1>3 DEF Silent, FiskcInv, SlotInv, GoneOK
  <2> QED BY <1>1, <1>2, <1>3, <1>4, <1>5, <2>1, <2>2 DEF InTouch, Sent, Silent, Running
<1>7. PICK at \in {"waitSlot", "preprocessing", "remote", "waitCompile", "compiling", "exited"} :
         at = pc[c]
  BY <1>1, <1>2 DEF Running, Places
<1>8. pc' = [pc EXCEPT ![c] = at] /\ has' \in [Conns -> SUBSET Kinds]
  BY <1>1, <1>2, <1>7
<1> QED BY <1>1, <1>2, <1>6, <1>8, ClientKeeps

(* The lambda runLocal, where no compile slot was asked for yet. *)
LEMMA RunLocalKeeps ==
    ASSUME FiskcInv, NEW c \in Conns, RunLocal(c), ClientStep, UNCHANGED <<has, daemonUp>>,
           pc[c] \in {"waitSlot", "preprocessing", "remote"}
    PROVE  [Next]_vars /\ FiskcInv'
<1>1. /\ pc' = [pc EXCEPT ![c] = "waitCompile"]
      /\ IF daemonUp THEN Appends(c, "acquireCompileSlot") ELSE UNCHANGED toDaemon
  BY DEF RunLocal, Goto, Send, Appends
<1>2. /\ pc \in [Conns -> Places]
      /\ has \in [Conns -> SUBSET Kinds]
      /\ toDaemon \in [Conns -> Seq(Requests)]
  BY DEF FiskcInv, SlotsTypeOK
<1>3. UNCHANGED <<requested, conn, lookups, granted>>
  BY DEF ClientStep, vars
<1>4. CASE ~daemonUp
  BY <1>1, <1>2, <1>4, ClientKeeps
<1>5. CASE daemonUp
  <2>1. InTouch(c) /\ "acquireCompileSlot" \notin Sent(c) /\ "acquireCompileSlot" \in Requests
    BY <1>5 DEF FiskcInv, ProtoInv, InTouch, Requests
  <2>2. /\ toDaemon' \in [Conns -> Seq(Requests)]
        /\ Distinct(toDaemon'[c])
        /\ Sent(c)' = Sent(c) \cup {"acquireCompileSlot"}
        /\ \A d \in Conns \ {c} : toDaemon'[d] = toDaemon[d]
    BY <1>1, <1>5, <2>1, AppendSent
  <2>3. InTouch(c)'
    BY <1>1, <1>2, <1>3, <2>1, <2>2 DEF InTouch, Silent, Running
  <2> QED BY <1>1, <1>2, <2>2, <2>3, ClientKeeps
<1> QED BY <1>4, <1>5

LEMMA SlotWaitKeeps ==
    ASSUME FiskcInv, NEW c \in Conns, pc[c] = "waitSlot", AfterSlotWait(c)
    PROVE  [Next]_vars /\ FiskcInv'
<1>1. ClientStep /\ UNCHANGED <<has, daemonUp>>
  BY DEF AfterSlotWait
<1>2. CASE RunLocal(c)
  BY <1>1, <1>2, RunLocalKeeps
<1>3. CASE ~RunLocal(c)
  <2>1. PICK at \in {"compiling", "preprocessing"} :
           /\ pc' = [pc EXCEPT ![c] = at]
           /\ has[c] \cap {"cpp", "local"} # {}
           /\ at = "preprocessing" => "local" \notin has[c]
           /\ UNCHANGED toDaemon
    BY <1>3 DEF AfterSlotWait, Goto
  <2>2. /\ pc \in [Conns -> Places]
        /\ has \in [Conns -> SUBSET Kinds]
        /\ toDaemon \in [Conns -> Seq(Requests)]
    BY DEF FiskcInv, SlotsTypeOK
  <2>3. UNCHANGED <<requested, conn, lookups, granted>>
    BY <1>1 DEF ClientStep, vars
  <2>4. ASSUME daemonUp PROVE InTouch(c)'
    <3>1. InTouch(c)
      BY <2>4 DEF FiskcInv, ProtoInv
    <3>2. Sent(c) = {}
      <4>1. \A p \in Requests : p \notin Sent(c)
        BY <2>1, <3>1 DEF InTouch, Requests, Silent, Running
      <4>2. Sent(c) \subseteq Requests
        BY <2>2, LenProperties DEF Sent, ToSet
      <4> QED BY <4>1, <4>2
    <3>3. toDaemon[c] = <<>>
      <4>1. CASE toDaemon[c] # <<>>
        BY <2>2, <3>1, <3>2, <4>1, TailElements DEF InTouch, Sent
      <4> QED BY <4>1
    <3> QED BY <1>1, <2>1, <2>2, <2>3, <3>1, <3>2, <3>3 DEF InTouch, Sent, Silent, Running
  <2> QED BY <1>1, <2>1, <2>2, <2>4, ClientKeeps
<1> QED BY <1>2, <1>3

LEMMA ReleaseCppKeeps ==
    ASSUME FiskcInv, NEW c \in Conns, ReleaseCpp(c)
    PROVE  [Next]_vars /\ FiskcInv'
<1>1. /\ pc' = [pc EXCEPT ![c] = "remote"] /\ pc[c] = "preprocessing"
      /\ IF daemonUp THEN Appends(c, "releaseCppSlot") ELSE UNCHANGED toDaemon
      /\ ClientStep /\ UNCHANGED <<has, daemonUp>>
  BY DEF ReleaseCpp, Goto, Send, Appends
<1>2. /\ pc \in [Conns -> Places]
      /\ has \in [Conns -> SUBSET Kinds]
      /\ toDaemon \in [Conns -> Seq(Requests)]
      /\ granted \in [Conns -> SUBSET Kinds]
  BY DEF FiskcInv, SlotsTypeOK, TypeOK
<1>3. UNCHANGED <<requested, conn, lookups, granted>>
  BY <1>1 DEF ClientStep, vars
<1>4. CASE ~daemonUp
  BY <1>1, <1>2, <1>4, ClientKeeps
<1>5. CASE daemonUp
  <2>1. InTouch(c)
    BY <1>5 DEF FiskcInv, ProtoInv
  <2>2. toDaemon[c] = <<>> /\ "cpp" \in granted[c] /\ c \notin lookups
    BY <1>1, <2>1 DEF InTouch
  <2>3. Sent(c) = {} /\ "releaseCppSlot" \in Requests
    BY <2>2, EmptyQueue DEF Sent, Requests
  <2>4. "cpp" \in requested[c]
    BY <2>2 DEF FiskcInv, SlotInv, HoldersWereTold, FlagsOK, Kinds
  <2>5. /\ toDaemon' \in [Conns -> Seq(Requests)]
        /\ Distinct(toDaemon'[c])
        /\ Sent(c)' = {"releaseCppSlot"}
        /\ \A d \in Conns \ {c} : toDaemon'[d] = toDaemon[d]
    BY <1>1, <1>5, <2>1, <2>3, AppendSent
  <2>6. InTouch(c)'
    BY <1>1, <1>2, <1>3, <2>1, <2>2, <2>4, <2>5 DEF InTouch, Silent, Running
  <2> QED BY <1>1, <1>2, <2>5, <2>6, ClientKeeps
<1> QED BY <1>4, <1>5

LEMMA CompileWaitKeeps ==
    ASSUME FiskcInv, NEW c \in Conns, CompileWaitOver(c) \/ CompileWaitTimedOut(c)
    PROVE  [Next]_vars /\ FiskcInv'
<1>1. /\ pc' = [pc EXCEPT ![c] = "compiling"] /\ pc[c] = "waitCompile"
      /\ ClientStep /\ UNCHANGED <<has, toDaemon, daemonUp>>
  BY DEF CompileWaitOver, CompileWaitTimedOut, Goto
<1>2. /\ pc \in [Conns -> Places]
      /\ has \in [Conns -> SUBSET Kinds]
      /\ toDaemon \in [Conns -> Seq(Requests)]
  BY DEF FiskcInv, SlotsTypeOK
<1>3. UNCHANGED <<requested, conn, lookups, granted>>
  BY <1>1 DEF ClientStep, vars
<1>4. daemonUp => InTouch(c)'
  BY <1>1, <1>2, <1>3 DEF FiskcInv, ProtoInv, InTouch, Sent, Silent, Running
<1> QED BY <1>1, <1>2, <1>4, ClientKeeps

LEMMA ExitKeeps ==
    ASSUME FiskcInv, NEW c \in Conns, Exit(c), Running(c)
    PROVE  [Next]_vars /\ FiskcInv'
<1>1. /\ pc' = [pc EXCEPT ![c] = "exited"]
      /\ ClientStep /\ UNCHANGED <<has, daemonUp>>
  BY DEF Exit, Goto
<1>2. /\ pc \in [Conns -> Places]
      /\ has \in [Conns -> SUBSET Kinds]
      /\ toDaemon \in [Conns -> Seq(Requests)]
  BY DEF FiskcInv, SlotsTypeOK
<1>3. UNCHANGED <<requested, conn, lookups, granted>>
  BY <1>1 DEF ClientStep, vars
<1>4. CASE ~(daemonUp /\ conn[c] = "open")
  <2>1. UNCHANGED toDaemon
    BY <1>4 DEF Exit
  <2>2. ASSUME daemonUp PROVE InTouch(c)'
    <3>1. InTouch(c) /\ Silent(c)
      BY <1>4, <2>2 DEF FiskcInv, ProtoInv, InTouch
    <3>2. Sent(c)' = {} /\ toDaemon'[c] = <<>>
      BY <1>1, <2>1, <3>1, EmptyQueue DEF Sent, Silent
    <3> QED BY <1>1, <1>2, <1>3, <3>1, <3>2 DEF InTouch, Running, Silent
  <2> QED BY <1>1, <1>2, <2>1, <2>2, ClientKeeps
<1>5. CASE daemonUp /\ conn[c] = "open"
  <2>1. PICK n \in 0..Len(toDaemon[c]) :
           toDaemon' = [toDaemon EXCEPT ![c] = SubSeq(@, 1, n) \o <<"end">>]
    BY <1>5 DEF Exit
  <2>2. InTouch(c) /\ conn[c] = "open" /\ "end" \notin Sent(c) /\ "end" \in Requests
    BY <1>5 DEF FiskcInv, ProtoInv, InTouch, Requests, Silent
  <2>3. toDaemon'[c] = SubSeq(toDaemon[c], 1, n) \o <<"end">>
    BY <1>2, <2>1
  <2>4. /\ toDaemon'[c] \in Seq(Requests)
        /\ Distinct(toDaemon'[c])
        /\ ToSet(toDaemon'[c]) \subseteq Sent(c) \cup {"end"}
        /\ EndsWith(toDaemon'[c], "end")
    BY <1>2, <2>2, <2>3, CutElements DEF InTouch, Sent
  <2>5. toDaemon' \in [Conns -> Seq(Requests)] /\ \A d \in Conns \ {c} : toDaemon'[d] = toDaemon[d]
    BY <1>2, <2>1, <2>3, <2>4
  <2>6. InTouch(c)'
    BY <1>1, <1>2, <1>3, <2>2, <2>4 DEF InTouch, Sent, Running
  <2> QED BY <1>1, <1>2, <2>5, <2>6, ClientKeeps
<1> QED BY <1>4, <1>5

----------------------------------------------------------------------------
(* The daemon's steps *)

\* The daemon takes the next message of c off its queue.
LEMMA TakeMessage ==
    ASSUME FiskcInv, NEW c \in Conns, InTouch(c), toDaemon[c] # <<>>,
           toDaemon' = [toDaemon EXCEPT ![c] = Tail(@)]
    PROVE  /\ toDaemon' \in [Conns -> Seq(Requests)]
           /\ Distinct(toDaemon'[c])
           /\ Head(toDaemon[c]) \in Sent(c)
           /\ Head(toDaemon[c]) \in Requests
           /\ Sent(c)' = Sent(c) \ {Head(toDaemon[c])}
           /\ \A d \in Conns \ {c} : toDaemon'[d] = toDaemon[d]
           /\ EndsWith(toDaemon[c], "end") =>
                 IF Head(toDaemon[c]) = "end" THEN toDaemon'[c] = <<>>
                 ELSE EndsWith(toDaemon'[c], "end")
<1>1. toDaemon \in [Conns -> Seq(Requests)] /\ Distinct(toDaemon[c])
  BY DEF FiskcInv, SlotsTypeOK, InTouch
<1>2. toDaemon'[c] = Tail(toDaemon[c])
  BY <1>1
<1>3. /\ Head(toDaemon[c]) \in ToSet(toDaemon[c]) /\ Head(toDaemon[c]) \in Requests
      /\ Tail(toDaemon[c]) \in Seq(Requests)
      /\ ToSet(Tail(toDaemon[c])) = ToSet(toDaemon[c]) \ {Head(toDaemon[c])}
      /\ Distinct(Tail(toDaemon[c]))
  BY <1>1, TailElements
<1>4. EndsWith(toDaemon[c], "end") =>
         IF Head(toDaemon[c]) = "end" THEN Tail(toDaemon[c]) = <<>>
         ELSE EndsWith(Tail(toDaemon[c]), "end")
  BY <1>1, TailEnds
<1> QED BY <1>1, <1>2, <1>3, <1>4 DEF Sent

LEMMA MessageKeeps ==
    ASSUME FiskcInv, NEW c \in Conns, HandleMessage(c)
    PROVE  [Next]_vars /\ FiskcInv'
<1>1. /\ daemonUp /\ toDaemon[c] # <<>>
      /\ toDaemon' = [toDaemon EXCEPT ![c] = Tail(@)]
      /\ UNCHANGED <<pc, has, daemonUp>>
  BY DEF HandleMessage
<1>2. InTouch(c) /\ TypeOK
  BY <1>1 DEF FiskcInv, ProtoInv, SlotInv
<1>3. PICK msg \in Requests : msg = Head(toDaemon[c]) /\ msg \in Sent(c)
  BY <1>1, <1>2, TakeMessage
<1>4. /\ toDaemon' \in [Conns -> Seq(Requests)]
      /\ Distinct(toDaemon'[c])
      /\ Sent(c)' = Sent(c) \ {msg}
      /\ \A d \in Conns \ {c} : toDaemon'[d] = toDaemon[d]
      /\ EndsWith(toDaemon[c], "end") =>
            IF msg = "end" THEN toDaemon'[c] = <<>> ELSE EndsWith(toDaemon'[c], "end")
  BY <1>1, <1>2, <1>3, TakeMessage
<1>5. /\ msg = "acquireSlot" => AcquireSlot(c) /\ Ask(c)
      /\ msg = "acquireCompileSlot" => AcquireCompileSlot(c)
      /\ msg = "releaseCppSlot" => ReleaseSlot("cpp", c)
      /\ msg = "end" => Close(c)
      /\ msg # "acquireSlot" => UNCHANGED infoVars
  BY <1>3 DEF HandleMessage
<1>6. [Next]_vars
  <2>1. msg = "acquireSlot" => Request(c)
    BY <1>2, <1>3, <1>5 DEF Request, InTouch
  <2>2. msg = "acquireCompileSlot" \/ msg = "releaseCppSlot" => Request(c)
    BY <1>5 DEF Request, Kinds
  <2> QED BY <1>5, <2>1, <2>2 DEF Next, Requests
<1>7. InfoInv'
  BY <1>5, AskKeeps, InfoFrame, EveryoneLooksUp DEF FiskcInv
<1>8. SlotInv' /\ SlotsTypeOK'
  <2>1. SlotInv'
    BY <1>6, SlotInvStep DEF FiskcInv
  <2> QED BY <1>1, <1>4, <1>7, <2>1 DEF FiskcInv, SlotsTypeOK, SlotInv, InfoInv
<1>9. /\ requested \in [Conns -> SUBSET Kinds] /\ conn \in [Conns -> {"new", "open", "closed"}]
      /\ granted \in [Conns -> SUBSET Kinds]
  BY <1>2 DEF TypeOK
<1>10. \A d \in Conns : granted[d] \subseteq granted'[d] \/ d = c
  <2>1. CASE msg = "acquireSlot"
    BY <1>5, <2>1 DEF AcquireSlot
  <2>2. CASE msg = "acquireCompileSlot"
    BY <1>2, <1>5, <2>2, AcquireGrants DEF AcquireCompileSlot, Kinds
  <2>3. CASE msg = "releaseCppSlot"
    BY <1>2, <1>5, <2>3, ReleaseGrants DEF ReleaseSlot, Kinds
  <2>4. CASE msg = "end"
    BY <1>2, <1>5, <1>9, <2>4, ReleaseGrants DEF Close
  <2> QED BY <2>1, <2>2, <2>3, <2>4 DEF Requests
<1>11. \A d \in Conns \ {c} : /\ requested'[d] = requested[d] /\ conn'[d] = conn[d]
                              /\ d \in lookups' => d \in lookups
  BY <1>5, <1>9 DEF AcquireSlot, AcquireCompileSlot, ReleaseSlot, Close, Requests
<1>12. \A d \in Conns \ {c} : InTouch(d)'
  BY <1>1, <1>4, <1>10, <1>11, InTouchFrame DEF FiskcInv, ProtoInv
<1>13. InTouch(c)'
  <2>1. CASE msg = "acquireSlot"
    <3>1. /\ lookups' = lookups \cup {c}
          /\ UNCHANGED <<requested, conn, granted>>
      BY <1>5, <2>1 DEF AcquireSlot
    <3> QED BY <1>1, <1>2, <1>3, <1>4, <2>1, <3>1 DEF InTouch, Silent, Running
  <2>2. CASE msg = "acquireCompileSlot"
    <3>1. /\ requested'[c] = requested[c] \cup {"compile"}
          /\ UNCHANGED <<conn, lookups>>
          /\ granted[c] \subseteq granted'[c]
      BY <1>2, <1>5, <1>9, <2>2, AcquireGrants DEF AcquireCompileSlot, Kinds
    <3> QED BY <1>1, <1>2, <1>3, <1>4, <2>2, <3>1 DEF InTouch, Silent, Running
  <2>3. CASE msg = "releaseCppSlot"
    <3>1. /\ requested'[c] = requested[c] \ {"cpp"}
          /\ UNCHANGED <<conn, lookups>>
          /\ granted[c] \ {"cpp"} \subseteq granted'[c]
      BY <1>2, <1>5, <1>9, <2>3, ReleaseGrants DEF ReleaseSlot, Kinds
    <3> QED BY <1>1, <1>2, <1>3, <1>4, <2>3, <3>1 DEF InTouch, Silent, Running
  <2>4. CASE msg = "end"
    <3>1. pc[c] = "exited" /\ EndsWith(toDaemon[c], "end")
      <4>1. pc[c] \in {"idle", "local", "exited"}
        BY <1>1, <1>2, <1>3, <2>4 DEF InTouch, Silent, Running
      <4>2. pc[c] \notin {"idle", "local"}
        BY <1>1, <1>2 DEF InTouch, Silent
      <4> QED BY <1>1, <1>2, <4>1, <4>2 DEF InTouch
    <3>2. toDaemon'[c] = <<>> /\ Sent(c)' = {}
      BY <1>4, <2>4, <3>1, EmptyQueue DEF Sent
    <3>3. lookups' = lookups
      BY <1>5, <2>4 DEF Close
    <3> QED BY <1>1, <1>2, <1>4, <3>1, <3>2, <3>3 DEF InTouch, Silent, Running
  <2> QED BY <2>1, <2>2, <2>3, <2>4 DEF Requests
<1> QED BY <1>6, <1>7, <1>8, <1>12, <1>13 DEF FiskcInv, ProtoInv

\* What the daemon does in a turn of its own, without a message.
LEMMA TurnKeeps ==
    ASSUME FiskcInv, [Next]_vars, InfoInv', UNCHANGED clientVars,
           daemonUp => \A c \in Conns : InTouch(c)'
    PROVE  FiskcInv'
<1>1. SlotInv'
  BY SlotInvStep DEF FiskcInv
<1>2. SlotsTypeOK'
  BY <1>1 DEF FiskcInv, SlotsTypeOK, SlotInv, InfoInv, clientVars
<1> QED BY <1>1, <1>2 DEF FiskcInv, ProtoInv, clientVars

LEMMA CacheStepKeeps ==
    ASSUME FiskcInv,
           \/ \E c \in Conns : LooksUp(c)
           \/ \E v \in Compilers : RunsProbe(v)
           \/ CompilerReplaced
    PROVE  [Next]_vars /\ FiskcInv'
<1>1. UNCHANGED <<vars, clientVars>>
  BY DEF LooksUp, RunsProbe, CompilerReplaced
<1>2. InfoInv'
  BY EveryoneLooksUp, StatKeeps, ProbeKeeps, ReplaceKeeps
     DEF FiskcInv, LooksUp, RunsProbe, CompilerReplaced
<1>3. ASSUME daemonUp, NEW c \in Conns PROVE InTouch(c)'
  BY <1>1, <1>3, InTouchFrame DEF FiskcInv, ProtoInv, vars, clientVars
<1> QED BY <1>1, <1>2, <1>3, TurnKeeps

LEMMA LookupDoneKeeps ==
    ASSUME FiskcInv, NEW c \in Conns, LookupDone(c)
    PROVE  [Next]_vars /\ FiskcInv'
<1>1. PICK found, loadOk \in BOOLEAN : Resolve(c, found) /\ CompilerInfoReady(c, found, loadOk)
  BY DEF LookupDone
<1>2. daemonUp /\ UNCHANGED clientVars
  BY DEF LookupDone
<1>3. [Next]_vars
  BY <1>1 DEF Next
<1>4. InfoInv'
  BY <1>1, ResolveKeeps, EveryoneLooksUp DEF FiskcInv
<1>5. TypeOK /\ \A d \in Conns : InTouch(d)
  BY <1>2 DEF FiskcInv, ProtoInv, SlotInv
<1>6. /\ c \in lookups /\ lookups' = lookups \ {c} /\ conn' = conn
      /\ \A d \in Conns : granted[d] \subseteq granted'[d]
      /\ \A d \in Conns \ {c} : requested'[d] = requested[d]
      /\ "compile" \in requested'[c] => "compile" \in requested[c]
  <2>1. c \in lookups /\ lookups' = lookups \ {c} /\ conn' = conn
    BY <1>1 DEF CompilerInfoReady
  <2>2. CASE conn[c] = "closed"
    BY <1>1, <2>1, <2>2 DEF CompilerInfoReady
  <2>3. CASE conn[c] # "closed"
    <3>1. PICK k \in {"cpp", "local"} :
             Acquire(k, c) /\ requested' = [requested EXCEPT ![c] = @ \cup {k}]
      BY <1>1, <2>3 DEF CompilerInfoReady
    <3>2. requested \in [Conns -> SUBSET Kinds]
      BY <1>5 DEF TypeOK
    <3>3. \A d \in Conns : granted[d] \subseteq granted'[d]
      BY <1>5, <3>1, AcquireGrants DEF Kinds
    <3> QED BY <2>1, <3>1, <3>2, <3>3
  <2> QED BY <2>2, <2>3
<1>7. \A d \in Conns \ {c} : InTouch(d)'
  BY <1>2, <1>5, <1>6, InTouchFrame DEF clientVars
<1>8. InTouch(c)'
  BY <1>2, <1>5, <1>6 DEF InTouch, Sent, clientVars, Silent, Running
<1> QED BY <1>2, <1>3, <1>4, <1>7, <1>8, TurnKeeps

LEMMA DaemonDiesKeeps ==
    ASSUME FiskcInv, DaemonDies
    PROVE  [Next]_vars /\ FiskcInv'
<1>1. ClientStep /\ daemonUp' = FALSE /\ UNCHANGED <<pc, has>> /\ toDaemon' = [c \in Conns |-> <<>>]
  BY DEF DaemonDies
<1>2. toDaemon' \in [Conns -> Seq(Requests)]
  BY <1>1, EmptyQueue
<1> QED BY <1>1, <1>2, ClientStepFrame DEF FiskcInv, SlotsTypeOK, ProtoInv, ClientStep

LEMMA WatchesKeeps ==
    ASSUME FiskcInv, NEW m \in Monitors, Watches(m)
    PROVE  [Next]_vars /\ FiskcInv'
<1>1. /\ SubscribeSlots(m) \/ Unsubscribe(m)
      /\ UNCHANGED clientVars /\ UNCHANGED infoVars
  BY DEF Watches
<1>2. [Next]_vars /\ UNCHANGED <<requested, conn, lookups, granted>>
  BY <1>1 DEF Next, SubscribeSlots, Unsubscribe
<1>3. InfoInv'
  BY <1>1, <1>2, InfoFrame DEF FiskcInv
<1>4. ASSUME daemonUp, NEW c \in Conns PROVE InTouch(c)'
  BY <1>1, <1>2, <1>4, InTouchFrame DEF FiskcInv, ProtoInv, clientVars
<1> QED BY <1>1, <1>2, <1>3, <1>4, TurnKeeps

(* Whoever moves, the daemon takes one of its steps or none. *)
LEMMA FiskcStep == FiskcInv /\ [SlotsNext]_allVars => [Next]_vars /\ FiskcInv'
<1> SUFFICES ASSUME FiskcInv, [SlotsNext]_allVars PROVE [Next]_vars /\ FiskcInv'
  OBVIOUS
<1>1. CASE UNCHANGED allVars
  <2>1. UNCHANGED vars /\ UNCHANGED clientVars /\ UNCHANGED infoVars
    BY <1>1 DEF allVars
  <2>2. InfoInv'
    BY <2>1, InfoFrame DEF FiskcInv
  <2>3. ASSUME daemonUp, NEW c \in Conns PROVE InTouch(c)'
    BY <2>1, <2>3, InTouchFrame DEF FiskcInv, ProtoInv, vars, clientVars
  <2> QED BY <2>1, <2>2, <2>3, TurnKeeps
<1>2. ASSUME NEW c \in Conns, Works(c) PROVE [Next]_vars /\ FiskcInv'
  <2>1. CASE Start(c) \/ StartAlone(c)
    BY <2>1, StartKeeps
  <2>2. CASE ReadGrants(c)
    BY <2>2, ReadGrantsKeeps
  <2>3. CASE SlotWaitOver(c)
    BY <2>3, SlotWaitKeeps DEF SlotWaitOver
  <2>4. CASE ReleaseCpp(c)
    BY <2>4, ReleaseCppKeeps
  <2>5. CASE CompileWaitOver(c)
    BY <2>5, CompileWaitKeeps
  <2>6. CASE Finish(c)
    <3>1. Running(c) /\ Exit(c)
      BY <2>6 DEF Finish, Running
    <3> QED BY <3>1, ExitKeeps
  <2> QED BY <1>2, <2>1, <2>2, <2>3, <2>4, <2>5, <2>6 DEF Works
<1>3. ASSUME NEW c \in Conns, Suffers(c) PROVE [Next]_vars /\ FiskcInv'
  <2>1. CASE SlotWaitTimedOut(c)
    BY <2>1, SlotWaitKeeps DEF SlotWaitTimedOut
  <2>2. CASE PreprocessFailed(c) \/ RemoteFailed(c)
    BY <2>2, RunLocalKeeps DEF PreprocessFailed, RemoteFailed
  <2>3. CASE CompileWaitTimedOut(c)
    BY <2>3, CompileWaitKeeps
  <2>4. CASE Killed(c)
    <3>1. Running(c) /\ Exit(c)
      BY <2>4 DEF Killed
    <3> QED BY <3>1, ExitKeeps
  <2> QED BY <1>3, <2>1, <2>2, <2>3, <2>4 DEF Suffers
<1> QED BY <1>1, <1>2, <1>3, MessageKeeps, CacheStepKeeps, LookupDoneKeeps, WatchesKeeps,
           DaemonDiesKeeps DEF SlotsNext

----------------------------------------------------------------------------
(* The results *)

(* Each process and its messages stay in touch with what the daemon thinks of it. *)
THEOREM ProtocolIsKept == SlotsSpec => []FiskcInv
<1>1. FiskcInv /\ [SlotsNext]_allVars => FiskcInv'
  BY FiskcStep
<1> QED BY <1>1, FiskcInitInv, PTL DEF SlotsSpec

(* fiskc processes make only the requests that the daemon's model allows: what
   DaemonSlots promises holds with them. *)
THEOREM FiskcUsesTheSlots == SlotsSpec => Spec
<1>1. SlotsInit => Init
  BY DEF SlotsInit
<1>2. FiskcInv /\ [SlotsNext]_allVars => [Next]_vars
  BY FiskcStep
<1> QED BY <1>1, <1>2, ProtocolIsKept, PTL DEF SlotsSpec, Spec

(* What the daemon's pools and flags promise of any clients they keep with these. *)
THEOREM SlotsStayWellUsed == SlotsSpec => [](SlotsWellUsed /\ EveryoneAgrees)
BY FiskcUsesTheSlots, NoSlotIsWasted, NobodyIsMisled, PTL

(* Info from the cache is that of a compiler that was there during the lookup. *)
THEOREM LookupsAreRight == SlotsSpec => []InfoIsOfTheCompiler
<1>1. FiskcInv => InfoIsOfTheCompiler
  BY InfoFollows DEF FiskcInv
<1> QED BY <1>1, ProtocolIsKept, PTL

(* No message of a fiskc, however late it is read, fails an assertion of the daemon. *)
THEOREM AssertionsNeverFail == SlotsSpec => []DaemonAssertionsHold
<1>1. ASSUME FiskcInv PROVE DaemonAssertionsHold
  <2>1. \A c \in lookups : "cpp" \notin requested[c]
    BY <1>1 DEF FiskcInv, SlotInv, LookupsOK
  <2>2. ASSUME NEW c \in Conns, daemonUp, toDaemon[c] # <<>>
        PROVE  CASE Head(toDaemon[c]) = "acquireCompileSlot" -> "compile" \notin requested[c]
                 [] Head(toDaemon[c]) = "releaseCppSlot" -> "cpp" \in requested[c]
                 [] OTHER -> conn[c] = "open"
    <3>1. InTouch(c)
      BY <1>1, <2>2 DEF FiskcInv, ProtoInv
    <3>2. Head(toDaemon[c]) \in Sent(c)
      BY <1>1, <2>2, <3>1, TailElements DEF FiskcInv, SlotsTypeOK, InTouch, Sent
    <3>3. conn[c] = "open"
      BY <2>2, <3>1 DEF InTouch, Silent, Running
    <3> QED BY <3>1, <3>2, <3>3 DEF InTouch
  <2> QED BY <1>1, <2>1, <2>2 DEF FiskcInv, DaemonAssertionsHold
<1> QED BY <1>1, ProtocolIsKept, PTL

(* While the daemon lives no more fiskc preprocess or compile with a slot than there
   are slots. *)
THEOREM MachineStaysResponsive == SlotsSpec => []MachineNotOverloaded
<1>1. ASSUME FiskcInv, daemonUp PROVE MachineNotOverloaded
  <2>1. \A c \in Conns : InTouch(c)
    BY <1>1 DEF FiskcInv, ProtoInv
  <2>2. WithinCapacity /\ HoldersWereTold /\ used \in [Kinds -> SUBSET Conns]
    BY <1>1, SlotInvImplies DEF FiskcInv, TypeOK
  <2>3. ASSUME NEW k \in Kinds, NEW s \in SUBSET Conns, \A c \in s : k \in granted[c]
        PROVE  Cardinality(s) <= Count[k]
    <3>1. s \subseteq used[k]
      BY <2>2, <2>3 DEF HoldersWereTold
    <3>2. IsFiniteSet(used[k]) /\ Cardinality(used[k]) \in Nat
      BY <2>2, HoldersFinite
    <3>3. Cardinality(s) \in Nat /\ Cardinality(s) <= Cardinality(used[k])
      BY <3>1, <3>2, FS_Subset, HoldersFinite
    <3> QED BY <2>2, <3>2, <3>3, CountType DEF WithinCapacity
  <2>4. Cardinality({c \in Conns : pc[c] = "preprocessing"}) <= Count["cpp"]
    <3>1. \A c \in {d \in Conns : pc[d] = "preprocessing"} : "cpp" \in granted[c]
      BY <2>1 DEF InTouch
    <3> QED BY <2>3, <3>1 DEF Kinds
  <2>5. ASSUME NEW k \in {"local", "compile"}
        PROVE  Cardinality({c \in Conns : pc[c] = "compiling" /\ k \in has[c]}) <= Count[k]
    <3>1. \A c \in {d \in Conns : pc[d] = "compiling" /\ k \in has[d]} : k \in granted[c]
      BY <2>1 DEF InTouch
    <3> QED BY <2>3, <3>1 DEF Kinds
  <2> QED BY <2>4, <2>5 DEF MachineNotOverloaded, Count, Kinds
<1>2. FiskcInv => MachineNotOverloaded
  BY <1>1 DEF MachineNotOverloaded
<1> QED BY <1>2, ProtocolIsKept, PTL
=============================================================================
