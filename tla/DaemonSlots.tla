---------------------------- MODULE DaemonSlots ----------------------------
(***************************************************************************)
(* fisk-daemon: the three slot pools of a build machine (daemon/Slots.ts)  *)
(* and the per-connection handlers that acquire and release their slots    *)
(* (daemon/fisk-daemon.ts).  A pool bounds how many fiskc processes of the *)
(* machine preprocess ("cpp"), compile on behalf of a failed remote        *)
(* compile ("compile") or compile locally by choice ("local") at a time.   *)
(*                                                                         *)
(* The daemon is one thread: a handler is one action.  The only await is   *)
(* in acquireSlot, whose compiler lookup (CompilerInfoCache.get) resolves  *)
(* in a later turn: AcquireSlot starts it, CompilerInfoReady goes on.      *)
(***************************************************************************)
EXTENDS Naturals, FiniteSets, Queues

CONSTANTS Conns,      \* connections of fiskc processes
          Monitors,   \* connections that subscribe to the slot counters
          CppSlots,   \* --cpp-slots
          CompileSlots, \* --slots
          LocalSlots  \* --local-slots, 0 to disable

ASSUME SlotsAssumption ==
    /\ IsFiniteSet(Conns)
    /\ CppSlots \in Nat
    /\ CompileSlots \in Nat
    /\ LocalSlots \in Nat

Kinds == {"cpp", "compile", "local"}

Count == [k \in Kinds |-> CASE k = "cpp" -> CppSlots
                            [] k = "compile" -> CompileSlots
                            [] k = "local" -> LocalSlots]

VARIABLES
    used,        \* Slots.used of each pool
    pending,     \* Slots.pending of each pool, in insertion order
    requested,   \* the requestedCppSlot, ... flags of each connection
    conn,        \* "new", "open" or "closed" (compileClosed)
    lookups,     \* connections whose compiler lookup has not resolved
    known,       \* connections whose lookup found the compiler's info
    granted,     \* slots each connection was told it has and has not given back
    subscribers, \* slotSubscribers
    lastInfo     \* the last slotsInfo sent to each monitor

pools == <<used, pending>>
feed == <<subscribers, lastInfo>>
vars == <<used, pending, requested, conn, lookups, known, granted, subscribers, lastInfo>>

----------------------------------------------------------------------------
(* Slots.ts *)

\* Mutant: one slot too many.
HasRoomOffByOne(k) == Cardinality(used[k]) <= Count[k]

HasRoom(k) == Cardinality(used[k]) < Count[k]

\* slotsInfo(): the active counts the monitors are shown (the capacities never
\* change, and the running totals are left out).
SlotsInfo == [k \in Kinds |-> Cardinality(used[k])]

\* The "changed" listeners: when a counter moved, every subscriber is told.
BroadcastSlotsInfo ==
    lastInfo' = IF SlotsInfo' = SlotsInfo
                THEN lastInfo
                ELSE [m \in Monitors |-> IF m \in subscribers THEN SlotsInfo' ELSE lastInfo[m]]

\* Mutant: the place is in front of the others that wait.
AcquireInFront(k, c) ==
    /\ IF HasRoom(k)
       THEN /\ used' = [used EXCEPT ![k] = @ \cup {c}]
            /\ granted' = [granted EXCEPT ![c] = @ \cup {k}]
            /\ UNCHANGED pending
       ELSE /\ pending' = [pending EXCEPT ![k] = <<c>> \o @]
            /\ UNCHANGED <<used, granted>>
    /\ BroadcastSlotsInfo

\* Slots.acquire: a slot now, or a place at the end of the queue.
Acquire(k, c) ==
    /\ IF HasRoom(k)
       THEN /\ used' = [used EXCEPT ![k] = @ \cup {c}]
            /\ granted' = [granted EXCEPT ![c] = @ \cup {k}]
            /\ UNCHANGED pending
       ELSE /\ pending' = [pending EXCEPT ![k] = Append(@, c)]
            /\ UNCHANGED <<used, granted>>
    /\ BroadcastSlotsInfo

\* The connection whose callback Slots.release runs when c leaves pool k: the
\* first of those that wait, once c no longer does.
Promoted(k, c) ==
    LET q == Without(pending[k], c)
    IN IF c \in used[k] /\ q # <<>> THEN {Head(q)} ELSE {}

\* Mutant: the promoted connection's callback is not called.
ReleaseUnannounced(c, ks) ==
    /\ used' = [k \in Kinds |->
                  IF k \in ks THEN (used[k] \ {c}) \cup Promoted(k, c) ELSE used[k]]
    /\ pending' = [k \in Kinds |->
                  IF k \notin ks THEN pending[k]
                  ELSE IF Promoted(k, c) = {} THEN Without(pending[k], c)
                  ELSE Tail(Without(pending[k], c))]
    /\ granted' = [granted EXCEPT ![c] = @ \ ks]
    /\ BroadcastSlotsInfo

\* Slots.release of c in every pool of ks.
Release(c, ks) ==
    /\ used' = [k \in Kinds |->
                  IF k \in ks THEN (used[k] \ {c}) \cup Promoted(k, c) ELSE used[k]]
    /\ pending' = [k \in Kinds |->
                  IF k \notin ks THEN pending[k]
                  ELSE IF Promoted(k, c) = {} THEN Without(pending[k], c)
                  ELSE Tail(Without(pending[k], c))]
    /\ granted' = [d \in Conns |->
                  (granted[d] \ (IF d = c THEN ks ELSE {}))
                     \cup {k \in ks : d \in Promoted(k, c)}]
    /\ BroadcastSlotsInfo

----------------------------------------------------------------------------
(* fisk-daemon.ts: the handlers of server.on("compile", ...) *)

Init ==
    /\ used = [k \in Kinds |-> {}]
    /\ pending = [k \in Kinds |-> <<>>]
    /\ requested = [c \in Conns |-> {}]
    /\ conn = [c \in Conns |-> "new"]
    /\ lookups = {}
    /\ known = {}
    /\ granted = [c \in Conns |-> {}]
    /\ subscribers = {}
    /\ lastInfo = [m \in Monitors |-> SlotsInfo]

\* Server._onConnection: the flags of the connection start out false.
Connect(c) ==
    /\ conn[c] = "new"
    /\ conn' = [conn EXCEPT ![c] = "open"]
    /\ UNCHANGED <<pools, requested, lookups, known, granted, feed>>

\* acquireCppSlot, acquireCompileSlot.  The assertion of the code is the guard:
\* a client asks for a slot of a kind once.
AcquireCppSlot(c) ==
    /\ conn[c] = "open"
    /\ "cpp" \notin requested[c]
    /\ requested' = [requested EXCEPT ![c] = @ \cup {"cpp"}]
    /\ Acquire("cpp", c)
    /\ UNCHANGED <<conn, lookups, known, subscribers>>

AcquireCompileSlot(c) ==
    /\ conn[c] = "open"
    /\ "compile" \notin requested[c]
    /\ requested' = [requested EXCEPT ![c] = @ \cup {"compile"}]
    /\ Acquire("compile", c)
    /\ UNCHANGED <<conn, lookups, known, subscribers>>

\* releaseCppSlot, releaseCompileSlot, releaseLocalSlot.
ReleaseSlot(k, c) ==
    /\ conn[c] = "open"
    /\ k \in requested[c]
    /\ requested' = [requested EXCEPT ![c] = @ \ {k}]
    /\ Release(c, {k})
    /\ UNCHANGED <<conn, lookups, known, subscribers>>

\* acquireSlot: the compiler lookup starts; nothing is acquired yet.
AcquireSlot(c) ==
    /\ conn[c] = "open"
    /\ c \notin lookups
    /\ lookups' = lookups \cup {c}
    /\ UNCHANGED <<pools, requested, conn, known, granted, feed>>

\* canAcquireLocalSlot() && localSlots.tryAcquire(): loadOk is the answer of the
\* load average check, which the machine decides.
LocalSlotFree(loadOk) == LocalSlots > 0 /\ loadOk /\ HasRoom("local")

\* Mutant: compileClosed is not looked at after the await.
CompilerInfoReadyUnchecked(c, found, loadOk) ==
    /\ c \in lookups
    /\ lookups' = lookups \ {c}
    /\ known' = IF found THEN known \cup {c} ELSE known \ {c}
    /\ LET k == IF LocalSlotFree(loadOk) THEN "local" ELSE "cpp"
       IN k \notin requested[c] /\ requested' = [requested EXCEPT ![c] = @ \cup {k}]
                               /\ Acquire(k, c)
    /\ UNCHANGED <<conn, subscribers>>

\* The lookup resolved, found or not.  The connection may be gone by now.
CompilerInfoReady(c, found, loadOk) ==
    /\ c \in lookups
    /\ lookups' = lookups \ {c}
    /\ IF conn[c] = "closed"
       THEN UNCHANGED <<pools, requested, known, granted, lastInfo>>
       ELSE /\ known' = IF found THEN known \cup {c} ELSE known \ {c}
            /\ IF LocalSlotFree(loadOk)
               THEN /\ requested' = [requested EXCEPT ![c] = @ \cup {"local"}]
                    /\ Acquire("local", c)
               ELSE /\ "cpp" \notin requested[c]
                    /\ requested' = [requested EXCEPT ![c] = @ \cup {"cpp"}]
                    /\ Acquire("cpp", c)
    /\ UNCHANGED <<conn, subscribers>>

\* "end" and "error": every slot the connection asked for is given back, whether
\* it was granted or still waited for.
Close(c) ==
    /\ conn[c] = "open"
    /\ conn' = [conn EXCEPT ![c] = "closed"]
    /\ requested' = [requested EXCEPT ![c] = {}]
    /\ known' = known \ {c}
    /\ Release(c, requested[c])
    /\ UNCHANGED <<lookups, subscribers>>

\* subscribeSlots: the current counters are sent at once.
SubscribeSlots(m) ==
    /\ m \notin subscribers
    /\ subscribers' = subscribers \cup {m}
    /\ lastInfo' = [lastInfo EXCEPT ![m] = SlotsInfo]
    /\ UNCHANGED <<pools, requested, conn, lookups, known, granted>>

\* The subscriber's "end" or "error" handler; what it was shown goes with it.
Unsubscribe(m) ==
    /\ m \in subscribers
    /\ subscribers' = subscribers \ {m}
    /\ lastInfo' = [lastInfo EXCEPT ![m] = [k \in Kinds |-> 0]]
    /\ UNCHANGED <<pools, requested, conn, lookups, known, granted>>

\* The requests a connection may make: one acquireSlot or acquireCppSlot at a
\* time, which is what the assertions of the handlers ask of their callers.
Request(c) ==
    \/ c \notin lookups /\ AcquireCppSlot(c)
    \/ AcquireCompileSlot(c)
    \/ requested[c] \cap {"cpp", "local"} = {} /\ AcquireSlot(c)
    \/ \E k \in Kinds : ReleaseSlot(k, c)

Next ==
    \/ \E c \in Conns :
          \/ Connect(c)
          \/ Request(c)
          \/ \E found, loadOk \in BOOLEAN : CompilerInfoReady(c, found, loadOk)
          \/ Close(c)
    \/ \E m \in Monitors : SubscribeSlots(m) \/ Unsubscribe(m)

Spec == Init /\ [][Next]_vars

----------------------------------------------------------------------------
(* Properties *)

TypeOK ==
    /\ used \in [Kinds -> SUBSET Conns]
    /\ pending \in [Kinds -> Seq(Conns)]
    /\ requested \in [Conns -> SUBSET Kinds]
    /\ conn \in [Conns -> {"new", "open", "closed"}]
    /\ lookups \subseteq Conns
    /\ known \subseteq Conns
    /\ granted \in [Conns -> SUBSET Kinds]
    /\ subscribers \subseteq Monitors
    /\ lastInfo \in [Monitors -> [Kinds -> Nat]]

(* A pool never hands out more slots than it has, whatever the order in which
   requests, releases and disconnects of several clients arrive. *)
WithinCapacity == \A k \in Kinds : Cardinality(used[k]) <= Count[k]

(* Slots.ts:76 asserts that a slot is released either from a full pool or from
   one nobody waits for: no client is left waiting beside a free slot. *)
NobodyWaitsBesideAFreeSlot ==
    \A k \in Kinds : pending[k] # <<>> => Cardinality(used[k]) >= Count[k]

(* The flags by which the handlers decide what to release agree with the pools:
   a connection's flag is set exactly while it holds a slot or waits for one,
   never both, and it waits at most once.  A flag that went missing is a slot
   lost to the machine; one set too often releases somebody else's. *)
FlagsMatchPools ==
    \A k \in Kinds :
       /\ \A c \in Conns : k \in requested[c] <=> c \in used[k] \cup ToSet(pending[k])
       /\ used[k] \cap ToSet(pending[k]) = {}
       /\ Distinct(pending[k])

(* A connection that is gone holds no slot and waits for none, although its
   compiler lookup may resolve after it closed (fisk-daemon.ts:245). *)
TheGoneHoldNothing ==
    \A c \in Conns : conn[c] # "open" =>
       \A k \in Kinds : c \notin used[k] /\ c \notin ToSet(pending[k])

(* Every subscriber has been shown the counters as they are now. *)
SubscribersUpToDate == \A m \in subscribers : lastInfo[m] = SlotsInfo

(* Who was told it has a slot and has not given it back is who has one: no
   promotion goes unannounced, and none is announced to the wrong client. *)
HoldersWereTold == \A c \in Conns, k \in Kinds : k \in granted[c] <=> c \in used[k]

(* No slot is handed out twice, kept idle, or lost to somebody who left. *)
SlotsWellUsed == WithinCapacity /\ NobodyWaitsBesideAFreeSlot /\ TheGoneHoldNothing

(* The pools, the flags that decide what a handler releases, what each client was
   told and what each subscriber was shown agree whenever a handler has ended. *)
EveryoneAgrees == FlagsMatchPools /\ HoldersWereTold /\ SubscribersUpToDate

(* Each pool is a first-come-first-served semaphore. *)
CppPool == INSTANCE FifoSemaphore
    WITH Procs <- Conns, Capacity <- CppSlots,
         holders <- used["cpp"], waiting <- pending["cpp"]
CompilePool == INSTANCE FifoSemaphore
    WITH Procs <- Conns, Capacity <- CompileSlots,
         holders <- used["compile"], waiting <- pending["compile"]
LocalPool == INSTANCE FifoSemaphore
    WITH Procs <- Conns, Capacity <- LocalSlots,
         holders <- used["local"], waiting <- pending["local"]

(* The pools, driven by handlers that release several of them in one step,
   serve waiters in order and never let a newcomer overtake them. *)
PoolsAreFifo == CppPool!SemSpec /\ CompilePool!SemSpec /\ LocalPool!SemSpec
=============================================================================
