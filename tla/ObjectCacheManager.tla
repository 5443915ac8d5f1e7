------------------------- MODULE ObjectCacheManager -------------------------
(***************************************************************************)
(* The scheduler's view of the builders' object caches                     *)
(* (scheduler/ObjectCacheManager.ts): which node has which object, which   *)
(* transfers between nodes it has ordered and not yet seen done, and the   *)
(* timers that forget a transfer that never is.  A node is a connection of *)
(* a builder; a pending transfer is keyed by the builder's address, which  *)
(* two overlapping connections share.                                      *)
(***************************************************************************)
EXTENDS Integers, FiniteSets, FiniteSetsExt

CONSTANTS Conns, Addrs, AddrOf,   \* connections of builders, and their addresses
          Shas, FileSize,         \* objects and their sizes
          CacheSize,              \* maxSize of every node
          Redundancy,             \* --object-cache-redundancy
          OnInsertion, OnCacheHit,\* --distribute-object-cache-on-...
          MaxOrphans              \* bound: lost timers of one transfer

ASSUME ManagerAssumption ==
    /\ IsFiniteSet(Conns)
    /\ IsFiniteSet(Shas)
    /\ AddrOf \in [Conns -> Addrs]
    /\ FileSize \in [Shas -> Nat \ {0}]
    /\ {CacheSize, MaxOrphans} \subseteq Nat
    /\ Redundancy \in Nat \ {0}
    /\ {OnInsertion, OnCacheHit} \subseteq BOOLEAN

VARIABLES
    conn,     \* each connection: "none", "open", "announced" its cache, "closed"
    nodes,    \* the keys of byNode
    sha1s,    \* the sha1s of each node, {} if it is not in the map
    bySHA1,   \* the nodes of each sha1, {} if it is not in the map
    pending,  \* pendingTransfers
    timers,   \* the keys of pendingTransferTimers, each an armed timer
    orphans   \* armed timers the map has lost, of each key

vars == <<conn, nodes, sha1s, bySHA1, pending, timers, orphans>>

Keys == Shas \X Addrs
Live == {"open", "announced"}

TypeOK ==
    /\ conn \in [Conns -> {"none", "open", "announced", "closed"}]
    /\ nodes \in SUBSET Conns
    /\ sha1s \in [Conns -> SUBSET Shas]
    /\ bySHA1 \in [Shas -> SUBSET Conns]
    /\ pending \in SUBSET Keys
    /\ timers \in SUBSET Keys
    /\ orphans \in [Keys -> 0..MaxOrphans]

Init ==
    /\ conn = [c \in Conns |-> "none"]
    /\ nodes = {}
    /\ sha1s = [c \in Conns |-> {}]
    /\ bySHA1 = [s \in Shas |-> {}]
    /\ pending = {}
    /\ timers = {}
    /\ orphans = [k \in Keys |-> 0]

----------------------------------------------------------------------------
(* distribute: who is told to fetch what.  The scan of the nodes starts where *)
(* the last one stopped, so any set that is as large as the scan would make it *)
(* may be chosen.                                                              *)

SizeOfAll(S) == MapThenSumSet(LAMBDA s : FileSize[s], S)

\* Mutant of Needed: transfers under way do not count as copies.
NeededBesidesCopies(s, all, have, ordered, redundancy) ==
    IF have[s] = {} THEN 0
    ELSE Max({0, Min({redundancy + 1 - Cardinality(have[s]), Cardinality(all) - 1})})

\* The copies to order, when have and ordered are the copies and the transfers.
Needed(s, all, have, ordered, redundancy) ==
    IF have[s] = {} THEN 0
    ELSE LET copies == Cardinality(have[s]) + Cardinality({k \in ordered : k[1] = s})
         IN Max({0, Min({redundancy + 1 - copies, Cardinality(all) - 1})})

\* Mutant of Eligible: a transfer under way does not count against a node.
EligibleTwice(s, all, have, ordered) == all \ have[s]

Eligible(s, all, have, ordered) ==
    {c \in all \ have[s] : <<s, AddrOf[c]>> \notin ordered}

\* How many transfers an order asks for.
Total(order) == MapThenSumSet(LAMBDA s : Cardinality(order[s]), DOMAIN order)

\* The orders a call may give, for the objects in S, with at most max transfers,
\* to the nodes in to: available is never overdrawn, and an object gets fewer
\* than it needs only if max is reached or no other node has room.
Orders(S, redundancy, max, to, contents, have, ordered) ==
    LET needed(s) == Needed(s, nodes, have, ordered, redundancy)
        eligible(s) == Eligible(s, nodes, have, ordered) \cap to
        left(c, order) ==
            CacheSize - SizeOfAll(contents[c]) - SizeOfAll({s \in S : c \in order[s]})
        orderable == UNION {eligible(s) : s \in {x \in S : needed(x) > 0}}
    IN {order \in [S -> SUBSET orderable] :
          /\ \A s \in S : Cardinality(order[s]) <= needed(s) /\ order[s] \subseteq eligible(s)
          /\ \A c \in UNION {order[s] : s \in S} : left(c, order) >= 0
          /\ Total(order) <= max
          /\ \A s \in S : Cardinality(order[s]) < needed(s) =>
                \/ Total(order) = max
                \/ \A c \in eligible(s) \ order[s] : left(c, order) < FileSize[s]}

\* addPendingTransfer for each order: of two timers of one key the map keeps one.
Send(order, pend, arm) ==
    LET times(k) == IF k[1] \in DOMAIN order
                    THEN Cardinality({c \in order[k[1]] : AddrOf[c] = k[2]}) ELSE 0
        lost(k) == IF times(k) = 0 THEN 0
                   ELSE times(k) - 1 + (IF k \in arm THEN 1 ELSE 0)
        new == {k \in Keys : times(k) > 0}
    IN /\ pending' = pend \cup new
       /\ timers' = arm \cup new
       /\ orphans' = [k \in Keys |-> orphans[k] + lost(k)]
       /\ \A k \in Keys : orphans'[k] <= MaxOrphans

Unlimited == Cardinality(Conns) * Cardinality(Shas)

----------------------------------------------------------------------------
(* The builders' messages *)

Connect(c) ==
    /\ conn[c] = "none"
    /\ conn' = [conn EXCEPT ![c] = "open"]
    /\ UNCHANGED <<nodes, sha1s, bySHA1, pending, timers, orphans>>

\* builder.on("objectCache"), which a builder sends once: addNode.
AddNode(c) ==
    /\ conn[c] = "open"
    /\ conn' = [conn EXCEPT ![c] = "announced"]
    /\ nodes' = nodes \cup {c}
    /\ \E S \in SUBSET Shas :
          /\ SizeOfAll(S) <= CacheSize
          /\ sha1s' = [sha1s EXCEPT ![c] = S]
          /\ bySHA1' = [s \in Shas |-> IF s \in S THEN bySHA1[s] \cup {c} ELSE bySHA1[s]]
    /\ UNCHANGED <<pending, timers, orphans>>

\* builder.on("objectCacheAdded"): insert, which may distribute the object.
Insert(c, s) ==
    LET key == <<s, AddrOf[c]>>
        count == Cardinality(bySHA1[s] \cup {c})
        goal == IF OnInsertion /\ count - 1 < Redundancy THEN {s} ELSE {}
    IN /\ c \in nodes
       /\ sha1s' = [sha1s EXCEPT ![c] = @ \cup {s}]
       /\ bySHA1' = [bySHA1 EXCEPT ![s] = @ \cup {c}]
       /\ \E order \in Orders(goal, Redundancy, Unlimited, Conns, sha1s', bySHA1', pending \ {key}) :
             Send(order, pending \ {key}, timers \ {key})
       /\ UNCHANGED <<conn, nodes>>

\* builder.on("objectCacheRemoved"): remove.
RemoveSha(c, s) ==
    /\ c \in nodes
    /\ sha1s' = [sha1s EXCEPT ![c] = @ \ {s}]
    /\ bySHA1' = [bySHA1 EXCEPT ![s] = @ \ {c}]
    /\ UNCHANGED <<conn, nodes, pending, timers, orphans>>

\* Mutant of RemoveNode: the transfers ordered from the node are kept.
RemoveNodeKeepingPending(c) ==
    /\ conn[c] \in Live
    /\ conn' = [conn EXCEPT ![c] = "closed"]
    /\ nodes' = nodes \ {c}
    /\ sha1s' = [sha1s EXCEPT ![c] = {}]
    /\ bySHA1' = [s \in Shas |-> bySHA1[s] \ {c}]
    /\ UNCHANGED <<pending, timers, orphans>>

\* builder.on("close"): removeNode and clearAllPendingForNode.
RemoveNode(c) ==
    LET mine == {k \in pending : c \in nodes /\ k[2] = AddrOf[c]}
    IN /\ conn[c] \in Live
       /\ conn' = [conn EXCEPT ![c] = "closed"]
       /\ nodes' = nodes \ {c}
       /\ sha1s' = [sha1s EXCEPT ![c] = {}]
       /\ bySHA1' = [s \in Shas |-> bySHA1[s] \ {c}]
       /\ pending' = pending \ mine
       /\ timers' = timers \ mine
       /\ UNCHANGED orphans

----------------------------------------------------------------------------
(* Cache hits, requests over HTTP, and time *)

\* builder.on("cacheHit"): hit.
Hit(s) ==
    /\ OnCacheHit
    /\ \E order \in Orders({s}, Redundancy, Unlimited, Conns, sha1s, bySHA1, pending) :
          Send(order, pending, timers)
    /\ UNCHANGED <<conn, nodes, sha1s, bySHA1>>

\* /objectcache?distribute with a redundancy, a max, one object or all, and one node
\* or all of them.
Distribute ==
    /\ \E redundancy \in 1..2, max \in {1, Unlimited},
          to \in {Conns} \cup {{c \in Conns : AddrOf[c] = a} : a \in Addrs},
          S \in {Shas} \cup {{s} : s \in Shas} :
          \E order \in Orders(S, redundancy, max, to, sha1s, bySHA1, pending) :
             Send(order, pending, timers)
    /\ UNCHANGED <<conn, nodes, sha1s, bySHA1>>

\* /objectcache?clear: clear.
Clear ==
    /\ pending' = {}
    /\ timers' = {}
    /\ UNCHANGED <<conn, nodes, sha1s, bySHA1, orphans>>

\* /objectcache?off and later ?on: a new manager, which the builders that are
\* connected do not announce themselves to.
OffAndOn ==
    /\ nodes' = {}
    /\ sha1s' = [c \in Conns |-> {}]
    /\ bySHA1' = [s \in Shas |-> {}]
    /\ pending' = {}
    /\ timers' = {}
    /\ orphans' = [k \in Keys |-> 0]
    /\ UNCHANGED conn

\* A timer fires: one of the map, or one that it lost, which deletes the entry
\* of the map all the same, and so loses the timer there.
Expire(k) ==
    /\ k \in timers
    /\ pending' = pending \ {k}
    /\ timers' = timers \ {k}
    /\ UNCHANGED <<conn, nodes, sha1s, bySHA1, orphans>>

ExpireLost(k) ==
    /\ orphans[k] > 0
    /\ pending' = pending \ {k}
    /\ timers' = timers \ {k}
    /\ orphans' = [orphans EXCEPT ![k] = IF k \in timers THEN @ ELSE @ - 1]
    /\ UNCHANGED <<conn, nodes, sha1s, bySHA1>>

Next ==
    \/ \E c \in Conns : Connect(c) \/ AddNode(c) \/ RemoveNode(c)
    \/ \E c \in Conns, s \in Shas : Insert(c, s) \/ RemoveSha(c, s)
    \/ \E s \in Shas : Hit(s)
    \/ \E k \in Keys : Expire(k) \/ ExpireLost(k)
    \/ Distribute
    \/ Clear
    \/ OffAndOn

Spec == Init /\ [][Next]_vars

----------------------------------------------------------------------------
(* Properties *)

(* The two maps say the same: an object is listed under a node exactly when the
   node is listed under the object, and only nodes are listed. *)
MapsAgree ==
    /\ TypeOK
    /\ \A c \in Conns, s \in Shas :
          c \in bySHA1[s] <=> s \in sha1s[c]

(* A transfer is pending only at a node that is connected, and its timer is
   armed: one that never completes is forgotten and can be ordered again. *)
PendingWillEnd ==
    /\ pending = timers
    /\ \A k \in pending : \E c \in nodes : AddrOf[c] = k[2]

(* What the manager has noted of copies, transfers and timers fits together after
   any sequence of announcements, orders, closes and switches. *)
BooksAgree == MapsAgree /\ PendingWillEnd

(* No order, whether on insertion, on a hit or by request, takes the copies and
   pending transfers of an object past one more than the largest redundancy that
   anybody asks for, the option's or the 2 of a request: orders of different
   triggers do not add up.  (A request for less is held to the same bound.) *)
Copies(s) == Cardinality(bySHA1[s]) + Cardinality({k \in pending : k[1] = s})
NotTooManyCopies ==
    [][\A s \in Shas :
          (\E k \in pending' \ pending : k[1] = s) => Copies(s)' <= Max({Redundancy, 2}) + 1]_vars

(* A transfer is ordered twice at once, losing the first one's timer, only while
   two connections of one builder overlap. *)
TimerLostOnlyByTwins ==
    [][\A k \in Keys : orphans'[k] > orphans[k] =>
          \E c, d \in {n \in Conns : conn[n] \in Live} :
             c # d /\ AddrOf[c] = k[2] /\ AddrOf[d] = k[2]]_vars
=============================================================================
