------------------------- MODULE ObjectCacheProofs -------------------------
(***************************************************************************)
(* Proofs about ObjectCacheManager, for any finite sets of connections and *)
(* objects, any sizes and redundancies: the manager's maps agree, what is  *)
(* pending will end, and no order goes past the redundancy or loses a      *)
(* timer but between twins.  And proofs about BuilderObjectCache, for any  *)
(* objects, sizes, maxima and number of indexes: an index is never past    *)
(* its maximum, and tells the truth as long as no two owners met at a name.*)
(***************************************************************************)
EXTENDS ObjectCacheManager, BuilderObjectCache, QueueTheorems, FiniteSetTheorems,
        WellFoundedInduction, TLAPS

----------------------------------------------------------------------------
(* Orders *)

\* What the proofs use of Orders.
Fits(order, S, redundancy, have, ordered) ==
    /\ DOMAIN order = S
    /\ \A s \in S :
          /\ order[s] \subseteq nodes
          /\ \A c \in order[s] : <<s, AddrOf[c]>> \notin ordered
          /\ Cardinality(order[s]) <= Needed(s, nodes, have, ordered, redundancy)

(* Every order of Orders fits. *)
LEMMA OrdersFit ==
    ASSUME NEW S, NEW redundancy, NEW max, NEW to, NEW contents, NEW have, NEW ordered,
           NEW order \in Orders(S, redundancy, max, to, contents, have, ordered)
    PROVE  Fits(order, S, redundancy, have, ordered)
<1>1. /\ DOMAIN order = S
      /\ \A s \in S :
            /\ Cardinality(order[s]) <= Needed(s, nodes, have, ordered, redundancy)
            /\ order[s] \subseteq Eligible(s, nodes, have, ordered)
  BY DEF Orders
<1> QED BY <1>1 DEF Fits, Eligible

(* An order for an object asks for no more than are missing. *)
LEMMA NeededBound ==
    ASSUME NEW s, NEW have, NEW ordered, NEW redundancy \in Nat,
           Cardinality(nodes) \in Nat, Cardinality(have[s]) \in Nat,
           Cardinality({k \in ordered : k[1] = s}) \in Nat
    PROVE  LET needed == Needed(s, nodes, have, ordered, redundancy)
           IN  /\ needed \in Nat
               /\ needed > 0 =>
                    needed + Cardinality(have[s]) + Cardinality({k \in ordered : k[1] = s})
                       <= redundancy + 1
<1>1. PICK a \in Nat : a = Cardinality(have[s])
  OBVIOUS
<1>2. PICK b \in Nat : b = Cardinality({k \in ordered : k[1] = s})
  OBVIOUS
<1>3. PICK n \in Nat : n = Cardinality(nodes)
  OBVIOUS
<1>4. PICK x \in Int : x = redundancy + 1 - (a + b)
  OBVIOUS
<1>5. PICK y \in Int : y = n - 1
  OBVIOUS
<1>6. PICK m \in Int : m = Min({x, y}) /\ m <= x /\ m <= y
  <2>1. \E z \in {x, y} : \A w \in {x, y} : z <= w
    <3>1. CASE x <= y
      BY <3>1
    <3>2. CASE ~(x <= y)
      BY <3>2
    <3> QED BY <3>1, <3>2
  <2>2. Min({x, y}) \in {x, y} /\ \A w \in {x, y} : Min({x, y}) <= w
    BY <2>1, Zenon DEF Min
  <2> QED BY <2>2
<1>7. PICK r \in Int : r = Max({0, m}) /\ r \in {0, m} /\ r >= 0
  <2>1. \E z \in {0, m} : \A w \in {0, m} : z >= w
    <3>1. CASE m <= 0
      BY <3>1
    <3>2. CASE ~(m <= 0)
      BY <3>2
    <3> QED BY <3>1, <3>2
  <2>2. Max({0, m}) \in {0, m} /\ \A w \in {0, m} : Max({0, m}) >= w
    BY <2>1, Zenon DEF Max
  <2> QED BY <2>2
<1>8. Needed(s, nodes, have, ordered, redundancy) = 0 \/ Needed(s, nodes, have, ordered, redundancy) = r
  BY <1>1, <1>2, <1>3, <1>4, <1>5, <1>6, <1>7 DEF Needed
<1> QED BY <1>1, <1>2, <1>4, <1>6, <1>7, <1>8

\* The connections that an order gives key k to.
Given(order, k) == {c \in order[k[1]] : AddrOf[c] = k[2]}

(* What sending an order notes: what is new was given to a node, and a timer is lost
   only where one key was given to two. *)
LEMMA SendNotes ==
    ASSUME nodes \in SUBSET Conns, orphans \in [Keys -> 0..MaxOrphans],
           NEW S \in SUBSET Shas, NEW redundancy, NEW have,
           NEW pend \in SUBSET Keys, NEW order, Fits(order, S, redundancy, have, pend),
           Send(order, pend, pend)
    PROVE  /\ pending' = timers' /\ pending' \in SUBSET Keys /\ pend \subseteq pending'
           /\ \A k \in pending' \ pend : k[1] \in S /\ Given(order, k) # {}
           /\ orphans' \in [Keys -> 0..MaxOrphans]
           /\ \A k \in Keys : orphans'[k] > orphans[k] =>
                 \E c, d \in nodes : c # d /\ AddrOf[c] = k[2] /\ AddrOf[d] = k[2]
<1>1. PICK times : times = [k \in Keys |-> IF k[1] \in S THEN Cardinality(Given(order, k)) ELSE 0]
  OBVIOUS
<1>2. PICK lost : lost = [k \in Keys |-> IF times[k] = 0 THEN 0
                                         ELSE times[k] - 1 + (IF k \in pend THEN 1 ELSE 0)]
  OBVIOUS
<1>3. DOMAIN order = S
  BY DEF Fits
<1>4. \A k \in Keys :
         times[k] = IF k[1] \in DOMAIN order
                    THEN Cardinality({c \in order[k[1]] : AddrOf[c] = k[2]}) ELSE 0
  BY <1>1, <1>3 DEF Given
<1>5. /\ pending' = pend \cup {k \in Keys : times[k] > 0}
      /\ timers' = pend \cup {k \in Keys : times[k] > 0}
      /\ orphans' = [k \in Keys |-> orphans[k] + lost[k]]
      /\ \A k \in Keys : orphans'[k] <= MaxOrphans
  BY <1>2, <1>4 DEF Send
<1>6. ASSUME NEW k \in Keys, k[1] \in S
      PROVE  /\ Given(order, k) \subseteq nodes /\ IsFiniteSet(Given(order, k))
             /\ Cardinality(Given(order, k)) \in Nat
             /\ k \in pend => Given(order, k) = {}
  <2>1. Given(order, k) \subseteq nodes
    BY <1>6 DEF Given, Fits
  <2>2. IsFiniteSet(Given(order, k))
    BY <2>1, FS_Subset, ManagerAssumption
  <2>3. ASSUME k \in pend, NEW c \in Given(order, k) PROVE FALSE
    <3>1. k = <<k[1], k[2]>>
      BY DEF Keys
    <3>2. <<k[1], AddrOf[c]>> \notin pend /\ AddrOf[c] = k[2]
      BY <1>6, <2>3 DEF Given, Fits
    <3> QED BY <2>3, <3>1, <3>2
  <2> QED BY <2>1, <2>2, <2>3, FS_CardinalityType
<1>7. ASSUME NEW k \in Keys
      PROVE  times[k] \in Nat /\ (k \in pend => times[k] = 0)
  BY <1>1, <1>6, FS_EmptySet
<1>8. \A k \in Keys : lost[k] \in Nat /\ (lost[k] > 0 => times[k] > 1)
  BY <1>2, <1>7
<1>9. ASSUME NEW k \in Keys
      PROVE  orphans'[k] \in 0..MaxOrphans /\ (orphans'[k] > orphans[k] => times[k] > 1)
  <2>1. orphans[k] \in Nat /\ lost[k] \in Nat /\ orphans'[k] = orphans[k] + lost[k]
    BY <1>5, <1>8, ManagerAssumption
  <2> QED BY <1>5, <1>8, <2>1, ManagerAssumption
<1>10. orphans' \in [Keys -> 0..MaxOrphans]
  BY <1>5, <1>9
<1>11. ASSUME NEW k \in pending' \ pend
       PROVE  k[1] \in S /\ Given(order, k) # {}
  <2>1. k \in Keys /\ times[k] > 0
    BY <1>5, <1>11
  <2>2. k[1] \in S /\ times[k] = Cardinality(Given(order, k))
    BY <1>1, <2>1
  <2> QED BY <2>1, <2>2, FS_EmptySet
<1>12. ASSUME NEW k \in Keys, orphans'[k] > orphans[k]
       PROVE  \E c, d \in nodes : c # d /\ AddrOf[c] = k[2] /\ AddrOf[d] = k[2]
  <2>1. times[k] > 1 /\ times[k] \in Nat
    BY <1>7, <1>9, <1>12
  <2>2. k[1] \in S /\ times[k] = Cardinality(Given(order, k))
    BY <1>1, <2>1
  <2>3. PICK G : G = Given(order, k)
    OBVIOUS
  <2>4. IsFiniteSet(G) /\ Cardinality(G) > 1 /\ G \subseteq nodes
    BY <1>6, <2>1, <2>2, <2>3
  <2>5. G # {}
    BY <2>4, FS_EmptySet
  <2>6. PICK c \in G : TRUE
    BY <2>5
  <2>7. G # {c}
    BY <2>4, FS_Singleton
  <2>8. PICK d \in G : d # c
    BY <2>6, <2>7
  <2> QED BY <2>3, <2>4, <2>6, <2>8 DEF Given
<1> QED BY <1>5, <1>10, <1>11, <1>12

----------------------------------------------------------------------------
(* The invariant *)

\* BooksAgree, and what makes an announcement start from nothing: only connections that
\* have announced are nodes, and only nodes have objects.
Inv ==
    /\ BooksAgree
    /\ \A c \in nodes : conn[c] = "announced"
    /\ \A c \in Conns \ nodes : sha1s[c] = {}

\* What an order's step leaves: nobody comes or goes, and the maps agree.
Booked(pend) ==
    /\ UNCHANGED <<conn, nodes>>
    /\ sha1s' \in [Conns -> SUBSET Shas]
    /\ bySHA1' \in [Shas -> SUBSET Conns]
    /\ \A c \in Conns \ nodes : sha1s'[c] = {}
    /\ \A c \in Conns, s \in Shas : c \in bySHA1'[s] <=> s \in sha1s'[c]
    /\ pend \subseteq pending

(* An order that fits, once sent, keeps the invariant, and only twins lose a timer by it. *)
LEMMA OrderKeeps ==
    ASSUME Inv, NEW pend, Booked(pend), NEW S \in SUBSET Shas, NEW redundancy, NEW have, NEW order,
           Fits(order, S, redundancy, have, pend), Send(order, pend, pend)
    PROVE  /\ Inv'
           /\ \A k \in Keys : orphans'[k] > orphans[k] =>
                 \E c, d \in {n \in Conns : conn[n] \in Live} :
                    c # d /\ AddrOf[c] = k[2] /\ AddrOf[d] = k[2]
<1>1. /\ nodes \in SUBSET Conns /\ orphans \in [Keys -> 0..MaxOrphans] /\ pend \in SUBSET Keys
  BY DEF Inv, BooksAgree, MapsAgree, TypeOK, Booked
<1>2. /\ pending' = timers' /\ pending' \in SUBSET Keys
      /\ \A k \in pending' \ pend : k[1] \in S /\ Given(order, k) # {}
      /\ orphans' \in [Keys -> 0..MaxOrphans]
      /\ \A k \in Keys : orphans'[k] > orphans[k] =>
            \E c, d \in nodes : c # d /\ AddrOf[c] = k[2] /\ AddrOf[d] = k[2]
  BY <1>1, SendNotes
<1>3. \A c \in nodes : c \in {n \in Conns : conn[n] \in Live}
  BY <1>1 DEF Inv, Live
<1>4. ASSUME NEW k \in pending' PROVE \E c \in nodes : AddrOf[c] = k[2]
  <2>1. CASE k \in pend
    BY <2>1 DEF Inv, BooksAgree, PendingWillEnd, Booked
  <2>2. CASE k \notin pend
    BY <1>2, <1>4, <2>2 DEF Given, Fits
  <2> QED BY <2>1, <2>2
<1>5. TypeOK'
  BY <1>1, <1>2 DEF Inv, BooksAgree, MapsAgree, TypeOK, Booked
<1>6. Inv'
  BY <1>2, <1>4, <1>5 DEF Inv, BooksAgree, MapsAgree, PendingWillEnd, Booked
<1> QED BY <1>2, <1>3, <1>6

----------------------------------------------------------------------------
(* Counting *)

(* What is pending can be counted. *)
LEMMA PendingFinite ==
    ASSUME Inv
    PROVE  IsFiniteSet(pending)
<1>1. PICK T : T = {AddrOf[c] : c \in Conns}
  OBVIOUS
<1>2. AddrOf \in Surjection(Conns, T)
  BY <1>1, ManagerAssumption DEF Surjection
<1>3. IsFiniteSet(T)
  BY <1>2, FS_Surjection, ManagerAssumption
<1>4. IsFiniteSet(Shas \X T)
  BY <1>3, FS_Product, ManagerAssumption
<1>5. pending \subseteq Shas \X T
  BY <1>1 DEF Inv, BooksAgree, MapsAgree, PendingWillEnd, TypeOK, Keys
<1> QED BY <1>4, <1>5, FS_Subset

(* An object that is ordered has at most the copies asked for, and one. *)
LEMMA OrderCopies ==
    ASSUME Inv, NEW pend, Booked(pend), NEW S \in SUBSET Shas, NEW redundancy \in Nat, NEW order,
           Fits(order, S, redundancy, bySHA1', pend), Send(order, pend, pend),
           NEW s \in Shas, NEW key \in pending' \ pend, key[1] = s
    PROVE  /\ Copies(s)' \in Nat
           /\ Copies(s)' <= redundancy + 1
<1>1. /\ nodes \in SUBSET Conns /\ orphans \in [Keys -> 0..MaxOrphans] /\ pend \in SUBSET Keys
  BY DEF Inv, BooksAgree, MapsAgree, TypeOK, Booked
<1>2. /\ pending' \in SUBSET Keys /\ pend \subseteq pending'
      /\ \A k \in pending' \ pend : k[1] \in S /\ Given(order, k) # {}
  BY <1>1, SendNotes
<1>3. PICK O : O = order[s]
  OBVIOUS
<1>4. s \in S /\ O \subseteq nodes /\ Cardinality(O) <= Needed(s, nodes, bySHA1', pend, redundancy)
  BY <1>2, <1>3 DEF Fits
<1>5. IsFiniteSet(nodes) /\ IsFiniteSet(O) /\ Cardinality(O) \in Nat /\ Cardinality(nodes) \in Nat
  BY <1>1, <1>4, FS_Subset, FS_CardinalityType, ManagerAssumption
<1>6. PICK I : I = {<<s, AddrOf[c]>> : c \in O}
  OBVIOUS
<1>7. PICK f : f = [c \in O |-> <<s, AddrOf[c]>>]
  OBVIOUS
<1>8. f \in Surjection(O, I)
  BY <1>6, <1>7 DEF Surjection
<1>9. IsFiniteSet(I) /\ Cardinality(I) <= Cardinality(O)
  BY <1>5, <1>8, FS_Surjection
<1>10. PICK N : N = {k \in pending' \ pend : k[1] = s}
  OBVIOUS
<1>11. N \subseteq I
  <2>1. ASSUME NEW k \in N PROVE k \in I
    <3>1. k \in Keys /\ k[1] = s /\ Given(order, k) # {}
      BY <1>2, <1>10, <2>1
    <3>2. PICK c \in Given(order, k) : TRUE
      BY <3>1
    <3>3. c \in O /\ AddrOf[c] = k[2]
      BY <1>3, <3>1, <3>2 DEF Given
    <3>4. k = <<k[1], k[2]>>
      BY <3>1 DEF Keys
    <3> QED BY <1>6, <3>1, <3>3, <3>4
  <2> QED BY <2>1
<1>12. /\ IsFiniteSet(N) /\ Cardinality(N) \in Nat /\ Cardinality(I) \in Nat
       /\ Cardinality(N) <= Cardinality(I)
  BY <1>9, <1>11, FS_Subset, FS_CardinalityType
<1>13. Cardinality(N) > 0
  <2>1. key \in N
    BY <1>10
  <2> QED BY <1>12, <2>1, FS_EmptySet
<1>14. PICK B : B = {k \in pend : k[1] = s}
  OBVIOUS
<1>15. IsFiniteSet(B) /\ Cardinality(B) \in Nat
  <2>1. B \subseteq pending
    BY <1>14 DEF Booked
  <2> QED BY <2>1, PendingFinite, FS_Subset, FS_CardinalityType
<1>16. {k \in pending' : k[1] = s} = B \cup N /\ B \cap N = {}
  BY <1>2, <1>10, <1>14
<1>17. Cardinality({k \in pending' : k[1] = s}) = Cardinality(B) + Cardinality(N)
  <2>1. Cardinality(B \cup N) = Cardinality(B) + Cardinality(N) - Cardinality(B \cap N)
    BY <1>12, <1>15, FS_Union
  <2>2. Cardinality(B \cap N) = 0
    BY <1>16, FS_EmptySet
  <2>3. Cardinality(B) + Cardinality(N) - 0 = Cardinality(B) + Cardinality(N)
    BY <1>12, <1>15
  <2> QED BY <1>16, <2>1, <2>2, <2>3
<1>18. Cardinality(bySHA1'[s]) \in Nat
  <2>1. bySHA1'[s] \in SUBSET Conns
    BY DEF Booked
  <2> QED BY <2>1, FS_Subset, FS_CardinalityType, ManagerAssumption
<1>19. PICK needed : needed = Needed(s, nodes, bySHA1', pend, redundancy)
  OBVIOUS
<1>20. needed \in Nat
  BY <1>5, <1>14, <1>15, <1>18, <1>19, NeededBound
<1>21. needed > 0 => needed + Cardinality(bySHA1'[s]) + Cardinality(B) <= redundancy + 1
  BY <1>5, <1>14, <1>15, <1>18, <1>19, NeededBound
<1>22. Copies(s)' = Cardinality(bySHA1'[s]) + (Cardinality(B) + Cardinality(N))
  BY <1>17 DEF Copies
<1>23. Cardinality(N) <= needed /\ needed > 0
  BY <1>4, <1>5, <1>9, <1>12, <1>13, <1>19, <1>20
<1> QED BY <1>12, <1>15, <1>18, <1>20, <1>21, <1>22, <1>23

(* The most copies but one that an order may aim at. *)
LEMMA Most == Max({Redundancy, 2}) \in Nat /\ Max({Redundancy, 2}) >= Redundancy /\ Max({Redundancy, 2}) >= 2
<1>1. Redundancy \in Nat
  BY ManagerAssumption
<1>2. \E z \in {Redundancy, 2} : \A w \in {Redundancy, 2} : z >= w
  <2>1. CASE Redundancy <= 2
    BY <1>1, <2>1
  <2>2. CASE ~(Redundancy <= 2)
    BY <1>1, <2>2
  <2> QED BY <2>1, <2>2
<1>3. /\ Max({Redundancy, 2}) \in {Redundancy, 2}
      /\ \A w \in {Redundancy, 2} : Max({Redundancy, 2}) >= w
  BY <1>2, Zenon DEF Max
<1> QED BY <1>1, <1>3

----------------------------------------------------------------------------
(* The steps *)

\* What a step does about orders.
FewCopies ==
    \A s \in Shas :
       (\E k \in pending' \ pending : k[1] = s) => Copies(s)' <= Max({Redundancy, 2}) + 1
LostByTwins ==
    \A k \in Keys : orphans'[k] > orphans[k] =>
       \E c, d \in {n \in Conns : conn[n] \in Live} :
          c # d /\ AddrOf[c] = k[2] /\ AddrOf[d] = k[2]

(* A step that sends such an order does so within both action properties. *)
LEMMA OrderStep ==
    ASSUME Inv, NEW pend, Booked(pend), NEW S \in SUBSET Shas,
           NEW redundancy \in Nat, redundancy <= Max({Redundancy, 2}), NEW order,
           Fits(order, S, redundancy, bySHA1', pend), Send(order, pend, pend)
    PROVE  Inv' /\ FewCopies /\ LostByTwins
<1>1. Inv' /\ LostByTwins
  BY OrderKeeps DEF LostByTwins
<1>2. ASSUME NEW s \in Shas, NEW k \in pending' \ pending, k[1] = s
      PROVE  Copies(s)' <= Max({Redundancy, 2}) + 1
  <2>1. k \in pending' \ pend
    BY <1>2 DEF Booked
  <2>2. Copies(s)' \in Nat /\ Copies(s)' <= redundancy + 1
    BY <1>2, <2>1, OrderCopies
  <2> QED BY <2>2, Most
<1> QED BY <1>1, <1>2 DEF FewCopies

(* An inserted object is entered, its transfer ends, and more may be ordered. *)
LEMMA InsertStep ==
    ASSUME Inv, NEW c \in Conns, NEW s \in Shas, Insert(c, s)
    PROVE  Inv' /\ FewCopies /\ LostByTwins
<1>1. PICK pend : pend = pending \ {<<s, AddrOf[c]>>}
  OBVIOUS
<1>2. timers \ {<<s, AddrOf[c]>>} = pend
  BY <1>1 DEF Inv, BooksAgree, PendingWillEnd
<1>3. PICK goal : /\ goal \in SUBSET Shas
                  /\ \E order \in Orders(goal, Redundancy, Unlimited, Conns, sha1s', bySHA1', pend) :
                        Send(order, pend, pend)
  <2>1. PICK goal : goal = IF OnInsertion /\ Cardinality(bySHA1[s] \cup {c}) - 1 < Redundancy
                           THEN {s} ELSE {}
    OBVIOUS
  <2>2. goal \in SUBSET Shas
    BY <2>1
  <2>3. \E order \in Orders(goal, Redundancy, Unlimited, Conns, sha1s', bySHA1', pend) :
           Send(order, pend, pend)
    BY <1>1, <1>2, <2>1 DEF Insert
  <2> QED BY <2>2, <2>3
<1>4. PICK order \in Orders(goal, Redundancy, Unlimited, Conns, sha1s', bySHA1', pend) :
         Send(order, pend, pend)
  BY <1>3
<1>5. Fits(order, goal, Redundancy, bySHA1', pend)
  BY <1>4, OrdersFit
<1>6. /\ sha1s' = [sha1s EXCEPT ![c] = @ \cup {s}] /\ bySHA1' = [bySHA1 EXCEPT ![s] = @ \cup {c}]
      /\ UNCHANGED <<conn, nodes>>
  BY DEF Insert
<1>7. sha1s \in [Conns -> SUBSET Shas] /\ bySHA1 \in [Shas -> SUBSET Conns]
  BY DEF Inv, BooksAgree, MapsAgree, TypeOK
<1>8. Booked(pend)
  <2>1. sha1s' \in [Conns -> SUBSET Shas] /\ bySHA1' \in [Shas -> SUBSET Conns]
    BY <1>6, <1>7
  <2>2. ASSUME NEW d \in Conns, NEW t \in Shas
        PROVE  d \in bySHA1'[t] <=> t \in sha1s'[d]
    <3>1. d \in bySHA1[t] <=> t \in sha1s[d]
      BY DEF Inv, BooksAgree, MapsAgree
    <3>2. d \in bySHA1'[t] <=> d \in bySHA1[t] \/ (d = c /\ t = s)
      BY <1>6, <1>7
    <3>3. t \in sha1s'[d] <=> t \in sha1s[d] \/ (d = c /\ t = s)
      BY <1>6, <1>7
    <3> QED BY <3>1, <3>2, <3>3
  <2>3. \A d \in Conns \ nodes : sha1s'[d] = {}
    BY <1>6, <1>7 DEF Inv, Insert
  <2> QED BY <1>1, <1>6, <2>1, <2>2, <2>3 DEF Booked
<1>9. Redundancy \in Nat /\ Redundancy <= Max({Redundancy, 2})
  BY Most, ManagerAssumption
<1> QED BY <1>3, <1>4, <1>5, <1>8, <1>9, OrderStep

(* A hit, or a distribution, may order more. *)
LEMMA RequestStep ==
    ASSUME Inv, (\E s \in Shas : Hit(s)) \/ Distribute
    PROVE  Inv' /\ FewCopies /\ LostByTwins
<1>1. pending = timers /\ UNCHANGED <<conn, nodes, sha1s, bySHA1>>
  BY DEF Inv, BooksAgree, PendingWillEnd, Hit, Distribute
<1>2. Booked(pending)
  BY <1>1 DEF Booked, Inv, BooksAgree, MapsAgree, TypeOK
<1>3. PICK S \in SUBSET Shas, redundancy \in Nat :
         /\ redundancy <= Max({Redundancy, 2})
         /\ \E max, to : \E order \in Orders(S, redundancy, max, to, sha1s, bySHA1, pending) :
               Send(order, pending, pending)
  <2>1. CASE Distribute
    <3>1. PICK redundancy \in 1..2, S \in {Shas} \cup {{s} : s \in Shas} :
             \E max, to : \E order \in Orders(S, redundancy, max, to, sha1s, bySHA1, pending) :
                Send(order, pending, pending)
      BY <1>1, <2>1 DEF Distribute
    <3>2. \A n \in 1..2 : n \in Nat /\ n <= Max({Redundancy, 2})
      BY Most
    <3>3. S \in SUBSET Shas
      OBVIOUS
    <3> QED BY <3>1, <3>2, <3>3
  <2>2. CASE \E s \in Shas : Hit(s)
    <3>1. PICK s \in Shas : Hit(s)
      BY <2>2
    <3>2. \E order \in Orders({s}, Redundancy, Unlimited, Conns, sha1s, bySHA1, pending) :
             Send(order, pending, pending)
      BY <1>1, <3>1 DEF Hit
    <3>3. Redundancy \in Nat /\ Redundancy <= Max({Redundancy, 2}) /\ {s} \in SUBSET Shas
      BY Most, ManagerAssumption
    <3> QED BY <3>2, <3>3
  <2> QED BY <2>1, <2>2
<1>4. PICK max, to : \E order \in Orders(S, redundancy, max, to, sha1s, bySHA1, pending) :
         Send(order, pending, pending)
  BY <1>3
<1>5. PICK order \in Orders(S, redundancy, max, to, sha1s, bySHA1, pending) :
         Send(order, pending, pending)
  BY <1>4
<1>6. Fits(order, S, redundancy, bySHA1, pending)
  BY <1>5, OrdersFit
<1>7. Fits(order, S, redundancy, bySHA1', pending)
  BY <1>1, <1>6
<1> QED BY <1>2, <1>3, <1>5, <1>7, OrderStep

(* Every other step orders nothing and loses no timer. *)
LEMMA OtherStep ==
    ASSUME Inv,
           \/ UNCHANGED vars \/ Clear \/ OffAndOn
           \/ \E c \in Conns : Connect(c) \/ AddNode(c) \/ RemoveNode(c)
           \/ \E c \in Conns, s \in Shas : RemoveSha(c, s)
           \/ \E k \in Keys : Expire(k) \/ ExpireLost(k)
    PROVE  Inv' /\ FewCopies /\ LostByTwins
<1> USE DEF Inv, BooksAgree, MapsAgree, PendingWillEnd
<1>1. TypeOK /\ pending = timers
  OBVIOUS
<1>2. CASE UNCHANGED vars \/ Clear
  <2>1. /\ UNCHANGED <<conn, nodes, sha1s, bySHA1, orphans>>
        /\ pending' \subseteq pending /\ timers' = pending'
    BY <1>1, <1>2 DEF vars, Clear
  <2>2. Inv'
    BY <2>1 DEF TypeOK
  <2> QED BY <1>1, <2>1, <2>2, ManagerAssumption DEF FewCopies, LostByTwins, TypeOK
<1>3. CASE OffAndOn
  <2>1. Inv'
    BY <1>1, <1>3, ManagerAssumption DEF OffAndOn, TypeOK
  <2>2. pending' = {} /\ \A k \in Keys : orphans'[k] = 0 /\ orphans[k] \in 0..MaxOrphans
    BY <1>1, <1>3 DEF OffAndOn, TypeOK
  <2>3. \A k \in Keys : ~(orphans'[k] > orphans[k])
    BY <2>2, ManagerAssumption
  <2> QED BY <2>1, <2>2, <2>3 DEF FewCopies, LostByTwins
<1>4. ASSUME NEW c \in Conns, Connect(c) PROVE Inv' /\ FewCopies /\ LostByTwins
  <2>1. conn[c] = "none" /\ conn' = [conn EXCEPT ![c] = "open"]
        /\ UNCHANGED <<nodes, sha1s, bySHA1, pending, timers, orphans>>
    BY <1>4 DEF Connect
  <2>2. Inv'
    BY <1>1, <2>1 DEF TypeOK
  <2> QED BY <1>1, <2>1, <2>2, ManagerAssumption DEF FewCopies, LostByTwins, TypeOK
<1>5. ASSUME NEW c \in Conns, AddNode(c) PROVE Inv' /\ FewCopies /\ LostByTwins
  <2>1. PICK S \in SUBSET Shas :
           /\ conn[c] = "open" /\ conn' = [conn EXCEPT ![c] = "announced"]
           /\ nodes' = nodes \cup {c} /\ sha1s' = [sha1s EXCEPT ![c] = S]
           /\ bySHA1' = [s \in Shas |-> IF s \in S THEN bySHA1[s] \cup {c} ELSE bySHA1[s]]
           /\ UNCHANGED <<pending, timers, orphans>>
    BY <1>5 DEF AddNode
  <2>2. TypeOK'
    BY <1>1, <2>1 DEF TypeOK
  <2>3. Inv'
    BY <1>1, <2>1, <2>2 DEF TypeOK
  <2> QED BY <1>1, <2>1, <2>3, ManagerAssumption DEF FewCopies, LostByTwins, TypeOK
<1>6. ASSUME NEW c \in Conns, RemoveNode(c) PROVE Inv' /\ FewCopies /\ LostByTwins
  <2>1. PICK mine : /\ mine = {k \in pending : c \in nodes /\ k[2] = AddrOf[c]}
                    /\ conn[c] \in Live /\ conn' = [conn EXCEPT ![c] = "closed"]
                    /\ nodes' = nodes \ {c} /\ sha1s' = [sha1s EXCEPT ![c] = {}]
                    /\ bySHA1' = [s \in Shas |-> bySHA1[s] \ {c}]
                    /\ pending' = pending \ mine /\ timers' = timers \ mine
                    /\ UNCHANGED orphans
    BY <1>6 DEF RemoveNode
  <2>2. TypeOK'
    BY <1>1, <2>1 DEF TypeOK
  <2>3. \A k \in pending' : \E d \in nodes' : AddrOf[d] = k[2]
    BY <1>1, <2>1
  <2>4. Inv'
    BY <1>1, <2>1, <2>2, <2>3 DEF TypeOK
  <2> QED BY <1>1, <2>1, <2>4, ManagerAssumption DEF FewCopies, LostByTwins, TypeOK
<1>7. ASSUME NEW c \in Conns, NEW s \in Shas, RemoveSha(c, s) PROVE Inv' /\ FewCopies /\ LostByTwins
  <2>1. /\ sha1s' = [sha1s EXCEPT ![c] = @ \ {s}] /\ bySHA1' = [bySHA1 EXCEPT ![s] = @ \ {c}]
        /\ UNCHANGED <<conn, nodes, pending, timers, orphans>>
    BY <1>7 DEF RemoveSha
  <2>2. TypeOK'
    BY <1>1, <2>1 DEF TypeOK
  <2>3. Inv'
    BY <1>1, <2>1, <2>2 DEF TypeOK
  <2> QED BY <1>1, <2>1, <2>3, ManagerAssumption DEF FewCopies, LostByTwins, TypeOK
<1>8. ASSUME NEW k \in Keys, Expire(k) \/ ExpireLost(k) PROVE Inv' /\ FewCopies /\ LostByTwins
  <2>1. /\ UNCHANGED <<conn, nodes, sha1s, bySHA1>>
        /\ pending' = pending \ {k} /\ timers' = timers \ {k}
        /\ \/ orphans' = orphans
           \/ orphans[k] > 0 /\ orphans' = [orphans EXCEPT ![k] = @ - 1]
    BY <1>1, <1>8 DEF Expire, ExpireLost, TypeOK
  <2>2. orphans' \in [Keys -> 0..MaxOrphans] /\ \A j \in Keys : ~(orphans'[j] > orphans[j])
    BY <1>1, <2>1, ManagerAssumption DEF TypeOK
  <2>3. Inv'
    BY <1>1, <2>1, <2>2 DEF TypeOK
  <2> QED BY <2>1, <2>2, <2>3 DEF FewCopies, LostByTwins
<1> QED BY <1>2, <1>3, <1>4, <1>5, <1>6, <1>7, <1>8

(* Every step keeps the invariant and is within both action properties. *)
LEMMA StepKeeps ==
    ASSUME Inv, [Next]_vars
    PROVE  Inv' /\ FewCopies /\ LostByTwins
BY InsertStep, RequestStep, OtherStep DEF Next

(* The manager starts in it. *)
LEMMA InitInv == Init => Inv
BY ManagerAssumption DEF Init, Inv, BooksAgree, MapsAgree, PendingWillEnd, TypeOK

----------------------------------------------------------------------------
(* The theorems about the manager *)

(* After any sequence of messages, orders, closes and switches the two maps say the
   same, and what is pending is at a node that is connected and has its timer. *)
THEOREM ManagerBooksAgree == Spec => []BooksAgree
<1>1. Inv => BooksAgree
  BY DEF Inv
<1> QED BY <1>1, InitInv, StepKeeps, PTL DEF Spec

(* Whatever a step orders, for whatever reason, copies and transfers of an object stay
   within the redundancy asked for and one. *)
THEOREM OrdersKeepToRedundancy == Spec => NotTooManyCopies
<1>1. Inv /\ [Next]_vars => Inv' /\ [FewCopies]_vars
  BY StepKeeps
<1>2. Spec => [][FewCopies]_vars
  BY <1>1, InitInv, PTL DEF Spec
<1> QED BY <1>2 DEF NotTooManyCopies, FewCopies

(* The map of timers loses one only when two connections of one builder are live. *)
THEOREM TimersLostOnlyByTwins == Spec => TimerLostOnlyByTwins
<1>1. Inv /\ [Next]_vars => Inv' /\ [LostByTwins]_vars
  BY StepKeeps
<1>2. Spec => [][LostByTwins]_vars
  BY <1>1, InitInv, PTL DEF Spec
<1> QED BY <1>2 DEF TimerLostOnlyByTwins, LostByTwins
----------------------------------------------------------------------------
(* Numbers *)

(* A set of numbers that is not empty has a least one. *)
LEMMA LeastElement ==
    ASSUME NEW T, T \subseteq Nat, T # {}
    PROVE  \E n \in T : \A m \in T : n <= m
<1>1. PICK n \in T : \A m \in T : <<m, n>> \notin OpToRel(<, Nat)
  BY WFMin, NatLessThanWellFounded, Zenon
<1>2. \A m \in T : ~(m < n)
  BY <1>1, Zenon DEF OpToRel
<1> QED BY <1>2

(* Induction up to N, with a set in place of a predicate. *)
LEMMA SetInduction ==
    ASSUME NEW T, NEW N \in Nat, 0 \in T, \A n \in 0..(N - 1) : n \in T => n + 1 \in T
    PROVE  0..N \subseteq T
<1> SUFFICES ASSUME ~(0..N \subseteq T) PROVE FALSE
  OBVIOUS
<1> DEFINE U == (0..N) \ T
<1> HIDE DEF U
<1>0. U \subseteq Nat /\ U # {}
  BY DEF U
<1>1. PICK n \in (0..N) \ T : \A m \in (0..N) \ T : n <= m
  BY <1>0, LeastElement DEF U
<1>2. n # 0 /\ n - 1 \in 0..(N - 1) /\ ~(n <= n - 1)
  BY <1>1
<1>3. n - 1 \in T
  BY <1>1, <1>2
<1> QED BY <1>1, <1>2, <1>3
----------------------------------------------------------------------------
(* Bytes *)

(* There are finitely many items. *)
LEMMA ItemsFinite == IsFiniteSet(Items)
<1> DEFINE f == [p \in Objects \X Froms |-> [sha |-> p[1], from |-> p[2]]]
<1>1. IsFiniteSet(Froms)
  <2>1. IsFiniteSet({"compile"})
    BY FS_Singleton
  <2>2. IsFiniteSet({"compile"} \cup {"fetch"})
    BY <2>1, FS_AddElement
  <2>3. {"compile"} \cup {"fetch"} = Froms
    BY DEF Froms
  <2> QED BY <2>2, <2>3
<1>2. IsFiniteSet(Objects \X Froms)
  BY <1>1, CacheAssumption, FS_Product
<1>3. f \in [Objects \X Froms -> Items]
  BY DEF Items
<1>4. \A item \in Items : \E p \in Objects \X Froms : f[p] = item
  <2> SUFFICES ASSUME NEW item \in Items PROVE \E p \in Objects \X Froms : f[p] = item
    OBVIOUS
  <2>1. /\ item = [sha |-> item.sha, from |-> item.from]
        /\ <<item.sha, item.from>> \in Objects \X Froms
    BY DEF Items
  <2>2. f[<<item.sha, item.from>>] = item
    BY <2>1
  <2> QED BY <2>1, <2>2
<1> HIDE DEF f
<1>5. f \in Surjection(Objects \X Froms, Items)
  BY <1>3, <1>4 DEF Surjection
<1> QED BY <1>2, <1>5, FS_Surjection

(* The bytes of one item. *)
LEMMA ItemBytes ==
    ASSUME NEW item \in Items
    PROVE  /\ SizeOf(item) \in Nat \ {0}
           /\ IsFiniteSet(BytesOf({item}))
           /\ Cardinality(BytesOf({item})) = SizeOf(item)
<1>1. item.sha \in Objects /\ item.from \in Froms
  BY DEF Items
<1>2. SizeOf(item) \in Nat \ {0}
  <2>1. ObjectSize[item.sha] \in [Froms -> Nat \ {0}]
    BY <1>1, CacheAssumption
  <2> QED BY <1>1, <2>1 DEF SizeOf
<1>3. IsFiniteSet({item.sha}) /\ Cardinality({item.sha}) = 1
  BY FS_Singleton
<1>4. IsFiniteSet(1..SizeOf(item)) /\ Cardinality(1..SizeOf(item)) = SizeOf(item)
  BY <1>2, FS_Interval
<1>5. BytesOf({item}) = {item.sha} \X (1..SizeOf(item))
  BY DEF BytesOf
<1> DEFINE A == {item.sha}
           B == 1..SizeOf(item)
<1> HIDE DEF A, B
<1>6. IsFiniteSet(A \X B) /\ Cardinality(A \X B) = Cardinality(A) * Cardinality(B)
  BY <1>3, <1>4, FS_Product DEF A, B
<1>7. Cardinality(A \X B) = SizeOf(item)
  <2>1. Cardinality(A) = 1 /\ Cardinality(B) = SizeOf(item)
    BY <1>3, <1>4 DEF A, B
  <2>2. 1 * SizeOf(item) = SizeOf(item)
    BY <1>2
  <2> QED BY <1>6, <2>1, <2>2
<1>8. BytesOf({item}) = A \X B
  BY <1>5 DEF A, B
<1> QED BY <1>2, <1>6, <1>7, <1>8

(* The bytes of items can be counted. *)
LEMMA BytesFinite ==
    ASSUME NEW T \in SUBSET Items
    PROVE  IsFiniteSet(BytesOf(T)) /\ Cardinality(BytesOf(T)) \in Nat
<1>1. IsFiniteSet(T)
  BY ItemsFinite, FS_Subset
<1>2. IsFiniteSet({BytesOf({item}) : item \in T})
  <2> DEFINE S == {BytesOf({item}) : item \in T}
             f == [item \in T |-> BytesOf({item})]
  <2>1. f \in Surjection(T, S)
    BY DEF Surjection
  <2> QED BY <1>1, <2>1, FS_Surjection
<1>3. BytesOf(T) = UNION {BytesOf({item}) : item \in T}
  BY DEF BytesOf
<1>4. IsFiniteSet(BytesOf(T))
  BY <1>2, <1>3, ItemBytes, FS_UNION
<1> QED BY <1>4, FS_CardinalityType

(* Two sets of items together have at most the bytes of both, and exactly as many if
   no object is in both. *)
LEMMA BytesTogether ==
    ASSUME NEW T \in SUBSET Items, NEW U \in SUBSET Items
    PROVE  /\ Cardinality(BytesOf(T \cup U))
                <= Cardinality(BytesOf(T)) + Cardinality(BytesOf(U))
           /\ (\A x \in T, y \in U : x.sha # y.sha) =>
                Cardinality(BytesOf(T \cup U))
                  = Cardinality(BytesOf(T)) + Cardinality(BytesOf(U))
<1>1. BytesOf(T \cup U) = BytesOf(T) \cup BytesOf(U)
  BY DEF BytesOf
<1>2. /\ IsFiniteSet(BytesOf(T)) /\ IsFiniteSet(BytesOf(U))
      /\ Cardinality(BytesOf(T)) \in Nat /\ Cardinality(BytesOf(U)) \in Nat
  BY BytesFinite
<1>3. IsFiniteSet(BytesOf(T) \cap BytesOf(U))
  BY <1>2, FS_Intersection
<1>4. Cardinality(BytesOf(T) \cap BytesOf(U)) \in Nat
  BY <1>3, FS_CardinalityType
<1>5. Cardinality(BytesOf(T \cup U)) = Cardinality(BytesOf(T)) + Cardinality(BytesOf(U))
                                         - Cardinality(BytesOf(T) \cap BytesOf(U))
  BY <1>1, <1>2, FS_Union
<1>6. ASSUME \A x \in T, y \in U : x.sha # y.sha
      PROVE  Cardinality(BytesOf(T) \cap BytesOf(U)) = 0
  <2>1. BytesOf(T) \cap BytesOf(U) = {}
    <3> SUFFICES ASSUME NEW b \in BytesOf(T), b \in BytesOf(U) PROVE FALSE
      OBVIOUS
    <3>1. PICK x \in T : b \in {x.sha} \X (1..SizeOf(x))
      BY DEF BytesOf
    <3>2. PICK y \in U : b \in {y.sha} \X (1..SizeOf(y))
      BY DEF BytesOf
    <3>3. b[1] = x.sha /\ b[1] = y.sha
      BY <3>1, <3>2
    <3> QED BY <1>6, <3>3
  <2> QED BY <2>1, FS_EmptySet
<1> QED BY <1>2, <1>4, <1>5, <1>6

(* Fewer items do not have more bytes. *)
LEMMA BytesMonotone ==
    ASSUME NEW U \in SUBSET Items, NEW T \in SUBSET U
    PROVE  Cardinality(BytesOf(T)) <= Cardinality(BytesOf(U))
<1>1. BytesOf(T) \subseteq BytesOf(U)
  BY DEF BytesOf
<1> QED BY <1>1, BytesFinite, FS_Subset

----------------------------------------------------------------------------
(* Items in order *)

Caches == [items : Seq(Items), size : Nat]

(* A sequence has an item for every object once if and only if it is a queue of
   distinct items no two of which are an object's. *)
LEMMA KeyedQueue ==
    ASSUME NEW q \in Seq(Items)
    PROVE  /\ ToSet(q) \in SUBSET Items
           /\ Bytes(q) \in Nat
           /\ Keyed(q) <=> /\ Distinct(q)
                           /\ \A x, y \in ToSet(q) : x.sha = y.sha => x = y
<1>1. DOMAIN q = 1..Len(q) /\ \A i \in 1..Len(q) : q[i] \in Items
  BY LenProperties, ElementOfSeq
<1>2. ToSet(q) = {q[i] : i \in 1..Len(q)}
  BY <1>1 DEF ToSet
<1>3. ToSet(q) \in SUBSET Items
  BY <1>1, <1>2
<1>4. Bytes(q) \in Nat
  BY <1>3, BytesFinite DEF Bytes
<1>5. Keyed(q) => Distinct(q)
  BY DEF Keyed, Distinct
<1>6. Keyed(q) => \A x, y \in ToSet(q) : x.sha = y.sha => x = y
  BY <1>2 DEF Keyed
<1>7. ASSUME Distinct(q), \A x, y \in ToSet(q) : x.sha = y.sha => x = y PROVE Keyed(q)
  <2> SUFFICES ASSUME NEW i \in 1..Len(q), NEW j \in 1..Len(q), q[i].sha = q[j].sha
               PROVE  i = j
    BY DEF Keyed
  <2>1. q[i] \in ToSet(q) /\ q[j] \in ToSet(q)
    BY <1>2
  <2>2. q[i] = q[j]
    BY <1>7, <2>1
  <2> QED BY <1>7, <2>2 DEF Distinct
<1> QED BY <1>3, <1>4, <1>5, <1>6, <1>7

(* An index of nothing. *)
LEMMA EmptyIndex ==
    /\ <<>> \in Seq(Items) /\ ToSet(<<>>) = {} /\ Keyed(<<>>) /\ Bytes(<<>>) = 0
    /\ Empty \in Caches
<1>1. <<>> \in Seq(Items) /\ ToSet(<<>>) = {} /\ Distinct(<<>>)
  BY EmptyQueue
<1>2. Keyed(<<>>)
  BY <1>1, KeyedQueue
<1>3. BytesOf({}) = {}
  BY DEF BytesOf
<1>4. Bytes(<<>>) = 0
  BY <1>1, <1>3, FS_EmptySet DEF Bytes
<1>5. Empty \in Caches
  BY <1>1 DEF Empty, Caches
<1> QED BY <1>1, <1>2, <1>4, <1>5

(* The item of an object. *)
LEMMA ItemOfObject ==
    ASSUME NEW q \in Seq(Items), NEW s \in ShasOf(q)
    PROVE  ItemOf(q, s) \in ToSet(q) /\ ItemOf(q, s).sha = s
<1>1. \E item \in ToSet(q) : item.sha = s
  BY DEF ShasOf
<1> QED BY <1>1, Zenon DEF ItemOf

(* What setting an item does: it is there, in place of its object's if there was one,
   and no other is lost. *)
LEMMA SetItem ==
    ASSUME NEW c \in Caches, Keyed(c.items), NEW item \in Items
    PROVE  LET d == Set(c, item)
           IN  /\ d \in Caches /\ Keyed(d.items)
               /\ item \in ToSet(d.items)
               /\ ToSet(d.items) \subseteq ToSet(c.items) \cup {item}
               /\ item.sha \notin ShasOf(c.items) => ToSet(d.items) = ToSet(c.items) \cup {item}
               /\ d.size = c.size + SizeOf(item)
<1> DEFINE q == c.items
           r == [i \in 1..Len(q) |-> IF q[i].sha = item.sha THEN item ELSE q[i]]
           d == Set(c, item)
<1>1. /\ q \in Seq(Items) /\ c.size \in Nat /\ SizeOf(item) \in Nat
      /\ d.size = c.size + SizeOf(item) /\ d.size \in Nat
      /\ d = [items |-> d.items, size |-> d.size]
      /\ d.items = IF item.sha \in ShasOf(q) THEN r ELSE Append(q, item)
  <2>1. q \in Seq(Items) /\ c.size \in Nat /\ SizeOf(item) \in Nat
    BY ItemBytes DEF Caches
  <2>2. d = [items |-> IF item.sha \in ShasOf(q) THEN r ELSE Append(q, item),
             size |-> c.size + SizeOf(item)]
    BY DEF Set
  <2> HIDE DEF d
  <2> QED BY <2>1, <2>2
<1>2. /\ Len(q) \in Nat /\ DOMAIN q = 1..Len(q)
      /\ \A i \in 1..Len(q) : q[i] \in Items
      /\ Distinct(q)
      /\ \A i, j \in 1..Len(q) : q[i].sha = q[j].sha => i = j
  BY <1>1, LenProperties, ElementOfSeq, KeyedQueue DEF Keyed
<1> HIDE DEF d
<1>3. CASE item.sha \in ShasOf(q)
  <2>1. r \in Seq(Items) /\ Len(r) = Len(q)
    <3>1. r \in [1..Len(q) -> Items]
      BY <1>2
    <3> QED BY <1>2, <3>1
  <2>2. DOMAIN r = 1..Len(q)
    OBVIOUS
  <2>3. \A i \in 1..Len(q) : r[i].sha = q[i].sha
    OBVIOUS
  <2>4. Keyed(r)
    BY <1>2, <2>1, <2>3 DEF Keyed
  <2>5. item \in ToSet(r)
    <3>1. PICK i \in 1..Len(q) : q[i].sha = item.sha
      BY <1>2, <1>3 DEF ShasOf, ToSet
    <3>2. r[i] = item
      BY <3>1
    <3> QED BY <2>2, <3>2 DEF ToSet
  <2>6. ToSet(r) \subseteq ToSet(q) \cup {item}
    BY <1>2 DEF ToSet
  <2> HIDE DEF r
  <2> QED BY <1>1, <1>3, <2>1, <2>4, <2>5, <2>6 DEF d, Caches
<1>4. CASE item.sha \notin ShasOf(q)
  <2>1. item \notin ToSet(q)
    BY <1>4 DEF ShasOf
  <2>2. /\ Append(q, item) \in Seq(Items)
        /\ ToSet(Append(q, item)) = ToSet(q) \cup {item}
        /\ Distinct(Append(q, item))
    BY <1>1, <1>2, <2>1, AppendElements
  <2>3. \A x, y \in ToSet(q) : x.sha = y.sha => x = y
    BY <1>1, KeyedQueue
  <2>4. \A x \in ToSet(q) : x.sha # item.sha
    BY <1>4 DEF ShasOf
  <2>5. Keyed(Append(q, item))
    BY <2>2, <2>3, <2>4, KeyedQueue
  <2> HIDE DEF r
  <2> QED BY <1>1, <1>4, <2>2, <2>5 DEF d, Caches
<1> QED BY <1>3, <1>4 DEF d

(* A keyed sequence is cut in two: what comes before and what comes after have no
   object in common, and all the bytes. *)
LEMMA CutItems ==
    ASSUME NEW q \in Seq(Items), Keyed(q), NEW n \in 0..Len(q)
    PROVE  LET a == SubSeq(q, 1, n)
               b == SubSeq(q, n + 1, Len(q))
           IN  /\ a \in Seq(Items) /\ b \in Seq(Items) /\ Keyed(b)
               /\ ToSet(b) \subseteq ToSet(q)
               /\ Bytes(a) \in Nat /\ Bytes(b) \in Nat
               /\ Bytes(q) = Bytes(a) + Bytes(b)
               /\ n = Len(q) => Bytes(b) = 0
<1> DEFINE a == SubSeq(q, 1, n)
           b == SubSeq(q, n + 1, Len(q))
<1>1. /\ Len(q) \in Nat /\ n \in Nat /\ n <= Len(q) /\ DOMAIN q = 1..Len(q)
      /\ \A i \in 1..Len(q) : q[i] \in Items
      /\ \A i, j \in 1..Len(q) : q[i].sha = q[j].sha => i = j
  BY LenProperties, ElementOfSeq DEF Keyed
<1>2. /\ a \in Seq(Items) /\ Len(a) = n
      /\ \A i \in 1..n : a[i] = q[i]
  <2>1. 1 \in Int /\ n \in Int /\ \A i \in 1..n : q[i] \in Items
    BY <1>1
  <2>2. /\ a \in Seq(Items)
        /\ Len(a) = IF 1 <= n THEN n - 1 + 1 ELSE 0
        /\ \A i \in 1..(n - 1 + 1) : a[i] = q[1 + i - 1]
    BY <2>1, SubSeqProperties
  <2> HIDE DEF a
  <2>3. n - 1 + 1 = n /\ \A i \in 1..n : 1 + i - 1 = i
    BY <1>1
  <2> QED BY <1>1, <2>2, <2>3
<1>3. /\ b \in Seq(Items) /\ Len(b) = Len(q) - n
      /\ \A i \in 1..(Len(q) - n) : b[i] = q[n + i]
  <2>1. n + 1 \in Int /\ Len(q) \in Int /\ \A i \in (n + 1)..Len(q) : q[i] \in Items
    BY <1>1
  <2>2. /\ b \in Seq(Items)
        /\ Len(b) = IF n + 1 <= Len(q) THEN Len(q) - (n + 1) + 1 ELSE 0
        /\ \A i \in 1..(Len(q) - (n + 1) + 1) : b[i] = q[n + 1 + i - 1]
    BY <2>1, SubSeqProperties
  <2> HIDE DEF b
  <2>3. Len(q) - (n + 1) + 1 = Len(q) - n /\ \A i \in 1..(Len(q) - n) : n + 1 + i - 1 = n + i
    BY <1>1
  <2>4. Len(b) = Len(q) - n
    <3>1. Len(b) = IF n + 1 <= Len(q) THEN Len(q) - (n + 1) + 1 ELSE 0
      BY <2>2
    <3>2. Len(q) \in Nat /\ n \in Nat /\ n <= Len(q)
      BY <1>1
    <3>3. n + 1 <= Len(q) \/ n = Len(q)
      BY <3>2
    <3>4. CASE n + 1 <= Len(q)
      BY <2>3, <3>1, <3>4
    <3>5. CASE n = Len(q)
      <4>1. ~(n + 1 <= Len(q)) /\ Len(q) - n = 0
        BY <3>2, <3>5
      <4> QED BY <3>1, <4>1
    <3> QED BY <3>3, <3>4, <3>5
  <2>5. \A i \in 1..(Len(q) - n) : b[i] = q[n + i]
    BY <2>2, <2>3, Zenon
  <2> QED BY <2>2, <2>4, <2>5
<1> HIDE DEF a, b
<1>4. DOMAIN a = 1..n /\ DOMAIN b = 1..(Len(q) - n)
  BY <1>2, <1>3, LenProperties
<1>5. ToSet(a) = {q[i] : i \in 1..n}
  BY <1>2, <1>4 DEF ToSet
<1>6. ToSet(b) = {q[i] : i \in (n + 1)..Len(q)}
  <2>1. ASSUME NEW x \in ToSet(b) PROVE x \in {q[i] : i \in (n + 1)..Len(q)}
    <3>1. PICK j \in 1..(Len(q) - n) : x = q[n + j]
      BY <1>3, <1>4, <2>1 DEF ToSet
    <3>2. n + j \in (n + 1)..Len(q)
      BY <1>1
    <3> QED BY <3>1, <3>2
  <2>2. ASSUME NEW i \in (n + 1)..Len(q) PROVE q[i] \in ToSet(b)
    <3>1. i - n \in 1..(Len(q) - n) /\ n + (i - n) = i
      BY <1>1
    <3>2. b[i - n] = q[i]
      BY <1>3, <3>1
    <3> QED BY <1>4, <3>1, <3>2 DEF ToSet
  <2> QED BY <2>1, <2>2
<1>7. ToSet(q) = ToSet(a) \cup ToSet(b)
  <2>1. ToSet(q) = {q[i] : i \in 1..Len(q)}
    BY <1>1 DEF ToSet
  <2>2. 1..Len(q) = (1..n) \cup ((n + 1)..Len(q))
    BY <1>1
  <2> QED BY <1>5, <1>6, <2>1, <2>2
<1>8. \A x \in ToSet(a), y \in ToSet(b) : x.sha # y.sha
  <2> SUFFICES ASSUME NEW i \in 1..n, NEW j \in (n + 1)..Len(q), q[i].sha = q[j].sha
               PROVE  FALSE
    BY <1>5, <1>6
  <2>1. i \in 1..Len(q) /\ j \in 1..Len(q) /\ i # j
    BY <1>1
  <2> QED BY <1>1, <2>1
<1>9. Keyed(b)
  <2> SUFFICES ASSUME NEW i \in 1..(Len(q) - n), NEW j \in 1..(Len(q) - n), b[i].sha = b[j].sha
               PROVE  i = j
    BY <1>3 DEF Keyed
  <2>1. n + i \in 1..Len(q) /\ n + j \in 1..Len(q)
    BY <1>1
  <2>2. q[n + i].sha = q[n + j].sha
    BY <1>3
  <2>3. n + i = n + j
    BY <1>1, <2>1, <2>2
  <2> QED BY <1>1, <2>3
<1>10. /\ ToSet(a) \in SUBSET Items /\ ToSet(b) \in SUBSET Items
       /\ Bytes(a) \in Nat /\ Bytes(b) \in Nat
  BY <1>2, <1>3, KeyedQueue
<1>11. Bytes(q) = Bytes(a) + Bytes(b)
  BY <1>7, <1>8, <1>10, BytesTogether DEF Bytes
<1>12. n = Len(q) => Bytes(b) = 0
  <2> SUFFICES ASSUME n = Len(q) PROVE Bytes(b) = 0
    OBVIOUS
  <2>1. (n + 1)..Len(q) = {}
    BY <1>1
  <2>2. BytesOf(ToSet(b)) = {}
    BY <1>6, <2>1 DEF BytesOf
  <2> QED BY <2>2, FS_EmptySet DEF Bytes
<1> QED BY <1>2, <1>3, <1>7, <1>9, <1>10, <1>11, <1>12 DEF a, b

(* What a purge does: it takes as much from the size as from the items, and stops at the
   target or when there is nothing more. *)
LEMMA PurgeItems ==
    ASSUME NEW c \in Caches, Keyed(c.items), Bytes(c.items) <= c.size, NEW target \in Nat
    PROVE  LET d == Purge(c, target)
           IN  /\ d \in Caches /\ Keyed(d.items)
               /\ ToSet(d.items) \subseteq ToSet(c.items)
               /\ d.size - Bytes(d.items) = c.size - Bytes(c.items)
               /\ d.size <= c.size
               /\ d.size <= target \/ d.size = c.size - Bytes(c.items)
<1> DEFINE q == c.items
           after(n) == c.size - Bytes(SubSeq(q, 1, n))
           K == {k \in 0..Len(q) : after(k) <= target \/ k = Len(q)}
           d == Purge(c, target)
<1>1. /\ q \in Seq(Items) /\ c.size \in Nat /\ Len(q) \in Nat /\ Bytes(q) \in Nat
  BY LenProperties, KeyedQueue DEF Caches
<1>2. Len(q) \in K
  BY <1>1
<1>3. PICK n \in K : n = Min(K)
  <2>1. K \subseteq Nat /\ K # {}
    BY <1>1, <1>2
  <2> HIDE DEF K
  <2>2. \E k \in K : \A m \in K : k <= m
    BY <2>1, LeastElement
  <2> QED BY <2>2, Zenon DEF Min
<1>4. /\ d = [items |-> SubSeq(q, n + 1, Len(q)), size |-> after(n)]
  BY <1>3 DEF Purge
<1>5. n \in 0..Len(q) /\ (after(n) <= target \/ n = Len(q))
  OBVIOUS
<1> DEFINE a == SubSeq(q, 1, n)
           b == SubSeq(q, n + 1, Len(q))
<1>6. /\ b \in Seq(Items) /\ Keyed(b)
      /\ ToSet(b) \subseteq ToSet(q)
      /\ Bytes(a) \in Nat /\ Bytes(b) \in Nat
      /\ Bytes(q) = Bytes(a) + Bytes(b)
      /\ n = Len(q) => Bytes(b) = 0
  BY <1>1, <1>5, CutItems
<1>7. d = [items |-> b, size |-> c.size - Bytes(a)]
  BY <1>4
<1>8. c.size - Bytes(a) <= target \/ n = Len(q)
  BY <1>5
<1> HIDE DEF d, a, b
<1>9. c.size - Bytes(a) \in Nat
  BY <1>1, <1>6
<1>10. d \in Caches /\ d.items = b /\ d.size = c.size - Bytes(a)
  BY <1>6, <1>7, <1>9 DEF Caches
<1>11. /\ d.size - Bytes(d.items) = c.size - Bytes(c.items)
       /\ d.size <= c.size
       /\ d.size <= target \/ d.size = c.size - Bytes(c.items)
  BY <1>1, <1>6, <1>8, <1>10
<1> QED BY <1>6, <1>10, <1>11 DEF d

(* And what it does to the bytes: at most the item's come in, exactly these if its object
   had no item, and the item's are there. *)
LEMMA SetBytes ==
    ASSUME NEW c \in Caches, Keyed(c.items), NEW item \in Items
    PROVE  LET d == Set(c, item)
           IN  /\ Bytes(c.items) \in Nat /\ Bytes(d.items) \in Nat
               /\ Bytes(d.items) <= Bytes(c.items) + SizeOf(item)
               /\ item.sha \notin ShasOf(c.items) => Bytes(d.items) = Bytes(c.items) + SizeOf(item)
               /\ SizeOf(item) <= Bytes(d.items)
<1> DEFINE d == Set(c, item)
<1>1. /\ d \in Caches /\ Keyed(d.items)
      /\ item \in ToSet(d.items)
      /\ ToSet(d.items) \subseteq ToSet(c.items) \cup {item}
      /\ item.sha \notin ShasOf(c.items) => ToSet(d.items) = ToSet(c.items) \cup {item}
      /\ d.size = c.size + SizeOf(item)
  BY SetItem
<1>2. SizeOf(item) \in Nat /\ Cardinality(BytesOf({item})) = SizeOf(item)
  BY ItemBytes
<1> HIDE DEF d
<1>3. /\ c.items \in Seq(Items) /\ d.items \in Seq(Items) /\ c.size \in Nat /\ d.size \in Nat
      /\ ToSet(c.items) \in SUBSET Items /\ ToSet(d.items) \in SUBSET Items
      /\ Bytes(c.items) \in Nat /\ Bytes(d.items) \in Nat
  <2>1. c.items \in Seq(Items) /\ d.items \in Seq(Items) /\ c.size \in Nat /\ d.size \in Nat
    BY <1>1 DEF Caches
  <2> QED BY <2>1, KeyedQueue
<1>4. Bytes(d.items) <= Bytes(c.items) + SizeOf(item)
  <2>1. ToSet(c.items) \cup {item} \in SUBSET Items /\ {item} \in SUBSET Items
    BY <1>3
  <2>2. Bytes(d.items) <= Cardinality(BytesOf(ToSet(c.items) \cup {item}))
    BY <1>1, <2>1, BytesMonotone DEF Bytes
  <2>3. Cardinality(BytesOf(ToSet(c.items) \cup {item})) <= Bytes(c.items) + SizeOf(item)
    BY <1>2, <1>3, <2>1, BytesTogether DEF Bytes
  <2>4. Cardinality(BytesOf(ToSet(c.items) \cup {item})) \in Nat
    BY <2>1, BytesFinite
  <2> QED BY <1>2, <1>3, <2>2, <2>3, <2>4
<1>5. ASSUME item.sha \notin ShasOf(c.items)
      PROVE  Bytes(d.items) = Bytes(c.items) + SizeOf(item)
  <2>1. \A x \in ToSet(c.items), y \in {item} : x.sha # y.sha
    BY <1>5 DEF ShasOf
  <2>2. {item} \in SUBSET Items
    OBVIOUS
  <2> QED BY <1>1, <1>2, <1>3, <1>5, <2>1, <2>2, BytesTogether DEF Bytes
<1>6. SizeOf(item) <= Bytes(d.items)
  <2>1. {item} \in SUBSET ToSet(d.items)
    BY <1>1
  <2> QED BY <1>2, <1>3, <2>1, BytesMonotone DEF Bytes
<1> QED BY <1>3, <1>4, <1>5, <1>6 DEF d

(* What putting an item does: nothing is counted less than its bytes, nothing else comes
   in, and what was within the maximum stays there. *)
LEMMA PutItem ==
    ASSUME NEW c \in Caches, Keyed(c.items), Bytes(c.items) <= c.size, NEW item \in Items
    PROVE  LET d == Put(c, item)
           IN  /\ d \in Caches /\ Keyed(d.items)
               /\ ToSet(d.items) \subseteq ToSet(c.items) \cup {item}
               /\ Bytes(d.items) <= d.size
               /\ c.size <= MaxSize => d.size <= MaxSize
               /\ item.sha \notin ShasOf(c.items) /\ c.size = Bytes(c.items)
                    => d.size = Bytes(d.items)
<1> DEFINE d == Set(c, item)
           e == Purge(d, PurgeSize)
<1>1. /\ d \in Caches /\ Keyed(d.items)
      /\ item \in ToSet(d.items)
      /\ ToSet(d.items) \subseteq ToSet(c.items) \cup {item}
      /\ item.sha \notin ShasOf(c.items) => ToSet(d.items) = ToSet(c.items) \cup {item}
      /\ d.size = c.size + SizeOf(item)
  BY SetItem
<1>2. /\ MaxSize \in Nat /\ PurgeSize \in Nat /\ PurgeSize <= MaxSize
      /\ SizeOf(item) \in Nat
  BY CacheAssumption, ItemBytes
<1>4. /\ Bytes(c.items) \in Nat /\ Bytes(d.items) \in Nat
      /\ Bytes(d.items) <= Bytes(c.items) + SizeOf(item)
      /\ item.sha \notin ShasOf(c.items) => Bytes(d.items) = Bytes(c.items) + SizeOf(item)
      /\ SizeOf(item) <= Bytes(d.items)
  BY SetBytes
<1> HIDE DEF d
<1>3. c.size \in Nat /\ d.size \in Nat
  BY <1>1 DEF Caches
<1>7. Bytes(d.items) <= d.size
  BY <1>1, <1>2, <1>3, <1>4
<1>8. CASE d.size > MaxSize
  <2>1. Put(c, item) = e
    BY <1>8 DEF Put, d
  <2>2. /\ e \in Caches /\ Keyed(e.items)
        /\ ToSet(e.items) \subseteq ToSet(d.items)
        /\ e.size - Bytes(e.items) = d.size - Bytes(d.items)
        /\ e.size <= d.size
        /\ e.size <= PurgeSize \/ e.size = d.size - Bytes(d.items)
    BY <1>1, <1>2, <1>7, PurgeItems
  <2> HIDE DEF e
  <2>3. e.size \in Nat /\ e.items \in Seq(Items)
    BY <2>2 DEF Caches
  <2>4. Bytes(e.items) \in Nat
    BY <2>3, KeyedQueue
  <2>5. /\ Bytes(e.items) <= e.size
        /\ c.size <= MaxSize => e.size <= MaxSize
        /\ item.sha \notin ShasOf(c.items) /\ c.size = Bytes(c.items)
             => e.size = Bytes(e.items)
    <3>1. Bytes(e.items) <= e.size
      BY <1>3, <1>4, <1>7, <2>2, <2>3, <2>4
    <3>2. c.size <= MaxSize => e.size <= MaxSize
      BY <1>1, <1>2, <1>3, <1>4, <2>2, <2>3
    <3>3. item.sha \notin ShasOf(c.items) /\ c.size = Bytes(c.items) => e.size = Bytes(e.items)
      BY <1>1, <1>2, <1>3, <1>4, <2>2, <2>3, <2>4
    <3> QED BY <3>1, <3>2, <3>3
  <2> QED BY <1>1, <2>1, <2>2, <2>5
<1>9. CASE ~(d.size > MaxSize)
  <2>1. Put(c, item) = d
    BY <1>9 DEF Put, d
  <2>2. d.size <= MaxSize
    BY <1>2, <1>3, <1>9
  <2>3. item.sha \notin ShasOf(c.items) /\ c.size = Bytes(c.items) => d.size = Bytes(d.items)
    BY <1>1, <1>4
  <2> QED BY <1>1, <1>7, <2>1, <2>2, <2>3
<1> QED BY <1>8, <1>9

(* What removing an object does: its item goes, and the item's bytes. *)
LEMMA DropItem ==
    ASSUME NEW c \in Caches, Keyed(c.items), Bytes(c.items) <= c.size,
           NEW s \in ShasOf(c.items)
    PROVE  LET d == Drop(c, s)
           IN  /\ d \in Caches /\ Keyed(d.items)
               /\ ToSet(d.items) \subseteq ToSet(c.items)
               /\ d.size - Bytes(d.items) = c.size - Bytes(c.items)
               /\ d.size <= c.size
<1> DEFINE q == c.items
           item == ItemOf(q, s)
           r == Without(q, item)
           d == Drop(c, s)
<1>1. /\ q \in Seq(Items) /\ c.size \in Nat /\ Bytes(q) \in Nat /\ ToSet(q) \in SUBSET Items
      /\ Distinct(q) /\ \A x, y \in ToSet(q) : x.sha = y.sha => x = y
  BY KeyedQueue DEF Caches
<1>2. item \in ToSet(q) /\ item \in Items
  BY <1>1, ItemOfObject
<1> HIDE DEF item
<1>3. r \in Seq(Items) /\ ToSet(r) = ToSet(q) \ {item} /\ Distinct(r)
  BY <1>1, WithoutElements
<1>4. d = [items |-> r, size |-> c.size - SizeOf(item)]
  BY DEF Drop, item
<1> HIDE DEF r, d
<1>5. Keyed(r) /\ Bytes(r) \in Nat /\ ToSet(r) \in SUBSET Items
  BY <1>1, <1>3, KeyedQueue
<1>6. SizeOf(item) \in Nat /\ Cardinality(BytesOf({item})) = SizeOf(item)
  BY <1>2, ItemBytes
<1>7. Bytes(q) = Bytes(r) + SizeOf(item)
  <2>1. ToSet(q) = ToSet(r) \cup {item} /\ {item} \in SUBSET Items
    BY <1>2, <1>3
  <2>2. \A x \in ToSet(r), y \in {item} : x.sha # y.sha
    BY <1>1, <1>2, <1>3
  <2> QED BY <1>5, <1>6, <2>1, <2>2, BytesTogether DEF Bytes
<1>8. c.size - SizeOf(item) \in Nat
  BY <1>1, <1>5, <1>6, <1>7
<1>9. d \in Caches /\ d.items = r /\ d.size = c.size - SizeOf(item)
  BY <1>3, <1>4, <1>8 DEF Caches
<1>10. /\ d.size - Bytes(d.items) = c.size - Bytes(c.items)
       /\ d.size <= c.size
  BY <1>1, <1>5, <1>6, <1>7, <1>9
<1> QED BY <1>3, <1>5, <1>9, <1>10 DEF d

(* What serving an object does: its item is the last of the same items. *)
LEMMA ServeItem ==
    ASSUME NEW q \in Seq(Items), Keyed(q), NEW s \in ShasOf(q)
    PROVE  LET r == Append(Without(q, ItemOf(q, s)), ItemOf(q, s))
           IN  r \in Seq(Items) /\ Keyed(r) /\ ToSet(r) = ToSet(q) /\ Bytes(r) = Bytes(q)
<1> DEFINE item == ItemOf(q, s)
           p == Without(q, item)
           r == Append(p, item)
<1>1. /\ ToSet(q) \in SUBSET Items
      /\ Distinct(q) /\ \A x, y \in ToSet(q) : x.sha = y.sha => x = y
  BY KeyedQueue
<1>2. item \in ToSet(q) /\ item \in Items
  BY <1>1, ItemOfObject
<1> HIDE DEF item
<1>3. p \in Seq(Items) /\ ToSet(p) = ToSet(q) \ {item} /\ Distinct(p)
  BY <1>1, WithoutElements
<1> HIDE DEF p
<1>4. r \in Seq(Items) /\ ToSet(r) = ToSet(p) \cup {item} /\ Distinct(r)
  BY <1>2, <1>3, AppendElements
<1> HIDE DEF r
<1>5. ToSet(r) = ToSet(q)
  BY <1>2, <1>3, <1>4
<1>6. Keyed(r)
  BY <1>1, <1>4, <1>5, KeyedQueue
<1> QED BY <1>4, <1>5, <1>6 DEF Bytes, r, p, item

----------------------------------------------------------------------------
(* Loading a directory *)

\* What the loop over the first k files has made, when g[j] is what it had made before.
NextLoaded(g, order, k) ==
    IF k = 0 THEN Empty
    ELSE IF Loadable(order[k])
         THEN Put(g[k - 1], [sha |-> order[k], from |-> disk[order[k]].from])
         ELSE g[k - 1]

Loads(g, order, n) == g = [k \in 0..n |-> NextLoaded(g, order, k)]

(* The loop is defined for any number of files. *)
LEMMA LoopExists ==
    ASSUME NEW order, NEW N \in Nat
    PROVE  \E g : Loads(g, order, N)
<1> DEFINE T == {n \in Nat : \E g : Loads(g, order, n)}
<1>1. 0 \in T
  <2> DEFINE g == [k \in 0..0 |-> Empty]
  <2>1. Loads(g, order, 0)
    BY DEF Loads, NextLoaded
  <2> QED BY <2>1
<1>2. ASSUME NEW n \in 0..(N - 1), n \in T PROVE n + 1 \in T
  <2>1. PICK g : Loads(g, order, n)
    BY <1>2
  <2>2. n \in Nat
    OBVIOUS
  <2> DEFINE x == NextLoaded(g, order, n + 1)
             h == [k \in 0..(n + 1) |-> IF k = n + 1 THEN x ELSE g[k]]
  <2>3. ASSUME NEW k \in 0..(n + 1) PROVE h[k] = NextLoaded(h, order, k)
    <3>1. CASE k = 0
      <4>1. k # n + 1 /\ k \in 0..n
        BY <2>2, <3>1
      <4>2. h[k] = g[k] /\ g[k] = NextLoaded(g, order, k)
        BY <2>1, <4>1 DEF Loads
      <4> QED BY <3>1, <4>2 DEF NextLoaded
    <3>2. CASE k # 0
      <4>1. k - 1 \in 0..(n + 1) /\ k - 1 # n + 1
        BY <2>2, <3>2
      <4>2. h[k - 1] = g[k - 1]
        BY <4>1
      <4>3. NextLoaded(h, order, k) = NextLoaded(g, order, k)
        <5> HIDE DEF h
        <5> QED BY <3>2, <4>2 DEF NextLoaded
      <4>4. CASE k = n + 1
        BY <4>3, <4>4
      <4>5. CASE k # n + 1
        <5>1. k \in 0..n
          BY <2>2, <4>5
        <5>2. g[k] = NextLoaded(g, order, k)
          BY <2>1, <5>1 DEF Loads
        <5> QED BY <4>3, <4>5, <5>2
      <4> QED BY <4>4, <4>5
    <3> QED BY <3>1, <3>2
  <2>4. h = [k \in 0..(n + 1) |-> h[k]]
    OBVIOUS
  <2> HIDE DEF h
  <2>5. Loads(h, order, n + 1)
    BY <2>3, <2>4 DEF Loads
  <2> QED BY <2>2, <2>5
<1>3. 0..N \subseteq T
  <2> HIDE DEF T
  <2> QED BY <1>1, <1>2, SetInduction
<1> QED BY <1>3

(* What a load makes of any directory and any order: every item has its object's file,
   which is whole, its size is that of its items, and it is within the maximum. *)
THEOREM LoadItems ==
    ASSUME disk \in [Objects -> Files \cup {None}], NEW order \in SetToSeqs(Objects)
    PROVE  LET d == Load(order)
           IN  /\ d \in Caches /\ Keyed(d.items)
               /\ d.size = Bytes(d.items)
               /\ d.size <= MaxSize
               /\ \A item \in ToSet(d.items) :
                     disk[item.sha].whole /\ disk[item.sha].from = item.from
<1>1. PICK N \in Nat : N = Cardinality(Objects)
  BY CacheAssumption, FS_CardinalityType
<1>2. /\ order \in [1..N -> Objects]
      /\ \A i, j \in 1..N : i # j => order[i] # order[j]
  BY <1>1 DEF SetToSeqs
<1>3. Len(order) = N
  <2>1. order \in Seq(Objects)
    BY <1>2
  <2> QED BY <1>1, <1>2, <2>1, LenProperties
<1> DEFINE f == CHOOSE g : Loads(g, order, N)
<1>4. Load(order) = f[N]
  BY <1>3 DEF Load, Loads, NextLoaded
<1>5. Loads(f, order, N)
  BY LoopExists, Zenon
<1> HIDE DEF f
<1> DEFINE Good(d, n) ==
             /\ d \in Caches /\ Keyed(d.items)
             /\ d.size = Bytes(d.items)
             /\ d.size <= MaxSize
             /\ \A item \in ToSet(d.items) :
                   /\ \E i \in 1..n : item.sha = order[i]
                   /\ disk[item.sha].whole /\ disk[item.sha].from = item.from
           T == {n \in 0..N : Good(f[n], n)}
<1>6. \A k \in 0..N : f[k] = NextLoaded(f, order, k)
  BY <1>5 DEF Loads
<1>7. 0 \in T
  <2>1. 0 \in 0..N
    OBVIOUS
  <2>2. f[0] = Empty
    BY <1>6, <2>1 DEF NextLoaded
  <2>3. /\ ToSet(<<>>) = {} /\ Keyed(<<>>) /\ Bytes(<<>>) = 0
        /\ Empty \in Caches /\ Empty.items = <<>> /\ Empty.size = 0
    BY EmptyIndex DEF Empty
  <2>4. Good(Empty, 0)
    BY <2>3, CacheAssumption
  <2> QED BY <2>1, <2>2, <2>4
<1>8. ASSUME NEW n \in 0..(N - 1), n \in T PROVE n + 1 \in T
  <2>1. n \in Nat /\ n \in 0..N /\ n + 1 \in 0..N /\ n + 1 \in 1..N /\ n + 1 # 0 /\ n + 1 - 1 = n
    OBVIOUS
  <2> DEFINE c == f[n]
             s == order[n + 1]
             item == [sha |-> s, from |-> disk[s].from]
             d == f[n + 1]
  <2>2. Good(c, n)
    BY <1>8
  <2>3. d = IF Loadable(s) THEN Put(c, item) ELSE c
    <3>1. d = NextLoaded(f, order, n + 1)
      BY <1>6, <2>1
    <3> QED BY <2>1, <3>1 DEF NextLoaded
  <2>4. Good(c, n + 1)
    <3>1. 1..n \subseteq 1..(n + 1)
      BY <2>1
    <3> QED BY <2>2, <3>1
  <2>5. CASE ~Loadable(s)
    BY <2>1, <2>3, <2>4, <2>5
  <2>6. CASE Loadable(s)
    <3>1. s \in Objects /\ disk[s] \in Files /\ disk[s].whole
      BY <1>2, <2>1, <2>6 DEF Loadable
    <3>2. item \in Items /\ item.sha = s /\ item.from = disk[s].from
      BY <3>1 DEF Items, Files
    <3>3. s \notin ShasOf(c.items)
      <4> SUFFICES ASSUME NEW x \in ToSet(c.items), x.sha = s PROVE FALSE
        BY DEF ShasOf
      <4>1. PICK i \in 1..n : x.sha = order[i]
        BY <2>2
      <4>2. i \in 1..N /\ i # n + 1
        BY <2>1
      <4> QED BY <1>2, <2>1, <4>1, <4>2
    <3> HIDE DEF item, s, c
    <3>4. Bytes(c.items) <= c.size
      <4>1. c.items \in Seq(Items)
        BY <2>2 DEF Caches
      <4>2. Bytes(c.items) \in Nat
        BY <4>1, KeyedQueue
      <4> QED BY <2>2, <4>2
    <3>5. /\ d \in Caches /\ Keyed(d.items)
          /\ ToSet(d.items) \subseteq ToSet(c.items) \cup {item}
          /\ d.size <= MaxSize
          /\ d.size = Bytes(d.items)
      <4>1. d = Put(c, item)
        BY <2>3, <2>6 DEF item
      <4> HIDE DEF d
      <4> QED BY <2>2, <3>2, <3>3, <3>4, <4>1, PutItem
    <3> HIDE DEF d
    <3>6. ASSUME NEW x \in ToSet(d.items)
          PROVE  /\ \E i \in 1..(n + 1) : x.sha = order[i]
                 /\ disk[x.sha].whole /\ disk[x.sha].from = x.from
      <4>1. CASE x \in ToSet(c.items)
        BY <2>4, <4>1
      <4>2. CASE x = item
        <5>1. n + 1 \in 1..(n + 1) /\ x.sha = order[n + 1]
          BY <2>1, <3>2, <4>2 DEF s
        <5> QED BY <3>1, <3>2, <4>2, <5>1
      <4> QED BY <3>5, <4>1, <4>2
    <3>7. Good(d, n + 1)
      BY <3>5, <3>6
    <3> HIDE DEF Good
    <3> QED BY <2>1, <3>7 DEF d
  <2> QED BY <2>5, <2>6
<1>9. N \in T
  <2>1. N \in 0..N
    OBVIOUS
  <2> HIDE DEF T
  <2> QED BY <1>7, <1>8, <2>1, SetInduction
<1> QED BY <1>4, <1>9

----------------------------------------------------------------------------
(* The inductive invariant *)

\* No index is counted less than its bytes; the one in use is within the maximum.
SizesCover == \A g \in Gens : Bytes(cache[g].items) <= cache[g].size
WithinMax == cur # 0 => cache[cur].size <= MaxSize

CacheBase == CacheTypeOK /\ SizesCover /\ WithinMax

\* Only the index in use writes, no object that it has, and what is at the names of the
\* objects it writes was compiled, if anything is.
OneWriter ==
    cur # 0 => /\ \A g \in Gens \ {cur} : writing[g] = {}
               /\ \A s \in writing[cur] :
                     s \notin ShasOf(cache[cur].items) /\ disk[s].from = "compile"

CacheSound ==
    ~shared => /\ ItemsMatchFiles
               /\ cur # 0 => cache[cur].size = Bytes(cache[cur].items)
               /\ connected => told = IF cur = 0 THEN {} ELSE ShasOf(cache[cur].items)
               /\ OneWriter

CacheInv == CacheBase /\ CacheSound

(* What types say of every index. *)
LEMMA CacheFacts ==
    ASSUME CacheTypeOK
    PROVE  /\ \A g \in Gens : /\ cache[g] \in Caches /\ Keyed(cache[g].items)
                              /\ cache[g].items \in Seq(Items)
                              /\ Bytes(cache[g].items) \in Nat /\ cache[g].size \in Nat
                              /\ ShasOf(cache[g].items) \subseteq Objects
           /\ DOMAIN cache = Gens
           /\ cur # 0 => cur \in Gens
           /\ 0 \notin Gens
           /\ None.from = "compile" /\ ~None.whole
<1>1. cache \in [Gens -> Caches]
  BY DEF CacheTypeOK, Caches
<1>2. ASSUME NEW g \in Gens
      PROVE  /\ cache[g] \in Caches /\ Keyed(cache[g].items)
             /\ cache[g].items \in Seq(Items)
             /\ Bytes(cache[g].items) \in Nat /\ cache[g].size \in Nat
             /\ ShasOf(cache[g].items) \subseteq Objects
  <2>1. cache[g] \in Caches /\ Keyed(cache[g].items)
    BY <1>1 DEF CacheTypeOK
  <2>2. cache[g].items \in Seq(Items) /\ cache[g].size \in Nat
    BY <2>1 DEF Caches
  <2>3. Bytes(cache[g].items) \in Nat /\ ToSet(cache[g].items) \in SUBSET Items
    BY <2>2, KeyedQueue
  <2>4. ShasOf(cache[g].items) \subseteq Objects
    BY <2>3 DEF ShasOf, Items
  <2> QED BY <2>1, <2>2, <2>3, <2>4
<1>3. DOMAIN cache = Gens /\ (cur # 0 => cur \in Gens)
  BY DEF CacheTypeOK
<1>4. 0 \notin Gens
  BY CacheAssumption
<1>5. None.from = "compile" /\ ~None.whole
  BY DEF None
<1> QED BY <1>2, <1>3, <1>4, <1>5

(* An index that becomes something sound keeps what holds of every state. *)
LEMMA BecomesBase ==
    ASSUME CacheBase, NEW g \in Gens, NEW c \in Caches, NEW s \in SUBSET Objects,
           NEW files \in [Objects -> Files \cup {None}],
           Keyed(c.items), Bytes(c.items) <= c.size, g = cur => c.size <= MaxSize,
           Becomes(g, c, s, files), UNCHANGED cur
    PROVE  /\ cache' \in [Gens -> [items : Seq(Items), size : Nat]]
           /\ \A h \in Gens : Keyed(cache'[h].items)
           /\ disk' \in [Objects -> Files \cup {None}]
           /\ told' \in SUBSET Objects
           /\ SizesCover' /\ WithinMax'
<1>1. /\ cache' = [cache EXCEPT ![g] = c]
      /\ \A t \in Objects : disk'[t] = None \/ disk'[t] = files[t]
      /\ disk' = [t \in Objects |-> disk'[t]]
      /\ told' \subseteq told \cup s
  BY DEF Becomes
<1>2. /\ cache'[g] = c
      /\ \A h \in Gens : h # g => cache'[h] = cache[h]
      /\ DOMAIN cache' = Gens
  BY <1>1, CacheFacts DEF CacheBase
<1>3. \A h \in Gens : cache'[h] \in Caches /\ Keyed(cache'[h].items)
  BY <1>2, CacheFacts DEF CacheBase
<1>4. cache' \in [Gens -> [items : Seq(Items), size : Nat]]
  BY <1>1, <1>2, <1>3 DEF Caches
<1>5. disk' \in [Objects -> Files \cup {None}]
  BY <1>1
<1>6. told' \in SUBSET Objects
  BY <1>1 DEF CacheBase, CacheTypeOK
<1>7. SizesCover'
  BY <1>2 DEF CacheBase, SizesCover
<1>8. WithinMax'
  BY <1>2, CacheFacts DEF CacheBase, WithinMax
<1> QED BY <1>3, <1>4, <1>5, <1>6, <1>7, <1>8

(* And so it is with what holds as long as no two owners met: the files of its items are
   theirs, the scheduler hears of what came and went. *)
LEMMA BecomesSound ==
    ASSUME CacheInv, ~shared, cur # 0, NEW c \in Caches, NEW s \in SUBSET Objects,
           NEW files,
           ShasOf(c.items) \subseteq ShasOf(cache[cur].items) \cup s,
           c.size = Bytes(c.items),
           \A item \in ToSet(c.items) :
              files[item.sha].whole /\ files[item.sha].from = item.from,
           Becomes(cur, c, s, files), UNCHANGED <<connected, cur>>
    PROVE  /\ cache'[cur] = c
           /\ ItemsMatchFiles'
           /\ cache'[cur'].size = Bytes(cache'[cur'].items)
           /\ (connected => told = IF cur = 0 THEN {} ELSE ShasOf(cache[cur].items))'
           /\ \A t \in Objects : files[t].from = "compile" => disk'[t].from = "compile"
<1> DEFINE lost == (ShasOf(cache[cur].items) \cup s) \ ShasOf(c.items)
<1>1. /\ cache' = [cache EXCEPT ![cur] = c]
      /\ disk' = [t \in Objects |-> IF t \in lost THEN None ELSE files[t]]
      /\ told' = IF connected THEN (told \cup s) \ lost ELSE told
  BY DEF Becomes
<1>2. cur \in Gens /\ cache'[cur] = c
  BY <1>1, CacheFacts DEF CacheInv, CacheBase
<1>3. ShasOf(c.items) \subseteq Objects /\ ToSet(c.items) \subseteq Items
  <2>1. ToSet(c.items) \in SUBSET Items
    BY KeyedQueue DEF Caches
  <2> QED BY <2>1 DEF ShasOf, Items
<1>4. \A item \in ToSet(c.items) : item.sha \in ShasOf(c.items)
  BY DEF ShasOf
<1>5. ItemsMatchFiles'
  <2> SUFFICES ASSUME NEW item \in ToSet(c.items)
               PROVE  disk'[item.sha].whole /\ disk'[item.sha].from = item.from
    BY <1>2 DEF ItemsMatchFiles
  <2>1. disk'[item.sha] = files[item.sha]
    BY <1>1, <1>3, <1>4
  <2> QED BY <2>1
<1>6. (connected => told = IF cur = 0 THEN {} ELSE ShasOf(cache[cur].items))'
  <2>1. connected => told = ShasOf(cache[cur].items)
    BY DEF CacheInv, CacheSound
  <2>2. connected => told' = ShasOf(c.items)
    BY <1>1, <2>1
  <2> QED BY <1>2, <2>2
<1>7. \A t \in Objects : files[t].from = "compile" => disk'[t].from = "compile"
  BY <1>1 DEF None
<1> QED BY <1>2, <1>5, <1>6, <1>7

----------------------------------------------------------------------------
(* The steps *)

(* A new connection: the new index is what the directory holds. *)
LEMMA NewIndexStep == ASSUME CacheInv, NewIndex PROVE CacheInv'
<1>1. connected' = TRUE /\ UNCHANGED <<writing, fetching>>
  BY DEF NewIndex
<1>2. CASE cur' = 0 /\ told' = {} /\ UNCHANGED <<cache, disk, shared>>
  BY <1>1, <1>2 DEF CacheInv, CacheBase, CacheSound, CacheTypeOK, SizesCover, WithinMax,
                    ItemsMatchFiles, OneWriter
<1>3. ASSUME NEW g \in Gens, NEW order \in SetToSeqs(Objects),
             cur' = g,
             cache' = [cache EXCEPT ![g] = Load(order)],
             disk' = [s \in Objects |-> IF s \in ShasOf(Load(order).items) THEN disk[s] ELSE None],
             told' = ShasOf(Load(order).items),
             shared' = (shared \/ \E h \in Gens : writing[h] # {})
      PROVE  CacheInv'
  <2> DEFINE d == Load(order)
  <2>1. /\ d \in Caches /\ Keyed(d.items)
        /\ d.size = Bytes(d.items)
        /\ d.size <= MaxSize
        /\ \A item \in ToSet(d.items) :
              disk[item.sha].whole /\ disk[item.sha].from = item.from
    BY LoadItems DEF CacheInv, CacheBase, CacheTypeOK
  <2> HIDE DEF d
  <2>2. /\ cur' = g /\ g # 0
        /\ cache' = [cache EXCEPT ![g] = d]
        /\ disk' = [s \in Objects |-> IF s \in ShasOf(d.items) THEN disk[s] ELSE None]
        /\ told' = ShasOf(d.items)
    BY <1>3, CacheFacts DEF d, CacheInv, CacheBase
  <2>3. cache'[g] = d /\ DOMAIN cache' = Gens /\ \A h \in Gens : h # g => cache'[h] = cache[h]
    BY <2>2, CacheFacts DEF CacheInv, CacheBase
  <2>4. /\ \A h \in Gens : cache'[h] \in Caches /\ Keyed(cache'[h].items)
        /\ cache' \in [Gens -> [items : Seq(Items), size : Nat]]
    <3>1. \A h \in Gens : cache'[h] \in Caches /\ Keyed(cache'[h].items)
      BY <2>1, <2>3, CacheFacts DEF CacheInv, CacheBase
    <3> QED BY <2>2, <2>3, <3>1 DEF Caches
  <2>5. /\ ToSet(d.items) \subseteq Items /\ ShasOf(d.items) \subseteq Objects
        /\ Bytes(d.items) \in Nat /\ d.size \in Nat
    <3>1. d.items \in Seq(Items) /\ d.size \in Nat
      BY <2>1 DEF Caches
    <3>2. ToSet(d.items) \in SUBSET Items /\ Bytes(d.items) \in Nat
      BY <3>1, KeyedQueue
    <3> QED BY <3>1, <3>2 DEF ShasOf, Items
  <2>6. CacheTypeOK'
    BY <1>1, <1>3, <2>2, <2>4, <2>5 DEF CacheTypeOK, CacheInv, CacheBase
  <2>7. SizesCover' /\ WithinMax'
    BY <2>1, <2>2, <2>3, <2>5 DEF SizesCover, WithinMax, CacheInv, CacheBase
  <2>8. ASSUME ~shared'
        PROVE  /\ ItemsMatchFiles'
               /\ cache'[cur'].size = Bytes(cache'[cur'].items)
               /\ (connected => told = IF cur = 0 THEN {} ELSE ShasOf(cache[cur].items))'
               /\ OneWriter'
    <3>1. \A item \in ToSet(d.items) : item.sha \in ShasOf(d.items)
      BY DEF ShasOf
    <3>2. ItemsMatchFiles'
      BY <2>1, <2>2, <2>3, <2>5, <3>1 DEF ItemsMatchFiles
    <3>3. \A h \in Gens : writing'[h] = {}
      BY <1>1, <1>3, <2>8
    <3>4. OneWriter'
      BY <2>2, <3>3 DEF OneWriter
    <3> QED BY <2>1, <2>2, <2>3, <3>2, <3>4
  <2> QED BY <2>6, <2>7, <2>8 DEF CacheInv, CacheBase, CacheSound
<1> QED BY <1>2, <1>3 DEF NewIndex

(* A connection that closes, a builder that starts again, a download. *)
LEMMA QuietStep ==
    ASSUME CacheInv,
           \/ Close \/ Restart \/ UNCHANGED cacheVars
           \/ \E s \in Objects : Fetch(s) \/ FetchFails(s)
    PROVE  CacheInv'
<1>1. CASE Close \/ UNCHANGED cacheVars
  <2>1. /\ UNCHANGED <<cur, cache, writing, fetching, disk, told, shared>>
        /\ connected' = FALSE \/ connected' = connected
    BY <1>1 DEF Close, cacheVars
  <2>2. CacheBase'
    BY <2>1 DEF CacheInv, CacheBase, CacheTypeOK, SizesCover, WithinMax
  <2>3. CacheSound'
    BY <2>1 DEF CacheInv, CacheSound, ItemsMatchFiles, OneWriter
  <2> QED BY <2>2, <2>3 DEF CacheInv
<1>2. CASE Restart
  <2>1. /\ <<>> \in Seq(Items) /\ Keyed(<<>>) /\ Bytes(<<>>) = 0
    BY EmptyIndex
  <2>2. CacheTypeOK'
    <3>1. \A g \in Gens : cache'[g] = Empty
      BY <1>2 DEF Restart
    <3>2. disk' \in [Objects -> Files \cup {None}]
      BY <1>2 DEF Restart, CacheInv, CacheBase, CacheTypeOK, Files
    <3>3. cache' \in [Gens -> [items : Seq(Items), size : Nat]] /\ \A g \in Gens : Keyed(cache'[g].items)
      BY <1>2, <2>1 DEF Restart, Empty
    <3>4. writing' \in [Gens -> SUBSET Objects] /\ fetching' \in [Objects -> 0..MaxFetches]
      <4>1. 0 \in 0..MaxFetches
        BY CacheAssumption
      <4> QED BY <1>2, <4>1 DEF Restart
    <3> QED BY <1>2, <3>2, <3>3, <3>4 DEF Restart, CacheInv, CacheBase, CacheTypeOK
  <2> QED BY <1>2, <2>1, <2>2 DEF Restart, CacheInv, CacheBase, CacheSound, SizesCover, WithinMax,
                ItemsMatchFiles, OneWriter, Empty
<1>3. ASSUME NEW s \in Objects, Fetch(s) \/ FetchFails(s) PROVE CacheInv'
  <2>1. UNCHANGED <<connected, cur, cache, writing, disk, told, shared>>
    BY <1>3 DEF Fetch, FetchFails
  <2>2. fetching' \in [Objects -> 0..MaxFetches]
    <3>1. fetching \in [Objects -> 0..MaxFetches] /\ MaxFetches \in Nat
      BY CacheAssumption DEF CacheInv, CacheBase, CacheTypeOK
    <3>2. fetching[s] \in 0..MaxFetches
      BY <3>1
    <3>3. \E k \in 0..MaxFetches : fetching' = [fetching EXCEPT ![s] = k]
      <4>1. CASE Fetch(s)
        <5>1. fetching[s] < MaxFetches /\ fetching' = [fetching EXCEPT ![s] = fetching[s] + 1]
          BY <4>1 DEF Fetch
        <5>2. fetching[s] + 1 \in 0..MaxFetches
          BY <3>1, <3>2, <5>1
        <5> QED BY <5>1, <5>2
      <4>2. CASE FetchFails(s)
        <5>1. fetching[s] > 0 /\ fetching' = [fetching EXCEPT ![s] = fetching[s] - 1]
          BY <4>2 DEF FetchFails
        <5>2. fetching[s] - 1 \in 0..MaxFetches
          BY <3>1, <3>2, <5>1
        <5> QED BY <5>1, <5>2
      <4> QED BY <1>3, <4>1, <4>2
    <3> QED BY <3>1, <3>3
  <2> QED BY <2>1, <2>2 DEF CacheInv, CacheBase, CacheSound, CacheTypeOK, SizesCover,
              WithinMax, ItemsMatchFiles, OneWriter
<1> QED BY <1>1, <1>2, <1>3

(* The index in use loses items by its doing. *)
LEMMA ShrinkStep ==
    ASSUME CacheInv, cur # 0, NEW d \in Caches, Keyed(d.items),
           ToSet(d.items) \subseteq ToSet(cache[cur].items),
           d.size - Bytes(d.items) = cache[cur].size - Bytes(cache[cur].items),
           d.size <= cache[cur].size,
           Becomes(cur, d, {}, disk),
           UNCHANGED <<connected, cur, writing, fetching, shared>>
    PROVE  CacheInv'
<1> DEFINE c == cache[cur]
<1>1. /\ cur \in Gens /\ c \in Caches /\ Keyed(c.items)
      /\ Bytes(c.items) \in Nat /\ c.size \in Nat
      /\ disk \in [Objects -> Files \cup {None}]
      /\ Bytes(c.items) <= c.size /\ c.size <= MaxSize /\ MaxSize \in Nat
  BY CacheFacts, CacheAssumption DEF CacheInv, CacheBase, CacheTypeOK, SizesCover, WithinMax
<1>2. /\ d.size \in Nat /\ Bytes(d.items) \in Nat
      /\ Bytes(d.items) <= d.size /\ d.size <= MaxSize
      /\ c.size = Bytes(c.items) => d.size = Bytes(d.items)
  <2>1. d.size \in Nat /\ d.items \in Seq(Items)
    BY DEF Caches
  <2>2. Bytes(d.items) \in Nat
    BY <2>1, KeyedQueue
  <2> HIDE DEF c
  <2>3. d.size - Bytes(d.items) = c.size - Bytes(c.items) /\ d.size <= c.size
    BY DEF c
  <2> QED BY <1>1, <2>1, <2>2, <2>3
<1>3. CacheBase'
  <2>1. /\ cache' \in [Gens -> [items : Seq(Items), size : Nat]]
        /\ \A h \in Gens : Keyed(cache'[h].items)
        /\ disk' \in [Objects -> Files \cup {None}]
        /\ told' \in SUBSET Objects
        /\ SizesCover' /\ WithinMax'
    BY <1>1, <1>2, BecomesBase DEF CacheInv
  <2> QED BY <2>1 DEF CacheInv, CacheBase, CacheTypeOK
<1>4. ASSUME ~shared' PROVE CacheSound'
  <2>1. ~shared
    BY <1>4
  <2>2. ShasOf(d.items) \subseteq ShasOf(c.items)
    BY DEF ShasOf
  <2>3. /\ cache'[cur] = d
        /\ ItemsMatchFiles'
        /\ cache'[cur'].size = Bytes(cache'[cur'].items)
        /\ (connected => told = IF cur = 0 THEN {} ELSE ShasOf(cache[cur].items))'
        /\ \A t \in Objects : disk[t].from = "compile" => disk'[t].from = "compile"
    <3>1. /\ d.size = Bytes(d.items)
          /\ \A item \in ToSet(d.items) :
               disk[item.sha].whole /\ disk[item.sha].from = item.from
      BY <1>2, <2>1 DEF CacheInv, CacheSound, ItemsMatchFiles
    <3> QED BY <2>1, <2>2, <3>1, BecomesSound
  <2>4. OneWriter'
    <3>1. writing \in [Gens -> SUBSET Objects]
      BY DEF CacheInv, CacheBase, CacheTypeOK
    <3> QED BY <1>1, <2>1, <2>2, <2>3, <3>1 DEF CacheInv, CacheSound, OneWriter
  <2> QED BY <2>3, <2>4 DEF CacheSound
<1> QED BY <1>3, <1>4 DEF CacheInv, CacheSound

(* "clearObjectCache", and an object that is not there when it is read. *)
LEMMA LoseStep ==
    ASSUME CacheInv, ClearIndex \/ \E s \in Objects : Serve(s) \/ ServeFails(s)
    PROVE  CacheInv'
<1> DEFINE c == cache[cur]
<1>1. /\ cur # 0 => /\ cur \in Gens /\ c \in Caches /\ Keyed(c.items) /\ c.items \in Seq(Items)
                    /\ Bytes(c.items) <= c.size
      /\ DOMAIN cache = Gens
  BY CacheFacts DEF CacheInv, CacheBase, SizesCover
<1>2. CASE ClearIndex
  <2> DEFINE d == Purge(c, 0)
  <2>1. /\ cur # 0 /\ Becomes(cur, d, {}, disk)
        /\ UNCHANGED <<connected, cur, writing, fetching, shared>>
    BY <1>2 DEF ClearIndex
  <2>2. /\ d \in Caches /\ Keyed(d.items)
        /\ ToSet(d.items) \subseteq ToSet(c.items)
        /\ d.size - Bytes(d.items) = c.size - Bytes(c.items)
        /\ d.size <= c.size
    BY <1>1, <2>1, PurgeItems
  <2> HIDE DEF d
  <2> QED BY <2>1, <2>2, ShrinkStep
<1>3. ASSUME NEW s \in Objects, cur # 0, s \in ShasOf(c.items),
             Becomes(cur, Drop(c, s), {}, disk),
             UNCHANGED <<connected, cur, writing, fetching, shared>>
      PROVE  CacheInv'
  <2> DEFINE d == Drop(c, s)
  <2>1. /\ d \in Caches /\ Keyed(d.items)
        /\ ToSet(d.items) \subseteq ToSet(c.items)
        /\ d.size - Bytes(d.items) = c.size - Bytes(c.items)
        /\ d.size <= c.size
    BY <1>1, <1>3, DropItem
  <2>2. Becomes(cur, d, {}, disk)
    BY <1>3
  <2> HIDE DEF d
  <2> QED BY <1>3, <2>1, <2>2, ShrinkStep
<1>4. ASSUME NEW s \in Objects, cur # 0, s \in ShasOf(c.items),
             cache' = [cache EXCEPT ![cur].items =
                         Append(Without(c.items, ItemOf(c.items, s)), ItemOf(c.items, s))],
             UNCHANGED <<connected, cur, writing, fetching, disk, told, shared>>
      PROVE  CacheInv'
  <2> DEFINE r == Append(Without(c.items, ItemOf(c.items, s)), ItemOf(c.items, s))
  <2>1. r \in Seq(Items) /\ Keyed(r) /\ ToSet(r) = ToSet(c.items) /\ Bytes(r) = Bytes(c.items)
    BY <1>1, <1>4, ServeItem
  <2>2. cache' = [cache EXCEPT ![cur] = [@ EXCEPT !.items = r]]
    BY <1>4
  <2> HIDE DEF r
  <2>3. /\ cache'[cur].items = r /\ cache'[cur].size = c.size
        /\ \A h \in Gens : h # cur => cache'[h] = cache[h]
        /\ cache'[cur] \in Caches
    BY <1>1, <1>4, <2>1, <2>2 DEF Caches
  <2>4. /\ cache' \in [Gens -> [items : Seq(Items), size : Nat]]
        /\ \A h \in Gens : Keyed(cache'[h].items)
    <3>1. \A h \in Gens : cache'[h] \in Caches /\ Keyed(cache'[h].items)
      BY <1>1, <2>1, <2>3, CacheFacts DEF CacheInv, CacheBase
    <3>2. DOMAIN cache' = Gens /\ cache' = [h \in Gens |-> cache'[h]]
      BY <1>1, <2>2 DEF CacheInv, CacheBase, CacheTypeOK
    <3> QED BY <3>1, <3>2 DEF Caches
  <2>5. CacheTypeOK'
    BY <1>4, <2>4 DEF CacheInv, CacheBase, CacheTypeOK
  <2>6. SizesCover' /\ WithinMax'
    BY <1>1, <1>4, <2>1, <2>3 DEF CacheInv, CacheBase, SizesCover, WithinMax
  <2>7. ShasOf(r) = ShasOf(c.items)
    BY <2>1 DEF ShasOf
  <2>8. CacheSound'
    BY <1>1, <1>4, <2>1, <2>3, <2>7 DEF CacheInv, CacheSound, ItemsMatchFiles, OneWriter
  <2> QED BY <2>5, <2>6, <2>8 DEF CacheInv, CacheBase
<1>5. ASSUME NEW s \in Objects, Serve(s) PROVE CacheInv'
  BY <1>3, <1>4, <1>5 DEF Serve
<1>6. ASSUME NEW s \in Objects, ServeFails(s) PROVE CacheInv'
  BY <1>3, <1>6 DEF ServeFails
<1> QED BY <1>2, <1>5, <1>6

\* The files once index g has let go of the name of s.
Released(g, s) == IF disk[s].by = g THEN [disk EXCEPT ![s].by = 0] ELSE disk

(* Letting go of a name changes neither a file's contents nor their origin. *)
LEMMA ReleasedFiles ==
    ASSUME disk \in [Objects -> Files \cup {None}], NEW g \in Gens, NEW s \in Objects
    PROVE  /\ Released(g, s) \in [Objects -> Files \cup {None}]
           /\ \A t \in Objects : /\ Released(g, s)[t].whole = disk[t].whole
                                 /\ Released(g, s)[t].from = disk[t].from
<1>1. CASE disk[s].by = g
  <2>1. disk[s] \in Files
    BY <1>1, CacheAssumption DEF None
  <2>2. /\ [disk[s] EXCEPT !.by = 0] \in Files
        /\ [disk[s] EXCEPT !.by = 0].whole = disk[s].whole
        /\ [disk[s] EXCEPT !.by = 0].from = disk[s].from
    BY <2>1 DEF Files
  <2>3. Released(g, s) = [disk EXCEPT ![s] = [disk[s] EXCEPT !.by = 0]]
    BY <1>1 DEF Released
  <2> QED BY <2>2, <2>3
<1>2. CASE disk[s].by # g
  BY <1>2 DEF Released
<1> QED BY <1>1, <1>2

(* The names of the objects of the index in use, and of those it writes, keep their
   files' origins, and the former stay whole. *)
LEMMA WriteStep ==
    ASSUME CacheInv, UNCHANGED <<connected, cur, cache, fetching, told, shared>>,
           writing' \in [Gens -> SUBSET Objects], disk' \in [Objects -> Files \cup {None}],
           cur # 0 /\ ~shared =>
              /\ \A g \in Gens \ {cur} : writing'[g] = {}
              /\ \A s \in writing'[cur] :
                    s \notin ShasOf(cache[cur].items) /\ disk'[s].from = "compile"
              /\ \A s \in ShasOf(cache[cur].items) :
                    disk'[s].from = disk[s].from /\ (disk[s].whole => disk'[s].whole)
    PROVE  CacheInv'
<1>1. CacheTypeOK' /\ SizesCover' /\ WithinMax'
  BY DEF CacheInv, CacheBase, CacheTypeOK, SizesCover, WithinMax
<1>2. CacheSound'
  <2> SUFFICES ASSUME ~shared
               PROVE  ItemsMatchFiles' /\ OneWriter'
    BY DEF CacheInv, CacheSound
  <2>1. ItemsMatchFiles'
    <3> SUFFICES ASSUME cur # 0, NEW item \in ToSet(cache[cur].items)
                 PROVE  disk'[item.sha].whole /\ disk'[item.sha].from = item.from
      BY DEF ItemsMatchFiles
    <3>1. item.sha \in ShasOf(cache[cur].items)
      BY DEF ShasOf
    <3>2. disk[item.sha].whole /\ disk[item.sha].from = item.from
      BY DEF CacheInv, CacheSound, ItemsMatchFiles
    <3> QED BY <3>1, <3>2
  <2>2. OneWriter'
    BY DEF OneWriter
  <2> QED BY <2>1, <2>2
<1> QED BY <1>1, <1>2 DEF CacheInv, CacheBase

(* What is there as long as no two owners met. *)
LEMMA OwnersApart ==
    ASSUME CacheInv, cur # 0, ~shared
    PROVE  /\ \A g \in Gens \ {cur} : writing[g] = {}
           /\ \A s \in writing[cur] :
                 s \notin ShasOf(cache[cur].items) /\ disk[s].from = "compile"
           /\ \A item \in ToSet(cache[cur].items) :
                 disk[item.sha].whole /\ disk[item.sha].from = item.from
           /\ cache[cur].size = Bytes(cache[cur].items)
BY DEF CacheInv, CacheSound, OneWriter, ItemsMatchFiles

(* What types say of the directory and its writers. *)
LEMMA WritingTypes ==
    ASSUME CacheInv
    PROVE  /\ writing \in [Gens -> SUBSET Objects]
           /\ disk \in [Objects -> Files \cup {None}]
           /\ cur # 0 => cur \in Gens
           /\ 0 \notin Gens
BY CacheFacts DEF CacheInv, CacheBase, CacheTypeOK

(* A finished compile begins to write its object. *)
LEMMA CompiledStep ==
    ASSUME CacheInv, NEW s \in Objects, Compiled(s)
    PROVE  CacheInv'
<1> DEFINE file == [from |-> "compile", whole |-> FALSE, by |-> cur]
<1>1. /\ cur # 0 /\ s \notin ShasOf(cache[cur].items)
      /\ writing' = [writing EXCEPT ![cur] = @ \cup {s}]
      /\ disk' = [disk EXCEPT ![s] = file]
      /\ UNCHANGED <<connected, cur, cache, fetching, told, shared>>
  BY DEF Compiled, Unknown
<1>2. /\ writing \in [Gens -> SUBSET Objects] /\ disk \in [Objects -> Files \cup {None}]
      /\ cur \in Gens
  BY <1>1, WritingTypes
<1>3. file \in Files /\ file.from = "compile"
  BY <1>2 DEF Files, Froms
<1> HIDE DEF file
<1>4. /\ writing' \in [Gens -> SUBSET Objects] /\ disk' \in [Objects -> Files \cup {None}]
      /\ writing'[cur] = writing[cur] \cup {s} /\ disk'[s] = file
      /\ \A g \in Gens \ {cur} : writing'[g] = writing[g]
      /\ \A t \in Objects \ {s} : disk'[t] = disk[t]
  BY <1>1, <1>2, <1>3
<1>5. ASSUME ~shared
      PROVE  /\ \A g \in Gens \ {cur} : writing'[g] = {}
             /\ \A t \in writing'[cur] :
                   t \notin ShasOf(cache[cur].items) /\ disk'[t].from = "compile"
  BY <1>1, <1>2, <1>3, <1>4, <1>5, OwnersApart
<1>6. \A t \in ShasOf(cache[cur].items) : t \in Objects \ {s}
  BY <1>1, <1>2, CacheFacts DEF CacheInv, CacheBase
<1> QED BY <1>1, <1>4, <1>5, <1>6, WriteStep

(* The last write reaches the file. *)
LEMMA FlushStep ==
    ASSUME CacheInv, NEW s \in Objects, Flush(s)
    PROVE  CacheInv'
<1> DEFINE file == [disk[s] EXCEPT !.whole = TRUE]
<1>1. /\ disk[s] # None
      /\ disk' = [disk EXCEPT ![s] = file]
      /\ UNCHANGED <<connected, cur, cache, writing, fetching, told, shared>>
  BY DEF Flush
<1>2. /\ writing \in [Gens -> SUBSET Objects] /\ disk \in [Objects -> Files \cup {None}]
  BY WritingTypes
<1>3. file \in Files /\ file.from = disk[s].from /\ file.whole
  BY <1>1, <1>2 DEF Files
<1> HIDE DEF file
<1>4. /\ disk' \in [Objects -> Files \cup {None}]
      /\ \A t \in Objects : disk'[t].from = disk[t].from /\ (disk[t].whole => disk'[t].whole)
  BY <1>1, <1>2, <1>3
<1>5. cur # 0 => cur \in Gens /\ ShasOf(cache[cur].items) \subseteq Objects
  BY CacheFacts DEF CacheInv, CacheBase
<1>6. ASSUME cur # 0, ~shared
      PROVE  /\ \A g \in Gens \ {cur} : writing'[g] = {}
             /\ \A t \in writing'[cur] :
                   t \notin ShasOf(cache[cur].items) /\ disk'[t].from = "compile"
  BY <1>1, <1>2, <1>4, <1>5, <1>6, OwnersApart
<1> QED BY <1>1, <1>2, <1>4, <1>5, <1>6, WriteStep

(* A stream that fails leaves its file. *)
LEMMA WriteErrorStep ==
    ASSUME CacheInv, NEW g \in Gens, NEW s \in Objects, WriteError(g, s)
    PROVE  CacheInv'
<1>1. /\ writing' = [writing EXCEPT ![g] = @ \ {s}]
      /\ disk' = Released(g, s)
      /\ UNCHANGED <<connected, cur, cache, fetching, told, shared>>
  BY DEF WriteError, Released
<1>2. /\ writing \in [Gens -> SUBSET Objects] /\ disk \in [Objects -> Files \cup {None}]
  BY WritingTypes
<1>3. /\ disk' \in [Objects -> Files \cup {None}]
      /\ \A t \in Objects : disk'[t].from = disk[t].from /\ disk'[t].whole = disk[t].whole
  BY <1>1, <1>2, ReleasedFiles
<1>4. /\ writing' \in [Gens -> SUBSET Objects]
      /\ \A h \in Gens : writing'[h] \subseteq writing[h]
  BY <1>1, <1>2
<1>5. cur # 0 => cur \in Gens /\ ShasOf(cache[cur].items) \subseteq Objects
  BY CacheFacts DEF CacheInv, CacheBase
<1>6. ASSUME cur # 0, ~shared
      PROVE  /\ \A h \in Gens \ {cur} : writing'[h] = {}
             /\ \A t \in writing'[cur] :
                   t \notin ShasOf(cache[cur].items) /\ disk'[t].from = "compile"
  BY <1>2, <1>3, <1>4, <1>5, <1>6, OwnersApart
<1> QED BY <1>1, <1>3, <1>4, <1>5, <1>6, WriteStep

(* An index takes in an item whose object it has not: what comes in has its file, and
   nobody writes what the index has. *)
LEMMA TakeInStep ==
    ASSUME CacheInv, NEW g \in Gens, NEW item \in Items,
           NEW files \in [Objects -> Files \cup {None}],
           cur # 0, Becomes(g, Put(cache[g], item), {item.sha}, files),
           UNCHANGED <<connected, cur>>,
           fetching' \in [Objects -> 0..MaxFetches], shared' \in BOOLEAN,
           writing' \in [Gens -> SUBSET Objects],
           \A h \in Gens : writing'[h] \subseteq writing[h],
           ~shared' =>
              /\ ~shared /\ g = cur
              /\ item.sha \notin ShasOf(cache[cur].items) \cup writing'[cur]
              /\ files[item.sha].whole /\ files[item.sha].from = item.from
              /\ \A t \in Objects \ {item.sha} :
                    files[t].whole = disk[t].whole /\ files[t].from = disk[t].from
    PROVE  CacheInv'
<1> DEFINE c == cache[g]
           d == Put(c, item)
<1>1. /\ c \in Caches /\ Keyed(c.items) /\ Bytes(c.items) <= c.size
      /\ g = cur => c.size <= MaxSize
      /\ item.sha \in Objects /\ cur \in Gens
      /\ writing \in [Gens -> SUBSET Objects]
  BY CacheFacts, WritingTypes DEF CacheInv, CacheBase, SizesCover, WithinMax, Items
<1>2. /\ d \in Caches /\ Keyed(d.items)
      /\ ToSet(d.items) \subseteq ToSet(c.items) \cup {item}
      /\ Bytes(d.items) <= d.size
      /\ c.size <= MaxSize => d.size <= MaxSize
      /\ item.sha \notin ShasOf(c.items) /\ c.size = Bytes(c.items) => d.size = Bytes(d.items)
  BY <1>1, PutItem
<1>3. Becomes(g, d, {item.sha}, files)
  OBVIOUS
<1> HIDE DEF d
<1>4. CacheBase'
  <2>1. {item.sha} \in SUBSET Objects
    BY <1>1
  <2>2. /\ cache' \in [Gens -> [items : Seq(Items), size : Nat]]
        /\ \A h \in Gens : Keyed(cache'[h].items)
        /\ disk' \in [Objects -> Files \cup {None}]
        /\ told' \in SUBSET Objects
        /\ SizesCover' /\ WithinMax'
    BY <1>1, <1>2, <1>3, <2>1, BecomesBase DEF CacheInv
  <2> QED BY <2>2 DEF CacheInv, CacheBase, CacheTypeOK
<1>5. ASSUME ~shared' PROVE CacheSound'
  <2>1. /\ ~shared /\ g = cur
        /\ item.sha \notin ShasOf(c.items) \cup writing'[cur]
        /\ files[item.sha].whole /\ files[item.sha].from = item.from
        /\ \A t \in Objects \ {item.sha} :
              files[t].whole = disk[t].whole /\ files[t].from = disk[t].from
    BY <1>5
  <2>2. /\ \A h \in Gens \ {cur} : writing[h] = {}
        /\ \A t \in writing[cur] :
              t \notin ShasOf(c.items) /\ disk[t].from = "compile"
        /\ \A x \in ToSet(c.items) :
              disk[x.sha].whole /\ disk[x.sha].from = x.from
        /\ c.size = Bytes(c.items)
    BY <2>1, OwnersApart
  <2>3. \A x \in ToSet(c.items) : x.sha \in Objects \ {item.sha}
    <3>1. \A x \in ToSet(c.items) : x.sha \in ShasOf(c.items)
      BY DEF ShasOf
    <3> QED BY <1>1, <2>1, <3>1, CacheFacts DEF CacheInv, CacheBase
  <2>4. \A x \in ToSet(d.items) : files[x.sha].whole /\ files[x.sha].from = x.from
    BY <1>2, <2>1, <2>2, <2>3
  <2>5. ShasOf(d.items) \subseteq ShasOf(c.items) \cup {item.sha}
    BY <1>2 DEF ShasOf
  <2>6. /\ cache'[cur] = d
        /\ ItemsMatchFiles'
        /\ cache'[cur'].size = Bytes(cache'[cur'].items)
        /\ (connected => told = IF cur = 0 THEN {} ELSE ShasOf(cache[cur].items))'
        /\ \A t \in Objects : files[t].from = "compile" => disk'[t].from = "compile"
    <3>1. d.size = Bytes(d.items)
      BY <1>2, <2>1, <2>2
    <3>2. {item.sha} \in SUBSET Objects
      BY <1>1
    <3> QED BY <1>2, <1>3, <2>1, <2>4, <2>5, <3>1, <3>2, BecomesSound
  <2>7. OneWriter'
    <3>1. \A h \in Gens \ {cur} : writing'[h] = {}
      BY <2>2
    <3>2. ASSUME NEW t \in writing'[cur]
          PROVE  t \notin ShasOf(d.items) /\ disk'[t].from = "compile"
      <4>1. t \in writing[cur] /\ t \in Objects /\ t # item.sha
        BY <1>1, <2>1, <3>2
      <4>2. files[t].from = "compile"
        BY <2>1, <2>2, <4>1
      <4> QED BY <2>2, <2>5, <2>6, <4>1, <4>2
    <3> QED BY <2>6, <3>1, <3>2 DEF OneWriter
  <2> QED BY <2>6, <2>7 DEF CacheSound
<1> QED BY <1>4, <1>5 DEF CacheInv, CacheSound

(* A compile's write ends: its object is taken in, or the name is cleared. *)
LEMMA EndStep ==
    ASSUME CacheInv, NEW g \in Gens, NEW s \in Objects, End(g, s)
    PROVE  CacheInv'
<1> DEFINE item == [sha |-> s, from |-> "compile"]
<1>1. /\ s \in writing[g]
      /\ writing' = [writing EXCEPT ![g] = @ \ {s}]
      /\ UNCHANGED <<connected, cur, fetching, shared>>
  BY DEF End
<1>2. /\ writing \in [Gens -> SUBSET Objects] /\ disk \in [Objects -> Files \cup {None}]
      /\ cur # 0 => cur \in Gens
  BY WritingTypes
<1>3. /\ writing' \in [Gens -> SUBSET Objects]
      /\ \A h \in Gens : writing'[h] \subseteq writing[h]
      /\ s \notin writing'[g]
  BY <1>1, <1>2
<1>4. item \in Items /\ item.sha = s /\ item.from = "compile"
  BY DEF Items, Froms
<1> HIDE DEF item
<1>5. CASE LooksDone(s) /\ cur # 0
  <2>1. Becomes(g, Put(cache[g], item), {s}, Released(g, s))
    BY <1>5 DEF End, Released, item
  <2>2. /\ Released(g, s) \in [Objects -> Files \cup {None}]
        /\ \A t \in Objects : /\ Released(g, s)[t].whole = disk[t].whole
                              /\ Released(g, s)[t].from = disk[t].from
    BY <1>2, ReleasedFiles
  <2>3. ASSUME ~shared
        PROVE  /\ g = cur
               /\ s \notin ShasOf(cache[cur].items) \cup writing'[cur]
               /\ disk[s].whole /\ disk[s].from = "compile"
    <3>1. g = cur
      BY <1>1, <1>5, <2>3, OwnersApart
    <3> QED BY <1>1, <1>3, <1>5, <2>3, <3>1, OwnersApart DEF LooksDone
  <2>4. fetching' \in [Objects -> 0..MaxFetches] /\ shared' \in BOOLEAN
    BY <1>1 DEF CacheInv, CacheBase, CacheTypeOK
  <2> DEFINE files == Released(g, s)
  <2> HIDE DEF files
  <2>5. Becomes(g, Put(cache[g], item), {item.sha}, files) /\ files \in [Objects -> Files \cup {None}]
    BY <1>4, <2>1, <2>2 DEF files
  <2>6. ~shared' =>
              /\ ~shared /\ g = cur
              /\ item.sha \notin ShasOf(cache[cur].items) \cup writing'[cur]
              /\ files[item.sha].whole /\ files[item.sha].from = item.from
              /\ \A t \in Objects \ {item.sha} :
                    files[t].whole = disk[t].whole /\ files[t].from = disk[t].from
    BY <1>1, <1>4, <2>2, <2>3 DEF files
  <2> QED BY <1>1, <1>3, <1>4, <1>5, <2>4, <2>5, <2>6, TakeInStep
<1>6. CASE ~LooksDone(s)
  <2>1. disk' = [disk EXCEPT ![s] = None] /\ UNCHANGED <<cache, told>>
    BY <1>6 DEF End
  <2>2. disk' \in [Objects -> Files \cup {None}]
    BY <1>2, <2>1
  <2>3. ASSUME cur # 0, ~shared
        PROVE  /\ \A h \in Gens \ {cur} : writing'[h] = {}
               /\ \A t \in writing'[cur] :
                     t \notin ShasOf(cache[cur].items) /\ disk'[t].from = "compile"
               /\ \A t \in ShasOf(cache[cur].items) :
                     disk'[t].from = disk[t].from /\ (disk[t].whole => disk'[t].whole)
    <3>1. cur \in Gens /\ g = cur /\ s \notin ShasOf(cache[cur].items)
          /\ ShasOf(cache[cur].items) \subseteq Objects
      BY <1>1, <1>2, <2>3, OwnersApart, CacheFacts DEF CacheInv, CacheBase
    <3>2. \A t \in Objects \ {s} : disk'[t] = disk[t]
      BY <1>2, <2>1
    <3> QED BY <1>2, <1>3, <2>3, <3>1, <3>2, OwnersApart
  <2> QED BY <1>1, <1>3, <2>1, <2>2, <2>3, WriteStep
<1>7. CASE LooksDone(s) /\ cur = 0
  <2> DEFINE d == Set(cache[g], item)
  <2>1. disk' = [disk EXCEPT ![s] = None] /\ cache' = [cache EXCEPT ![g] = d] /\ told' = told
    BY <1>7 DEF End, item
  <2>2. /\ cache[g] \in Caches /\ Keyed(cache[g].items) /\ Bytes(cache[g].items) <= cache[g].size
        /\ Bytes(cache[g].items) \in Nat /\ cache[g].size \in Nat /\ SizeOf(item) \in Nat
        /\ DOMAIN cache = Gens
    BY <1>4, CacheFacts, ItemBytes DEF CacheInv, CacheBase, SizesCover
  <2>3. d \in Caches /\ Keyed(d.items) /\ d.size = cache[g].size + SizeOf(item)
    BY <1>4, <2>2, SetItem
  <2>4. Bytes(d.items) \in Nat /\ Bytes(d.items) <= Bytes(cache[g].items) + SizeOf(item)
    BY <1>4, <2>2, SetBytes
  <2> HIDE DEF d
  <2>5. Bytes(d.items) <= d.size
    BY <2>2, <2>3, <2>4
  <2>6. \A h \in Gens : cache'[h] = IF h = g THEN d ELSE cache[h]
    BY <2>1, <2>2
  <2>7. /\ cache' \in [Gens -> [items : Seq(Items), size : Nat]]
        /\ \A h \in Gens : Keyed(cache'[h].items)
    <3>1. \A h \in Gens : cache'[h] \in Caches /\ Keyed(cache'[h].items)
      BY <2>3, <2>6, CacheFacts DEF CacheInv, CacheBase
    <3>2. cache' = [h \in Gens |-> cache'[h]]
      BY <2>1, <2>2 DEF CacheInv, CacheBase, CacheTypeOK
    <3> QED BY <3>1, <3>2 DEF Caches
  <2>8. CacheTypeOK'
    BY <1>1, <1>2, <1>3, <2>1, <2>7 DEF CacheInv, CacheBase, CacheTypeOK
  <2>9. SizesCover' /\ WithinMax'
    BY <1>1, <1>7, <2>5, <2>6 DEF CacheInv, CacheBase, SizesCover, WithinMax
  <2>10. CacheSound'
    BY <1>1, <1>7, <2>1 DEF CacheInv, CacheSound, ItemsMatchFiles, OneWriter
  <2> QED BY <2>8, <2>9, <2>10 DEF CacheInv, CacheBase
<1> QED BY <1>5, <1>6, <1>7

(* A download ends: its file is renamed, and its object taken in. *)
LEMMA FetchedStep ==
    ASSUME CacheInv, NEW s \in Objects, Fetched(s)
    PROVE  CacheInv'
<1> DEFINE item == [sha |-> s, from |-> "fetch"]
           file == [from |-> "fetch", whole |-> TRUE, by |-> 0]
           files == [disk EXCEPT ![s] = file]
<1>1. /\ fetching[s] > 0 /\ fetching' = [fetching EXCEPT ![s] = @ - 1]
      /\ shared' = (shared \/ (cur # 0 /\ Meet(s)) \/ \E g \in Gens : s \in writing[g])
      /\ UNCHANGED <<connected, cur, writing>>
  BY DEF Fetched
<1>2. /\ writing \in [Gens -> SUBSET Objects] /\ disk \in [Objects -> Files \cup {None}]
      /\ cur # 0 => cur \in Gens
  BY WritingTypes
<1>3. fetching' \in [Objects -> 0..MaxFetches] /\ shared' \in BOOLEAN
  <2>1. fetching \in [Objects -> 0..MaxFetches] /\ MaxFetches \in Nat /\ shared \in BOOLEAN
    BY CacheAssumption DEF CacheInv, CacheBase, CacheTypeOK
  <2>2. fetching[s] - 1 \in 0..MaxFetches
    BY <1>1, <2>1
  <2>3. fetching' = [fetching EXCEPT ![s] = fetching[s] - 1]
    BY <1>1
  <2>4. fetching' \in [Objects -> 0..MaxFetches]
    BY <2>1, <2>2, <2>3
  <2>5. shared' \in BOOLEAN
    BY <1>1, <2>1
  <2> QED BY <2>4, <2>5
<1>4. /\ item \in Items /\ item.sha = s /\ item.from = "fetch"
      /\ file \in Files /\ file.whole /\ file.from = "fetch"
  BY DEF Items, Files, Froms
<1>5. /\ files \in [Objects -> Files \cup {None}] /\ files[s] = file
      /\ \A t \in Objects \ {s} : files[t] = disk[t]
  BY <1>2, <1>4
<1>6. CASE cur = 0 \/ s \in ShasOf(cache[cur].items)
  <2>1. disk' = files /\ UNCHANGED <<cache, told>>
    BY <1>6 DEF Fetched
  <2>2. cur # 0 => shared'
    BY <1>1, <1>6 DEF Meet
  <2> HIDE DEF files, item, file
  <2>3. CacheBase'
    BY <1>1, <1>3, <1>5, <2>1 DEF CacheInv, CacheBase, CacheTypeOK, SizesCover, WithinMax
  <2>4. CacheSound'
    BY <1>1, <2>1, <2>2 DEF CacheInv, CacheSound, ItemsMatchFiles, OneWriter
  <2> QED BY <2>3, <2>4 DEF CacheInv
<1>7. CASE cur # 0 /\ s \notin ShasOf(cache[cur].items)
  <2>1. Becomes(cur, Put(cache[cur], item), {s}, files)
    BY <1>7 DEF Fetched
  <2>2. ~shared' => ~shared /\ s \notin writing[cur]
    BY <1>1, <1>2, <1>7 DEF Meet
  <2> HIDE DEF files, item, file
  <2>3. ~shared' =>
              /\ ~shared
              /\ item.sha \notin ShasOf(cache[cur].items) \cup writing'[cur]
              /\ files[item.sha].whole /\ files[item.sha].from = item.from
              /\ \A t \in Objects \ {item.sha} :
                    files[t].whole = disk[t].whole /\ files[t].from = disk[t].from
    BY <1>1, <1>4, <1>5, <1>7, <2>2
  <2>4. Becomes(cur, Put(cache[cur], item), {item.sha}, files)
    BY <1>4, <2>1
  <2>5. /\ writing' \in [Gens -> SUBSET Objects]
        /\ \A h \in Gens : writing'[h] \subseteq writing[h]
    BY <1>1, <1>2
  <2> QED BY <1>1, <1>2, <1>3, <1>4, <1>5, <1>7, <2>3, <2>4, <2>5, TakeInStep
<1> QED BY <1>6, <1>7

(* Every step keeps the invariant. *)
LEMMA CacheStepKeeps == CacheInv /\ [CacheNext]_cacheVars => CacheInv'
BY NewIndexStep, QuietStep, LoseStep, CompiledStep, FlushStep, WriteErrorStep, EndStep, FetchedStep
DEF CacheNext

(* The builder starts in it. *)
LEMMA CacheInitInv == CacheInit => CacheInv
<1> SUFFICES ASSUME CacheInit PROVE CacheInv
  OBVIOUS
<1>1. \A g \in Gens : cache[g] = Empty
  BY DEF CacheInit
<1>2. Empty \in Caches /\ Keyed(Empty.items) /\ Bytes(Empty.items) = 0 /\ Empty.size = 0
  BY EmptyIndex DEF Empty
<1>3. cache \in [Gens -> [items : Seq(Items), size : Nat]]
  BY <1>2 DEF CacheInit, Caches
<1>4. fetching \in [Objects -> 0..MaxFetches]
  <2>1. 0 \in 0..MaxFetches
    BY CacheAssumption
  <2> QED BY <2>1 DEF CacheInit
<1>5. CacheTypeOK
  BY <1>1, <1>2, <1>3, <1>4 DEF CacheInit, CacheTypeOK
<1>6. SizesCover /\ WithinMax
  BY <1>1, <1>2 DEF CacheInit, SizesCover, WithinMax
<1>7. CacheSound
  BY DEF CacheInit, CacheSound, ItemsMatchFiles, OneWriter
<1> QED BY <1>5, <1>6, <1>7 DEF CacheInv, CacheBase

----------------------------------------------------------------------------
(* The theorems about an index *)

(* Whatever meets at a name, and however late a write ends, the index in use counts no
   fewer bytes than its items have and no more than the maximum. *)
THEOREM CacheNeverOverfull == CacheSpec => []NeverOverfull
<1>1. CacheInv => NeverOverfull
  <2> SUFFICES ASSUME CacheInv PROVE NeverOverfull
    OBVIOUS
  <2>1. cur # 0 => cur \in Gens
    BY WritingTypes
  <2> QED BY <2>1 DEF CacheInv, CacheBase, SizesCover, WithinMax, NeverOverfull
<1> QED BY <1>1, CacheInitInv, CacheStepKeeps, PTL DEF CacheSpec

(* As long as no two owners met at one name, an index tells the truth about its files, its
   size is theirs, and the scheduler knows what it has, over crashes and reconnects. *)
THEOREM CacheIsSound == CacheSpec => []SoundUnlessShared
<1>1. CacheInv => SoundUnlessShared
  BY DEF CacheInv, CacheSound, SoundUnlessShared
<1> QED BY <1>1, CacheInitInv, CacheStepKeeps, PTL DEF CacheSpec
=============================================================================
