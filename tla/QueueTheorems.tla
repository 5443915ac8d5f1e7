--------------------------- MODULE QueueTheorems ---------------------------
(***************************************************************************)
(* Facts about queues of distinct elements that the proofs about the slot  *)
(* pools and the job queue cite.                                           *)
(***************************************************************************)
EXTENDS Queues, SequenceTheorems, TLAPS

(* What taking out position i of a sequence leaves, element by element. *)
LEMMA RemoveAtElements ==
    ASSUME NEW S, NEW q \in Seq(S), NEW i \in 1..Len(q)
    PROVE  /\ RemoveAt(q, i) \in Seq(S)
           /\ Len(RemoveAt(q, i)) = Len(q) - 1
           /\ \A j \in 1..(Len(q) - 1) :
                 RemoveAt(q, i)[j] = IF j < i THEN q[j] ELSE q[j + 1]
<1> DEFINE a == SubSeq(q, 1, i - 1)
           b == SubSeq(q, i + 1, Len(q))
<1>1. Len(q) \in Nat /\ \A j \in 1..Len(q) : q[j] \in S
  BY LenProperties, ElementOfSeq
<1>2. /\ a \in Seq(S)
      /\ Len(a) = i - 1
      /\ \A j \in 1..(i - 1) : a[j] = q[j]
  <2>1. \A j \in 1..(i - 1) : q[j] \in S
    BY <1>1
  <2>2. i - 1 \in Int /\ 1 \in Int
    BY <1>1
  <2>. QED  BY <1>1, <2>1, <2>2, SubSeqProperties
<1>3. /\ b \in Seq(S)
      /\ Len(b) = Len(q) - i
      /\ \A j \in 1..(Len(q) - i) : b[j] = q[i + j]
  <2>1. \A j \in (i + 1)..Len(q) : q[j] \in S
    BY <1>1
  <2>2. i + 1 \in Int /\ Len(q) \in Int
    BY <1>1
  <2>. QED  BY <1>1, <2>1, <2>2, SubSeqProperties
<1>4. /\ a \o b \in Seq(S)
      /\ Len(a \o b) = Len(a) + Len(b)
      /\ \A j \in 1..(Len(a) + Len(b)) :
            (a \o b)[j] = IF j <= Len(a) THEN a[j] ELSE b[j - Len(a)]
  BY <1>2, <1>3, ConcatProperties
<1>. HIDE DEF a, b
<1>5. \A j \in 1..(Len(q) - 1) : (a \o b)[j] = IF j < i THEN q[j] ELSE q[j + 1]
  <2>1. SUFFICES ASSUME NEW j \in 1..(Len(q) - 1)
                 PROVE  (a \o b)[j] = IF j < i THEN q[j] ELSE q[j + 1]
    OBVIOUS
  <2>2. i \in Int /\ j \in Int /\ j \in 1..(Len(a) + Len(b))
    BY <1>1, <1>2, <1>3
  <2>3. CASE j < i
    <3>1. j <= Len(a) /\ j \in 1..(i - 1)
      BY <1>1, <1>2, <2>2, <2>3
    <3>. QED  BY <1>2, <1>4, <2>2, <2>3, <3>1
  <2>4. CASE ~(j < i)
    <3>1. ~(j <= Len(a)) /\ j - Len(a) = j - i + 1 /\ j - i + 1 \in 1..(Len(q) - i)
      BY <1>1, <1>2, <2>2, <2>4
    <3>2. (a \o b)[j] = b[j - i + 1]
      BY <1>4, <2>2, <3>1
    <3>3. b[j - i + 1] = q[i + (j - i + 1)]
      BY <1>3, <3>1
    <3>4. i + (j - i + 1) = j + 1
      BY <2>2
    <3>. QED  BY <2>4, <3>2, <3>3, <3>4
  <2>. QED  BY <2>3, <2>4
<1>6. RemoveAt(q, i) = a \o b
  BY DEF RemoveAt, a, b
<1>. QED  BY <1>1, <1>2, <1>3, <1>4, <1>5, <1>6

(* Without(q, p) is the queue without p: same elements but p, still distinct. *)
LEMMA WithoutElements ==
    ASSUME NEW S, NEW q \in Seq(S), Distinct(q), NEW p
    PROVE  /\ Without(q, p) \in Seq(S)
           /\ ToSet(Without(q, p)) = ToSet(q) \ {p}
           /\ Distinct(Without(q, p))
<1>1. CASE p \notin ToSet(q)
  BY <1>1 DEF Without
<1>2. CASE p \in ToSet(q)
  <2> DEFINE i == Position(q, p)
             r == RemoveAt(q, i)
  <2>1. Len(q) \in Nat /\ DOMAIN q = 1..Len(q)
    BY LenProperties
  <2>2. i \in 1..Len(q) /\ q[i] = p
    BY <1>2, <2>1 DEF ToSet, Position
  <2>. HIDE DEF i
  <2>3. /\ r \in Seq(S)
        /\ Len(r) = Len(q) - 1
        /\ \A j \in 1..(Len(q) - 1) : r[j] = IF j < i THEN q[j] ELSE q[j + 1]
    BY <2>2, RemoveAtElements
  <2>. HIDE DEF r
  <2>4. DOMAIN r = 1..(Len(q) - 1)
    BY <2>3, LenProperties
  <2>5. ToSet(r) = ToSet(q) \ {p}
    <3>1. ASSUME NEW x \in ToSet(r) PROVE x \in ToSet(q) \ {p}
      <4>1. PICK j \in 1..(Len(q) - 1) : x = r[j]
        BY <2>4, <3>1 DEF ToSet
      <4>2. CASE j < i
        <5>1. x = q[j] /\ j \in 1..Len(q) /\ j # i
          BY <2>1, <2>2, <2>3, <4>1, <4>2
        <5>. QED  BY <2>1, <2>2, <5>1 DEF ToSet, Distinct
      <4>3. CASE ~(j < i)
        <5>1. x = q[j + 1] /\ j + 1 \in 1..Len(q) /\ j + 1 # i
          BY <2>1, <2>2, <2>3, <4>1, <4>3
        <5>. QED  BY <2>1, <2>2, <5>1 DEF ToSet, Distinct
      <4>. QED  BY <4>2, <4>3
    <3>2. ASSUME NEW x \in ToSet(q) \ {p} PROVE x \in ToSet(r)
      <4>1. PICK j \in 1..Len(q) : x = q[j]
        BY <2>1, <3>2 DEF ToSet
      <4>2. j # i
        BY <2>2, <3>2, <4>1
      <4>3. CASE j < i
        <5>1. j \in 1..(Len(q) - 1) /\ x = r[j]
          BY <2>1, <2>2, <2>3, <4>1, <4>3
        <5>. QED  BY <2>4, <5>1 DEF ToSet
      <4>4. CASE j > i
        <5>1. j - 1 \in 1..(Len(q) - 1) /\ x = r[j - 1]
          BY <2>1, <2>2, <2>3, <4>1, <4>4
        <5>. QED  BY <2>4, <5>1 DEF ToSet
      <4>. QED  BY <2>1, <2>2, <4>2, <4>3, <4>4
    <3>. QED  BY <3>1, <3>2
  <2>6. Distinct(r)
    <3>1. SUFFICES ASSUME NEW j \in 1..Len(r), NEW k \in 1..Len(r), r[j] = r[k]
                   PROVE  j = k
      BY DEF Distinct
    <3> DEFINE f(m) == IF m < i THEN m ELSE m + 1
    <3>2. /\ r[j] = q[f(j)] /\ f(j) \in 1..Len(q)
          /\ r[k] = q[f(k)] /\ f(k) \in 1..Len(q)
      BY <2>1, <2>2, <2>3
    <3>3. f(j) = f(k)
      <4>. HIDE DEF f
      <4>. QED  BY <3>1, <3>2 DEF Distinct
    <3>. QED  BY <2>1, <2>2, <2>3, <3>3
  <2>. QED  BY <1>2, <2>3, <2>5, <2>6 DEF Without, r, i
<1>. QED  BY <1>1, <1>2

(* Serving the head of a queue takes exactly the head out of it. *)
LEMMA TailElements ==
    ASSUME NEW S, NEW q \in Seq(S), Distinct(q), q # <<>>
    PROVE  /\ Head(q) \in ToSet(q) /\ Head(q) \in S
           /\ Tail(q) \in Seq(S)
           /\ ToSet(Tail(q)) = ToSet(q) \ {Head(q)}
           /\ Distinct(Tail(q))
<1>1. Len(q) \in Nat /\ Len(q) >= 1 /\ DOMAIN q = 1..Len(q) /\ Head(q) = q[1]
  BY LenProperties, EmptySeq
<1>2. /\ Head(q) \in S
      /\ Tail(q) \in Seq(S)
      /\ Len(Tail(q)) = Len(q) - 1
      /\ \A i \in 1..(Len(q) - 1) : Tail(q)[i] = q[i + 1]
  BY <1>1, HeadTailProperties
<1>3. DOMAIN Tail(q) = 1..(Len(q) - 1)
  BY <1>2, LenProperties
<1>4. Head(q) \in ToSet(q)
  BY <1>1 DEF ToSet
<1>5. ToSet(Tail(q)) = ToSet(q) \ {Head(q)}
  <2>1. ASSUME NEW x \in ToSet(Tail(q)) PROVE x \in ToSet(q) \ {Head(q)}
    <3>1. PICK i \in 1..(Len(q) - 1) : x = q[i + 1]
      BY <1>2, <1>3 DEF ToSet
    <3>2. i + 1 \in 1..Len(q) /\ i + 1 # 1 /\ 1 \in 1..Len(q)
      BY <1>1
    <3>. QED  BY <1>1, <3>1, <3>2 DEF ToSet, Distinct
  <2>2. ASSUME NEW x \in ToSet(q) \ {Head(q)} PROVE x \in ToSet(Tail(q))
    <3>1. PICK i \in 1..Len(q) : x = q[i]
      BY <1>1 DEF ToSet
    <3>2. i - 1 \in 1..(Len(q) - 1) /\ x = Tail(q)[i - 1]
      BY <1>1, <1>2, <3>1
    <3>. QED  BY <1>3, <3>2 DEF ToSet
  <2>. QED  BY <2>1, <2>2
<1>6. Distinct(Tail(q))
  <2>1. SUFFICES ASSUME NEW i \in 1..(Len(q) - 1), NEW j \in 1..(Len(q) - 1),
                        q[i + 1] = q[j + 1]
                 PROVE  i = j
    BY <1>2 DEF Distinct
  <2>2. i + 1 \in 1..Len(q) /\ j + 1 \in 1..Len(q)
    BY <1>1
  <2>3. i + 1 = j + 1
    BY <2>1, <2>2 DEF Distinct
  <2>. QED  BY <1>1, <2>3
<1>. QED  BY <1>2, <1>4, <1>5, <1>6

(* A newcomer joins at the end and is the only new element. *)
LEMMA AppendElements ==
    ASSUME NEW S, NEW q \in Seq(S), Distinct(q), NEW p \in S, p \notin ToSet(q)
    PROVE  /\ Append(q, p) \in Seq(S)
           /\ Append(q, p) # <<>>
           /\ ToSet(Append(q, p)) = ToSet(q) \cup {p}
           /\ Distinct(Append(q, p))
<1>1. Len(q) \in Nat /\ DOMAIN q = 1..Len(q)
  BY LenProperties
<1>2. /\ Append(q, p) \in Seq(S)
      /\ Append(q, p) # <<>>
      /\ Len(Append(q, p)) = Len(q) + 1
      /\ \A i \in 1..Len(q) : Append(q, p)[i] = q[i]
      /\ Append(q, p)[Len(q) + 1] = p
  BY AppendProperties
<1>3. DOMAIN Append(q, p) = 1..(Len(q) + 1)
  BY <1>2, LenProperties
<1>4. ToSet(Append(q, p)) = ToSet(q) \cup {p}
  <2>1. ToSet(Append(q, p)) \subseteq ToSet(q) \cup {p}
    BY <1>1, <1>2, <1>3 DEF ToSet
  <2>2. ToSet(q) \cup {p} \subseteq ToSet(Append(q, p))
    BY <1>1, <1>2, <1>3 DEF ToSet
  <2>. QED  BY <2>1, <2>2
<1>5. \A i \in 1..Len(q) : q[i] # p
  BY <1>1 DEF ToSet
<1>6. Distinct(Append(q, p))
  BY <1>1, <1>2, <1>5 DEF Distinct
<1>. QED  BY <1>2, <1>4, <1>6

(* The empty queue holds nothing. *)
LEMMA EmptyQueue ==
    ASSUME NEW S
    PROVE  <<>> \in Seq(S) /\ ToSet(<<>>) = {} /\ Distinct(<<>>)
BY EmptySeq DEF ToSet, Distinct

(* What inserting e at position i leaves, element by element. *)
LEMMA InsertAtElements ==
    ASSUME NEW S, NEW q \in Seq(S), NEW i \in 1..(Len(q) + 1), NEW e \in S
    PROVE  /\ InsertAt(q, i, e) \in Seq(S)
           /\ Len(InsertAt(q, i, e)) = Len(q) + 1
           /\ \A j \in 1..(Len(q) + 1) :
                 InsertAt(q, i, e)[j] = IF j < i THEN q[j] ELSE IF j = i THEN e ELSE q[j - 1]
<1> DEFINE a == SubSeq(q, 1, i - 1)
           b == SubSeq(q, i, Len(q))
           c == a \o <<e>>
<1>1. PICK n \in Nat : n = Len(q)
  BY LenProperties
<1>2. \A j \in 1..n : q[j] \in S
  BY <1>1, ElementOfSeq
<1>3. /\ a \in Seq(S)
      /\ Len(a) = i - 1
      /\ \A j \in 1..(i - 1) : a[j] = q[j]
  <2>1. \A j \in 1..(i - 1) : q[j] \in S
    BY <1>1, <1>2
  <2>2. i - 1 \in Int /\ 1 \in Int
    BY <1>1
  <2> QED BY <1>1, <2>1, <2>2, SubSeqProperties
<1>4. /\ b \in Seq(S)
      /\ Len(b) = n - i + 1
      /\ \A j \in 1..(n - i + 1) : b[j] = q[i + j - 1]
  <2>1. \A j \in i..n : q[j] \in S
    BY <1>1, <1>2
  <2>2. i \in Int /\ n \in Int
    BY <1>1
  <2> QED BY <1>1, <2>1, <2>2, SubSeqProperties
<1>5. <<e>> \in Seq(S) /\ Len(<<e>>) = 1 /\ <<e>>[1] = e
  OBVIOUS
<1> HIDE DEF a, b
<1>6. /\ c \in Seq(S) /\ Len(c) = i
      /\ \A j \in 1..(i - 1) : c[j] = q[j]
      /\ c[i] = e
  <2>1. /\ c \in Seq(S) /\ Len(c) = Len(a) + Len(<<e>>)
        /\ \A j \in 1..(Len(a) + Len(<<e>>)) : c[j] = IF j <= Len(a) THEN a[j] ELSE <<e>>[j - Len(a)]
    BY <1>3, <1>5, ConcatProperties
  <2>2. Len(a) + Len(<<e>>) = i
    BY <1>1, <1>3, <1>5
  <2>3. \A j \in 1..i : c[j] = IF j <= i - 1 THEN a[j] ELSE <<e>>[j - (i - 1)]
    BY <1>3, <2>1, <2>2
  <2>4. ASSUME NEW j \in 1..(i - 1) PROVE c[j] = q[j]
    BY <1>1, <1>3, <2>3
  <2>5. c[i] = e
    <3>1. i \in 1..i /\ ~(i <= i - 1) /\ i - (i - 1) = 1
      BY <1>1
    <3> QED BY <1>5, <2>3, <3>1
  <2> QED BY <2>1, <2>2, <2>4, <2>5
<1> HIDE DEF c
<1>7. /\ c \o b \in Seq(S) /\ Len(c \o b) = n + 1
      /\ \A j \in 1..(n + 1) : (c \o b)[j] = IF j <= i THEN c[j] ELSE b[j - i]
  <2>1. /\ c \o b \in Seq(S) /\ Len(c \o b) = Len(c) + Len(b)
        /\ \A j \in 1..(Len(c) + Len(b)) : (c \o b)[j] = IF j <= Len(c) THEN c[j] ELSE b[j - Len(c)]
    BY <1>4, <1>6, ConcatProperties
  <2>2. Len(c) + Len(b) = n + 1
    BY <1>1, <1>4, <1>6
  <2> QED BY <1>6, <2>1, <2>2
<1>8. ASSUME NEW j \in 1..(n + 1)
      PROVE  (c \o b)[j] = IF j < i THEN q[j] ELSE IF j = i THEN e ELSE q[j - 1]
  <2>1. CASE j < i
    BY <1>1, <1>6, <1>7, <2>1
  <2>2. CASE j = i
    BY <1>1, <1>6, <1>7, <2>2
  <2>3. CASE j > i
    <3>1. j - i \in 1..(n - i + 1) /\ i + (j - i) - 1 = j - 1
      BY <1>1, <2>3
    <3>2. (c \o b)[j] = b[j - i]
      BY <1>1, <1>7, <2>3
    <3>3. b[j - i] = q[i + (j - i) - 1]
      BY <1>4, <3>1
    <3> QED BY <1>1, <2>3, <3>1, <3>2, <3>3
  <2>4. j < i \/ j = i \/ j > i
    BY <1>1
  <2> QED BY <2>1, <2>2, <2>3, <2>4
<1>9. InsertAt(q, i, e) = c \o b
  BY DEF InsertAt, a, b, c
<1> QED BY <1>1, <1>7, <1>8, <1>9

(* A newcomer joins somewhere and is the only new element. *)
LEMMA InsertElements ==
    ASSUME NEW S, NEW q \in Seq(S), Distinct(q), NEW e \in S, e \notin ToSet(q),
           NEW i \in 1..(Len(q) + 1)
    PROVE  /\ ToSet(InsertAt(q, i, e)) = ToSet(q) \cup {e}
           /\ Distinct(InsertAt(q, i, e))
<1>1. PICK n \in Nat : n = Len(q)
  BY LenProperties
<1>2. PICK r \in Seq(S) : r = InsertAt(q, i, e)
  BY InsertAtElements
<1>3. /\ Len(r) = n + 1
      /\ \A j \in 1..(n + 1) : r[j] = IF j < i THEN q[j] ELSE IF j = i THEN e ELSE q[j - 1]
  <2>1. /\ Len(InsertAt(q, i, e)) = Len(q) + 1
        /\ \A j \in 1..(Len(q) + 1) :
              InsertAt(q, i, e)[j] = IF j < i THEN q[j] ELSE IF j = i THEN e ELSE q[j - 1]
    BY InsertAtElements
  <2> QED BY <1>1, <1>2, <2>1
<1>4. DOMAIN q = 1..n /\ DOMAIN r = 1..(n + 1)
  BY <1>1, <1>2, <1>3, LenProperties
<1>5. \A j \in 1..n : q[j] \in ToSet(q) /\ q[j] # e
  BY <1>4 DEF ToSet
<1>6. ASSUME NEW x \in ToSet(r) PROVE x \in ToSet(q) \cup {e}
  <2>1. PICK j \in 1..(n + 1) : x = r[j]
    BY <1>4, <1>6 DEF ToSet
  <2> QED BY <1>1, <1>3, <1>5, <2>1
<1>7. ASSUME NEW x \in ToSet(q) \cup {e} PROVE x \in ToSet(r)
  <2>1. CASE x = e
    BY <1>1, <1>3, <1>4, <2>1 DEF ToSet
  <2>2. CASE x \in ToSet(q)
    <3>1. PICK j \in 1..n : x = q[j]
      BY <1>4, <2>2 DEF ToSet
    <3>2. \/ j < i /\ j \in 1..(n + 1) /\ r[j] = x
          \/ j + 1 \in 1..(n + 1) /\ r[j + 1] = x
      BY <1>1, <1>3, <3>1
    <3> QED BY <1>4, <3>2 DEF ToSet
  <2> QED BY <1>7, <2>1, <2>2
<1>8. Distinct(r)
  <2> SUFFICES ASSUME NEW j \in 1..(n + 1), NEW k \in 1..(n + 1), r[j] = r[k]
               PROVE  j = k
    BY <1>3 DEF Distinct
  <2>1. \A x, y \in 1..n : q[x] = q[y] => x = y
    BY <1>1 DEF Distinct
  <2>2. j = i <=> k = i
    BY <1>1, <1>3, <1>5
  <2>3. ASSUME j # i, k # i PROVE j = k
    <3>1. PICK x \in 1..n : x = IF j < i THEN j ELSE j - 1
      BY <1>1, <2>3
    <3>2. PICK y \in 1..n : y = IF k < i THEN k ELSE k - 1
      BY <1>1, <2>3
    <3>3. r[j] = q[x] /\ r[k] = q[y]
      BY <1>3, <2>3, <3>1, <3>2
    <3>4. x = y
      BY <2>1, <3>3
    <3> QED BY <1>1, <2>3, <3>1, <3>2, <3>4
  <2> QED BY <2>2, <2>3
<1> QED BY <1>2, <1>6, <1>7, <1>8
=============================================================================
