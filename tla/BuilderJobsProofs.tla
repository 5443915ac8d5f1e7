-------------------------- MODULE BuilderJobsProofs --------------------------
(***************************************************************************)
(* Proofs about BuilderJobs, for any finite set of jobs, any slots and any *)
(* priorities: the queue is in order and no slot idles, reports are        *)
(* paired, nobody is left behind, and the VM's books agree with its child. *)
(***************************************************************************)
EXTENDS BuilderJobs, QueueTheorems, FiniteSetTheorems

----------------------------------------------------------------------------
(* The invariant *)

\* What the scheduler has heard of a job, by its mode and whether it is in the queue.
Heard(mode, waits) ==
    CASE mode = "cached" -> {<<>>, <<"cacheHit">>}
      [] mode = "compiling" ->
           IF waits THEN {<<"jobStarted">>}
           ELSE {<<"jobStarted", "jobFinished">>, <<"jobStarted", "jobAborted">>}
      [] OTHER -> {<<>>}

JobStates == [conn : {"none", "handshaken", "open", "closing", "closed"},
              wait : BOOLEAN, uploaded : BOOLEAN,
              mode : {"none", "refused", "backlogged", "cache", "broken", "cached", "compiling"},
              done : BOOLEAN, aborted : BOOLEAN, answered : BOOLEAN, reports : Outcomes]

\* One job: r is its state, waits whether it is in the queue, known whether the VM knows it.
JobRight(r, waits, known) ==
    /\ r \in JobStates
    /\ r.reports \in Heard(r.mode, waits)
    /\ r.mode = "none" <=> r.conn \in {"none", "handshaken"}
    /\ r.mode = "none" => ~r.uploaded /\ ~r.done /\ ~r.aborted
    /\ waits => r.mode \in {"backlogged", "cache", "broken", "compiling"} /\ ~r.aborted
    /\ r.mode \in {"backlogged", "cache"} => waits \/ r.aborted
    /\ r.aborted => r.conn = "closed"
    /\ known => r.mode = "compiling" /\ (waits \/ r.aborted)
    /\ r.mode = "compiling" /\ ~r.uploaded => known
    /\ r.conn = "open" =>
          /\ waits \/ r.answered
          /\ ~r.answered => ~r.done
          /\ r.mode = "compiling" => ~r.wait

JobsRight(q, js, known) ==
    /\ js \in [Jobs -> JobStates]
    /\ \A j \in Jobs : JobRight(js[j], j \in ToSet(q), j \in known)

\* No cancel is ever sent: done is set before cancel() looks at it.
PipeRight(pipe) ==
    /\ pipe \in Seq([type : {"compile", "destroy"}, id : Jobs \cup {"-"}])
    /\ \A i \in 1..Len(pipe) : pipe[i].type = "compile" => pipe[i].id \in Jobs
    /\ \A i, k \in 1..Len(pipe) :
          pipe[i].type = "compile" /\ pipe[k].type = "compile" /\ pipe[i].id = pipe[k].id => i = k

Asked(pipe) == {j \in Jobs : \E i \in 1..Len(pipe) : pipe[i].type = "compile" /\ pipe[i].id = j}
Told(rs) == {j \in Jobs : \E ok \in BOOLEAN : <<j, ok>> \in rs}

\* A compile is asked for, runs, or has its result on the way: one of these at most, of a
\* job that the VM knows and whose data is there.
ChildRight(js, known, pipe, running, rs) ==
    /\ PipeRight(pipe)
    /\ known \subseteq Jobs
    /\ running \subseteq Jobs
    /\ rs \subseteq Jobs \X BOOLEAN
    /\ Asked(pipe) \cup running \cup Told(rs) \subseteq {j \in known : js[j].uploaded}
    /\ Asked(pipe) \cap running = {}
    /\ Asked(pipe) \cap Told(rs) = {}
    /\ running \cap Told(rs) = {}
    /\ \A j \in Jobs : ~(<<j, TRUE>> \in rs /\ <<j, FALSE>> \in rs)

\* The builder and its child, with the queue, jobs, VM.compiles and pipe given.
Right(q, js, known, pipe, running, rs) ==
    /\ q \in Seq(Jobs)
    /\ Distinct(q)
    /\ \A i, k \in 1..Len(q) : i < k => Priority[q[i]] >= Priority[q[k]]
    /\ JobsRight(q, js, known)
    /\ ChildRight(js, known, pipe, running, rs)

Working(q, js) == {j \in ToSet(q) : js[j].mode # "backlogged"}
SlotsBusy(q, js) == (\E j \in ToSet(q) : js[j].mode = "backlogged") => Cardinality(Working(q, js)) >= Slots

Inv ==
    /\ Right(queue, job, compiles, toChild, compilers, results)
    /\ SlotsBusy(queue, job)
    /\ env \in BOOLEAN
    /\ child \in {"up", "destroying", "exited"}

----------------------------------------------------------------------------
(* Counting *)

(* A set of positions with every smaller one is the first so many. *)
LEMMA FirstPositions ==
    ASSUME NEW n \in Nat, NEW K \in SUBSET (1..n),
           \A i \in K : \A k \in 1..n : k <= i => k \in K
    PROVE  Cardinality(K) \in 0..n /\ K = 1..Cardinality(K)
<1>1. IsFiniteSet(1..n) /\ Cardinality(1..n) = n
  <2>1. 1 \in Int /\ n \in Int /\ (IF 1 > n THEN 0 ELSE n - 1 + 1) = n
    OBVIOUS
  <2> QED BY <2>1, FS_Interval
<1>2. IsFiniteSet(K) /\ Cardinality(K) \in Nat /\ Cardinality(K) <= n
  BY <1>1, FS_Subset, FS_CardinalityType
<1>3. PICK m \in 0..n : m = Cardinality(K)
  BY <1>2
<1>4. CASE m = 0
  <2>1. K = {}
    BY <1>2, <1>3, <1>4, FS_EmptySet
  <2> QED BY <1>3, <1>4, <2>1
<1>5. CASE m >= 1
  <2>1. m \in K
    <3>1. SUFFICES ASSUME m \notin K PROVE FALSE
      OBVIOUS
    <3>2. \A i \in K : i < m
      BY <1>3, <1>5, <3>1
    <3>3. K \in SUBSET (1..(m - 1))
      <4>1. \A i \in K : i \in 1..n /\ i < m /\ m \in Int
        BY <1>3, <3>2
      <4> QED BY <4>1
    <3>4. IsFiniteSet(1..(m - 1)) /\ Cardinality(1..(m - 1)) = m - 1
      <4>1. 1 \in Int /\ m - 1 \in Int /\ (IF 1 > m - 1 THEN 0 ELSE (m - 1) - 1 + 1) = m - 1
        BY <1>5
      <4> QED BY <4>1, FS_Interval
    <3>5. Cardinality(K) <= Cardinality(1..(m - 1))
      BY <3>3, <3>4, FS_Subset
    <3> QED BY <1>3, <3>4, <3>5
  <2>2. 1..m \in SUBSET K
    BY <1>3, <2>1
  <2>3. Cardinality(1..m) = m
    <3>1. 1 \in Int /\ m \in Int /\ (IF 1 > m THEN 0 ELSE m - 1 + 1) = m
      BY <1>5
    <3> QED BY <3>1, FS_Interval
  <2>4. 1..m = K
    BY <1>2, <1>3, <2>2, <2>3, FS_Subset
  <2> QED BY <1>3, <2>4
<1> QED BY <1>3, <1>4, <1>5

(* A set of positions has a first one. *)
LEMMA FirstOne ==
    ASSUME NEW n \in Nat, NEW K \in SUBSET (1..n), K # {}
    PROVE  \E i \in K : \A k \in K : i <= k
<1>1. PICK D \in SUBSET (1..n) : D = {x \in 1..n : \A k \in K : x <= k}
  OBVIOUS
<1>2. \A i \in D : \A k \in 1..n : k <= i => k \in D
  BY <1>1
<1>3. PICK m \in 0..n : D = 1..m
  BY <1>2, FirstPositions
<1>4. 1 \in D
  <2>1. PICK k \in K : TRUE
    OBVIOUS
  <2>2. 1 \in 1..n
    BY <2>1
  <2> QED BY <1>1, <2>2
<1>5. m \in D /\ \A k \in K : m <= k
  BY <1>1, <1>3, <1>4
<1>6. m \in K
  <2>1. CASE m = n
    <3>1. PICK k \in K : k >= m
      BY <1>5
    <3>2. k = m
      BY <2>1, <3>1
    <3> QED BY <3>2
  <2>2. CASE m < n
    <3>1. m + 1 \in 1..n /\ m + 1 \notin D
      BY <1>3, <2>2
    <3>2. PICK k \in K : ~(m + 1 <= k)
      BY <1>1, <3>1
    <3>3. k = m
      BY <1>5, <3>2
    <3> QED BY <3>2, <3>3
  <2> QED BY <2>1, <2>2
<1> QED BY <1>5, <1>6

(* A queue without duplicates has as many elements as it is long. *)
LEMMA QueueLength ==
    ASSUME NEW S, NEW q \in Seq(S), Distinct(q)
    PROVE  Len(q) \in Nat /\ IsFiniteSet(ToSet(q)) /\ Cardinality(ToSet(q)) = Len(q)
<1>1. PICK n \in Nat : n = Len(q)
  BY LenProperties
<1>2. IsFiniteSet(1..n) /\ Cardinality(1..n) = n
  <2>1. 1 \in Int /\ n \in Int /\ (IF 1 > n THEN 0 ELSE n - 1 + 1) = n
    OBVIOUS
  <2> QED BY <2>1, FS_Interval
<1>3. PICK f : f = [i \in 1..n |-> q[i]]
  OBVIOUS
<1>4. DOMAIN q = 1..n
  BY <1>1, LenProperties
<1>5. f \in Surjection(1..n, ToSet(q))
  BY <1>3, <1>4 DEF Surjection, ToSet
<1>6. f \in Injection(1..n, ToSet(q))
  <2>1. f \in [1..n -> ToSet(q)]
    BY <1>5 DEF Surjection
  <2>2. \A i, k \in 1..n : f[i] = f[k] => i = k
    BY <1>1, <1>3 DEF Distinct
  <2> QED BY <2>1, <2>2 DEF Injection, IsInjective
<1> QED BY <1>1, <1>2, <1>5, <1>6, FS_Surjection

----------------------------------------------------------------------------
(* One job changes, or the pipe does *)

\* Only job n enters or leaves the queue or VM.compiles.
OthersStay(n, q, known, q2, known2) ==
    \A k \in Jobs \ {n} : (k \in ToSet(q2) <=> k \in ToSet(q)) /\ (k \in known2 <=> k \in known)

RightIn(n, r, q, known) == JobRight(r, n \in ToSet(q), n \in known)

LEMMA OneJob ==
    ASSUME NEW q, NEW js, NEW known, JobsRight(q, js, known), NEW n \in Jobs,
           NEW q2, NEW known2, OthersStay(n, q, known, q2, known2),
           NEW r, RightIn(n, r, q2, known2)
    PROVE  /\ JobsRight(q2, [js EXCEPT ![n] = r], known2)
           /\ [js EXCEPT ![n] = r][n] = r
           /\ \A k \in Jobs \ {n} : [js EXCEPT ![n] = r][k] = js[k]
<1>1. js \in [Jobs -> JobStates] /\ r \in JobStates
  BY DEF JobsRight, RightIn, JobRight
<1>2. PICK js2 : js2 = [js EXCEPT ![n] = r]
  OBVIOUS
<1>3. /\ js2 \in [Jobs -> JobStates]
      /\ js2[n] = r /\ \A k \in Jobs \ {n} : js2[k] = js[k]
  BY <1>1, <1>2
<1>4. ASSUME NEW k \in Jobs PROVE JobRight(js2[k], k \in ToSet(q2), k \in known2)
  <2>1. CASE k = n
    BY <1>3, <2>1 DEF RightIn
  <2>2. CASE k # n
    <3>1. JobRight(js[k], k \in ToSet(q), k \in known)
      BY DEF JobsRight
    <3>2. (k \in ToSet(q2)) = (k \in ToSet(q)) /\ (k \in known2) = (k \in known)
      BY <2>2 DEF OthersStay
    <3>3. js2[k] = js[k]
      BY <1>3, <2>2
    <3> QED BY <3>1, <3>2, <3>3
  <2> QED BY <2>1, <2>2
<1> QED BY <1>2, <1>3, <1>4 DEF JobsRight

(* Data that is there stays, and the VM may know more. *)
LEMMA ChildFrame ==
    ASSUME NEW js, NEW known, NEW pipe, NEW running, NEW rs, ChildRight(js, known, pipe, running, rs),
           NEW js2, NEW known2 \in SUBSET Jobs, known \subseteq known2,
           \A k \in Jobs : js[k].uploaded => js2[k].uploaded
    PROVE  ChildRight(js2, known2, pipe, running, rs)
BY DEF ChildRight

Idle(j, pipe, running, rs) == j \notin Asked(pipe) \cup running \cup Told(rs)

LEMMA ForgetJob ==
    ASSUME NEW js, NEW known, NEW pipe, NEW running, NEW rs, ChildRight(js, known, pipe, running, rs),
           NEW j, Idle(j, pipe, running, rs)
    PROVE  ChildRight(js, known \ {j}, pipe, running, rs)
BY DEF ChildRight, Idle

Messages == [type : {"compile", "destroy"}, id : Jobs \cup {"-"}]

LEMMA SendMessage ==
    ASSUME NEW pipe, PipeRight(pipe), NEW m \in Messages,
           m.type = "compile" => m.id \in Jobs \ Asked(pipe)
    PROVE  /\ PipeRight(Append(pipe, m))
           /\ Asked(Append(pipe, m)) = IF m.type = "compile" THEN Asked(pipe) \cup {m.id} ELSE Asked(pipe)
<1>1. pipe \in Seq(Messages)
  BY DEF PipeRight, Messages
<1>2. PICK n \in Nat : n = Len(pipe)
  BY <1>1, LenProperties
<1>3. PICK p2 : p2 = Append(pipe, m)
  OBVIOUS
<1>4. /\ p2 \in Seq(Messages) /\ Len(p2) = n + 1
      /\ \A i \in 1..n : p2[i] = pipe[i]
      /\ p2[n + 1] = m
  <2>1. /\ Append(pipe, m) \in Seq(Messages) /\ Len(Append(pipe, m)) = Len(pipe) + 1
        /\ \A i \in 1..Len(pipe) : Append(pipe, m)[i] = pipe[i]
        /\ Append(pipe, m)[Len(pipe) + 1] = m
    BY <1>1, AppendProperties
  <2> QED BY <1>2, <1>3, <2>1
<1>5. \A i \in 1..(n + 1) : i \in 1..n \/ i = n + 1
  OBVIOUS
<1>6. Asked(pipe) = {j \in Jobs : \E i \in 1..n : pipe[i].type = "compile" /\ pipe[i].id = j}
  BY <1>2 DEF Asked
<1>7. Asked(p2) = {j \in Jobs : \E i \in 1..(n + 1) : p2[i].type = "compile" /\ p2[i].id = j}
  BY <1>4 DEF Asked
<1>8. Asked(p2) = IF m.type = "compile" THEN Asked(pipe) \cup {m.id} ELSE Asked(pipe)
  <2>1. ASSUME NEW j \in Jobs, NEW i \in 1..(n + 1), p2[i].type = "compile", p2[i].id = j
        PROVE  j \in Asked(pipe) \/ (m.type = "compile" /\ j = m.id)
    BY <1>4, <1>5, <1>6, <2>1
  <2>2. ASSUME NEW j \in Asked(pipe) PROVE j \in Asked(p2)
    <3>1. PICK i \in 1..n : pipe[i].type = "compile" /\ pipe[i].id = j
      BY <1>6
    <3>2. i \in 1..(n + 1) /\ p2[i] = pipe[i] /\ j \in Jobs
      BY <1>4, <1>6
    <3> QED BY <1>7, <3>1, <3>2
  <2>3. m.type = "compile" => m.id \in Asked(p2)
    <3>1. n + 1 \in 1..(n + 1)
      OBVIOUS
    <3> QED BY <1>4, <1>7, <3>1
  <2> QED BY <1>7, <2>1, <2>2, <2>3
<1>9. PipeRight(p2)
  <2>1. ASSUME NEW i \in 1..(n + 1), p2[i].type = "compile" PROVE p2[i].id \in Jobs
    BY <1>2, <1>4, <1>5, <2>1 DEF PipeRight
  <2>2. ASSUME NEW i \in 1..(n + 1), NEW k \in 1..(n + 1),
               p2[i].type = "compile", p2[k].type = "compile", p2[i].id = p2[k].id
        PROVE  i = k
    <3>1. CASE i \in 1..n /\ k \in 1..n
      BY <1>2, <1>4, <2>2, <3>1 DEF PipeRight
    <3>2. ASSUME NEW x \in 1..n, p2[x].type = "compile", m.type = "compile" PROVE p2[x].id # m.id
      <4>1. p2[x] = pipe[x] /\ pipe[x].id \in Jobs
        BY <1>2, <1>4, <3>2 DEF PipeRight
      <4>2. pipe[x].id \in Asked(pipe)
        BY <1>6, <3>2, <4>1
      <4> QED BY <3>2, <4>1, <4>2
    <3> QED BY <1>4, <1>5, <2>2, <3>1, <3>2
  <2> QED BY <1>4, <2>1, <2>2 DEF PipeRight, Messages
<1> QED BY <1>3, <1>8, <1>9

LEMMA ReadMessage ==
    ASSUME NEW pipe, PipeRight(pipe), pipe # <<>>
    PROVE  /\ Head(pipe) \in Messages /\ PipeRight(Tail(pipe))
           /\ Head(pipe).type = "compile" =>
                 Head(pipe).id \in Asked(pipe) /\ Asked(Tail(pipe)) = Asked(pipe) \ {Head(pipe).id}
           /\ Head(pipe).type = "destroy" => Asked(Tail(pipe)) = Asked(pipe)
<1>1. pipe \in Seq(Messages)
  BY DEF PipeRight, Messages
<1>2. PICK n \in Nat : n = Len(pipe) /\ n >= 1
  BY <1>1, LenProperties, EmptySeq
<1>3. PICK t, h : t = Tail(pipe) /\ h = Head(pipe)
  OBVIOUS
<1>4. /\ t \in Seq(Messages) /\ Len(t) = n - 1 /\ h \in Messages /\ h = pipe[1]
      /\ \A i \in 1..(n - 1) : t[i] = pipe[i + 1]
  <2>1. /\ Head(pipe) \in Messages /\ Tail(pipe) \in Seq(Messages) /\ Len(Tail(pipe)) = Len(pipe) - 1
        /\ \A i \in 1..Len(Tail(pipe)) : Tail(pipe)[i] = pipe[i + 1]
    BY <1>1, HeadTailProperties
  <2>2. Head(pipe) = pipe[1]
    BY <1>1
  <2> QED BY <1>2, <1>3, <2>1, <2>2
<1>5. /\ Asked(pipe) = {j \in Jobs : \E i \in 1..n : pipe[i].type = "compile" /\ pipe[i].id = j}
      /\ Asked(t) = {j \in Jobs : \E i \in 1..(n - 1) : t[i].type = "compile" /\ t[i].id = j}
      /\ \A i \in 1..n : pipe[i].type = "compile" => pipe[i].id \in Jobs
      /\ \A i, k \in 1..n : pipe[i].type = "compile" /\ pipe[k].type = "compile"
                               /\ pipe[i].id = pipe[k].id => i = k
  BY <1>2, <1>4 DEF Asked, PipeRight
<1>6. \A i \in 1..(n - 1) : i + 1 \in 1..n /\ i + 1 # 1
  OBVIOUS
<1>7. \A i \in 1..n : i = 1 \/ (i - 1 \in 1..(n - 1) /\ (i - 1) + 1 = i)
  OBVIOUS
<1>8. PipeRight(t)
  <2>1. ASSUME NEW i \in 1..(n - 1), t[i].type = "compile" PROVE t[i].id \in Jobs
    BY <1>4, <1>5, <1>6, <2>1
  <2>2. ASSUME NEW i \in 1..(n - 1), NEW k \in 1..(n - 1),
               t[i].type = "compile", t[k].type = "compile", t[i].id = t[k].id
        PROVE  i = k
    <3>1. PICK a \in 1..n, b \in 1..n : a = i + 1 /\ b = k + 1
      BY <1>6
    <3>2. t[i] = pipe[a] /\ t[k] = pipe[b]
      BY <1>4, <3>1
    <3>3. a = b
      BY <1>5, <2>2, <3>2
    <3> QED BY <3>1, <3>3
  <2> QED BY <1>4, <2>1, <2>2 DEF PipeRight, Messages
<1>9. Asked(t) \subseteq Asked(pipe)
  <2>1. ASSUME NEW j \in Asked(t) PROVE j \in Asked(pipe)
    <3>1. PICK i \in 1..(n - 1) : t[i].type = "compile" /\ t[i].id = j
      BY <1>5
    <3>2. PICK a \in 1..n : a = i + 1
      BY <1>6
    <3>3. t[i] = pipe[a] /\ j \in Jobs
      BY <1>4, <1>5, <3>2
    <3> QED BY <1>5, <3>1, <3>3
  <2> QED BY <2>1
<1>10. ASSUME NEW j \in Asked(pipe) PROVE j \in Asked(t) \/ (h.type = "compile" /\ h.id = j)
  <2>1. PICK i \in 1..n : pipe[i].type = "compile" /\ pipe[i].id = j
    BY <1>5
  <2>2. CASE i = 1
    BY <1>4, <2>1, <2>2
  <2>3. CASE i # 1
    <3>1. i - 1 \in 1..(n - 1) /\ t[i - 1] = pipe[i]
      BY <1>4, <1>7, <2>3
    <3> QED BY <1>5, <2>1, <3>1
  <2> QED BY <2>2, <2>3
<1>11. ASSUME h.type = "compile" PROVE h.id \in Asked(pipe) /\ h.id \notin Asked(t)
  <2>1. 1 \in 1..n
    BY <1>2
  <2>2. h.id \in Asked(pipe)
    BY <1>4, <1>5, <1>11, <2>1
  <2>3. ASSUME NEW i \in 1..(n - 1), t[i].type = "compile", t[i].id = h.id PROVE FALSE
    BY <1>4, <1>5, <1>6, <1>11, <2>1, <2>3
  <2> QED BY <1>5, <2>2, <2>3
<1> QED BY <1>3, <1>4, <1>8, <1>9, <1>10, <1>11 DEF Messages

----------------------------------------------------------------------------
(* Starting a job *)

LEMMA AskChild ==
    ASSUME NEW js, NEW known, NEW pipe, NEW running, NEW rs, ChildRight(js, known, pipe, running, rs),
           NEW n \in known, js[n].uploaded, Idle(n, pipe, running, rs)
    PROVE  ChildRight(js, known, Append(pipe, Message("compile", n)), running, rs)
<1>1. PICK m : m = Message("compile", n)
  OBVIOUS
<1>2. n \in Jobs /\ n \notin Asked(pipe)
  BY DEF ChildRight, Idle
<1>3. m \in Messages /\ m.type = "compile" /\ m.id = n
  BY <1>1, <1>2 DEF Message, Messages
<1>4. PipeRight(Append(pipe, m)) /\ Asked(Append(pipe, m)) = Asked(pipe) \cup {n}
  BY <1>2, <1>3, SendMessage DEF ChildRight
<1> QED BY <1>1, <1>4 DEF ChildRight, Idle

(* What a report adds to a job's reports. *)
LEMMA Reported ==
    ASSUME NEW x, NEW y
    PROVE  Append(<<>>, x) = <<x>> /\ Append(<<x>>, y) = <<x, y>>
<1>1. PICK S : S = {x, y}
  OBVIOUS
<1>2. <<>> \in Seq(S) /\ <<x>> \in Seq(S) /\ <<x, y>> \in Seq(S)
  BY <1>1
<1>3. Append(<<>>, x) = <<x>>
  <2>1. /\ Append(<<>>, x) \in Seq(S) /\ Len(Append(<<>>, x)) = 1
        /\ Append(<<>>, x)[1] = x
    BY <1>1, <1>2, AppendProperties
  <2>2. Len(<<x>>) = 1 /\ <<x>>[1] = x
    OBVIOUS
  <2>3. \A i \in 1..1 : Append(<<>>, x)[i] = <<x>>[i]
    BY <2>1, <2>2
  <2> QED BY <1>2, <2>1, <2>2, <2>3, SeqEqual
<1>4. Append(<<x>>, y) = <<x, y>>
  <2>1. /\ Append(<<x>>, y) \in Seq(S) /\ Len(Append(<<x>>, y)) = 2
        /\ Append(<<x>>, y)[1] = x /\ Append(<<x>>, y)[2] = y
    <3>1. Len(<<x>>) = 1 /\ <<x>>[1] = x /\ 1 \in 1..1 /\ 1 + 1 = 2
      OBVIOUS
    <3> QED BY <1>1, <1>2, <3>1, AppendProperties
  <2>2. Len(<<x, y>>) = 2 /\ <<x, y>>[1] = x /\ <<x, y>>[2] = y
    OBVIOUS
  <2>3. \A i \in 1..2 : Append(<<x>>, y)[i] = <<x, y>>[i]
    <3>1. \A i \in 1..2 : i = 1 \/ i = 2
      OBVIOUS
    <3> QED BY <2>1, <2>2, <3>1
  <2> QED BY <1>2, <2>1, <2>2, <2>3, SeqEqual
<1> QED BY <1>3, <1>4

LEMMA StartedRight ==
    ASSUME NEW r, JobRight(r, TRUE, FALSE), r.mode = "backlogged", NEW cache \in {"miss", "hit", "broken"}
    PROVE  LET s == Started(r, cache)
           IN  /\ JobRight(s, TRUE, cache = "miss")
               /\ s.mode # "backlogged" /\ s.uploaded = r.uploaded
<1>1. r \in JobStates /\ r.reports = <<>>
  BY DEF JobRight, Heard
<1>2. CASE cache = "miss"
  <2>1. PICK s : s = [r EXCEPT !.mode = "compiling", !.wait = @ /\ r.conn # "open",
                               !.reports = <<"jobStarted">>]
    OBVIOUS
  <2>2. Started(r, cache) = s
    <3>1. PICK t : t = [r EXCEPT !.mode = "compiling", !.wait = @ /\ r.conn # "open"]
      OBVIOUS
    <3>2. Started(r, cache) = [t EXCEPT !.reports = Append(@, "jobStarted")]
      BY <1>2, <3>1 DEF Started, Report
    <3>3. t \in [conn : {"none", "handshaken", "open", "closing", "closed"},
                 wait : BOOLEAN, uploaded : BOOLEAN, mode : {"compiling"},
                 done : BOOLEAN, aborted : BOOLEAN, answered : BOOLEAN, reports : Outcomes]
          /\ t.reports = <<>>
      <4>1. (r.wait /\ r.conn # "open") \in BOOLEAN
        OBVIOUS
      <4> QED BY <1>1, <3>1, <4>1 DEF JobStates
    <3>4. Append(t.reports, "jobStarted") = <<"jobStarted">>
      BY <3>3, Reported
    <3>5. Started(r, cache) = [t EXCEPT !.reports = <<"jobStarted">>]
      BY <3>2, <3>4
    <3> QED BY <1>1, <2>1, <3>1, <3>5 DEF JobStates
  <2>3. /\ s.mode = "compiling" /\ s.conn = r.conn /\ s.uploaded = r.uploaded /\ s.done = r.done
        /\ s.aborted = r.aborted /\ s.answered = r.answered /\ s.reports = <<"jobStarted">>
        /\ s.wait = (r.wait /\ r.conn # "open")
    BY <1>1, <2>1 DEF JobStates
  <2>4. s \in JobStates
    <3>1. <<"jobStarted">> \in Outcomes /\ (r.wait /\ r.conn # "open") \in BOOLEAN
      BY DEF Outcomes
    <3> QED BY <1>1, <2>1, <3>1 DEF JobStates
  <2>5. s.reports \in Heard(s.mode, TRUE)
    BY <2>3 DEF Heard
  <2> QED BY <1>2, <2>2, <2>3, <2>4, <2>5 DEF JobRight
<1>3. CASE cache = "hit"
  <2>1. PICK s : s = [r EXCEPT !.mode = "cache"]
    OBVIOUS
  <2>2. Started(r, cache) = s
    BY <1>3, <2>1 DEF Started
  <2>3. /\ s \in JobStates /\ s.mode = "cache" /\ s.conn = r.conn /\ s.uploaded = r.uploaded
        /\ s.done = r.done /\ s.aborted = r.aborted /\ s.answered = r.answered
        /\ s.reports = r.reports
    BY <1>1, <2>1 DEF JobStates
  <2>4. s.reports \in Heard(s.mode, TRUE)
    BY <1>1, <2>3 DEF Heard
  <2> QED BY <1>3, <2>2, <2>3, <2>4 DEF JobRight
<1>4. CASE cache = "broken"
  <2>1. PICK s : s = [r EXCEPT !.mode = "broken", !.conn = IF @ = "open" THEN "closing" ELSE @]
    OBVIOUS
  <2>2. Started(r, cache) = s
    BY <1>1, <1>4, <2>1 DEF Started, CloseJob, JobStates
  <2>3. /\ s \in JobStates /\ s.mode = "broken" /\ s.uploaded = r.uploaded
        /\ s.conn = (IF r.conn = "open" THEN "closing" ELSE r.conn)
        /\ s.done = r.done /\ s.aborted = r.aborted /\ s.answered = r.answered
        /\ s.reports = r.reports
    BY <1>1, <2>1 DEF JobStates
  <2>4. s.reports \in Heard(s.mode, TRUE)
    BY <1>1, <2>3 DEF Heard
  <2> QED BY <1>4, <2>2, <2>3, <2>4 DEF JobRight
<1> QED BY <1>2, <1>3, <1>4

(* Starting a job that is backlogged. *)
LEMMA StartRight ==
    ASSUME NEW q, NEW base, NEW open, NEW pipe, NEW running, NEW rs,
           Right(q, base, open, pipe, running, rs),
           NEW n \in ToSet(q), n \in Jobs, base[n].mode = "backlogged", Start(n, base, pipe, open)
    PROVE  /\ Right(q, job', compiles', toChild', running, rs)
           /\ job'[n].mode # "backlogged"
           /\ \A k \in Jobs \ {n} : job'[k] = base[k]
<1>1. PICK cache \in CacheOutcomes(n) :
         /\ job' = [base EXCEPT ![n] = Started(@, cache)]
         /\ compiles' = IF cache = "miss" THEN open \cup {n} ELSE open
         /\ toChild' = IF cache = "miss" /\ base[n].uploaded
                       THEN Append(pipe, Message("compile", n)) ELSE pipe
  BY DEF Start
<1>2. cache \in {"miss", "hit", "broken"}
  BY DEF CacheOutcomes
<1>3. JobsRight(q, base, open) /\ ChildRight(base, open, pipe, running, rs)
  BY DEF Right
<1>4. n \notin open /\ JobRight(base[n], TRUE, FALSE)
  <2>1. JobRight(base[n], n \in ToSet(q), n \in open)
    BY <1>3 DEF JobsRight
  <2>2. n \notin open
    BY <2>1 DEF JobRight
  <2>3. (n \in ToSet(q)) = TRUE /\ (n \in open) = FALSE
    BY <2>2
  <2> QED BY <2>1, <2>2, <2>3
<1>5. PICK r : r = Started(base[n], cache)
  OBVIOUS
<1>6. /\ JobRight(r, TRUE, cache = "miss")
      /\ r.mode # "backlogged" /\ r.uploaded = base[n].uploaded
  BY <1>2, <1>4, <1>5, StartedRight
<1>7. (n \in compiles') = (cache = "miss") /\ (n \in ToSet(q)) = TRUE
  BY <1>1, <1>4
<1>8. JobRight(r, n \in ToSet(q), n \in compiles')
  BY <1>6, <1>7
<1>9. \A k \in Jobs \ {n} : k \in compiles' <=> k \in open
  BY <1>1
<1>10. job' = [base EXCEPT ![n] = r]
  BY <1>1, <1>5
<1>11. /\ JobsRight(q, job', compiles')
       /\ job'[n] = r /\ \A k \in Jobs \ {n} : job'[k] = base[k]
  <2>1. OthersStay(n, q, open, q, compiles')
    BY <1>9 DEF OthersStay
  <2>2. RightIn(n, r, q, compiles')
    BY <1>8 DEF RightIn
  <2>3. JobsRight(q, base, open)
    BY <1>3
  <2>4. n \in Jobs
    OBVIOUS
  <2>5. /\ JobsRight(q, [base EXCEPT ![n] = r], compiles')
        /\ [base EXCEPT ![n] = r][n] = r
        /\ \A k \in Jobs \ {n} : [base EXCEPT ![n] = r][k] = base[k]
    BY ONLY <2>1, <2>2, <2>3, <2>4, OneJob
  <2> QED BY <1>10, <2>5
<1>12. /\ compiles' \in SUBSET Jobs /\ open \subseteq compiles'
       /\ \A k \in Jobs : base[k].uploaded => job'[k].uploaded
  BY <1>1, <1>3, <1>6, <1>11 DEF ChildRight
<1>13. ChildRight(job', compiles', pipe, running, rs)
  BY <1>3, <1>12, ChildFrame
<1>14. Idle(n, pipe, running, rs)
  BY <1>3, <1>4 DEF ChildRight, Idle
<1>15. ChildRight(job', compiles', toChild', running, rs)
  <2>1. CASE cache = "miss" /\ base[n].uploaded
    <3>1. n \in compiles' /\ job'[n].uploaded
      BY <1>1, <1>6, <1>11, <2>1
    <3> QED BY <1>1, <1>13, <1>14, <2>1, <3>1, AskChild
  <2>2. CASE ~(cache = "miss" /\ base[n].uploaded)
    BY <1>1, <1>13, <2>2
  <2> QED BY <2>1, <2>2
<1> QED BY <1>6, <1>11, <1>15 DEF Right

\* What starting the next job leaves: none was backlogged, or one is not any more.
NextStarted(q, base, js) ==
    \/ js = base /\ \A k \in ToSet(q) : base[k].mode # "backlogged"
    \/ \E n \in ToSet(q) : /\ base[n].mode = "backlogged" /\ js[n].mode # "backlogged"
                           /\ \A k \in Jobs \ {n} : js[k] = base[k]

LEMMA StartPendingRight ==
    ASSUME NEW q, NEW base, NEW open, NEW pipe, NEW running, NEW rs,
           Right(q, base, open, pipe, running, rs), StartPending(q, base, pipe, open)
    PROVE  /\ queue' = q
           /\ Right(q, job', compiles', toChild', running, rs)
           /\ NextStarted(q, base, job')
<1>1. PICK n \in Nat : n = Len(q)
  BY LenProperties DEF Right
<1>2. q \in Seq(Jobs) /\ DOMAIN q = 1..n
  BY <1>1, LenProperties DEF Right
<1>3. PICK K \in SUBSET (1..n) : K = {i \in 1..n : base[q[i]].mode = "backlogged"}
  OBVIOUS
<1>4. K = Backlogged(q, base)
  BY <1>1, <1>3 DEF Backlogged
<1>5. CASE K = {}
  <2>1. job' = base /\ toChild' = pipe /\ compiles' = open /\ queue' = q
    BY <1>4, <1>5 DEF StartPending, StartNothing
  <2>2. \A k \in ToSet(q) : base[k].mode # "backlogged"
    BY <1>2, <1>3, <1>5 DEF ToSet
  <2> QED BY <2>1, <2>2 DEF NextStarted
<1>6. CASE K # {}
  <2>1. PICK first : first = CHOOSE i \in K : \A k \in K : i <= k
    OBVIOUS
  <2>2. first \in K
    BY <1>6, <2>1, FirstOne
  <2>3. queue' = q /\ Start(q[first], base, pipe, open)
    BY <1>4, <1>6, <2>1 DEF StartPending
  <2>4. q[first] \in ToSet(q) /\ q[first] \in Jobs /\ base[q[first]].mode = "backlogged"
    BY <1>2, <1>3, <2>2, ElementOfSeq DEF ToSet
  <2>5. /\ Right(q, job', compiles', toChild', running, rs)
        /\ job'[q[first]].mode # "backlogged"
        /\ \A k \in Jobs \ {q[first]} : job'[k] = base[k]
    BY <2>3, <2>4, StartRight
  <2> QED BY <2>3, <2>4, <2>5 DEF NextStarted
<1> QED BY <1>5, <1>6

----------------------------------------------------------------------------
(* Slots *)

LEMMA WorkingFinite ==
    ASSUME NEW q \in Seq(Jobs), Distinct(q), NEW js
    PROVE  /\ IsFiniteSet(Working(q, js)) /\ Cardinality(Working(q, js)) \in Nat
           /\ Len(q) \in Nat /\ Cardinality(Working(q, js)) <= Len(q)
           /\ (\A k \in ToSet(q) : js[k].mode # "backlogged") => Cardinality(Working(q, js)) = Len(q)
<1>1. Len(q) \in Nat /\ IsFiniteSet(ToSet(q)) /\ Cardinality(ToSet(q)) = Len(q)
  BY QueueLength
<1>2. Working(q, js) \in SUBSET ToSet(q)
  BY DEF Working
<1>3. IsFiniteSet(Working(q, js)) /\ Cardinality(Working(q, js)) <= Len(q)
  BY <1>1, <1>2, FS_Subset
<1>4. (\A k \in ToSet(q) : js[k].mode # "backlogged") => Working(q, js) = ToSet(q)
  BY DEF Working
<1> QED BY <1>1, <1>3, <1>4, FS_CardinalityType

(* A job leaves the queue and the next one starts: no slot idles, and no more jobs are at
   work than before, unless the one that left was not. *)
LEMMA LeaveSlots ==
    ASSUME NEW q0 \in Seq(Jobs), Distinct(q0), NEW js0, SlotsBusy(q0, js0),
           NEW q \in Seq(Jobs), Distinct(q), NEW j, ToSet(q) = ToSet(q0) \ {j},
           NEW base, \A k \in ToSet(q) : k \in Jobs /\ base[k].mode = js0[k].mode,
           NEW js, NextStarted(q, base, js)
    PROVE  /\ SlotsBusy(q, js)
           /\ j \in Working(q0, js0) => Cardinality(Working(q, js)) <= Cardinality(Working(q0, js0))
<1>1. PICK A : A = Working(q0, js0)
  OBVIOUS
<1>2. PICK B : B = Working(q, js)
  OBVIOUS
<1>3. /\ IsFiniteSet(A) /\ Cardinality(A) \in Nat
      /\ IsFiniteSet(B) /\ Cardinality(B) \in Nat
  BY <1>1, <1>2, WorkingFinite
<1>4. CASE js = base /\ \A k \in ToSet(q) : base[k].mode # "backlogged"
  <2>1. B \in SUBSET A \/ j \notin A
    BY <1>1, <1>2, <1>4 DEF Working
  <2>2. j \in A => Cardinality(B) <= Cardinality(A)
    BY <1>3, <2>1, FS_Subset
  <2> QED BY <1>1, <1>2, <1>4, <2>2 DEF SlotsBusy
<1>5. CASE \E n \in ToSet(q) : /\ base[n].mode = "backlogged" /\ js[n].mode # "backlogged"
                              /\ \A k \in Jobs \ {n} : js[k] = base[k]
  <2>1. PICK n \in ToSet(q) : /\ base[n].mode = "backlogged" /\ js[n].mode # "backlogged"
                              /\ \A k \in Jobs \ {n} : js[k] = base[k]
    BY <1>5
  <2>2. n \in ToSet(q0) /\ js0[n].mode = "backlogged" /\ n \notin A
    BY <1>1, <2>1 DEF Working
  <2>3. Cardinality(A) >= Slots
    BY <1>1, <2>2 DEF SlotsBusy
  <2>4. B = (A \ {j}) \cup {n}
    <3>1. ASSUME NEW k \in B PROVE k \in (A \ {j}) \cup {n}
      BY <1>1, <1>2, <2>1, <3>1 DEF Working
    <3>2. ASSUME NEW k \in (A \ {j}) \cup {n} PROVE k \in B
      BY <1>1, <1>2, <2>1, <3>2 DEF Working
    <3> QED BY <3>1, <3>2
  <2>5. /\ IsFiniteSet(A \ {j})
        /\ Cardinality(A \ {j}) = IF j \in A THEN Cardinality(A) - 1 ELSE Cardinality(A)
    BY <1>3, FS_RemoveElement
  <2>6. Cardinality(B) = Cardinality(A \ {j}) + 1
    BY <2>2, <2>4, <2>5, FS_AddElement
  <2>7. Cardinality(B) >= Slots /\ (j \in A => Cardinality(B) <= Cardinality(A))
    BY <1>3, <2>3, <2>5, <2>6, JobsAssumption
  <2> QED BY <1>1, <1>2, <2>7 DEF SlotsBusy
<1> QED BY <1>4, <1>5 DEF NextStarted

(* Nothing about the slots changes with the queue and the modes of its jobs unchanged. *)
LEMMA SameSlots ==
    ASSUME NEW q0, NEW js0, NEW q, NEW js, ToSet(q) = ToSet(q0),
           \A k \in ToSet(q) : js[k].mode = js0[k].mode
    PROVE  /\ Working(q, js) = Working(q0, js0)
           /\ SlotsBusy(q0, js0) => SlotsBusy(q, js)
<1>1. Working(q, js) = Working(q0, js0)
  BY DEF Working
<1> QED BY <1>1 DEF SlotsBusy

----------------------------------------------------------------------------
(* The order of the queue *)

Ordered(q) == \A i, k \in 1..Len(q) : i < k => Priority[q[i]] >= Priority[q[k]]

LEMMA LeaveOrder ==
    ASSUME NEW q \in Seq(Jobs), Distinct(q), Ordered(q), NEW j
    PROVE  Ordered(Without(q, j))
<1>1. CASE j \notin ToSet(q)
  BY <1>1 DEF Without
<1>2. CASE j \in ToSet(q)
  <2>1. PICK n \in Nat : n = Len(q)
    BY LenProperties
  <2>2. DOMAIN q = 1..n
    BY <2>1, LenProperties
  <2>3. \E i \in 1..n : q[i] = j
    BY <1>2, <2>2 DEF ToSet
  <2>4. PICK p : p = Position(q, j)
    OBVIOUS
  <2>5. p \in 1..n
    BY <2>1, <2>3, <2>4, Zenon DEF Position
  <2>6. PICK r : r = RemoveAt(q, p)
    OBVIOUS
  <2>7. /\ Len(r) = n - 1
        /\ \A i \in 1..(n - 1) : r[i] = IF i < p THEN q[i] ELSE q[i + 1]
    BY <2>1, <2>5, <2>6, RemoveAtElements
  <2>8. ASSUME NEW i \in 1..(n - 1), NEW k \in 1..(n - 1), i < k
        PROVE  Priority[r[i]] >= Priority[r[k]]
    <3>1. PICK x \in 1..n : x = IF i < p THEN i ELSE i + 1
      OBVIOUS
    <3>2. PICK y \in 1..n : y = IF k < p THEN k ELSE k + 1
      OBVIOUS
    <3>3. x < y /\ r[i] = q[x] /\ r[k] = q[y]
      BY <2>5, <2>7, <2>8, <3>1, <3>2
    <3> QED BY <2>1, <3>3 DEF Ordered
  <2>9. Without(q, j) = r
    BY <1>2, <2>4, <2>6 DEF Without
  <2> QED BY <2>7, <2>8, <2>9 DEF Ordered
<1> QED BY <1>1, <1>2

LEMMA JoinOrder ==
    ASSUME queue \in Seq(Jobs), Ordered(queue), NEW j \in Jobs
    PROVE  /\ PlaceFor(Priority[j]) \in 1..(Len(queue) + 1)
           /\ Ordered(InsertAt(queue, PlaceFor(Priority[j]), j))
<1>1. PICK q \in Seq(Jobs) : q = queue
  OBVIOUS
<1>2. PICK n \in Nat : n = Len(q)
  BY LenProperties
<1>3. PICK p \in Int : p = Priority[j]
  BY JobsAssumption
<1>4. \A i \in 1..n : q[i] \in Jobs /\ Priority[q[i]] \in Int
  BY <1>2, ElementOfSeq, JobsAssumption
<1>5. PICK K \in SUBSET (1..n) : K = {i \in 1..n : Priority[q[i]] >= p}
  OBVIOUS
<1>6. \A i \in K : \A k \in 1..n : k <= i => k \in K
  <2> SUFFICES ASSUME NEW i \in K, NEW k \in 1..n, k < i PROVE k \in K
    OBVIOUS
  <2>1. Priority[q[k]] >= Priority[q[i]]
    BY <1>1, <1>2 DEF Ordered
  <2> QED BY <1>4, <1>5, <2>1
<1>7. PICK m \in 0..n : m = Cardinality(K) /\ K = 1..m
  BY <1>6, FirstPositions
<1>12. n \in Int /\ m \in Int /\ 0 <= m /\ m <= n
  BY <1>2, <1>7
<1>8. PlaceFor(p) = m + 1
  BY <1>1, <1>2, <1>5, <1>7 DEF PlaceFor
<1>9. PICK r : r = InsertAt(q, m + 1, j)
  OBVIOUS
<1>10. /\ Len(r) = n + 1
       /\ \A i \in 1..(n + 1) : r[i] = IF i < m + 1 THEN q[i] ELSE IF i = m + 1 THEN j ELSE q[i - 1]
  <2>1. PICK x \in 1..(Len(q) + 1) : x = m + 1
    BY <1>2, <1>12
  <2>4. x \in 1..(Len(q) + 1) /\ q \in Seq(Jobs)
    BY <1>1, <2>1
  <2>2. Len(InsertAt(q, x, j)) = Len(q) + 1
    BY <2>4, InsertAtElements
  <2>3. \A k \in 1..(Len(q) + 1) :
           InsertAt(q, x, j)[k] = IF k < x THEN q[k] ELSE IF k = x THEN j ELSE q[k - 1]
    BY <2>4, InsertAtElements
  <2> QED BY <1>2, <1>9, <2>1, <2>2, <2>3
<1>11. ASSUME NEW i \in 1..(n + 1), NEW k \in 1..(n + 1), i < k
       PROVE  Priority[r[i]] >= Priority[r[k]]
  <2>1. CASE i < m + 1 /\ k < m + 1
    <3>1. i \in 1..n /\ k \in 1..n /\ r[i] = q[i] /\ r[k] = q[k]
      BY <1>10, <2>1
    <3> QED BY <1>1, <1>2, <1>11, <3>1 DEF Ordered
  <2>2. CASE i < m + 1 /\ k = m + 1
    <3>1. i \in K /\ r[i] = q[i] /\ r[k] = j
      <4>1. i \in 1..m
        BY <1>7, <2>2
      <4>2. r[i] = q[i]
        BY <1>10, <2>2
      <4>3. ~(k < m + 1) /\ r[k] = j
        BY <1>10, <1>12, <2>2
      <4> QED BY <1>7, <4>1, <4>2, <4>3
    <3> QED BY <1>3, <1>5, <3>1
  <2>3. CASE i < m + 1 /\ k > m + 1
    <3>1. PICK y \in 1..n : y = k - 1
      BY <2>3
    <3>2. i \in 1..n /\ i < y /\ r[i] = q[i] /\ r[k] = q[y]
      BY <1>10, <2>3, <3>1
    <3> QED BY <1>1, <1>2, <3>2 DEF Ordered
  <2>4. CASE i = m + 1
    <3>1. PICK y \in 1..n : y = k - 1
      BY <1>11, <2>4
    <3>2. y \notin K /\ r[i] = j /\ r[k] = q[y]
      <4>1. ~(y <= m) /\ ~(i < m + 1) /\ ~(k < m + 1) /\ k # m + 1
        BY <1>11, <1>12, <2>4, <3>1
      <4>2. y \notin K
        <5>1. y \notin 1..m
          BY <1>12, <3>1, <4>1
        <5> QED BY <1>7, <5>1
      <4>3. r[i] = j
        BY <1>10, <2>4, <4>1
      <4>4. r[k] = q[k - 1]
        BY <1>10, <4>1
      <4> QED BY <3>1, <4>2, <4>3, <4>4
    <3> QED BY <1>3, <1>4, <1>5, <3>2
  <2>5. CASE i > m + 1
    <3>1. PICK x \in 1..n, y \in 1..n : x = i - 1 /\ y = k - 1
      BY <1>11, <2>5
    <3>2. x < y
      BY <1>11, <2>5, <3>1
    <3>3. ~(i < m + 1) /\ i # m + 1 /\ ~(k < m + 1) /\ k # m + 1
      BY <1>11, <2>5
    <3>4. r[i] = q[x] /\ r[k] = q[y]
      BY <1>10, <3>1, <3>3
    <3> QED BY <1>1, <1>2, <3>2, <3>4 DEF Ordered
  <2> QED BY <1>7, <1>11, <2>1, <2>2, <2>3, <2>4, <2>5
<1>13. InsertAt(q, PlaceFor(p), j) = r
  BY <1>8, <1>9
<1>14. Len(r) = n + 1
  BY <1>10
<1>15. Ordered(r)
  BY <1>11, <1>14 DEF Ordered
<1> QED BY <1>1, <1>2, <1>3, <1>8, <1>12, <1>13, <1>15

----------------------------------------------------------------------------
(* What a handler does to one job *)

LEMMA JobChanges ==
    ASSUME NEW q, NEW js, NEW known, NEW pipe, NEW running, NEW rs,
           Right(q, js, known, pipe, running, rs),
           NEW n \in Jobs, NEW r, RightIn(n, r, q, known), js[n].uploaded => r.uploaded
    PROVE  /\ Right(q, [js EXCEPT ![n] = r], known, pipe, running, rs)
           /\ [js EXCEPT ![n] = r][n] = r
           /\ \A k \in Jobs \ {n} : [js EXCEPT ![n] = r][k] = js[k]
<1>1. JobsRight(q, js, known) /\ OthersStay(n, q, known, q, known)
  BY DEF Right, OthersStay
<1>2. PICK js2 : js2 = [js EXCEPT ![n] = r]
  OBVIOUS
<1>3. /\ JobsRight(q, [js EXCEPT ![n] = r], known)
      /\ [js EXCEPT ![n] = r][n] = r
      /\ \A k \in Jobs \ {n} : [js EXCEPT ![n] = r][k] = js[k]
  BY <1>1, OneJob
<1>4. \A k \in Jobs : js[k].uploaded => js2[k].uploaded
  BY <1>2, <1>3
<1>5. ChildRight(js2, known, pipe, running, rs)
  <2>1. ChildRight(js, known, pipe, running, rs) /\ known \in SUBSET Jobs
    BY DEF Right, ChildRight
  <2> QED BY <1>4, <2>1, ChildFrame
<1> QED BY <1>2, <1>3, <1>5 DEF Right

(* Job n leaves the queue, is forgotten by the VM or not, and the next job starts. *)
LEMMA Leave ==
    ASSUME NEW q, NEW js, NEW known, NEW pipe, NEW running, NEW rs,
           Right(q, js, known, pipe, running, rs), SlotsBusy(q, js),
           NEW n \in Jobs, NEW r, NEW known2,
           \/ known2 = known
           \/ known2 = known \ {n} /\ Idle(n, pipe, running, rs),
           RightIn(n, r, Without(q, n), known2), js[n].uploaded => r.uploaded,
           StartPending(Without(q, n), [js EXCEPT ![n] = r], pipe, known2)
    PROVE  /\ Right(queue', job', compiles', toChild', running, rs)
           /\ SlotsBusy(queue', job')
           /\ n \in Working(q, js) =>
                 Cardinality(Working(queue', job')) <= Cardinality(Working(q, js))
           /\ job'[n] = r
<1>1. PICK q2 : q2 = Without(q, n)
  OBVIOUS
<1>2. PICK js2 : js2 = [js EXCEPT ![n] = r]
  OBVIOUS
<1>3. /\ q \in Seq(Jobs) /\ Distinct(q) /\ Ordered(q)
      /\ JobsRight(q, js, known) /\ ChildRight(js, known, pipe, running, rs)
  BY DEF Right, Ordered
<1>4. /\ q2 \in Seq(Jobs) /\ ToSet(q2) = ToSet(q) \ {n} /\ Distinct(q2) /\ Ordered(q2)
  BY <1>1, <1>3, WithoutElements, LeaveOrder
<1>5. \A k \in Jobs \ {n} : k \in known2 <=> k \in known
  OBVIOUS
<1>6. OthersStay(n, q, known, q2, known2) /\ RightIn(n, r, q2, known2)
  BY <1>1, <1>4, <1>5 DEF OthersStay
<1>7. /\ JobsRight(q2, [js EXCEPT ![n] = r], known2)
      /\ [js EXCEPT ![n] = r][n] = r
      /\ \A k \in Jobs \ {n} : [js EXCEPT ![n] = r][k] = js[k]
  BY <1>3, <1>6, OneJob
<1>8. ChildRight(js2, known, pipe, running, rs)
  <2>1. \A k \in Jobs : js[k].uploaded => js2[k].uploaded
    BY <1>2, <1>7
  <2>2. known \in SUBSET Jobs
    BY <1>3 DEF ChildRight
  <2> QED BY <1>3, <2>1, <2>2, ChildFrame
<1>9. ChildRight(js2, known2, pipe, running, rs)
  <2>1. CASE known2 = known
    BY <1>8, <2>1
  <2>2. CASE known2 = known \ {n} /\ Idle(n, pipe, running, rs)
    <3>1. ChildRight(js2, known \ {n}, pipe, running, rs)
      BY <1>8, <2>2, ForgetJob
    <3> QED BY <2>2, <3>1
  <2> QED BY <2>1, <2>2
<1>10. Right(q2, js2, known2, pipe, running, rs)
  BY <1>2, <1>4, <1>7, <1>9 DEF Right, Ordered
<1>11. StartPending(q2, js2, pipe, known2)
  BY <1>1, <1>2
<1>12. /\ queue' = q2
       /\ Right(q2, job', compiles', toChild', running, rs)
       /\ NextStarted(q2, js2, job')
  BY <1>10, <1>11, StartPendingRight
<1>13. PICK js3 : js3 = job'
  OBVIOUS
<1>14. \A k \in ToSet(q2) : k \in Jobs /\ k # n /\ js2[k].mode = js[k].mode
  <2>1. ToSet(q2) \subseteq Jobs \ {n}
    <3>1. DOMAIN q2 = 1..Len(q2) /\ \A i \in 1..Len(q2) : q2[i] \in Jobs
      BY <1>4, LenProperties, ElementOfSeq
    <3> QED BY <1>4, <3>1 DEF ToSet
  <2> QED BY <1>2, <1>7, <2>1
<1>15. /\ SlotsBusy(q2, js3)
       /\ n \in Working(q, js) => Cardinality(Working(q2, js3)) <= Cardinality(Working(q, js))
  <2>1. NextStarted(q2, js2, js3)
    BY <1>12, <1>13
  <2> QED BY <1>3, <1>4, <1>14, <2>1, LeaveSlots
<1>16. job'[n] = r
  BY <1>2, <1>7, <1>12, <1>14 DEF NextStarted
<1> QED BY <1>12, <1>13, <1>15, <1>16

(* The record of a job that ends: its compile is over, its object was read, its client
   is gone. *)
LEMMA EndedRight ==
    ASSUME NEW r, JobRight(r, TRUE, TRUE), r.uploaded, NEW what \in {"jobFinished", "jobAborted"}
    PROVE  LET s == Report(Answer([r EXCEPT !.done = TRUE]), what)
           IN  JobRight(s, FALSE, FALSE) /\ s.uploaded
<1>1. r \in JobStates /\ r.mode = "compiling" /\ r.reports = <<"jobStarted">>
  BY DEF JobRight, Heard
<1>2. PICK s : s = [r EXCEPT !.done = TRUE, !.answered = @ \/ r.conn = "open",
                             !.reports = <<"jobStarted", what>>]
  OBVIOUS
<1>3. PICK a : a = [r EXCEPT !.done = TRUE]
  OBVIOUS
<1>4. a \in JobStates /\ a.conn = r.conn /\ a.reports = r.reports /\ a.answered = r.answered
  BY <1>1, <1>3 DEF JobStates
<1>5. PICK b : b = [a EXCEPT !.answered = r.answered \/ r.conn = "open"]
  OBVIOUS
<1>6. Answer(a) = b
  BY <1>4, <1>5 DEF Answer
<1>7. b \in JobStates /\ b.reports = <<"jobStarted">>
  <2>1. (r.answered \/ r.conn = "open") \in BOOLEAN
    OBVIOUS
  <2> QED BY <1>1, <1>4, <1>5, <2>1 DEF JobStates
<1>8. Report(b, what) = [b EXCEPT !.reports = <<"jobStarted", what>>]
  BY <1>7, Reported DEF Report
<1>9. Report(Answer([r EXCEPT !.done = TRUE]), what) = s
  BY <1>1, <1>2, <1>3, <1>5, <1>6, <1>8 DEF JobStates
<1>10. /\ s.mode = "compiling" /\ s.conn = r.conn /\ s.uploaded = r.uploaded /\ s.done = TRUE
       /\ s.aborted = r.aborted /\ s.wait = r.wait /\ s.reports = <<"jobStarted", what>>
       /\ s.answered = (r.answered \/ r.conn = "open")
  BY <1>1, <1>2 DEF JobStates
<1>11. s \in JobStates
  <2>1. <<"jobStarted", what>> \in Outcomes /\ (r.answered \/ r.conn = "open") \in BOOLEAN
    BY DEF Outcomes
  <2> QED BY <1>1, <1>2, <2>1 DEF JobStates
<1>12. s.reports \in Heard(s.mode, FALSE)
  BY <1>10 DEF Heard
<1> QED BY <1>9, <1>10, <1>11, <1>12 DEF JobRight

LEMMA OverRight ==
    ASSUME NEW r, JobRight(r, FALSE, TRUE), r.uploaded
    PROVE  LET s == [r EXCEPT !.done = TRUE]
           IN  JobRight(s, FALSE, FALSE) /\ s.uploaded /\ s.mode = r.mode
<1>1. r \in JobStates /\ r.mode = "compiling" /\ r.aborted /\ r.conn = "closed"
  BY DEF JobRight
<1>2. PICK s : s = [r EXCEPT !.done = TRUE]
  OBVIOUS
<1>3. /\ s \in JobStates /\ s.mode = r.mode /\ s.conn = r.conn /\ s.uploaded = r.uploaded
      /\ s.aborted = r.aborted /\ s.wait = r.wait /\ s.reports = r.reports
      /\ s.answered = r.answered
  BY <1>1, <1>2 DEF JobStates
<1>4. s.reports \in Heard(s.mode, FALSE)
  BY <1>3 DEF JobRight
<1> QED BY <1>1, <1>2, <1>3, <1>4 DEF JobRight

LEMMA ReadRight ==
    ASSUME NEW r, NEW known, JobRight(r, FALSE, known), r.mode = "cache"
    PROVE  LET s == [r EXCEPT !.mode = "cached"]
           IN  JobRight(s, FALSE, known) /\ s.uploaded = r.uploaded
<1>1. /\ r \in JobStates /\ r.reports = <<>> /\ r.aborted /\ r.conn = "closed" /\ ~known
  BY DEF JobRight, Heard
<1>2. PICK s : s = [r EXCEPT !.mode = "cached"]
  OBVIOUS
<1>3. /\ s \in JobStates /\ s.mode = "cached" /\ s.conn = r.conn /\ s.uploaded = r.uploaded
      /\ s.aborted = r.aborted /\ s.wait = r.wait /\ s.reports = r.reports
      /\ s.answered = r.answered /\ s.done = r.done
  BY <1>1, <1>2 DEF JobStates
<1>4. s.reports \in Heard(s.mode, FALSE)
  BY <1>1, <1>3 DEF Heard
<1> QED BY <1>1, <1>2, <1>3, <1>4 DEF JobRight

LEMMA ServedRight ==
    ASSUME NEW r, JobRight(r, TRUE, FALSE), r.mode = "cache", NEW ok \in BOOLEAN
    PROVE  LET o == [r EXCEPT !.mode = "cached", !.done = TRUE]
               s == IF ok THEN Report(Answer(o), "cacheHit") ELSE CloseJob(o)
           IN  JobRight(s, FALSE, FALSE) /\ s.uploaded = r.uploaded
<1>1. r \in JobStates /\ r.reports = <<>> /\ ~r.aborted
  BY DEF JobRight, Heard
<1>2. PICK o : o = [r EXCEPT !.mode = "cached", !.done = TRUE]
  OBVIOUS
<1>3. /\ o \in JobStates /\ o.mode = "cached" /\ o.conn = r.conn /\ o.uploaded = r.uploaded
      /\ o.aborted = r.aborted /\ o.wait = r.wait /\ o.reports = <<>>
      /\ o.answered = r.answered /\ o.done = TRUE
  BY <1>1, <1>2 DEF JobStates
<1>4. CASE ok
  <2>1. PICK b : b = [o EXCEPT !.answered = o.answered \/ o.conn = "open"]
    OBVIOUS
  <2>2. Answer(o) = b
    BY <1>3, <2>1 DEF Answer, JobStates
  <2>3. /\ b \in JobStates /\ b.mode = "cached" /\ b.conn = r.conn /\ b.uploaded = r.uploaded
        /\ b.aborted = r.aborted /\ b.wait = r.wait /\ b.reports = <<>>
        /\ b.answered = (o.answered \/ o.conn = "open") /\ b.done = TRUE
    <3>1. (o.answered \/ o.conn = "open") \in BOOLEAN
      OBVIOUS
    <3> QED BY <1>3, <2>1, <3>1 DEF JobStates
  <2>4. PICK s : s = [b EXCEPT !.reports = <<"cacheHit">>]
    OBVIOUS
  <2>5. Report(Answer(o), "cacheHit") = s
    BY <2>2, <2>3, <2>4, Reported DEF Report
  <2>6. /\ s \in JobStates /\ s.mode = "cached" /\ s.conn = r.conn /\ s.uploaded = r.uploaded
        /\ s.aborted = r.aborted /\ s.wait = r.wait /\ s.reports = <<"cacheHit">>
        /\ s.answered = b.answered /\ s.done = TRUE
    <3>1. <<"cacheHit">> \in Outcomes
      BY DEF Outcomes
    <3> QED BY <2>3, <2>4, <3>1 DEF JobStates
  <2>7. s.reports \in Heard(s.mode, FALSE)
    BY <2>6 DEF Heard
  <2>8. s.conn = "open" => s.answered
    BY <1>3, <2>3, <2>6
  <2>9. JobRight(s, FALSE, FALSE)
    BY <1>1, <2>6, <2>7, <2>8 DEF JobRight
  <2> QED BY <1>2, <1>4, <2>5, <2>6, <2>9
<1>5. CASE ~ok
  <2>1. PICK s : s = [o EXCEPT !.conn = IF @ = "open" THEN "closing" ELSE @]
    OBVIOUS
  <2>2. CloseJob(o) = s
    BY <2>1 DEF CloseJob
  <2>3. /\ s \in JobStates /\ s.mode = "cached" /\ s.uploaded = r.uploaded
        /\ s.conn = (IF r.conn = "open" THEN "closing" ELSE r.conn)
        /\ s.aborted = r.aborted /\ s.wait = r.wait /\ s.reports = <<>>
        /\ s.answered = o.answered /\ s.done = TRUE
    BY <1>3, <2>1 DEF JobStates
  <2>4. s.reports \in Heard(s.mode, FALSE)
    BY <2>3 DEF Heard
  <2>5. s.conn # "open" /\ (s.conn \in {"none", "handshaken"} <=> r.conn \in {"none", "handshaken"})
    BY <2>3
  <2>6. JobRight(s, FALSE, FALSE)
    BY <1>1, <2>3, <2>4, <2>5 DEF JobRight
  <2> QED BY <1>2, <1>5, <2>2, <2>3, <2>6
<1> QED BY <1>4, <1>5

LEMMA ClosedRight ==
    ASSUME NEW r, NEW known, JobRight(r, FALSE, known), r.conn \in {"open", "closing"}
    PROVE  LET s == [r EXCEPT !.conn = "closed", !.done = r.mode # "refused"]
           IN  JobRight(s, FALSE, known) /\ s.uploaded = r.uploaded
<1>1. r \in JobStates /\ r.mode # "none"
  BY DEF JobRight
<1>2. PICK s : s = [r EXCEPT !.conn = "closed", !.done = r.mode # "refused"]
  OBVIOUS
<1>3. /\ s \in JobStates /\ s.mode = r.mode /\ s.conn = "closed" /\ s.uploaded = r.uploaded
      /\ s.aborted = r.aborted /\ s.wait = r.wait /\ s.reports = r.reports
      /\ s.answered = r.answered
  <2>1. (r.mode # "refused") \in BOOLEAN
    OBVIOUS
  <2> QED BY <1>1, <1>2, <2>1 DEF JobStates
<1>4. s.reports \in Heard(s.mode, FALSE)
  BY <1>3 DEF JobRight
<1>5. JobRight(s, FALSE, known)
  BY <1>1, <1>3, <1>4 DEF JobRight
<1> QED BY <1>2, <1>3, <1>5

LEMMA GoneRight ==
    ASSUME NEW r, NEW known, JobRight(r, TRUE, known), r.conn \in {"open", "closing"}
    PROVE  LET g == [r EXCEPT !.conn = "closed", !.done = r.mode # "refused", !.aborted = TRUE]
               s == Aborted(g)
           IN  /\ JobRight(s, FALSE, known) /\ s.uploaded = r.uploaded
               /\ g.done /\ s.aborted /\ ~r.aborted
<1>1. /\ r \in JobStates /\ r.mode \in {"backlogged", "cache", "broken", "compiling"}
      /\ ~r.aborted
      /\ r.reports = IF r.mode = "compiling" THEN <<"jobStarted">> ELSE <<>>
  BY DEF JobRight, Heard
<1>2. PICK g : g = [r EXCEPT !.conn = "closed", !.done = r.mode # "refused", !.aborted = TRUE]
  OBVIOUS
<1>3. /\ g \in JobStates /\ g.mode = r.mode /\ g.conn = "closed" /\ g.uploaded = r.uploaded
      /\ g.aborted = TRUE /\ g.wait = r.wait /\ g.reports = r.reports
      /\ g.answered = r.answered /\ g.done = (r.mode # "refused")
  <2>1. (r.mode # "refused") \in BOOLEAN
    OBVIOUS
  <2> QED BY <1>1, <1>2, <2>1 DEF JobStates
<1>4. CASE r.mode = "compiling"
  <2>1. PICK s : s = [g EXCEPT !.reports = <<"jobStarted", "jobAborted">>]
    OBVIOUS
  <2>2. Aborted(g) = s
    BY <1>1, <1>3, <1>4, <2>1, Reported DEF Aborted, Report
  <2>3. /\ s \in JobStates /\ s.mode = r.mode /\ s.conn = "closed" /\ s.uploaded = r.uploaded
        /\ s.aborted = TRUE /\ s.wait = r.wait /\ s.reports = <<"jobStarted", "jobAborted">>
        /\ s.answered = r.answered
    <3>1. <<"jobStarted", "jobAborted">> \in Outcomes
      BY DEF Outcomes
    <3> QED BY <1>3, <2>1, <3>1 DEF JobStates
  <2>4. s.reports \in Heard(s.mode, FALSE)
    BY <1>4, <2>3 DEF Heard
  <2>5. JobRight(s, FALSE, known)
    BY <1>4, <2>3, <2>4 DEF JobRight
  <2> QED BY <1>1, <1>2, <1>3, <1>4, <2>2, <2>3, <2>5
<1>5. CASE r.mode # "compiling"
  <2>1. Aborted(g) = g
    BY <1>3, <1>5 DEF Aborted
  <2>2. g.reports \in Heard(g.mode, FALSE)
    BY <1>1, <1>3, <1>5 DEF Heard
  <2>3. JobRight(g, FALSE, known)
    BY <1>1, <1>3, <1>5, <2>2 DEF JobRight
  <2> QED BY <1>1, <1>2, <1>3, <2>1, <2>3
<1> QED BY <1>4, <1>5

----------------------------------------------------------------------------
(* The steps *)

LEMMA Placed ==
    ASSUME NEW n, NEW r, NEW q, NEW known, NEW waits \in BOOLEAN, NEW knows \in BOOLEAN,
           waits <=> n \in ToSet(q), knows <=> n \in known
    PROVE  JobRight(r, waits, knows) <=> RightIn(n, r, q, known)
<1>1. (n \in ToSet(q)) = waits /\ (n \in known) = knows
  OBVIOUS
<1> QED BY <1>1 DEF RightIn

\* OnlyBackloggedClosesOvershoot, of one step.
Quiet ==
    \/ ~(Cardinality(Working(queue', job')) > Cardinality(Working(queue, job)))
    \/ ~(Cardinality(Working(queue', job')) > Slots)
    \/ \E j \in Jobs : job[j].mode = "backlogged" /\ ~job[j].aborted /\ job'[j].aborted

LEMMA Framed ==
    ASSUME Inv, queue' = queue, \A k \in ToSet(queue) : job'[k].mode = job[k].mode
    PROVE  SlotsBusy(queue', job') /\ Quiet
<1>1. queue \in Seq(Jobs) /\ Distinct(queue) /\ SlotsBusy(queue, job)
  BY DEF Inv, Right
<1>2. PICK js2 : js2 = job'
  OBVIOUS
<1>3. \A k \in ToSet(queue) : js2[k].mode = job[k].mode
  BY <1>2
<1>4. Working(queue, js2) = Working(queue, job) /\ SlotsBusy(queue, js2)
  BY <1>1, <1>3, SameSlots
<1>5. Cardinality(Working(queue, job)) \in Nat
  BY <1>1, WorkingFinite
<1> QED BY <1>2, <1>4, <1>5 DEF Quiet

(* Only a job that is not in the queue, or its mode not, changes. *)
LEMMA OneChanges ==
    ASSUME Inv, NEW j \in Jobs, NEW r, RightIn(j, r, queue, compiles),
           job[j].uploaded => r.uploaded, r.mode = job[j].mode \/ j \notin ToSet(queue),
           queue' = queue, job' = [job EXCEPT ![j] = r]
    PROVE  /\ Right(queue, job', compiles, toChild, compilers, results)
           /\ SlotsBusy(queue', job') /\ Quiet
<1>1. Right(queue, job, compiles, toChild, compilers, results)
  BY DEF Inv
<1>2. /\ Right(queue, [job EXCEPT ![j] = r], compiles, toChild, compilers, results)
      /\ [job EXCEPT ![j] = r][j] = r
      /\ \A k \in Jobs \ {j} : [job EXCEPT ![j] = r][k] = job[k]
  <2>1. j \in Jobs /\ RightIn(j, r, queue, compiles) /\ (job[j].uploaded => r.uploaded)
    OBVIOUS
  <2>2. /\ Right(queue, [job EXCEPT ![j] = r], compiles, toChild, compilers, results)
        /\ \A k \in Jobs \ {j} : [job EXCEPT ![j] = r][k] = job[k]
    BY ONLY <1>1, <2>1, JobChanges
  <2>3. [job EXCEPT ![j] = r][j] = r
    BY <1>1 DEF Right, JobsRight
  <2> QED BY <2>2, <2>3
<1>3. ToSet(queue) \subseteq Jobs
  <2>1. queue \in Seq(Jobs)
    BY <1>1 DEF Right
  <2>2. DOMAIN queue = 1..Len(queue) /\ \A i \in 1..Len(queue) : queue[i] \in Jobs
    BY <2>1, LenProperties, ElementOfSeq
  <2> QED BY <2>2 DEF ToSet
<1>4. \A k \in ToSet(queue) : job'[k].mode = job[k].mode
  BY <1>2, <1>3
<1> QED BY <1>2, <1>4, Framed

LEMMA JobIsRight ==
    ASSUME Inv, NEW j \in Jobs
    PROVE  /\ job \in [Jobs -> JobStates] /\ job[j] \in JobStates
           /\ RightIn(j, job[j], queue, compiles)
BY DEF Inv, Right, JobsRight, RightIn

LEMMA HeadersStep ==
    ASSUME Inv, NEW j \in Jobs, NEW cached \in BOOLEAN, Headers(j, cached)
    PROVE  Inv' /\ Quiet
<1>1. PICK w \in BOOLEAN :
         w = (cached \/ \E i \in Slots + 1..Len(queue) : Priority[queue[i]] >= Priority[j])
  OBVIOUS
<1>2. PICK r : r = [job[j] EXCEPT !.conn = "handshaken", !.wait = w]
  OBVIOUS
<1>3. job \in [Jobs -> JobStates] /\ job[j] \in JobStates /\ RightIn(j, job[j], queue, compiles)
  BY JobIsRight
<1>4. job[j].conn = "none"
  BY DEF Headers
<1>5. job' = [job EXCEPT ![j] = r]
  BY <1>1, <1>2, <1>3 DEF Headers
<1>6. /\ r \in JobStates /\ r.mode = job[j].mode /\ r.conn = "handshaken"
      /\ r.uploaded = job[j].uploaded /\ r.aborted = job[j].aborted
      /\ r.reports = job[j].reports /\ r.done = job[j].done
  BY <1>2, <1>3 DEF JobStates
<1>7. RightIn(j, r, queue, compiles)
  BY <1>3, <1>4, <1>6 DEF RightIn, JobRight
<1>8. UNCHANGED <<queue, env, vmVars>>
  BY DEF Headers
<1>9. /\ Right(queue, job', compiles, toChild, compilers, results)
      /\ SlotsBusy(queue', job') /\ Quiet
  BY <1>5, <1>6, <1>7, <1>8, OneChanges
<1> QED BY <1>8, <1>9 DEF Inv, vmVars

LEMMA JobRefusedStep ==
    ASSUME Inv, NEW j \in Jobs, JobRefused(j)
    PROVE  Inv' /\ Quiet
<1>2. PICK r : r = [job[j] EXCEPT !.conn = "closing", !.mode = "refused"]
  OBVIOUS
<1>3. job \in [Jobs -> JobStates] /\ job[j] \in JobStates /\ RightIn(j, job[j], queue, compiles)
  BY JobIsRight
<1>4. job[j].conn = "handshaken"
  BY DEF JobRefused
<1>5. job' = [job EXCEPT ![j] = r]
  BY <1>2, <1>3 DEF JobRefused
<1>6. /\ r \in JobStates /\ r.mode = "refused" /\ r.conn = "closing"
      /\ r.uploaded = job[j].uploaded /\ r.aborted = job[j].aborted
      /\ r.reports = job[j].reports /\ r.done = job[j].done
  BY <1>2, <1>3 DEF JobStates
<1>7. job[j].mode = "none" /\ j \notin ToSet(queue) /\ j \notin compiles
      /\ job[j].reports = <<>>
  BY <1>3, <1>4 DEF RightIn, JobRight, Heard
<1>8. RightIn(j, r, queue, compiles)
  <2>1. r.reports \in Heard(r.mode, j \in ToSet(queue))
    BY <1>6, <1>7 DEF Heard
  <2> QED BY <1>3, <1>6, <1>7, <2>1 DEF RightIn, JobRight
<1>9. UNCHANGED <<queue, env, vmVars>>
  BY DEF JobRefused
<1>10. /\ Right(queue, job', compiles, toChild, compilers, results)
       /\ SlotsBusy(queue', job') /\ Quiet
  BY <1>5, <1>6, <1>7, <1>8, <1>9, OneChanges
<1> QED BY <1>9, <1>10 DEF Inv, vmVars

LEMMA SocketErrorStep ==
    ASSUME Inv, NEW j \in Jobs, SocketError(j)
    PROVE  Inv' /\ Quiet
<1>2. PICK r : r = [job[j] EXCEPT !.conn = "closing", !.done = TRUE]
  OBVIOUS
<1>3. job \in [Jobs -> JobStates] /\ job[j] \in JobStates /\ RightIn(j, job[j], queue, compiles)
  BY JobIsRight
<1>4. job[j].conn = "open"
  BY DEF SocketError
<1>5. job' = [job EXCEPT ![j] = r]
  BY <1>2, <1>3 DEF SocketError
<1>6. /\ r \in JobStates /\ r.mode = job[j].mode /\ r.conn = "closing"
      /\ r.uploaded = job[j].uploaded /\ r.aborted = job[j].aborted
      /\ r.reports = job[j].reports
  BY <1>2, <1>3 DEF JobStates
<1>8. RightIn(j, r, queue, compiles)
  BY <1>3, <1>4, <1>6 DEF RightIn, JobRight
<1>9. UNCHANGED <<queue, env, vmVars>>
  BY DEF SocketError
<1>10. /\ Right(queue, job', compiles, toChild, compilers, results)
       /\ SlotsBusy(queue', job') /\ Quiet
  BY <1>5, <1>6, <1>8, <1>9, OneChanges
<1> QED BY <1>9, <1>10 DEF Inv, vmVars

LEMMA JobArrivesStep ==
    ASSUME Inv, NEW j \in Jobs, JobArrives(j)
    PROVE  Inv' /\ Quiet
<1>1. PICK q, r, js :
         /\ q = InsertAt(queue, PlaceFor(Priority[j]), j)
         /\ r = [job[j] EXCEPT !.conn = "open", !.mode = "backlogged"]
         /\ js = [job EXCEPT ![j] = r]
  OBVIOUS
<1>2. /\ job \in [Jobs -> JobStates] /\ job[j] \in JobStates
      /\ RightIn(j, job[j], queue, compiles)
  BY JobIsRight
<1>3. js = [job EXCEPT ![j].conn = "open", ![j].mode = "backlogged"]
  BY <1>1, <1>2
<1>4. /\ job[j].conn = "handshaken" /\ queue' = q
      /\ IF Len(q) <= Slots THEN Start(j, js, toChild, compiles)
                            ELSE StartNothing(js, toChild, compiles)
      /\ UNCHANGED <<env, child, compilers, results>>
  BY <1>1, <1>3 DEF JobArrives
<1>5. /\ queue \in Seq(Jobs) /\ Distinct(queue) /\ Ordered(queue) /\ SlotsBusy(queue, job)
      /\ JobsRight(queue, job, compiles)
      /\ ChildRight(job, compiles, toChild, compilers, results)
  BY DEF Inv, Right, Ordered
<1>6. /\ job[j].mode = "none" /\ j \notin ToSet(queue) /\ j \notin compiles
      /\ job[j].reports = <<>> /\ ~job[j].aborted /\ ~job[j].done /\ ~job[j].uploaded
  BY <1>2, <1>4 DEF RightIn, JobRight, Heard
<1>7. PICK i \in 1..(Len(queue) + 1) : i = PlaceFor(Priority[j])
  BY <1>5, JoinOrder
<1>8. Ordered(q)
  BY <1>1, <1>5, JoinOrder
<1>9. q \in Seq(Jobs) /\ Distinct(q) /\ ToSet(q) = ToSet(queue) \cup {j}
      /\ Len(q) = Len(queue) + 1
  <2>1. i \in 1..(Len(queue) + 1)
    BY <1>7
  <2>2. /\ InsertAt(queue, i, j) \in Seq(Jobs) /\ Len(InsertAt(queue, i, j)) = Len(queue) + 1
        /\ Distinct(InsertAt(queue, i, j)) /\ ToSet(InsertAt(queue, i, j)) = ToSet(queue) \cup {j}
    BY <1>5, <1>6, <2>1, InsertAtElements, InsertElements
  <2> QED BY <1>1, <1>7, <2>2
<1>10. /\ r \in JobStates /\ r.mode = "backlogged" /\ r.conn = "open"
       /\ r.uploaded = job[j].uploaded /\ r.aborted = job[j].aborted
       /\ r.reports = job[j].reports /\ r.done = job[j].done
  BY <1>1, <1>2 DEF JobStates
<1>11. RightIn(j, r, q, compiles)
  <2>1. JobRight(r, TRUE, FALSE)
    <3>1. r.reports \in Heard(r.mode, TRUE)
      BY <1>6, <1>10 DEF Heard
    <3> QED BY <1>6, <1>10, <3>1 DEF JobRight
  <2>2. TRUE <=> j \in ToSet(q)
    BY <1>9
  <2>3. FALSE <=> j \in compiles
    BY <1>6
  <2> QED BY <2>1, <2>2, <2>3, Placed
<1>12. OthersStay(j, queue, compiles, q, compiles)
  BY <1>9 DEF OthersStay
<1>13. JobsRight(q, js, compiles) /\ js[j] = r /\ \A k \in Jobs \ {j} : js[k] = job[k]
  <2>1. /\ JobsRight(q, [job EXCEPT ![j] = r], compiles)
        /\ \A k \in Jobs \ {j} : [job EXCEPT ![j] = r][k] = job[k]
    BY <1>5, <1>11, <1>12, OneJob
  <2> QED BY <1>1, <1>2, <2>1
<1>14. ChildRight(js, compiles, toChild, compilers, results)
  <2>1. \A k \in Jobs : job[k].uploaded => js[k].uploaded
    BY <1>6, <1>13
  <2>2. compiles \in SUBSET Jobs
    BY <1>5 DEF ChildRight
  <2> QED BY <1>5, <2>1, <2>2, ChildFrame
<1>15. Right(q, js, compiles, toChild, compilers, results)
  BY <1>8, <1>9, <1>13, <1>14 DEF Right, Ordered
<1>16. ToSet(queue) \subseteq Jobs
  <2>1. DOMAIN queue = 1..Len(queue) /\ \A k \in 1..Len(queue) : queue[k] \in Jobs
    BY <1>5, LenProperties, ElementOfSeq
  <2> QED BY <2>1 DEF ToSet
<1>17. PICK js2 : js2 = job'
  OBVIOUS
<1>18. PICK A, B : A = Working(queue, job) /\ B = Working(q, js2)
  OBVIOUS
<1>19. /\ Cardinality(A) \in Nat /\ Cardinality(A) <= Len(queue) /\ Len(queue) \in Nat
       /\ Cardinality(B) \in Nat /\ Cardinality(B) <= Len(q)
       /\ (\A k \in ToSet(queue) : job[k].mode # "backlogged") => Cardinality(A) = Len(queue)
  BY <1>5, <1>9, <1>18, WorkingFinite
<1>20. CASE Len(q) <= Slots
  <2>1. j \in ToSet(q) /\ js[j].mode = "backlogged" /\ Start(j, js, toChild, compiles)
    BY <1>4, <1>9, <1>10, <1>13, <1>20
  <2>2. /\ Right(q, job', compiles', toChild', compilers, results)
        /\ job'[j].mode # "backlogged"
        /\ \A k \in Jobs \ {j} : job'[k] = js[k]
    BY <1>15, <2>1, StartRight
  <2>3. \A k \in ToSet(q) : js2[k].mode # "backlogged"
    <3>1. ~(Cardinality(A) >= Slots)
      BY <1>9, <1>19, <1>20, JobsAssumption
    <3>2. \A k \in ToSet(queue) : job[k].mode # "backlogged"
      BY <1>5, <1>18, <3>1 DEF SlotsBusy
    <3> QED BY <1>6, <1>9, <1>13, <1>16, <1>17, <2>2, <3>2
  <2>4. SlotsBusy(q, js2)
    BY <2>3 DEF SlotsBusy
  <2>5. ~(Cardinality(B) > Slots)
    BY <1>19, <1>9, <1>20, JobsAssumption
  <2> QED BY <1>4, <1>17, <1>18, <2>2, <2>4, <2>5 DEF Inv, Quiet
<1>21. CASE ~(Len(q) <= Slots)
  <2>1. js2 = js /\ toChild' = toChild /\ compiles' = compiles
    BY <1>4, <1>17, <1>21 DEF StartNothing
  <2>2. B = A
    <3>1. ASSUME NEW k \in A PROVE k \in B
      BY <1>6, <1>9, <1>13, <1>16, <1>18, <2>1, <3>1 DEF Working
    <3>2. ASSUME NEW k \in B PROVE k \in A
      BY <1>9, <1>10, <1>13, <1>16, <1>18, <2>1, <3>2 DEF Working
    <3> QED BY <3>1, <3>2
  <2>3. Cardinality(A) >= Slots
    <3>1. CASE \A k \in ToSet(queue) : job[k].mode # "backlogged"
      BY <1>9, <1>19, <1>21, <3>1, JobsAssumption
    <3>2. CASE \E k \in ToSet(queue) : job[k].mode = "backlogged"
      BY <1>5, <1>18, <3>2 DEF SlotsBusy
    <3> QED BY <3>1, <3>2
  <2>4. SlotsBusy(q, js2)
    BY <1>18, <2>2, <2>3 DEF SlotsBusy
  <2>5. ~(Cardinality(B) > Cardinality(A))
    BY <1>19, <2>2
  <2> QED BY <1>4, <1>15, <1>17, <1>18, <2>1, <2>4, <2>5 DEF Inv, Quiet
<1> QED BY <1>20, <1>21

LEMMA DataArrivesStep ==
    ASSUME Inv, NEW j \in Jobs, DataArrives(j)
    PROVE  Inv' /\ Quiet
<1>1. PICK r : r = [job[j] EXCEPT !.uploaded = TRUE]
  OBVIOUS
<1>2. /\ job \in [Jobs -> JobStates] /\ job[j] \in JobStates
      /\ RightIn(j, job[j], queue, compiles)
  BY JobIsRight
<1>3. job' = [job EXCEPT ![j] = r]
  BY <1>1, <1>2 DEF DataArrives
<1>4. /\ job[j].conn \in {"open", "closing"} /\ ~job[j].uploaded
      /\ UNCHANGED <<queue, env, compiles, child, compilers, results>>
      /\ toChild' = IF job[j].mode = "compiling"
                     THEN Append(toChild, Message("compile", j)) ELSE toChild
  BY DEF DataArrives
<1>5. /\ r \in JobStates /\ r.mode = job[j].mode /\ r.conn = job[j].conn /\ r.uploaded
      /\ r.aborted = job[j].aborted /\ r.reports = job[j].reports /\ r.done = job[j].done
      /\ r.wait = job[j].wait /\ r.answered = job[j].answered
  BY <1>1, <1>2 DEF JobStates
<1>6. RightIn(j, r, queue, compiles)
  BY <1>2, <1>4, <1>5 DEF RightIn, JobRight
<1>7. /\ Right(queue, job', compiles, toChild, compilers, results)
      /\ SlotsBusy(queue', job') /\ Quiet
  BY <1>3, <1>4, <1>5, <1>6, OneChanges
<1>8. CASE job[j].mode = "compiling"
  <2>1. j \in compiles
    BY <1>2, <1>4, <1>8 DEF RightIn, JobRight
  <2>2. job'[j].uploaded
    BY <1>2, <1>3, <1>5
  <2>3. Idle(j, toChild, compilers, results)
    BY <1>4 DEF Inv, Right, ChildRight, Idle
  <2>4. PICK js2 : js2 = job'
    OBVIOUS
  <2>5. ChildRight(js2, compiles, toChild, compilers, results)
    BY <1>7, <2>4 DEF Right
  <2>6. ChildRight(js2, compiles, Append(toChild, Message("compile", j)), compilers, results)
    BY <2>1, <2>2, <2>3, <2>4, <2>5, AskChild
  <2>7. Right(queue', job', compiles', toChild', compilers', results')
    BY <1>4, <1>7, <1>8, <2>4, <2>6 DEF Right
  <2> QED BY <1>4, <1>7, <2>7 DEF Inv
<1>9. CASE job[j].mode # "compiling"
  BY <1>4, <1>7, <1>9 DEF Inv
<1> QED BY <1>8, <1>9

LEMMA CacheReadDoneStep ==
    ASSUME Inv, NEW j \in Jobs, NEW ok \in BOOLEAN, CacheReadDone(j, ok)
    PROVE  Inv' /\ Quiet
<1>1. /\ job \in [Jobs -> JobStates] /\ job[j] \in JobStates
      /\ RightIn(j, job[j], queue, compiles)
  BY JobIsRight
<1>2. job[j].mode = "cache" /\ UNCHANGED <<env, child, compilers, results>>
  BY DEF CacheReadDone
<1>3. j \notin compiles /\ (j \in ToSet(queue) <=> ~job[j].aborted)
  BY <1>1, <1>2 DEF RightIn, JobRight
<1>4. CASE job[j].aborted
  <2>1. PICK r : r = [job[j] EXCEPT !.mode = "cached"]
    OBVIOUS
  <2>2. /\ job' = [job EXCEPT ![j] = r] /\ queue' = queue /\ compiles' = compiles
        /\ toChild' = toChild
    BY <1>1, <1>4, <2>1 DEF CacheReadDone
  <2>3. JobRight(job[j], FALSE, FALSE)
    BY <1>1, <1>3, <1>4, Placed
  <2>4. JobRight(r, FALSE, FALSE) /\ r.uploaded = job[j].uploaded
    BY <1>2, <2>1, <2>3, ReadRight
  <2>5. RightIn(j, r, queue, compiles)
    BY <1>3, <1>4, <2>4, Placed
  <2>6. /\ Right(queue, job', compiles, toChild, compilers, results)
        /\ SlotsBusy(queue', job') /\ Quiet
    BY <1>3, <1>4, <2>2, <2>4, <2>5, OneChanges
  <2> QED BY <1>2, <2>2, <2>6 DEF Inv
<1>5. CASE ~job[j].aborted
  <2>1. PICK o : o = [job[j] EXCEPT !.mode = "cached", !.done = TRUE]
    OBVIOUS
  <2>2. PICK r : r = IF ok THEN Report(Answer(o), "cacheHit") ELSE CloseJob(o)
    OBVIOUS
  <2>3. StartPending(Without(queue, j), [job EXCEPT ![j] = r], toChild, compiles)
    <3>1. PICK over : over = [[job EXCEPT ![j].mode = "cached"] EXCEPT ![j].done = TRUE]
      OBVIOUS
    <3>2. over \in [Jobs -> JobStates] /\ over[j] = o /\ \A k \in Jobs \ {j} : over[k] = job[k]
      BY <1>1, <2>1, <3>1 DEF JobStates
    <3>3. StartPending(Without(queue, j),
                       [over EXCEPT ![j] = IF ok THEN Report(Answer(@), "cacheHit")
                                                 ELSE CloseJob(@)], toChild, compiles)
      BY <1>5, <3>1 DEF CacheReadDone
    <3>4. [over EXCEPT ![j] = IF ok THEN Report(Answer(@), "cacheHit") ELSE CloseJob(@)]
            = [over EXCEPT ![j] = r]
      BY <2>2, <3>2
    <3>5. [over EXCEPT ![j] = r] = [job EXCEPT ![j] = r]
      BY <1>1, <3>2
    <3> QED BY <3>3, <3>4, <3>5
  <2>4. JobRight(job[j], TRUE, FALSE)
    BY <1>1, <1>3, <1>5, Placed
  <2>5. JobRight(r, FALSE, FALSE) /\ r.uploaded = job[j].uploaded
    BY <1>2, <2>1, <2>2, <2>4, ServedRight
  <2>6. ToSet(Without(queue, j)) = ToSet(queue) \ {j}
    BY WithoutElements DEF Inv, Right
  <2>7. RightIn(j, r, Without(queue, j), compiles)
    <3>1. FALSE <=> j \in ToSet(Without(queue, j))
      BY <2>6
    <3>2. FALSE <=> j \in compiles
      BY <1>3
    <3> QED BY <2>5, <3>1, <3>2, Placed
  <2>8. j \in Working(queue, job)
    BY <1>2, <1>3, <1>5 DEF Working
  <2>9. /\ Right(queue, job, compiles, toChild, compilers, results) /\ SlotsBusy(queue, job)
        /\ job[j].uploaded => r.uploaded
    BY <2>5 DEF Inv
  <2>10. /\ Right(queue', job', compiles', toChild', compilers, results)
         /\ SlotsBusy(queue', job')
         /\ Cardinality(Working(queue', job')) <= Cardinality(Working(queue, job))
    BY <2>3, <2>7, <2>8, <2>9, Leave
  <2>11. Quiet
    <3>1. /\ Cardinality(Working(queue, job)) \in Nat
          /\ Cardinality(Working(queue', job')) \in Nat
      BY <2>9, <2>10, WorkingFinite DEF Right
    <3> QED BY <2>10, <3>1 DEF Quiet
  <2> QED BY <1>2, <2>10, <2>11 DEF Inv
<1> QED BY <1>4, <1>5

(* VM.compileFinished, for a result that was on its way or a message that could not be
   sent. *)
LEMMA FinishStep ==
    ASSUME Inv, NEW j \in compiles, NEW success \in BOOLEAN, NEW pipe, NEW rs,
           job[j].uploaded, ChildRight(job, compiles, pipe, compilers, rs),
           Idle(j, pipe, compilers, rs), Finish(j, success, pipe)
    PROVE  /\ Right(queue', job', compiles', toChild', compilers, rs)
           /\ SlotsBusy(queue', job') /\ Quiet
<1>1. j \in Jobs
  BY DEF ChildRight
<1>2. /\ job \in [Jobs -> JobStates] /\ job[j] \in JobStates
      /\ RightIn(j, job[j], queue, compiles)
  BY <1>1, JobIsRight
<1>3. job[j].mode = "compiling" /\ (j \in ToSet(queue) <=> ~job[j].aborted)
  BY <1>2 DEF RightIn, JobRight
<1>4. Right(queue, job, compiles, pipe, compilers, rs) /\ SlotsBusy(queue, job)
  BY DEF Inv, Right
<1>5. PICK o : o = [job[j] EXCEPT !.done = TRUE]
  OBVIOUS
<1>6. PICK over : over = [job EXCEPT ![j].done = TRUE]
  OBVIOUS
<1>7. over \in [Jobs -> JobStates] /\ over = [job EXCEPT ![j] = o] /\ over[j] = o
  BY <1>1, <1>2, <1>5, <1>6 DEF JobStates
<1>8. CASE job[j].aborted
  <2>1. queue' = queue /\ job' = over /\ toChild' = pipe /\ compiles' = compiles \ {j}
    BY <1>6, <1>8 DEF Finish, StartNothing
  <2>2. JobRight(job[j], FALSE, TRUE)
    BY <1>2, <1>3, <1>8, Placed
  <2>3. JobRight(o, FALSE, FALSE) /\ o.uploaded /\ o.mode = job[j].mode
    BY <1>5, <2>2, OverRight
  <2>4. RightIn(j, o, queue, compiles \ {j})
    <3>1. (FALSE <=> j \in ToSet(queue)) /\ (FALSE <=> j \in compiles \ {j})
      BY <1>3, <1>8
    <3> QED BY <2>3, <3>1, Placed
  <2>5. OthersStay(j, queue, compiles, queue, compiles \ {j})
    BY DEF OthersStay
  <2>6. JobsRight(queue, job, compiles)
    BY <1>4 DEF Right
  <2>7. JobsRight(queue, [job EXCEPT ![j] = o], compiles \ {j})
    BY <1>1, <2>4, <2>5, <2>6, OneJob
  <2>8. \A k \in Jobs \ {j} : over[k] = job[k]
    BY <1>2, <1>7
  <2>9. ChildRight(over, compiles, pipe, compilers, rs)
    <3>1. \A k \in Jobs : job[k].uploaded => over[k].uploaded
      BY <1>7, <2>3, <2>8
    <3>2. compiles \in SUBSET Jobs
      BY DEF ChildRight
    <3> QED BY <3>1, <3>2, ChildFrame
  <2>10. ChildRight(over, compiles \ {j}, pipe, compilers, rs)
    BY <2>9, ForgetJob
  <2>11. Right(queue, over, compiles \ {j}, pipe, compilers, rs)
    BY <1>4, <1>7, <2>7, <2>10 DEF Right
  <2>12. ToSet(queue) \subseteq Jobs
    <3>1. queue \in Seq(Jobs)
      BY <1>4 DEF Right
    <3>2. DOMAIN queue = 1..Len(queue) /\ \A i \in 1..Len(queue) : queue[i] \in Jobs
      BY <3>1, LenProperties, ElementOfSeq
    <3> QED BY <3>2 DEF ToSet
  <2>13. \A k \in ToSet(queue) : job'[k].mode = job[k].mode
    BY <1>7, <2>1, <2>3, <2>8, <2>12
  <2>14. SlotsBusy(queue', job') /\ Quiet
    BY <2>1, <2>13, Framed
  <2> QED BY <2>1, <2>11, <2>14
<1>9. CASE ~job[j].aborted
  <2>1. PICK what \in {"jobFinished", "jobAborted"} :
           what = IF success THEN "jobFinished" ELSE "jobAborted"
    OBVIOUS
  <2>2. PICK r : r = Report(Answer(o), what)
    OBVIOUS
  <2>3. StartPending(Without(queue, j), [job EXCEPT ![j] = r], pipe, compiles \ {j})
    <3>1. StartPending(Without(queue, j), [over EXCEPT ![j] = Report(Answer(@), what)],
                       pipe, compiles \ {j})
      BY <1>6, <1>9, <2>1 DEF Finish
    <3>2. [over EXCEPT ![j] = Report(Answer(@), what)] = [over EXCEPT ![j] = r]
      BY <1>7, <2>2
    <3>3. [over EXCEPT ![j] = r] = [job EXCEPT ![j] = r]
      BY <1>2, <1>7
    <3> QED BY <3>1, <3>2, <3>3
  <2>4. JobRight(job[j], TRUE, TRUE)
    BY <1>2, <1>3, <1>9, Placed
  <2>5. JobRight(r, FALSE, FALSE) /\ r.uploaded
    BY <1>5, <2>2, <2>4, EndedRight
  <2>6. ToSet(Without(queue, j)) = ToSet(queue) \ {j}
    BY <1>4, WithoutElements DEF Right
  <2>7. RightIn(j, r, Without(queue, j), compiles \ {j})
    <3>1. (FALSE <=> j \in ToSet(Without(queue, j))) /\ (FALSE <=> j \in compiles \ {j})
      BY <2>6
    <3> QED BY <2>5, <3>1, Placed
  <2>8. j \in Working(queue, job)
    BY <1>3, <1>9 DEF Working
  <2>9. /\ Right(queue', job', compiles', toChild', compilers, rs)
        /\ SlotsBusy(queue', job')
        /\ Cardinality(Working(queue', job')) <= Cardinality(Working(queue, job))
    BY <1>1, <1>4, <2>3, <2>5, <2>7, <2>8, Leave
  <2>10. Quiet
    <3>1. /\ Cardinality(Working(queue, job)) \in Nat
          /\ Cardinality(Working(queue', job')) \in Nat
      BY <1>4, <2>9, WorkingFinite DEF Right
    <3> QED BY <2>9, <3>1 DEF Quiet
  <2> QED BY <2>9, <2>10
<1> QED BY <1>8, <1>9

LEMMA CompileFinishedStep ==
    ASSUME Inv, NEW j \in Jobs, NEW success \in BOOLEAN, CompileFinished(j, success)
    PROVE  Inv' /\ Quiet
<1>1. PICK rs : rs = results \ {<<j, success>>}
  OBVIOUS
<1>2. /\ <<j, success>> \in results /\ results' = rs /\ Finish(j, success, toChild)
      /\ UNCHANGED <<env, child, compilers>>
  BY <1>1 DEF CompileFinished
<1>3. ChildRight(job, compiles, toChild, compilers, results)
  BY DEF Inv, Right
<1>4. j \in Told(results)
  BY <1>2 DEF Told
<1>5. Told(rs) = Told(results) \ {j}
  <2>1. j \notin Told(rs)
    BY <1>1, <1>2, <1>3 DEF Told, ChildRight
  <2>2. ASSUME NEW k \in Jobs \ {j} PROVE k \in Told(rs) <=> k \in Told(results)
    BY <1>1 DEF Told
  <2>3. Told(rs) \subseteq Jobs /\ Told(results) \subseteq Jobs
    BY DEF Told
  <2> QED BY <2>1, <2>2, <2>3
<1>6. ChildRight(job, compiles, toChild, compilers, rs)
  BY <1>1, <1>3, <1>5 DEF ChildRight
<1>7. j \in compiles /\ job[j].uploaded /\ Idle(j, toChild, compilers, rs)
  BY <1>3, <1>4, <1>5 DEF ChildRight, Idle
<1>8. /\ Right(queue', job', compiles', toChild', compilers, rs)
      /\ SlotsBusy(queue', job') /\ Quiet
  BY <1>2, <1>6, <1>7, FinishStep
<1> QED BY <1>2, <1>8 DEF Inv

LEMMA ReadRest ==
    ASSUME NEW js, NEW known, NEW pipe, NEW running, NEW rs, ChildRight(js, known, pipe, running, rs),
           pipe # <<>>
    PROVE  /\ ChildRight(js, known, Tail(pipe), running, rs)
           /\ Head(pipe).type \in {"compile", "destroy"}
           /\ Head(pipe).type = "compile" =>
                 /\ Head(pipe).id \in known /\ js[Head(pipe).id].uploaded
                 /\ Idle(Head(pipe).id, Tail(pipe), running, rs)
<1>1. PICK h, t : h = Head(pipe) /\ t = Tail(pipe)
  OBVIOUS
<1>2. PipeRight(pipe)
  BY DEF ChildRight
<1>3. /\ h \in Messages /\ PipeRight(t)
      /\ h.type = "compile" => h.id \in Asked(pipe) /\ Asked(t) = Asked(pipe) \ {h.id}
      /\ h.type = "destroy" => Asked(t) = Asked(pipe)
  BY <1>1, <1>2, ReadMessage
<1>4. h.type \in {"compile", "destroy"}
  BY <1>3 DEF Messages
<1>5. Asked(t) \subseteq Asked(pipe)
  BY <1>3, <1>4
<1>6. ChildRight(js, known, t, running, rs)
  BY <1>3, <1>5 DEF ChildRight
<1>7. h.type = "compile" => h.id \in known /\ js[h.id].uploaded /\ Idle(h.id, t, running, rs)
  BY <1>3 DEF ChildRight, Idle
<1> QED BY <1>1, <1>4, <1>6, <1>7

LEMMA SendFailedStep ==
    ASSUME Inv, SendFailed
    PROVE  Inv' /\ Quiet
<1>1. toChild # <<>> /\ UNCHANGED <<env, child, compilers, results>>
  BY DEF SendFailed
<1>2. ChildRight(job, compiles, toChild, compilers, results)
  BY DEF Inv, Right
<1>3. PICK h, t : h = Head(toChild) /\ t = Tail(toChild)
  OBVIOUS
<1>4. /\ ChildRight(job, compiles, t, compilers, results)
      /\ h.type \in {"compile", "destroy"}
      /\ h.type = "compile" =>
            h.id \in compiles /\ job[h.id].uploaded /\ Idle(h.id, t, compilers, results)
  BY <1>1, <1>2, <1>3, ReadRest
<1>5. CASE h.type = "destroy"
  <2>1. toChild' = t /\ UNCHANGED <<queue, job, compiles>>
    BY <1>3, <1>5 DEF SendFailed
  <2>2. SlotsBusy(queue', job') /\ Quiet
    BY <2>1, Framed
  <2>3. Right(queue, job, compiles, t, compilers, results)
    BY <1>4 DEF Inv, Right
  <2> QED BY <1>1, <2>1, <2>2, <2>3 DEF Inv
<1>6. CASE h.type = "compile"
  <2>1. Finish(h.id, FALSE, t)
    BY <1>3, <1>6 DEF SendFailed
  <2>2. /\ Right(queue', job', compiles', toChild', compilers, results)
        /\ SlotsBusy(queue', job') /\ Quiet
    BY <1>4, <1>6, <2>1, FinishStep
  <2> QED BY <1>1, <2>2 DEF Inv
<1> QED BY <1>4, <1>5, <1>6

LEMMA CloseStep ==
    ASSUME Inv, NEW j \in Jobs, Close(j)
    PROVE  Inv' /\ Quiet
<1>1. /\ job \in [Jobs -> JobStates] /\ job[j] \in JobStates
      /\ RightIn(j, job[j], queue, compiles)
  BY JobIsRight
<1>2. job[j].conn \in {"open", "closing"} /\ UNCHANGED <<env, child, compilers, results>>
  BY DEF Close
<1>3. PICK knows \in BOOLEAN : knows <=> j \in compiles
  <2>1. (j \in compiles) \in BOOLEAN
    OBVIOUS
  <2> QED BY <2>1
<1>4. PICK closed : closed = [job EXCEPT ![j].conn = "closed", ![j].done = job[j].mode # "refused"]
  OBVIOUS
<1>5. CASE j \notin ToSet(queue)
  <2>1. PICK r : r = [job[j] EXCEPT !.conn = "closed", !.done = job[j].mode # "refused"]
    OBVIOUS
  <2>2. /\ job' = [job EXCEPT ![j] = r]
        /\ queue' = queue /\ compiles' = compiles /\ toChild' = toChild
    BY <1>1, <1>5, <2>1 DEF Close
  <2>3. JobRight(job[j], FALSE, knows)
    BY <1>1, <1>3, <1>5, Placed
  <2>4. JobRight(r, FALSE, knows) /\ r.uploaded = job[j].uploaded
    BY <1>2, <2>1, <2>3, ClosedRight
  <2>5. RightIn(j, r, queue, compiles)
    BY <1>3, <1>5, <2>4, Placed
  <2>6. /\ Right(queue, job', compiles, toChild, compilers, results)
        /\ SlotsBusy(queue', job') /\ Quiet
    BY <1>5, <2>2, <2>4, <2>5, OneChanges
  <2> QED BY <1>2, <2>2, <2>6 DEF Inv
<1>6. CASE j \in ToSet(queue)
  <2>1. PICK g : g = [job[j] EXCEPT !.conn = "closed", !.done = job[j].mode # "refused",
                                    !.aborted = TRUE]
    OBVIOUS
  <2>2. PICK r : r = Aborted(g)
    OBVIOUS
  <2>3. JobRight(job[j], TRUE, knows)
    BY <1>1, <1>3, <1>6, Placed
  <2>4. /\ JobRight(r, FALSE, knows) /\ r.uploaded = job[j].uploaded
        /\ g.done /\ r.aborted /\ ~job[j].aborted
    BY <1>2, <2>1, <2>2, <2>3, GoneRight
  <2>5. PICK gone : gone = [closed EXCEPT ![j].aborted = TRUE]
    OBVIOUS
  <2>6. gone = [job EXCEPT ![j] = g] /\ gone[j] = g
    BY <1>1, <1>4, <2>1, <2>5 DEF JobStates
  <2>7. StartPending(Without(queue, j), [gone EXCEPT ![j] = Aborted(@)],
                     toChild \o Cancel(j, gone[j]), compiles)
    BY <1>4, <1>6, <2>5 DEF Close
  <2>8. toChild \o Cancel(j, gone[j]) = toChild
    <3>1. Cancel(j, gone[j]) = <<>>
      BY <2>4, <2>6 DEF Cancel
    <3>2. toChild \in Seq(Messages)
      BY DEF Inv, Right, ChildRight, PipeRight, Messages
    <3> QED BY <3>1, <3>2, ConcatEmptySeq
  <2>9. [gone EXCEPT ![j] = Aborted(@)] = [job EXCEPT ![j] = r]
    <3>1. [gone EXCEPT ![j] = Aborted(@)] = [gone EXCEPT ![j] = r]
      BY <2>2, <2>6
    <3> QED BY <1>1, <2>6, <3>1
  <2>10. StartPending(Without(queue, j), [job EXCEPT ![j] = r], toChild, compiles)
    BY <2>7, <2>8, <2>9
  <2>11. ToSet(Without(queue, j)) = ToSet(queue) \ {j}
    BY WithoutElements DEF Inv, Right
  <2>12. RightIn(j, r, Without(queue, j), compiles)
    <3>1. FALSE <=> j \in ToSet(Without(queue, j))
      BY <2>11
    <3> QED BY <1>3, <2>4, <3>1, Placed
  <2>13. /\ Right(queue, job, compiles, toChild, compilers, results) /\ SlotsBusy(queue, job)
         /\ job[j].uploaded => r.uploaded
    BY <2>4 DEF Inv
  <2>14. /\ Right(queue', job', compiles', toChild', compilers, results)
         /\ SlotsBusy(queue', job')
         /\ j \in Working(queue, job) =>
               Cardinality(Working(queue', job')) <= Cardinality(Working(queue, job))
         /\ job'[j] = r
    BY <2>10, <2>12, <2>13, Leave
  <2>15. Quiet
    <3>1. CASE j \in Working(queue, job)
      <4>1. /\ Cardinality(Working(queue, job)) \in Nat
            /\ Cardinality(Working(queue', job')) \in Nat
        BY <2>13, <2>14, WorkingFinite DEF Right
      <4> QED BY <2>14, <3>1, <4>1 DEF Quiet
    <3>2. CASE j \notin Working(queue, job)
      BY <1>6, <2>4, <2>14, <3>2 DEF Working, Quiet
    <3> QED BY <3>1, <3>2
  <2> QED BY <1>2, <2>14, <2>15 DEF Inv
<1> QED BY <1>5, <1>6

(* Steps of the child and its pipe. *)
LEMMA BuilderIdles ==
    ASSUME Inv, UNCHANGED <<queue, job, compiles>>,
           ChildRight(job, compiles, toChild', compilers', results'),
           env' \in BOOLEAN, child' \in {"up", "destroying", "exited"}
    PROVE  Inv' /\ Quiet
<1>1. SlotsBusy(queue', job') /\ Quiet
  BY Framed
<1>2. Right(queue, job, compiles, toChild', compilers', results')
  BY DEF Inv, Right
<1> QED BY <1>1, <1>2 DEF Inv

LEMMA NothingAsked == PipeRight(<<>>) /\ Asked(<<>>) = {}
<1>1. <<>> \in Seq(Messages) /\ Len(<<>>) = 0
  BY EmptySeq
<1> QED BY <1>1 DEF PipeRight, Asked, Messages

LEMMA DropEnvironmentStep ==
    ASSUME Inv, DropEnvironment
    PROVE  Inv' /\ Quiet
<1>1. ChildRight(job, compiles, toChild, compilers, results)
  BY DEF Inv, Right
<1>2. PICK m : m = Message("destroy", "-")
  OBVIOUS
<1>3. m \in Messages /\ m.type = "destroy"
  BY <1>2 DEF Message, Messages
<1>4. PipeRight(Append(toChild, m)) /\ Asked(Append(toChild, m)) = Asked(toChild)
  BY <1>1, <1>3, SendMessage DEF ChildRight
<1>5. ChildRight(job, compiles, Append(toChild, m), compilers, results)
  BY <1>1, <1>4 DEF ChildRight
<1>6. /\ toChild' = Append(toChild, m) /\ env' = FALSE
      /\ UNCHANGED <<queue, job, compiles, child, compilers, results>>
  BY <1>2 DEF DropEnvironment
<1>7. child' \in {"up", "destroying", "exited"}
  BY <1>6 DEF Inv
<1> QED BY <1>5, <1>6, <1>7, BuilderIdles

LEMMA ExitRight ==
    ASSUME NEW js, NEW known, NEW pipe, NEW running, NEW rs, ChildRight(js, known, pipe, running, rs)
    PROVE  ChildRight(js, known, <<>>, {}, rs)
BY NothingAsked DEF ChildRight

LEMMA ChildReadsStep ==
    ASSUME Inv, ChildReads
    PROVE  Inv' /\ Quiet
<1>1. toChild # <<>> /\ UNCHANGED <<queue, job, env, compiles>>
  BY DEF ChildReads
<1>2. ChildRight(job, compiles, toChild, compilers, results)
  BY DEF Inv, Right
<1>3. PICK h, t : h = Head(toChild) /\ t = Tail(toChild)
  OBVIOUS
<1>4. /\ ChildRight(job, compiles, t, compilers, results)
      /\ h.type \in {"compile", "destroy"}
      /\ h.type = "compile" =>
            h.id \in compiles /\ job[h.id].uploaded /\ Idle(h.id, t, compilers, results)
  BY <1>1, <1>2, <1>3, ReadRest
<1>5. env' \in BOOLEAN /\ child \in {"up", "destroying", "exited"}
  BY <1>1 DEF Inv
<1>6. CASE h.type = "compile"
  <2>1. /\ compilers' = compilers \cup {h.id} /\ toChild' = t
        /\ child' = child /\ results' = results
    BY <1>3, <1>6 DEF ChildReads
  <2>2. ChildRight(job, compiles, t, compilers \cup {h.id}, results)
    BY <1>4, <1>6 DEF ChildRight, Idle
  <2> QED BY <1>1, <1>5, <2>1, <2>2, BuilderIdles
<1>7. CASE h.type = "destroy" /\ compilers = {}
  <2>1. toChild' = <<>> /\ compilers' = {} /\ child' = "exited" /\ results' = results
    BY <1>3, <1>7 DEF ChildReads, ChildExits
  <2>2. ChildRight(job, compiles, <<>>, {}, results)
    BY <1>2, ExitRight
  <2> QED BY <1>1, <1>5, <2>1, <2>2, BuilderIdles
<1>8. CASE h.type = "destroy" /\ compilers # {}
  <2>1. toChild' = t /\ compilers' = compilers /\ child' = "destroying" /\ results' = results
    BY <1>3, <1>8 DEF ChildReads
  <2> QED BY <1>1, <1>4, <1>5, <2>1, BuilderIdles
<1> QED BY <1>4, <1>6, <1>7, <1>8

LEMMA CompilerExitsStep ==
    ASSUME Inv, NEW j \in Jobs, NEW success \in BOOLEAN, CompilerExits(j, success)
    PROVE  Inv' /\ Quiet
<1>1. /\ j \in compilers /\ UNCHANGED <<queue, job, env, compiles>>
      /\ results' = results \cup {<<j, success>>}
  BY DEF CompilerExits
<1>2. ChildRight(job, compiles, toChild, compilers, results)
  BY DEF Inv, Right
<1>3. PICK rs : rs = results \cup {<<j, success>>}
  OBVIOUS
<1>4. j \notin Told(results) /\ j \in Jobs /\ j \notin Asked(toChild)
      /\ j \in compiles /\ job[j].uploaded
  BY <1>1, <1>2 DEF ChildRight
<1>5. Told(rs) = Told(results) \cup {j} /\ rs \subseteq Jobs \X BOOLEAN
  <2>1. rs \subseteq Jobs \X BOOLEAN
    BY <1>2, <1>3 DEF ChildRight
  <2>2. ASSUME NEW k \in Jobs PROVE k \in Told(rs) <=> k \in Told(results) \cup {j}
    BY <1>3 DEF Told
  <2>3. Told(rs) \subseteq Jobs /\ Told(results) \subseteq Jobs
    BY DEF Told
  <2> QED BY <1>4, <2>1, <2>2, <2>3
<1>6. \A k \in Jobs : ~(<<k, TRUE>> \in rs /\ <<k, FALSE>> \in rs)
  BY <1>2, <1>3, <1>4 DEF ChildRight, Told
<1>7. ChildRight(job, compiles, toChild, compilers \ {j}, rs)
  BY <1>1, <1>2, <1>4, <1>5, <1>6 DEF ChildRight
<1>8. env' \in BOOLEAN /\ child \in {"up", "destroying", "exited"}
  BY <1>1 DEF Inv
<1>9. CASE child = "destroying" /\ compilers = {j}
  <2>1. toChild' = <<>> /\ compilers' = {} /\ child' = "exited"
    BY <1>9 DEF CompilerExits, ChildExits
  <2>2. ChildRight(job, compiles, <<>>, {}, rs)
    BY <1>7, ExitRight
  <2> QED BY <1>1, <1>3, <1>8, <2>1, <2>2, BuilderIdles
<1>10. CASE ~(child = "destroying" /\ compilers = {j})
  <2>1. toChild' = toChild /\ compilers' = compilers \ {j} /\ child' = child
    BY <1>10 DEF CompilerExits
  <2> QED BY <1>1, <1>3, <1>7, <1>8, <2>1, BuilderIdles
<1> QED BY <1>9, <1>10

LEMMA CompilerCannotRunStep ==
    ASSUME Inv, NEW j \in Jobs, CompilerCannotRun(j)
    PROVE  Inv' /\ Quiet
<1>1. UNCHANGED <<queue, job, env, compiles, toChild, child, compilers, results>>
  BY DEF CompilerCannotRun
<1>2. ChildRight(job, compiles, toChild', compilers', results')
  BY <1>1 DEF Inv, Right
<1>3. env' \in BOOLEAN /\ child' \in {"up", "destroying", "exited"}
  BY <1>1 DEF Inv
<1> QED BY <1>1, <1>2, <1>3, BuilderIdles

LEMMA ChildDiesStep ==
    ASSUME Inv, ChildDies
    PROVE  Inv' /\ Quiet
<1>1. /\ toChild' = <<>> /\ compilers' = {} /\ child' = "exited"
      /\ UNCHANGED <<queue, job, env, compiles, results>>
  BY DEF ChildDies, ChildExits
<1>2. ChildRight(job, compiles, <<>>, {}, results)
  BY ExitRight DEF Inv, Right
<1>3. env' \in BOOLEAN
  BY <1>1 DEF Inv
<1> QED BY <1>1, <1>2, <1>3, BuilderIdles

----------------------------------------------------------------------------
(* The theorems *)

LEMMA InitInv == Init => Inv
<1> SUFFICES ASSUME Init PROVE Inv
  OBVIOUS
<1>1. /\ queue = <<>> /\ job = [j \in Jobs |-> NewJob] /\ compiles = {} /\ toChild = <<>>
      /\ compilers = {} /\ results = {} /\ env = TRUE /\ child = "up"
  BY DEF Init
<1>2. /\ <<>> \in Seq(Jobs) /\ ToSet(<<>>) = {} /\ Distinct(<<>>) /\ Len(<<>>) = 0
  BY EmptyQueue, EmptySeq
<1>3. JobRight(NewJob, FALSE, FALSE)
  <2>1. NewJob \in JobStates
    BY DEF NewJob, JobStates, Outcomes
  <2>2. NewJob.reports \in Heard(NewJob.mode, FALSE)
    BY DEF NewJob, Heard
  <2> QED BY <2>1, <2>2 DEF NewJob, JobRight
<1>4. JobsRight(queue, job, compiles)
  <2>1. NewJob \in JobStates
    BY <1>3 DEF JobRight
  <2>2. ASSUME NEW j \in Jobs PROVE JobRight(job[j], j \in ToSet(queue), j \in compiles)
    <3>1. (j \in ToSet(queue)) = FALSE /\ (j \in compiles) = FALSE /\ job[j] = NewJob
      BY <1>1, <1>2
    <3> QED BY <1>3, <3>1
  <2> QED BY <1>1, <2>1, <2>2 DEF JobsRight
<1>5. ChildRight(job, compiles, toChild, compilers, results)
  <2>1. Told({}) = {}
    BY DEF Told
  <2> QED BY <1>1, <2>1, NothingAsked DEF ChildRight
<1>6. Right(queue, job, compiles, toChild, compilers, results)
  BY <1>1, <1>2, <1>4, <1>5 DEF Right
<1>7. SlotsBusy(queue, job)
  BY <1>1, <1>2 DEF SlotsBusy
<1> QED BY <1>1, <1>6, <1>7 DEF Inv

LEMMA NextInv == Inv /\ [Next]_vars => Inv' /\ Quiet
<1> SUFFICES ASSUME Inv, [Next]_vars PROVE Inv' /\ Quiet
  OBVIOUS
<1>1. ASSUME NEW j \in Jobs, NEW cached \in BOOLEAN, Headers(j, cached) PROVE Inv' /\ Quiet
  BY <1>1, HeadersStep
<1>2. ASSUME NEW j \in Jobs, JobRefused(j) PROVE Inv' /\ Quiet
  BY <1>2, JobRefusedStep
<1>3. ASSUME NEW j \in Jobs, JobArrives(j) PROVE Inv' /\ Quiet
  BY <1>3, JobArrivesStep
<1>4. ASSUME NEW j \in Jobs, DataArrives(j) PROVE Inv' /\ Quiet
  BY <1>4, DataArrivesStep
<1>5. ASSUME NEW j \in Jobs, NEW ok \in BOOLEAN, CacheReadDone(j, ok) PROVE Inv' /\ Quiet
  BY <1>5, CacheReadDoneStep
<1>6. ASSUME NEW j \in Jobs, NEW ok \in BOOLEAN, CompileFinished(j, ok) PROVE Inv' /\ Quiet
  BY <1>6, CompileFinishedStep
<1>7. ASSUME NEW j \in Jobs, NEW ok \in BOOLEAN, CompilerExits(j, ok) PROVE Inv' /\ Quiet
  BY <1>7, CompilerExitsStep
<1>8. ASSUME NEW j \in Jobs, SocketError(j) PROVE Inv' /\ Quiet
  BY <1>8, SocketErrorStep
<1>9. ASSUME NEW j \in Jobs, Close(j) PROVE Inv' /\ Quiet
  BY <1>9, CloseStep
<1>10. CASE SendFailed
  BY <1>10, SendFailedStep
<1>11. CASE ChildReads
  BY <1>11, ChildReadsStep
<1>12. CASE DropEnvironment
  BY <1>12, DropEnvironmentStep
<1>13. CASE ChildDies
  BY <1>13, ChildDiesStep
<1>14. ASSUME NEW j \in Jobs, CompilerCannotRun(j) PROVE Inv' /\ Quiet
  BY <1>14, CompilerCannotRunStep
<1>15. CASE UNCHANGED vars
  <2>1. UNCHANGED <<queue, job, compiles, toChild, compilers, results, env, child>>
    BY <1>15 DEF vars, vmVars
  <2>2. ChildRight(job, compiles, toChild', compilers', results')
    BY <2>1 DEF Inv, Right
  <2>3. env' \in BOOLEAN /\ child' \in {"up", "destroying", "exited"}
    BY <2>1 DEF Inv
  <2> QED BY <2>1, <2>2, <2>3, BuilderIdles
<1> QED BY <1>1, <1>2, <1>3, <1>4, <1>5, <1>6, <1>7, <1>8, <1>9, <1>10, <1>11, <1>12, <1>13,
           <1>14, <1>15 DEF Next, Serves

\* A compiler that could not be run stays among the child's compiles until the child exits.
FailedRight == failed \subseteq compilers

LEMMA FailedKeeps == FailedRight /\ [Next]_vars => FailedRight'
<1> SUFFICES ASSUME FailedRight, [Next]_vars PROVE FailedRight'
  OBVIOUS
<1>1. CASE UNCHANGED <<compilers, failed>>
  BY <1>1 DEF FailedRight
<1>2. CASE ChildReads
  BY <1>2 DEF ChildReads, ChildExits, FailedRight
<1>3. ASSUME NEW j \in Jobs, NEW ok \in BOOLEAN, CompilerExits(j, ok) PROVE FailedRight'
  BY <1>3 DEF CompilerExits, ChildExits, FailedRight
<1>4. ASSUME NEW j \in Jobs, CompilerCannotRun(j) PROVE FailedRight'
  BY <1>4 DEF CompilerCannotRun, FailedRight
<1>5. CASE ChildDies
  BY <1>5 DEF ChildDies, ChildExits, FailedRight
<1>6. CASE SendFailed \/ DropEnvironment \/ UNCHANGED vars
  <2>1. UNCHANGED <<compilers, failed>>
    BY <1>6 DEF SendFailed, DropEnvironment, vars, vmVars
  <2> QED BY <1>1, <2>1
<1>7. ASSUME NEW j \in Jobs,
             \/ \E cached \in BOOLEAN : Headers(j, cached)
             \/ JobRefused(j) \/ JobArrives(j) \/ DataArrives(j) \/ SocketError(j) \/ Close(j)
             \/ \E ok \in BOOLEAN : CacheReadDone(j, ok) \/ CompileFinished(j, ok)
      PROVE  FailedRight'
  <2>1. UNCHANGED <<compilers, failed>>
    BY <1>7 DEF Headers, JobRefused, JobArrives, DataArrives, SocketError, Close,
                CacheReadDone, CompileFinished, vmVars
  <2> QED BY <1>1, <2>1
<1> QED BY <1>2, <1>3, <1>4, <1>5, <1>6, <1>7 DEF Next, Serves

\* What TypeOK says of one job.
JobTypes == [conn : {"none", "handshaken", "open", "closing", "closed"},
             wait : BOOLEAN, uploaded : BOOLEAN,
             mode : {"none", "refused", "backlogged", "cache", "broken", "cached", "compiling"},
             done : BOOLEAN, aborted : BOOLEAN, answered : BOOLEAN,
             reports : Seq({"jobStarted", "jobFinished", "jobAborted", "cacheHit"})]

LEMMA OutcomesAreReports ==
    Outcomes \subseteq Seq({"jobStarted", "jobFinished", "jobAborted", "cacheHit"})
BY DEF Outcomes

LEMMA JobStatesTyped == JobStates \subseteq JobTypes
<1> SUFFICES ASSUME NEW r \in JobStates PROVE r \in JobTypes
  OBVIOUS
<1> QED BY OutcomesAreReports DEF JobStates, JobTypes

LEMMA InvTypes == Inv /\ FailedRight => TypeOK
<1> SUFFICES ASSUME Inv, FailedRight PROVE TypeOK
  OBVIOUS
<1>1. job \in [Jobs -> JobTypes]
  BY JobStatesTyped DEF Inv, Right, JobsRight
<1>2. toChild \in Seq([type : {"compile", "cancel", "destroy"}, id : Jobs \cup {"-"}])
  <2>1. toChild \in Seq(Messages)
    BY DEF Inv, Right, ChildRight, PipeRight, Messages
  <2>2. PICK M : M = [type : {"compile", "cancel", "destroy"}, id : Jobs \cup {"-"}]
    OBVIOUS
  <2>3. Messages \subseteq M
    BY <2>2 DEF Messages
  <2>4. toChild \in Seq(M)
    BY <2>1, <2>3
  <2> QED BY <2>2, <2>4
<1>3. /\ queue \in Seq(Jobs) /\ compiles \subseteq Jobs /\ compilers \subseteq Jobs
      /\ results \subseteq Jobs \X BOOLEAN /\ env \in BOOLEAN
      /\ child \in {"up", "destroying", "exited"}
  BY DEF Inv, Right, ChildRight
<1> QED BY <1>1, <1>2, <1>3 DEF TypeOK, JobTypes, FailedRight

(* The jobs at work, as the properties count them. *)
LEMMA ActiveIsWorking == Inv => Active = Working(queue, job)
<1> SUFFICES ASSUME Inv PROVE Active = Working(queue, job)
  OBVIOUS
<1>1. queue \in Seq(Jobs)
  BY DEF Inv, Right
<1>2. DOMAIN queue = 1..Len(queue) /\ \A i \in 1..Len(queue) : queue[i] \in Jobs
  BY <1>1, LenProperties, ElementOfSeq
<1>3. ToSet(queue) \subseteq Jobs
  BY <1>2 DEF ToSet
<1> QED BY <1>3 DEF Active, AtWork, Working

LEMMA InvQueue == Inv /\ FailedRight => QueueWellRun
<1> SUFFICES ASSUME Inv, FailedRight PROVE QueueWellRun
  OBVIOUS
<1>1. QueueInOrder
  BY InvTypes DEF Inv, Right, QueueInOrder
<1>2. NoIdleSlot
  BY ActiveIsWorking DEF Inv, SlotsBusy, NoIdleSlot
<1> QED BY <1>1, <1>2 DEF QueueWellRun

LEMMA InvReports == Inv => ReportsPaired
<1> SUFFICES ASSUME Inv, NEW j \in Jobs
             PROVE  /\ job[j].reports \in Outcomes
                    /\ job[j].reports = <<"jobStarted">> <=>
                          (job[j].mode = "compiling" /\ j \in ToSet(queue))
  BY DEF ReportsPaired
<1>1. JobRight(job[j], j \in ToSet(queue), j \in compiles)
  BY DEF Inv, Right, JobsRight
<1>2. job[j].reports \in Outcomes /\ job[j].reports \in Heard(job[j].mode, j \in ToSet(queue))
  BY <1>1 DEF JobRight, JobStates
<1>3. /\ <<"jobStarted">> # <<>> /\ <<"jobStarted">> # <<"cacheHit">>
      /\ <<"jobStarted">> # <<"jobStarted", "jobFinished">>
      /\ <<"jobStarted">> # <<"jobStarted", "jobAborted">>
  <2>1. Len(<<"jobStarted">>) = 1 /\ Len(<<>>) = 0 /\ <<"jobStarted">>[1] = "jobStarted"
        /\ <<"cacheHit">>[1] = "cacheHit" /\ Len(<<"jobStarted", "jobFinished">>) = 2
        /\ Len(<<"jobStarted", "jobAborted">>) = 2
    OBVIOUS
  <2> QED BY <2>1
<1>4. CASE job[j].mode = "compiling" /\ j \in ToSet(queue)
  BY <1>2, <1>4 DEF Heard
<1>5. CASE ~(job[j].mode = "compiling" /\ j \in ToSet(queue))
  <2>1. job[j].reports \in {<<>>, <<"cacheHit">>, <<"jobStarted", "jobFinished">>,
                            <<"jobStarted", "jobAborted">>}
    BY <1>2, <1>5 DEF Heard
  <2> QED BY <1>2, <1>3, <1>5, <2>1
<1> QED BY <1>4, <1>5

LEMMA InvBehind == Inv => NobodyLeftBehind
<1> SUFFICES ASSUME Inv, NEW j \in Jobs, job[j].conn = "open"
             PROVE  /\ j \in ToSet(queue) \/ job[j].answered
                    /\ ~job[j].answered => ~job[j].done
                    /\ job[j].mode = "compiling" => ~job[j].wait
  BY DEF NobodyLeftBehind
<1> QED BY DEF Inv, Right, JobsRight, JobRight

LEMMA InvVM == Inv => VMAgrees
<1> SUFFICES ASSUME Inv PROVE VMAgrees
  OBVIOUS
<1>1. ChildRight(job, compiles, toChild, compilers, results)
  BY DEF Inv, Right
<1>2. compilers \subseteq compiles
  BY <1>1 DEF ChildRight
<1>3. ASSUME NEW r \in results PROVE r[1] \in compiles
  <2>1. PICK k \in Jobs, ok \in BOOLEAN : r = <<k, ok>>
    BY <1>1, <1>3 DEF ChildRight
  <2>2. k \in Told(results)
    BY <1>3, <2>1 DEF Told
  <2> QED BY <1>1, <2>1, <2>2 DEF ChildRight
<1>4. ASSUME NEW i \in 1..Len(toChild), toChild[i].type = "compile" PROVE toChild[i].id \in compiles
  <2>1. toChild[i].id \in Jobs
    BY <1>1, <1>4 DEF ChildRight, PipeRight
  <2>2. toChild[i].id \in Asked(toChild)
    BY <1>4, <2>1 DEF Asked
  <2> QED BY <1>1, <2>2 DEF ChildRight
<1>5. \A j \in compilers : <<j, TRUE>> \notin results /\ <<j, FALSE>> \notin results
  BY <1>1 DEF ChildRight, Told
<1> QED BY <1>2, <1>3, <1>4, <1>5 DEF VMAgrees

LEMMA SpecInv == Spec => [](Inv /\ FailedRight)
<1>1. Init => FailedRight
  BY DEF Init, FailedRight
<1> QED BY <1>1, InitInv, NextInv, FailedKeeps, PTL DEF Spec

(* The queue is in order of priority without duplicates, and while a job is backlogged every
   slot is at work, whatever the order of arrivals, ends, failures and disconnects. *)
THEOREM QueueStaysWellRun == Spec => []QueueWellRun
BY SpecInv, InvQueue, PTL

(* The scheduler hears of a start followed by exactly one end, or of one cache hit. *)
THEOREM ReportsStayPaired == Spec => []ReportsPaired
BY SpecInv, InvReports, PTL

(* A client whose websocket is open has its job in the queue or has been answered. *)
THEOREM NobodyIsLeftBehind == Spec => []NobodyLeftBehind
BY SpecInv, InvBehind, PTL

(* The VM knows every job whose compiler runs, is asked for, or has a result under way. *)
THEOREM VMStaysRight == Spec => []VMAgrees
BY SpecInv, InvVM, PTL

(* Only the disconnect of a client whose job is backlogged takes the jobs at work beyond the
   slots. *)
THEOREM SlotsAreExceededOnlyByCloses == Spec => OnlyBackloggedClosesOvershoot
<1>1. Inv /\ Inv' /\ Quiet =>
        ((Cardinality(Active') > Cardinality(Active) /\ Cardinality(Active') > Slots) =>
            \E j \in Jobs : job[j].mode = "backlogged" /\ ~job[j].aborted /\ job'[j].aborted)
  <2> SUFFICES ASSUME Inv, Inv', Quiet,
                      Cardinality(Active') > Cardinality(Active), Cardinality(Active') > Slots
               PROVE  \E j \in Jobs : job[j].mode = "backlogged" /\ ~job[j].aborted /\ job'[j].aborted
    OBVIOUS
  <2>1. Active = Working(queue, job)
    BY ActiveIsWorking
  <2>2. Active' = Working(queue', job')
    <3>1. queue' \in Seq(Jobs)
      BY DEF Inv, Right
    <3>2. DOMAIN queue' = 1..Len(queue') /\ \A i \in 1..Len(queue') : queue'[i] \in Jobs
      BY <3>1, LenProperties, ElementOfSeq
    <3>3. ToSet(queue') \subseteq Jobs
      BY <3>2 DEF ToSet
    <3> QED BY <3>3 DEF Active, AtWork, Working
  <2> QED BY <2>1, <2>2 DEF Quiet
<1> QED BY <1>1, SpecInv, NextInv, PTL DEF Spec, OnlyBackloggedClosesOvershoot

==============================================================================
