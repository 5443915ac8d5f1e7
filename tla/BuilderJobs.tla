---------------------------- MODULE BuilderJobs ----------------------------
(***************************************************************************)
(* fisk-builder: the job queue (builder/fisk-builder.ts, server.on("job")) *)
(* together with the VM child that runs the compilers of one environment   *)
(* (builder/VM.ts, CompileJob.ts, VM_runtime).                             *)
(*                                                                         *)
(* A job is one websocket of a fiskc.  It waits in jobQueue, ordered by    *)
(* priority; the jobs at work stay in the queue until they are done.  A    *)
(* job is served from the object cache (asynchronous file reads) or by a   *)
(* compiler in the VM child, to which the builder talks over a pipe.       *)
(* What the object cache holds is an outcome of the lookup here.           *)
(***************************************************************************)
EXTENDS Integers, FiniteSets, Queues

CONSTANTS Jobs,      \* the jobs fiskc processes bring
          Slots,     \* client.slots
          Priority,  \* x-fisk-priority of each job
          Hashed     \* the jobs with a sha1 that the object cache may know

ASSUME JobsAssumption ==
    /\ IsFiniteSet(Jobs)
    /\ Slots \in Nat \ {0}
    /\ Priority \in [Jobs -> Int]
    /\ Hashed \subseteq Jobs

VARIABLES
    queue,      \* jobQueue
    job,        \* the JobState of each job and its websocket
    env,        \* environments[hash] is there
    compiles,   \* VM.compiles
    toChild,    \* messages in the pipe to the VM child, or sent since it exited
    child,      \* "up", "destroying" or "exited"
    compilers,  \* the child's compiles: jobs whose compiler runs, or could not be run
    failed,     \* those of them whose compiler could not be run
    results     \* compileFinished messages on their way back: <<job, success>>

vmVars == <<compiles, toChild, child, compilers, failed, results>>
vars == <<queue, job, env, vmVars>>

\* getFromCache(j): not there, sent (asynchronously), or there but unreadable.
CacheOutcomes(j) == IF j \in Hashed THEN {"miss", "hit", "broken"} ELSE {"miss"}

NewJob == [conn |-> "none", wait |-> FALSE, uploaded |-> FALSE, mode |-> "none",
           done |-> FALSE, aborted |-> FALSE, answered |-> FALSE, reports |-> <<>>]

Init ==
    /\ queue = <<>>
    /\ job = [j \in Jobs |-> NewJob]
    /\ env = TRUE
    /\ compiles = {}
    /\ toChild = <<>>
    /\ child = "up"
    /\ compilers = {}
    /\ failed = {}
    /\ results = {}

Message(type, j) == [type |-> type, id |-> j]

----------------------------------------------------------------------------
(* fisk-builder.ts: starting jobs *)

Report(r, what) == [r EXCEPT !.reports = Append(@, what)]

\* job.send(response): nothing is sent on a websocket that is not open.
Answer(r) == [r EXCEPT !.answered = @ \/ r.conn = "open"]

\* job.close(): the websocket's "close" event comes later.
CloseJob(r) == [r EXCEPT !.conn = IF @ = "open" THEN "closing" ELSE @]

\* Mutant: a client that holds its upload is not resumed.
StartedWithoutResume(r, cache) ==
    CASE cache = "miss" -> Report([r EXCEPT !.mode = "compiling"], "jobStarted")
      [] cache = "hit" -> [r EXCEPT !.mode = "cache"]
      [] cache = "broken" -> CloseJob([r EXCEPT !.mode = "broken"])

\* j.start() once the cache was asked: a compile (and "resume" to a client that
\* holds its upload), the asynchronous read of a cached object, or a cached object
\* that cannot be opened after its header was sent (fisk-builder.ts:210).
Started(r, cache) ==
    CASE cache = "miss" ->
           Report([r EXCEPT !.mode = "compiling", !.wait = @ /\ r.conn # "open"], "jobStarted")
      [] cache = "hit" -> [r EXCEPT !.mode = "cache"]
      [] cache = "broken" -> CloseJob([r EXCEPT !.mode = "broken"])

\* Job n is started.  base, pipe and open are the jobs, the pipe and VM.compiles as
\* the handler leaves them; a job whose data is buffered is fed to its compiler.
Start(n, base, pipe, open) ==
    \E cache \in CacheOutcomes(n) :
       /\ job' = [base EXCEPT ![n] = Started(@, cache)]
       /\ compiles' = IF cache = "miss" THEN open \cup {n} ELSE open
       /\ toChild' = IF cache = "miss" /\ base[n].uploaded
                     THEN Append(pipe, Message("compile", n)) ELSE pipe

StartNothing(base, pipe, open) == job' = base /\ toChild' = pipe /\ compiles' = open

Backlogged(q, base) == {i \in 1..Len(q) : base[q[i]].mode = "backlogged"}

\* startPending(): the first job of the queue that is not at work is started.
StartPending(q, base, pipe, open) ==
    /\ queue' = q
    /\ IF Backlogged(q, base) = {}
       THEN StartNothing(base, pipe, open)
       ELSE LET first == CHOOSE i \in Backlogged(q, base) :
                            \A k \in Backlogged(q, base) : i <= k
            IN Start(q[first], base, pipe, open)

----------------------------------------------------------------------------
(* fisk-builder.ts: the handlers *)

\* Jobs of at least priority p stand before a new one of priority p.
PlaceFor(p) == Cardinality({i \in 1..Len(queue) : Priority[queue[i]] >= p}) + 1

\* server.on("headers"): the client is told to hold its upload if the cache has
\* the object or if a backlogged job is before it.
Headers(j, cached) ==
    /\ job[j].conn = "none"
    /\ cached => j \in Hashed
    /\ job' = [job EXCEPT ![j].conn = "handshaken",
                          ![j].wait = \/ cached
                                      \/ \E i \in Slots + 1..Len(queue) :
                                            Priority[queue[i]] >= Priority[j]]
    /\ UNCHANGED <<queue, env, vmVars>>

\* server.on("job"), without the environment.
JobRefused(j) ==
    /\ job[j].conn = "handshaken"
    /\ ~env
    /\ job' = [job EXCEPT ![j].conn = "closing", ![j].mode = "refused"]
    /\ UNCHANGED <<queue, env, vmVars>>

\* Mutant: one job more than there are slots is started on arrival.
JobArrivesOffByOne(j) ==
    /\ job[j].conn = "handshaken"
    /\ env
    /\ LET q == InsertAt(queue, PlaceFor(Priority[j]), j)
           base == [job EXCEPT ![j].conn = "open", ![j].mode = "backlogged"]
       IN /\ queue' = q
          /\ IF Len(q) <= Slots + 1
             THEN Start(j, base, toChild, compiles)
             ELSE StartNothing(base, toChild, compiles)
    /\ UNCHANGED <<env, child, compilers, failed, results>>

\* server.on("job"): insertion by priority, and a start while the queue is no
\* longer than the slots.
JobArrives(j) ==
    /\ job[j].conn = "handshaken"
    /\ env
    /\ LET q == InsertAt(queue, PlaceFor(Priority[j]), j)
           base == [job EXCEPT ![j].conn = "open", ![j].mode = "backlogged"]
       IN /\ queue' = q
          /\ IF Len(q) <= Slots
             THEN Start(j, base, toChild, compiles)
             ELSE StartNothing(base, toChild, compiles)
    /\ UNCHANGED <<env, child, compilers, failed, results>>

\* Mutant: what arrives after the start is kept in the buffer.
DataArrivesOnlyBuffered(j) ==
    /\ job[j].conn \in {"open", "closing"}
    /\ job[j].mode # "refused"
    /\ ~job[j].uploaded
    /\ ~job[j].wait
    /\ job' = [job EXCEPT ![j].uploaded = TRUE]
    /\ UNCHANGED <<queue, env, vmVars>>

\* job.on("data"): CompileJob.feed, or a buffer for start().
DataArrives(j) ==
    /\ job[j].conn \in {"open", "closing"}
    /\ job[j].mode # "refused"
    /\ ~job[j].uploaded
    /\ ~job[j].wait
    /\ job' = [job EXCEPT ![j].uploaded = TRUE]
    /\ toChild' = IF job[j].mode = "compiling"
                  THEN Append(toChild, Message("compile", j)) ELSE toChild
    /\ UNCHANGED <<queue, env, compiles, child, compilers, failed, results>>

\* The callback of getFromCache: the object was sent, or could not be read.
CacheReadDone(j, ok) ==
    /\ job[j].mode = "cache"
    /\ LET read == [job EXCEPT ![j].mode = "cached"]
           over == [read EXCEPT ![j].done = TRUE]
       IN IF job[j].aborted
          THEN job' = read /\ UNCHANGED <<queue, compiles, toChild>>
          ELSE StartPending(Without(queue, j),
                            [over EXCEPT ![j] = IF ok THEN Report(Answer(@), "cacheHit")
                                                      ELSE CloseJob(@)],
                            toChild, compiles)
    /\ UNCHANGED <<env, child, compilers, failed, results>>

\* Mutant: the listener does not look at aborted.
FinishUnchecked(j, success, pipe) ==
    LET over == [job EXCEPT ![j].done = TRUE]
        outcome == IF success THEN "jobFinished" ELSE "jobAborted"
    IN IF j \notin compiles
       THEN toChild' = pipe /\ UNCHANGED <<queue, job, compiles>>
       ELSE StartPending(Without(queue, j), [over EXCEPT ![j] = Report(Answer(@), outcome)],
                         pipe, compiles \ {j})

\* VM.compileFinished and the job's "finished" listener.
Finish(j, success, pipe) ==
    LET over == [job EXCEPT ![j].done = TRUE]
        outcome == IF success THEN "jobFinished" ELSE "jobAborted"
    IN IF j \notin compiles
       THEN toChild' = pipe /\ UNCHANGED <<queue, job, compiles>>
       ELSE IF job[j].aborted
       THEN queue' = queue /\ StartNothing(over, pipe, compiles \ {j})
       ELSE StartPending(Without(queue, j), [over EXCEPT ![j] = Report(Answer(@), outcome)],
                         pipe, compiles \ {j})

CompileFinished(j, success) ==
    /\ <<j, success>> \in results
    /\ results' = results \ {<<j, success>>}
    /\ Finish(j, success, toChild)
    /\ UNCHANGED <<env, child, compilers, failed>>

\* CompileJob.sendCallback: a message to an exited child could not be sent.
SendFailed ==
    /\ child = "exited"
    /\ toChild # <<>>
    /\ IF Head(toChild).type = "destroy"
       THEN toChild' = Tail(toChild) /\ UNCHANGED <<queue, job, compiles>>
       ELSE Finish(Head(toChild).id, FALSE, Tail(toChild))
    /\ UNCHANGED <<env, child, compilers, failed, results>>

\* job.on("error"); the websocket's "close" follows.
SocketError(j) ==
    /\ job[j].conn = "open"
    /\ job' = [job EXCEPT ![j].conn = "closing", ![j].done = TRUE]
    /\ UNCHANGED <<queue, env, vmVars>>

\* j.cancel(): the messages it sends.
Cancel(j, r) == IF ~r.done /\ r.mode = "compiling" THEN <<Message("cancel", j)>> ELSE <<>>

Aborted(r) == IF r.mode = "compiling" THEN Report(r, "jobAborted") ELSE r

\* Mutants: the next job is not started; the VM forgets the compile at once.
CloseWithoutNext(j) ==
    /\ job[j].conn \in {"open", "closing"}
    /\ LET closed == [job EXCEPT ![j].conn = "closed", ![j].done = job[j].mode # "refused"]
       IN IF j \notin ToSet(queue)
          THEN job' = closed /\ queue' = queue
          ELSE /\ job' = [closed EXCEPT ![j] = Aborted([@ EXCEPT !.aborted = TRUE])]
               /\ queue' = Without(queue, j)
    /\ UNCHANGED <<env, vmVars>>
CloseForgettingCompile(j) ==
    /\ job[j].conn \in {"open", "closing"}
    /\ LET closed == [job EXCEPT ![j].conn = "closed", ![j].done = job[j].mode # "refused"]
       IN IF j \notin ToSet(queue)
          THEN job' = closed /\ UNCHANGED <<queue, compiles, toChild>>
          ELSE StartPending(Without(queue, j),
                            [closed EXCEPT ![j] = Aborted([@ EXCEPT !.aborted = TRUE])],
                            toChild, compiles \ {j})
    /\ UNCHANGED <<env, child, compilers, failed, results>>

\* job.on("close"): done is set before cancel() looks at it.
Close(j) ==
    /\ job[j].conn \in {"open", "closing"}
    /\ LET closed == [job EXCEPT ![j].conn = "closed", ![j].done = job[j].mode # "refused"]
           gone == [closed EXCEPT ![j].aborted = TRUE]
       IN IF j \notin ToSet(queue)
          THEN job' = closed /\ UNCHANGED <<queue, compiles, toChild>>
          ELSE StartPending(Without(queue, j),
                            [gone EXCEPT ![j] = Aborted(@)],
                            toChild \o Cancel(j, gone[j]), compiles)
    /\ UNCHANGED <<env, child, compilers, failed, results>>

\* client.on("dropEnvironments") for the environment of these jobs.
DropEnvironment ==
    /\ env
    /\ env' = FALSE
    /\ toChild' = Append(toChild, Message("destroy", "-"))
    /\ UNCHANGED <<queue, job, compiles, child, compilers, failed, results>>

----------------------------------------------------------------------------
(* VM_runtime: the child *)

\* The process exits: what it has not read from the pipe is lost.
ChildExits == child' = "exited" /\ toChild' = <<>> /\ compilers' = {} /\ failed' = {}

\* process.on("message").  "cancel" kills a compiler that runs: then it exits.
ChildReads ==
    /\ child # "exited"
    /\ toChild # <<>>
    /\ LET m == Head(toChild)
       IN IF m.type = "destroy" /\ compilers = {}
          THEN ChildExits
          ELSE /\ compilers' = IF m.type = "compile" THEN compilers \cup {m.id} ELSE compilers
               /\ child' = IF m.type = "destroy" THEN "destroying" ELSE child
               /\ toChild' = Tail(toChild)
               /\ UNCHANGED failed
    /\ UNCHANGED <<queue, job, env, compiles, results>>

\* compile.on("exit"): a compiler ends.  One that new Compile refused is answered as well.
CompilerExits(j, success) ==
    /\ j \in compilers \ failed
    /\ results' = results \cup {<<j, success>>}
    /\ IF child = "destroying" /\ compilers = {j}
       THEN ChildExits
       ELSE compilers' = compilers \ {j} /\ UNCHANGED <<child, toChild, failed>>
    /\ UNCHANGED <<queue, job, env, compiles>>

\* proc.on("error"): the process could not be started, and never exits.  The error is
\* logged, and the job is neither answered nor forgotten.
CompilerCannotRun(j) ==
    /\ j \in compilers \ failed
    /\ failed' = failed \cup {j}
    /\ UNCHANGED <<queue, job, env, compiles, toChild, child, compilers, results>>

\* The child goes down by accident (VM.ts:77): nothing in the builder reacts.
ChildDies ==
    /\ child # "exited"
    /\ ChildExits
    /\ UNCHANGED <<queue, job, env, compiles, results>>

----------------------------------------------------------------------------

Serves(j) ==
    \/ JobRefused(j) \/ JobArrives(j) \/ DataArrives(j)
    \/ \E ok \in BOOLEAN : CacheReadDone(j, ok) \/ CompileFinished(j, ok) \/ CompilerExits(j, ok)

Next ==
    \/ \E j \in Jobs :
          \/ \E cached \in BOOLEAN : Headers(j, cached)
          \/ Serves(j)
          \/ SocketError(j)
          \/ Close(j)
          \/ CompilerCannotRun(j)
    \/ SendFailed
    \/ ChildReads
    \/ DropEnvironment
    \/ ChildDies

Spec == Init /\ [][Next]_vars

(***************************************************************************)
(* The builder's event loop, the child's and running compilers progress,   *)
(* and a client sends what it may send.  No client has to disconnect: the  *)
(* heartbeats of an unanswered job keep its watchdog from barking.  The    *)
(* websocket the builder itself closes does get closed.                    *)
(***************************************************************************)
Fairness ==
    /\ \A j \in Jobs : WF_vars(Serves(j)) /\ WF_vars(job[j].conn = "closing" /\ Close(j))
    /\ WF_vars(SendFailed)
    /\ WF_vars(ChildReads)

FairSpec == Spec /\ Fairness

----------------------------------------------------------------------------
(* Properties *)

Outcomes == {<<>>, <<"jobStarted">>, <<"jobStarted", "jobFinished">>,
             <<"jobStarted", "jobAborted">>, <<"cacheHit">>}

TypeOK ==
    /\ queue \in Seq(Jobs)
    /\ job \in [Jobs -> [conn : {"none", "handshaken", "open", "closing", "closed"},
                         wait : BOOLEAN, uploaded : BOOLEAN,
                         mode : {"none", "refused", "backlogged", "cache", "broken",
                                 "cached", "compiling"},
                         done : BOOLEAN, aborted : BOOLEAN, answered : BOOLEAN,
                         reports : Seq({"jobStarted", "jobFinished", "jobAborted",
                                        "cacheHit"})]]
    /\ env \in BOOLEAN
    /\ compiles \subseteq Jobs
    /\ toChild \in Seq([type : {"compile", "cancel", "destroy"}, id : Jobs \cup {"-"}])
    /\ child \in {"up", "destroying", "exited"}
    /\ compilers \subseteq Jobs
    /\ failed \subseteq compilers
    /\ results \subseteq Jobs \X BOOLEAN

AtWork(j) == j \in ToSet(queue) /\ job[j].mode # "backlogged"
Active == {j \in Jobs : AtWork(j)}

(* The queue is ordered by priority and no job stands in it twice, whatever the
   order of arrivals, ends and disconnects: startPending relies on it. *)
QueueInOrder ==
    /\ TypeOK
    /\ Distinct(queue)
    /\ \A i, k \in 1..Len(queue) : i < k => Priority[queue[i]] >= Priority[queue[k]]

(* While a job is backlogged every slot is at work: each way a job can leave the
   queue starts the next one, so no slot stays idle until the next arrival. *)
NoIdleSlot ==
    (\E j \in ToSet(queue) : job[j].mode = "backlogged") => Cardinality(Active) >= Slots

(* The queue is in order and no slot is wasted. *)
QueueWellRun == QueueInOrder /\ NoIdleSlot

(* What the scheduler hears of a job is a start followed by exactly one end, or one
   cache hit.  The end comes when the job leaves the queue, never before. *)
ReportsPaired ==
    \A j \in Jobs :
       /\ job[j].reports \in Outcomes
       /\ job[j].reports = <<"jobStarted">> <=>
             (job[j].mode = "compiling" /\ j \in ToSet(queue))

(* No client is left behind: one whose websocket is open has its job in the queue
   or has been answered, and gets heartbeats (fisk-builder.ts:1036) as long as it
   has no answer.  One that holds its upload is not already at the compiler. *)
NobodyLeftBehind ==
    \A j \in Jobs : job[j].conn = "open" =>
       /\ j \in ToSet(queue) \/ job[j].answered
       /\ ~job[j].answered => ~job[j].done
       /\ job[j].mode = "compiling" => ~job[j].wait

(* The parent's bookkeeping of the child: a compiler runs, or its result is on the
   way, only for a job the VM still knows (VM.ts:83 drops the others). *)
VMAgrees ==
    /\ compilers \cup {r[1] : r \in results} \subseteq compiles
    /\ \A i \in 1..Len(toChild) : toChild[i].type = "compile" => toChild[i].id \in compiles
    /\ \A j \in compilers : <<j, TRUE>> \notin results /\ <<j, FALSE>> \notin results

(* --slots=N is the "Number of compile slots" (fisk-builder.ts:38): at most that many
   compilers run. *)
CompilersWithinSlots == Cardinality(compilers \ failed) <= Slots

(* The number of jobs at work is raised above the slots by nothing but the
   disconnect of a client whose job was backlogged. *)
OnlyBackloggedClosesOvershoot ==
    [][(Cardinality(Active') > Cardinality(Active) /\ Cardinality(Active') > Slots) =>
          \E j \in Jobs : job[j].mode = "backlogged" /\ ~job[j].aborted /\ job'[j].aborted]_vars

\* The compile message of j went to a child that exited before it had an answer.
LostInChild(j) ==
    /\ child = "exited"
    /\ j \in compiles
    /\ job[j].uploaded
    /\ \A i \in 1..Len(toChild) : toChild[i].id # j
    /\ \A r \in results : r[1] # j

\* Nobody will answer j: the compiler could not be run, or a dying child took it along.
Lost(j) == j \in failed \/ LostInChild(j)

LostSlots == Cardinality({j \in ToSet(queue) : Lost(j)})

(* Every client whose job arrived is answered or disconnected; no help of a client's
   timeout is needed, and the jobs backlogged behind do not depend on one another's
   clients.  Exceptions are a job whose compiler could not be run (the error has no
   listener in VM_runtime.ts), a job that a dying VM child took with it, both of which
   get heartbeats for ever, and what is backlogged when such jobs hold every slot.
   (An answer and a disconnect are for good.) *)
EveryJobEnds ==
    <>[]\A j \in Jobs :
          job[j].conn = "open" => \/ job[j].answered
                                  \/ Lost(j)
                                  \/ job[j].mode = "backlogged" /\ LostSlots >= Slots
=============================================================================
