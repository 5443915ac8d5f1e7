------------------------------ MODULE JobFeed ------------------------------
(***************************************************************************)
(* What happens to a job between the scheduler that numbers it, the        *)
(* builder that runs it under that number and the monitor that shows it:   *)
(* nextJobId and the messages to monitors (scheduler/fisk-scheduler.ts),   *)
(* the compiles of a VM (builder/VM.ts), the reports of a builder, and the *)
(* tables of the terminal monitor (monitor/fisk-monitor.ts).               *)
(*                                                                         *)
(* The connections are those of BuilderRegistry, so reports get lost while *)
(* a builder's current websocket is not open, and the scheduler, which     *)
(* numbers from 1 again when it restarts, may be gone.  Each job is the    *)
(* only one of its client here, and a builder has one VM.                  *)
(***************************************************************************)
EXTENDS BuilderRegistry

CONSTANTS Jobs,
          IdLimit,      \* 2147483647
          Before,       \* how many jobs, all over, the scheduler may have numbered
          MaxSerial,    \* bound: no job is numbered beyond this
          MaxLives      \* bound: the scheduler restarts less often than this

ASSUME FeedAssumption ==
    /\ IsFiniteSet(Jobs)
    /\ None \notin Jobs
    /\ {IdLimit, MaxSerial, MaxLives} \subseteq Nat \ {0}
    /\ Before \subseteq 0..MaxSerial

VARIABLES
    jobId,        \* the scheduler's counter
    life,         \* which process of the scheduler this is
    job,          \* the jobs, at the scheduler and at their builder
    compiles,     \* VM.compiles of each builder, by id
    monitor,      \* the monitor's websocket: "gone", "connected", "informed"
    known,        \* the monitor's table of builders ...
    active,       \* ... and the active of each
    table,        \* its table of jobs, by id
    shown         \* the jobs in its lists of clients' jobs

jobVars == <<jobId, life, job, compiles>>
monitorVars == <<monitor, known, active, table, shown>>
feedVars == <<jobVars, monitorVars>>

NewJob == [serial |-> 0, life |-> 0, at |-> None, phase |-> "none",
           compiler |-> FALSE, result |-> None]

\* Mutant of IdOf: every id from the limit on is 1.
IdOfClamped(serial) == IF serial >= IdLimit THEN 1 ELSE serial

\* nextJobId: the counter itself does not start again.
IdOf(serial) == IF serial = IdLimit THEN 1 ELSE serial
Ids == 1..MaxSerial

FeedInit ==
    /\ Init
    /\ jobId \in Before
    /\ life = 1
    /\ job = [j \in Jobs |-> NewJob]
    /\ compiles = [m \in Machines |-> [i \in Ids |-> None]]
    /\ monitor = "gone"
    /\ known = {}
    /\ active = [m \in Machines |-> 0]
    /\ table = [i \in Ids |-> None]
    /\ shown = {}

Id(j) == IdOf(job[j].serial)

----------------------------------------------------------------------------
(* The monitor: what each message changes.  A monitor that is connected gets *)
(* the messages; the builders it is told when it has asked (sendInfo).       *)

Listening == monitor # "gone"

\* Mutant of Added: the entry of a builder that is already known is kept.
AddedKeepingActive(builders) ==
    /\ known' = known \cup builders
    /\ active' = [m \in Machines |-> IF m \in builders \ known THEN 0 ELSE active[m]]
    /\ UNCHANGED <<table, shown>>

\* builderAdded: a new entry, with nothing active.
Added(builders) ==
    /\ known' = known \cup builders
    /\ active' = [m \in Machines |-> IF m \in builders THEN 0 ELSE active[m]]
    /\ UNCHANGED <<table, shown>>

\* builderRemoved: its jobs leave the lists, and stay in the table.
Removed(m) ==
    /\ known' = known \ {m}
    /\ active' = [active EXCEPT ![m] = 0]
    /\ shown' = shown \ {table[i] : i \in {i \in Ids : table[i] # None /\ job[table[i]].at = m}}
    /\ UNCHANGED table

\* jobStarted.
Started(j) ==
    IF job[j].at \notin known
    THEN UNCHANGED <<known, active, table, shown>>
    ELSE /\ table' = [table EXCEPT ![Id(j)] = j]
         /\ shown' = shown \cup {j}
         /\ active' = [active EXCEPT ![job[j].at] = @ + 1]
         /\ UNCHANGED known

\* jobFinished and jobAborted, which name nothing but the id.
Ended(id) ==
    IF table[id] = None
    THEN UNCHANGED <<known, active, table, shown>>
    ELSE LET m == job[table[id]].at
         IN /\ table' = [table EXCEPT ![id] = None]
            /\ shown' = shown \ {table[id]}
            /\ active' = IF m \in known THEN [active EXCEPT ![m] = @ - 1] ELSE active
            /\ UNCHANGED known

Silent == UNCHANGED <<known, active, table, shown>>

\* clearData.
Cleared ==
    /\ known' = {}
    /\ active' = [m \in Machines |-> 0]
    /\ table' = [i \in Ids |-> None]
    /\ shown' = {}

\* The monitor's connect and the scheduler's server.on("monitor").
MonitorConnects ==
    /\ monitor = "gone"
    /\ monitor' = "connected"
    /\ UNCHANGED <<vars, jobVars, known, active, table, shown>>

\* sendInfo.
SendInfo ==
    /\ monitor = "connected"
    /\ monitor' = "informed"
    /\ Added({m \in Machines : registry[m] # None})
    /\ UNCHANGED <<vars, jobVars>>

MonitorCloses ==
    /\ Listening
    /\ monitor' = "gone"
    /\ Cleared
    /\ UNCHANGED <<vars, jobVars>>

----------------------------------------------------------------------------
(* The jobs *)

\* client.send of builder m: through its latest websocket, if that one is open.
Heard(m) == ws[m] # None /\ peer[ws[m]] = "open" /\ ws[m] \in Inserted /\ Listening

\* What the scheduler passes on of a builder's jobStarted, jobFinished and jobAborted.
ReportStart(j) == IF Heard(job[j].at) THEN Started(j) ELSE Silent
ReportEnd(j) == IF Heard(job[j].at) THEN Ended(Id(j)) ELSE Silent

\* server.on("compile"): job j is numbered and sent to builder m.
Schedule(j, m) ==
    /\ job[j].phase = "none"
    /\ registry[m] # None
    /\ jobId < MaxSerial
    /\ jobId' = jobId + 1
    /\ job' = [job EXCEPT ![j] = [NewJob EXCEPT !.serial = jobId', !.life = life,
                                                !.at = m, !.phase = "scheduled"]]
    /\ UNCHANGED <<vars, life, compiles, monitorVars>>

\* JobState.start without a cached object: VM.startCompile, and the report.
JobStarts(j) ==
    LET m == job[j].at
    IN /\ job[j].phase = "scheduled"
       /\ up[m]
       /\ job' = [job EXCEPT ![j].phase = "running", ![j].compiler = TRUE]
       /\ compiles' = [compiles EXCEPT ![m][Id(j)] = j]
       /\ ReportStart(j)
       /\ UNCHANGED <<vars, jobId, life, monitor>>

\* The compiler of j ends, and VM.compileFinished gives its result to whatever
\* compile has that id; a compile whose client is gone is only forgotten.
CompileEnds(j) ==
    LET m == job[j].at
        k == compiles[m][Id(j)]
        over == [job EXCEPT ![j].compiler = FALSE]
    IN /\ job[j].compiler
       /\ compiles' = [compiles EXCEPT ![m][Id(j)] = None]
       /\ IF k # None /\ job[k].phase = "running"
          THEN /\ job' = [over EXCEPT ![k].phase = "over", ![k].result = j]
               /\ ReportEnd(j)
          ELSE job' = over /\ Silent
       /\ UNCHANGED <<vars, jobId, life, monitor>>

\* job.on("close") of a job that is not done: its compiler runs on.
JobAborts(j) ==
    /\ job[j].phase = "running"
    /\ job' = [job EXCEPT ![j].phase = "over"]
    /\ ReportEnd(j)
    /\ UNCHANGED <<vars, jobId, life, compiles, monitor>>

----------------------------------------------------------------------------
(* The connections, and what monitor and jobs have to do with them *)

BuilderComes(c) ==
    /\ BuilderArrives(c)
    /\ IF Listening THEN Added({MachineOf[c]}) ELSE Silent
    /\ UNCHANGED <<jobVars, monitor>>

BuilderGoes(c) ==
    /\ BuilderCloses(c)
    /\ IF Listening THEN Removed(MachineOf[c]) ELSE Silent
    /\ UNCHANGED <<jobVars, monitor>>

\* The builder's process takes its jobs with it.
BuilderDies(c) ==
    LET m == MachineOf[c]
    IN /\ DeafFails(c)
       /\ job' = [j \in Jobs |->
                    IF job[j].at = m /\ job[j].phase \in {"running", "over"}
                    THEN [job[j] EXCEPT !.phase = "over", !.compiler = FALSE] ELSE job[j]]
       /\ compiles' = [compiles EXCEPT ![m] = [i \in Ids |-> None]]
       /\ UNCHANGED <<jobId, life, monitorVars>>

Restart ==
    /\ life < MaxLives
    /\ SchedulerRestarts
    /\ jobId' = 0
    /\ life' = life + 1
    /\ monitor' = "gone"
    /\ Cleared
    /\ UNCHANGED <<job, compiles>>

FeedNext ==
    \/ \E c \in Conns :
          \/ (Connect(c) \/ Opened(c) \/ PeerCloses(c) \/ DeafCloses(c) \/ Pong(c))
             /\ UNCHANGED feedVars
          \/ BuilderComes(c) \/ BuilderGoes(c) \/ BuilderDies(c)
    \/ PingAll /\ UNCHANGED feedVars
    \/ \E j \in Jobs :
          \/ \E m \in Machines : Schedule(j, m)
          \/ JobStarts(j) \/ CompileEnds(j) \/ JobAborts(j)
    \/ MonitorConnects \/ SendInfo \/ MonitorCloses
    \/ Restart

allVars == <<vars, feedVars>>

FeedSpec == FeedInit /\ [][FeedNext]_allVars

----------------------------------------------------------------------------
(* Properties *)

JobsTypeOK ==
    /\ jobId \in 0..MaxSerial
    /\ life \in 1..MaxLives
    /\ job \in [Jobs -> [serial : 0..MaxSerial, life : 0..MaxLives, at : Machines \cup {None},
                         phase : {"none", "scheduled", "running", "over"},
                         compiler : BOOLEAN, result : Jobs \cup {None}]]
    /\ compiles \in [Machines -> [Ids -> Jobs \cup {None}]]

MonitorTypeOK ==
    /\ monitor \in {"gone", "connected", "informed"}
    /\ known \subseteq Machines
    /\ active \in [Machines -> Int]
    /\ table \in [Ids -> Jobs \cup {None}]
    /\ shown \subseteq Jobs

Numbered == {j \in Jobs : job[j].phase # "none"}
Running(m) == {j \in Jobs : job[j].at = m /\ job[j].phase = "running"}

\* j and k have one id because a restart, or the limit, lies between them.
Namesakes(j, k) ==
    /\ Id(j) = Id(k)
    /\ job[j].life # job[k].life \/ {job[j].serial, job[k].serial} = {1, IdLimit}

(* A client gets the result of its own compile, and one that waits has its compile
   in the VM's map, so that it will get one: nothing but a restart of the scheduler
   or the id that was handed out twice at the limit mixes jobs up. *)
ResultsAreOwn ==
    /\ JobsTypeOK
    /\ \A k \in Jobs : job[k].result \notin {None, k} => Namesakes(k, job[k].result)
    /\ \A k \in Jobs : job[k].phase = "running" =>
          \/ compiles[job[k].at][Id(k)] = k /\ job[k].compiler
          \/ \E j \in Numbered \ {k} : Namesakes(j, k)

(* What the monitor shows: once informed, the builders of the registry; in its lists
   only jobs of builders it knows; and no builder busier than it is, lost reports,
   reconnects and a builder's death included, if the builder reports on the
   connection it is registered with.  Jobs with one id are excepted, and so is the
   other direction: a builder that reconnects shows fewer, even less than none. *)
MonitorIsRight ==
    /\ MonitorTypeOK
    /\ monitor = "informed" => known = {m \in Machines : registry[m] # None}
    /\ \/ \E j \in Numbered : \E k \in Numbered \ {j} : Id(j) = Id(k)
       \/ /\ \A j \in shown : job[j].at \in known /\ table[Id(j)] = j
          /\ \A m \in known : (registry[m] # None /\ ws[m] = registry[m]) =>
                active[m] <= Cardinality(Running(m))
=============================================================================
