-------------------------- MODULE BuilderRegistry --------------------------
(***************************************************************************)
(* The builders' connections to the scheduler: a builder's websocket and   *)
(* its reconnect timer (builder/Client.ts, builder/fisk-builder.ts), and   *)
(* the scheduler's registry of builders, its counters and its pings        *)
(* (scheduler/fisk-scheduler.ts, scheduler/Client.ts).                     *)
(*                                                                         *)
(* The registry is keyed by address and port, while connections come and   *)
(* go: the two ends of one notice its end at different times, and the      *)
(* timer starts a new attempt each second, whether or not one is pending.  *)
(* A message that the end of its connection overtakes counts as sent after *)
(* that end; the others arrive when they are sent.                         *)
(***************************************************************************)
EXTENDS SchedulerRegistry

CONSTANTS PingInterval, MaxPongInterval, \* --ping-interval, --max-pong-interval
          MaxSilence,      \* bound: pings without an answer are counted up to here
          Retrying         \* the builders whose first attempts have already failed

ASSUME BuilderAssumption ==
    /\ {PingInterval, MaxPongInterval, MaxSilence} \subseteq Nat
    /\ Retrying \subseteq Machines

VARIABLES
    up,           \* the builder's process runs
    peer,         \* the builder's end: "idle", "connecting", "open", "gone"
    ws,           \* Client.ws of each builder
    deaf,         \* the connections whose listeners were removed while they lived
    timer,        \* connectInterval is set
    unanswered    \* pings the scheduler sent since the last pong

builderVars == <<up, peer, ws, deaf, timer>>
vars == <<builderVars, registryVars, unanswered>>

Init ==
    /\ RegistryInit
    /\ up = [m \in Machines |-> m \in Retrying]
    /\ peer = [c \in Conns |-> "idle"]
    /\ ws = [m \in Machines |-> None]
    /\ deaf = {}
    /\ timer = [m \in Machines |-> m \in Retrying]
    /\ unanswered = [c \in Conns |-> 0]

----------------------------------------------------------------------------
(* The builder *)

\* client.connect(): at start-up, and each time the timer fires.
Connect(c) ==
    LET m == MachineOf[c]
    IN /\ peer[c] = "idle"
       /\ timer[m] \/ ~up[m]
       /\ up' = [up EXCEPT ![m] = TRUE]
       /\ peer' = [peer EXCEPT ![c] = "connecting"]
       /\ ws' = [ws EXCEPT ![m] = c]
       /\ UNCHANGED <<deaf, timer, registryVars, unanswered>>

\* The websocket's "open" event: "connect", if it is heard, stops the timer.
Opened(c) ==
    /\ peer[c] = "connecting"
    /\ sched[c] # "none"
    /\ peer' = [peer EXCEPT ![c] = "open"]
    /\ timer' = [timer EXCEPT ![MachineOf[c]] = @ /\ c \in deaf]
    /\ UNCHANGED <<up, ws, deaf, registryVars, unanswered>>

\* Mutant of PeerCloses: only the end of the latest attempt starts the timer.
PeerClosesIfCurrent(c) ==
    LET m == MachineOf[c]
    IN /\ peer[c] \in {"connecting", "open"}
       /\ c \notin deaf
       /\ peer' = [peer EXCEPT ![c] = "gone"]
       /\ ws' = [ws EXCEPT ![m] = IF @ = c THEN None ELSE @]
       /\ timer' = [timer EXCEPT ![m] = @ \/ ws[m] = c]
       /\ UNCHANGED <<up, deaf, registryVars, unanswered>>

\* The websocket's "close" event, of an attempt that failed or of a connection
\* that broke.  Whichever websocket it was, the timer runs, and Client.ws, which may
\* be a later attempt by now, loses its listeners and is reset.
PeerCloses(c) ==
    LET m == MachineOf[c]
    IN /\ peer[c] \in {"connecting", "open"}
       /\ c \notin deaf
       /\ peer' = [peer EXCEPT ![c] = "gone"]
       /\ deaf' = deaf \cup ({ws[m]} \ {None, c})
       /\ ws' = [ws EXCEPT ![m] = None]
       /\ timer' = [timer EXCEPT ![m] = TRUE]
       /\ UNCHANGED <<up, registryVars, unanswered>>

\* The end of a connection nobody listens to any more.
DeafCloses(c) ==
    /\ c \in deaf
    /\ peer[c] = "open"
    /\ peer' = [peer EXCEPT ![c] = "gone"]
    /\ deaf' = deaf \ {c}
    /\ UNCHANGED <<up, ws, timer, registryVars, unanswered>>

\* The "error" of a failed attempt nobody listens to: an uncaught exception, which
\* ends the process (fisk-builder.ts:81).
DeafFails(c) ==
    LET m == MachineOf[c]
    IN /\ c \in deaf
       /\ peer[c] = "connecting"
       /\ up' = [up EXCEPT ![m] = FALSE]
       /\ peer' = [d \in Conns |-> IF MachineOf[d] = m /\ peer[d] # "idle"
                                    THEN "gone" ELSE peer[d]]
       /\ ws' = [ws EXCEPT ![m] = None]
       /\ timer' = [timer EXCEPT ![m] = FALSE]
       /\ deaf' = deaf \ ConnsOf(m)
       /\ UNCHANGED <<registryVars, unanswered>>

----------------------------------------------------------------------------
(* The scheduler *)

\* The connection arrives, and server.on("builder") inserts it.
BuilderArrives(c) ==
    /\ peer[c] # "idle"
    /\ InsertBuilder(c)
    /\ UNCHANGED <<builderVars, unanswered>>

\* builder.on("close").
BuilderCloses(c) ==
    /\ RemoveBuilder(c)
    /\ unanswered' = [unanswered EXCEPT ![c] = 0]
    /\ UNCHANGED builderVars

\* The scheduler goes down and comes up again: its end of every connection is gone.
SchedulerRestarts ==
    /\ Inserted # {}
    /\ sched' = [c \in Conns |-> IF c \in Inserted THEN "closed" ELSE sched[c]]
    /\ registry' = [m \in Machines |-> None]
    /\ builderCount' = 0
    /\ capacity' = 0
    /\ unanswered' = [c \in Conns |-> 0]
    /\ UNCHANGED builderVars

\* Mutant of PingAll: a builder that has not answered is taken off the registry.
PingAllForgetting ==
    LET silent == {m \in Machines : registry[m] # None /\ unanswered[registry[m]] = 1}
    IN /\ \E m \in Machines : registry[m] # None
       /\ registry' = [m \in Machines |-> IF m \in silent THEN None ELSE registry[m]]
       /\ unanswered' = [c \in Conns |-> IF registry[MachineOf[c]] = c THEN 1 ELSE unanswered[c]]
       /\ UNCHANGED <<builderVars, sched, builderCount, capacity>>

\* Client.ping gives up on c.  The builder's Client is constructed without the
\* options (Server.ts:441), and pingSent is the time of the latest ping.
OptionGiven == FALSE
GivesUp(c) == OptionGiven /\ unanswered[c] > 0 /\ PingInterval > MaxPongInterval

\* The interval that pings every registered builder.
PingAll ==
    LET pinged == {c \in Conns : registry[MachineOf[c]] = c /\ sched[c] = "open"}
    IN /\ pinged # {}
       /\ sched' = [c \in Conns |-> IF c \in pinged /\ GivesUp(c) THEN "closing" ELSE sched[c]]
       /\ unanswered' = [c \in Conns |->
                           IF c \in pinged /\ ~GivesUp(c) /\ unanswered[c] < MaxSilence
                           THEN unanswered[c] + 1 ELSE unanswered[c]]
       /\ UNCHANGED <<builderVars, registry, builderCount, capacity>>

\* The "pong" event.
Pong(c) ==
    /\ sched[c] = "open"
    /\ peer[c] = "open"
    /\ unanswered[c] > 0
    /\ unanswered' = [unanswered EXCEPT ![c] = 0]
    /\ UNCHANGED <<builderVars, sched, registry, builderCount, capacity>>

Next ==
    \/ \E c \in Conns :
          \/ Connect(c) \/ Opened(c) \/ PeerCloses(c) \/ DeafCloses(c) \/ DeafFails(c)
          \/ BuilderArrives(c) \/ BuilderCloses(c) \/ Pong(c)
    \/ PingAll
    \/ SchedulerRestarts

Spec == Init /\ [][Next]_vars

----------------------------------------------------------------------------
(* Properties *)

TypeOK ==
    /\ RegistryTypeOK
    /\ up \in [Machines -> BOOLEAN]
    /\ peer \in [Conns -> {"idle", "connecting", "open", "gone"}]
    /\ ws \in [Machines -> Conns \cup {None}]
    /\ deaf \subseteq Conns
    /\ timer \in [Machines -> BOOLEAN]
    /\ unanswered \in [Conns -> 0..MaxSilence]

(* A builder that runs hears of the end of a connection or of an attempt, or is
   about to try again: the closes that take another attempt's listeners never leave
   it waiting for nothing. *)
KeepsTrying ==
    /\ TypeOK
    /\ \A m \in Machines : up[m] =>
          timer[m] \/ \E c \in ConnsOf(m) \ deaf : peer[c] \in {"connecting", "open"}

(* --max-pong-interval is the "Maximum pong interval before disconnect"
   (fisk-scheduler.ts:45): of a connection the scheduler keeps open, the pings since
   the last pong span no more than that, and the interval until the next ping. *)
SilenceIsBounded ==
    \A c \in Conns : sched[c] = "open" =>
       unanswered[c] * PingInterval <= MaxPongInterval + PingInterval

(* The scheduler forgets a connection it has not closed only when another
   connection of the same builder is inserted or closed. *)
ForgottenOnlyByRival ==
    [][\A m \in Machines :
          (registry[m] # None /\ registry'[m] # registry[m] /\ registry[m] \in Inserted') =>
             \E c \in ConnsOf(m) \ {registry[m]} : sched'[c] # sched[c]]_vars
=============================================================================
