----------------------------- MODULE FiskcSlots -----------------------------
(***************************************************************************)
(* fiskc processes against the slots of their machine's daemon: the slot   *)
(* protocol of client/main.cpp and client/DaemonSocket.cpp, over a stream  *)
(* socket each, composed with DaemonSlots.                                 *)
(*                                                                         *)
(* A fiskc asks for a slot (acquireSlot), waits for it, and then compiles  *)
(* locally (local slot) or preprocesses (cpp slot) and compiles remotely.  *)
(* Whatever goes wrong ends in runLocal, which asks for a compile slot,    *)
(* possibly while the cpp slot is still held, and then compiles anyway.    *)
(* Slots are given back when the process exits and its socket closes.      *)
(***************************************************************************)
EXTENDS DaemonSlots, CompilerInfoCache

\* It is the connections that look their compilers up.
ASSUME EveryoneLooksUp == Lookers = Conns

CONSTANT Makes \* which processes a run of make may start: "idle" for one that will ask
               \* for a slot, "local" for one that may not distribute (disabled, or
               \* arguments it cannot parse), "exited" for one it does not need

ASSUME MakesAssumption == Makes \subseteq [Conns -> {"idle", "local", "exited"}]

VARIABLES
    pc,        \* where each fiskc is in main(), which it has not entered in "idle", "local"
    has,       \* mHasCppSlot, mHasCompileSlot, mHasLocalSlot: the slots it read about
    toDaemon,  \* what it wrote to its socket and the daemon has not read
    daemonUp   \* FALSE once the daemon died

clientVars == <<pc, has, toDaemon, daemonUp>>
allVars == <<vars, clientVars, infoVars>>

Places == {"idle", "local", "waitSlot", "preprocessing", "remote", "waitCompile",
           "compiling", "exited"}

Requests == {"acquireSlot", "acquireCompileSlot", "releaseCppSlot", "end"}

SlotsInit ==
    /\ Init
    /\ InfoInit
    /\ pc \in Makes
    /\ has = [c \in Conns |-> {}]
    /\ toDaemon = [c \in Conns |-> <<>>]
    /\ daemonUp = TRUE

Goto(c, where) == pc' = [pc EXCEPT ![c] = where]

Send(c, msg) ==
    toDaemon' = IF daemonUp THEN [toDaemon EXCEPT ![c] = Append(@, msg)] ELSE toDaemon

\* Nothing of the daemon moves in a client's step.
ClientStep == UNCHANGED <<vars, infoVars>>

----------------------------------------------------------------------------
(* client/main.cpp *)

\* The lambda runLocal (main.cpp:270): ask for a compile slot and wait for it.
RunLocal(c) == Goto(c, "waitCompile") /\ Send(c, "acquireCompileSlot")

Running(c) == pc[c] \notin {"idle", "local", "exited"}

\* The daemon socket connects; a fiskc that may not distribute runs locally, the
\* others ask for a slot.
Start(c) ==
    /\ daemonUp
    /\ Connect(c)
    /\ \/ pc[c] = "local" /\ RunLocal(c)
       \/ pc[c] = "idle" /\ Goto(c, "waitSlot") /\ Send(c, "acquireSlot")
    /\ UNCHANGED <<has, daemonUp, infoVars>>

\* No daemon to connect to, or not before the watchdog barked: Client::runLocal
\* without any slot.
StartAlone(c) ==
    /\ pc[c] \in {"idle", "local"}
    /\ Goto(c, "compiling")
    /\ ClientStep
    /\ UNCHANGED <<has, toDaemon, daemonUp>>

\* DaemonSocket::processMessage reads the slot messages that arrived.
ReadGrants(c) ==
    /\ Running(c)
    /\ ~(granted[c] \subseteq has[c])
    /\ has' = [has EXCEPT ![c] = @ \cup granted[c]]
    /\ ClientStep
    /\ UNCHANGED <<pc, toDaemon, daemonUp>>

\* waitForSlot is over: with no compiler info (the answer had none, or there was
\* no answer) fiskc runs locally, else with the slot it got.
AfterSlotWait(c) ==
    /\ IF has[c] \cap {"cpp", "local"} = {} \/ c \notin known
       THEN RunLocal(c)
       ELSE /\ Goto(c, IF "local" \in has[c] THEN "compiling" ELSE "preprocessing")
            /\ UNCHANGED toDaemon
    /\ ClientStep
    /\ UNCHANGED <<has, daemonUp>>

SlotWaitOver(c) ==
    /\ pc[c] = "waitSlot"
    /\ has[c] \cap {"cpp", "local"} # {} \/ ~daemonUp
    /\ AfterSlotWait(c)

\* --slot-acquisition-timeout ran out first.
SlotWaitTimedOut(c) ==
    /\ pc[c] = "waitSlot"
    /\ has[c] \cap {"cpp", "local"} = {}
    /\ AfterSlotWait(c)

\* Mutant: the cpp slot is given back while the preprocessor still runs.
ReleaseCppEarly(c) ==
    /\ pc[c] = "preprocessing"
    /\ "cpp" \in granted[c]
    /\ toDaemon[c] = <<>>
    /\ Send(c, "releaseCppSlot")
    /\ ClientStep
    /\ UNCHANGED <<pc, has, daemonUp>>

\* The preprocessed output is there (or uploaded, in mode upload-finished): the
\* cpp slot is given back.
ReleaseCpp(c) ==
    /\ pc[c] = "preprocessing"
    /\ Goto(c, "remote")
    /\ Send(c, "releaseCppSlot")
    /\ ClientStep
    /\ UNCHANGED <<has, daemonUp>>

\* Preprocessing failed or the watchdog barked: local compile, cpp slot still held.
PreprocessFailed(c) ==
    /\ pc[c] = "preprocessing"
    /\ RunLocal(c)
    /\ ClientStep
    /\ UNCHANGED <<has, daemonUp>>

\* Mutant: the cpp slot is given back once more.
RemoteFailedReleasingAgain(c) ==
    /\ pc[c] = "remote"
    /\ Goto(c, "waitCompile")
    /\ toDaemon' = [toDaemon EXCEPT ![c] = @ \o <<"releaseCppSlot", "acquireCompileSlot">>]
    /\ ClientStep
    /\ UNCHANGED <<has, daemonUp>>

\* The remote compile failed: no builder, a lost connection, a timeout, an error.
RemoteFailed(c) ==
    /\ pc[c] = "remote"
    /\ RunLocal(c)
    /\ ClientStep
    /\ UNCHANGED <<has, daemonUp>>

\* Mutant: waits for an answer also of a daemon that died.
CompileWaitForAnswer(c) ==
    /\ pc[c] = "waitCompile"
    /\ "compile" \in has[c]
    /\ Goto(c, "compiling")
    /\ ClientStep
    /\ UNCHANGED <<has, toDaemon, daemonUp>>

\* waitForCompileSlot ends with a slot, without a daemon or by timeout; fiskc
\* compiles in each case.
CompileWaitOver(c) ==
    /\ pc[c] = "waitCompile"
    /\ "compile" \in has[c] \/ ~daemonUp
    /\ Goto(c, "compiling")
    /\ ClientStep
    /\ UNCHANGED <<has, toDaemon, daemonUp>>

CompileWaitTimedOut(c) ==
    /\ pc[c] = "waitCompile"
    /\ "compile" \notin has[c]
    /\ Goto(c, "compiling")
    /\ ClientStep
    /\ UNCHANGED <<has, toDaemon, daemonUp>>

\* The process ends and its socket closes; what its mSendBuffer still held at that
\* moment (a suffix of the messages the daemon has not read) is lost.
Exit(c) ==
    /\ Goto(c, "exited")
    /\ toDaemon' \in IF daemonUp /\ conn[c] = "open"
                     THEN {[toDaemon EXCEPT ![c] = SubSeq(@, 1, n) \o <<"end">>] :
                              n \in 0..Len(toDaemon[c])}
                     ELSE {toDaemon}
    /\ ClientStep
    /\ UNCHANGED <<has, daemonUp>>

\* The compile is over; a cached object may end it before the cpp slot is returned.
Finish(c) == pc[c] \in {"preprocessing", "remote", "compiling"} /\ Exit(c)

\* A fiskc is killed (make was interrupted).
Killed(c) == Running(c) /\ Exit(c)

----------------------------------------------------------------------------
(* The daemon *)

\* The handler of the next message of c.
HandleMessage(c) ==
    /\ daemonUp
    /\ toDaemon[c] # <<>>
    /\ CASE Head(toDaemon[c]) = "acquireSlot" -> AcquireSlot(c)
         [] Head(toDaemon[c]) = "acquireCompileSlot" -> AcquireCompileSlot(c)
         [] Head(toDaemon[c]) = "releaseCppSlot" -> ReleaseSlot("cpp", c)
         [] Head(toDaemon[c]) = "end" -> Close(c)
    /\ IF Head(toDaemon[c]) = "acquireSlot" THEN Ask(c) ELSE UNCHANGED infoVars
    /\ toDaemon' = [toDaemon EXCEPT ![c] = Tail(@)]
    /\ UNCHANGED <<pc, has, daemonUp>>

\* The compiler lookup of acquireSlot goes on, in turns of its own.
LooksUp(c) ==
    /\ daemonUp
    /\ Stat(c) \/ StatFails(c)
    /\ UNCHANGED <<vars, clientVars>>

RunsProbe(v) ==
    /\ daemonUp
    /\ Probe(v) \/ ProbeFails(v)
    /\ UNCHANGED <<vars, clientVars>>

\* ... and its promise settles.
LookupDone(c) ==
    /\ daemonUp
    /\ \E found, loadOk \in BOOLEAN : Resolve(c, found) /\ CompilerInfoReady(c, found, loadOk)
    /\ UNCHANGED clientVars

CompilerReplaced ==
    /\ daemonUp
    /\ \E v \in Compilers : Replace(v)
    /\ UNCHANGED <<vars, clientVars>>

\* fisk-monitor starts to watch the slots, or stops.
Watches(m) ==
    /\ daemonUp
    /\ SubscribeSlots(m) \/ Unsubscribe(m)
    /\ UNCHANGED <<clientVars, infoVars>>

\* Mutant: a daemon that has forgotten its clients takes over at once.
DaemonDiesForgetting ==
    /\ daemonUp
    /\ daemonUp' = FALSE
    /\ toDaemon' = [c \in Conns |-> <<>>]
    /\ used' = [k \in Kinds |-> {}]
    /\ pending' = [k \in Kinds |-> <<>>]
    /\ requested' = [c \in Conns |-> {}]
    /\ granted' = [c \in Conns |-> {}]
    /\ subscribers' = {}
    /\ lastInfo' = [m \in Monitors |-> SlotsInfo']
    /\ UNCHANGED <<conn, lookups, known, infoVars, pc, has>>

\* The daemon dies; its clients see their sockets close.
DaemonDies ==
    /\ daemonUp
    /\ daemonUp' = FALSE
    /\ toDaemon' = [c \in Conns |-> <<>>]
    /\ ClientStep
    /\ UNCHANGED <<pc, has>>

Works(c) ==
    \/ Start(c) \/ StartAlone(c) \/ ReadGrants(c) \/ SlotWaitOver(c) \/ ReleaseCpp(c)
    \/ CompileWaitOver(c) \/ Finish(c)

Suffers(c) ==
    \/ SlotWaitTimedOut(c) \/ PreprocessFailed(c) \/ RemoteFailed(c)
    \/ CompileWaitTimedOut(c) \/ Killed(c)

SlotsNext ==
    \/ \E c \in Conns : Works(c) \/ Suffers(c) \/ HandleMessage(c) \/ LooksUp(c) \/ LookupDone(c)
    \/ \E v \in Compilers : RunsProbe(v)
    \/ \E m \in Monitors : Watches(m)
    \/ CompilerReplaced
    \/ DaemonDies

SlotsSpec == SlotsInit /\ [][SlotsNext]_allVars

(***************************************************************************)
(* A fiskc keeps running and the daemon keeps serving its event loop.      *)
(* Timeouts, failures, kills and the daemon's death may happen or not: in  *)
(* particular nothing below relies on --slot-acquisition-timeout.          *)
(***************************************************************************)
Fairness ==
    /\ \A c \in Conns :
          /\ WF_allVars(Works(c))
          /\ WF_allVars(HandleMessage(c))
          /\ WF_allVars(LooksUp(c))
          /\ WF_allVars(LookupDone(c))
    /\ \A v \in Compilers : WF_allVars(RunsProbe(v))

FairSlotsSpec == SlotsSpec /\ Fairness

----------------------------------------------------------------------------
(* Properties *)

SlotsTypeOK ==
    /\ TypeOK
    /\ InfoTypeOK
    /\ pc \in [Conns -> Places]
    /\ has \in [Conns -> SUBSET Kinds]
    /\ toDaemon \in [Conns -> Seq(Requests)]
    /\ daemonUp \in BOOLEAN

(* No message of a fiskc, however late it is read, meets a handler of the daemon
   whose assertion (fisk-daemon.ts:189, 202) would fail: also a fiskc that gave up
   waiting for its slot, was granted one later and runs locally.  And none asks for
   a cpp slot of its own while its lookup is under way (fisk-daemon.ts:270). *)
DaemonAssertionsHold ==
    /\ SlotsTypeOK
    /\ \A c \in Conns :
          /\ (daemonUp /\ c \in lookups /\ conn[c] = "open") => "cpp" \notin requested[c]
          /\ (daemonUp /\ toDaemon[c] # <<>>) =>
                CASE Head(toDaemon[c]) = "acquireCompileSlot" -> "compile" \notin requested[c]
                  [] Head(toDaemon[c]) = "releaseCppSlot" -> "cpp" \in requested[c]
                  [] OTHER -> conn[c] = "open"

(* The slots bound what the machine does, as long as the daemon lives: no more
   fiskc preprocess than there are cpp slots, and none compiles on a local slot
   or on a compile slot beyond their number. *)
MachineNotOverloaded ==
    daemonUp =>
       /\ Cardinality({c \in Conns : pc[c] = "preprocessing"}) <= CppSlots
       /\ Cardinality({c \in Conns : pc[c] = "compiling" /\ "local" \in has[c]})
             <= LocalSlots
       /\ Cardinality({c \in Conns : pc[c] = "compiling" /\ "compile" \in has[c]})
             <= CompileSlots

(* Every fiskc ends, although one may hold a cpp slot while it waits for a compile
   slot, share a compiler lookup that fails, and is not forced by any timeout: the
   slots cannot deadlock.  (A process runs once, so it is enough that all of those
   that ever start have ended at some time.) *)
EveryFiskcEnds == <>[](\A c \in Conns : ~Running(c))
=============================================================================
