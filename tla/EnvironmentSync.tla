-------------------------- MODULE EnvironmentSync --------------------------
(***************************************************************************)
(* How a builder gets the environments that the scheduler has:             *)
(* syncEnvironments (scheduler/fisk-scheduler.ts), and what the builder    *)
(* does about "getEnvironments" and "dropEnvironments"                     *)
(* (builder/fisk-builder.ts, VM.ts).  The builder answers every            *)
(* "getEnvironments" with a loop of its own, through downloads, tar and    *)
(* the start of a child, each in later turns; the loops share the          *)
(* directories and know nothing of each other.                             *)
(***************************************************************************)
EXTENDS Integers, FiniteSets, Sequences, SequencesExt

CONSTANTS Envs,        \* environments
          Runnable,    \* those the builder's system can run
          Initial,     \* those that scheduler and builder have at the start
          Loops,       \* bound: loops at a time; "getEnvironments" waits for one
          MaxArrivals, \* bound: environments that arrive
          MaxFailures  \* bound: disconnects, restarts and failures of all kinds

ASSUME SyncAssumption ==
    /\ IsFiniteSet(Envs)
    /\ Runnable \subseteq Envs
    /\ Initial \subseteq Runnable
    /\ {MaxArrivals, MaxFailures} \subseteq Nat

VARIABLES
    has,       \* the scheduler's Environments
    listed,    \* its builder.environments
    conn,      \* the connection: "down", "trying" (the headers are sent) or "up"
    toBuilder, \* messages under way to the builder
    toSched,   \* lists of environments under way to it: the headers, then "environments"
    have,      \* the builder's environments, each with a VM
    dir,       \* the state of every environment's directory
    owner,     \* the loop whose download the directory waits for, or None
    loop,      \* what every loop does
    dying,     \* environments with a destroyed VM whose child has yet to exit
    removing,  \* those whose directory is being removed, file by file, since it exited
    arrivals,
    failures,
    crossed,   \* history: directories made while a loop, a VM or a removal used them
    torn,      \* history: directories left by a removal that failed or was cut short
    stale,     \* history: the headers of this connection were out of date, and no list followed
    purged     \* history: the scheduler purged an environment

vars == <<has, listed, conn, toBuilder, toSched, have, dir, owner, loop, dying, removing,
          arrivals, failures, crossed, torn, stale, purged>>
schedVars == <<has, arrivals, purged>>
builderVars == <<have, dir, owner, loop, dying, removing, crossed, torn>>

None == "none"
Free == [stage |-> "free", todo |-> <<>>, env |-> None]
Busy == {"download", "unpack", "start"}   \* at env
Stages == {"free", "next", "inform", "stalled"} \cup Busy

\* A directory with part of a download or of a root, with the whole archive, or with
\* environment.json and all (whole) or only some (gutted) of the root.
Directories == {"none", "partial", "archive", "whole", "gutted"}
Loadable == {"whole", "gutted"}

TypeOK ==
    /\ has \in SUBSET Envs
    /\ listed \in SUBSET Envs
    /\ conn \in {"down", "trying", "up"}
    /\ \A i \in DOMAIN toBuilder : toBuilder[i] \in [type : {"get", "drop"}, envs : (SUBSET Envs) \ {{}}]
    /\ toSched \in Seq(SUBSET Envs)
    /\ have \in SUBSET Runnable
    /\ dir \in [Envs -> Directories]
    /\ owner \in [Envs -> Loops \cup {None}]
    /\ \A l \in Loops : /\ loop[l].stage \in Stages
                        /\ loop[l].todo \in Seq(Envs)
                        /\ loop[l].env \in IF loop[l].stage \in Busy THEN Runnable ELSE {None}
    /\ {dying, removing, crossed, torn} \subseteq SUBSET Envs
    /\ arrivals \in 0..MaxArrivals
    /\ failures \in 0..MaxFailures
    /\ {stale, purged} \subseteq BOOLEAN

\* Both start with what is on their disks.
Init ==
    /\ has = Initial
    /\ listed = {}
    /\ conn = "down"
    /\ toBuilder = <<>>
    /\ toSched = <<>>
    /\ have = Initial
    /\ dir = [e \in Envs |-> IF e \in Initial THEN "whole" ELSE "none"]
    /\ owner = [e \in Envs |-> None]
    /\ loop = [l \in Loops |-> Free]
    /\ dying = {}
    /\ removing = {}
    /\ arrivals = 0
    /\ failures = 0
    /\ crossed = {}
    /\ torn = {}
    /\ stale = FALSE
    /\ purged = FALSE

Fail == failures < MaxFailures /\ failures' = failures + 1

----------------------------------------------------------------------------
(* The scheduler *)

Message(type, S) == IF S = {} THEN <<>> ELSE <<[type |-> type, envs |-> S]>>

\* Mutant of Sync: what is asked for is listed at once.
SyncListing(e, l) ==
    /\ listed' = e \cap (l \cup Runnable)
    /\ toBuilder' = toBuilder \o Message("drop", l \ e) \o Message("get", (e \cap Runnable) \ l)

\* syncEnvironments, when the scheduler has e and the builder has l.
Sync(e, l) ==
    /\ listed' = l \cap e
    /\ toBuilder' = toBuilder \o Message("drop", l \ e) \o Message("get", (e \cap Runnable) \ l)

\* An upload is complete: older ones are purged to the maximum size, or the new one
\* if it alone is larger, and the builder is synced.
Arrive(e, gone) ==
    /\ arrivals < MaxArrivals
    /\ e \notin has /\ gone \subseteq has \cup {e}
    /\ arrivals' = arrivals + 1
    /\ has' = (has \cup {e}) \ gone
    /\ purged' = (purged \/ gone # {})
    /\ IF conn = "up" THEN Sync(has', listed) ELSE UNCHANGED <<listed, toBuilder>>
    /\ UNCHANGED <<conn, toSched, builderVars, failures, stale>>

\* on "environments"
Informed ==
    /\ conn = "up"
    /\ toSched # <<>>
    /\ toSched' = Tail(toSched)
    /\ Sync(has, Head(toSched))
    /\ UNCHANGED <<schedVars, conn, builderVars, failures, stale>>

\* Mutant of Connect: a builder is not synced until it informs the scheduler.
ConnectUnsynced ==
    /\ conn = "trying"
    /\ conn' = "up"
    /\ listed' = Head(toSched)
    /\ toSched' = <<>>
    /\ stale' = (Head(toSched) # have)
    /\ UNCHANGED <<schedVars, toBuilder, builderVars, failures>>

\* server.on("builder"): the headers say what the builder had when it tried.
Connect ==
    /\ conn = "trying"
    /\ conn' = "up"
    /\ Sync(has, Head(toSched))
    /\ toSched' = <<>>
    /\ stale' = (Head(toSched) # have)
    /\ UNCHANGED <<schedVars, builderVars, failures>>

Cut ==
    /\ conn' = "down" /\ listed' = {} /\ toBuilder' = <<>> /\ toSched' = <<>>
    /\ stale' = FALSE

Disconnect ==
    /\ conn # "down"
    /\ Fail
    /\ Cut
    /\ UNCHANGED <<schedVars, builderVars>>

----------------------------------------------------------------------------
(* The builder: messages *)

\* client.connect: what the builder has is written to the headers.
Attempt ==
    /\ conn = "down"
    /\ conn' = "trying"
    /\ toSched' = <<have>>
    /\ UNCHANGED <<schedVars, listed, toBuilder, builderVars, failures, stale>>

\* on "getEnvironments": a loop begins.
Get(l) ==
    /\ toBuilder # <<>> /\ Head(toBuilder).type = "get"
    /\ loop[l] = Free /\ l = CHOOSE k \in Loops : loop[k] = Free
    /\ loop' = [loop EXCEPT ![l] = [@ EXCEPT !.stage = "next", !.todo = SetToSeq(Head(toBuilder).envs)]]
    /\ toBuilder' = Tail(toBuilder)
    /\ UNCHANGED <<schedVars, listed, conn, toSched, have, dir, owner, dying, removing,
                   failures, crossed, torn, stale>>

\* on "dropEnvironments": the VMs are destroyed.
DropEnvironments ==
    /\ toBuilder # <<>> /\ Head(toBuilder).type = "drop"
    /\ have' = have \ Head(toBuilder).envs
    /\ dying' = dying \cup (have \cap Head(toBuilder).envs)
    /\ toBuilder' = Tail(toBuilder)
    /\ UNCHANGED <<schedVars, listed, conn, toSched, dir, owner, loop, removing, failures,
                   crossed, torn, stale>>

exitVars == <<schedVars, listed, conn, toBuilder, toSched, have, loop, crossed, stale>>

\* The child of a destroyed VM, which first ends its compiles, exits: the removal of
\* its directory begins.
Exit(e) ==
    /\ e \in dying
    /\ dying' = dying \ {e}
    /\ removing' = removing \cup {e}
    /\ UNCHANGED <<exitVars, dir, owner, failures, torn>>

\* The removal gets to the root before it gets to environment.json ...
RemoveSome(e) ==
    /\ e \in removing
    /\ dir[e] = "whole"
    /\ dir' = [dir EXCEPT ![e] = "gutted"]
    /\ UNCHANGED <<exitVars, owner, dying, removing, failures, torn>>

\* ... and to the end: what is there by now is gone, whoever made it.
Removed(e) ==
    /\ e \in removing
    /\ removing' = removing \ {e}
    /\ dir' = [dir EXCEPT ![e] = "none"]
    /\ owner' = [owner EXCEPT ![e] = None]
    /\ torn' = torn \ {e}
    /\ UNCHANGED <<exitVars, dying, failures>>

\* Or it fails, which nobody hears of, and leaves what it had not come to.
RemovalFails(e) ==
    /\ e \in removing
    /\ Fail
    /\ removing' = removing \ {e}
    /\ torn' = torn \cup {e}
    /\ UNCHANGED <<exitVars, dir, owner, dying>>

\* fisk-builder starts again and finds these directories, some of them left by a removal
\* that its end cut short: it loads those with an environment.json, and removes the others.
StartAgain(found, left) ==
    /\ Fail
    /\ Cut
    /\ have' = {e \in Envs : found[e] \in Loadable}
    /\ dir' = [e \in Envs |-> IF found[e] \in Loadable THEN found[e] ELSE "none"]
    /\ owner' = [e \in Envs |-> None]
    /\ loop' = [l \in Loops |-> Free]
    /\ dying' = {}
    /\ removing' = {}
    /\ torn' = (torn \cup left) \cap have'
    /\ crossed' = crossed \cap have'
    /\ UNCHANGED schedVars

\* Mutant of Restart: every directory is loaded.
RestartLoadingAll ==
    StartAgain([e \in Envs |-> IF dir[e] = "none" THEN "none" ELSE "gutted"], removing)

\* It ended for whatever reason, or since it has new environments.
Restart == StartAgain(dir, removing)

\* "quit" removes all directories before it ends; an error, which it ignores, or a kill
\* may end that before some are gone, and in the middle of others.
Quit(gone, half) ==
    /\ conn = "up"
    /\ gone \cap half = {}
    /\ \A e \in half : dir[e] \in {"archive", "whole"}
    /\ StartAgain([e \in Envs |-> IF e \in gone THEN "none"
                                  ELSE IF e \in half THEN "gutted" ELSE dir[e]],
                  removing \cup half)

----------------------------------------------------------------------------
(* The builder: one loop *)

Step(l, stage) == loop' = [loop EXCEPT ![l].stage = stage]
Stall(l) == loop' = [loop EXCEPT ![l] = [Free EXCEPT !.stage = "stalled"]]
NextEnv(l) == loop' = [loop EXCEPT ![l].stage = "next", ![l].env = None]
loopVars == <<schedVars, listed, conn, toBuilder, toSched, dying, removing, stale>>

\* work: the next directory is made anew, and filled by a download.
Work(l) ==
    /\ loop[l].stage = "next" /\ loop[l].todo # <<>>
    /\ LET e == Head(loop[l].todo)
       IN /\ loop' = [loop EXCEPT ![l] = [stage |-> "download", todo |-> Tail(@.todo), env |-> e]]
          /\ dir' = [dir EXCEPT ![e] = "partial"]
          /\ owner' = [owner EXCEPT ![e] = l]
          /\ crossed' = IF e \in have \cup dying \cup removing \/ \E k \in Loops : loop[k].env = e
                        THEN crossed \cup {e} ELSE crossed
          /\ torn' = torn \ {e}
    /\ UNCHANGED <<loopVars, have, failures>>

\* The write stream finishes, into its own file even if that has lost its name.
Finish(l) ==
    /\ loop[l].stage = "download"
    /\ Step(l, "unpack")
    /\ IF owner[loop[l].env] = l
       THEN /\ dir' = [dir EXCEPT ![loop[l].env] = "archive"]
            /\ owner' = [owner EXCEPT ![loop[l].env] = None]
       ELSE UNCHANGED <<dir, owner>>
    /\ UNCHANGED <<loopVars, have, failures, crossed, torn>>

\* A download or what follows it fails: the directory is removed.
GiveUp(l) ==
    /\ NextEnv(l)
    /\ dir' = [dir EXCEPT ![loop[l].env] = "none"]
    /\ owner' = [owner EXCEPT ![loop[l].env] = None]

\* tar, environment.json and the removal of the archive.
Unpack(l) ==
    /\ loop[l].stage = "unpack"
    /\ IF dir[loop[l].env] = "archive"
       THEN /\ Step(l, "start")
            /\ dir' = [dir EXCEPT ![loop[l].env] = "whole"]
            /\ UNCHANGED owner
       ELSE GiveUp(l)
    /\ UNCHANGED <<loopVars, have, failures, crossed, torn>>

DownloadFails(l) ==
    /\ loop[l].stage \in {"download", "unpack"}
    /\ Fail
    /\ GiveUp(l)
    /\ UNCHANGED <<loopVars, have, crossed, torn>>

\* environment.json was written and the archive cannot be removed, nor can all of the
\* directory.
LeftBehind(l) ==
    /\ loop[l].stage = "unpack"
    /\ dir[loop[l].env] = "archive"
    /\ Fail
    /\ NextEnv(l)
    /\ dir' = [dir EXCEPT ![loop[l].env] = "gutted"]
    /\ torn' = torn \cup {loop[l].env}
    /\ UNCHANGED <<loopVars, have, owner, crossed>>

\* The VM's child is ready, whatever there is in its root, and the environment is the
\* builder's; or it exits, for want of a root, which nobody handles.
VMStarts(l) ==
    /\ loop[l].stage = "start"
    /\ IF dir[loop[l].env] # "none"
       THEN NextEnv(l) /\ have' = have \cup {loop[l].env}
       ELSE Stall(l) /\ UNCHANGED have
    /\ UNCHANGED <<loopVars, dir, owner, failures, crossed, torn>>

ChildExits(l) ==
    /\ loop[l].stage = "start"
    /\ Fail
    /\ Stall(l)
    /\ UNCHANGED <<loopVars, have, dir, owner, crossed, torn>>

\* work, with nothing left: the timer of the inform-delay is set.
Done(l) ==
    /\ loop[l].stage = "next" /\ loop[l].todo = <<>>
    /\ Step(l, "inform")
    /\ UNCHANGED <<loopVars, have, dir, owner, failures, crossed, torn>>

\* The timer: what the builder has by now is sent, if it is connected.
Inform(l) ==
    /\ loop[l].stage = "inform"
    /\ loop' = [loop EXCEPT ![l] = Free]
    /\ toSched' = IF conn = "up" THEN Append(toSched, have) ELSE toSched
    /\ stale' = (stale /\ conn # "up")
    /\ UNCHANGED <<schedVars, listed, conn, toBuilder, have, dir, owner, dying, removing,
                   failures, crossed, torn>>

Next ==
    \/ \E e \in Envs : \/ \E gone \in SUBSET Envs : Arrive(e, gone)
                      \/ Exit(e) \/ RemoveSome(e) \/ Removed(e) \/ RemovalFails(e)
    \/ Attempt \/ Connect \/ Informed \/ Disconnect \/ DropEnvironments \/ Restart
    \/ \E gone, half \in SUBSET Envs : Quit(gone, half)
    \/ \E l \in Loops :
       \/ Get(l) \/ Work(l) \/ Finish(l) \/ Unpack(l) \/ DownloadFails(l) \/ LeftBehind(l)
       \/ VMStarts(l) \/ ChildExits(l) \/ Done(l) \/ Inform(l)

\* Messages arrive, the builder reconnects (an interval of a second), and what a loop
\* waits for comes or fails.  A child that is told to exit need not.
Fairness ==
    /\ WF_vars(Attempt) /\ WF_vars(Connect) /\ WF_vars(Informed) /\ WF_vars(DropEnvironments)
    /\ \A l \in Loops :
       /\ WF_vars(Get(l)) /\ WF_vars(Work(l)) /\ WF_vars(Finish(l)) /\ WF_vars(Unpack(l))
       /\ WF_vars(VMStarts(l)) /\ WF_vars(Done(l)) /\ WF_vars(Inform(l))

Spec == Init /\ [][Next]_vars /\ Fairness

----------------------------------------------------------------------------
(* Properties *)

(* As long as the scheduler purges nothing, it lists, and sends jobs for, only
   environments that the builder has a VM for, over reconnects and restarts too. *)
ListedIsHad == TypeOK /\ (~purged => listed \subseteq have)

(* Every VM has its whole root, after crashes at any point of a download, failures of
   it and restarts too, except where a directory was made while another loop, a VM or
   a removal still used it, or where a removal failed or a restart cut it short: then
   environment.json may be there with part of a root, and is loaded. *)
RootsAreWhole == \A e \in have \ (crossed \cup torn) : dir[e] = "whole"

Stalled == \E l \in Loops : loop[l].stage = "stalled"
Agreed == conn = "up" /\ listed = has \cap Runnable /\ have = listed

(* When uploads and failures have ended, scheduler and builder come to agree, with all
   that the builder can run, unless a child exited before it was ready, a directory was
   crossed, or the headers of the last connection missed what a loop had just finished:
   the list that a loop writes while the builder still connects is lost. *)
Converges == <>[](Stalled \/ crossed # {} \/ stale \/ Agreed)
=============================================================================
