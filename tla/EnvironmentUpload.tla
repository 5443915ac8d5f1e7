------------------------- MODULE EnvironmentUpload -------------------------
(***************************************************************************)
(* How the scheduler gets an environment it does not have from a client    *)
(* (scheduler/fisk-scheduler.ts, requestEnvironment; File.ts,              *)
(* Environments.ts).  Environments share nothing, so the module is about   *)
(* one.  The upload is written, closed and read back in promises of later  *)
(* turns, while the client's connection fails or closes at any time; all   *)
(* uploads of an environment use one path on disk, which opening truncates *)
(* and discarding unlinks.                                                 *)
(***************************************************************************)
EXTENDS FiniteSets, Sequences

CONSTANTS Clients, NoFile

ASSUME ClientsAssumption == IsFiniteSet(Clients) /\ NoFile \notin Clients

VARIABLES
    clientConn, \* the scheduler's end: "none", "open", "closing", "closed"
    asked,      \* the clients whose "error" and "close" requestEnvironment handles
    upload,     \* what the upload of each client is at
    waiting,    \* pendingEnvironments has the environment
    known,      \* Environments has it
    disk,       \* the file at its path, named by the client that created it, or NoFile
    descriptor, \* the file that each client's descriptor writes
    cut,        \* the clients whose file a later upload truncated
    whole,      \* the files that hold all of the latest upload into them
    raced       \* history: an upload began while that of another client was under way

uploadVars == <<clientConn, asked, upload, waiting, known, disk, descriptor, cut, whole, raced>>
fileVars == <<disk, descriptor, cut, whole>>

\* Stages in which a descriptor writes, and those of an upload that may succeed.
BeingWritten == {"receiving", "saving"}      \* without gotLast, and with it
Uploading == BeingWritten \cup {"completing", "read"}
Reading == {"completing", "read", "unreadable"} \* untarFile runs, or has an outcome
StuckIn(s) == IF s = "receiving" THEN "stuck receiving" ELSE "stuck saving" \* discard threw
Stuck == {StuckIn(s) : s \in BeingWritten}
UploadStages == Uploading \cup Reading \cup Stuck \cup {"idle", "asked", "broken", "over"}

UploadTypeOK ==
    /\ clientConn \in [Clients -> {"none", "open", "closing", "closed"}]
    /\ asked \in SUBSET Clients
    /\ upload \in [Clients -> UploadStages]
    /\ {waiting, known, raced} \subseteq BOOLEAN
    /\ disk \in Clients \cup {NoFile}
    /\ descriptor \in [Clients -> Clients \cup {NoFile}]
    /\ cut \in SUBSET Clients
    /\ whole \in SUBSET Clients

UploadInit ==
    /\ clientConn = [k \in Clients |-> "none"]
    /\ asked = {}
    /\ upload = [k \in Clients |-> "idle"]
    /\ waiting = FALSE
    /\ known = FALSE
    /\ disk = NoFile
    /\ descriptor = [k \in Clients |-> NoFile]
    /\ cut = {}
    /\ whole = {}
    /\ raced = FALSE

Connected(k) == clientConn[k] \in {"open", "closing"}
Move(k, s) == upload' = [upload EXCEPT ![k] = s]
HangUp(k) == clientConn' = [clientConn EXCEPT ![k] = IF @ = "open" THEN "closing" ELSE @]

----------------------------------------------------------------------------
(* The client's connection *)

\* server.on("compile"): who finds the environment missing and nobody asked for it
\* is asked; who finds somebody asked is refused.
Compile(k) ==
    /\ clientConn[k] = "none"
    /\ clientConn' = [clientConn EXCEPT ![k] = "open"]
    /\ IF known \/ waiting
       THEN UNCHANGED <<asked, upload, waiting>>
       ELSE asked' = asked \cup {k} /\ Move(k, "asked") /\ waiting' = TRUE
    /\ UNCHANGED <<known, fileVars, raced>>

\* "uploadEnvironment": Environments.prepare opens the file, unless the
\* environment has arrived meanwhile.
Prepare(k) ==
    /\ Connected(k)
    /\ upload[k] = "asked"
    /\ IF known
       THEN Move(k, "over") /\ HangUp(k) /\ UNCHANGED <<fileVars, raced>>
       ELSE LET f == IF disk = NoFile THEN k ELSE disk
            IN /\ Move(k, "receiving")
               /\ disk' = f
               /\ descriptor' = [descriptor EXCEPT ![k] = f]
               /\ cut' = cut \cup {j \in Clients : descriptor[j] = f}
               /\ whole' = whole \ {f}
               /\ raced' = (raced \/ \E j \in Clients : upload[j] \in Uploading)
               /\ UNCHANGED clientConn
    /\ UNCHANGED <<asked, waiting, known>>

\* "uploadEnvironmentData" with last; the data before it only adds to the file.
ReceiveLast(k) ==
    /\ Connected(k)
    /\ upload[k] = "receiving"
    /\ Move(k, "saving")
    /\ UNCHANGED <<clientConn, asked, waiting, known, fileVars, raced>>

\* "uploadEnvironmentData" after a write failed: no pending file.
ReceiveForNothing(k) ==
    /\ Connected(k)
    /\ upload[k] = "broken"
    /\ Move(k, "over")
    /\ HangUp(k)
    /\ UNCHANGED <<asked, waiting, known, fileVars, raced>>

\* file.discard and what follows it: the path is unlinked, whoever's file is
\* there; if there is none it throws, and nothing follows.
Discard(k) ==
    IF disk # NoFile
    THEN Move(k, "over") /\ disk' = NoFile /\ waiting' = FALSE
    ELSE Move(k, StuckIn(upload[k])) /\ UNCHANGED <<disk, waiting>>

\* compile.on("error"), and the server hangs up.  Without a descriptor, or once it
\* threw, discard throws.
Error(k) ==
    /\ k \in asked
    /\ Connected(k)
    /\ HangUp(k)
    /\ \/ upload[k] \in BeingWritten /\ Discard(k)
       \/ upload[k] \in Reading \cup Stuck /\ UNCHANGED <<upload, waiting, disk>>
       \/ upload[k] \notin BeingWritten \cup Reading \cup Stuck /\ waiting' = FALSE /\ UNCHANGED <<upload, disk>>
    /\ UNCHANGED <<asked, known, descriptor, cut, whole, raced>>

\* Mutant of Close: the mark of an abandoned upload stays.
CloseWaiting(k) ==
    /\ Connected(k)
    /\ clientConn' = [clientConn EXCEPT ![k] = "closed"]
    /\ IF upload[k] \in {"asked", "receiving", "broken"} THEN Move(k, "over") ELSE UNCHANGED upload
    /\ UNCHANGED <<asked, known, waiting, fileVars, raced>>

\* compile.once("close").  If data is missing, the server emits an "error" before,
\* and no "close" if that throws.
Close(k) ==
    /\ Connected(k)
    /\ clientConn' = [clientConn EXCEPT ![k] = "closed"]
    /\ IF k \notin asked \/ upload[k] = "stuck receiving"
       THEN UNCHANGED <<upload, waiting, disk>>
       ELSE IF upload[k] = "receiving"
       THEN Discard(k)
       ELSE /\ IF upload[k] \in {"asked", "broken"} THEN Move(k, "over") ELSE UNCHANGED upload
            /\ waiting' = FALSE
            /\ UNCHANGED disk
    /\ UNCHANGED <<asked, known, descriptor, cut, whole, raced>>

----------------------------------------------------------------------------
(* The file, in later turns *)

\* A write fails: file.save rejects and file is undefined.
SaveFails(k) ==
    /\ upload[k] \in BeingWritten
    /\ Move(k, IF upload[k] = "receiving" THEN "broken" ELSE "over")
    /\ UNCHANGED <<clientConn, asked, waiting, known, fileVars, raced>>

\* The last write is done: file.close, compile.close, and untarFile starts.
AllSaved(k) ==
    /\ upload[k] = "saving"
    /\ Move(k, "completing")
    /\ HangUp(k)
    /\ whole' = IF k \in cut THEN whole ELSE whole \cup {descriptor[k]}
    /\ UNCHANGED <<asked, waiting, known, disk, descriptor, cut, raced>>

\* Mutant of Untar: what untarFile finds is not looked at.
UntarUnchecked(k) ==
    /\ upload[k] \in {"saving", "completing"}
    /\ Move(k, "read")
    /\ UNCHANGED <<clientConn, asked, waiting, known, fileVars, raced>>

\* untarFile reads the file at the path.
Untar(k) ==
    /\ upload[k] = "completing"
    /\ Move(k, IF disk \in whole THEN "read" ELSE "unreadable")
    /\ UNCHANGED <<clientConn, asked, waiting, known, fileVars, raced>>

\* Environments.complete resolves: the environment is known, and sent to builders.
Completed(k) ==
    /\ upload[k] = "read"
    /\ Move(k, "over")
    /\ known' = TRUE
    /\ waiting' = FALSE
    /\ UNCHANGED <<clientConn, asked, fileVars, raced>>

\* It rejects.
Failed(k) ==
    /\ upload[k] = "unreadable"
    /\ Move(k, "over")
    /\ UNCHANGED <<clientConn, asked, waiting, known, fileVars, raced>>

UploadNext ==
    \E k \in Clients :
       \/ Compile(k) \/ Prepare(k) \/ ReceiveLast(k) \/ ReceiveForNothing(k)
       \/ Error(k) \/ Close(k) \/ SaveFails(k) \/ AllSaved(k) \/ Untar(k) \/ Completed(k) \/ Failed(k)

\* A client's process ends some day, and so does what the scheduler has begun.
UploadFairness ==
    \A k \in Clients :
       WF_uploadVars(Close(k)) /\ WF_uploadVars(AllSaved(k)) /\ WF_uploadVars(Untar(k)) /\ WF_uploadVars(Completed(k))

UploadSpec == UploadInit /\ [][UploadNext]_uploadVars /\ UploadFairness

----------------------------------------------------------------------------
(* Properties *)

(* As long as no two uploads overlapped: what the scheduler lists, and sends its
   builders to fetch, is a whole upload on disk. *)
WholeUnlessRaced == UploadTypeOK /\ (~raced => (known => disk \in whole))

(* As long as no two uploads overlapped, the refusals end: whatever becomes of the
   client that was asked, another is asked or the environment arrives. *)
WaitingEnds == waiting ~> (~waiting \/ raced)
=============================================================================
