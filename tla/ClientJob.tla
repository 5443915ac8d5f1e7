----------------------------- MODULE ClientJob -----------------------------
(***************************************************************************)
(* One remote compile of fiskc (client/main.cpp from line 320 on), with    *)
(* its watchdog, the thread that preprocesses, its two websockets and what *)
(* a builder does at the other end of one.                                 *)
(*                                                                         *)
(* main() runs a loop of select() in each of its waits.  While it waits,   *)
(* and also while runLocal waits for a compile slot, the handlers of all   *)
(* sockets run: they print, write output files and stop the watchdog.  The *)
(* conditions of a loop are looked at after a round of handlers, so more   *)
(* than one message may have been handled before main() goes on.           *)
(***************************************************************************)
EXTENDS Integers, Sequences

CONSTANTS MaxAttempts,  \* --websocket-connect-attempts, and not 0 (unlimited)
          Indexes       \* the sizes of the output files of a compile, a sequence each

ASSUME ClientJobAssumption ==
    /\ MaxAttempts \in Nat \ {0}
    /\ \A index \in Indexes : index \in Seq(Nat)

VARIABLES
    objectCache,  \* Config::objectCache
    pc,           \* the wait main() is in, or how it ended
    wdog, stage,  \* Watchdog::mState, mStage
    thread,       \* Preprocessed: exitStatus and mDone
    daemonUp,     \* the daemon's socket is connected
    ws,           \* the state of the websockets to scheduler and builder
    peer,         \* their other ends: "up", "hung" (silent) or "gone"
    attempt,      \* connectWebSocketWithRetry
    reply,        \* what the scheduler answered
    input,        \* what the builder was given: the sha1 and the upload
    answer,       \* BuilderWebSocket: wait, done, error, files
    job,          \* the builder's side: what it received, its mode, index and files to send
    stream,       \* messages from the builder that fiskc has not handled
    out           \* history: times the answer and preprocessor output were printed,
                  \* and for each output file whose contents it was given (0: none)

local == <<objectCache, daemonUp>>
net == <<ws, peer, attempt, reply>>
remote == <<answer, job, stream, out>>
vars == <<local, pc, wdog, stage, thread, net, input, remote>>

Servers == {"scheduler", "builder"}
Waits == {"preprocess", "scheduler", "builder", "held", "uploading", "response"}
Ends == {"remote", "local", "refused", "aborted"}

\* Mutant of Stages: the object cache's order whatever the mode.
StagesOfCache == <<"ConnectedToDaemon", "PreprocessFinished", "ConnectedToScheduler",
                   "AcquiredBuilder", "ConnectedToBuilder", "UploadedJob", "Finished">>

\* Watchdog::stages.
Stages ==
    IF objectCache
    THEN <<"ConnectedToDaemon", "PreprocessFinished", "ConnectedToScheduler",
           "AcquiredBuilder", "ConnectedToBuilder", "UploadedJob", "Finished">>
    ELSE <<"ConnectedToDaemon", "ConnectedToScheduler", "AcquiredBuilder",
           "ConnectedToBuilder", "PreprocessFinished", "UploadedJob", "Finished">>

\* fiskc has a cpp slot and starts the preprocessor; with the object cache it needs
\* the preprocessed output before it talks to the scheduler.
Init ==
    /\ objectCache \in BOOLEAN
    /\ pc = IF objectCache THEN "preprocess" ELSE "scheduler"
    /\ wdog = "running"
    /\ stage = 1
    /\ thread = [exit |-> "none", done |-> FALSE]
    /\ daemonUp = TRUE
    /\ ws = [n \in Servers |-> IF n = pc THEN "connecting" ELSE "none"]
    /\ peer = [n \in Servers |-> "up"]
    /\ attempt = 1
    /\ reply = "none"
    /\ input = [sha1 |-> "none", upload |-> "none"]
    /\ answer = [wait |-> FALSE, done |-> FALSE, error |-> FALSE, files |-> {}]
    /\ job = [got |-> "nothing", mode |-> "none", index |-> <<>>, toSend |-> {}]
    /\ stream = <<>>
    /\ out = [answers |-> 0, cpp |-> 0, written |-> <<>>]

----------------------------------------------------------------------------
(* Watchdog.cpp *)

StopWatchdog == wdog' = IF wdog = "running" THEN "stopped" ELSE wdog

\* Watchdog::transition(s), after which main() is at next: its assertion aborts.
Transition(s, next) ==
    IF wdog = "running"
    THEN /\ stage' = stage + 1
         /\ pc' = IF Stages[stage + 1] = s THEN next ELSE "aborted"
    ELSE stage' = stage /\ pc' = next

\* A job that waits at a builder that is alive: it sends a heartbeat every five seconds,
\* and each restarts the watchdog's time.
Beating ==
    /\ ws["builder"] = "open" /\ peer["builder"] = "up"
    /\ job.got # "nothing" /\ job.mode \in {"none", "compiling"}

WatchdogFires ==
    /\ wdog = "running"
    /\ pc \in Waits
    /\ wdog' = "timedOut"
    /\ UNCHANGED <<local, pc, stage, thread, net, input, remote>>

----------------------------------------------------------------------------
(* Falling back *)

\* The lambda runLocal: the watchdog stops, and a compile slot is asked for.
RunLocal == pc' = "waitCompile" /\ StopWatchdog

\* Mutant of GiveUp: the loop of the upload does not look at the watchdog.
GiveUpExceptUploading ==
    /\ pc \in Waits \ {"uploading"}
    /\ wdog = "timedOut"
    /\ pc = "held" => ~answer.done
    /\ RunLocal
    /\ UNCHANGED <<local, stage, thread, net, input, remote>>

\* Each wait ends with the watchdog's time; one for a held upload looks at done first.
GiveUp ==
    /\ pc \in Waits
    /\ wdog = "timedOut"
    /\ pc = "held" => ~answer.done
    /\ RunLocal
    /\ UNCHANGED <<local, stage, thread, net, input, remote>>

\* waitForCompileSlot ends with a slot, without the daemon, or with any event after
\* its time; Client::runLocal compiles in each case.
CompileWaitOver ==
    /\ pc = "waitCompile"
    /\ pc' = "local"
    /\ UNCHANGED <<local, wdog, stage, thread, net, input, remote>>

\* The daemon dies.
DaemonDies ==
    /\ daemonUp
    /\ daemonUp' = FALSE
    /\ UNCHANGED <<objectCache, pc, wdog, stage, thread, net, input, remote>>

----------------------------------------------------------------------------
(* Preprocessed.cpp: the thread *)

\* The preprocessor exits; its output is then compressed and hashed.
PreprocessorExits(status) ==
    /\ thread.exit = "none"
    /\ thread' = [thread EXCEPT !.exit = status]
    /\ UNCHANGED <<local, pc, wdog, stage, net, input, remote>>

\* The output is final: mDone.
ThreadDone ==
    /\ thread.exit # "none"
    /\ ~thread.done
    /\ thread' = [thread EXCEPT !.done = TRUE]
    /\ UNCHANGED <<local, pc, wdog, stage, net, input, remote>>

\* What main() finds in the thread's buffers: while the thread is at them, anything.
Outputs == IF thread.done THEN {"whole"} ELSE {"whole", "partial", "empty"}

----------------------------------------------------------------------------
(* main.cpp: connecting *)

\* WebSocket::connect is started, or could not even be started.
Connect(n, try) ==
    /\ ws' = [ws EXCEPT ![n] = "connecting"]
    /\ peer' = [peer EXCEPT ![n] = "up"]
    /\ attempt' = try

CannotConnect(n) ==
    /\ pc = n
    /\ ws[n] = "connecting"
    /\ RunLocal
    /\ UNCHANGED <<local, stage, thread, net, input, remote>>

\* Mutant of Handshake: to be connected is taken for being done.
HandshakeStops(n) ==
    /\ pc = n
    /\ ws[n] = "connecting" /\ peer[n] = "up"
    /\ ws' = [ws EXCEPT ![n] = "open"]
    /\ wdog' = IF n = "builder" THEN "stopped" ELSE wdog
    /\ IF n = "scheduler"
       THEN Transition("ConnectedToScheduler", pc) /\ UNCHANGED answer
       ELSE /\ \E wait \in BOOLEAN : answer' = [answer EXCEPT !.wait = wait]
            /\ UNCHANGED <<pc, stage>>
    /\ UNCHANGED <<local, thread, peer, attempt, reply, input, job, stream, out>>

\* The handshake is answered.  SchedulerWebSocket::onConnected tells the watchdog, at
\* every attempt; a builder's headers say whether to hold the upload.
Handshake(n) ==
    /\ pc = n
    /\ ws[n] = "connecting" /\ peer[n] = "up"
    /\ ws' = [ws EXCEPT ![n] = "open"]
    /\ IF n = "scheduler"
       THEN Transition("ConnectedToScheduler", pc) /\ UNCHANGED answer
       ELSE /\ \E wait \in BOOLEAN : answer' = [answer EXCEPT !.wait = wait]
            /\ UNCHANGED <<pc, stage>>
    /\ UNCHANGED <<local, wdog, thread, peer, attempt, reply, input, job, stream, out>>

\* The other end goes away, or falls silent.
PeerFails(n, how) ==
    /\ peer[n] = "up"
    /\ ws[n] \in {"connecting", "open"}
    /\ peer' = [peer EXCEPT ![n] = how]
    /\ UNCHANGED <<local, pc, wdog, stage, thread, ws, attempt, reply, input, remote>>

\* WebSocket::onRead meets the end: what it read in the same round is not handled.
Broken(n) ==
    /\ ws[n] \in {"connecting", "open"} /\ peer[n] = "gone"
    /\ ws' = [ws EXCEPT ![n] = "failed"]
    /\ stream' = IF n = "builder" THEN <<>> ELSE stream
    /\ UNCHANGED <<local, pc, wdog, stage, thread, peer, attempt, reply, input, answer, job, out>>

ConnectFinished(n) == IF n = "scheduler" THEN reply # "none" ELSE ws["builder"] = "open"

\* Mutant of Retry: one attempt too many.
RetryOffByOne(n) ==
    /\ pc = n
    /\ ws[n] = "failed" /\ ~ConnectFinished(n) /\ wdog # "timedOut"
    /\ IF attempt > MaxAttempts
       THEN RunLocal /\ UNCHANGED ws
       ELSE ws' = [ws EXCEPT ![n] = "none"] /\ UNCHANGED <<pc, wdog>>
    /\ UNCHANGED <<local, stage, thread, peer, attempt, reply, input, remote>>

\* An attempt failed: back off, if there are attempts left.
Retry(n) ==
    /\ pc = n
    /\ ws[n] = "failed" /\ ~ConnectFinished(n) /\ wdog # "timedOut"
    /\ IF attempt >= MaxAttempts
       THEN RunLocal /\ UNCHANGED ws
       ELSE ws' = [ws EXCEPT ![n] = "none"] /\ UNCHANGED <<pc, wdog>>
    /\ UNCHANGED <<local, stage, thread, peer, attempt, reply, input, remote>>

BackoffOver(n) ==
    /\ pc = n
    /\ ws[n] = "none" /\ wdog # "timedOut"
    /\ Connect(n, attempt + 1)
    /\ UNCHANGED <<local, pc, wdog, stage, thread, reply, input, remote>>

----------------------------------------------------------------------------
(* main.cpp: the scheduler *)

\* SchedulerWebSocket::onMessage.
SchedulerAnswers(what) ==
    /\ pc = "scheduler"
    /\ ws["scheduler"] = "open" /\ peer["scheduler"] = "up" /\ reply = "none"
    /\ reply' = what
    /\ pc' = IF what = "versionMismatch" THEN "refused" ELSE pc
    /\ IF what = "garbage"
       THEN StopWatchdog /\ ws' = [ws EXCEPT !["scheduler"] = "failed"]
       ELSE UNCHANGED <<wdog, ws>>
    /\ UNCHANGED <<local, stage, thread, peer, attempt, input, remote>>

\* A builder was assigned; the sha1 is only sent on if the scheduler has an object cache.
BuilderAssigned ==
    /\ pc = "scheduler" /\ reply = "builder" /\ wdog # "timedOut"
    /\ Transition("AcquiredBuilder", "builder")
    /\ Connect("builder", 1)
    /\ \E cached \in BOOLEAN : input' = IF cached THEN input ELSE [input EXCEPT !.sha1 = "none"]
    /\ UNCHANGED <<local, wdog, thread, reply, remote>>

NoBuilder ==
    /\ pc = "scheduler" /\ reply \in {"noBuilder", "garbage"} /\ wdog # "timedOut"
    /\ RunLocal
    /\ UNCHANGED <<local, stage, thread, net, input, remote>>

\* The environment has to be uploaded first: without a watchdog.
NeedsEnvironment ==
    /\ pc = "scheduler" /\ reply = "needsEnvironment" /\ wdog # "timedOut"
    /\ pc' = "envUpload"
    /\ StopWatchdog
    /\ UNCHANGED <<local, stage, thread, net, input, remote>>

\* Client::uploadEnvironment: all is sent, or the scheduler is gone.
EnvironmentUploaded ==
    /\ pc = "envUpload"
    /\ peer["scheduler"] # "hung"
    /\ RunLocal
    /\ UNCHANGED <<local, stage, thread, net, input, remote>>

----------------------------------------------------------------------------
(* main.cpp: preprocessed output, request and upload *)

\* The binary message is queued; WebSocket::send asserts that there is something to send.
Upload(before) ==
    \E data \in Outputs :
       /\ pc' = IF data = "empty" THEN "aborted" ELSE "uploading"
       /\ input' = [before EXCEPT !.upload = data]

\* The JSON message, and the upload unless the builder wants it held.
Request(before) ==
    /\ job' = [job EXCEPT !.got = "request"]
    /\ IF answer.wait THEN pc' = "held" /\ input' = before ELSE Upload(before)

\* The wait for the preprocessor is over, also if the daemon died.
PreprocessedWaitOver ==
    /\ pc = "preprocess"
    /\ thread.done \/ ~daemonUp
    /\ wdog # "timedOut"
    /\ stage' = IF wdog = "running" THEN stage + 1 ELSE stage
    /\ \/ /\ wdog = "running" /\ Stages[stage + 1] # "PreprocessFinished"
          /\ pc' = "aborted"
          /\ UNCHANGED <<wdog, net, input, job>>
       \/ /\ thread.exit # "ok" \/ ~thread.done
          /\ RunLocal
          /\ UNCHANGED <<net, input, job>>
       \/ /\ thread.exit = "ok" /\ objectCache
          /\ \E data \in Outputs \ {"empty"} : input' = [input EXCEPT !.sha1 = data]
          /\ pc' = "scheduler"
          /\ Connect("scheduler", 1)
          /\ UNCHANGED <<wdog, reply, job>>
       \/ /\ thread.exit = "ok" /\ ~objectCache
          /\ Request(input)
          /\ UNCHANGED <<wdog, net>>
    /\ UNCHANGED <<local, thread, answer, stream, out>>

\* The builder's websocket is connected.
BuilderConnected ==
    /\ pc = "builder" /\ ws["builder"] = "open" /\ wdog # "timedOut"
    /\ IF objectCache
       THEN Request(input) /\ stage' = stage + 1
       ELSE Transition("ConnectedToBuilder", "preprocess") /\ UNCHANGED <<input, job>>
    /\ UNCHANGED <<local, wdog, thread, net, answer, stream, out>>

\* The upload was held, and the builder resumes it, answers, or is lost.
HeldOver ==
    /\ pc = "held"
    /\ wdog = "timedOut" => answer.done
    /\ \/ /\ answer.done /\ ~answer.error
          /\ pc' = "remote"
          /\ StopWatchdog
          /\ stage' = IF wdog = "running" THEN stage + 2 ELSE stage
          /\ out' = [out EXCEPT !.cpp = @ + 1]
          /\ UNCHANGED input
       \/ /\ IF answer.done THEN answer.error ELSE ws["builder"] = "failed"
          /\ RunLocal
          /\ UNCHANGED <<stage, input, out>>
       \/ /\ ~answer.done /\ ~answer.wait /\ ws["builder"] = "open"
          /\ Upload(input)
          /\ UNCHANGED <<wdog, stage, out>>
    /\ UNCHANGED <<local, thread, net, answer, job, stream>>

\* The last of the upload leaves mSendBuffer.
UploadSent ==
    /\ pc = "uploading" /\ ws["builder"] = "open" /\ job.got = "request"
    /\ job' = [job EXCEPT !.got = "sent"]
    /\ UNCHANGED <<local, pc, wdog, stage, thread, net, input, answer, stream, out>>

UploadOver ==
    /\ pc = "uploading" /\ wdog # "timedOut"
    /\ \/ ws["builder"] = "failed" /\ RunLocal /\ UNCHANGED stage
       \/ /\ ws["builder"] = "open" /\ job.got \in {"sent", "whole"}
          /\ Transition("UploadedJob", "response")
          /\ UNCHANGED wdog
    /\ UNCHANGED <<local, thread, net, input, remote>>

\* The answer is complete, or the builder is lost.
ResponseOver ==
    /\ pc = "response" /\ wdog # "timedOut"
    /\ \/ /\ answer.done /\ ~answer.error
          /\ pc' = "remote"
          /\ StopWatchdog
          /\ stage' = IF wdog = "running" THEN stage + 1 ELSE stage
       \/ /\ IF answer.done THEN answer.error ELSE ws["builder"] = "failed"
          /\ RunLocal
          /\ UNCHANGED stage
    /\ UNCHANGED <<local, thread, net, input, remote>>

----------------------------------------------------------------------------
(* The builder's side of the websocket *)

BuilderServes == peer["builder"] = "up" /\ ws["builder"] = "open"
OnlyBuilder == UNCHANGED <<local, pc, wdog, stage, thread, net, input, answer, out>>

Say(msg) == stream' = Append(stream, msg)

\* The whole upload arrives.
UploadReceived ==
    /\ BuilderServes /\ job.got = "sent"
    /\ job' = [job EXCEPT !.got = "whole"]
    /\ UNCHANGED stream
    /\ OnlyBuilder

\* An upload of another length than announced, or that cannot be inflated.
UploadRejected ==
    /\ BuilderServes /\ job.got = "sent"
    /\ input.upload = "partial" /\ job.mode \in {"none", "compiling"}
    /\ job' = [job EXCEPT !.got = "whole", !.mode = "failed"]
    /\ Say([type |-> "failed"])
    /\ OnlyBuilder

\* The compile is started, and a client that holds its upload resumed.
JobStarted ==
    /\ BuilderServes /\ job.got # "nothing" /\ job.mode = "none"
    /\ job' = [job EXCEPT !.mode = "compiling"]
    /\ IF answer.wait THEN Say([type |-> "resume"]) ELSE UNCHANGED stream
    /\ OnlyBuilder

NonEmpty(index) == {i \in DOMAIN index : index[i] # 0}

\* Files are sent and awaited in the order of their positions in the index.
Least(i, files) == i \in files /\ \A k \in files : i <= k

\* The response, after which the contents of the files toSend follow one by one.
Respond(mode, index, toSend) ==
    /\ job' = [job EXCEPT !.mode = mode, !.index = index, !.toSend = toSend]
    /\ Say([type |-> "response"])
    /\ OnlyBuilder

\* getFromCache: every file is sent, also an empty one.
AnswerFromCache(index) ==
    /\ BuilderServes /\ job.got # "nothing" /\ job.mode = "none" /\ input.sha1 # "none"
    /\ Respond("cached", index, DOMAIN index)

\* The compile is finished: files that are not empty are sent.
AnswerOfCompile(index) ==
    /\ BuilderServes /\ job.got = "whole" /\ job.mode = "compiling"
    /\ Respond("compiled", index, NonEmpty(index))

\* The VM could not compile, or the compiler's error is a suspicious one.
CompileFailed ==
    /\ BuilderServes /\ job.mode = "compiling"
    /\ job' = [job EXCEPT !.mode = "failed"]
    /\ Say([type |-> "failed"])
    /\ OnlyBuilder

FileSent ==
    /\ BuilderServes
    /\ \E i \in job.toSend :
          /\ Least(i, job.toSend)
          /\ job' = [job EXCEPT !.toSend = @ \ {i}]
          /\ Say([type |-> "file", is |-> i])
    /\ OnlyBuilder

----------------------------------------------------------------------------
(* BuilderWebSocket.cpp *)

HandleMessage(type) ==
    /\ pc \in {"held", "uploading", "response", "waitCompile"}
    /\ ws["builder"] = "open"
    /\ stream # <<>> /\ Head(stream).type = type
    /\ stream' = Tail(stream)
    /\ UNCHANGED <<local, pc, stage, thread, net, input, job>>

OnResume ==
    /\ HandleMessage("resume")
    /\ answer' = [answer EXCEPT !.wait = FALSE]
    /\ UNCHANGED <<wdog, out>>

OnFailed ==
    /\ HandleMessage("failed")
    /\ StopWatchdog
    /\ answer' = [answer EXCEPT !.error = TRUE, !.done = TRUE]
    /\ UNCHANGED out

\* A response is printed, and its empty files are made, if they can be opened; done is
\* then overwritten, whatever went wrong.
OnResponse ==
    /\ HandleMessage("response")
    /\ LET files == NonEmpty(job.index)
       IN \E opened \in SUBSET (DOMAIN job.index \ files) :
             LET failed == opened # DOMAIN job.index \ files
             IN /\ IF failed THEN StopWatchdog ELSE UNCHANGED wdog
                /\ answer' = [answer EXCEPT !.files = files, !.done = files = {}, !.error = @ \/ failed]
                /\ out' = [answers |-> out.answers + 1, cpp |-> out.cpp + 1,
                           written |-> [i \in DOMAIN job.index |-> IF i \in opened THEN i ELSE 0]]

\* Mutant of FileRejected: the size is not compared.
FileRejectedUnlessNone(size) == answer.files = {}

\* Contents that no file waits for, or that have another size than the next one.
FileRejected(size) == ~\E next \in answer.files : Least(next, answer.files) /\ job.index[next] = size

\* handleFileContents.  A file that cannot be written stays the next one, and done is
\* overwritten by the contents that come after it.
OnFile ==
    /\ HandleMessage("file")
    /\ LET i == Head(stream).is
           failed == StopWatchdog /\ answer' = [answer EXCEPT !.error = TRUE, !.done = TRUE]
                                  /\ UNCHANGED out
       IN \/ failed
          \/ /\ ~FileRejected(job.index[i])
             /\ \E next \in answer.files :
                   /\ Least(next, answer.files)
                   /\ answer' = [answer EXCEPT !.files = @ \ {next}, !.done = answer.files = {next}]
                   /\ out' = [out EXCEPT !.written[next] = i]
             /\ UNCHANGED wdog

----------------------------------------------------------------------------

Messages == [type : {"resume", "failed", "response"}] \cup [type : {"file"}, is : Nat]
Replies == {"builder", "noBuilder", "needsEnvironment", "garbage", "versionMismatch"}

\* What main() does by itself, and the handlers of the builder's messages.
Main ==
    \/ GiveUp \/ NoBuilder \/ NeedsEnvironment \/ EnvironmentUploaded \/ BuilderAssigned
    \/ PreprocessedWaitOver \/ BuilderConnected \/ HeldOver \/ UploadOver \/ ResponseOver
    \/ CompileWaitOver
    \/ \E n \in Servers : Retry(n) \/ BackoffOver(n)
Handlers == OnResume \/ OnFailed \/ OnResponse \/ OnFile

Builder ==
    \/ UploadReceived \/ UploadRejected \/ JobStarted \/ CompileFailed \/ FileSent
    \/ \E index \in Indexes : AnswerFromCache(index) \/ AnswerOfCompile(index)

Next ==
    \/ Main \/ Handlers \/ Builder
    \/ WatchdogFires \/ DaemonDies \/ UploadSent \/ ThreadDone
    \/ \E status \in {"ok", "failed"} : PreprocessorExits(status)
    \/ \E n \in Servers :
          \/ CannotConnect(n) \/ Handshake(n) \/ Broken(n)
          \/ \E how \in {"hung", "gone"} : PeerFails(n, how)
    \/ \E what \in Replies : SchedulerAnswers(what)

(***************************************************************************)
(* main() goes on and its handlers run; the watchdog's time runs out where *)
(* no heartbeat comes.  Nobody else has to do anything: the preprocessor,  *)
(* the scheduler and the builder may be as slow as they like.              *)
(***************************************************************************)
Fairness == WF_vars(Main) /\ WF_vars(Handlers) /\ WF_vars(~Beating /\ WatchdogFires)

Spec == Init /\ [][Next]_vars /\ Fairness

----------------------------------------------------------------------------
(* Properties *)

TypeOK ==
    /\ objectCache \in BOOLEAN /\ daemonUp \in BOOLEAN
    /\ pc \in Waits \cup Ends \cup {"envUpload", "waitCompile"}
    /\ wdog \in {"running", "stopped", "timedOut"}
    /\ stage \in 1..7
    /\ thread \in [exit : {"none", "ok", "failed"}, done : BOOLEAN]
    /\ ws \in [Servers -> {"none", "connecting", "open", "failed"}]
    /\ peer \in [Servers -> {"up", "hung", "gone"}]
    /\ attempt \in 1..MaxAttempts
    /\ reply \in Replies \cup {"none"}
    /\ input \in [sha1 : {"none", "whole", "partial"}, upload : {"none", "whole", "partial", "empty"}]
    /\ answer \in [wait : BOOLEAN, done : BOOLEAN, error : BOOLEAN, files : SUBSET Nat]
    /\ job \in [got : {"nothing", "request", "sent", "whole"},
                mode : {"none", "compiling", "failed", "cached", "compiled"},
                index : Seq(Nat), toSend : SUBSET Nat]
    /\ stream \in Seq(Messages)
    /\ out \in [answers : 0..1, cpp : 0..2, written : Seq(Nat)]

\* The output was used while the thread that makes it was not done.
Raced == ~daemonUp /\ "partial" \in {input.sha1, input.upload}

(* main.cpp's assertions, the watchdog's order of stages (Watchdog.cpp:24) and the one
   of WebSocket::send that there is data, fail only if a scheduler is connected to a
   second time after it had answered the handshake, or if the daemon died while the
   preprocessed output was not final. *)
AssertionsHold ==
    /\ TypeOK
    /\ pc = "aborted" => \/ attempt > 1 /\ reply = "none"
                         \/ ~daemonUp /\ input.upload = "empty"

(* While fiskc waits for the preprocessor, the scheduler or the builder, something will
   end the wait: the watchdog runs or has fired, or the wait is for an answer in which
   an error was found, which stops the watchdog before main() has looked at it. *)
Watched == pc \in Waits => wdog # "stopped" \/ answer.error \/ reply = "garbage"

(* An exit with the builder's result: it was printed once, no error was met, every
   output file has its own contents and not another's, and the builder worked on the
   whole preprocessed output, unless it was taken from the thread when the daemon died.
   The preprocessor's own output is printed once more than it should if the answer
   came while the upload was held (main.cpp:533). *)
ResultIsRight ==
    pc = "remote" =>
       /\ out.answers = 1 /\ ~answer.error
       /\ out.written = [i \in DOMAIN job.index |-> i]
       /\ out.cpp = 1 \/ input.upload = "none"
       /\ Raced \/ "whole" = IF job.mode = "cached" THEN input.sha1 ELSE input.upload

(* fiskc ends, whatever the others do and without help of the preprocessor, the
   scheduler or the builder, except that it waits for ever for a builder that is alive
   and only sends heartbeats, for a silent scheduler that needs its environment, and
   for an answer in which it already found an error (BuilderWebSocket.cpp:166, 231). *)
FiskcEnds ==
    \/ <>(pc \in Ends)
    \/ <>[]Beating
    \/ <>[](pc = "envUpload" /\ peer["scheduler"] = "hung")
    \/ <>[](pc \in Waits /\ wdog = "stopped" /\ answer.error)
=============================================================================
