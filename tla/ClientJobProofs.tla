--------------------------- MODULE ClientJobProofs ---------------------------
(***************************************************************************)
(* Proofs about one remote compile of fiskc, for any number of connection  *)
(* attempts, any number of output files and any sizes of them: no          *)
(* assertion fails, no wait is unwatched and no wrong result is used, but  *)
(* for the cases that the three properties name.                           *)
(*                                                                         *)
(* The inductive invariant has two halves.  MainInv is about main(): which *)
(* stage the watchdog has in each wait, why it may be stopped there, and   *)
(* what the builder was given of the preprocessed output.  AnswerInv is    *)
(* about the answer: the response comes once and before its files, the     *)
(* files come in the order of the index, and those that fiskc awaits are   *)
(* those with contents that the builder has yet to send or are under way.  *)
(* That order is what makes the file fiskc writes next, the least it       *)
(* awaits, the one whose contents arrive.                                  *)
(***************************************************************************)
EXTENDS ClientJob, SequenceTheorems, TLAPS
----------------------------------------------------------------------------
(* The inductive invariant: main() *)

Base == IF objectCache THEN 2 ELSE 1             \* the stage before the scheduler is connected
Early == {"preprocess", "scheduler", "builder"}  \* nothing was requested yet
Late == {"held", "uploading", "response"}        \* the builder's messages are handled

\* The watchdog's stage is that of the wait, as long as its time runs; a scheduler is
\* connected to a second time only at another attempt.
StageOfWait ==
    /\ pc = "preprocess" /\ objectCache => stage = 1 /\ reply = "none"
    /\ pc = "preprocess" /\ ~objectCache => stage = 4
    /\ pc = "scheduler" =>
          /\ stage \in {Base, Base + 1}
          /\ stage = Base \/ attempt > 1 \/ ws["scheduler"] # "connecting"
          /\ wdog = "running" /\ (ws["scheduler"] = "open" \/ reply # "none") => stage = Base + 1
          /\ ws["scheduler"] \in {"none", "connecting"} => reply = "none"
    /\ pc = "builder" => stage = Base + 2
    /\ pc \in {"held", "uploading"} => stage = 5
    /\ pc = "response" => stage \in {5, 6} /\ (wdog = "running" => stage = 6)

\* Only an error that was met stops the watchdog in a wait.
WatchdogOfWait ==
    pc \in Waits /\ wdog = "stopped" =>
       \/ pc \in Late /\ answer.error
       \/ pc = "scheduler" /\ reply = "garbage"

AttemptsLeft == \A n \in Servers : pc = n /\ ws[n] = "none" => attempt < MaxAttempts

Aborted == pc = "aborted" => \/ attempt > 1 /\ reply = "none"
                             \/ ~daemonUp /\ input.upload = "empty"

\* What the builder is given is the whole output, unless the daemon died.
InputRight ==
    /\ pc \in Late \/ (objectCache /\ pc \in {"scheduler", "builder"}) => thread.done \/ ~daemonUp
    /\ "partial" \in {input.sha1, input.upload} => ~daemonUp
    /\ input.upload = "empty" => pc = "aborted"
    /\ pc \in Early \cup {"held"} => input.upload = "none"
    /\ pc = "uploading" => input.upload # "none"
    /\ pc = "held" => job.got = "request"
    /\ job.got \in {"sent", "whole"} => input.upload # "none"
    /\ job.got = "nothing" => job.mode = "none"
    /\ job.mode = "cached" => input.sha1 # "none"
    /\ job.mode = "compiled" => job.got = "whole"

MainInv == TypeOK /\ StageOfWait /\ WatchdogOfWait /\ AttemptsLeft /\ Aborted /\ InputRight

----------------------------------------------------------------------------
(* The inductive invariant: the builder's answer *)

Answered == {"cached", "compiled"}
Is(k, type) == stream[k].type = type

NothingAsked ==
    pc \in Early => /\ job.got = "nothing" /\ job.mode = "none" /\ stream = <<>>
                    /\ ~answer.done /\ ~answer.error

\* Response first and once, then files in the order of the index.
StreamOrder ==
    /\ job.mode \notin Answered =>
          /\ out.answers = 0 /\ job.toSend = {}
          /\ \A k \in DOMAIN stream : Is(k, "resume") \/ Is(k, "failed")
    /\ job.toSend \subseteq DOMAIN job.index
    /\ \A k \in DOMAIN stream :
          /\ Is(k, "response") => out.answers = 0
          /\ Is(k, "file") =>
                /\ stream[k].is \in DOMAIN job.index
                /\ \A i \in job.toSend : stream[k].is < i
                /\ out.answers = 1 \/ \E l \in DOMAIN stream : l < k /\ Is(l, "response")
    /\ \A k, l \in DOMAIN stream :
          /\ Is(k, "response") /\ Is(l, "response") => k = l
          /\ k < l /\ Is(k, "file") /\ Is(l, "file") => stream[k].is < stream[l].is

\* The files that have contents and will still come.
Sent(i) == i \in job.toSend \/ \E k \in DOMAIN stream : Is(k, "file") /\ stream[k].is = i
Coming == {i \in NonEmpty(job.index) : Sent(i)}

\* Those are what is waited for.
FilesAwaited ==
    job.mode \in Answered /\ ws["builder"] = "open" =>
       IF out.answers = 0
       THEN Coming = NonEmpty(job.index) /\ \E k \in DOMAIN stream : Is(k, "response")
       ELSE answer.error \/ answer.files = Coming

\* What is not waited for any more has its own contents.
FilesWritten ==
    /\ out.answers = 1 =>
          /\ DOMAIN out.written = DOMAIN job.index
          /\ answer.files \subseteq DOMAIN job.index
          /\ answer.error \/ \A i \in DOMAIN job.index \ answer.files : out.written[i] = i
    /\ answer.done => answer.error \/ (out.answers = 1 /\ answer.files = {})
    /\ pc # "remote" => out.cpp = out.answers

AnswerInv == NothingAsked /\ StreamOrder /\ FilesAwaited /\ FilesWritten /\ ResultIsRight

JobInv == MainInv /\ AnswerInv

----------------------------------------------------------------------------
(* Types *)

LEMMA StagesAre ==
    ASSUME objectCache \in BOOLEAN
    PROVE  /\ Stages[Base + 1] = "ConnectedToScheduler"
           /\ Stages[Base + 2] = "AcquiredBuilder"
           /\ ~objectCache => Stages[4] = "ConnectedToBuilder"
           /\ Stages[IF objectCache THEN 2 ELSE 5] = "PreprocessFinished"
           /\ Stages[6] = "UploadedJob"
<1>1. CASE objectCache
  BY <1>1 DEF Stages, Base
<1>2. CASE ~objectCache
  BY <1>2 DEF Stages, Base
<1> QED BY <1>1, <1>2

Threads == [exit : {"none", "ok", "failed"}, done : BOOLEAN]
Inputs == [sha1 : {"none", "whole", "partial"}, upload : {"none", "whole", "partial", "empty"}]
Answers == [wait : BOOLEAN, done : BOOLEAN, error : BOOLEAN, files : SUBSET Nat]
JobStates == [got : {"nothing", "request", "sent", "whole"},
              mode : {"none", "compiling", "failed", "cached", "compiled"},
              index : Seq(Nat), toSend : SUBSET Nat]
Outs == [answers : 0..1, cpp : 0..2, written : Seq(Nat)]

ControlTypes ==
    /\ objectCache \in BOOLEAN /\ daemonUp \in BOOLEAN
    /\ pc \in Waits \cup Ends \cup {"envUpload", "waitCompile"}
    /\ wdog \in {"running", "stopped", "timedOut"}
    /\ stage \in 1..7
    /\ ws \in [Servers -> {"none", "connecting", "open", "failed"}]
    /\ peer \in [Servers -> {"up", "hung", "gone"}]
    /\ attempt \in 1..MaxAttempts
    /\ reply \in Replies \cup {"none"}

DataTypes ==
    /\ thread \in Threads /\ input \in Inputs /\ answer \in Answers
    /\ job \in JobStates /\ stream \in Seq(Messages) /\ out \in Outs

LEMMA TypesAre == TypeOK <=> ControlTypes /\ DataTypes
  BY DEF TypeOK, ControlTypes, DataTypes, Threads, Inputs, Answers, JobStates, Outs

LEMMA MainControl == JobInv /\ Main => ControlTypes'
<1> SUFFICES ASSUME JobInv, Main PROVE ControlTypes'
  OBVIOUS
<1>0. ControlTypes /\ StageOfWait /\ AttemptsLeft
  BY TypesAre DEF JobInv, MainInv
<1> USE ClientJobAssumption
    DEF ControlTypes, StageOfWait, AttemptsLeft, Base, Waits, Ends, Servers, RunLocal, StopWatchdog,
        local, net, remote
<1>1. CASE GiveUp \/ NoBuilder \/ NeedsEnvironment \/ EnvironmentUploaded \/ CompileWaitOver
  BY <1>0, <1>1 DEF GiveUp, NoBuilder, NeedsEnvironment, EnvironmentUploaded, CompileWaitOver
<1>2. CASE BuilderAssigned
  BY <1>0, <1>2 DEF BuilderAssigned, Transition, Connect
<1>3. CASE PreprocessedWaitOver
  BY <1>0, <1>3 DEF PreprocessedWaitOver, Connect, Request, Upload, Outputs
<1>4. CASE BuilderConnected
  BY <1>0, <1>4 DEF BuilderConnected, Transition, Request, Upload, Outputs
<1>5. CASE HeldOver
  BY <1>0, <1>5 DEF HeldOver, Upload, Outputs
<1>6. CASE UploadOver \/ ResponseOver
  BY <1>0, <1>6 DEF UploadOver, ResponseOver, Transition
<1>7. ASSUME NEW n \in Servers, Retry(n) \/ BackoffOver(n) PROVE ControlTypes'
  BY <1>0, <1>7 DEF Retry, BackoffOver, Connect
<1> QED BY <1>1, <1>2, <1>3, <1>4, <1>5, <1>6, <1>7 DEF Main

LEMMA OtherControl ==
    ASSUME JobInv, Next, ~Main PROVE ControlTypes'
<1>0. ControlTypes
  BY TypesAre DEF JobInv, MainInv
<1> USE DEF ControlTypes, Waits, Ends, Servers, RunLocal, StopWatchdog, local, net, remote, OnlyBuilder
<1>1. CASE OnResume \/ OnFailed
  BY <1>0, <1>1 DEF OnResume, OnFailed, HandleMessage
<1>2. CASE OnResponse
  BY <1>0, <1>2 DEF OnResponse, HandleMessage
<1>3. CASE OnFile
  BY <1>0, <1>3 DEF OnFile, HandleMessage
<1>4. CASE Builder
  BY <1>0, <1>4 DEF Builder, UploadReceived, UploadRejected, JobStarted, CompileFailed, FileSent,
                    AnswerFromCache, AnswerOfCompile, Respond
<1>5. CASE WatchdogFires \/ DaemonDies \/ UploadSent \/ ThreadDone
  BY <1>0, <1>5 DEF WatchdogFires, DaemonDies, UploadSent, ThreadDone
<1>6. ASSUME NEW status \in {"ok", "failed"}, PreprocessorExits(status) PROVE ControlTypes'
  BY <1>0, <1>6 DEF PreprocessorExits
<1>7. ASSUME NEW n \in Servers, CannotConnect(n) \/ Handshake(n) \/ Broken(n) PROVE ControlTypes'
  <2>1. CASE CannotConnect(n) \/ Broken(n)
    BY <1>0, <2>1 DEF CannotConnect, Broken
  <2>2. CASE Handshake(n)
    <3>1. stage' \in 1..7
      BY <1>0, <2>2 DEF Handshake, Transition, JobInv, MainInv, StageOfWait, Base
    <3> QED BY <1>0, <2>2, <3>1 DEF Handshake, Transition
  <2> QED BY <1>7, <2>1, <2>2
<1>8. ASSUME NEW n \in Servers, NEW how \in {"hung", "gone"}, PeerFails(n, how) PROVE ControlTypes'
  BY <1>0, <1>8 DEF PeerFails
<1>9. ASSUME NEW what \in Replies, SchedulerAnswers(what) PROVE ControlTypes'
  BY <1>0, <1>9 DEF SchedulerAnswers
<1> QED BY <1>1, <1>2, <1>3, <1>4, <1>5, <1>6, <1>7, <1>8, <1>9 DEF Next, Handlers

\* Which steps change the records and the stream.
LEMMA Frame ==
    ASSUME Next
    PROVE  /\ UNCHANGED thread \/ ThreadDone \/ \E status \in {"ok", "failed"} : PreprocessorExits(status)
           /\ UNCHANGED input \/ BuilderAssigned \/ PreprocessedWaitOver \/ BuilderConnected \/ HeldOver
           /\ UNCHANGED answer \/ Handlers \/ Handshake("builder")
           /\ UNCHANGED job \/ PreprocessedWaitOver \/ BuilderConnected \/ UploadSent \/ Builder
           /\ UNCHANGED stream \/ Handlers \/ Builder \/ Broken("builder")
           /\ UNCHANGED out \/ HeldOver \/ OnResponse \/ OnFile
<1> USE DEF local, net, remote, OnlyBuilder, Next, Main, GiveUp, NoBuilder, NeedsEnvironment, EnvironmentUploaded,
            CompileWaitOver, UploadOver, ResponseOver, Retry, BackoffOver, HandleMessage,
            WatchdogFires, DaemonDies, CannotConnect, PeerFails, SchedulerAnswers
<1>1. UNCHANGED thread \/ ThreadDone \/ \E status \in {"ok", "failed"} : PreprocessorExits(status)
  BY DEF Handlers, Builder, BuilderAssigned, PreprocessedWaitOver, BuilderConnected, HeldOver,
         OnResume, OnFailed, OnResponse, OnFile, UploadReceived, UploadRejected, JobStarted, CompileFailed,
         FileSent, AnswerFromCache, AnswerOfCompile, Respond, UploadSent, Handshake, Broken
<1>2. UNCHANGED input \/ BuilderAssigned \/ PreprocessedWaitOver \/ BuilderConnected \/ HeldOver
  BY DEF Handlers, Builder, OnResume, OnFailed, OnResponse, OnFile, UploadReceived, UploadRejected, JobStarted,
         CompileFailed, FileSent, AnswerFromCache, AnswerOfCompile, Respond, UploadSent, ThreadDone,
         PreprocessorExits, Handshake, Broken
<1>3. UNCHANGED answer \/ Handlers \/ Handshake("builder")
  BY DEF Builder, BuilderAssigned, PreprocessedWaitOver, BuilderConnected, HeldOver, UploadReceived, UploadRejected,
         JobStarted, CompileFailed, FileSent, AnswerFromCache, AnswerOfCompile, Respond, UploadSent, ThreadDone,
         PreprocessorExits, Handshake, Servers, Broken
<1>4. UNCHANGED job \/ PreprocessedWaitOver \/ BuilderConnected \/ UploadSent \/ Builder
  BY DEF Handlers, BuilderAssigned, HeldOver, OnResume, OnFailed, OnResponse, OnFile, ThreadDone,
         PreprocessorExits, Handshake, Broken
<1>5. UNCHANGED stream \/ Handlers \/ Builder \/ Broken("builder")
  BY DEF BuilderAssigned, PreprocessedWaitOver, BuilderConnected, HeldOver, UploadSent, ThreadDone,
         PreprocessorExits, Handshake, Broken, Servers
<1>6. UNCHANGED out \/ HeldOver \/ OnResponse \/ OnFile
  BY DEF Handlers, Builder, BuilderAssigned, PreprocessedWaitOver, BuilderConnected, OnResume, OnFailed,
         UploadReceived, UploadRejected, JobStarted, CompileFailed, FileSent, AnswerFromCache, AnswerOfCompile, Respond,
         UploadSent, ThreadDone, PreprocessorExits, Handshake, Broken
<1> QED BY <1>1, <1>2, <1>3, <1>4, <1>5, <1>6

LEMMA Indices ==
    ASSUME NEW index \in Seq(Nat)
    PROVE  DOMAIN index \subseteq Nat /\ NonEmpty(index) \subseteq DOMAIN index
  BY DEF NonEmpty

LEMMA DataSteps == JobInv /\ Next => DataTypes'
<1> SUFFICES ASSUME JobInv, Next PROVE DataTypes'
  OBVIOUS
<1>0. DataTypes
  BY TypesAre DEF JobInv, MainInv
<1> USE DEF local, net, remote, OnlyBuilder
<1>1. thread' \in Threads
  BY <1>0, Frame DEF DataTypes, Threads, ThreadDone, PreprocessorExits
<1>2. input' \in Inputs
  <2>1. CASE BuilderAssigned
    BY <1>0, <2>1 DEF BuilderAssigned, DataTypes, Inputs
  <2>2. CASE PreprocessedWaitOver
    BY <1>0, <2>2 DEF PreprocessedWaitOver, Request, Upload, Outputs, DataTypes, Inputs
  <2>3. CASE BuilderConnected
    BY <1>0, <2>3 DEF BuilderConnected, Request, Upload, Outputs, DataTypes, Inputs
  <2>4. CASE HeldOver
    BY <1>0, <2>4 DEF HeldOver, Upload, Outputs, DataTypes, Inputs
  <2> QED BY <1>0, <2>1, <2>2, <2>3, <2>4, Frame DEF DataTypes
<1>3. answer' \in Answers
  <2>1. CASE Handshake("builder")
    BY <1>0, <2>1 DEF Handshake, DataTypes, Answers
  <2>2. CASE OnResume \/ OnFailed
    BY <1>0, <2>2 DEF OnResume, OnFailed, DataTypes, Answers
  <2>3. CASE OnResponse
    <3>1. PICK done \in BOOLEAN, error \in BOOLEAN :
             answer' = [answer EXCEPT !.files = NonEmpty(job.index), !.done = done, !.error = error]
      <4>1. PICK opened : answer' = [answer EXCEPT
                             !.files = NonEmpty(job.index), !.done = NonEmpty(job.index) = {},
                             !.error = @ \/ opened # DOMAIN job.index \ NonEmpty(job.index)]
        BY <2>3 DEF OnResponse
      <4>2. /\ (NonEmpty(job.index) = {}) \in BOOLEAN
            /\ (answer.error \/ opened # DOMAIN job.index \ NonEmpty(job.index)) \in BOOLEAN
        OBVIOUS
      <4> QED BY <4>1, <4>2
    <3>2. NonEmpty(job.index) \in SUBSET Nat
      BY <1>0, Indices DEF DataTypes, JobStates
    <3> QED BY <1>0, <3>1, <3>2 DEF DataTypes, Answers
  <2>4. CASE OnFile
    BY <1>0, <2>4 DEF OnFile, DataTypes, Answers
  <2> QED BY <1>0, <2>1, <2>2, <2>3, <2>4, Frame DEF DataTypes, Handlers
<1>4. job' \in JobStates
  <2>1. CASE PreprocessedWaitOver \/ BuilderConnected
    BY <1>0, <2>1 DEF PreprocessedWaitOver, BuilderConnected, Request, DataTypes, JobStates
  <2>2. CASE UploadSent
    BY <1>0, <2>2 DEF UploadSent, DataTypes, JobStates
  <2>3. CASE UploadReceived \/ UploadRejected \/ JobStarted \/ CompileFailed \/ FileSent
    BY <1>0, <2>3 DEF UploadReceived, UploadRejected, JobStarted, CompileFailed, FileSent, DataTypes, JobStates
  <2>4. ASSUME NEW index \in Indexes, AnswerFromCache(index) \/ AnswerOfCompile(index) PROVE job' \in JobStates
    <3>1. index \in Seq(Nat) /\ NonEmpty(index) \in SUBSET Nat /\ DOMAIN index \in SUBSET Nat
      BY ClientJobAssumption, Indices
    <3>2. PICK mode \in {"cached", "compiled"}, toSend \in SUBSET Nat :
             job' = [job EXCEPT !.mode = mode, !.index = index, !.toSend = toSend]
      BY <2>4, <3>1 DEF AnswerFromCache, AnswerOfCompile, Respond
    <3> QED BY <1>0, <3>1, <3>2 DEF DataTypes, JobStates
  <2> QED BY <1>0, <2>1, <2>2, <2>3, <2>4, Frame DEF DataTypes, Builder
<1>5. stream' \in Seq(Messages)
  <2>1. CASE Broken("builder") \/ Handlers
    <3>1. stream' = <<>> \/ (stream # <<>> /\ stream' = Tail(stream))
      BY <2>1 DEF Broken, Handlers, OnResume, OnFailed, OnResponse, OnFile, HandleMessage
    <3> QED BY <1>0, <3>1, EmptySeq, HeadTailProperties DEF DataTypes
  <2>2. CASE UploadReceived \/ UploadRejected \/ JobStarted \/ CompileFailed
    BY <1>0, <2>2 DEF UploadReceived, UploadRejected, JobStarted, CompileFailed, Say, Messages, DataTypes
  <2>3. CASE FileSent
    BY <1>0, <2>3 DEF FileSent, Say, Messages, DataTypes, JobStates
  <2>4. ASSUME NEW index \in Indexes, AnswerFromCache(index) \/ AnswerOfCompile(index) PROVE stream' \in Seq(Messages)
    BY <1>0, <2>4 DEF AnswerFromCache, AnswerOfCompile, Respond, Say, Messages, DataTypes
  <2> QED BY <1>0, <2>1, <2>2, <2>3, <2>4, Frame DEF DataTypes, Builder
<1>6. out' \in Outs
  <2>1. CASE HeldOver
    BY <1>0, <2>1 DEF HeldOver, Waits, JobInv, AnswerInv, FilesWritten, DataTypes, Outs
  <2>2. CASE OnResponse
    <3>1. out.answers = 0 /\ out.cpp = 0
      <4>1. stream # <<>> /\ Head(stream).type = "response" /\ pc # "remote"
        BY <2>2 DEF OnResponse, HandleMessage
      <4>2. 1 \in DOMAIN stream /\ stream[1] = Head(stream)
        BY <1>0, <4>1 DEF DataTypes
      <4> QED BY <4>1, <4>2 DEF JobInv, AnswerInv, StreamOrder, FilesWritten, Is
    <3>2. PICK opened : out' = [answers |-> out.answers + 1, cpp |-> out.cpp + 1,
                                written |-> [i \in DOMAIN job.index |-> IF i \in opened THEN i ELSE 0]]
      BY <2>2 DEF OnResponse
    <3>3. [i \in DOMAIN job.index |-> IF i \in opened THEN i ELSE 0] \in Seq(Nat)
      <4>1. Len(job.index) \in Nat /\ DOMAIN job.index = 1..Len(job.index)
        BY <1>0 DEF DataTypes, JobStates
      <4> QED BY <4>1
    <3> QED BY <3>1, <3>2, <3>3 DEF Outs
  <2>3. CASE OnFile
    <3>1. CASE UNCHANGED out
      BY <1>0, <3>1 DEF DataTypes
    <3>2. CASE ~UNCHANGED out
      <4>1. PICK next : out' = [out EXCEPT !.written[next] = Head(stream).is]
        BY <2>3, <3>2 DEF OnFile
      <4>2. Head(stream).type = "file" /\ stream # <<>>
        BY <2>3 DEF OnFile, HandleMessage
      <4>3. Head(stream).is \in Nat
        BY <1>0, <4>2 DEF DataTypes, Messages
      <4>4. [out.written EXCEPT ![next] = Head(stream).is] \in Seq(Nat)
        <5>1. out.written \in Seq(Nat)
          BY <1>0 DEF DataTypes, Outs
        <5>2. CASE next \in DOMAIN out.written
          BY <4>3, <5>1, <5>2, ExceptSeq
        <5>3. CASE next \notin DOMAIN out.written
          <6>1. [out.written EXCEPT ![next] = Head(stream).is] = out.written
            BY <5>1, <5>3
          <6> QED BY <5>1, <6>1
        <5> QED BY <5>2, <5>3
      <4> QED BY <1>0, <4>1, <4>4 DEF DataTypes, Outs
    <3> QED BY <3>1, <3>2
  <2> QED BY <1>0, <2>1, <2>2, <2>3, Frame DEF DataTypes
<1> QED BY <1>1, <1>2, <1>3, <1>4, <1>5, <1>6 DEF DataTypes

LEMMA JobTypes == JobInv /\ Next => TypeOK'
<1> SUFFICES ASSUME JobInv, Next PROVE TypeOK'
  OBVIOUS
<1>1. ControlTypes' /\ DataTypes'
  BY MainControl, OtherControl, DataSteps
<1> QED BY <1>1 DEF TypeOK, ControlTypes, DataTypes, Threads, Inputs, Answers, JobStates, Outs

----------------------------------------------------------------------------
(* The steps of main() and its handlers *)

MainRest == StageOfWait /\ WatchdogOfWait /\ AttemptsLeft /\ Aborted /\ InputRight

LEMMA HandlersKeepMain == JobInv /\ Handlers => MainRest'
<1> SUFFICES ASSUME JobInv, Handlers PROVE MainRest'
  OBVIOUS
<1>0. MainRest /\ answer \in Answers /\ wdog \in {"running", "stopped", "timedOut"}
  BY TypesAre DEF JobInv, MainInv, MainRest, DataTypes, ControlTypes
<1>1. /\ UNCHANGED <<objectCache, daemonUp, pc, stage, thread, ws, attempt, reply, input, job>>
      /\ pc \in {"held", "uploading", "response", "waitCompile"}
  BY DEF Handlers, OnResume, OnFailed, OnResponse, OnFile, HandleMessage, local, net
<1>2. /\ answer.error => answer'.error
      /\ wdog' = wdog \/ (wdog = "running" /\ wdog' = "stopped" /\ answer'.error)
  <2>1. CASE OnResume
    BY <1>0, <2>1 DEF OnResume, Answers
  <2>2. CASE OnFailed
    BY <1>0, <2>2 DEF OnFailed, StopWatchdog, Answers
  <2>3. CASE OnResponse
    BY <1>0, <2>3 DEF OnResponse, StopWatchdog, Answers
  <2>4. CASE OnFile
    BY <1>0, <2>4 DEF OnFile, StopWatchdog, Answers
  <2> QED BY <2>1, <2>2, <2>3, <2>4 DEF Handlers
<1>3. InputRight' /\ Aborted'
  BY <1>0, <1>1 DEF MainRest, InputRight, Aborted, Late, Early
<1>4. StageOfWait' /\ AttemptsLeft'
  BY <1>0, <1>1, <1>2 DEF MainRest, StageOfWait, AttemptsLeft, Base
<1>5. WatchdogOfWait'
  BY <1>0, <1>1, <1>2 DEF MainRest, WatchdogOfWait, Late, Waits
<1> QED BY <1>3, <1>4, <1>5 DEF MainRest

LEMMA BuilderKeepsMain == JobInv /\ (Builder \/ UploadSent) => MainRest'
<1> SUFFICES ASSUME JobInv, Builder \/ UploadSent PROVE MainRest'
  OBVIOUS
<1>0. MainRest /\ NothingAsked /\ job \in JobStates
  BY TypesAre DEF JobInv, MainInv, AnswerInv, MainRest, DataTypes
<1>1. UNCHANGED <<objectCache, daemonUp, pc, wdog, stage, thread, ws, attempt, reply, input, answer>>
  BY DEF Builder, UploadReceived, UploadRejected, JobStarted, CompileFailed, FileSent, AnswerFromCache,
         AnswerOfCompile, Respond, OnlyBuilder, UploadSent, local, net
<1>2. /\ job'.got = job.got \/ (job.got = "request" /\ pc = "uploading") \/ job.got = "sent"
      /\ job'.mode = "cached" => job.mode = "cached" \/ input.sha1 # "none"
      /\ job'.mode = "compiled" => job'.got = "whole"
      /\ job'.got = "nothing" => job'.mode = "none"
  <2>1. CASE UploadSent
    BY <1>0, <2>1 DEF UploadSent, MainRest, InputRight, JobStates
  <2>2. CASE UploadReceived \/ UploadRejected \/ JobStarted \/ CompileFailed \/ FileSent
    BY <1>0, <2>2 DEF UploadReceived, UploadRejected, JobStarted, CompileFailed, FileSent, MainRest, InputRight, JobStates
  <2>3. ASSUME NEW index \in Indexes, AnswerFromCache(index)
        PROVE  job'.got = job.got /\ job'.mode = "cached" /\ input.sha1 # "none" /\ job.got # "nothing"
    BY <1>0, <2>3 DEF AnswerFromCache, Respond, JobStates
  <2>4. ASSUME NEW index \in Indexes, AnswerOfCompile(index)
        PROVE  job'.got = job.got /\ job'.mode = "compiled" /\ job.got = "whole"
    BY <1>0, <2>4 DEF AnswerOfCompile, Respond, JobStates
  <2> QED BY <2>1, <2>2, <2>3, <2>4 DEF Builder
<1>3. InputRight'
  BY <1>0, <1>1, <1>2 DEF MainRest, InputRight, Late, Early
<1> QED BY <1>0, <1>1, <1>3 DEF MainRest, StageOfWait, WatchdogOfWait, AttemptsLeft, Aborted, Base, Late

LEMMA OthersKeepMain ==
    JobInv /\ (WatchdogFires \/ DaemonDies \/ ThreadDone \/ \E status \in {"ok", "failed"} : PreprocessorExits(status))
    => MainRest'
<1> SUFFICES ASSUME JobInv,
                    WatchdogFires \/ DaemonDies \/ ThreadDone \/ \E status \in {"ok", "failed"} : PreprocessorExits(status)
             PROVE  MainRest'
  OBVIOUS
<1>0. MainRest /\ thread \in Threads /\ wdog \in {"running", "stopped", "timedOut"}
  BY TypesAre DEF JobInv, MainInv, MainRest, DataTypes, ControlTypes
<1>1. /\ UNCHANGED <<objectCache, pc, stage, ws, attempt, reply, input, job, answer>>
      /\ daemonUp' => daemonUp
      /\ wdog' = wdog \/ wdog' = "timedOut"
  BY DEF WatchdogFires, DaemonDies, ThreadDone, PreprocessorExits, local, net, remote
<1>2. thread.done => thread'.done
  BY <1>0 DEF WatchdogFires, DaemonDies, ThreadDone, PreprocessorExits, Threads
<1> QED BY <1>0, <1>1, <1>2 DEF MainRest, StageOfWait, WatchdogOfWait, AttemptsLeft, Aborted, InputRight, Base, Late

\* Falling back, or going on to what ends without a watchdog.
LEMMA FallingBack ==
    ASSUME JobInv, pc # "aborted", pc' \in {"waitCompile", "envUpload", "local", "refused", "remote"},
           UNCHANGED <<thread, input, job>>, daemonUp' = daemonUp
    PROVE  MainRest'
<1> MainRest
  BY DEF JobInv, MainInv, MainRest
<1> QED BY DEF MainRest, StageOfWait, WatchdogOfWait, AttemptsLeft, Aborted, InputRight, Waits, Servers, Late, Early

LEMMA NetKeepsMain ==
    ASSUME JobInv, NEW n \in Servers,
           \/ Retry(n) \/ BackoffOver(n) \/ CannotConnect(n) \/ Handshake(n) \/ Broken(n)
           \/ \E how \in {"hung", "gone"} : PeerFails(n, how)
    PROVE  MainRest'
<1>0. MainRest /\ ControlTypes /\ answer \in Answers
  BY TypesAre DEF JobInv, MainInv, MainRest, DataTypes
<1>1. CASE CannotConnect(n) \/ (Retry(n) /\ pc' # pc)
  <2>1. pc' = "waitCompile" /\ pc # "aborted" /\ daemonUp' = daemonUp /\ UNCHANGED <<thread, input, job>>
    BY <1>1 DEF CannotConnect, Retry, RunLocal, local, remote, Servers
  <2> QED BY <2>1, FallingBack
<1>2. CASE \/ Broken(n) \/ BackoffOver(n) \/ (Retry(n) /\ pc' = pc)
           \/ \E how \in {"hung", "gone"} : PeerFails(n, how)
  <2>1. /\ UNCHANGED <<objectCache, daemonUp, pc, wdog, stage, thread, input, job, reply, answer>>
        /\ ws' = ws \/ \E s \in {"failed", "none", "connecting"} : ws' = [ws EXCEPT ![n] = s]
    BY <1>2 DEF Broken, BackoffOver, Connect, Retry, RunLocal, PeerFails, local, remote, Servers
  <2>2. Aborted' /\ WatchdogOfWait' /\ InputRight'
    <3>1. pc = "aborted" => attempt' = attempt
      BY <1>2 DEF Broken, BackoffOver, Connect, Retry, PeerFails, Servers
    <3> QED BY <1>0, <2>1, <3>1 DEF MainRest, Aborted, WatchdogOfWait, InputRight
  <2>3. CASE Broken(n) \/ \E how \in {"hung", "gone"} : PeerFails(n, how)
    <3>1. attempt' = attempt /\ (ws' = ws \/ (ws[n] \in {"connecting", "open"} /\ ws' = [ws EXCEPT ![n] = "failed"]))
      BY <2>3 DEF Broken, PeerFails
    <3> QED BY <1>0, <2>1, <2>2, <3>1 DEF MainRest, ControlTypes, StageOfWait, AttemptsLeft, Base, Servers
  <2>4. CASE (Retry(n) /\ pc' = pc)
    BY <1>0, <2>2, <2>4, ClientJobAssumption
       DEF Retry, RunLocal, ConnectFinished, MainRest, ControlTypes, StageOfWait, AttemptsLeft, Base, Servers, local
  <2>5. CASE BackoffOver(n)
    BY <1>0, <2>2, <2>5, ClientJobAssumption
       DEF BackoffOver, Connect, MainRest, ControlTypes, StageOfWait, AttemptsLeft, Base, Servers, local
  <2> QED BY <1>2, <2>3, <2>4, <2>5
<1>3. CASE Handshake(n)
  <2>1. /\ UNCHANGED <<objectCache, daemonUp, wdog, thread, attempt, reply, input, job>>
        /\ pc = n /\ ws[n] = "connecting" /\ ws' = [ws EXCEPT ![n] = "open"]
        /\ answer' = answer \/ \E wait \in BOOLEAN : answer' = [answer EXCEPT !.wait = wait]
    BY <1>3 DEF Handshake, local
  <2>2. answer'.error = answer.error
    BY <1>0, <2>1 DEF Answers
  <2>3. CASE n = "builder"
    <3>1. pc' = pc /\ stage' = stage
      BY <1>3, <2>3 DEF Handshake
    <3> QED BY <1>0, <2>1, <2>2, <2>3, <3>1
            DEF MainRest, ControlTypes, StageOfWait, WatchdogOfWait, AttemptsLeft, Aborted, InputRight, Base, Servers, Late
  <2>4. CASE n = "scheduler"
    <3>1. Transition("ConnectedToScheduler", pc)
      BY <1>3, <2>4 DEF Handshake
    <3>2. reply = "none" /\ (stage = Base \/ (stage = Base + 1 /\ attempt > 1))
      BY <1>0, <2>1, <2>4, ClientJobAssumption DEF MainRest, StageOfWait, ControlTypes
    <3>3. CASE wdog = "running" /\ stage = Base
      <4>1. pc' = pc /\ stage' = Base + 1
        BY <1>0, <3>1, <3>3, StagesAre DEF Transition, ControlTypes
      <4> QED BY <1>0, <2>1, <2>2, <2>4, <4>1
              DEF MainRest, ControlTypes, StageOfWait, WatchdogOfWait, AttemptsLeft, Aborted, InputRight, Base, Servers, Late
    <3>4. CASE wdog = "running" /\ stage = Base + 1
      <4>1. pc' \in {pc, "aborted"} /\ stage' = Base + 2 /\ Stages[Base + 2] # "ConnectedToScheduler"
        BY <1>0, <3>1, <3>4, StagesAre DEF Transition, ControlTypes, Base
      <4>2. pc' = "aborted"
        BY <1>0, <3>1, <3>4, <4>1 DEF Transition, ControlTypes, Base
      <4> QED BY <1>0, <2>1, <2>2, <2>4, <3>2, <3>4, <4>2
              DEF MainRest, ControlTypes, StageOfWait, WatchdogOfWait, AttemptsLeft, Aborted, InputRight, Base, Servers, Late,
                  Waits, Early
    <3>5. CASE wdog # "running"
      <4>1. pc' = pc /\ stage' = stage
        BY <3>1, <3>5 DEF Transition
      <4> QED BY <1>0, <2>1, <2>2, <2>4, <3>5, <4>1
              DEF MainRest, ControlTypes, StageOfWait, WatchdogOfWait, AttemptsLeft, Aborted, InputRight, Base, Servers, Late
    <3> QED BY <3>2, <3>3, <3>4, <3>5
  <2> QED BY <2>3, <2>4 DEF Servers
<1> QED BY <1>1, <1>2, <1>3

\* The request: held, or followed by the upload of what the thread has.
LEMMA Requesting ==
    ASSUME JobInv, UNCHANGED <<objectCache, daemonUp, thread, wdog, answer>>, stage' = 5,
           thread.done \/ ~daemonUp, wdog = "stopped" => answer.error,
           job'.got = "request", job'.mode = job.mode, job.mode # "compiled", input.upload = "none",
           Upload(input) \/ (pc' = "held" /\ input' = input)
    PROVE  MainRest'
<1>0. MainRest /\ thread \in Threads /\ input \in Inputs
  BY TypesAre DEF JobInv, MainInv, MainRest, DataTypes
<1>1. CASE pc' = "held" /\ input' = input
  BY <1>0, <1>1 DEF MainRest, StageOfWait, WatchdogOfWait, AttemptsLeft, Aborted, InputRight, Late, Early, Servers
<1>2. CASE Upload(input)
  <2>1. PICK data \in Outputs : /\ pc' = IF data = "empty" THEN "aborted" ELSE "uploading"
                                /\ input' = [input EXCEPT !.upload = data]
    BY <1>2 DEF Upload
  <2>2. data \in {"whole", "partial", "empty"} /\ (data # "whole" => ~daemonUp)
    BY <2>1 DEF Outputs
  <2>3. input'.upload = data /\ input'.sha1 = input.sha1
    BY <1>0, <2>1 DEF Inputs
  <2>4. InputRight' /\ Aborted'
    BY <1>0, <2>1, <2>2, <2>3 DEF MainRest, Aborted, InputRight, Late, Early
  <2> QED BY <1>0, <2>1, <2>4 DEF MainRest, StageOfWait, WatchdogOfWait, AttemptsLeft, Late, Waits, Servers
<1> QED BY <1>1, <1>2

LEMMA MainKeepsMain == JobInv /\ Main => MainRest'
<1> SUFFICES ASSUME JobInv, Main PROVE MainRest'
  OBVIOUS
<1>0. MainRest /\ NothingAsked /\ ControlTypes /\ DataTypes
  BY TypesAre DEF JobInv, MainInv, AnswerInv, MainRest
<1>1. CASE GiveUp \/ NoBuilder \/ NeedsEnvironment \/ EnvironmentUploaded \/ CompileWaitOver
  <2>1. /\ pc' \in {"waitCompile", "envUpload", "local"} /\ pc # "aborted"
        /\ daemonUp' = daemonUp /\ UNCHANGED <<thread, input, job>>
    BY <1>1 DEF GiveUp, NoBuilder, NeedsEnvironment, EnvironmentUploaded, CompileWaitOver, RunLocal, local, remote, Waits
  <2> QED BY <2>1, FallingBack
<1>2. CASE BuilderAssigned
  <2>1. /\ pc = "scheduler" /\ reply = "builder" /\ wdog = "running" /\ stage = Base + 1
    BY <1>0, <1>2 DEF BuilderAssigned, MainRest, StageOfWait, WatchdogOfWait, ControlTypes, Waits, Late
  <2>2. pc' = "builder" /\ stage' = Base + 2
    BY <1>0, <1>2, <2>1, StagesAre DEF BuilderAssigned, Transition, ControlTypes, Base
  <2>3. /\ UNCHANGED <<objectCache, daemonUp, wdog, thread, answer, job>>
        /\ ws' = [ws EXCEPT !["builder"] = "connecting"]
        /\ input' = input \/ input' = [input EXCEPT !.sha1 = "none"]
    BY <1>2 DEF BuilderAssigned, Connect, local, remote
  <2>4. /\ input'.upload = input.upload
        /\ input'.sha1 = input.sha1 \/ input'.sha1 = "none"
    BY <1>0, <2>3 DEF DataTypes, Inputs
  <2>5. InputRight'
    BY <1>0, <2>1, <2>2, <2>3, <2>4 DEF MainRest, InputRight, NothingAsked, Early, Late
  <2> QED BY <1>0, <2>1, <2>2, <2>3, <2>5
          DEF MainRest, ControlTypes, StageOfWait, WatchdogOfWait, AttemptsLeft, Aborted, Base, Servers, Late
<1>3. CASE PreprocessedWaitOver
  <2>1. /\ pc = "preprocess" /\ wdog = "running" /\ stage = (IF objectCache THEN 1 ELSE 4)
        /\ stage' = stage + 1
        /\ thread.done \/ ~daemonUp
        /\ UNCHANGED <<objectCache, daemonUp, thread, answer>>
    BY <1>0, <1>3 DEF PreprocessedWaitOver, MainRest, StageOfWait, WatchdogOfWait, ControlTypes, Waits, Late, local
  <2>2. Stages[stage + 1] = "PreprocessFinished"
    BY <1>0, <2>1, StagesAre DEF ControlTypes
  <2>3. CASE RunLocal /\ UNCHANGED <<input, job>>
    BY <2>1, <2>3, FallingBack DEF RunLocal
  <2>4. CASE /\ objectCache /\ pc' = "scheduler" /\ Connect("scheduler", 1) /\ UNCHANGED <<wdog, reply, job>>
             /\ \E data \in Outputs \ {"empty"} : input' = [input EXCEPT !.sha1 = data]
    <3>1. PICK data \in Outputs \ {"empty"} : input' = [input EXCEPT !.sha1 = data]
      BY <2>4
    <3>2. data \in {"whole", "partial"} /\ (data # "whole" => ~daemonUp)
      BY <2>1, <3>1 DEF Outputs
    <3>3. input'.sha1 = data /\ input'.upload = input.upload
      BY <1>0, <3>1 DEF DataTypes, Inputs
    <3>4. ws' = [ws EXCEPT !["scheduler"] = "connecting"]
      BY <2>4 DEF Connect
    <3>7. stage' = Base'
      BY <2>1, <2>4 DEF Base
    <3>5. InputRight'
      BY <1>0, <2>1, <2>4, <3>2, <3>3 DEF MainRest, InputRight, NothingAsked, Early, Late
    <3>6. objectCache /\ reply = "none"
      BY <1>0, <2>1, <2>4 DEF MainRest, StageOfWait
    <3> QED BY <1>0, <2>1, <2>4, <3>4, <3>5, <3>6, <3>7
            DEF MainRest, ControlTypes, StageOfWait, WatchdogOfWait, AttemptsLeft, Aborted, Base, Servers, Late
  <2>5. CASE ~objectCache /\ Request(input) /\ UNCHANGED wdog
    <3>1. /\ job' = [job EXCEPT !.got = "request"]
          /\ Upload(input) \/ (pc' = "held" /\ input' = input)
      BY <2>5 DEF Request
    <3>2. job'.got = "request" /\ job'.mode = job.mode /\ job.mode = "none"
      BY <1>0, <2>1, <3>1 DEF DataTypes, JobStates, NothingAsked, Early
    <3>3. stage' = 5
      BY <2>1, <2>5
    <3>4. input.upload = "none"
      BY <1>0, <2>1 DEF MainRest, InputRight, Early
    <3> QED BY <2>1, <2>5, <3>1, <3>2, <3>3, <3>4, Requesting
  <2> QED BY <1>3, <2>1, <2>2, <2>3, <2>4, <2>5 DEF PreprocessedWaitOver
<1>4. CASE BuilderConnected
  <2>1. /\ pc = "builder" /\ ws["builder"] = "open" /\ wdog = "running" /\ stage = Base + 2
        /\ UNCHANGED <<objectCache, daemonUp, thread, wdog, ws, attempt, reply, answer>>
    BY <1>0, <1>4 DEF BuilderConnected, MainRest, StageOfWait, WatchdogOfWait, ControlTypes, Waits, Late, local, net
  <2>2. CASE objectCache
    <3>1. /\ job' = [job EXCEPT !.got = "request"] /\ stage' = 5
          /\ Upload(input) \/ (pc' = "held" /\ input' = input)
      BY <1>0, <1>4, <2>1, <2>2 DEF BuilderConnected, Request, Base, ControlTypes
    <3>2. job'.got = "request" /\ job'.mode = job.mode /\ job.mode = "none"
      BY <1>0, <2>1, <3>1 DEF DataTypes, JobStates, NothingAsked, Early
    <3>3. input.upload = "none" /\ (thread.done \/ ~daemonUp)
      BY <1>0, <2>1, <2>2 DEF MainRest, InputRight, Early
    <3> QED BY <2>1, <3>1, <3>2, <3>3, Requesting
  <2>3. CASE ~objectCache
    <3>1. pc' = "preprocess" /\ stage' = 4 /\ UNCHANGED <<input, job>>
      BY <1>0, <1>4, <2>1, <2>3, StagesAre DEF BuilderConnected, Transition, Base, ControlTypes
    <3> QED BY <1>0, <2>1, <2>3, <3>1
            DEF MainRest, StageOfWait, WatchdogOfWait, AttemptsLeft, Aborted, InputRight, Late, Early, Servers
  <2> QED BY <2>2, <2>3
<1>5. CASE HeldOver
  <2>1. pc = "held" /\ UNCHANGED <<objectCache, daemonUp, thread, answer, job>>
    BY <1>5 DEF HeldOver, local
  <2>2. CASE pc' \in {"remote", "waitCompile"} /\ input' = input
    BY <2>1, <2>2, FallingBack
  <2>3. CASE Upload(input) /\ UNCHANGED <<wdog, stage>>
    <3>1. /\ stage = 5 /\ (wdog = "stopped" => answer.error) /\ (thread.done \/ ~daemonUp)
          /\ job.got = "request" /\ job.mode # "compiled" /\ input.upload = "none"
      BY <1>0, <2>1 DEF MainRest, StageOfWait, WatchdogOfWait, InputRight, Waits, Late
    <3> QED BY <2>1, <2>3, <3>1, Requesting
  <2> QED BY <1>5, <2>2, <2>3 DEF HeldOver, RunLocal
<1>6. CASE UploadOver \/ ResponseOver
  <2>1. pc \in {"uploading", "response"} /\ UNCHANGED <<objectCache, daemonUp, thread, ws, attempt, reply, input, answer, job>>
    BY <1>6 DEF UploadOver, ResponseOver, local, net, remote
  <2>2. CASE pc' \in {"remote", "waitCompile"}
    BY <2>1, <2>2, FallingBack
  <2>3. CASE UploadOver /\ pc' # "waitCompile"
    <3>1. pc = "uploading" /\ wdog' = wdog /\ wdog # "timedOut" /\ Transition("UploadedJob", "response")
      BY <2>3 DEF UploadOver, RunLocal
    <3>2. pc' = "response" /\ stage' = (IF wdog = "running" THEN 6 ELSE 5)
      BY <1>0, <3>1, StagesAre DEF Transition, MainRest, StageOfWait, ControlTypes
    <3> QED BY <1>0, <2>1, <3>1, <3>2
            DEF MainRest, StageOfWait, WatchdogOfWait, AttemptsLeft, Aborted, InputRight, Late, Early, Servers, Waits
  <2> QED BY <1>6, <2>2, <2>3 DEF ResponseOver, RunLocal
<1>7. ASSUME NEW n \in Servers, Retry(n) \/ BackoffOver(n) PROVE MainRest'
  BY <1>7, NetKeepsMain
<1> QED BY <1>1, <1>2, <1>3, <1>4, <1>5, <1>6, <1>7 DEF Main

LEMMA AnswerKeepsMain ==
    ASSUME JobInv, NEW what \in Replies, SchedulerAnswers(what) PROVE MainRest'
<1>0. MainRest /\ ControlTypes
  BY TypesAre DEF JobInv, MainInv, MainRest
<1>1. /\ pc = "scheduler" /\ ws["scheduler"] = "open" /\ reply = "none" /\ reply' = what
      /\ UNCHANGED <<objectCache, daemonUp, stage, thread, attempt, input, answer, job>>
  BY DEF SchedulerAnswers, local, remote
<1>2. CASE what = "versionMismatch"
  BY <1>1, <1>2, FallingBack DEF SchedulerAnswers
<1>3. CASE what # "versionMismatch"
  <2>1. /\ pc' = pc
        /\ IF what = "garbage" THEN ws' = [ws EXCEPT !["scheduler"] = "failed"] /\ wdog' # "running"
                               ELSE ws' = ws /\ wdog' = wdog
    BY <1>0, <1>3 DEF SchedulerAnswers, StopWatchdog
  <2>2. what # "none"
    BY DEF Replies
  <2> QED BY <1>0, <1>1, <2>1, <2>2
          DEF MainRest, ControlTypes, StageOfWait, WatchdogOfWait, AttemptsLeft, Aborted, InputRight, Base, Servers, Late, Early
<1> QED BY <1>2, <1>3

LEMMA MainSteps == JobInv /\ Next => MainInv'
<1> SUFFICES ASSUME JobInv, Next PROVE MainRest'
  BY JobTypes DEF MainInv, MainRest
<1> QED BY HandlersKeepMain, BuilderKeepsMain, OthersKeepMain, NetKeepsMain, MainKeepsMain, AnswerKeepsMain DEF Next

----------------------------------------------------------------------------
(* The steps of the builder's answer *)

\* What the answer's invariant is about stays as it is.
LEMMA AnswerKept ==
    ASSUME JobInv,
           UNCHANGED <<stream, out>>,
           answer'.files = answer.files, answer'.done = answer.done, answer'.error = answer.error,
           job'.mode = job.mode, job'.index = job.index, job'.toSend = job.toSend,
           pc' \in Early => pc \in Early /\ job'.got = job.got,
           ws'["builder"] = "open" => ws["builder"] = "open" \/ job.mode \notin Answered,
           pc = "remote" => pc' = "remote",
           pc' = "remote" => pc = "remote" /\ input' = input /\ (daemonUp' => daemonUp)
    PROVE  AnswerInv'
<1>0. NothingAsked /\ StreamOrder /\ FilesAwaited /\ FilesWritten /\ ResultIsRight
  BY DEF JobInv, AnswerInv
<1>1. NothingAsked'
  BY <1>0 DEF NothingAsked
<1>2. StreamOrder'
  BY <1>0 DEF StreamOrder, Is
<1>3. FilesAwaited'
  <2>1. Coming' = Coming
    BY DEF Coming, Sent, Is, NonEmpty
  <2> QED BY <1>0, <2>1 DEF FilesAwaited, Is, NonEmpty
<1>4. FilesWritten'
  BY <1>0 DEF FilesWritten
<1>5. ResultIsRight'
  BY <1>0 DEF ResultIsRight, Raced
<1> QED BY <1>1, <1>2, <1>3, <1>4, <1>5 DEF AnswerInv

LEMMA Remote ==
    ASSUME JobInv, pc \in {"held", "response"}, pc' = "remote", answer.done, ~answer.error,
           UNCHANGED <<daemonUp, ws, input, answer, job, stream>>,
           \/ pc = "held" /\ out' = [out EXCEPT !.cpp = @ + 1]
           \/ pc = "response" /\ out' = out
    PROVE  AnswerInv'
<1>0. NothingAsked /\ StreamOrder /\ FilesAwaited /\ FilesWritten /\ InputRight /\ DataTypes
  BY TypesAre DEF JobInv, MainInv, AnswerInv
<1>1. /\ out'.answers = out.answers /\ out'.written = out.written
      /\ out'.cpp = IF pc = "held" THEN out.cpp + 1 ELSE out.cpp
  BY <1>0 DEF DataTypes, Outs
<1>2. out.answers = 1 /\ answer.files = {} /\ job.mode \in Answered /\ out.cpp = 1
  BY <1>0 DEF FilesWritten, StreamOrder
<1>3. StreamOrder'
  BY <1>0, <1>1 DEF StreamOrder, Is
<1>4. FilesAwaited'
  <2>1. Coming' = Coming
    BY DEF Coming, Sent, Is, NonEmpty
  <2> QED BY <1>0, <1>1, <2>1 DEF FilesAwaited, Is, NonEmpty
<1>5. NothingAsked' /\ FilesWritten'
  BY <1>0, <1>1 DEF NothingAsked, FilesWritten, Early
<1>6. out.written = [i \in DOMAIN job.index |-> i]
  BY <1>0, <1>2 DEF FilesWritten, DataTypes, Outs
<1>7. Raced \/ "whole" = IF job.mode = "cached" THEN input.sha1 ELSE input.upload
  <2>1. input.upload # "empty"
    BY <1>0 DEF InputRight
  <2>2. CASE job.mode = "cached"
    BY <1>0, <2>2 DEF InputRight, Raced, DataTypes, Inputs
  <2>3. CASE job.mode # "cached"
    BY <1>0, <1>2, <2>1, <2>3 DEF Answered, InputRight, Raced, DataTypes, Inputs
  <2> QED BY <2>2, <2>3
<1>8. out'.cpp = 1 \/ input.upload = "none"
  BY <1>0, <1>1, <1>2 DEF InputRight
<1>9. ResultIsRight'
  BY <1>1, <1>2, <1>6, <1>7, <1>8 DEF ResultIsRight, Raced
<1> QED BY <1>3, <1>4, <1>5, <1>9 DEF AnswerInv

LEMMA MainKeepsAnswer == JobInv /\ Main => AnswerInv'
<1> SUFFICES ASSUME JobInv, Main PROVE AnswerInv'
  OBVIOUS
<1>0. NothingAsked /\ StreamOrder /\ DataTypes
  BY TypesAre DEF JobInv, MainInv, AnswerInv
<1>1. CASE HeldOver
  <2>1. pc = "held" /\ UNCHANGED <<daemonUp, ws, answer, job, stream>>
    BY <1>1 DEF HeldOver, local, net
  <2>2. CASE pc' = "remote"
    <3>1. answer.done /\ ~answer.error /\ input' = input /\ out' = [out EXCEPT !.cpp = @ + 1]
      BY <1>1, <2>2 DEF HeldOver, RunLocal, Upload
    <3> QED BY <2>1, <2>2, <3>1, Remote
  <2>3. CASE pc' # "remote"
    <3>1. out' = out /\ pc' \notin Early
      BY <1>1, <2>3 DEF HeldOver, RunLocal, Upload, Early
    <3> QED BY <2>1, <2>3, <3>1, AnswerKept
  <2> QED BY <2>2, <2>3
<1>2. CASE ResponseOver
  <2>1. pc = "response" /\ UNCHANGED <<daemonUp, ws, input, answer, job, stream, out>>
    BY <1>2 DEF ResponseOver, local, net, remote
  <2>2. CASE pc' = "remote"
    <3>1. answer.done /\ ~answer.error
      BY <1>2, <2>2 DEF ResponseOver, RunLocal
    <3> QED BY <2>1, <2>2, <3>1, Remote
  <2>3. CASE pc' # "remote"
    <3>1. pc' \notin Early
      BY <1>2, <2>3 DEF ResponseOver, RunLocal, Early
    <3> QED BY <2>1, <2>3, <3>1, AnswerKept
  <2> QED BY <2>2, <2>3
<1>3. CASE PreprocessedWaitOver \/ BuilderConnected
  <2>1. pc \in {"preprocess", "builder"} /\ UNCHANGED <<stream, answer, out>>
    BY <1>3 DEF PreprocessedWaitOver, BuilderConnected
  <2>2. /\ job' = job \/ (job' = [job EXCEPT !.got = "request"] /\ pc' \notin Early)
        /\ pc' # "remote"
        /\ ws'["builder"] = "open" => ws["builder"] = "open" \/ job.mode \notin Answered
    <3>1. job.mode \notin Answered
      BY <1>0, <2>1 DEF NothingAsked, Early, Answered
    <3>2. /\ job' = job \/ (job' = [job EXCEPT !.got = "request"] /\ pc' \notin Early)
          /\ pc' # "remote"
      BY <1>3 DEF PreprocessedWaitOver, BuilderConnected, RunLocal, Request, Upload, Transition, Early, net
    <3> QED BY <3>1, <3>2
  <2>3. job'.mode = job.mode /\ job'.index = job.index /\ job'.toSend = job.toSend
    BY <1>0, <2>2 DEF DataTypes, JobStates
  <2> QED BY <2>1, <2>2, <2>3, AnswerKept DEF Early
<1>4. CASE GiveUp \/ NoBuilder \/ NeedsEnvironment \/ EnvironmentUploaded \/ CompileWaitOver \/ UploadOver
  <2>1. /\ pc' \in {"waitCompile", "envUpload", "local", "response", "aborted"} /\ pc # "remote"
        /\ UNCHANGED <<ws, answer, job, stream, out>>
    BY <1>4 DEF GiveUp, NoBuilder, NeedsEnvironment, EnvironmentUploaded, CompileWaitOver, UploadOver, RunLocal,
                Transition, net, remote, Waits
  <2> QED BY <2>1, AnswerKept DEF Early
<1>5. CASE BuilderAssigned
  <2>1. /\ pc = "scheduler" /\ pc' \in {"builder", "aborted"} /\ ws' = [ws EXCEPT !["builder"] = "connecting"]
        /\ UNCHANGED <<answer, job, stream, out>>
    BY <1>5 DEF BuilderAssigned, Transition, Connect, remote
  <2>2. job.mode \notin Answered
    BY <1>0, <2>1 DEF NothingAsked, Early, Answered
  <2> QED BY <2>1, <2>2, AnswerKept DEF Early
<1>6. ASSUME NEW n \in Servers, Retry(n) \/ BackoffOver(n) PROVE AnswerInv'
  <2>1. /\ pc = n /\ pc' \in {n, "waitCompile"} /\ UNCHANGED <<answer, job, stream, out>>
    BY <1>6 DEF Retry, BackoffOver, RunLocal, local, remote
  <2>2. n \in Early /\ n # "remote" /\ job.mode \notin Answered
    BY <1>0, <2>1 DEF NothingAsked, Early, Answered, Servers
  <2> QED BY <2>1, <2>2, AnswerKept DEF Early
<1> QED BY <1>1, <1>2, <1>3, <1>4, <1>5, <1>6 DEF Main

LEMMA OthersKeepAnswer ==
    ASSUME JobInv,
           \/ WatchdogFires \/ DaemonDies \/ ThreadDone \/ UploadSent \/ UploadReceived
           \/ \E status \in {"ok", "failed"} : PreprocessorExits(status)
           \/ \E what \in Replies : SchedulerAnswers(what)
    PROVE  AnswerInv'
<1>0. NothingAsked /\ ControlTypes /\ DataTypes
  BY TypesAre DEF JobInv, MainInv, AnswerInv
<1>1. /\ UNCHANGED <<stream, out, answer, input>>
      /\ pc' = pc \/ (pc = "scheduler" /\ pc' = "refused")
      /\ daemonUp' => daemonUp
      /\ ws' = ws \/ ws' = [ws EXCEPT !["scheduler"] = "failed"]
      /\ job' = job \/ (job.got # "nothing" /\ \E got : job' = [job EXCEPT !.got = got])
  BY DEF WatchdogFires, DaemonDies, ThreadDone, UploadSent, UploadReceived, PreprocessorExits, SchedulerAnswers,
         OnlyBuilder, local, net, remote
<1>2. job'.mode = job.mode /\ job'.index = job.index /\ job'.toSend = job.toSend
  BY <1>0, <1>1 DEF DataTypes, JobStates
<1>3. ws'["builder"] = ws["builder"]
  BY <1>0, <1>1 DEF ControlTypes, Servers
<1> QED BY <1>0, <1>1, <1>2, <1>3, AnswerKept DEF NothingAsked, Early

LEMMA NetKeepsAnswer ==
    ASSUME JobInv, NEW n \in Servers,
           \/ CannotConnect(n) \/ Handshake(n) \/ Broken(n)
           \/ \E how \in {"hung", "gone"} : PeerFails(n, how)
    PROVE  AnswerInv'
<1>0. NothingAsked /\ StreamOrder /\ FilesWritten /\ ResultIsRight /\ DataTypes /\ ControlTypes
  BY TypesAre DEF JobInv, MainInv, AnswerInv
<1>1. CASE CannotConnect(n) \/ (\E how \in {"hung", "gone"} : PeerFails(n, how)) \/ (Broken(n) /\ n = "scheduler")
  <2>1. /\ UNCHANGED <<stream, out, answer, input, job, daemonUp>>
        /\ pc' = pc \/ (pc = n /\ pc' = "waitCompile")
        /\ ws' = ws \/ ws' = [ws EXCEPT !["scheduler"] = "failed"]
    BY <1>1 DEF CannotConnect, PeerFails, Broken, RunLocal, local, net, remote
  <2>2. ws'["builder"] = ws["builder"]
    BY <1>0, <2>1 DEF ControlTypes, Servers
  <2> QED BY <2>1, <2>2, AnswerKept DEF Early, Servers
<1>2. CASE Handshake(n)
  <2>1. /\ UNCHANGED <<stream, out, input, job, daemonUp>>
        /\ pc = n /\ pc' \in {pc, "aborted"}
        /\ answer' = answer \/ \E wait \in BOOLEAN : answer' = [answer EXCEPT !.wait = wait]
    BY <1>2 DEF Handshake, Transition, local
  <2>2. answer'.files = answer.files /\ answer'.done = answer.done /\ answer'.error = answer.error
    BY <1>0, <2>1 DEF DataTypes, Answers
  <2>3. n \in Early /\ n # "remote" /\ job.mode \notin Answered
    BY <1>0, <2>1 DEF NothingAsked, Early, Answered, Servers
  <2> QED BY <2>1, <2>2, <2>3, AnswerKept DEF Early
<1>3. CASE Broken(n) /\ n = "builder"
  <2>1. /\ UNCHANGED <<pc, daemonUp, input, answer, job, out>>
        /\ ws' = [ws EXCEPT !["builder"] = "failed"] /\ stream' = <<>>
    BY <1>3 DEF Broken, local
  <2>2. ws'["builder"] = "failed"
    BY <1>0, <2>1 DEF ControlTypes, Servers
  <2>3. NothingAsked' /\ FilesWritten' /\ ResultIsRight' /\ FilesAwaited'
    BY <1>0, <2>1, <2>2 DEF NothingAsked, FilesWritten, ResultIsRight, FilesAwaited, Raced
  <2>4. StreamOrder'
    BY <1>0, <2>1 DEF StreamOrder, Is
  <2> QED BY <2>3, <2>4 DEF AnswerInv
<1> QED BY <1>1, <1>2, <1>3 DEF Servers

\* A message is added to the stream, or the first one taken from it.
LEMMA Said ==
    ASSUME stream \in Seq(Messages), NEW m \in Messages, stream' = Append(stream, m)
    PROVE  LET new == Len(stream) + 1
           IN /\ DOMAIN stream' = DOMAIN stream \cup {new} /\ new \in Nat \ DOMAIN stream
              /\ \A k \in DOMAIN stream : k \in Nat /\ k < new /\ stream'[k] = stream[k]
              /\ stream'[new] = m
  BY AppendProperties

LEMMA Taken ==
    ASSUME stream \in Seq(Messages), stream # <<>>, stream' = Tail(stream)
    PROVE  /\ 1 \in DOMAIN stream /\ stream[1] = Head(stream) /\ Head(stream) \in Messages
           /\ \A k \in DOMAIN stream' : k \in Nat \ {0} /\ k + 1 \in DOMAIN stream /\ stream'[k] = stream[k + 1]
           /\ \A k \in DOMAIN stream : k = 1 \/ (k - 1 \in DOMAIN stream' /\ stream'[k - 1] = stream[k])
           /\ \A k \in DOMAIN stream : k \in Nat \ {0}
<1>1. /\ Len(stream) \in Nat \ {0} /\ DOMAIN stream = 1..Len(stream)
      /\ Tail(stream) \in Seq(Messages) /\ Len(Tail(stream)) = Len(stream) - 1
      /\ \A i \in 1..Len(Tail(stream)) : Tail(stream)[i] = stream[i + 1]
      /\ Head(stream) \in Messages /\ stream[1] = Head(stream)
  BY EmptySeq, HeadTailProperties, LenProperties
<1>2. DOMAIN stream' = 1..(Len(stream) - 1)
  BY <1>1
<1> QED BY <1>1, <1>2

\* Before there is an answer.
LEMMA NotAnswered ==
    ASSUME JobInv, job.mode \notin Answered, job'.mode \notin Answered,
           job.got # "nothing", job'.index = job.index, job'.toSend = job.toSend,
           UNCHANGED <<pc, answer, out>>,
           stream' = stream \/ \E m \in Messages : m.type \in {"resume", "failed"} /\ stream' = Append(stream, m)
    PROVE  AnswerInv'
<1>0. NothingAsked /\ StreamOrder /\ FilesWritten /\ ResultIsRight /\ DataTypes
  BY TypesAre DEF JobInv, MainInv, AnswerInv
<1>1. pc \notin Early /\ out.answers = 0
  BY <1>0 DEF NothingAsked, StreamOrder
<1>2. NothingAsked' /\ FilesAwaited' /\ FilesWritten' /\ ResultIsRight'
  BY <1>0, <1>1 DEF NothingAsked, FilesAwaited, FilesWritten, ResultIsRight
<1>3. \A k \in DOMAIN stream' : stream'[k].type \in {"resume", "failed"}
  <2>1. \A k \in DOMAIN stream : stream[k].type \in {"resume", "failed"}
    BY <1>0 DEF StreamOrder, Is
  <2> QED BY <1>0, <2>1, Said DEF DataTypes
<1>4. StreamOrder'
  BY <1>0, <1>1, <1>3 DEF StreamOrder, Is
<1> QED BY <1>2, <1>4 DEF AnswerInv

\* The response is sent.
LEMMA Responding ==
    ASSUME JobInv, job.mode \notin Answered, job.got # "nothing", NEW mode \in Answered, NEW index \in Seq(Nat),
           NEW toSend, NonEmpty(index) \subseteq toSend, toSend \subseteq DOMAIN index,
           Respond(mode, index, toSend)
    PROVE  AnswerInv'
<1>0. NothingAsked /\ StreamOrder /\ FilesWritten /\ ResultIsRight /\ DataTypes
  BY TypesAre DEF JobInv, MainInv, AnswerInv
<1>1. pc \notin Early /\ out.answers = 0
  BY <1>0 DEF NothingAsked, StreamOrder
<1>2. /\ job'.mode = mode /\ job'.index = index /\ job'.toSend = toSend
      /\ UNCHANGED <<pc, answer, out>>
  BY <1>0 DEF Respond, OnlyBuilder, DataTypes, JobStates
<1>3. NothingAsked' /\ FilesWritten' /\ ResultIsRight'
  BY <1>0, <1>1, <1>2 DEF NothingAsked, FilesWritten, ResultIsRight
<1> DEFINE new == Len(stream) + 1
<1>4. /\ DOMAIN stream' = DOMAIN stream \cup {new} /\ stream'[new].type = "response"
      /\ \A k \in DOMAIN stream : k \in Nat /\ k < new /\ stream'[k].type \in {"resume", "failed"}
  <2>1. [type |-> "response"] \in Messages /\ stream' = Append(stream, [type |-> "response"])
    BY DEF Respond, Say, Messages
  <2>2. \A k \in DOMAIN stream : stream[k].type \in {"resume", "failed"}
    BY <1>0 DEF StreamOrder, Is
  <2> QED BY <1>0, <2>1, <2>2, Said DEF DataTypes
<1> HIDE DEF new
<1>5. StreamOrder'
  BY <1>1, <1>2, <1>4 DEF StreamOrder, Is
<1>6. FilesAwaited'
  <2>1. Coming' = NonEmpty(index)
    BY <1>2 DEF Coming, Sent
  <2> QED BY <1>1, <1>2, <1>4, <2>1 DEF FilesAwaited, Is
<1> QED BY <1>3, <1>5, <1>6 DEF AnswerInv

LEMMA Sending == JobInv /\ FileSent => AnswerInv'
<1> SUFFICES ASSUME JobInv, FileSent PROVE AnswerInv'
  OBVIOUS
<1>0. NothingAsked /\ StreamOrder /\ FilesAwaited /\ FilesWritten /\ ResultIsRight /\ DataTypes /\ ws["builder"] = "open"
  BY TypesAre DEF JobInv, MainInv, AnswerInv, FileSent, BuilderServes
<1>1. PICK i \in job.toSend : /\ Least(i, job.toSend)
                             /\ job' = [job EXCEPT !.toSend = @ \ {i}]
                             /\ Say([type |-> "file", is |-> i])
                             /\ OnlyBuilder
  BY DEF FileSent
<1>2. /\ job'.mode = job.mode /\ job'.index = job.index /\ job'.got = job.got /\ job'.toSend = job.toSend \ {i}
      /\ UNCHANGED <<daemonUp, pc, ws, input, answer, out>>
      /\ i \in Nat /\ \A j \in job.toSend : j \in Nat /\ i <= j
  BY <1>0, <1>1 DEF OnlyBuilder, Least, local, net, DataTypes, JobStates
<1>3. job.mode \in Answered /\ i \in DOMAIN job.index
  BY <1>0, <1>1 DEF StreamOrder
<1>4. NothingAsked' /\ FilesWritten' /\ ResultIsRight'
  <2>1. pc \notin Early
    BY <1>0, <1>3 DEF NothingAsked, Answered
  <2> QED BY <1>0, <1>2, <2>1 DEF NothingAsked, FilesWritten, ResultIsRight, Raced
<1> DEFINE new == Len(stream) + 1
<1>5. /\ DOMAIN stream' = DOMAIN stream \cup {new} /\ new \in Nat \ DOMAIN stream
      /\ stream'[new].type = "file" /\ stream'[new].is = i
      /\ \A k \in DOMAIN stream : k \in Nat /\ k < new /\ stream'[k] = stream[k]
  <2>1. [type |-> "file", is |-> i] \in Messages /\ stream' = Append(stream, [type |-> "file", is |-> i])
    BY <1>1, <1>2 DEF Say, Messages
  <2> QED BY <1>0, <2>1, Said DEF DataTypes
<1> HIDE DEF new
<1>6. out.answers = 1 \/ \E k \in DOMAIN stream : Is(k, "response")
  BY <1>0, <1>3 DEF FilesAwaited, DataTypes, Outs
<1>7. StreamOrder'
  <2>1. \A k \in DOMAIN stream' :
          /\ Is(k, "response")' => out.answers = 0
          /\ Is(k, "file")' =>
                /\ stream'[k].is \in DOMAIN job.index
                /\ \A j \in job'.toSend : stream'[k].is < j
                /\ out.answers = 1 \/ \E l \in DOMAIN stream' : l < k /\ Is(l, "response")'
    <3>1. CASE out.answers = 1
      BY <1>0, <1>2, <1>3, <1>5, <3>1 DEF StreamOrder, Is
    <3>2. CASE out.answers # 1
      BY <1>0, <1>2, <1>3, <1>5, <1>6, <3>2 DEF StreamOrder, Is, DataTypes, Outs
    <3> QED BY <3>1, <3>2
  <2>2. \A k, l \in DOMAIN stream' :
          /\ Is(k, "response")' /\ Is(l, "response")' => k = l
          /\ k < l /\ Is(k, "file")' /\ Is(l, "file")' => stream'[k].is < stream'[l].is
    BY <1>0, <1>1, <1>2, <1>5 DEF StreamOrder, Is
  <2> QED BY <1>0, <1>2, <1>3, <2>1, <2>2 DEF StreamOrder
<1>8. FilesAwaited'
  <2>1. Coming' = Coming
    BY <1>1, <1>2, <1>5 DEF Coming, Sent, Is
  <2> QED BY <1>0, <1>2, <1>5, <2>1 DEF FilesAwaited, Is
<1> QED BY <1>4, <1>7, <1>8 DEF AnswerInv

LEMMA BuilderKeepsAnswer == JobInv /\ Builder => AnswerInv'
<1> SUFFICES ASSUME JobInv, Builder PROVE AnswerInv'
  OBVIOUS
<1>0. DataTypes
  BY TypesAre DEF JobInv, MainInv
<1>1. CASE UploadReceived
  BY <1>1, OthersKeepAnswer
<1>2. CASE UploadRejected \/ JobStarted \/ CompileFailed
  <2>1. /\ job.got # "nothing" /\ job.mode \in {"none", "compiling"}
        /\ UNCHANGED <<pc, answer, out>>
    <3>1. CASE CompileFailed
      <4>1. job.got # "nothing"
        BY <3>1 DEF CompileFailed, JobInv, MainInv, InputRight
      <4> QED BY <3>1, <4>1 DEF CompileFailed, OnlyBuilder
    <3>2. CASE UploadRejected \/ JobStarted
      BY <3>2 DEF UploadRejected, JobStarted, OnlyBuilder
    <3> QED BY <1>2, <3>1, <3>2
  <2>2. /\ job'.mode \in {"compiling", "failed"} /\ job'.index = job.index /\ job'.toSend = job.toSend
    BY <1>0, <1>2 DEF UploadRejected, JobStarted, CompileFailed, DataTypes, JobStates
  <2>3. stream' = stream \/ \E m \in Messages : m.type \in {"resume", "failed"} /\ stream' = Append(stream, m)
    <3>1. [type |-> "resume"] \in Messages /\ [type |-> "failed"] \in Messages
      BY DEF Messages
    <3> QED BY <1>2, <3>1 DEF UploadRejected, JobStarted, CompileFailed, Say
  <2> QED BY <2>1, <2>2, <2>3, NotAnswered DEF Answered
<1>3. CASE FileSent
  BY <1>3, Sending
<1>4. ASSUME NEW index \in Indexes, AnswerFromCache(index) PROVE AnswerInv'
  BY <1>4, ClientJobAssumption, Indices, Responding DEF AnswerFromCache, Answered
<1>5. ASSUME NEW index \in Indexes, AnswerOfCompile(index) PROVE AnswerInv'
  BY <1>5, ClientJobAssumption, Indices, Responding DEF AnswerOfCompile, Answered
<1> QED BY <1>1, <1>2, <1>3, <1>4, <1>5 DEF Builder

\* The stream without its first message is in order too, and only a file is missed.
LEMMA Taking ==
    ASSUME JobInv, NEW type, HandleMessage(type)
    PROVE  /\ 1 \in DOMAIN stream /\ Head(stream) = stream[1] /\ Is(1, type) /\ pc \notin Early \cup {"remote"}
           /\ UNCHANGED <<pc, job, input, daemonUp, ws>> /\ ws["builder"] = "open"
           /\ \A k \in DOMAIN stream' : k \in Nat \ {0} /\ k + 1 \in DOMAIN stream /\ stream'[k] = stream[k + 1]
           /\ \A k \in DOMAIN stream : k = 1 \/ (k - 1 \in DOMAIN stream' /\ stream'[k - 1] = stream[k])
           /\ \A k \in DOMAIN stream : k \in Nat \ {0}
           /\ stream[1] \in Messages
<1>1. stream \in Seq(Messages)
  BY TypesAre DEF JobInv, MainInv, DataTypes
<1>2. /\ pc \in {"held", "uploading", "response", "waitCompile"} /\ ws["builder"] = "open"
      /\ stream # <<>> /\ Head(stream).type = type /\ stream' = Tail(stream)
      /\ UNCHANGED <<pc, job, input, daemonUp, ws>>
  BY DEF HandleMessage, local, net
<1> QED BY <1>1, <1>2, Taken DEF Is, Early

LEMMA OrderOfRest ==
    ASSUME JobInv, NEW type \in {"resume", "failed", "response", "file"}, HandleMessage(type),
           out'.answers = IF type = "response" THEN 1 ELSE out.answers
    PROVE  StreamOrder'
<1>0. StreamOrder /\ out.answers \in {0, 1}
  BY TypesAre DEF JobInv, MainInv, AnswerInv, DataTypes, Outs
<1>1. /\ Is(1, type) /\ 1 \in DOMAIN stream /\ UNCHANGED job
      /\ \A k \in DOMAIN stream' : k \in Nat \ {0} /\ k + 1 \in DOMAIN stream /\ stream'[k] = stream[k + 1]
      /\ \A k \in DOMAIN stream : k = 1 \/ (k - 1 \in DOMAIN stream' /\ stream'[k - 1] = stream[k])
      /\ \A k \in DOMAIN stream : k \in Nat \ {0}
  BY Taking
<1>2. job.mode \notin Answered => type # "response"
  BY <1>0, <1>1 DEF StreamOrder, Is
<1>3. \A k \in DOMAIN stream' :
        /\ Is(k, "response")' => out'.answers = 0
        /\ Is(k, "file")' =>
              /\ stream'[k].is \in DOMAIN job.index
              /\ \A i \in job.toSend : stream'[k].is < i
              /\ out'.answers = 1 \/ \E l \in DOMAIN stream' : l < k /\ Is(l, "response")'
  <2> TAKE k \in DOMAIN stream'
  <2>1. k + 1 \in DOMAIN stream /\ stream'[k] = stream[k + 1] /\ k + 1 # 1
    BY <1>1
  <2>2. Is(k, "response")' => out'.answers = 0
    BY <1>0, <1>1, <2>1 DEF StreamOrder, Is
  <2>3. ASSUME Is(k, "file")'
        PROVE  /\ stream'[k].is \in DOMAIN job.index
               /\ \A i \in job.toSend : stream'[k].is < i
    BY <1>0, <2>1, <2>3 DEF StreamOrder, Is
  <2>4. ASSUME Is(k, "file")', out'.answers # 1
        PROVE  \E l \in DOMAIN stream' : l < k /\ Is(l, "response")'
    <3>1. type # "response" /\ out.answers # 1
      BY <2>4
    <3>2. PICK l \in DOMAIN stream : l < k + 1 /\ Is(l, "response")
      BY <1>0, <2>1, <2>4, <3>1 DEF StreamOrder, Is
    <3>3. l # 1
      BY <1>1, <3>1, <3>2 DEF Is
    <3>4. l - 1 \in DOMAIN stream' /\ stream'[l - 1] = stream[l] /\ l - 1 < k
      BY <1>1, <3>2, <3>3
    <3> QED BY <3>2, <3>4 DEF Is
  <2> QED BY <2>2, <2>3, <2>4
<1>4. \A k, l \in DOMAIN stream' :
        /\ Is(k, "response")' /\ Is(l, "response")' => k = l
        /\ k < l /\ Is(k, "file")' /\ Is(l, "file")' => stream'[k].is < stream'[l].is
  <2> TAKE k, l \in DOMAIN stream'
  <2>1. /\ k \in Nat /\ l \in Nat /\ k + 1 \in DOMAIN stream /\ l + 1 \in DOMAIN stream
        /\ stream'[k] = stream[k + 1] /\ stream'[l] = stream[l + 1]
    BY <1>1
  <2>2. k < l => k + 1 < l + 1
    BY <2>1
  <2> QED BY <1>0, <2>1, <2>2 DEF StreamOrder, Is
<1>5. job.mode \notin Answered =>
          out'.answers = 0 /\ \A k \in DOMAIN stream' : stream'[k].type \in {"resume", "failed"}
  BY <1>0, <1>1, <1>2 DEF StreamOrder, Is
<1> QED BY <1>0, <1>1, <1>3, <1>4, <1>5 DEF StreamOrder, Is

LEMMA ComingOfRest ==
    ASSUME JobInv, NEW type, HandleMessage(type), type # "file"
    PROVE  Coming' = Coming
<1>1. \A i : Sent(i)' <=> Sent(i)
  BY Taking DEF Sent, Is
<1>2. UNCHANGED job
  BY Taking
<1> QED BY <1>1, <1>2 DEF Coming

LEMMA HandlersKeepAnswer == JobInv /\ Handlers => AnswerInv'
<1> SUFFICES ASSUME JobInv, Handlers PROVE AnswerInv'
  OBVIOUS
<1>0. StreamOrder /\ FilesAwaited /\ FilesWritten /\ DataTypes
  BY TypesAre DEF JobInv, MainInv, AnswerInv
<1>1. CASE OnResume \/ OnFailed
  <2>1. PICK type \in {"resume", "failed"} : HandleMessage(type)
    BY <1>1 DEF OnResume, OnFailed
  <2>2. /\ UNCHANGED <<pc, job, ws, out>> /\ pc \notin Early \cup {"remote"} /\ Is(1, type)
    BY <1>1, <2>1, Taking DEF OnResume, OnFailed
  <2>3. /\ answer'.files = answer.files /\ (answer.error => answer'.error)
        /\ (answer'.done /\ ~answer'.error => answer.done)
    BY <1>0, <1>1 DEF OnResume, OnFailed, DataTypes, Answers
  <2>4. StreamOrder'
    BY <2>1, <2>2, OrderOfRest
  <2>5. Coming' = Coming
    BY <2>1, ComingOfRest
  <2>6. FilesAwaited'
    <3>1. (\E k \in DOMAIN stream : Is(k, "response")) => \E k \in DOMAIN stream' : Is(k, "response")'
      BY <2>1, Taking DEF Is
    <3> QED BY <1>0, <2>2, <2>3, <2>5, <3>1 DEF FilesAwaited, NonEmpty
  <2>7. FilesWritten'
    BY <1>0, <2>2, <2>3 DEF FilesWritten
  <2> QED BY <2>2, <2>4, <2>6, <2>7 DEF AnswerInv, NothingAsked, ResultIsRight
<1>2. CASE OnResponse
  <2>1. /\ HandleMessage("response") /\ 1 \in DOMAIN stream /\ Is(1, "response")
        /\ UNCHANGED <<pc, job, ws>> /\ pc \notin Early \cup {"remote"} /\ ws["builder"] = "open"
    BY <1>2, Taking DEF OnResponse
  <2>2. out.answers = 0 /\ job.mode \in Answered
    BY <1>0, <2>1 DEF StreamOrder, Is
  <2> DEFINE files == NonEmpty(job.index)
  <2>3. PICK opened \in SUBSET (DOMAIN job.index \ files) :
          /\ answer' = [answer EXCEPT !.files = files, !.done = files = {},
                                      !.error = @ \/ opened # DOMAIN job.index \ files]
          /\ out' = [answers |-> out.answers + 1, cpp |-> out.cpp + 1,
                     written |-> [i \in DOMAIN job.index |-> IF i \in opened THEN i ELSE 0]]
    BY <1>2 DEF OnResponse
  <2>4. /\ answer'.files = files /\ (answer'.done <=> files = {})
        /\ (~answer'.error => opened = DOMAIN job.index \ files)
    BY <1>0, <2>3 DEF DataTypes, Answers
  <2>5. /\ out'.answers = 1 /\ out'.cpp = out.cpp + 1
        /\ out'.written = [i \in DOMAIN job.index |-> IF i \in opened THEN i ELSE 0]
    BY <2>2, <2>3
  <2>6. StreamOrder'
    BY <2>1, <2>5, OrderOfRest
  <2>7. FilesAwaited'
    <3>1. Coming' = Coming
      BY <2>1, ComingOfRest
    <3>2. Coming = NonEmpty(job.index)
      BY <1>0, <2>1, <2>2 DEF FilesAwaited
    <3> QED BY <2>4, <2>5, <3>1, <3>2 DEF FilesAwaited
  <2>8. FilesWritten'
    <3>1. files \subseteq DOMAIN job.index
      BY DEF NonEmpty
    <3>2. ~answer'.error => \A i \in DOMAIN job.index \ files : out'.written[i] = i
      BY <2>4, <2>5
    <3>3. out'.cpp = 1
      BY <1>0, <2>1, <2>2, <2>5 DEF FilesWritten
    <3> HIDE DEF files
    <3> QED BY <2>1, <2>4, <2>5, <3>1, <3>2, <3>3 DEF FilesWritten
  <2> QED BY <2>1, <2>6, <2>7, <2>8 DEF AnswerInv, NothingAsked, ResultIsRight
<1>3. CASE OnFile
  <2>1. /\ HandleMessage("file") /\ 1 \in DOMAIN stream /\ Is(1, "file") /\ Head(stream) = stream[1]
        /\ UNCHANGED <<pc, job, ws>> /\ pc \notin Early \cup {"remote"} /\ ws["builder"] = "open"
    BY <1>3, Taking DEF OnFile
  <2> DEFINE i == stream[1].is
  <2>2. /\ out.answers = 1 /\ job.mode \in Answered /\ i \in DOMAIN job.index
        /\ \A j \in job.toSend : i < j
    <3>1. ~\E l \in DOMAIN stream : l < 1
      BY <2>1, Taking
    <3> QED BY <1>0, <2>1, <3>1 DEF StreamOrder, Is
  <2>3. CASE answer' = [answer EXCEPT !.error = TRUE, !.done = TRUE] /\ out' = out
    <3>1. answer'.error /\ answer'.files = answer.files
      BY <1>0, <2>3 DEF DataTypes, Answers
    <3>2. StreamOrder'
      BY <2>1, <2>3, OrderOfRest
    <3>3. FilesAwaited' /\ FilesWritten'
      BY <1>0, <2>1, <2>2, <2>3, <3>1 DEF FilesAwaited, FilesWritten
    <3> QED BY <2>1, <3>2, <3>3 DEF AnswerInv, NothingAsked, ResultIsRight
  <2>4. ASSUME NEW next \in answer.files, Least(next, answer.files), ~FileRejected(job.index[i]),
               answer' = [answer EXCEPT !.files = @ \ {next}, !.done = answer.files = {next}],
               out' = [out EXCEPT !.written[next] = i]
        PROVE  AnswerInv'
    <3>1. /\ answer'.files = answer.files \ {next} /\ (answer'.done <=> answer.files = {next})
          /\ answer'.error = answer.error
      BY <1>0, <2>4 DEF DataTypes, Answers
    <3>2. /\ DOMAIN out.written = DOMAIN job.index /\ next \in DOMAIN job.index
          /\ answer.files \subseteq DOMAIN job.index
      BY <1>0, <2>2, <2>4 DEF FilesWritten
    <3>3. /\ out'.answers = out.answers /\ out'.cpp = out.cpp
          /\ out'.written = [out.written EXCEPT ![next] = i]
      BY <1>0, <2>4 DEF DataTypes, Outs
    <3>4. StreamOrder'
      BY <2>1, <3>3, OrderOfRest
    <3>5. DOMAIN out'.written = DOMAIN job.index
      BY <3>2, <3>3
    <3>6. ASSUME ~answer.error
          PROVE  /\ next = i /\ Coming' = Coming \ {next}
                 /\ \A j \in DOMAIN job.index \ answer'.files : out'.written[j] = j
      <4>1. answer.files = Coming
        BY <1>0, <2>1, <2>2, <3>6 DEF FilesAwaited
      <4>2. \A j \in answer.files : j \in Nat
        BY <1>0 DEF DataTypes, Answers
      <4>3. job.index[next] = job.index[i]
        BY <2>4, <4>2 DEF FileRejected, Least
      <4>4. i \in answer.files
        BY <2>1, <2>2, <2>4, <4>1, <4>3 DEF Coming, Sent, NonEmpty
      <4>5. next <= i
        BY <2>4, <4>4 DEF Least
      <4>6. next \in job.toSend \/ \E k \in DOMAIN stream : Is(k, "file") /\ stream[k].is = next
        BY <2>4, <4>1 DEF Coming, Sent
      <4>7. \A k \in DOMAIN stream : k # 1 /\ Is(k, "file") => i < stream[k].is
        <5>1. \A k \in DOMAIN stream : k # 1 => 1 < k
          BY <2>1, Taking
        <5> QED BY <1>0, <2>1, <5>1 DEF StreamOrder
      <4>8. next = i
        BY <2>2, <4>2, <4>4, <4>5, <4>6, <4>7
      <4>9. \A j : Sent(j)' <=> Sent(j) /\ j # i
        <5>1. \A j \in job.toSend : j # i
          BY <2>2, <4>2, <4>4
        <5>2. \A k \in DOMAIN stream : k # 1 /\ Is(k, "file") => stream[k].is # i
          BY <4>2, <4>4, <4>7
        <5>3. ASSUME NEW j, Sent(j)' PROVE Sent(j) /\ j # i
          BY <2>1, <5>1, <5>2, <5>3, Taking DEF Sent, Is
        <5>4. ASSUME NEW j, Sent(j), j # i PROVE Sent(j)'
          BY <2>1, <5>4, Taking DEF Sent, Is
        <5> QED BY <5>3, <5>4
      <4>10. Coming' = Coming \ {next}
        BY <2>1, <4>8, <4>9 DEF Coming
      <4>11. \A j \in DOMAIN job.index \ answer.files : out.written[j] = j
        BY <1>0, <2>2, <3>6 DEF FilesWritten
      <4>12. \A j \in DOMAIN job.index \ answer'.files : out'.written[j] = j
        <5> HIDE DEF i
        <5> QED BY <3>1, <3>2, <3>3, <4>8, <4>11
      <4> QED BY <4>8, <4>10, <4>12
    <3>7. FilesAwaited'
      <4>1. ~answer.error => answer.files = Coming
        BY <1>0, <2>1, <2>2 DEF FilesAwaited
      <4> QED BY <2>2, <3>1, <3>3, <3>6, <4>1 DEF FilesAwaited
    <3>8. FilesWritten'
      <4>1. answer'.files \subseteq DOMAIN job.index /\ (answer'.done => answer'.files = {})
        BY <3>1, <3>2
      <4>2. out.cpp = out.answers
        BY <1>0, <2>1 DEF FilesWritten
      <4> QED BY <2>1, <2>2, <3>1, <3>3, <3>5, <3>6, <4>1, <4>2 DEF FilesWritten
    <3> QED BY <2>1, <3>4, <3>7, <3>8 DEF AnswerInv, NothingAsked, ResultIsRight
  <2> QED BY <1>3, <2>1, <2>3, <2>4 DEF OnFile
<1> QED BY <1>1, <1>2, <1>3 DEF Handlers

----------------------------------------------------------------------------
(* The invariant *)

LEMMA JobSteps == JobInv /\ [Next]_vars => JobInv'
<1>1. ASSUME JobInv, Next PROVE JobInv'
  <2>1. MainInv'
    BY <1>1, MainSteps
  <2>2. AnswerInv'
    BY <1>1, MainKeepsAnswer, OthersKeepAnswer, NetKeepsAnswer, BuilderKeepsAnswer, HandlersKeepAnswer DEF Next
  <2> QED BY <2>1, <2>2 DEF JobInv
<1>2. ASSUME JobInv, UNCHANGED vars PROVE JobInv'
  <2>1. UNCHANGED <<objectCache, daemonUp, pc, wdog, stage, thread, ws, peer, attempt, reply, input, answer, job, stream, out>>
    BY <1>2 DEF vars, local, net, remote
  <2>2. TypeOK'
    BY <1>2, <2>1 DEF JobInv, MainInv, TypeOK
  <2>3. MainRest'
    BY <1>2, <2>1 DEF JobInv, MainInv, MainRest, StageOfWait, WatchdogOfWait, AttemptsLeft, Aborted, InputRight, Base
  <2>4. AnswerInv'
    BY <1>2, <2>1, AnswerKept
  <2> QED BY <2>2, <2>3, <2>4 DEF JobInv, MainInv, MainRest
<1> QED BY <1>1, <1>2

LEMMA JobStarts == Init => JobInv
<1> SUFFICES ASSUME Init PROVE JobInv
  OBVIOUS
<1>1. ControlTypes
  BY ClientJobAssumption DEF Init, ControlTypes, Waits, Servers
<1>2. DataTypes
  <2>1. <<>> \in Seq(Nat) /\ <<>> \in Seq(Messages)
    BY EmptySeq
  <2> QED BY <2>1 DEF Init, DataTypes, Threads, Inputs, Answers, JobStates, Outs
<1>3. MainRest
  BY DEF Init, MainRest, StageOfWait, WatchdogOfWait, AttemptsLeft, Aborted, InputRight, Base, Late, Early, Servers
<1>4. AnswerInv
  BY DEF Init, AnswerInv, NothingAsked, StreamOrder, FilesAwaited, FilesWritten, ResultIsRight, Answered
<1> QED BY <1>1, <1>2, <1>3, <1>4, TypesAre DEF JobInv, MainInv, MainRest

LEMMA JobInvariant == Spec => []JobInv
  BY JobStarts, JobSteps, PTL DEF Spec

(* For any number of attempts and any output files: no assertion of fiskc fails, but for
   the two cases named. *)
THEOREM FiskcAssertionsHold == Spec => []AssertionsHold
<1>1. JobInv => AssertionsHold
  BY DEF JobInv, MainInv, Aborted, AssertionsHold
<1> QED BY <1>1, JobInvariant, PTL

(* For any number of attempts and any output files: every wait of fiskc is watched, but
   for those that an error it met made it stop watching. *)
THEOREM WaitsAreWatched == Spec => []Watched
<1>1. JobInv => Watched
  BY DEF JobInv, MainInv, WatchdogOfWait, Watched
<1> QED BY <1>1, JobInvariant, PTL

(* For any number of attempts and any output files, of any sizes: fiskc only exits with
   the builder's result if every file has its own contents and the builder worked on the
   whole preprocessed output. *)
THEOREM OnlyRightResults == Spec => []ResultIsRight
<1>1. JobInv => ResultIsRight
  BY DEF JobInv, AnswerInv
<1> QED BY <1>1, JobInvariant, PTL
====
