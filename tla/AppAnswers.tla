----------------------------- MODULE AppAnswers -----------------------------
(***************************************************************************)
(* For every value of the constants: each caller that an operation of the  *)
(* app process keeps waiting is answered once, and a halt that is answered *)
(* with a success left no container running.                               *)
(*                                                                         *)
(* The argument: no operator of the policy changes whose operation it is   *)
(* (Frame), a handler either leaves the operation open without an answer   *)
(* or ends it with one (Balanced), and the effects turn an ended one into  *)
(* no operation at all (LeaveAnswers).                                     *)
(***************************************************************************)
EXTENDS AppProperties, AppTypes

(* What no operator of a handler changes but the one that takes a backup's *)
(* options, and that none brings a deleted file back.                      *)
Constant(s, t) ==
    /\ s.gone => t.gone
    /\ t.run.from = s.run.from /\ t.run.op = s.run.op /\ t.run.old = s.run.old
    /\ t.st = s.st /\ t.opt = s.opt /\ t.touched = s.touched
    /\ t.refused = s.refused /\ t.retired = s.retired /\ t.probing = s.probing

(* An operator that neither ends nor changes the operation in flight. *)
Frame(s, t) == Constant(s, t) /\ t.fate = s.fate /\ t.reply = s.reply

Balanced(s) == (s.fate = "stay") <=> (s.reply = "none")

(* An operator that takes a handler on, or to its end. *)
Carries(s, t) == Constant(s, t) /\ Balanced(t)

OptionsTaken(s) == [s EXCEPT !.opt = "backup", !.touched = TRUE, !.save = TRUE]

LEMMA FrameChain ==
  ASSUME NEW s, NEW t, NEW u, Frame(s, t)
  PROVE  /\ Frame(t, u) => Frame(s, u)
         /\ Carries(t, u) => Carries(s, u)
         /\ Balanced(s) => Balanced(t) /\ Carries(s, t)
BY DEF Constant, Frame, Carries, Balanced

LEMMA CarriesChain ==
  ASSUME NEW s, NEW t, NEW u, Carries(s, t), Carries(t, u) PROVE Carries(s, u)
BY DEF Constant, Carries

-----------------------------------------------------------------------------
(* Operators that frame the operation. *)

LEMMA PutStepsFrame ==
  ASSUME NEW s \in Procs, NEW steps PROVE Frame(s, PutSteps(s, steps))
BY DEF PutSteps, Procs, Runs, Constant, Frame

LEMMA PutRunFrame ==
  ASSUME NEW s \in Procs, NEW v
  PROVE  /\ Frame(s, [s EXCEPT !.run.cause = v])
         /\ Frame(s, [s EXCEPT !.run.cleaned = v])
         /\ Frame(s, [s EXCEPT !.run.result = v])
         /\ Frame(s, [s EXCEPT !.run.image = v])
         /\ Frame(s, [s EXCEPT !.run.was = v])
BY DEF Procs, Runs, Constant, Frame

LEMMA RetryFrame ==
  ASSUME NEW s \in Procs PROVE Frame(s, Retry(s))
BY DEF Retry, Procs, Constant, Frame

LEMMA ImageRetryFrame ==
  ASSUME NEW s \in Procs, NEW reason PROVE Frame(s, ImageRetry(s, reason))
BY DEF ImageRetry, Procs, Constant, Frame

LEMMA ReleaseFrame ==
  ASSUME NEW s \in Procs PROVE Frame(s, Release(s))
BY DEF Release, Procs, Constant, Frame

LEMMA DropRunKeysFrame ==
  ASSUME NEW s \in Procs PROVE Frame(s, DropRunKeys(s))
BY DEF DropRunKeys, Procs, Constant, Frame

LEMMA CancelTimersFrame ==
  ASSUME NEW s \in Procs PROVE Frame(s, CancelTimers(s))
BY DEF CancelTimers, Procs, Constant, Frame

LEMMA ReconfigureFrame ==
  ASSUME NEW s \in Procs, NEW version PROVE Frame(s, Reconfigure(s, version))
BY DEF Reconfigure, Procs, Constant, Frame

LEMMA CommitInstallFrame ==
  ASSUME NEW s \in Procs PROVE Frame(s, CommitInstall(s))
BY DEF CommitInstall, Procs, Constant, Frame

LEMMA BeforeTaskFrame ==
  ASSUME NEW s \in Procs, NEW name PROVE Frame(s, BeforeTask(name, s))
<1>1. Frame(s, s)
  BY DEF Constant, Frame
<1>2. Frame(s, [CancelTimers(s) EXCEPT !.keys = @ \ Keys(s), !.token = FALSE,
                                       !.ip = FALSE, !.wanted = "stopped"])
  BY CancelTimersFrame, CancelTimersType DEF Constant, Frame, Procs
<1>3. CancelTimers(DropRunKeys(s)) \in Procs /\ Frame(s, CancelTimers(DropRunKeys(s)))
  BY DropRunKeysFrame, DropRunKeysType, CancelTimersFrame, CancelTimersType, FrameChain
<1>4. ASSUME NEW w
      PROVE  Frame(s, [CancelTimers(DropRunKeys(s)) EXCEPT !.wanted = w])
  BY <1>3 DEF Constant, Frame, Procs
<1> QED
  BY <1>1, <1>2, <1>4 DEF BeforeTask

LEMMA StartedFrame ==
  ASSUME NEW s \in Procs, NEW id PROVE Frame(s, Started(s, id))
BY DEF Started, Procs, Constant, Frame

-----------------------------------------------------------------------------
(* Ends, and the operators that may reach one. *)

LEMMA CloseCarries ==
  ASSUME NEW s \in Procs, NEW reply, reply # "none" PROVE Carries(s, Close(s, reply))
<1> DEFINE d == CASE s.run.image # "none" -> ImageRetry(s, s.run.image)
                  [] s.run.image = "none" /\ (s.run.retry \/ s.run.cleaned) -> Retry(s)
                  [] OTHER -> s
<1>1. d \in Procs /\ Frame(s, d)
  BY ImageRetryType, ImageRetryFrame, RetryType, RetryFrame DEF Constant, Frame
<1> HIDE DEF d
<1>2. Carries(s, [d EXCEPT !.save = TRUE, !.reply = reply, !.fate = "idle"])
  BY <1>1 DEF Constant, Frame, Carries, Balanced, Procs
<1> QED
  BY <1>2 DEF Close, d

LEMMA FailCarries ==
  ASSUME NEW s \in Procs PROVE Carries(s, Fail(s))
<1>1. Carries(s, [s EXCEPT !.reply = "error", !.fate = "exit"])
  BY DEF Constant, Carries, Balanced, Procs
<1>2. Carries(s, Close(s, "error"))
  BY CloseCarries
<1> QED
  BY <1>1, <1>2 DEF Fail

LEMMA FinishCarries ==
  ASSUME NEW s \in Procs PROVE Carries(s, Finish(s))
BY DEF Finish, Constant, Carries, Balanced, Procs

LEMMA DeleteFileCarries ==
  ASSUME NEW s \in Procs, Balanced(s) PROVE Carries(s, DeleteFile(s))
<1> DEFINE d == [s EXCEPT !.keys = @ \cup IngressKeys(s)]
<1>1. d \in Procs /\ Frame(s, d)
  <2>1. s.keys \cup IngressKeys(s) \in KeySets
    BY IngressKeysType DEF Procs, KeySets
  <2> QED
    BY <2>1 DEF Procs, Constant, Frame
<1>2. Carries(s, [s EXCEPT !.gone = TRUE])
  BY DEF Constant, Carries, Balanced, Procs
<1> HIDE DEF d
<1>3. Carries(s, Fail(d))
  BY <1>1, FailCarries, FrameChain
<1> QED
  BY <1>2, <1>3 DEF DeleteFile, d

LEMMA RunLocalCarries ==
  ASSUME NEW s \in Procs, NEW name, Balanced(s) PROVE Carries(s, RunLocal(name, s))
<1>1. Carries(s, s)
  BY DEF Constant, Carries
<1>2. \A steps : Carries(s, PutSteps(s, steps))
  BY PutStepsFrame, FrameChain
<1>3. Carries(s, [s EXCEPT !.token = TRUE, !.keys = @ \cup {"token"}])
  BY DEF Constant, Carries, Balanced, Procs
<1>4. Carries(s, CommitInstall(s)) /\ \A v : Carries(s, Reconfigure(s, v))
  BY CommitInstallFrame, ReconfigureFrame, FrameChain
<1>5. Carries(s, DeleteFile(s))
  BY DeleteFileCarries
<1> QED
  BY <1>1, <1>2, <1>3, <1>4, <1>5 DEF RunLocal

LEMMA LocalCarries ==
  ASSUME NEW s \in Procs, Balanced(s) PROVE Local(s) \in Procs /\ Carries(s, Local(s))
<1>1. Local(s) \in Procs
  BY LocalType
<1>2. CASE ~(s.fate = "stay" /\ s.run.steps # <<>> /\ IsLocal(Head(s.run.steps), s))
  BY <1>1, <1>2 DEF Local, Constant, Carries
<1>3. CASE s.fate = "stay" /\ s.run.steps # <<>> /\ IsLocal(Head(s.run.steps), s)
  <2> DEFINE d == PutSteps(s, Tail(s.run.steps))
  <2>1. Tail(s.run.steps) \in Seq(StepNames)
    BY <1>3 DEF Procs, Runs
  <2>2. d \in Procs /\ Frame(s, d)
    BY <2>1, PutStepsType, PutStepsFrame
  <2> HIDE DEF d
  <2>3. Carries(s, d) /\ Balanced(d)
    BY <2>2, FrameChain
  <2>4. Carries(d, RunLocal(Head(s.run.steps), d))
    BY <2>2, <2>3, RunLocalCarries
  <2>5. Carries(s, RunLocal(Head(s.run.steps), d))
    BY <2>3, <2>4, CarriesChain
  <2> QED
    BY <1>1, <1>3, <2>5 DEF Local, d
<1> QED
  BY <1>2, <1>3

LEMMA TaskFrame ==
  ASSUME NEW s \in Procs, NEW name, NEW steps, NEW task
  PROVE  Frame(s, [s EXCEPT !.run.step = name, !.run.steps = steps, !.run.task = task])
<1> DEFINE run == [s.run EXCEPT !.step = name, !.steps = steps, !.task = task]
<1>1. run.from = s.run.from /\ run.op = s.run.op /\ run.old = s.run.old
  BY DEF Procs, Runs
<1>2. [s EXCEPT !.run.step = name, !.run.steps = steps, !.run.task = task]
        = [s EXCEPT !.run = run]
  BY DEF Procs, Runs
<1> HIDE DEF run
<1>3. Frame(s, [s EXCEPT !.run = run])
  BY <1>1 DEF Constant, Frame, Procs
<1> QED
  BY <1>2, <1>3

LEMMA LaunchCarries ==
  ASSUME NEW s \in Procs, Balanced(s) PROVE Carries(s, Launch(s))
<1>1. Carries(s, s) /\ Carries(s, Finish(s))
  BY FinishCarries DEF Constant, Carries
<1>2. CASE s.fate = "stay" /\ s.run.steps # <<>>
  <2> DEFINE name == Head(s.run.steps)
             b == BeforeTask(name, s)
  <2>1. b \in Procs /\ Frame(s, b)
    BY BeforeTaskType, BeforeTaskFrame
  <2> HIDE DEF name, b
  <2> DEFINE launched == [b EXCEPT !.run.step = name, !.run.steps = Tail(b.run.steps),
                                   !.run.task = "running"]
  <2>2. Frame(b, launched)
    BY <2>1, TaskFrame
  <2> HIDE DEF launched
  <2>3. Frame(s, launched)
    BY <2>1, <2>2, FrameChain
  <2>4. Carries(s, launched)
    BY <2>3, FrameChain
  <2> QED
    BY <1>2, <2>4 DEF Launch, b, name, launched
<1> QED
  BY <1>1, <1>2 DEF Launch

LEMMA AdvanceCarries ==
  ASSUME NEW s \in Procs, Balanced(s) PROVE Carries(s, Advance(s))
<1> DEFINE a == Local(s)
           b == Local(a)
           c == Local(b)
           d == Local(c)
           e == Local(d)
<1>1. a \in Procs /\ Carries(s, a) /\ Balanced(a)
  BY LocalCarries DEF Constant, Carries
<1> HIDE DEF a
<1>2. b \in Procs /\ Carries(s, b) /\ Balanced(b)
  BY <1>1, LocalCarries, CarriesChain DEF Constant, Carries
<1> HIDE DEF b
<1>3. c \in Procs /\ Carries(s, c) /\ Balanced(c)
  BY <1>2, LocalCarries, CarriesChain DEF Constant, Carries
<1> HIDE DEF c
<1>4. d \in Procs /\ Carries(s, d) /\ Balanced(d)
  BY <1>3, LocalCarries, CarriesChain DEF Constant, Carries
<1> HIDE DEF d
<1>5. e \in Procs /\ Carries(s, e) /\ Balanced(e)
  BY <1>4, LocalCarries, CarriesChain DEF Constant, Carries
<1> HIDE DEF e
<1>6. Carries(s, Launch(e))
  BY <1>5, LaunchCarries, CarriesChain
<1> QED
  BY <1>6 DEF Advance, a, b, c, d, e

-----------------------------------------------------------------------------
(* Outcomes of a task step. *)

LEMMA AdvanceAfter ==
  ASSUME NEW s, NEW t \in Procs, Frame(s, t), Balanced(s)
  PROVE  Carries(s, Advance(t)) /\ Carries(s, Fail(t)) /\ Carries(s, Finish(t))
<1>1. Carries(s, t) /\ Balanced(t)
  BY FrameChain
<1>2. Carries(t, Advance(t)) /\ Carries(t, Fail(t)) /\ Carries(t, Finish(t))
  BY <1>1, AdvanceCarries, FailCarries, FinishCarries
<1> QED
  BY <1>1, <1>2, CarriesChain

LEMMA CleanupCarries ==
  ASSUME NEW s \in Procs, Balanced(s) PROVE Carries(s, Cleanup(s))
<1> DEFINE d == [s EXCEPT !.run.cause = TRUE]
           e == PutSteps(d, <<"stop_by_name">>)
<1>1. d \in Procs /\ Frame(s, d)
  BY PutCauseType, PutRunFrame
<1> HIDE DEF d
<1>2. <<"stop_by_name">> \in Seq(StepNames)
  BY DEF StepNames, TaskSteps
<1>3. e \in Procs /\ Frame(d, e)
  BY <1>1, <1>2, PutStepsType, PutStepsFrame
<1> HIDE DEF e
<1>4. Carries(s, Advance(e))
  BY <1>1, <1>3, FrameChain, AdvanceAfter
<1> QED
  BY <1>4 DEF Cleanup, d, e

LEMMA CleanedUpCarries ==
  ASSUME NEW s \in Procs, Balanced(s) PROVE Carries(s, CleanedUp(s))
<1> DEFINE d == [Release(s) EXCEPT !.run.cleaned = TRUE]
<1>1. d \in Procs /\ Frame(s, d)
  <2>1. Release(s) \in Procs /\ Frame(s, Release(s))
    BY ReleaseType, ReleaseFrame
  <2>2. d \in Procs /\ Frame(Release(s), d)
    BY <2>1, PutCauseType, PutRunFrame
  <2> HIDE DEF d
  <2> QED
    BY <2>1, <2>2, FrameChain
<1> HIDE DEF d
<1>2. Carries(s, Fail(d))
  BY <1>1, AdvanceAfter
<1>3. ASSUME s.run.result # "none" PROVE Carries(s, Close(d, s.run.result))
  <2>1. Carries(s, d) /\ Carries(d, Close(d, s.run.result))
    BY <1>1, <1>3, FrameChain, CloseCarries
  <2> QED
    BY <2>1, CarriesChain
<1> QED
  BY <1>2, <1>3 DEF CleanedUp, d

LEMMA ShutdownRefusedCarries ==
  ASSUME NEW s \in Procs PROVE Carries(s, ShutdownRefused(s))
<1> DEFINE d == DropRunKeys(s)
<1>1. d \in Procs /\ Frame(s, d)
  BY DropRunKeysType, DropRunKeysFrame
<1> HIDE DEF d
<1>2. Carries(s, [d EXCEPT !.reply = "shutting_down", !.fate = "idle"])
  BY <1>1 DEF Constant, Frame, Carries, Balanced, Procs
<1> QED
  BY <1>2 DEF ShutdownRefused, d

LEMMA StartDoneCarries ==
  ASSUME NEW s \in Procs, NEW id \in Held, Balanced(s) PROVE Carries(s, StartDone(s, id))
<1> DEFINE d == Started(s, id)
           e == [d EXCEPT !.run.result = "error"]
           g == PutSteps(e, <<>>)
<1>1. d \in Procs /\ Frame(s, d)
  BY StartedType, StartedFrame
<1> HIDE DEF d
<1>2. e \in Procs /\ Frame(s, e)
  <2>1. e \in Procs /\ Frame(d, e)
    BY <1>1, PutResultType, PutRunFrame
  <2> HIDE DEF e
  <2> QED
    BY <1>1, <2>1, FrameChain
<1> HIDE DEF e
<1>3. g \in Procs /\ Frame(s, g)
  <2>1. <<>> \in Seq(StepNames)
    OBVIOUS
  <2>2. g \in Procs /\ Frame(e, g)
    BY <1>2, <2>1, PutStepsType, PutStepsFrame
  <2> QED
    BY <1>2, <2>2, FrameChain
<1> HIDE DEF g
<1>4. Carries(s, Finish(g)) /\ Carries(s, Advance(d))
  BY <1>1, <1>3, AdvanceAfter
<1> QED
  BY <1>4 DEF StartDone, d, e, g

LEMMA StartFailedCarries ==
  ASSUME NEW s \in Procs, NEW why, Balanced(s) PROVE Carries(s, StartFailed(s, why))
<1> DEFINE d == [DropRunKeys(s) EXCEPT !.ev = "failed"]
           back == <<"rollback_config">> \o StartSteps
           c == [s EXCEPT !.run.cause = TRUE]
           e == PutSteps(c, back)
           i == ImageRetry(d, s.run.image)
<1>1. d \in Procs /\ Frame(s, d)
  <2>1. "failed" \in Seen /\ DropRunKeys(s) \in Procs /\ Frame(s, DropRunKeys(s))
    BY DropRunKeysType, DropRunKeysFrame DEF Seen
  <2> QED
    BY <2>1 DEF Procs, Constant, Frame
<1>2. e \in Procs /\ Frame(s, e)
  <2>1. back \in Seq(StepNames)
    <3>1. <<"rollback_config">> \in Seq(StepNames)
      BY DEF StepNames
    <3> QED
      BY <3>1, StartStepsType
  <2>2. c \in Procs /\ Frame(s, c)
    BY PutCauseType, PutRunFrame
  <2> HIDE DEF c, back
  <2>3. e \in Procs /\ Frame(c, e)
    BY <2>1, <2>2, PutStepsType, PutStepsFrame
  <2> QED
    BY <2>2, <2>3, FrameChain
<1>3. i \in Procs /\ Frame(s, i)
  <2> HIDE DEF d
  <2>1. i \in Procs /\ Frame(d, i)
    BY <1>1, ImageRetryType, ImageRetryFrame
  <2> QED
    BY <1>1, <2>1, FrameChain
<1> HIDE DEF d, e, i
<1>4. Carries(s, Advance(e))
  BY <1>2, AdvanceAfter
<1>5. Carries(s, Fail(d)) /\ Carries(s, Finish(d)) /\ Carries(s, Finish(i))
  BY <1>1, <1>3, AdvanceAfter
<1>6. Carries(s, Cleanup(d))
  <2>1. Carries(s, d) /\ Balanced(d)
    BY <1>1, FrameChain
  <2> QED
    BY <1>1, <2>1, CleanupCarries, CarriesChain
<1> QED
  BY <1>4, <1>5, <1>6 DEF StartFailed, d, back, c, e, i

LEMMA ImageFailedCarries ==
  ASSUME NEW s \in Procs, NEW why, Balanced(s) PROVE Carries(s, ImageFailed(s, why))
<1> DEFINE image == IF why = "refused" THEN why ELSE "error"
           d == [s EXCEPT !.run.image = image]
<1>1. image \in {"none", "error", "refused"}
  OBVIOUS
<1> HIDE DEF image
<1>2. d \in Procs
  BY ZenonT(60), <1>1 DEF Procs, Runs
<1>3. Frame(s, d)
  BY PutRunFrame
<1> HIDE DEF d
<1>4. Carries(s, d) /\ Balanced(d)
  BY <1>3, FrameChain
<1>5. Carries(s, StartFailed(d, why))
  BY <1>2, <1>4, StartFailedCarries, CarriesChain
<1> QED
  BY <1>5 DEF ImageFailed, image, d

LEMMA StopDoneCarries ==
  ASSUME NEW s \in Procs, NEW was_running \in BOOLEAN, Balanced(s)
  PROVE  Carries(s, StopDone(s, was_running))
<1> DEFINE was == was_running \/ (s.run.op = "backup" /\ s.wanted = "started")
           r == Release(s)
           wanted == IF s.run.op = "restore" THEN "stopped" ELSE r.wanted
           d == [r EXCEPT !.ev = "stopped", !.run.was = was, !.wanted = wanted]
<1>1. r \in Procs /\ was \in BOOLEAN /\ Frame(s, r)
  BY ReleaseType, ReleaseFrame
<1>2. wanted \in Wants /\ "stopped" \in Seen
  BY <1>1 DEF Procs, Wants, Seen
<1> HIDE DEF was, wanted, r
<1>3. d \in Procs
  BY ZenonT(60), <1>1, <1>2 DEF Procs, Runs
<1>4. Frame(s, d)
  <2>1. Frame(r, d)
    BY <1>1 DEF Constant, Frame, Procs, Runs
  <2> HIDE DEF d
  <2> QED
    BY <1>1, <2>1, FrameChain
<1> HIDE DEF d
<1>5. Carries(s, Advance(d))
  BY <1>3, <1>4, AdvanceAfter
<1> QED
  BY <1>5 DEF StopDone, was, wanted, r, d

LEMMA StrictStopFailedCarries ==
  ASSUME NEW s \in Procs, Balanced(s) PROVE Carries(s, StrictStopFailed(s))
<1> DEFINE was == Running(s) \/ s.wanted = "started"
           r == Release(s)
           d == [r EXCEPT !.run.result = "error", !.run.was = was]
           e == PutSteps(d, <<"start?">>)
<1>1. r \in Procs /\ was \in BOOLEAN /\ Frame(s, r)
  BY ReleaseType, ReleaseFrame DEF Running
<1> HIDE DEF was, r
<1>2. d \in Procs /\ Frame(s, d)
  <2> DEFINE c == [r EXCEPT !.run.result = "error"]
  <2>1. c \in Procs /\ Frame(r, c)
    BY <1>1, PutResultType, PutRunFrame
  <2>2. Frame(s, c)
    BY <1>1, <2>1, FrameChain
  <2>3. d = [c EXCEPT !.run.was = was]
    OBVIOUS
  <2> HIDE DEF c, d
  <2>4. d \in Procs /\ Frame(c, d)
    BY <1>1, <2>1, <2>3, PutWasType, PutRunFrame
  <2> QED
    BY <2>2, <2>4, FrameChain
<1> HIDE DEF d
<1>3. e \in Procs /\ Frame(s, e)
  <2>1. <<"start?">> \in Seq(StepNames)
    BY DEF StepNames
  <2>2. e \in Procs /\ Frame(d, e)
    BY <1>2, <2>1, PutStepsType, PutStepsFrame
  <2> QED
    BY <1>2, <2>2, FrameChain
<1> HIDE DEF e
<1>4. Carries(s, Advance(e))
  BY <1>3, AdvanceAfter
<1> QED
  BY <1>4 DEF StrictStopFailed, was, r, d, e

LEMMA SnapshotDoneCarries ==
  ASSUME NEW s \in Procs, NEW r, Balanced(s) PROVE Carries(s, SnapshotDone(s, r))
<1> DEFINE good == [s EXCEPT !.run.result = "ok"]
           bad == [s EXCEPT !.run.result = "error"]
           e == PutSteps(bad, <<"start?">>)
<1>1. good \in Procs /\ bad \in Procs /\ Frame(s, good) /\ Frame(s, bad)
  BY PutResultType, PutRunFrame
<1> HIDE DEF good, bad
<1>2. e \in Procs /\ Frame(s, e)
  <2>1. <<"start?">> \in Seq(StepNames)
    BY DEF StepNames
  <2>2. e \in Procs /\ Frame(bad, e)
    BY <1>1, <2>1, PutStepsType, PutStepsFrame
  <2> QED
    BY <1>1, <2>2, FrameChain
<1> HIDE DEF e
<1>3. /\ Carries(s, Advance(good)) /\ Carries(s, Advance(bad))
      /\ Carries(s, Advance(e)) /\ Carries(s, Advance(s))
  BY <1>1, <1>2, AdvanceAfter, AdvanceCarries
<1>4. [s EXCEPT !.run.result = IF r = "ok" THEN "ok" ELSE "error"]
        = IF r = "ok" THEN good ELSE bad
  BY DEF good, bad
<1> QED
  BY <1>3, <1>4 DEF SnapshotDone, e, bad

LEMMA OptionsTakenType ==
  ASSUME NEW s \in Procs, Balanced(s)
  PROVE  /\ OptionsTaken(s) \in Procs /\ Balanced(OptionsTaken(s))
         /\ OptionsTaken(s).run = s.run /\ OptionsTaken(s).st = s.st
BY DEF OptionsTaken, Procs, OptionValues, Balanced

LEMMA OptionsDoneCarries ==
  ASSUME NEW s \in Procs, NEW r, Balanced(s)
  PROVE  \/ Carries(s, OptionsDone(s, r))
         \/ ~s.touched /\ Carries(OptionsTaken(s), OptionsDone(s, r))
<1>1. Carries(OptionsTaken(s), Advance(OptionsTaken(s)))
  BY OptionsTakenType, AdvanceCarries
<1>2. Carries(s, Advance(s)) /\ Carries(s, Fail(s))
  BY AdvanceCarries, FailCarries
<1> QED
  BY <1>1, <1>2 DEF OptionsDone, OptionsTaken

LEMMA HaltDoneCarries ==
  ASSUME NEW s \in Procs, NEW r PROVE Carries(s, HaltDone(s, r))
<1> DEFINE reply == IF r = "ok" THEN "ok" ELSE "error"
           fate == IF s.gone THEN "exit" ELSE "shutting_down"
           d == Release(s)
<1>1. d \in Procs /\ Frame(s, d) /\ reply # "none" /\ fate # "stay"
  BY ReleaseType, ReleaseFrame
<1> HIDE DEF reply, fate, d
<1>2. Carries(s, [d EXCEPT !.ev = "stopped", !.reply = reply, !.fate = fate])
  BY <1>1 DEF Constant, Carries, Frame, Balanced, Procs
<1> QED
  BY <1>2 DEF HaltDone, reply, fate, d

LEMMA PortDoneCarries ==
  ASSUME NEW s \in Procs, NEW r, Balanced(s) PROVE Carries(s, PortDone(s, r))
<1> DEFINE k == s.keys \cup {"port"}
           save == s.save \/ s.run.op # "install"
           d == [s EXCEPT !.port = TRUE, !.keys = k, !.save = save]
<1>1. k \in KeySets /\ save \in BOOLEAN
  BY DEF Procs, KeySets, KeyNames
<1> HIDE DEF k, save
<1>2. d \in Procs /\ Frame(s, d)
  BY ZenonT(60), <1>1 DEF Procs, Constant, Frame
<1> HIDE DEF d
<1>3. Carries(s, Advance(d)) /\ Carries(s, Fail(s))
  BY <1>2, AdvanceAfter, FailCarries
<1> QED
  BY <1>3 DEF PortDone, k, save, d

LEMMA SettleCarries ==
  ASSUME NEW s \in Procs, NEW r, NEW id \in Held, Balanced(s)
  PROVE  \/ Carries(s, Settle(s, r, id))
         \/ /\ s.run.step = "set_options" /\ ~s.touched
            /\ Carries(OptionsTaken(s), Settle(s, r, id))
<1>1. Carries(s, Advance([s EXCEPT !.img = 0]))
  <2> DEFINE d == [s EXCEPT !.img = 0]
  <2>1. 0 \in ImageTries
    BY BoundsAssumption DEF ImageTries
  <2>2. d \in Procs /\ Frame(s, d)
    BY <2>1 DEF Procs, Constant, Frame
  <2> HIDE DEF d
  <2>3. Carries(s, Advance(d))
    BY <2>2, AdvanceAfter
  <2> QED
    BY <2>3 DEF d
<1>2. /\ Carries(s, CleanedUp(s)) /\ Carries(s, ShutdownRefused(s))
      /\ Carries(s, ImageFailed(s, r)) /\ Carries(s, StartDone(s, id))
      /\ Carries(s, StartFailed(s, r)) /\ Carries(s, StopDone(s, r = "was_running"))
  BY CleanedUpCarries, ShutdownRefusedCarries, ImageFailedCarries, StartDoneCarries,
     StartFailedCarries, StopDoneCarries
<1>3. /\ Carries(s, StrictStopFailed(s)) /\ Carries(s, Cleanup(s))
      /\ Carries(s, SnapshotDone(s, r)) /\ Carries(s, HaltDone(s, r))
      /\ Carries(s, PortDone(s, r)) /\ Carries(s, Advance(s)) /\ Carries(s, Fail(s))
  BY StrictStopFailedCarries, CleanupCarries, SnapshotDoneCarries,
     HaltDoneCarries, PortDoneCarries, AdvanceCarries, FailCarries
<1>4. CASE s.run.step = "set_options"
  <2>1. Settle(s, r, id) = OptionsDone(s, r)
    BY <1>4 DEF Settle
  <2> QED
    BY <1>4, <2>1, OptionsDoneCarries
<1>5. CASE s.run.step # "set_options"
  BY <1>1, <1>2, <1>3, <1>5 DEF Settle
<1> QED
  BY <1>4, <1>5

-----------------------------------------------------------------------------
(* The beginning of an operation, and the effects of a handler. *)

LEMMA BeginCarries ==
  ASSUME NEW s \in Procs, NEW op \in Ops, NEW a \in Args, Balanced(s)
  PROVE  LET t == Begin(op, a, s)
         IN  /\ t.run.from = a.from /\ t.run.op = op /\ t.st = "busy" /\ Balanced(t)
             /\ t.opt = s.opt /\ t.refused = s.refused /\ t.retired = s.retired
             /\ ~t.probing /\ (s.gone => t.gone)
<1> DEFINE retry == IF op \in {"start", "restart", "stop", "uninstall", "halt"}
                    THEN NoTimer ELSE s.retry
           d == [s EXCEPT !.st = "busy", !.probing = FALSE, !.retry = retry]
           run == [NoRun EXCEPT !.op = op, !.steps = Steps(op, a, d),
                                !.from = a.from, !.retry = a.retry,
                                !.starts = a.starts, !.backup = a.backup,
                                !.options = a.options, !.old = d.ver]
           e == [d EXCEPT !.touched = FALSE, !.run = run]
<1>0. retry \in Armed /\ "busy" \in States
  BY DEF Procs, Armed, States
<1> HIDE DEF retry
<1>1. /\ d \in Procs /\ d.st = "busy" /\ Balanced(d) /\ d.opt = s.opt
      /\ d.refused = s.refused /\ d.retired = s.retired /\ ~d.probing /\ d.gone = s.gone
  BY ZenonT(60), <1>0 DEF Procs, Balanced
<1> HIDE DEF d
<1>2. run \in Runs /\ run.from = a.from /\ run.op = op
  <2>1. Steps(op, a, d) \in Seq(StepNames) /\ NoRun \in Runs
    BY StepsType, FreshType
  <2>2. d.ver \in SavedVersions /\ op \in Ops \cup {"none"}
    BY <1>1 DEF Procs
  <2> QED
    BY <2>1, <2>2 DEF Runs, Args
<1> HIDE DEF run
<1>3. /\ e \in Procs /\ e.run.from = a.from /\ e.run.op = op /\ e.st = "busy"
      /\ Balanced(e) /\ e.opt = s.opt /\ e.refused = s.refused
      /\ e.retired = s.retired /\ ~e.probing /\ e.gone = s.gone
  BY ZenonT(60), <1>1, <1>2 DEF Procs, Balanced
<1>4. e = Plan(op, a, d)
  BY DEF Plan, run
<1> HIDE DEF e
<1>5. Carries(e, Advance(e))
  BY <1>3, AdvanceCarries
<1>6. Begin(op, a, s) = Advance(e)
  BY <1>4 DEF Begin, d, retry
<1> QED
  BY <1>3, <1>5, <1>6 DEF Constant, Carries

(* A halt is one task step: it begins and leaves the operation open. *)
LEMMA HaltBegins ==
  ASSUME NEW s \in Procs, s.fate = "stay"
  PROVE  LET t == Begin("halt", Called, s)
         IN  t.fate = "stay" /\ t.run.step = "halt_stop" /\ t.run.task = "running"
<1> DEFINE d == [s EXCEPT !.st = "busy", !.probing = FALSE, !.retry = NoTimer]
           e == Plan("halt", Called, d)
<1>1. d \in Procs /\ d.fate = "stay"
  BY ZenonT(60) DEF Procs, States, Armed
<1> HIDE DEF d
<1>2. e \in Procs /\ e.fate = "stay" /\ e.run.steps = <<"halt_stop">>
  <2> DEFINE run == [NoRun EXCEPT !.op = "halt", !.steps = <<"halt_stop">>,
                                  !.from = Called.from, !.retry = Called.retry,
                                  !.starts = Called.starts, !.backup = Called.backup,
                                  !.options = Called.options, !.old = d.ver]
  <2>1. e = [d EXCEPT !.touched = FALSE, !.run = run]
    BY DEF Plan, Steps
  <2>2. run \in Runs /\ run.steps = <<"halt_stop">>
    <3>1. <<"halt_stop">> \in Seq(StepNames) /\ "halt" \in Ops \cup {"none"}
      BY DEF StepNames, TaskSteps, Ops
    <3>2. NoRun \in Runs /\ Called \in Args /\ d.ver \in SavedVersions
      BY <1>1, FreshType DEF Called, Args, Procs
    <3> QED
      BY <3>1, <3>2 DEF Runs, Args
  <2> HIDE DEF run, e
  <2> QED
    BY ZenonT(60), <1>1, <2>1, <2>2 DEF Procs
<1> HIDE DEF e
<1>3. Head(e.run.steps) = "halt_stop" /\ e.run.steps # <<>>
  BY <1>2
<1>4. Local(e) = e
  BY ZenonT(60), <1>3 DEF Local, IsLocal, LocalNames
<1>5. Advance(e) = Launch(e)
  BY <1>4 DEF Advance
<1> DEFINE b == BeforeTask("halt_stop", e)
           t == [b EXCEPT !.run.step = "halt_stop", !.run.steps = Tail(b.run.steps),
                          !.run.task = "running"]
<1>6. b \in Procs /\ b.fate = "stay"
  BY <1>2, BeforeTaskType, BeforeTaskFrame DEF Constant, Frame
<1> HIDE DEF b
<1>7. t.fate = "stay" /\ t.run.step = "halt_stop" /\ t.run.task = "running"
  BY <1>6 DEF Procs, Runs
<1>8. Launch(e) = t
  BY <1>2, <1>3 DEF Launch, b
<1>9. Begin("halt", Called, s) = Launch(e)
  BY <1>5 DEF Begin, d, e
<1> QED
  BY <1>7, <1>8, <1>9

LEMMA AfterFacts ==
  ASSUME NEW s \in Procs
  PROVE  /\ After(s).fate = "stay" /\ After(s).reply = "none"
         /\ Exits(s) \/ s.fate # "stay" =>
               ~After(s).run.from /\ After(s).run.op = "none"
         /\ ~Exits(s) /\ s.fate = "stay" =>
               /\ After(s).st = s.st
               /\ After(s).run.from = s.run.from /\ After(s).run.op = s.run.op
               /\ After(s).run.step = s.run.step /\ After(s).run.task = s.run.task
<1> DEFINE st == CASE s.fate = "shutting_down" -> "shutting_down"
                   [] s.fate # "shutting_down" /\ s.refused -> "refused"
                   [] OTHER -> "idle"
           n == Neutral(s)
<1>1. n \in Procs /\ n.fate = "stay" /\ n.reply = "none" /\ n.run = s.run /\ n.st = s.st
  BY ZenonT(60), NeutralType DEF Neutral, Procs
<1>2. ~NoRun.from /\ NoRun.op = "none"
  BY DEF NoRun
<1>3. Fresh.fate = "stay" /\ Fresh.reply = "none" /\ Fresh.run = NoRun
  BY DEF Fresh
<1> HIDE DEF n, st
<1>4. CASE Exits(s)
  BY <1>2, <1>3, <1>4 DEF After
<1>5. CASE ~Exits(s) /\ s.fate = "stay"
  <2>1. ASSUME NEW u
        PROVE  LET t == [n EXCEPT !.run.unsaved = u]
               IN  /\ t.fate = "stay" /\ t.reply = "none" /\ t.st = s.st
                   /\ t.run.from = s.run.from /\ t.run.op = s.run.op
                   /\ t.run.step = s.run.step /\ t.run.task = s.run.task
    BY <1>1 DEF Procs, Runs
  <2>2. After(s) = [n EXCEPT !.run.unsaved = Unsaved(s)]
    BY <1>5 DEF After, n
  <2> QED
    BY <1>5, <2>1, <2>2
<1>6. CASE ~Exits(s) /\ s.fate # "stay"
  <2>1. After(s) = [n EXCEPT !.run = NoRun, !.retired = FALSE, !.st = st]
    BY <1>6 DEF After, n, st
  <2> QED
    BY <1>1, <1>2, <1>6, <2>1 DEF Procs
<1> QED
  BY <1>4, <1>5, <1>6

-----------------------------------------------------------------------------
(* The inductive invariant. *)

(* Between handlers nothing is half done, and only a busy process owes an  *)
(* answer.                                                                 *)
Calm == p.fate = "stay" /\ p.reply = "none" /\ (p.run.from => p.st = "busy")

(* A halt at work has one step, which reports ok once the container is     *)
(* down; nothing starts one while it is in flight.                         *)
HaltStops == p.run.op = "halt" => /\ p.run.step = "halt_stop"
                                  /\ p.run.task = "ok" => ~box.up

Owing(s) == IF s.run.from THEN 1 ELSE 0
Answering == Calm /\ EveryCallerAnsweredOnce
Halting == HaltStops /\ HaltedIsDown

LEMMA EnterFacts ==
  ASSUME Typed, Calm, NEW disk \in Disk
  PROVE  /\ Enter(disk) \in Procs /\ Balanced(Enter(disk))
         /\ Enter(disk).run = p.run /\ Enter(disk).st = p.st /\ Enter(disk).fate = "stay"
<1>1. Enter(disk) \in Procs
  BY DiskType, EnterType
<1> QED
  BY <1>1, TypedFacts DEF Enter, Calm, Balanced, Procs

LEMMA LeaveAnswers ==
  ASSUME NEW s \in Procs, NEW waiting, Leave(s, waiting), waiting = Owing(s),
         s.run.from => s.st = "busy" /\ Balanced(s)
  PROVE  Answering'
<1>1. p' = After(s)
  BY DEF Leave
<1>2. Calm'
  BY <1>1, AfterFacts DEF Calm
<1>3. CASE ~s.run.from
  <2>1. callers' = 0 /\ ~p'.run.from
    BY <1>1, <1>3, AfterFacts DEF Leave, Owing
  <2> QED
    BY <1>2, <2>1 DEF Answering, EveryCallerAnsweredOnce
<1>4. CASE s.run.from /\ (Exits(s) \/ s.fate # "stay")
  <2>1. Value(s) # "none"
    BY <1>4 DEF Value, Exits, Balanced
  <2>2. callers' = 0 /\ ~p'.run.from
    BY <1>1, <1>4, <2>1, AfterFacts DEF Leave, Owing
  <2> QED
    BY <1>2, <2>2 DEF Answering, EveryCallerAnsweredOnce
<1>5. CASE s.run.from /\ ~Exits(s) /\ s.fate = "stay"
  <2>1. Value(s) = "none"
    BY <1>5 DEF Value, Exits, Balanced
  <2>2. callers' = 1 /\ p'.run.from
    BY <1>1, <1>5, <2>1, AfterFacts DEF Leave, Owing
  <2> QED
    BY <1>2, <2>2 DEF Answering, EveryCallerAnsweredOnce
<1> QED
  BY <1>3, <1>4, <1>5

LEMMA LeaveHalts ==
  ASSUME NEW s \in Procs, NEW waiting, Leave(s, waiting),
         \/ s.run.op # "halt"
         \/ s.fate # "stay" /\ (s.reply = "ok" => ~box'.up)
  PROVE  Halting'
<1>1. p'.run.op # "halt"
  BY AfterFacts DEF Leave
<1>2. answer'.op = "halt" /\ answer'.value = "ok" => s.run.op = "halt" /\ s.reply = "ok"
  BY DEF Leave, Value, NoAnswer
<1> QED
  BY <1>1, <1>2 DEF Halting, HaltStops, HaltedIsDown

LEMMA RestAnswers ==
  ASSUME Answering, NEW s \in Procs, Rest(s), s.run.from = p.run.from,
         p.run.from => s.st = "busy"
  PROVE  Answering'
<1>1. p' = Neutral(s) /\ callers' = callers
  BY DEF Rest
<1>2. p'.run = s.run /\ p'.st = s.st /\ p'.fate = "stay" /\ p'.reply = "none"
  BY <1>1 DEF Neutral, Procs
<1> QED
  BY <1>1, <1>2 DEF Answering, Calm, EveryCallerAnsweredOnce

LEMMA RestHalts ==
  ASSUME Halting, NEW s \in Procs, Rest(s), s.run = p.run, UNCHANGED box
  PROVE  Halting'
<1>1. p'.run = p.run /\ answer' = NoAnswer
  BY DEF Rest, Neutral, Procs
<1> QED
  BY <1>1 DEF Halting, HaltStops, HaltedIsDown, NoAnswer

(* A step outside any handler that leaves the process's operation alone. *)
LEMMA Unchanging ==
  ASSUME Answering, Halting, callers' = callers, answer' = NoAnswer,
         p'.run = p.run, p'.st = p.st, p'.fate = p.fate, p'.reply = p.reply,
         box'.up => box.up
  PROVE  Answering' /\ Halting'
BY DEF Answering, Calm, EveryCallerAnsweredOnce, Halting, HaltStops, HaltedIsDown,
       NoAnswer

-----------------------------------------------------------------------------
(* One lemma per action. *)

Inv == Typed /\ Answering /\ Halting

SameRun(s, t) == t.run = s.run /\ t.st = s.st

LEMMA RetryKeeps == ASSUME NEW s \in Procs PROVE SameRun(s, Retry(s))
BY DEF Retry, SameRun, Procs

LEMMA DropRunKeysKeeps == ASSUME NEW s \in Procs PROVE SameRun(s, DropRunKeys(s))
BY DEF DropRunKeys, SameRun, Procs

LEMMA DiedKeeps ==
  ASSUME NEW s \in Procs, NEW ev \in {"exited0", "exited"} PROVE SameRun(s, Died(s, ev))
<1> DEFINE k == DropRunKeys(s)
           d == [k EXCEPT !.health = "none", !.probe = FALSE, !.settled = FALSE,
                          !.ev = ev]
<1>1. k \in Procs /\ SameRun(s, k) /\ ev \in Seen /\ "none" \in Healths
  BY DropRunKeysType, DropRunKeysKeeps DEF Seen, Healths
<1> HIDE DEF k
<1>2. d \in Procs /\ SameRun(s, d)
  BY ZenonT(60), <1>1 DEF Procs, SameRun
<1> HIDE DEF d
<1>3. SameRun(s, Retry(d))
  BY <1>2, RetryKeeps DEF SameRun
<1> QED
  BY <1>2, <1>3 DEF Died, d, k

LEMMA HealthSeenKeeps ==
  ASSUME NEW s \in Procs, NEW h \in {"healthy", "unhealthy"}
  PROVE  SameRun(s, HealthSeen(s, h))
<1> DEFINE ev == IF s.ev = "failed_probe" THEN s.ev ELSE h
           d == [s EXCEPT !.health = h, !.ev = ev]
<1>1. ev \in Seen /\ h \in Healths
  BY DEF Procs, Seen, Healths
<1> HIDE DEF ev
<1>2. d \in Procs /\ SameRun(s, d) /\ SameRun(s, s)
  BY <1>1 DEF Procs, SameRun
<1> HIDE DEF d
<1>3. SameRun(s, Retry(d))
  BY <1>2, RetryKeeps DEF SameRun
<1> QED
  BY <1>2, <1>3 DEF HealthSeen, d, ev

LEMMA OnEventKeeps ==
  ASSUME NEW s \in Procs, NEW e \in Messages PROVE SameRun(s, OnEvent(e, s))
<1>1. SameRun(s, s)
  BY DEF SameRun
<1>2. SameRun(s, [s EXCEPT !.cid = e.id, !.health = "none", !.ev = "running"])
  BY DEF SameRun, Procs
<1> QED
  BY <1>1, <1>2, DiedKeeps, HealthSeenKeeps DEF OnEvent

LEMMA StrikeKeeps ==
  ASSUME NEW s \in Procs, NEW result PROVE SameRun(s, Strike(result, s))
<1> DEFINE d == [s EXCEPT !.strikes = 0]
<1>1. d \in Procs /\ SameRun(s, d)
  <2>1. 0 \in StrikeCounts
    BY BoundsAssumption DEF StrikeCounts
  <2> QED
    BY <2>1 DEF Procs, SameRun
<1> HIDE DEF d
<1>2. SameRun(s, Retry(d))
  BY <1>1, RetryKeeps DEF SameRun
<1>3. /\ SameRun(s, [s EXCEPT !.strikes = 0, !.probe = TRUE])
      /\ SameRun(s, [s EXCEPT !.probe = TRUE])
      /\ SameRun(s, [s EXCEPT !.strikes = @ + 1, !.probe = TRUE])
      /\ SameRun(s, [s EXCEPT !.strikes = 0, !.ev = "failed_probe"])
  BY DEF SameRun, Procs
<1> QED
  BY <1>2, <1>3 DEF Strike, d

LEMMA RestStep ==
  ASSUME Inv, NEW s \in Procs, Rest(s), SameRun(p, s), UNCHANGED box
  PROVE  Answering' /\ Halting'
BY RestAnswers, RestHalts DEF Inv, SameRun, Answering, Calm

LEMMA CommandAnswers ==
  ASSUME Inv, NEW op \in Commands, Command(op) PROVE Answering' /\ Halting'
<1>1. op \in Ops /\ op # "halt"
  BY ServerAssumption
<1>2. ~p.run.from /\ callers = 0
  <2>1. p.st # "busy"
    BY <1>1 DEF Command, Admitted
  <2> QED
    BY <2>1 DEF Inv, Answering, Calm, EveryCallerAnsweredOnce
<1>3. PICK a \in ArgsOf(op), disk \in Disk :
        Leave(Begin(op, a, IF op = "uninstall" THEN [Enter(disk) EXCEPT !.retired = TRUE]
                           ELSE Enter(disk)), callers + 1)
  BY DEF Command
<1> DEFINE s == IF op = "uninstall" THEN [Enter(disk) EXCEPT !.retired = TRUE]
                ELSE Enter(disk)
           t == Begin(op, a, s)
<1>4. s \in Procs /\ Balanced(s)
  <2>1. Enter(disk) \in Procs /\ Balanced(Enter(disk))
    BY EnterFacts DEF Inv, Answering
  <2>2. /\ [Enter(disk) EXCEPT !.retired = TRUE] \in Procs
        /\ Balanced([Enter(disk) EXCEPT !.retired = TRUE])
    BY <2>1 DEF Procs, Balanced
  <2> QED
    BY <2>1, <2>2
<1>5. Leave(t, callers + 1)
  BY <1>3
<1> HIDE DEF s
<1>6. a \in Args /\ a.from
  <2>1. a \in Args
    BY ArgsOfType
  <2>2. Called.from /\ \A b, c \in BOOLEAN :
          /\ [Called EXCEPT !.starts = b].from /\ [Called EXCEPT !.backup = b].from
          /\ [Called EXCEPT !.starts = b, !.options = c].from
    BY DEF Called
  <2> QED
    BY <2>1, <2>2 DEF ArgsOf
<1>7. t \in Procs /\ t.run.from /\ t.run.op = op /\ t.st = "busy" /\ Balanced(t)
  BY <1>1, <1>4, <1>6, BeginType, BeginCarries
<1> HIDE DEF t
<1>8. callers + 1 = Owing(t)
  BY <1>2, <1>7 DEF Owing
<1> QED
  BY <1>1, <1>5, <1>7, <1>8, LeaveAnswers, LeaveHalts

LEMMA HaltAnswers == ASSUME Inv, Halt PROVE Answering' /\ Halting'
<1> DEFINE owed == IF p.run.from THEN 1 ELSE 0
           t == Begin("halt", Called, Enter(TRUE))
<1>1. callers = owed
  BY DEF Inv, Answering, EveryCallerAnsweredOnce
<1>2. answer' = NoAnswer \/ answer'.value = "shutting_down"
  BY DEF Halt
<1>3. CASE p' = Fresh /\ callers' = callers - owed
  <2>1. callers' = 0
    BY <1>1, <1>3
  <2>2. ~p'.run.from /\ p'.run.op = "none" /\ p'.fate = "stay" /\ p'.reply = "none"
    BY <1>3 DEF Fresh, NoRun
  <2> QED
    BY <1>2, <2>1, <2>2
    DEF Answering, Calm, EveryCallerAnsweredOnce, Halting, HaltStops, HaltedIsDown,
        NoAnswer
<1>4. CASE p' = After(t) /\ callers' = callers + 1 - owed
  <2>1. callers' = 1
    BY <1>1, <1>4
  <2>2. /\ Enter(TRUE) \in Procs /\ Balanced(Enter(TRUE)) /\ Enter(TRUE).fate = "stay"
        /\ Called \in Args /\ Called.from /\ "halt" \in Ops
    <3>1. TRUE \in Disk
      BY DEF Disk
    <3>2. Called \in Args /\ Called.from /\ "halt" \in Ops
      BY DEF Called, Args, Ops
    <3> QED
      BY <3>1, <3>2, EnterFacts DEF Inv, Answering
  <2>3. /\ t \in Procs /\ t.run.from /\ t.run.op = "halt" /\ t.st = "busy"
        /\ t.fate = "stay" /\ t.run.step = "halt_stop" /\ t.run.task = "running"
    <3> DEFINE s == Enter(TRUE)
    <3>1. s \in Procs /\ Balanced(s) /\ s.fate = "stay"
      BY <2>2
    <3> HIDE DEF s
    <3>2. LET u == Begin("halt", Called, s)
          IN  /\ u \in Procs /\ u.run.from /\ u.run.op = "halt" /\ u.st = "busy"
              /\ u.fate = "stay" /\ u.run.step = "halt_stop" /\ u.run.task = "running"
      BY <2>2, <3>1, BeginType, BeginCarries, HaltBegins
    <3> QED
      BY <3>2 DEF s
  <2> HIDE DEF t
  <2>4. ~Exits(t)
    BY <2>3 DEF Exits, InstallUnsaved
  <2>5. /\ p'.run.from /\ p'.st = "busy" /\ p'.fate = "stay" /\ p'.reply = "none"
        /\ p'.run.step = "halt_stop" /\ p'.run.task = "running"
    BY <1>4, <2>3, <2>4, AfterFacts
  <2> QED
    BY <1>2, <2>1, <2>5
    DEF Answering, Calm, EveryCallerAnsweredOnce, Halting, HaltStops, HaltedIsDown,
        NoAnswer
<1> QED
  BY <1>3, <1>4 DEF Halt

LEMMA BootStartAnswers == ASSUME Inv, BootStart PROVE Answering' /\ Halting'
<1>1. PICK disk \in Disk :
        LET s == [Enter(disk) EXCEPT !.st = "idle"]
        IN  \/ p.refused /\ Rest([s EXCEPT !.st = "refused"])
            \/ Leave(Begin("start", Called, s), callers + 1)
            \/ Leave([s EXCEPT !.wanted = "stopped", !.retry = NoTimer,
                               !.save = TRUE, !.fate = "idle"], callers)
            \/ Rest(s)
  <2>1. PICK reported \in Reported, disk \in Disk :
          LET s == [Enter(disk) EXCEPT !.st = "idle"]
              view == BootView(reported)
              rule == IF view = "managed" THEN "none" ELSE Boot(p, view)
          IN  IF s.refused
              THEN Rest([s EXCEPT !.st = "refused"])
              ELSE CASE rule = "start" -> Leave(Begin("start", Called, s), callers + 1)
                     [] rule = "demote" ->
                          Leave([s EXCEPT !.wanted = "stopped", !.retry = NoTimer,
                                          !.save = TRUE, !.fate = "idle"], callers)
                     [] OTHER -> Rest(s)
    BY DEF BootStart
  <2>2. Enter(disk).refused = p.refused /\ [Enter(disk) EXCEPT !.st = "idle"].refused
                                             = p.refused
    BY TypedFacts DEF Inv, Enter, Procs
  <2> QED
    BY <2>1, <2>2
<1> DEFINE s == [Enter(disk) EXCEPT !.st = "idle"]
<1>2. s \in Procs /\ Balanced(s) /\ s.run = p.run /\ s.fate = "stay"
  <2>1. /\ Enter(disk) \in Procs /\ Balanced(Enter(disk)) /\ Enter(disk).run = p.run
        /\ Enter(disk).fate = "stay"
    BY EnterFacts DEF Inv, Answering
  <2> QED
    BY <2>1 DEF Procs, States, Balanced
<1>3. \/ Rest([s EXCEPT !.st = "refused"])
      \/ Leave(Begin("start", Called, s), callers + 1)
      \/ Leave([s EXCEPT !.wanted = "stopped", !.retry = NoTimer,
                         !.save = TRUE, !.fate = "idle"], callers)
      \/ Rest(s)
  BY <1>1
<1> HIDE DEF s
<1>4. ~p.run.from /\ callers = 0 /\ box' = box
  <2>1. p.st # "busy"
    BY DEF BootStart
  <2> QED
    BY <2>1 DEF Inv, Answering, Calm, EveryCallerAnsweredOnce, BootStart
<1>5. ASSUME NEW d \in Procs, Rest(d), d.run = p.run PROVE Answering' /\ Halting'
  BY <1>4, <1>5, RestAnswers, RestHalts DEF Inv
<1>6. CASE Rest(s) \/ Rest([s EXCEPT !.st = "refused"])
  <2>1. [s EXCEPT !.st = "refused"] \in Procs /\ [s EXCEPT !.st = "refused"].run = p.run
    BY <1>2 DEF Procs, States
  <2> QED
    BY <1>2, <1>5, <1>6, <2>1
<1>7. CASE Leave(Begin("start", Called, s), callers + 1)
  <2> DEFINE t == Begin("start", Called, s)
  <2>1. Called \in Args /\ Called.from /\ "start" \in Ops
    BY DEF Called, Args, Ops
  <2>2. t \in Procs /\ t.run.from /\ t.run.op = "start" /\ t.st = "busy" /\ Balanced(t)
    BY <1>2, <2>1, BeginType, BeginCarries
  <2>3. Leave(t, callers + 1)
    BY <1>7
  <2> HIDE DEF t
  <2>4. callers + 1 = Owing(t)
    BY <1>4, <2>2 DEF Owing
  <2> QED
    BY <2>2, <2>3, <2>4, LeaveAnswers, LeaveHalts
<1>8. CASE Leave([s EXCEPT !.wanted = "stopped", !.retry = NoTimer,
                           !.save = TRUE, !.fate = "idle"], callers)
  <2> DEFINE t == [s EXCEPT !.wanted = "stopped", !.retry = NoTimer,
                            !.save = TRUE, !.fate = "idle"]
  <2>1. "stopped" \in Wants /\ NoTimer \in Armed /\ "idle" \in Fates
    BY DEF Wants, Armed, Fates
  <2>2. t \in Procs /\ ~t.run.from /\ t.fate = "idle" /\ t.reply = "none"
    BY <1>2, <1>4, <2>1 DEF Procs, Balanced
  <2>3. Leave(t, callers)
    BY <1>8
  <2> HIDE DEF t
  <2>4. callers = Owing(t)
    BY <1>4, <2>2 DEF Owing
  <2> QED
    BY <2>2, <2>3, <2>4, LeaveAnswers, LeaveHalts
<1> QED
  BY <1>3, <1>6, <1>7, <1>8

LEMMA SettingAnswers ==
  ASSUME Inv, SetOptions \/ SetWatchdog PROVE Answering' /\ Halting'
<1>1. p'.run = p.run /\ p'.st = p.st /\ p'.fate = p.fate /\ p'.reply = p.reply
  BY TypedFacts DEF Inv, SetOptions, SetWatchdog, Procs
<1> QED
  BY <1>1, Unchanging DEF Inv, SetOptions, SetWatchdog

LEMMA HandleAnswers ==
  ASSUME Inv, NEW s \in Procs, NEW m \in Messages, Handle(m, s), SameRun(p, s),
         s.st # "busy", Balanced(s), UNCHANGED box
  PROVE  Answering' /\ Halting'
<1>1. ~s.run.from /\ callers = 0
  BY DEF SameRun, Inv, Answering, Calm, EveryCallerAnsweredOnce
<1>2. ASSUME NEW d \in Procs, Rest(d), SameRun(s, d) PROVE Answering' /\ Halting'
  BY <1>2, RestStep DEF SameRun
<1>3. CASE m.kind = "retry"
  <2> DEFINE a == [Called EXCEPT !.from = FALSE, !.retry = TRUE]
             t == Begin("start", a, s)
  <2>1. CASE Leave(t, callers)
    <3>1. a \in Args /\ ~a.from /\ "start" \in Ops
      BY DEF Called, Args, Ops
    <3> HIDE DEF a
    <3>2. t \in Procs /\ ~t.run.from /\ t.run.op = "start" /\ t.st = "busy" /\ Balanced(t)
      BY <3>1, BeginType, BeginCarries
    <3> HIDE DEF t
    <3>3. callers = Owing(t)
      BY <1>1, <3>2 DEF Owing
    <3> QED
      BY <2>1, <3>2, <3>3, LeaveAnswers, LeaveHalts
  <2>2. CASE Rest(s)
    BY <1>2, <2>2 DEF SameRun
  <2> QED
    BY <1>3, <2>1, <2>2 DEF Handle
<1>4. CASE m.kind = "settled"
  <2>1. [s EXCEPT !.attempt = 0] \in Procs
    <3>1. 0 \in Attempts
      BY BoundsAssumption DEF Attempts
    <3> QED
      BY <3>1 DEF Procs
  <2>2. SameRun(s, s) /\ SameRun(s, [s EXCEPT !.attempt = 0])
    BY DEF SameRun, Procs
  <2> QED
    BY <1>2, <1>4, <2>1, <2>2 DEF Handle
<1>5. CASE m.kind = "probe"
  <2>1. [s EXCEPT !.probing = TRUE] \in Procs
    BY DEF Procs
  <2>2. SameRun(s, s) /\ SameRun(s, [s EXCEPT !.probing = TRUE])
    BY DEF SameRun, Procs
  <2> QED
    BY <1>2, <1>5, <2>1, <2>2 DEF Handle
<1>6. CASE m.kind \notin {"retry", "settled", "probe"}
  <2>1. OnEvent(m, s) \in Procs /\ SameRun(s, OnEvent(m, s)) /\ SameRun(s, s)
    BY OnEventType, OnEventKeeps DEF SameRun
  <2> QED
    BY <1>2, <1>6, <2>1 DEF Handle
<1> QED
  BY <1>3, <1>4, <1>5, <1>6

LEMMA PostponeAnswers ==
  ASSUME Inv, NEW m, Postpone(m), SameRun(p, p'), p'.fate = p.fate, p'.reply = p.reply,
         UNCHANGED box
  PROVE  Answering' /\ Halting'
BY Unchanging DEF Inv, Postpone, SameRun

LEMMA DeliverAnswers == ASSUME Inv, Deliver PROVE Answering' /\ Halting'
<1>1. Head(wire) \in Messages /\ box' = box
  <2>1. wire \in Seq(Events) /\ wire # <<>>
    BY TypedFacts DEF Deliver, Inv
  <2>2. Head(wire) \in Events
    BY <2>1, SomeKept
  <2> QED
    BY <2>2 DEF Deliver, Messages
<1>2. CASE Postpone(Head(wire)) /\ UNCHANGED p
  BY <1>1, <1>2, PostponeAnswers DEF SameRun
<1>3. CASE UNCHANGED <<p, postponed, file, callers, answer>>
  BY <1>1, <1>3
  DEF Inv, Answering, Calm, EveryCallerAnsweredOnce, Halting, HaltStops, HaltedIsDown
<1>4. CASE p.st # "busy" /\ \E disk \in Disk : Handle(Head(wire), Enter(disk))
  <2>1. PICK disk \in Disk : Handle(Head(wire), Enter(disk))
    BY <1>4
  <2>2. /\ Enter(disk) \in Procs /\ Balanced(Enter(disk))
        /\ SameRun(p, Enter(disk)) /\ Enter(disk).st # "busy"
    BY <1>4, EnterFacts DEF Inv, Answering, SameRun
  <2> QED
    BY <1>1, <2>1, <2>2, HandleAnswers
<1> QED
  BY <1>2, <1>3, <1>4 DEF Deliver

LEMMA ReplayAnswers == ASSUME Inv, Replay PROVE Answering' /\ Halting'
<1>1. Head(postponed) \in Messages /\ box' = box /\ p.st # "busy"
  <2>1. postponed \in Seq(Messages) /\ postponed # <<>>
    BY TypedFacts DEF Replay, Inv
  <2> QED
    BY <2>1, SomeKept DEF Replay
<1>2. PICK disk \in Disk : Handle(Head(postponed), Enter(disk))
  BY DEF Replay
<1>3. /\ Enter(disk) \in Procs /\ Balanced(Enter(disk))
      /\ SameRun(p, Enter(disk)) /\ Enter(disk).st # "busy"
  BY <1>1, EnterFacts DEF Inv, Answering, SameRun
<1> QED
  BY <1>1, <1>2, <1>3, HandleAnswers

LEMMA FiresAnswers ==
  ASSUME Inv, NEW m \in Messages, NEW d \in Procs, Fires(m, d), SameRun(p, d),
         d.fate = p.fate, d.reply = p.reply
  PROVE  Answering' /\ Halting'
<1>1. box' = box
  BY DEF Fires
<1>2. CASE Postpone(m) /\ p' = d
  BY <1>1, <1>2, PostponeAnswers
<1>3. CASE /\ p.st # "busy"
           /\ \E disk \in Disk :
                Handle(m, [d EXCEPT !.shutting_down = inflight, !.disk = disk])
  <2>1. PICK disk \in Disk :
          Handle(m, [d EXCEPT !.shutting_down = inflight, !.disk = disk])
    BY <1>3
  <2> DEFINE s == [d EXCEPT !.shutting_down = inflight, !.disk = disk]
  <2>2. inflight \in BOOLEAN /\ disk \in BOOLEAN
    BY DiskType DEF Inv, Typed, TypeOK
  <2>3. s \in Procs /\ SameRun(d, s) /\ s.fate = d.fate /\ s.reply = d.reply
    BY ZenonT(60), <2>2 DEF Procs, SameRun
  <2>4. Handle(m, s)
    BY <2>1
  <2> HIDE DEF s
  <2>5. SameRun(p, s) /\ s.st # "busy" /\ Balanced(s)
    BY <1>3, <2>3 DEF SameRun, Inv, Answering, Calm, Balanced
  <2> QED
    BY <1>1, <2>3, <2>4, <2>5, HandleAnswers
<1> QED
  BY <1>2, <1>3 DEF Fires

LEMMA TimerAnswers == ASSUME Inv, TimerStep PROVE Answering' /\ Halting'
<1>1. /\ [p EXCEPT !.retry = NoTimer] \in Procs
      /\ [p EXCEPT !.settled = FALSE] \in Procs
      /\ [p EXCEPT !.probe = FALSE] \in Procs
  BY ZenonT(60), TypedFacts DEF Inv, Procs, Armed
<1>2. \A d \in {[p EXCEPT !.retry = NoTimer], [p EXCEPT !.settled = FALSE],
                [p EXCEPT !.probe = FALSE]} :
        SameRun(p, d) /\ d.fate = p.fate /\ d.reply = p.reply
  BY TypedFacts DEF Inv, Procs, SameRun
<1>3. /\ p.retry # NoTimer => Event("retry", p.retry) \in Messages
      /\ Event("settled", 0) \in Messages
      /\ Event("probe", 0) \in Messages
  BY DEF Event, Messages, TimerKinds, Held, Armed, Inv, Typed, TypeOK, Procs
<1>4. CASE RetryTimer
  BY <1>1, <1>2, <1>3, <1>4, FiresAnswers DEF RetryTimer
<1>5. CASE SettledTimer
  BY <1>1, <1>2, <1>3, <1>5, FiresAnswers DEF SettledTimer
<1>6. CASE ProbeTimer
  BY <1>1, <1>2, <1>3, <1>6, FiresAnswers DEF ProbeTimer
<1> QED
  BY <1>4, <1>5, <1>6 DEF TimerStep

LEMMA ProbeAnswers == ASSUME Inv, ProbeAnswer PROVE Answering' /\ Halting'
<1> DEFINE s == [Enter(TRUE) EXCEPT !.probing = FALSE]
<1>1. PICK result \in {"healthy", "unhealthy", "skip"} : Rest(Strike(result, s))
  BY DEF ProbeAnswer
<1>2. s \in Procs /\ SameRun(p, s)
  <2>1. Enter(TRUE) \in Procs /\ SameRun(p, Enter(TRUE))
    BY EnterFacts DEF Disk, Inv, Answering, SameRun
  <2> QED
    BY ZenonT(60), <2>1 DEF Procs, SameRun
<1> HIDE DEF s
<1>3. Strike(result, s) \in Procs /\ SameRun(p, Strike(result, s))
  BY <1>2, StrikeType, StrikeKeeps DEF SameRun
<1> QED
  BY <1>1, <1>3, RestStep DEF ProbeAnswer

(* A new process owes nothing and no halt is at work in it. *)
LEMMA FreshAnswers ==
  ASSUME callers' = 0, answer' = NoAnswer, p'.run = NoRun, p'.fate = "stay",
         p'.reply = "none"
  PROVE  Answering' /\ Halting'
BY DEF Answering, Calm, EveryCallerAnsweredOnce, Halting, HaltStops, HaltedIsDown,
       NoAnswer, NoRun

LEMMA ExpireAnswers == ASSUME Inv, Expire \/ Crash PROVE Answering' /\ Halting'
<1>1. Expire => callers = 0
  BY DEF Expire, Inv, Answering, Calm, EveryCallerAnsweredOnce
<1>2. Fresh.run = NoRun /\ Fresh.fate = "stay" /\ Fresh.reply = "none"
  BY DEF Fresh
<1> QED
  BY <1>1, <1>2, FreshAnswers DEF Expire, Crash

LEMMA SpawnAnswers == ASSUME Inv, Spawn PROVE Answering' /\ Halting'
<1>1. callers' = 0 /\ answer' = NoAnswer
  BY DEF Spawn, Inv, Answering, Calm, EveryCallerAnsweredOnce
<1>2. \A port : /\ Loaded(port).run = NoRun /\ Loaded(port).fate = "stay"
                /\ Loaded(port).reply = "none"
  BY DEF Loaded, Fresh
<1>3. p'.run = NoRun /\ p'.fate = "stay" /\ p'.reply = "none"
  BY <1>2 DEF Spawn, Fresh
<1> QED
  BY <1>1, <1>3, FreshAnswers

LEMMA TaskAnswers == ASSUME Inv, TaskStep PROVE Answering' /\ Halting'
<1>1. PICK r \in RunTasks : Finished(r)
  BY DEF TaskStep, Check, WorkElsewhere, WorkStop, WorkHalt, WorkStart, RunTasks, Outcomes
<1>2. /\ p'.run.from = p.run.from /\ p'.run.op = p.run.op
      /\ p'.run.step = p.run.step /\ p'.st = p.st /\ p'.fate = p.fate
      /\ p'.reply = p.reply /\ callers' = callers /\ answer' = NoAnswer
  <2>1. p \in Procs /\ p' = [p EXCEPT !.run.task = r]
    BY <1>1, TypedFacts DEF Finished, Inv
  <2> QED
    BY <1>1, <2>1 DEF Finished, Procs, Runs
<1>3. p'.run.task = r
  BY <1>1, TypedFacts DEF Finished, Inv, Procs, Runs
<1>4. p.run.op = "halt" => p.run.step = "halt_stop"
  BY DEF Inv, Halting, HaltStops
<1>5. p.run.step = "halt_stop" => WorkHalt
  BY DEF TaskStep, Check, Guarded, WorkElsewhere, WorkStop, WorkStart
<1>6. WorkHalt => (p'.run.task = "ok" => ~box'.up)
  <2>1. p \in Procs /\ box \in Boxes
    BY DEF Inv, Typed, TypeOK
  <2>2. \A v : [p EXCEPT !.run.task = v].run.task = v
    BY <2>1 DEF Procs, Runs
  <2>3. ~[box EXCEPT !.up = FALSE].up
    BY <2>1 DEF Boxes
  <2> QED
    BY <2>2, <2>3 DEF WorkHalt, Finished
<1>7. Answering'
  BY <1>2 DEF Inv, Answering, Calm, EveryCallerAnsweredOnce
<1>8. Halting'
  BY <1>2, <1>4, <1>5, <1>6 DEF Halting, HaltStops, HaltedIsDown, NoAnswer
<1> QED
  BY <1>7, <1>8

LEMMA OutcomeStep ==
  ASSUME Inv, NEW disk \in Disk, NEW r, NEW id \in Held,
         Leave(Settle(Enter(disk), r, id), callers), UNCHANGED box,
         r = p.run.task \/ r \in {"died", "timeout"}
  PROVE  Answering' /\ Halting'
<1> DEFINE s == Enter(disk)
           t == Settle(s, r, id)
<1>2. s \in Procs /\ Balanced(s) /\ s.run = p.run /\ s.st = p.st /\ s.fate = "stay"
  BY EnterFacts DEF Inv, Answering
<1> HIDE DEF s
<1>3. t \in Procs /\ (Carries(s, t) \/ Carries(OptionsTaken(s), t))
  BY <1>2, SettleType, SettleCarries
<1>4. Leave(t, callers)
  BY DEF s
<1>5. p.run.op = "halt" => t.fate # "stay" /\ (t.reply = "ok" => ~box'.up)
  <2>1. SUFFICES ASSUME p.run.op = "halt" PROVE t.fate # "stay" /\ (t.reply = "ok" => ~box'.up)
    OBVIOUS
  <2>2. s.run.step = "halt_stop" /\ (p.run.task = "ok" => ~box.up) /\ box' = box
    BY <1>2, <2>1 DEF Inv, Halting, HaltStops
  <2>3. t = HaltDone(s, r)
    BY <2>2 DEF Settle
  <2>4. t.fate # "stay" /\ (t.reply = "ok" => r = "ok")
    BY <1>2, <2>3, ReleaseType DEF HaltDone, Procs
  <2> QED
    BY <2>2, <2>4
<1> HIDE DEF t
<1>6. t.run.from = p.run.from /\ t.run.op = p.run.op /\ t.st = p.st /\ Balanced(t)
  BY <1>2, <1>3, OptionsTakenType DEF Constant, Carries
<1>7. callers = Owing(t) /\ (t.run.from => t.st = "busy")
  BY <1>6 DEF Owing, Inv, Answering, Calm, EveryCallerAnsweredOnce
<1> QED
  BY <1>3, <1>4, <1>5, <1>6, <1>7, LeaveAnswers, LeaveHalts

LEMMA OutcomeAnswers == ASSUME Inv, Done \/ TaskLost PROVE Answering' /\ Halting'
<1>1. box.id \in Held /\ 0 \in Held
  BY DEF Inv, Typed, TypeOK, Boxes, Held
<1>2. CASE Done
  <2>1. PICK disk \in Disk : Leave(Settle(Enter(disk), p.run.task, box.id), callers)
    BY <1>2 DEF Done
  <2>2. UNCHANGED box
    BY <1>2 DEF Done
  <2> QED
    BY <1>1, <2>1, <2>2, OutcomeStep
<1>3. CASE TaskLost
  <2>1. PICK disk \in Disk, r \in {"died", "timeout"} :
          Leave(Settle(Enter(disk), r, 0), callers)
    BY <1>3 DEF TaskLost
  <2>2. UNCHANGED box
    BY <1>3 DEF TaskLost
  <2> QED
    BY <1>1, <2>1, <2>2, OutcomeStep
<1> QED
  BY <1>2, <1>3

LEMMA SurroundingsAnswer == ASSUME Inv, Surroundings PROVE Answering' /\ Halting'
<1>1. box'.up => box.up
  <2>1. ~[box EXCEPT !.up = FALSE].up
    BY DEF Inv, Typed, TypeOK, Boxes
  <2> QED
    BY <2>1 DEF Surroundings, BoxDies, BoxHealth, Lose, BeginShutdown, AbandonShutdown
<1>2. p' = p /\ callers' = callers /\ answer' = NoAnswer
  BY DEF Surroundings, BoxDies, BoxHealth, Lose, BeginShutdown, AbandonShutdown
<1> QED
  BY <1>1, <1>2, Unchanging DEF Inv

-----------------------------------------------------------------------------

LEMMA InvInit == ASSUME Init PROVE Inv
<1>1. Answering /\ Halting
  BY DEF Init, Fresh, NoRun, NoAnswer, Answering, Calm, EveryCallerAnsweredOnce, Halting,
         HaltStops, HaltedIsDown
<1> QED
  BY <1>1, InitTyped DEF Inv

LEMMA InvNext == ASSUME Inv, [Next]_vars PROVE Inv'
<1>1. Typed'
  BY NextTyped DEF Inv
<1>2. CASE Next
  <2>1. Answering' /\ Halting'
    BY <1>2, CommandAnswers, HaltAnswers, BootStartAnswers, SettingAnswers,
       DeliverAnswers, ReplayAnswers, TimerAnswers, ProbeAnswers, ExpireAnswers,
       TaskAnswers, OutcomeAnswers, SurroundingsAnswer, SpawnAnswers
    DEF Next
  <2> QED
    BY <1>1, <2>1 DEF Inv
<1>3. CASE UNCHANGED vars
  BY <1>1, <1>3
  DEF vars, Inv, Answering, Calm, EveryCallerAnsweredOnce, Halting, HaltStops,
      HaltedIsDown
<1> QED
  BY <1>2, <1>3

(* Every caller that waits on an operation is answered once, whichever way *)
(* the operation ends: run_effects/4 with every end of next/3, a halt that *)
(* pre-empts, a dead task, a failed save of an install, and a crash.       *)
THEOREM CallersAnsweredOnce == Spec => []EveryCallerAnsweredOnce
<1>1. Inv => EveryCallerAnsweredOnce
  BY DEF Inv, Answering
<1>2. Init => Inv
  BY InvInit
<1>3. Inv /\ [Next]_vars => Inv'
  BY InvNext
<1> QED
  BY <1>1, <1>2, <1>3, PTL DEF Spec

(* A halt that is answered with ok has stopped whatever container of the   *)
(* app there was: the start it pre-empted, or one it never heard of.       *)
THEOREM HaltStopsTheContainer == Spec => []HaltedIsDown
<1>1. Inv => HaltedIsDown
  BY DEF Inv, Halting
<1>2. Init => Inv
  BY InvInit
<1>3. Inv /\ [Next]_vars => Inv'
  BY InvNext
<1> QED
  BY <1>1, <1>2, <1>3, PTL DEF Spec

=============================================================================
