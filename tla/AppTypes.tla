------------------------------ MODULE AppTypes ------------------------------
(***************************************************************************)
(* AppServer's type invariant for every value of its constants.            *)
(***************************************************************************)
EXTENDS AppServer, SequenceTheorems, TLAPS

LEMMA CancelTimersType ==
  ASSUME NEW s \in Procs PROVE CancelTimers(s) \in Procs
BY ZenonT(60) DEF CancelTimers, Procs, Armed

LEMMA PutStepsType ==
  ASSUME NEW s \in Procs, NEW steps \in Seq(StepNames) PROVE PutSteps(s, steps) \in Procs
BY DEF PutSteps, Procs, Runs

LEMMA RetryType ==
  ASSUME NEW s \in Procs PROVE Retry(s) \in Procs
<1> DEFINE n == IF s.attempt < MaxAttempts THEN s.attempt + 1 ELSE s.attempt
<1>1. s.attempt \in Attempts /\ s.cid \in Armed
  BY DEF Procs, Armed
<1>2. n \in Attempts
  BY <1>1, BoundsAssumption DEF Attempts
<1> HIDE DEF n
<1>3. [s EXCEPT !.attempt = n, !.retry = s.cid] \in Procs
  BY <1>1, <1>2 DEF Procs
<1> QED
  BY <1>3 DEF Retry, n

LEMMA ReleaseType ==
  ASSUME NEW s \in Procs PROVE Release(s) \in Procs
<1> DEFINE kept == IF Len(s.released) < ReleasedKept THEN Len(s.released) + 1
                   ELSE ReleasedKept
           list == SubSeq(<<s.cid>> \o s.released, 1, kept)
<1>1. s.released \in Seq(Ids) /\ s.cid \in Held /\ 0 \in Held
  BY DEF Procs, Held
<1>2. ASSUME s.cid # 0 PROVE list \in Seq(Ids)
  <2>1. s.cid \in Ids /\ <<s.cid>> \in Seq(Ids)
    BY <1>1, <1>2 DEF Held
  <2>2. /\ <<s.cid>> \o s.released \in Seq(Ids)
        /\ Len(<<s.cid>> \o s.released) = Len(s.released) + 1
    BY <1>1, <2>1
  <2>3. kept \in Nat /\ kept <= Len(s.released) + 1
    BY <1>1, BoundsAssumption
  <2> HIDE DEF kept
  <2>4. \A i \in 1..kept : (<<s.cid>> \o s.released)[i] \in Ids
    BY <2>2, <2>3
  <2> QED
    BY <2>2, <2>3, <2>4, SubSeqProperties
<1> HIDE DEF list
<1>3. ASSUME s.cid # 0 PROVE [s EXCEPT !.cid = 0, !.released = list] \in Procs
  BY <1>1, <1>2, <1>3 DEF Procs
<1> QED
  BY <1>3 DEF Release, list

LEMMA DropRunKeysType ==
  ASSUME NEW s \in Procs PROVE DropRunKeys(s) \in Procs
<1> DEFINE k == s.keys \ (DnsKeys(s) \cup IF s.token THEN {"token"} ELSE {})
<1>1. k \in KeySets
  BY DEF Procs, KeySets
<1> HIDE DEF k
<1>2. [s EXCEPT !.keys = k, !.token = FALSE, !.ip = FALSE] \in Procs
  BY <1>1 DEF Procs
<1> QED
  BY <1>2 DEF DropRunKeys, k

LEMMA DiedType ==
  ASSUME NEW s \in Procs, NEW ev \in {"exited0", "exited"} PROVE Died(s, ev) \in Procs
<1>1. DropRunKeys(s) \in Procs /\ ev \in Seen /\ "none" \in Healths
  BY DropRunKeysType DEF Seen, Healths
<1> DEFINE d == [DropRunKeys(s) EXCEPT !.health = "none", !.probe = FALSE,
                                       !.settled = FALSE, !.ev = ev]
<1>2. d \in Procs
  BY ZenonT(60), <1>1 DEF Procs
<1> HIDE DEF d
<1>3. Retry(d) \in Procs
  BY <1>2, RetryType
<1> QED
  BY <1>2, <1>3 DEF Died, d

LEMMA HealthSeenType ==
  ASSUME NEW s \in Procs, NEW h \in {"healthy", "unhealthy"}
  PROVE  HealthSeen(s, h) \in Procs
<1> DEFINE ev == IF s.ev = "failed_probe" THEN s.ev ELSE h
           d == [s EXCEPT !.health = h, !.ev = ev]
<1>1. h \in Healths /\ ev \in Seen
  BY DEF Procs, Seen, Healths
<1> HIDE DEF ev
<1>2. d \in Procs
  BY <1>1 DEF Procs
<1> HIDE DEF d
<1>3. Retry(d) \in Procs
  BY <1>2, RetryType
<1> QED
  BY <1>2, <1>3 DEF HealthSeen, d, ev

LEMMA OnEventType ==
  ASSUME NEW s \in Procs, NEW e \in Messages PROVE OnEvent(e, s) \in Procs
<1>1. CASE e.kind = "start"
  <2>1. e.id \in Held
    BY <1>1 DEF Messages, Events, TimerKinds, Held
  <2>2. [s EXCEPT !.cid = e.id, !.health = "none", !.ev = "running"] \in Procs
    BY <2>1 DEF Procs, Healths, Seen
  <2> QED
    BY <1>1, <2>2 DEF OnEvent
<1>2. CASE e.kind \in {"exited0", "exited"}
  BY <1>2, DiedType DEF OnEvent
<1>3. CASE e.kind \in {"healthy", "unhealthy"}
  BY <1>3, HealthSeenType DEF OnEvent
<1>4. CASE e.kind \notin {"start", "exited0", "exited", "healthy", "unhealthy"}
  BY <1>4 DEF OnEvent
<1> QED
  BY <1>1, <1>2, <1>3, <1>4

LEMMA StrikeType ==
  ASSUME NEW s \in Procs, NEW result \in {"healthy", "unhealthy", "skip"}
  PROVE  Strike(result, s) \in Procs
<1>1. /\ s.strikes \in StrikeCounts /\ 0 \in StrikeCounts
      /\ "failed_probe" \in Seen
      /\ s.strikes + 1 < Strikes => s.strikes + 1 \in StrikeCounts
  BY BoundsAssumption DEF Procs, StrikeCounts, Seen
<1>2. /\ [s EXCEPT !.strikes = 0, !.probe = TRUE] \in Procs
      /\ [s EXCEPT !.probe = TRUE] \in Procs
      /\ [s EXCEPT !.strikes = 0] \in Procs
      /\ [s EXCEPT !.strikes = 0, !.ev = "failed_probe"] \in Procs
  BY ZenonT(60), <1>1 DEF Procs
<1>3. ASSUME s.strikes + 1 < Strikes
      PROVE  [s EXCEPT !.strikes = s.strikes + 1, !.probe = TRUE] \in Procs
  BY <1>1, <1>3 DEF Procs
<1>4. Retry([s EXCEPT !.strikes = 0]) \in Procs
  BY <1>2, RetryType
<1> QED
  BY <1>2, <1>3, <1>4 DEF Strike

LEMMA ImageRetryType ==
  ASSUME NEW s \in Procs, NEW reason PROVE ImageRetry(s, reason) \in Procs
<1> DEFINE n == IF s.img < RefusedTries THEN s.img + 1 ELSE s.img
<1>1. s.img \in ImageTries /\ s.cid \in Armed
  BY DEF Procs, Armed
<1>2. n \in ImageTries
  BY <1>1, BoundsAssumption DEF ImageTries
<1> HIDE DEF n
<1>3. [s EXCEPT !.img = n, !.retry = s.cid] \in Procs
  BY <1>1, <1>2 DEF Procs
<1> QED
  BY <1>3 DEF ImageRetry, n

LEMMA CloseType ==
  ASSUME NEW s \in Procs, NEW reply \in Replies PROVE Close(s, reply) \in Procs
<1>1. ASSUME NEW d \in Procs
      PROVE  [d EXCEPT !.save = TRUE, !.reply = reply, !.fate = "idle"] \in Procs
  BY ZenonT(60) DEF Procs, Fates
<1> QED
  BY <1>1, RetryType, ImageRetryType DEF Close

LEMMA FailType ==
  ASSUME NEW s \in Procs PROVE Fail(s) \in Procs
<1>1. [s EXCEPT !.reply = "error", !.fate = "exit"] \in Procs
  BY DEF Procs, Fates, Replies
<1>2. Close(s, "error") \in Procs
  BY CloseType DEF Replies
<1> QED
  BY <1>1, <1>2 DEF Fail

LEMMA FinishType ==
  ASSUME NEW s \in Procs PROVE Finish(s) \in Procs
<1>1. s.run.result \in {"none", "ok", "error"}
  BY DEF Procs, Runs
<1>2. ASSUME NEW r \in {"ok", "error"}
      PROVE  /\ [s EXCEPT !.reply = r, !.fate = "idle"] \in Procs
             /\ [s EXCEPT !.reply = r, !.fate = "exit"] \in Procs
             /\ [s EXCEPT !.save = TRUE, !.fate = "idle", !.reply = r] \in Procs
  <2>1. [s EXCEPT !.reply = r, !.fate = "idle"] \in Procs
    BY DEF Procs, Fates, Replies
  <2>2. [s EXCEPT !.reply = r, !.fate = "exit"] \in Procs
    BY DEF Procs, Fates, Replies
  <2>3. [s EXCEPT !.save = TRUE, !.fate = "idle", !.reply = r] \in Procs
    BY DEF Procs, Fates, Replies
  <2> QED
    BY <2>1, <2>2, <2>3
<1> QED
  BY <1>1, <1>2 DEF Finish

-----------------------------------------------------------------------------

LEMMA IngressKeysType ==
  ASSUME NEW s PROVE IngressKeys(s) \in KeySets
BY DEF IngressKeys, KeyNames, KeySets

LEMMA DnsKeysType ==
  ASSUME NEW s PROVE DnsKeys(s) \in KeySets
BY DEF DnsKeys, KeyNames, KeySets

LEMMA KeysType ==
  ASSUME NEW s PROVE Keys(s) \in KeySets
BY IngressKeysType, DnsKeysType DEF Keys, KeyNames, KeySets

LEMMA ReconfigureType ==
  ASSUME NEW s \in Procs, NEW version \in SavedVersions
  PROVE  Reconfigure(s, version) \in Procs
<1> DEFINE d == [s EXCEPT !.ver = version,
                          !.port = s.port /\ IngressOf[version] = "dynamic"]
           k == (d.keys \cup (IngressKeys(d) \ IngressKeys(s)))
                \ (IngressKeys(s) \ IngressKeys(d))
<1>1. d \in Procs
  BY ZenonT(60) DEF Procs
<1> HIDE DEF d
<1>2. k \in KeySets
  BY <1>1, IngressKeysType DEF KeySets, Procs
<1> HIDE DEF k
<1>3. [d EXCEPT !.keys = k, !.save = TRUE] \in Procs
  BY <1>1, <1>2 DEF Procs
<1> QED
  BY <1>3 DEF Reconfigure, d, k

LEMMA CommitInstallType ==
  ASSUME NEW s \in Procs PROVE CommitInstall(s) \in Procs
<1> DEFINE d == [s EXCEPT !.ver = 1, !.save = TRUE,
                          !.watchdog = s.watchdog \/ s.run.starts,
                          !.wanted = IF s.run.starts THEN "started" ELSE "stopped"]
           k == d.keys \cup (IngressKeys(d) \cap {"ingress"})
<1>1. /\ 1 \in SavedVersions
      /\ (IF s.run.starts THEN "started" ELSE "stopped") \in Wants
      /\ s.watchdog \in BOOLEAN /\ s.run.starts \in BOOLEAN
  BY DEF Wants, SavedVersions, Versions, Procs, Runs
<1>2. d \in Procs
  BY ZenonT(60), <1>1 DEF Procs
<1> HIDE DEF d
<1>3. k \in KeySets
  BY <1>2, IngressKeysType DEF KeySets, Procs
<1> HIDE DEF k
<1>4. [d EXCEPT !.keys = k] \in Procs
  BY <1>2, <1>3 DEF Procs
<1> QED
  BY <1>4 DEF CommitInstall, d, k

LEMMA DeleteFileType ==
  ASSUME NEW s \in Procs PROVE DeleteFile(s) \in Procs
<1> DEFINE k == s.keys \cup IngressKeys(s)
<1>1. k \in KeySets
  BY IngressKeysType DEF KeySets, Procs
<1> HIDE DEF k
<1>2. [s EXCEPT !.gone = TRUE] \in Procs /\ [s EXCEPT !.keys = k] \in Procs
  BY <1>1 DEF Procs
<1>3. Fail([s EXCEPT !.keys = k]) \in Procs
  BY <1>2, FailType
<1> QED
  BY <1>2, <1>3 DEF DeleteFile, k

-----------------------------------------------------------------------------
(* Running an operation's steps. *)

LEMMA StartStepsType == StartSteps \in Seq(StepNames)
BY DEF StartSteps, StepNames, TaskSteps

LEMMA StepsType ==
  ASSUME NEW s, NEW op, NEW a PROVE Steps(op, a, s) \in Seq(StepNames)
<1> DEFINE start == IF a.starts THEN StartSteps ELSE <<>>
           pre == IF Hooks THEN <<"exec_pre">> ELSE <<>>
           post == IF Hooks THEN <<"exec_post">> ELSE <<>>
           first == IF a.backup THEN <<"pull", "stop_strict", "snapshot">>
                    ELSE <<"pull", "stop">>
<1>1. /\ start \in Seq(StepNames) /\ pre \in Seq(StepNames)
      /\ post \in Seq(StepNames) /\ first \in Seq(StepNames)
  <2>1. /\ <<"exec_pre">> \in Seq(StepNames) /\ <<"exec_post">> \in Seq(StepNames)
        /\ <<"pull", "stop_strict", "snapshot">> \in Seq(StepNames)
        /\ <<"pull", "stop">> \in Seq(StepNames)
    BY DEF StepNames, TaskSteps
  <2>2. <<>> \in Seq(StepNames)
    OBVIOUS
  <2> QED
    BY <2>1, <2>2, StartStepsType
<1>2. /\ <<"pull", "port?", "commit">> \in Seq(StepNames)
      /\ <<"stop">> \in Seq(StepNames)
      /\ <<"stop", "delete_file", "remove_app">> \in Seq(StepNames)
      /\ <<"halt_stop">> \in Seq(StepNames)
      /\ <<"snapshot">> \in Seq(StepNames)
      /\ <<"stop_strict", "swap_data", "set_options">> \in Seq(StepNames)
      /\ <<"commit", "start?", "reclaim_image">> \in Seq(StepNames)
      /\ <<"stop_strict", "snapshot", "start?">> \in Seq(StepNames)
  BY DEF StepNames, TaskSteps
<1>3. \A f, g \in Seq(StepNames) : f \o g \in Seq(StepNames)
  OBVIOUS
<1> HIDE DEF start, pre, post, first
<1>4. /\ <<"stop">> \o StartSteps \in Seq(StepNames)
      /\ <<"stop_strict", "swap_data", "set_options">> \o start \in Seq(StepNames)
      /\ first \o <<"commit", "start?", "reclaim_image">> \in Seq(StepNames)
      /\ pre \o <<"snapshot">> \in Seq(StepNames)
  BY <1>1, <1>2, <1>3, StartStepsType
<1>5. pre \o <<"snapshot">> \o post \in Seq(StepNames)
  BY <1>1, <1>3, <1>4
<1> QED
  BY <1>2, <1>4, <1>5, StartStepsType DEF Steps, start, pre, post, first

LEMMA RunLocalType ==
  ASSUME NEW s \in Procs, NEW name PROVE RunLocal(name, s) \in Procs
<1>1. /\ s.run.steps \in Seq(StepNames) /\ s.run.old \in SavedVersions
      /\ Other(s.run.old) \in SavedVersions
  BY DEF Procs, Runs, Other, SavedVersions, Versions
<1>2. <<"port">> \o s.run.steps \in Seq(StepNames)
  <2>1. <<"port">> \in Seq(StepNames)
    BY DEF StepNames, TaskSteps
  <2> QED
    BY <1>1, <2>1
<1>3. StartSteps \o s.run.steps \in Seq(StepNames)
  BY <1>1, StartStepsType
<1>4. /\ PutSteps(s, <<"port">> \o s.run.steps) \in Procs
      /\ PutSteps(s, StartSteps \o s.run.steps) \in Procs
  BY <1>2, <1>3, PutStepsType
<1>5. [s EXCEPT !.token = TRUE, !.keys = s.keys \cup {"token"}] \in Procs
  <2> DEFINE k == s.keys \cup {"token"}
  <2>1. k \in KeySets
    BY DEF Procs, KeySets, KeyNames
  <2> HIDE DEF k
  <2>2. [s EXCEPT !.token = TRUE, !.keys = k] \in Procs
    BY <2>1 DEF Procs
  <2> QED
    BY <2>2 DEF k
<1>6. /\ CommitInstall(s) \in Procs /\ DeleteFile(s) \in Procs
      /\ Reconfigure(s, Other(s.run.old)) \in Procs
      /\ Reconfigure(s, s.run.old) \in Procs
  BY <1>1, CommitInstallType, DeleteFileType, ReconfigureType
<1> QED
  BY <1>4, <1>5, <1>6 DEF RunLocal

LEMMA LocalType ==
  ASSUME NEW s \in Procs PROVE Local(s) \in Procs
<1>1. ASSUME s.run.steps # <<>> PROVE Tail(s.run.steps) \in Seq(StepNames)
  BY <1>1 DEF Procs, Runs
<1>2. ASSUME s.run.steps # <<>>
      PROVE  RunLocal(Head(s.run.steps), PutSteps(s, Tail(s.run.steps))) \in Procs
  BY <1>1, <1>2, PutStepsType, RunLocalType
<1> QED
  BY <1>2 DEF Local

LEMMA BeforeTaskType ==
  ASSUME NEW s \in Procs, NEW name PROVE BeforeTask(name, s) \in Procs
<1>1. CancelTimers(s) \in Procs /\ CancelTimers(DropRunKeys(s)) \in Procs
  BY CancelTimersType, DropRunKeysType
<1>2. ASSUME NEW d \in Procs, NEW k \in KeySets
      PROVE  /\ [d EXCEPT !.keys = k, !.token = FALSE, !.ip = FALSE,
                          !.wanted = "stopped"] \in Procs
             /\ [d EXCEPT !.wanted = "stopped"] \in Procs
             /\ [d EXCEPT !.wanted = d.wanted] \in Procs
  <2>1. "stopped" \in Wants
    BY DEF Wants
  <2>2. [d EXCEPT !.keys = k, !.token = FALSE, !.ip = FALSE,
                  !.wanted = "stopped"] \in Procs
    BY ZenonT(60), <1>2, <2>1 DEF Procs
  <2>3. [d EXCEPT !.wanted = "stopped"] \in Procs
    BY <1>2, <2>1 DEF Procs
  <2>4. [d EXCEPT !.wanted = d.wanted] \in Procs
    BY <1>2 DEF Procs
  <2> QED
    BY <2>2, <2>3, <2>4
<1>3. CancelTimers(s).keys \ Keys(s) \in KeySets
  BY <1>1 DEF Procs, KeySets
<1> QED
  BY <1>1, <1>2, <1>3 DEF BeforeTask

LEMMA LaunchType ==
  ASSUME NEW s \in Procs PROVE Launch(s) \in Procs
<1>1. CASE s.run.steps = <<>>
  BY <1>1, FinishType DEF Launch
<1>2. CASE s.run.steps # <<>>
  <2> DEFINE name == Head(s.run.steps)
             b == BeforeTask(name, s)
  <2>1. b \in Procs
    BY BeforeTaskType
  <2>2. name \in RunSteps /\ "running" \in RunTasks
    BY <1>2 DEF Procs, Runs, RunSteps, RunTasks
  <2>3. Tail(b.run.steps) \in Seq(StepNames)
    <3>1. b.run = s.run
      BY DEF BeforeTask, CancelTimers, DropRunKeys, Procs
    <3> QED
      BY <1>2, <3>1 DEF Procs, Runs
  <2> HIDE DEF name, b
  <2>4. [b EXCEPT !.run.step = name, !.run.steps = Tail(b.run.steps),
                  !.run.task = "running"] \in Procs
    BY ZenonT(60), <2>1, <2>2, <2>3 DEF Procs, Runs
  <2> QED
    BY <1>2, <2>4 DEF Launch, b, name
<1> QED
  BY <1>1, <1>2

LEMMA AdvanceType ==
  ASSUME NEW s \in Procs PROVE Advance(s) \in Procs
BY LocalType, LaunchType DEF Advance

-----------------------------------------------------------------------------
(* Outcomes of a task step. *)

LEMMA PutCauseType ==
  ASSUME NEW s \in Procs
  PROVE  /\ [s EXCEPT !.run.cause = TRUE] \in Procs
         /\ [s EXCEPT !.run.cleaned = TRUE] \in Procs
BY ZenonT(60) DEF Procs, Runs

LEMMA PutResultType ==
  ASSUME NEW s \in Procs, NEW r \in {"ok", "error"}
  PROVE  [s EXCEPT !.run.result = r] \in Procs
<1>1. r \in {"none", "ok", "error"}
  OBVIOUS
<1> QED
  BY ZenonT(60), <1>1 DEF Procs, Runs

LEMMA CleanupType ==
  ASSUME NEW s \in Procs PROVE Cleanup(s) \in Procs
<1>1. <<"stop_by_name">> \in Seq(StepNames)
  BY DEF StepNames, TaskSteps
<1> QED
  BY <1>1, PutCauseType, PutStepsType, AdvanceType DEF Cleanup

LEMMA CleanedUpType ==
  ASSUME NEW s \in Procs PROVE CleanedUp(s) \in Procs
<1> DEFINE d == [Release(s) EXCEPT !.run.cleaned = TRUE]
<1>1. d \in Procs
  BY ReleaseType, PutCauseType
<1> HIDE DEF d
<1>2. Fail(d) \in Procs
  BY <1>1, FailType
<1>3. ASSUME s.run.result # "none" PROVE s.run.result \in Replies
  BY <1>3 DEF Procs, Runs, Replies
<1>4. ASSUME s.run.result # "none" PROVE Close(d, s.run.result) \in Procs
  BY <1>1, <1>3, <1>4, CloseType
<1> QED
  BY <1>2, <1>4 DEF CleanedUp, d

LEMMA ShutdownRefusedType ==
  ASSUME NEW s \in Procs PROVE ShutdownRefused(s) \in Procs
<1>1. DropRunKeys(s) \in Procs /\ "shutting_down" \in Replies /\ "idle" \in Fates
  BY DropRunKeysType DEF Replies, Fates
<1> QED
  BY <1>1 DEF ShutdownRefused, Procs

LEMMA StartedType ==
  ASSUME NEW s \in Procs, NEW id \in Held PROVE Started(s, id) \in Procs
<1> DEFINE wanted == IF s.run.op \in {"start", "restore"} THEN "started" ELSE s.wanted
           attempt == IF s.run.retry THEN s.attempt ELSE 0
           settled == s.settled \/ s.run.retry
           probe == s.probe \/ (ProbeUrl /\ s.watchdog)
           ip == ~Native
           d == [s EXCEPT !.cid = id, !.ip = ip, !.health = "none",
                          !.strikes = 0, !.ev = "running", !.wanted = wanted,
                          !.attempt = attempt, !.settled = settled, !.probe = probe]
           k == d.keys \cup DnsKeys(d)
<1>1. wanted \in Wants
  BY DEF Procs, Wants
<1>2. attempt \in Attempts /\ 0 \in StrikeCounts
  BY BoundsAssumption DEF Procs, Attempts, StrikeCounts
<1>3. settled \in BOOLEAN /\ probe \in BOOLEAN /\ ip \in BOOLEAN
  OBVIOUS
<1>4. "none" \in Healths /\ "running" \in Seen
  BY DEF Healths, Seen
<1> HIDE DEF wanted, attempt, settled, probe, ip
<1>5. d \in Procs
  <2>1. ASSUME NEW e \in Procs
        PROVE  [e EXCEPT !.wanted = wanted, !.attempt = attempt,
                         !.settled = settled, !.probe = probe] \in Procs
    BY ZenonT(60), <1>1, <1>2, <1>3 DEF Procs
  <2>2. [s EXCEPT !.cid = id, !.ip = ip, !.health = "none", !.strikes = 0,
                  !.ev = "running"] \in Procs
    BY <1>2, <1>3, <1>4 DEF Procs
  <2> QED
    BY <2>1, <2>2
<1> HIDE DEF d
<1>6. k \in KeySets
  BY <1>5, DnsKeysType DEF KeySets, Procs
<1> HIDE DEF k
<1>7. [d EXCEPT !.keys = k] \in Procs
  BY <1>5, <1>6 DEF Procs
<1> QED
  BY <1>7 DEF Started, wanted, attempt, settled, probe, ip, d, k

LEMMA StartDoneType ==
  ASSUME NEW s \in Procs, NEW id \in Held PROVE StartDone(s, id) \in Procs
<1> DEFINE d == Started(s, id)
<1>1. d \in Procs
  BY StartedType
<1> HIDE DEF d
<1>2. PutSteps([d EXCEPT !.run.result = "error"], <<>>) \in Procs
  <2>1. [d EXCEPT !.run.result = "error"] \in Procs
    BY <1>1, PutResultType
  <2>2. <<>> \in Seq(StepNames)
    OBVIOUS
  <2> QED
    BY <2>1, <2>2, PutStepsType
<1>3. /\ Finish(PutSteps([d EXCEPT !.run.result = "error"], <<>>)) \in Procs
      /\ Advance(d) \in Procs
  BY <1>1, <1>2, FinishType, AdvanceType
<1> QED
  BY <1>3 DEF StartDone, d

LEMMA StartFailedType ==
  ASSUME NEW s \in Procs, NEW why PROVE StartFailed(s, why) \in Procs
<1> DEFINE d == [DropRunKeys(s) EXCEPT !.ev = "failed"]
           back == <<"rollback_config">> \o StartSteps
<1>1. d \in Procs
  <2>1. "failed" \in Seen /\ DropRunKeys(s) \in Procs
    BY DropRunKeysType DEF Seen
  <2> QED
    BY <2>1 DEF Procs
<1>2. back \in Seq(StepNames)
  <2>1. <<"rollback_config">> \in Seq(StepNames)
    BY DEF StepNames
  <2> QED
    BY <2>1, StartStepsType
<1> HIDE DEF d, back
<1>3. Advance(PutSteps([s EXCEPT !.run.cause = TRUE], back)) \in Procs
  BY <1>2, PutCauseType, PutStepsType, AdvanceType
<1>4. /\ Fail(d) \in Procs /\ Cleanup(d) \in Procs /\ Finish(d) \in Procs
      /\ Finish(ImageRetry(d, s.run.image)) \in Procs
  BY <1>1, FailType, CleanupType, FinishType, ImageRetryType
<1> QED
  BY <1>3, <1>4 DEF StartFailed, d, back

LEMMA ImageFailedType ==
  ASSUME NEW s \in Procs, NEW why PROVE ImageFailed(s, why) \in Procs
<1> DEFINE image == IF why = "refused" THEN why ELSE "error"
<1>1. image \in {"none", "error", "refused"}
  OBVIOUS
<1> HIDE DEF image
<1>2. [s EXCEPT !.run.image = image] \in Procs
  BY ZenonT(60), <1>1 DEF Procs, Runs
<1> QED
  BY <1>2, StartFailedType DEF ImageFailed, image

LEMMA PutWasType ==
  ASSUME NEW s \in Procs, NEW was \in BOOLEAN PROVE [s EXCEPT !.run.was = was] \in Procs
BY ZenonT(60) DEF Procs, Runs

LEMMA StopDoneType ==
  ASSUME NEW s \in Procs, NEW was_running \in BOOLEAN
  PROVE  StopDone(s, was_running) \in Procs
<1> DEFINE was == was_running \/ (s.run.op = "backup" /\ s.wanted = "started")
           r == Release(s)
           wanted == IF s.run.op = "restore" THEN "stopped" ELSE r.wanted
<1>1. r \in Procs /\ was \in BOOLEAN
  BY ReleaseType
<1>2. wanted \in Wants /\ "stopped" \in Seen
  BY <1>1 DEF Procs, Wants, Seen
<1> HIDE DEF was, wanted, r
<1>3. [r EXCEPT !.ev = "stopped", !.run.was = was, !.wanted = wanted] \in Procs
  BY ZenonT(60), <1>1, <1>2 DEF Procs, Runs
<1> QED
  BY <1>3, AdvanceType DEF StopDone, was, wanted, r

LEMMA StrictStopFailedType ==
  ASSUME NEW s \in Procs PROVE StrictStopFailed(s) \in Procs
<1> DEFINE was == Running(s) \/ s.wanted = "started"
           d == [Release(s) EXCEPT !.run.result = "error", !.run.was = was]
<1>1. Release(s) \in Procs /\ was \in BOOLEAN
  BY ReleaseType DEF Running
<1> HIDE DEF was
<1>2. d \in Procs
  BY <1>1, PutResultType, PutWasType
<1>3. <<"start?">> \in Seq(StepNames)
  BY DEF StepNames
<1> HIDE DEF d
<1> QED
  BY <1>2, <1>3, PutStepsType, AdvanceType DEF StrictStopFailed, was, d

LEMMA SnapshotDoneType ==
  ASSUME NEW s \in Procs, NEW r PROVE SnapshotDone(s, r) \in Procs
<1>1. <<"start?">> \in Seq(StepNames)
  BY DEF StepNames
<1>2. /\ [s EXCEPT !.run.result = "ok"] \in Procs
      /\ [s EXCEPT !.run.result = "error"] \in Procs
  BY PutResultType
<1>3. PutSteps([s EXCEPT !.run.result = "error"], <<"start?">>) \in Procs
  BY <1>1, <1>2, PutStepsType
<1> QED
  BY <1>2, <1>3, AdvanceType DEF SnapshotDone

LEMMA OptionsDoneType ==
  ASSUME NEW s \in Procs, NEW r PROVE OptionsDone(s, r) \in Procs
<1>1. "backup" \in OptionValues
  BY DEF OptionValues
<1>2. [s EXCEPT !.opt = "backup", !.touched = TRUE, !.save = TRUE] \in Procs
  BY <1>1 DEF Procs
<1> QED
  BY <1>2, AdvanceType, FailType DEF OptionsDone

LEMMA HaltDoneType ==
  ASSUME NEW s \in Procs, NEW r PROVE HaltDone(s, r) \in Procs
<1> DEFINE reply == IF r = "ok" THEN "ok" ELSE "error"
           fate == IF s.gone THEN "exit" ELSE "shutting_down"
<1>1. Release(s) \in Procs /\ "stopped" \in Seen /\ reply \in Replies /\ fate \in Fates
  BY ReleaseType DEF Seen, Replies, Fates
<1> HIDE DEF reply, fate
<1>2. [Release(s) EXCEPT !.ev = "stopped", !.reply = reply, !.fate = fate] \in Procs
  BY <1>1 DEF Procs
<1> QED
  BY <1>2 DEF HaltDone, reply, fate

LEMMA PortDoneType ==
  ASSUME NEW s \in Procs, NEW r PROVE PortDone(s, r) \in Procs
<1> DEFINE k == s.keys \cup {"port"}
           save == s.save \/ s.run.op # "install"
<1>1. k \in KeySets /\ save \in BOOLEAN
  BY DEF Procs, KeySets, KeyNames
<1> HIDE DEF k, save
<1>2. [s EXCEPT !.port = TRUE, !.keys = k, !.save = save] \in Procs
  BY <1>1 DEF Procs
<1> QED
  BY <1>2, AdvanceType, FailType DEF PortDone, k, save

LEMMA SettleType ==
  ASSUME NEW s \in Procs, NEW r, NEW id \in Held PROVE Settle(s, r, id) \in Procs
<1>1. [s EXCEPT !.img = 0] \in Procs
  <2>1. 0 \in ImageTries
    BY BoundsAssumption DEF ImageTries
  <2> QED
    BY <2>1 DEF Procs
<1>2. /\ CleanedUp(s) \in Procs /\ ShutdownRefused(s) \in Procs
      /\ Advance([s EXCEPT !.img = 0]) \in Procs /\ ImageFailed(s, r) \in Procs
      /\ StartDone(s, id) \in Procs /\ StartFailed(s, r) \in Procs
      /\ StopDone(s, r = "was_running") \in Procs
  BY <1>1, CleanedUpType, ShutdownRefusedType, AdvanceType, ImageFailedType,
     StartDoneType, StartFailedType, StopDoneType
<1>3. /\ StrictStopFailed(s) \in Procs /\ Cleanup(s) \in Procs
      /\ SnapshotDone(s, r) \in Procs /\ OptionsDone(s, r) \in Procs
      /\ HaltDone(s, r) \in Procs /\ PortDone(s, r) \in Procs
      /\ Advance(s) \in Procs /\ Fail(s) \in Procs
  BY StrictStopFailedType, CleanupType, SnapshotDoneType, OptionsDoneType,
     HaltDoneType, PortDoneType, AdvanceType, FailType
<1> QED
  BY <1>2, <1>3 DEF Settle

-----------------------------------------------------------------------------
(* Handlers. *)

LEMMA NeutralType ==
  ASSUME NEW s \in Procs PROVE Neutral(s) \in Procs
BY ZenonT(60) DEF Neutral, Procs, Replies, Fates

LEMMA FreshType == Fresh \in Procs /\ NoRun \in Runs
<1>1. NoRun \in Runs
  BY DEF NoRun, Runs, RunSteps, RunTasks, SavedVersions
<1>2. /\ "down" \in States /\ "stopped" \in Wants /\ 0 \in SavedVersions
      /\ "default" \in OptionValues /\ 0 \in Held /\ <<>> \in Seq(Ids)
      /\ "none" \in Seen /\ "none" \in Healths /\ NoTimer \in Armed
      /\ {} \in KeySets /\ "none" \in Replies /\ "stay" \in Fates
  BY DEF States, Wants, SavedVersions, OptionValues, Held, Seen, Healths, Armed,
         KeySets, Replies, Fates
<1>3. 0 \in Attempts /\ 0 \in StrikeCounts /\ 0 \in ImageTries
  BY BoundsAssumption DEF Attempts, StrikeCounts, ImageTries
<1> HIDE DEF NoRun
<1> QED
  BY <1>1, <1>2, <1>3 DEF Fresh, Procs

LEMMA SavedType ==
  ASSUME NEW s \in Procs PROVE Saved(s) \in Files
BY DEF Saved, Files, Procs, SavedVersions

LEMMA PlanType ==
  ASSUME NEW s \in Procs, NEW op \in Ops, NEW a \in Args
  PROVE  Plan(op, a, s) \in Procs
<1> DEFINE run == [NoRun EXCEPT !.op = op, !.steps = Steps(op, a, s),
                                !.from = a.from, !.retry = a.retry,
                                !.starts = a.starts, !.backup = a.backup,
                                !.options = a.options, !.old = s.ver]
<1>1. run \in Runs
  <2>1. Steps(op, a, s) \in Seq(StepNames) /\ NoRun \in Runs
    BY StepsType, FreshType
  <2>2. s.ver \in SavedVersions /\ op \in Ops \cup {"none"}
    BY DEF Procs
  <2> QED
    BY <2>1, <2>2 DEF Runs, Args
<1> HIDE DEF run
<1>2. [s EXCEPT !.touched = FALSE, !.run = run] \in Procs
  BY <1>1 DEF Procs
<1> QED
  BY <1>2 DEF Plan, run

LEMMA BeginType ==
  ASSUME NEW s \in Procs, NEW op \in Ops, NEW a \in Args
  PROVE  Begin(op, a, s) \in Procs
<1> DEFINE retry == IF op \in {"start", "restart", "stop", "uninstall", "halt"}
                    THEN NoTimer ELSE s.retry
           d == [s EXCEPT !.st = "busy", !.probing = FALSE, !.retry = retry]
<1>1. retry \in Armed /\ "busy" \in States
  BY DEF Procs, Armed, States
<1> HIDE DEF retry
<1>2. d \in Procs
  BY <1>1 DEF Procs
<1> HIDE DEF d
<1> QED
  BY <1>2, PlanType, AdvanceType DEF Begin, d, retry

LEMMA AfterType ==
  ASSUME NEW s \in Procs PROVE After(s) \in Procs
<1> DEFINE unsaved == Unsaved(s)
           st == CASE s.fate = "shutting_down" -> "shutting_down"
                   [] s.fate # "shutting_down" /\ s.refused -> "refused"
                   [] OTHER -> "idle"
           n == Neutral(s)
<1>1. n \in Procs /\ NoRun \in Runs /\ Fresh \in Procs
  BY NeutralType, FreshType
<1>2. unsaved \in BOOLEAN
  BY DEF Unsaved, Procs, Runs
<1>3. st \in States
  BY DEF States
<1> HIDE DEF unsaved, st, n
<1>4. [n EXCEPT !.run.unsaved = unsaved] \in Procs
  BY ZenonT(60), <1>1, <1>2 DEF Procs, Runs
<1>5. [n EXCEPT !.run = NoRun, !.retired = FALSE, !.st = st] \in Procs
  BY ZenonT(60), <1>1, <1>3 DEF Procs
<1> QED
  BY <1>1, <1>4, <1>5 DEF After, unsaved, st, n

-----------------------------------------------------------------------------
(* Steps.  TypeOK is not inductive by itself: that an exit event carries a *)
(* container's id rests on a container that runs having one.               *)

UpHasId == box.up => box.id \in Ids
Typed == TypeOK /\ UpHasId

(* What a handler sets, and what lies outside the process. *)
InsideTyped == p \in Procs /\ file \in Files /\ callers \in Int /\ answer \in Answers
EngineTyped == box \in Boxes /\ ids \in 0..MaxId /\ UpHasId
QueuesTyped == wire \in Seq(Events) /\ postponed \in Seq(Messages)
FlagsTyped == inflight \in BOOLEAN /\ acked \in BOOLEAN

LEMMA TypedParts ==
  Typed <=> InsideTyped /\ EngineTyped /\ QueuesTyped /\ FlagsTyped
BY DEF Typed, TypeOK, InsideTyped, EngineTyped, QueuesTyped, FlagsTyped

LEMMA TypedPartsNext ==
  Typed' <=> InsideTyped' /\ EngineTyped' /\ QueuesTyped' /\ FlagsTyped'
BY DEF Typed, TypeOK, InsideTyped, EngineTyped, QueuesTyped, FlagsTyped

LEMMA TypedFacts ==
  ASSUME Typed
  PROVE  /\ p \in Procs /\ file \in Files /\ callers \in Int /\ answer \in Answers
         /\ wire \in Seq(Events) /\ postponed \in Seq(Messages)
         /\ <<>> \in Seq(Messages)
BY DEF Typed, TypeOK

LEMMA NoAnswerType == NoAnswer \in Answers
BY DEF NoAnswer, Answers, Replies

LEMMA DiskType == Disk \subseteq BOOLEAN
BY DEF Disk

LEMMA EnterType ==
  ASSUME Typed, NEW disk \in BOOLEAN PROVE Enter(disk) \in Procs
BY DEF Typed, TypeOK, Enter, Procs

LEMMA LeaveType ==
  ASSUME Typed, NEW s \in Procs, NEW waiting \in Int, Leave(s, waiting)
  PROVE  InsideTyped'
<1>1. p' \in Procs
  BY AfterType DEF Leave
<1>2. file' \in Files
  BY SavedType, FreshType DEF Leave, Typed, TypeOK, NoFile
<1>3. callers' \in Int
  BY DEF Leave
<1>4. answer' \in Answers
  <2>1. s.run.op \in Ops \cup {"none"} /\ s.reply \in Replies
    BY DEF Procs, Runs
  <2>2. Value(s) \in Replies
    BY <2>1 DEF Value, Replies
  <2> QED
    BY <2>1, <2>2, NoAnswerType DEF Leave, Answers
<1> QED
  BY <1>1, <1>2, <1>3, <1>4 DEF InsideTyped

LEMMA RestType ==
  ASSUME Typed, NEW s \in Procs, Rest(s) PROVE InsideTyped'
BY NeutralType, NoAnswerType DEF Rest, Typed, TypeOK, InsideTyped

LEMMA HandleType ==
  ASSUME Typed, NEW s \in Procs, NEW m \in Messages, Handle(m, s)
  PROVE  InsideTyped'
<1> DEFINE a == [Called EXCEPT !.from = FALSE, !.retry = TRUE]
<1>1. a \in Args /\ "start" \in Ops /\ callers \in Int
  BY DEF Called, Args, Ops, Typed, TypeOK
<1> HIDE DEF a
<1>2. Begin("start", a, s) \in Procs
  BY <1>1, BeginType
<1>3. CASE m.kind = "retry"
  BY <1>1, <1>2, <1>3, LeaveType, RestType DEF Handle, a
<1>4. CASE m.kind = "settled"
  <2>1. [s EXCEPT !.attempt = 0] \in Procs
    <3>1. 0 \in Attempts
      BY BoundsAssumption DEF Attempts
    <3> QED
      BY <3>1 DEF Procs
  <2> QED
    BY <1>4, <2>1, RestType DEF Handle
<1>5. CASE m.kind = "probe"
  <2>1. [s EXCEPT !.probing = TRUE] \in Procs
    BY DEF Procs
  <2> QED
    BY <1>5, <2>1, RestType DEF Handle
<1>6. CASE m.kind \notin {"retry", "settled", "probe"}
  BY <1>6, OnEventType, RestType DEF Handle
<1> QED
  BY <1>3, <1>4, <1>5, <1>6

LEMMA ArgsOfType ==
  ASSUME NEW op PROVE ArgsOf(op) \subseteq Args
<1>1. Called \in Args
  BY DEF Called, Args
<1>2. \A b \in BOOLEAN : /\ [Called EXCEPT !.starts = b] \in Args
                         /\ [Called EXCEPT !.backup = b] \in Args
                         /\ [Called EXCEPT !.starts = b, !.options = TRUE] \in Args
  BY <1>1 DEF Args
<1> QED
  BY <1>1, <1>2 DEF ArgsOf

LEMMA CommandType ==
  ASSUME Typed, NEW op \in Commands, Command(op) PROVE Typed'
<1>1. op \in Ops /\ callers + 1 \in Int
  BY ServerAssumption DEF Typed, TypeOK
<1>2. PICK a \in ArgsOf(op), disk \in Disk :
        Leave(Begin(op, a, IF op = "uninstall" THEN [Enter(disk) EXCEPT !.retired = TRUE]
                           ELSE Enter(disk)), callers + 1)
  BY DEF Command
<1> DEFINE s == IF op = "uninstall" THEN [Enter(disk) EXCEPT !.retired = TRUE]
                ELSE Enter(disk)
<1>3. s \in Procs
  <2>1. Enter(disk) \in Procs
    BY DiskType, EnterType
  <2>2. [Enter(disk) EXCEPT !.retired = TRUE] \in Procs
    BY <2>1 DEF Procs
  <2> QED
    BY <2>1, <2>2
<1>4. Leave(Begin(op, a, s), callers + 1)
  BY <1>2
<1> HIDE DEF s
<1>5. Begin(op, a, s) \in Procs
  BY <1>1, <1>3, ArgsOfType, BeginType
<1>6. InsideTyped'
  BY <1>1, <1>4, <1>5, LeaveType
<1>7. postponed' \in Seq(Messages) /\ acked' \in BOOLEAN
  BY DEF Command, Typed, TypeOK
<1> QED
  BY <1>6, <1>7, TypedParts, TypedPartsNext
  DEF Command, outside, EngineTyped, QueuesTyped, FlagsTyped, UpHasId

LEMMA HaltType == ASSUME Typed, Halt PROVE Typed'
<1>1. Called \in Args /\ "halt" \in Ops
  BY DEF Called, Args, Ops
<1>2. After(Begin("halt", Called, Enter(TRUE))) \in Procs
  BY <1>1, EnterType, BeginType, AfterType
<1>3. p' \in Procs
  BY <1>2, FreshType DEF Halt
<1>4. answer' \in Answers
  <2>1. p.run.op \in Ops \cup {"none"} /\ "shutting_down" \in Replies
    BY DEF Typed, TypeOK, Procs, Runs, Replies
  <2>2. [op |-> p.run.op, value |-> "shutting_down"] \in Answers
    BY <2>1 DEF Answers
  <2> QED
    BY <2>2, NoAnswerType DEF Halt
<1>5. callers' \in Int
  <2> DEFINE owed == IF p.run.from THEN 1 ELSE 0
  <2>1. callers' = callers - owed \/ callers' = callers + 1 - owed
    BY DEF Halt
  <2>2. owed \in Int /\ callers \in Int
    BY DEF Typed, TypeOK
  <2> HIDE DEF owed
  <2> QED
    BY <2>1, <2>2
<1>6. postponed' \in Seq(Messages) /\ file' \in Files
  <2>1. /\ postponed' = <<>> \/ postponed' = postponed
        /\ file' = file
    BY DEF Halt
  <2> QED
    BY <2>1, TypedFacts
<1>7. InsideTyped'
  BY <1>3, <1>4, <1>5, <1>6 DEF InsideTyped
<1> QED
  BY <1>6, <1>7, TypedParts, TypedPartsNext
  DEF Halt, EngineTyped, QueuesTyped, FlagsTyped, UpHasId

LEMMA BootStartType == ASSUME Typed, BootStart PROVE Typed'
<1>1. PICK reported \in Reported, disk \in Disk :
        LET s == [Enter(disk) EXCEPT !.st = "idle"]
            view == BootView(reported)
            rule == IF view = "managed" THEN "none" ELSE Boot(p, view)
        IN  IF s.refused
            THEN Rest([s EXCEPT !.st = "refused"])
            ELSE CASE rule = "start" -> Leave(Begin("start", Called, s), callers + 1)
                   [] rule = "demote" ->
                        Leave([s EXCEPT !.wanted = "stopped", !.retry = NoTimer,
                                        !.save = TRUE, !.fate = "idle"], callers)
                   [] OTHER -> Rest(s)
  BY DEF BootStart
<1> DEFINE s == [Enter(disk) EXCEPT !.st = "idle"]
<1>2. s \in Procs
  <2>1. Enter(disk) \in Procs
    BY DiskType, EnterType
  <2> QED
    BY <2>1 DEF Procs, States
<1>3. \/ Rest([s EXCEPT !.st = "refused"])
      \/ Leave(Begin("start", Called, s), callers + 1)
      \/ Leave([s EXCEPT !.wanted = "stopped", !.retry = NoTimer,
                         !.save = TRUE, !.fate = "idle"], callers)
      \/ Rest(s)
  BY <1>1
<1> HIDE DEF s
<1>4. Called \in Args /\ "start" \in Ops /\ callers \in Int /\ callers + 1 \in Int
  BY DEF Called, Args, Ops, Typed, TypeOK
<1>5. [s EXCEPT !.st = "refused"] \in Procs
  BY <1>2 DEF Procs, States
<1>6. [s EXCEPT !.wanted = "stopped", !.retry = NoTimer, !.save = TRUE,
                !.fate = "idle"] \in Procs
  <2>1. "stopped" \in Wants /\ NoTimer \in Armed /\ "idle" \in Fates
    BY DEF Wants, Armed, Fates
  <2> QED
    BY <1>2, <2>1 DEF Procs
<1>7. InsideTyped'
  BY <1>2, <1>3, <1>4, <1>5, <1>6, BeginType, LeaveType, RestType
<1> QED
  BY <1>7, TypedParts, TypedPartsNext
  DEF BootStart, EngineTyped, QueuesTyped, FlagsTyped, UpHasId

LEMMA SetOptionsType == ASSUME Typed, SetOptions PROVE Typed'
<1> DEFINE s == [p EXCEPT !.opt = "user", !.touched = TRUE]
<1>1. s \in Procs
  BY DEF Typed, TypeOK, Procs, OptionValues
<1> HIDE DEF s
<1>2. p' = s /\ file' = Saved(s)
  BY DEF SetOptions, s
<1>3. InsideTyped'
  BY <1>1, <1>2, SavedType, NoAnswerType DEF SetOptions, Typed, TypeOK, InsideTyped
<1> QED
  BY <1>3, TypedParts, TypedPartsNext
  DEF SetOptions, EngineTyped, QueuesTyped, FlagsTyped, UpHasId

LEMMA SetWatchdogType == ASSUME Typed, SetWatchdog PROVE Typed'
<1> DEFINE w == ~p.watchdog
           probe == IF p.watchdog THEN FALSE ELSE p.probe \/ p.cid # 0
           s == [p EXCEPT !.watchdog = w, !.probe = probe]
<1>1. w \in BOOLEAN /\ probe \in BOOLEAN
  <2>1. p.probe \in BOOLEAN
    BY DEF Typed, TypeOK, Procs
  <2> QED
    BY <2>1
<1> HIDE DEF w, probe
<1>2. s \in Procs
  BY <1>1 DEF Typed, TypeOK, Procs
<1>3. p' = s /\ file' = Saved(s)
  BY DEF SetWatchdog, w, probe
<1> HIDE DEF s
<1>4. InsideTyped'
  BY <1>2, <1>3, SavedType, NoAnswerType DEF SetWatchdog, Typed, TypeOK, InsideTyped
<1> QED
  BY <1>4, TypedParts, TypedPartsNext
  DEF SetWatchdog, EngineTyped, QueuesTyped, FlagsTyped, UpHasId

LEMMA SomeKept ==
  ASSUME NEW S, NEW q \in Seq(S), q # <<>>
  PROVE  Head(q) \in S /\ Tail(q) \in Seq(S)
OBVIOUS

LEMMA PostponeType ==
  ASSUME Typed, NEW m \in Messages, Postpone(m), NEW d \in Procs, p' = d
  PROVE  InsideTyped' /\ postponed' \in Seq(Messages)
<1>1. Append(postponed, m) \in Seq(Messages)
  BY TypedFacts
<1> QED
  BY <1>1, TypedFacts, NoAnswerType DEF Postpone, InsideTyped

LEMMA DeliverType == ASSUME Typed, Deliver PROVE Typed'
<1>1. Head(wire) \in Messages /\ wire' \in Seq(Events)
  <2>1. wire \in Seq(Events) /\ wire # <<>>
    BY DEF Deliver, Typed, TypeOK
  <2>2. Head(wire) \in Events /\ Tail(wire) \in Seq(Events)
    BY <2>1, SomeKept
  <2> QED
    BY <2>2 DEF Deliver, Messages
<1>2. InsideTyped' /\ postponed' \in Seq(Messages)
  <2>1. CASE Postpone(Head(wire)) /\ UNCHANGED p
    BY <1>1, <2>1, PostponeType, TypedFacts
  <2>2. CASE UNCHANGED <<p, postponed, file, callers, answer>>
    BY <2>2, TypedFacts DEF InsideTyped
  <2>3. CASE /\ \E disk \in Disk : Handle(Head(wire), Enter(disk))
             /\ UNCHANGED postponed
    BY <1>1, <2>3, DiskType, EnterType, HandleType, TypedFacts
  <2> QED
    BY <2>1, <2>2, <2>3 DEF Deliver
<1> QED
  BY <1>1, <1>2, TypedParts, TypedPartsNext
  DEF Deliver, EngineTyped, QueuesTyped, FlagsTyped, UpHasId

LEMMA ReplayType == ASSUME Typed, Replay PROVE Typed'
<1>1. Head(postponed) \in Messages /\ postponed' \in Seq(Messages)
  BY SomeKept DEF Replay, Typed, TypeOK
<1>2. PICK disk \in Disk : Handle(Head(postponed), Enter(disk))
  BY DEF Replay
<1>3. Enter(disk) \in Procs
  BY DiskType, EnterType
<1>4. InsideTyped'
  BY <1>1, <1>2, <1>3, HandleType
<1> QED
  BY <1>1, <1>4, TypedParts, TypedPartsNext
  DEF Replay, EngineTyped, QueuesTyped, FlagsTyped, UpHasId

LEMMA FiresType ==
  ASSUME Typed, NEW m \in Messages, NEW d \in Procs, Fires(m, d) PROVE Typed'
<1>1. \A disk \in Disk :
        [d EXCEPT !.shutting_down = inflight, !.disk = disk] \in Procs
  BY ZenonT(60), DiskType DEF Typed, TypeOK, Procs
<1>2. InsideTyped' /\ postponed' \in Seq(Messages)
  <2>1. CASE Postpone(m) /\ p' = d
    BY <2>1, PostponeType
  <2>2. CASE /\ \E disk \in Disk :
                  Handle(m, [d EXCEPT !.shutting_down = inflight, !.disk = disk])
             /\ UNCHANGED postponed
    BY <1>1, <2>2, HandleType, TypedFacts
  <2> QED
    BY <2>1, <2>2 DEF Fires
<1> QED
  BY <1>2, TypedParts, TypedPartsNext
  DEF Fires, EngineTyped, QueuesTyped, FlagsTyped, UpHasId

LEMMA TimerType == ASSUME Typed, TimerStep PROVE Typed'
<1>1. /\ [p EXCEPT !.retry = NoTimer] \in Procs
      /\ [p EXCEPT !.settled = FALSE] \in Procs
      /\ [p EXCEPT !.probe = FALSE] \in Procs
  <2>1. NoTimer \in Armed
    BY DEF Armed
  <2> QED
    BY ZenonT(60), <2>1 DEF Typed, TypeOK, Procs
<1>2. /\ p.retry # NoTimer => Event("retry", p.retry) \in Messages
      /\ Event("settled", 0) \in Messages
      /\ Event("probe", 0) \in Messages
  BY DEF Event, Messages, TimerKinds, Held, Armed, Typed, TypeOK, Procs
<1> QED
  BY <1>1, <1>2, FiresType DEF TimerStep, RetryTimer, SettledTimer, ProbeTimer

LEMMA ProbeAnswerType == ASSUME Typed, ProbeAnswer PROVE Typed'
<1>1. PICK result \in {"healthy", "unhealthy", "skip"} :
        Rest(Strike(result, [Enter(TRUE) EXCEPT !.probing = FALSE]))
  BY DEF ProbeAnswer
<1>2. [Enter(TRUE) EXCEPT !.probing = FALSE] \in Procs
  <2>1. Enter(TRUE) \in Procs
    BY EnterType
  <2> QED
    BY <2>1 DEF Procs
<1>3. InsideTyped'
  BY <1>1, <1>2, StrikeType, RestType
<1> QED
  BY <1>3, TypedParts, TypedPartsNext
  DEF ProbeAnswer, EngineTyped, QueuesTyped, FlagsTyped, UpHasId

LEMMA ExpireType == ASSUME Typed, Expire PROVE Typed'
<1>1. InsideTyped'
  BY FreshType, NoAnswerType DEF Expire, InsideTyped, Typed, TypeOK
<1> QED
  BY <1>1, TypedParts, TypedPartsNext
  DEF Expire, EngineTyped, QueuesTyped, FlagsTyped, UpHasId

-----------------------------------------------------------------------------
(* The task of the step in flight, and the surroundings. *)

LEMMA FinishedType ==
  ASSUME Typed, NEW r \in RunTasks, Finished(r)
  PROVE  InsideTyped' /\ postponed' \in Seq(Messages) /\ FlagsTyped'
<1>1. [p EXCEPT !.run.task = r] \in Procs
  BY TypedFacts DEF Procs, Runs
<1> QED
  BY <1>1, TypedFacts, NoAnswerType
  DEF Finished, InsideTyped, FlagsTyped, Typed, TypeOK

LEMMA EventType ==
  ASSUME NEW kind \in EventKinds, NEW id \in Ids PROVE Event(kind, id) \in Events
BY DEF Event, Events

LEMMA ExitType ==
  ASSUME Typed
  PROVE  /\ (IF box.up THEN Append(wire, Event("exited", box.id)) ELSE wire)
              \in Seq(Events)
         /\ (IF box.up THEN <<Event("exited", box.id)>> ELSE <<>>) \in Seq(Events)
<1>1. box.up => Event("exited", box.id) \in Events
  BY EventType DEF EventKinds, Typed, UpHasId
<1> QED
  BY <1>1, TypedFacts

LEMMA NoBoxType == NoBox \in Boxes /\ ~NoBox.up
BY DEF NoBox, Boxes, Held, SavedVersions

LEMMA RemovedType ==
  ASSUME Typed, Removed PROVE EngineTyped' /\ wire' \in Seq(Events)
BY ExitType, NoBoxType DEF Removed, EngineTyped, UpHasId, Typed, TypeOK

LEMMA SameEngineType ==
  ASSUME Typed, UNCHANGED <<box, ids, wire>>
  PROVE  EngineTyped' /\ wire' \in Seq(Events)
BY DEF EngineTyped, UpHasId, Typed, TypeOK

LEMMA WorkType ==
  ASSUME Typed, Check \/ WorkElsewhere \/ WorkStop PROVE Typed'
<1>1. \E r \in RunTasks : Finished(r)
  BY DEF Check, WorkElsewhere, WorkStop, RunTasks, Outcomes
<1>2. EngineTyped' /\ wire' \in Seq(Events)
  <2>1. Removed \/ UNCHANGED <<box, ids, wire>>
    BY DEF Check, WorkElsewhere, WorkStop
  <2> QED
    BY <2>1, RemovedType, SameEngineType
<1> QED
  BY <1>1, <1>2, FinishedType, TypedPartsNext DEF QueuesTyped

LEMMA WorkHaltType == ASSUME Typed, WorkHalt PROVE Typed'
<1>1. \E r \in RunTasks : Finished(r)
  BY DEF WorkHalt, RunTasks, Outcomes
<1>2. EngineTyped' /\ wire' \in Seq(Events)
  <2>1. CASE UNCHANGED <<box, ids, wire>>
    BY <2>1, SameEngineType
  <2>2. CASE /\ box' = [box EXCEPT !.up = FALSE]
             /\ wire' = IF box.up THEN Append(wire, Event("exited", box.id)) ELSE wire
             /\ UNCHANGED ids
    <3>1. [box EXCEPT !.up = FALSE] \in Boxes /\ ~[box EXCEPT !.up = FALSE].up
      BY DEF Typed, TypeOK, Boxes
    <3> QED
      BY <2>2, <3>1, ExitType DEF EngineTyped, UpHasId, Typed, TypeOK
  <2> QED
    BY <2>1, <2>2 DEF WorkHalt
<1> QED
  BY <1>1, <1>2, FinishedType, TypedPartsNext DEF QueuesTyped

LEMMA WorkStartType == ASSUME Typed, WorkStart PROVE Typed'
<1>1. \E r \in RunTasks : Finished(r)
  BY DEF WorkStart, RunTasks, Outcomes
<1>2. EngineTyped' /\ wire' \in Seq(Events)
  <2>1. CASE UNCHANGED <<box, ids, wire>>
    BY <2>1, SameEngineType
  <2>2. CASE Removed
    BY <2>2, RemovedType
  <2>3. CASE /\ ids < MaxId
             /\ ids' = ids + 1
             /\ box' = [id |-> ids + 1, up |-> TRUE, ver |-> p.ver]
             /\ wire' = wire \o (IF box.up THEN <<Event("exited", box.id)>> ELSE <<>>)
                             \o (IF Native THEN <<>> ELSE <<Event("start", ids + 1)>>)
    <3>1. ids + 1 \in Ids /\ ids' \in 0..MaxId
      BY <2>3, BoundsAssumption DEF Ids, Typed, TypeOK
    <3>2. box' \in Boxes /\ UpHasId'
      <4>1. p.ver \in SavedVersions /\ ids + 1 \in Held
        BY <3>1 DEF Held, Typed, TypeOK, Procs
      <4> QED
        BY <2>3, <3>1, <4>1 DEF Boxes, UpHasId
    <3>3. wire' \in Seq(Events)
      <4> DEFINE exit == IF box.up THEN <<Event("exited", box.id)>> ELSE <<>>
                 start == IF Native THEN <<>> ELSE <<Event("start", ids + 1)>>
      <4>1. exit \in Seq(Events)
        BY ExitType
      <4>2. start \in Seq(Events)
        <5>1. Event("start", ids + 1) \in Events
          BY <3>1, EventType DEF EventKinds
        <5> QED
          BY <5>1
      <4>3. wire' = wire \o exit \o start
        BY <2>3
      <4> HIDE DEF exit, start
      <4> QED
        BY <4>1, <4>2, <4>3, TypedFacts
    <3> QED
      BY <3>1, <3>2, <3>3 DEF EngineTyped
  <2> QED
    BY <2>1, <2>2, <2>3 DEF WorkStart
<1> QED
  BY <1>1, <1>2, FinishedType, TypedPartsNext DEF QueuesTyped

LEMMA DoneType == ASSUME Typed, Done \/ TaskLost PROVE Typed'
<1>1. \A disk \in Disk, id \in Held : \A r : Settle(Enter(disk), r, id) \in Procs
  BY DiskType, EnterType, SettleType
<1>2. box.id \in Held /\ 0 \in Held
  BY DEF Typed, TypeOK, Boxes, Held
<1>3. ASSUME Done PROVE InsideTyped'
  <2>1. PICK disk \in Disk : Leave(Settle(Enter(disk), p.run.task, box.id), callers)
    BY <1>3 DEF Done
  <2>2. Settle(Enter(disk), p.run.task, box.id) \in Procs
    BY <1>1, <1>2
  <2> QED
    BY <2>1, <2>2, LeaveType, TypedFacts
<1>4. ASSUME TaskLost PROVE InsideTyped'
  <2>1. PICK disk \in Disk, r \in {"died", "timeout"} :
          Leave(Settle(Enter(disk), r, 0), callers)
    BY <1>4 DEF TaskLost
  <2>2. Settle(Enter(disk), r, 0) \in Procs
    BY <1>1, <1>2
  <2> QED
    BY <2>1, <2>2, LeaveType, TypedFacts
<1>5. postponed' \in Seq(Messages)
  <2>1. postponed' = <<>> \/ postponed' = postponed
    BY DEF Done, TaskLost
  <2> QED
    BY <2>1, TypedFacts
<1>6. UNCHANGED <<box, ids, wire, inflight, acked>>
  BY DEF Done, TaskLost
<1> QED
  BY <1>3, <1>4, <1>5, <1>6, TypedParts, TypedPartsNext
  DEF EngineTyped, QueuesTyped, FlagsTyped, UpHasId

LEMMA BoxDiesType == ASSUME Typed, BoxDies PROVE Typed'
<1>1. [box EXCEPT !.up = FALSE] \in Boxes /\ ~[box EXCEPT !.up = FALSE].up
  BY DEF Typed, TypeOK, Boxes
<1>2. EngineTyped'
  BY <1>1 DEF BoxDies, EngineTyped, UpHasId, Typed, TypeOK
<1>3. wire' \in Seq(Events)
  <2>1. \A kind \in {"exited0", "exited"} : Event(kind, box.id) \in Events
    BY EventType DEF BoxDies, EventKinds, Typed, UpHasId
  <2> QED
    BY <2>1, TypedFacts DEF BoxDies
<1> QED
  BY <1>2, <1>3, NoAnswerType, TypedParts, TypedPartsNext
  DEF BoxDies, InsideTyped, QueuesTyped, FlagsTyped

LEMMA BoxHealthType == ASSUME Typed, BoxHealth PROVE Typed'
<1>1. wire' \in Seq(Events)
  <2>1. \A kind \in {"healthy", "unhealthy"} : Event(kind, box.id) \in Events
    BY EventType DEF BoxHealth, EventKinds, Typed, UpHasId
  <2> QED
    BY <2>1, TypedFacts DEF BoxHealth
<1> QED
  BY <1>1, NoAnswerType, TypedParts, TypedPartsNext
  DEF BoxHealth, InsideTyped, EngineTyped, UpHasId, QueuesTyped, FlagsTyped

LEMMA OtherSurroundingsType ==
  ASSUME Typed, Lose \/ BeginShutdown \/ AbandonShutdown \/ Crash
  PROVE  Typed'
<1>1. InsideTyped'
  BY TypedFacts, FreshType, NoAnswerType
  DEF Lose, BeginShutdown, AbandonShutdown, Crash, InsideTyped
<1>2. wire' \in Seq(Events) /\ postponed' \in Seq(Messages)
  BY TypedFacts, SomeKept DEF Lose, BeginShutdown, AbandonShutdown, Crash
<1>3. EngineTyped' /\ FlagsTyped'
  BY TypedParts
  DEF Lose, BeginShutdown, AbandonShutdown, Crash, EngineTyped, UpHasId, FlagsTyped
<1> QED
  BY <1>1, <1>2, <1>3, TypedPartsNext DEF QueuesTyped

LEMMA LoadedType ==
  ASSUME Typed, NEW port \in BOOLEAN PROVE Loaded(port) \in Procs
<1> DEFINE st == IF inflight THEN "shutting_down" ELSE "idle"
           s == [Fresh EXCEPT !.wanted = file.wanted, !.ver = file.ver,
                              !.opt = file.opt, !.watchdog = file.watchdog,
                              !.port = port, !.st = st]
<1>1. st \in States
  BY DEF States
<1>2. /\ file.wanted \in Wants /\ file.ver \in SavedVersions
      /\ file.opt \in OptionValues /\ file.watchdog \in BOOLEAN
  BY TypedFacts DEF Files
<1>3. Fresh \in Procs
  BY FreshType
<1> HIDE DEF st
<1>4. s \in Procs
  BY ZenonT(60), <1>1, <1>2, <1>3 DEF Procs
<1> HIDE DEF s
<1>5. [s EXCEPT !.keys = Keys(s)] \in Procs
  BY <1>4, KeysType DEF Procs
<1> QED
  BY <1>5 DEF Loaded, s, st

LEMMA SpawnType == ASSUME Typed, Spawn PROVE Typed'
<1>1. file.port \in BOOLEAN
  BY TypedFacts DEF Files
<1>2. /\ Loaded(file.port) \in Procs /\ Loaded(FALSE) \in Procs
      /\ Saved(Loaded(FALSE)) \in Files
  BY <1>1, LoadedType, SavedType
<1>3. /\ [Fresh EXCEPT !.st = "new"] \in Procs
      /\ [Fresh EXCEPT !.st = "refused", !.refused = TRUE, !.ver = 1] \in Procs
  <2>1. Fresh \in Procs /\ "new" \in States /\ "refused" \in States /\ 1 \in SavedVersions
    BY FreshType DEF States, SavedVersions, Versions
  <2> QED
    BY <2>1 DEF Procs
<1>4. InsideTyped'
  <2>1. p' \in Procs
    BY <1>2, <1>3 DEF Spawn
  <2>2. file' = file \/ (p' = Loaded(FALSE) /\ file' = Saved(p'))
    BY DEF Spawn
  <2>3. file' \in Files
    BY <1>2, <2>2, TypedFacts
  <2> QED
    BY <2>1, <2>3, TypedFacts, NoAnswerType DEF Spawn, InsideTyped
<1> QED
  BY <1>4, TypedParts, TypedPartsNext
  DEF Spawn, EngineTyped, UpHasId, QueuesTyped, FlagsTyped

LEMMA InitTyped == ASSUME Init PROVE Typed
<1>1. InstalledFile \in Files /\ NoFile \in Files
  BY FreshType, SavedType
  DEF InstalledFile, NoFile, Files, Wants, SavedVersions, Versions, OptionValues
<1>2. InsideTyped
  BY <1>1, FreshType, NoAnswerType DEF Init, InsideTyped
<1>3. EngineTyped
  BY NoBoxType, BoundsAssumption DEF Init, EngineTyped, UpHasId
<1>4. QueuesTyped /\ FlagsTyped
  <2>1. <<>> \in Seq(Events) /\ <<>> \in Seq(Messages)
    OBVIOUS
  <2> QED
    BY <2>1 DEF Init, QueuesTyped, FlagsTyped
<1> QED
  BY <1>2, <1>3, <1>4, TypedParts

LEMMA NextTyped == ASSUME Typed, [Next]_vars PROVE Typed'
<1>1. CASE Next
  BY <1>1, CommandType, HaltType, BootStartType, SetOptionsType, SetWatchdogType,
     DeliverType, ReplayType, TimerType, ProbeAnswerType, ExpireType, WorkType,
     WorkHaltType, WorkStartType, DoneType, BoxDiesType, BoxHealthType,
     OtherSurroundingsType, SpawnType
  DEF Next, TaskStep, Surroundings
<1>2. CASE UNCHANGED vars
  BY <1>2 DEF vars, Typed, TypeOK, UpHasId
<1> QED
  BY <1>1, <1>2

(* Every record the process holds, writes and answers has its type in      *)
(* every reachable state: run_effects/4 and next/3 leave no step, timer,   *)
(* key or count outside the sets the code's types name.                    *)
THEOREM TypeCorrect == Spec => []TypeOK
<1>1. Init => Typed
  BY InitTyped
<1>2. Typed /\ [Next]_vars => Typed'
  BY NextTyped
<1>3. Typed => TypeOK
  BY DEF Typed
<1> QED
  BY <1>1, <1>2, <1>3, PTL DEF Spec

=============================================================================
