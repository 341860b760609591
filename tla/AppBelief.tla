----------------------------- MODULE AppBelief -----------------------------
(***************************************************************************)
(* For every value of the constants: with an engine that does what it is   *)
(* told and loses no event, what an app process believes of its container  *)
(* is what the engine runs, once it has heard everything there is to hear. *)
(*                                                                         *)
(* The argument: a container that runs is known to the process from the    *)
(* result of its start to the result of the stop that ends it (Known), and *)
(* for one that runs no longer the event of its exit is on its way, behind *)
(* every other event about it (Hears, Ends).  The one could be mistaken    *)
(* for the other if an id came back, so ids are fresh (Counted) and the    *)
(* one held was never released.                                            *)
(***************************************************************************)
EXTENDS AppPlan

(* The exit of a container among the events in flight and postponed. *)
IsExit(m, id) == m.kind \in {"exited0", "exited"} /\ m.id = id
ExitIn(q, id) == \E i \in 1..Len(q) : IsExit(q[i], id)
Due(w, q, id) == ExitIn(q, id) \/ ExitIn(w, id)
ExitDue(id) == Due(wire, postponed, id)

(* News of a container that no longer runs comes before its exit. *)
Late(m, b) == m.kind \in {"start", "healthy", "unhealthy"} /\ ~(b.up /\ b.id = m.id)
Closed(q, i) == \E j \in i + 1..Len(q) : IsExit(q[j], q[i].id)
Ends(w, q, b) ==
    /\ \A i \in 1..Len(w) : Late(w[i], b) => Closed(w, i)
    /\ \A i \in 1..Len(q) : Late(q[i], b) => Closed(q, i) \/ ExitIn(w, q[i].id)
Counted(w, q, n) ==
    /\ \A i \in 1..Len(w) : w[i].id <= n
    /\ \A i \in 1..Len(q) : q[i].kind \in EventKinds => q[i].id <= n
EventsEnd == Ends(wire, postponed, box)
Numbered == Counted(wire, postponed, ids) /\ box.id <= ids

IsReleased(id, s) == \E i \in DOMAIN s.released : s.released[i] = id

(* A refused app may have taken a start that came late for its own. *)
Trusts(s) == Running(s) /\ ~s.refused
Hears(s) ==
    /\ s.cid <= ids /\ \A i \in DOMAIN s.released : s.released[i] <= ids
    /\ s.cid # 0 => ~IsReleased(s.cid, s)
    /\ box.up => ~ExitDue(box.id)
    /\ Trusts(s) => (box.up /\ box.id = s.cid) \/ ExitDue(s.cid)

(* A start has made its container and not yet said so. *)
Reporting(s) == s.run.step = "start" /\ s.run.task = "ok"
Announced(s) == Reporting(s) => /\ ~IsReleased(box.id, s)
                                /\ box.up \/ ExitDue(box.id)

Believed(s) == s.cid = box.id /\ (Alive(s) \/ s.ev = "failed")
Known(s) ==
    /\ box.up => \/ s.st \in {"idle", "busy"} /\ Believed(s)
                 \/ s.st = "busy" /\ (s.run.op = "halt" \/ Reporting(s))
    /\ s.st = "down" => s.cid = 0
    /\ s.st = "refused" => s.refused

Emptied(s) ==
    /\ s.run.step \in Stops /\ s.run.task \in Outcomes => ~box.up
    /\ s.gone \/ s.run.op = "install" \/ s.run.step = "remove_app" => ~box.up

Knows(s) == Hears(s) /\ Announced(s) /\ Known(s) /\ Emptied(s)
Drained == p.st = "down" => postponed = <<>>
Believing == EventsEnd /\ Numbered /\ Drained /\ Knows(p)

-----------------------------------------------------------------------------
(* Operators of a handler: most leave the container held and what is known *)
(* of it alone, and an operation that ends leaves an idle process unless   *)
(* it was an install, an uninstall or a halt.                              *)

Same(s, t) == t.cid = s.cid /\ t.ev = s.ev /\ t.released = s.released
Ending(t) == /\ t.fate # "shutting_down"
             /\ t.fate = "exit" => t.run.op \in {"install", "uninstall"} \/ t.gone
Keeps(s, t) == Same(s, t) /\ Ending(t)

LEMMA SameChain ==
  ASSUME NEW s, NEW t, NEW u, Same(s, t)
  PROVE  (Same(t, u) => Same(s, u)) /\ (Keeps(t, u) => Keeps(s, u))
BY DEF Same, Keeps

LEMMA LadderSame ==
  ASSUME NEW s \in Procs, NEW reason
  PROVE  /\ Same(s, Retry(s)) /\ Same(s, ImageRetry(s, reason))
         /\ Same(s, CancelTimers(s)) /\ Same(s, DropRunKeys(s))
BY DEF Same, Retry, ImageRetry, CancelTimers, DropRunKeys, Procs

LEMMA PutSame ==
  ASSUME NEW s \in Procs, NEW v
  PROVE  /\ Same(s, PutSteps(s, v)) /\ Same(s, [s EXCEPT !.run.cleaned = v])
         /\ Same(s, [s EXCEPT !.run.result = v]) /\ Same(s, [s EXCEPT !.run.image = v])
         /\ Same(s, [s EXCEPT !.run.cause = v]) /\ Same(s, [s EXCEPT !.run.was = v])
BY DEF Same, PutSteps, Procs, Runs

(* What frames the operation leaves its end alone, too. *)
LEMMA FrameEnding ==
  ASSUME NEW s, NEW t, Frame(s, t), Ending(s) PROVE Ending(t)
BY DEF Frame, Constant, Ending

LEMMA CloseKeeps ==
  ASSUME NEW s \in Procs, NEW reply PROVE Keeps(s, Close(s, reply))
<1> DEFINE d == CASE s.run.image # "none" -> ImageRetry(s, s.run.image)
                  [] s.run.image = "none" /\ (s.run.retry \/ s.run.cleaned) -> Retry(s)
                  [] OTHER -> s
<1>1. d \in Procs /\ Same(s, d)
  BY ImageRetryType, RetryType, LadderSame DEF Same
<1> HIDE DEF d
<1>2. Keeps(s, [d EXCEPT !.save = TRUE, !.reply = reply, !.fate = "idle"])
  BY <1>1 DEF Same, Keeps, Ending, Procs
<1> QED
  BY <1>2 DEF Close, d

LEMMA FailKeeps == ASSUME NEW s \in Procs PROVE Keeps(s, Fail(s))
<1>1. s.run.op = "install" \/ s.gone =>
        Keeps(s, [s EXCEPT !.reply = "error", !.fate = "exit"])
  BY DEF Keeps, Same, Ending, Procs
<1> QED
  BY <1>1, CloseKeeps DEF Fail

LEMMA FinishKeeps == ASSUME NEW s \in Procs PROVE Keeps(s, Finish(s))
BY DEF Finish, Keeps, Same, Ending, Procs

LEMMA DeleteFileKeeps ==
  ASSUME NEW s \in Procs, Ending(s) PROVE Keeps(s, DeleteFile(s))
<1> DEFINE k == s.keys \cup IngressKeys(s)
           d == [s EXCEPT !.keys = k]
<1>1. d \in Procs /\ Same(s, d)
  <2>1. k \in KeySets
    BY IngressKeysType DEF Procs, KeySets
  <2> HIDE DEF k
  <2> QED
    BY <2>1 DEF Procs, Same
<1>2. Keeps(s, [s EXCEPT !.gone = TRUE])
  BY DEF Keeps, Same, Ending, Procs
<1>3. d = [s EXCEPT !.keys = @ \cup IngressKeys(s)]
  BY DEF d, k
<1> HIDE DEF d
<1>4. Keeps(s, Fail(d))
  BY <1>1, FailKeeps, SameChain
<1> QED
  BY <1>2, <1>3, <1>4 DEF DeleteFile

LEMMA ReconfigureSame ==
  ASSUME NEW s \in Procs, NEW version
  PROVE  Same(s, Reconfigure(s, version)) /\ Same(s, CommitInstall(s))
BY DEF Reconfigure, CommitInstall, Same, Procs

LEMMA RunLocalKeeps ==
  ASSUME NEW s \in Procs, NEW name, Ending(s) PROVE Keeps(s, RunLocal(name, s))
<1>1. Keeps(s, s)
  BY DEF Keeps, Same
<1>2. \A steps : Keeps(s, PutSteps(s, steps))
  BY PutStepsFrame, PutSame, FrameEnding DEF Keeps
<1>3. Keeps(s, [s EXCEPT !.token = TRUE, !.keys = @ \cup {"token"}])
  BY DEF Keeps, Same, Ending, Procs
<1>4. Keeps(s, CommitInstall(s)) /\ \A v : Keeps(s, Reconfigure(s, v))
  BY CommitInstallFrame, ReconfigureFrame, ReconfigureSame, FrameEnding DEF Keeps
<1> QED
  BY <1>1, <1>2, <1>3, <1>4, DeleteFileKeeps DEF RunLocal

LEMMA LocalKeeps ==
  ASSUME NEW s \in Procs, Ending(s)
  PROVE  Local(s) \in Procs /\ Keeps(s, Local(s))
<1>1. Local(s) \in Procs
  BY LocalType
<1>2. CASE ~(s.fate = "stay" /\ s.run.steps # <<>> /\ IsLocal(Head(s.run.steps), s))
  BY <1>1, <1>2 DEF Local, Keeps, Same
<1>3. CASE s.fate = "stay" /\ s.run.steps # <<>> /\ IsLocal(Head(s.run.steps), s)
  <2> DEFINE d == PutSteps(s, Tail(s.run.steps))
  <2>1. Tail(s.run.steps) \in Seq(StepNames)
    BY <1>3 DEF Procs, Runs
  <2>2. d \in Procs /\ Same(s, d) /\ Ending(d)
    BY <2>1, PutStepsType, PutStepsFrame, PutSame, FrameEnding
  <2> HIDE DEF d
  <2>3. Keeps(d, RunLocal(Head(s.run.steps), d))
    BY <2>2, RunLocalKeeps
  <2>4. Keeps(s, RunLocal(Head(s.run.steps), d))
    BY <2>2, <2>3, SameChain
  <2> QED
    BY <1>1, <1>3, <2>4 DEF Local, d
<1> QED
  BY <1>2, <1>3

LEMMA BeforeTaskSame ==
  ASSUME NEW s \in Procs, NEW name PROVE Same(s, BeforeTask(name, s))
<1>1. Same(s, s)
  BY DEF Same
<1>2. CancelTimers(s) \in Procs /\ Same(s, CancelTimers(s))
  BY CancelTimersType, LadderSame
<1>3. Same(s, [CancelTimers(s) EXCEPT !.keys = @ \ Keys(s), !.token = FALSE,
                                      !.ip = FALSE, !.wanted = "stopped"])
  BY <1>2 DEF Same, Procs
<1>4. CancelTimers(DropRunKeys(s)) \in Procs /\ Same(s, CancelTimers(DropRunKeys(s)))
  BY DropRunKeysType, CancelTimersType, LadderSame, SameChain
<1>5. \A w : Same(s, [CancelTimers(DropRunKeys(s)) EXCEPT !.wanted = w])
  BY <1>4 DEF Same, Procs
<1> QED
  BY <1>1, <1>3, <1>5 DEF BeforeTask

LEMMA LaunchKeeps ==
  ASSUME NEW s \in Procs, Ending(s) PROVE Keeps(s, Launch(s))
<1>1. Keeps(s, s) /\ Keeps(s, Finish(s))
  BY FinishKeeps DEF Keeps, Same
<1>2. CASE s.fate = "stay" /\ s.run.steps # <<>>
  <2> DEFINE name == Head(s.run.steps)
             b == BeforeTask(name, s)
  <2>1. b \in Procs /\ Same(s, b) /\ Frame(s, b)
    BY BeforeTaskType, BeforeTaskFrame, BeforeTaskSame
  <2> HIDE DEF name, b
  <2> DEFINE launched == [b EXCEPT !.run.step = name, !.run.steps = Tail(b.run.steps),
                                   !.run.task = "running"]
  <2>2. Frame(b, launched) /\ Same(b, launched)
    <3>1. Same(b, launched)
      BY <2>1 DEF Same, Procs, Runs
    <3> QED
      BY <2>1, <3>1, TaskFrame
  <2> HIDE DEF launched
  <2>3. Keeps(s, launched)
    BY <2>1, <2>2, SameChain, FrameEnding DEF Keeps
  <2> QED
    BY <1>2, <2>3 DEF Launch, b, name, launched
<1> QED
  BY <1>1, <1>2 DEF Launch

LEMMA AdvanceKeeps ==
  ASSUME NEW s \in Procs, Ending(s) PROVE Keeps(s, Advance(s))
<1> DEFINE a == Local(s)
           b == Local(a)
           c == Local(b)
           d == Local(c)
           e == Local(d)
<1>1. a \in Procs /\ Keeps(s, a)
  BY LocalKeeps
<1> HIDE DEF a
<1>2. b \in Procs /\ Keeps(s, b)
  BY <1>1, LocalKeeps, SameChain DEF Keeps
<1> HIDE DEF b
<1>3. c \in Procs /\ Keeps(s, c)
  BY <1>2, LocalKeeps, SameChain DEF Keeps
<1> HIDE DEF c
<1>4. d \in Procs /\ Keeps(s, d)
  BY <1>3, LocalKeeps, SameChain DEF Keeps
<1> HIDE DEF d
<1>5. e \in Procs /\ Keeps(s, e)
  BY <1>4, LocalKeeps, SameChain DEF Keeps
<1> HIDE DEF e
<1>6. Keeps(s, Launch(e))
  BY <1>5, LaunchKeeps, SameChain DEF Keeps
<1> QED
  BY <1>6 DEF Advance, a, b, c, d, e

-----------------------------------------------------------------------------
(* Outcomes of a task step.  A stop lets go of the container, a start that *)
(* reports takes one, and no other outcome changes the one held; the most  *)
(* it does to what is known of it is to say that a start failed.           *)

Dropped(s, t) ==
    /\ t.cid = 0
    /\ \A id : IsReleased(id, t) => id = s.cid \/ IsReleased(id, s)
Doubted(s, t) ==
    t.cid = s.cid /\ t.ev \in {s.ev, "failed"} /\ t.released = s.released
Taken(s, t, id) == t.cid = id /\ t.ev = "running" /\ t.released = s.released

(* What a handler that settles the step makes of the container held. *)
Learns(s, t, r, id) ==
    CASE s.run.step \in Stops -> Doubted(s, t) \/ Dropped(s, t)
      [] s.run.step = "start" /\ r = "ok" -> Taken(s, t, id) /\ Ending(t)
      [] OTHER -> Doubted(s, t) /\ Ending(t)

LEMMA ReleaseDrops ==
  ASSUME NEW s \in Procs PROVE Dropped(s, Release(s))
<1>1. CASE s.cid = 0
  BY <1>1 DEF Release, Dropped
<1>2. CASE s.cid # 0
  <2> DEFINE list == <<s.cid>> \o s.released
             kept == IF Len(s.released) < ReleasedKept THEN Len(s.released) + 1
                     ELSE ReleasedKept
             t == [s EXCEPT !.cid = 0, !.released = SubSeq(list, 1, kept)]
  <2>1. /\ s.released \in Seq(Held) /\ s.cid \in Held /\ list \in Seq(Held)
        /\ Len(list) = Len(s.released) + 1
    BY DEF Procs, Held
  <2>2. \A i \in 1..Len(list) : list[i] = s.cid \/ (i - 1 \in 1..Len(s.released)
                                                   /\ list[i] = s.released[i - 1])
    BY <2>1
  <2>3. kept \in Nat /\ kept <= Len(list)
    BY <2>1, BoundsAssumption
  <2>4. t.cid = 0 /\ t.released = SubSeq(list, 1, kept)
    BY DEF Procs
  <2>5. Release(s) = t
    BY <1>2 DEF Release
  <2> HIDE DEF list, kept, t
  <2>6. /\ t.released \in Seq(Held) /\ Len(t.released) = kept
        /\ \A i \in 1..kept : t.released[i] = list[i]
    BY <2>1, <2>3, <2>4, SubSeqProperties
  <2>7. ASSUME NEW i \in DOMAIN t.released
        PROVE  t.released[i] = s.cid \/ IsReleased(t.released[i], s)
    <3>1. i \in 1..kept /\ i \in 1..Len(list)
      BY <2>3, <2>6
    <3> QED
      BY <2>1, <2>2, <2>6, <3>1 DEF IsReleased
  <2> QED
    BY <2>4, <2>5, <2>7 DEF Dropped, IsReleased
<1> QED
  BY <1>1, <1>2

LEMMA SameDoubts ==
  ASSUME NEW s, NEW t, NEW u, NEW id
  PROVE  /\ Keeps(s, t) => Doubted(s, t)
         /\ Doubted(s, t) /\ Same(t, u) => Doubted(s, u)
         /\ Dropped(s, t) /\ Same(t, u) => Dropped(s, u)
         /\ Taken(s, t, id) /\ Same(t, u) => Taken(s, u, id)
         /\ Same(s, t) => Doubted(s, t)
BY DEF Keeps, Same, Doubted, Dropped, Taken, IsReleased

LEMMA CleanupKeeps ==
  ASSUME NEW s \in Procs, Ending(s) PROVE Keeps(s, Cleanup(s))
<1> DEFINE d == [s EXCEPT !.run.cause = TRUE]
           e == PutSteps(d, <<"stop_by_name">>)
<1>1. d \in Procs /\ Same(s, d) /\ Ending(d)
  BY PutCauseType, PutRunFrame, PutSame, FrameEnding
<1> HIDE DEF d
<1>2. <<"stop_by_name">> \in Seq(StepNames)
  BY DEF StepNames, TaskSteps
<1>3. e \in Procs /\ Same(s, e) /\ Ending(e)
  BY <1>1, <1>2, PutStepsType, PutStepsFrame, PutSame, FrameEnding, SameChain
<1> HIDE DEF e
<1>4. Keeps(s, Advance(e))
  BY <1>3, AdvanceKeeps, SameChain
<1> QED
  BY <1>4 DEF Cleanup, d, e

LEMMA CleanedUpDrops == ASSUME NEW s \in Procs PROVE Dropped(s, CleanedUp(s))
<1> DEFINE d == [Release(s) EXCEPT !.run.cleaned = TRUE]
<1>1. d \in Procs /\ Dropped(s, d)
  <2>1. Release(s) \in Procs /\ Dropped(s, Release(s))
    BY ReleaseType, ReleaseDrops
  <2>2. d \in Procs /\ Same(Release(s), d)
    BY <2>1, PutCauseType, PutSame
  <2> HIDE DEF d
  <2> QED
    BY <2>1, <2>2, SameDoubts
<1> HIDE DEF d
<1>2. Dropped(s, Fail(d)) /\ \A reply : Dropped(s, Close(d, reply))
  BY <1>1, FailKeeps, CloseKeeps, SameDoubts DEF Keeps
<1> QED
  BY <1>2 DEF CleanedUp, d

LEMMA ShutdownRefusedKeeps == ASSUME NEW s \in Procs PROVE Keeps(s, ShutdownRefused(s))
<1> DEFINE d == DropRunKeys(s)
<1>1. d \in Procs /\ Same(s, d)
  BY DropRunKeysType, LadderSame
<1> HIDE DEF d
<1>2. Keeps(s, [d EXCEPT !.reply = "shutting_down", !.fate = "idle"])
  BY <1>1 DEF Keeps, Same, Ending, Procs
<1> QED
  BY <1>2 DEF ShutdownRefused, d

LEMMA StartDoneTakes ==
  ASSUME NEW s \in Procs, NEW id \in Held, Ending(s)
  PROVE  Taken(s, StartDone(s, id), id) /\ Ending(StartDone(s, id))
<1> DEFINE d == Started(s, id)
           e == [d EXCEPT !.run.result = "error"]
           g == PutSteps(e, <<>>)
<1>1. d \in Procs /\ Taken(s, d, id) /\ Ending(d)
  <2>1. d.cid = id /\ d.ev = "running" /\ d.released = s.released
    BY DEF Started, Procs
  <2> QED
    BY <2>1, StartedType, StartedFrame, FrameEnding DEF Taken
<1> HIDE DEF d
<1>2. e \in Procs /\ Same(d, e)
  BY <1>1, PutResultType, PutSame
<1> HIDE DEF e
<1>3. <<>> \in Seq(StepNames)
  OBVIOUS
<1>4. g \in Procs /\ Same(d, g)
  BY <1>2, <1>3, PutStepsType, PutSame, SameChain
<1> HIDE DEF g
<1>5. Keeps(d, Finish(g)) /\ Keeps(d, Advance(d))
  BY <1>1, <1>4, FinishKeeps, AdvanceKeeps, SameChain
<1>6. \A u : Keeps(d, u) => Taken(s, u, id) /\ Ending(u)
  BY <1>1, SameDoubts DEF Keeps
<1> QED
  BY <1>5, <1>6 DEF StartDone, d, e, g

LEMMA StartFailedDoubts ==
  ASSUME NEW s \in Procs, NEW why, Ending(s)
  PROVE  Doubted(s, StartFailed(s, why)) /\ Ending(StartFailed(s, why))
<1> DEFINE d == [DropRunKeys(s) EXCEPT !.ev = "failed"]
           c == [s EXCEPT !.run.cause = TRUE]
           b == PutSteps(c, <<"rollback_config">> \o StartSteps)
<1>1. d \in Procs /\ Doubted(s, d) /\ Ending(d)
  <2> DEFINE k == DropRunKeys(s)
  <2>1. k \in Procs /\ Same(s, k) /\ Ending(k)
    BY DropRunKeysType, LadderSame, DropRunKeysFrame, FrameEnding
  <2> HIDE DEF k
  <2>2. [k EXCEPT !.ev = "failed"] \in Procs
    BY <2>1 DEF Procs, Seen
  <2>3. Doubted(s, [k EXCEPT !.ev = "failed"]) /\ Ending([k EXCEPT !.ev = "failed"])
    BY <2>1 DEF Procs, Doubted, Same, Ending
  <2> QED
    BY <2>2, <2>3 DEF k
<1> HIDE DEF d
<1>2. \A u : Keeps(d, u) => Doubted(s, u) /\ Ending(u)
  BY <1>1, SameDoubts DEF Keeps
<1>3. Keeps(d, Fail(d)) /\ Keeps(d, Cleanup(d)) /\ Keeps(d, Finish(d))
  BY <1>1, FailKeeps, CleanupKeeps, FinishKeeps
<1>4. Keeps(d, Finish(ImageRetry(d, s.run.image)))
  BY <1>1, ImageRetryType, LadderSame, FinishKeeps, SameChain
<1>5. Keeps(s, Advance(b))
  <2>1. c \in Procs /\ Same(s, c) /\ Ending(c)
    BY PutCauseType, PutRunFrame, PutSame, FrameEnding
  <2> HIDE DEF c
  <2>2. <<"rollback_config">> \o StartSteps \in Seq(StepNames)
    BY StartStepsType DEF StepNames, TaskSteps
  <2>3. b \in Procs /\ Same(c, b) /\ Frame(c, b)
    BY <2>1, <2>2, PutStepsType, PutStepsFrame, PutSame
  <2> HIDE DEF b
  <2>4. Same(s, b) /\ Ending(b)
    BY <2>1, <2>3, FrameEnding, SameChain
  <2> QED
    BY <2>3, <2>4, AdvanceKeeps, SameChain
<1>6. Doubted(s, Advance(b)) /\ Ending(Advance(b))
  BY <1>5, SameDoubts DEF Keeps
<1> QED
  BY <1>2, <1>3, <1>4, <1>6 DEF StartFailed, d, b, c

LEMMA ImageFailedDoubts ==
  ASSUME NEW s \in Procs, NEW why, Ending(s)
  PROVE  Doubted(s, ImageFailed(s, why)) /\ Ending(ImageFailed(s, why))
<1> DEFINE image == IF why = "refused" THEN why ELSE "error"
           d == [s EXCEPT !.run.image = image]
<1>1. image \in {"none", "error", "refused"}
  OBVIOUS
<1> HIDE DEF image
<1>2. d \in Procs
  BY ZenonT(60), <1>1 DEF Procs, Runs
<1>3. Frame(s, d) /\ Same(s, d)
  BY PutRunFrame, PutSame
<1> HIDE DEF d
<1>4. Ending(d)
  BY <1>3, FrameEnding
<1>5. Doubted(d, StartFailed(d, why)) /\ Ending(StartFailed(d, why))
  BY <1>2, <1>4, StartFailedDoubts
<1>6. Doubted(s, StartFailed(d, why))
  BY <1>3, <1>5 DEF Same, Doubted
<1> QED
  BY <1>5, <1>6 DEF ImageFailed, image, d

LEMMA StopDoneDrops ==
  ASSUME NEW s \in Procs, NEW was_running \in BOOLEAN, Ending(s)
  PROVE  Dropped(s, StopDone(s, was_running))
<1> DEFINE was == was_running \/ (s.run.op = "backup" /\ s.wanted = "started")
           r == Release(s)
           wanted == IF s.run.op = "restore" THEN "stopped" ELSE r.wanted
           d == [r EXCEPT !.ev = "stopped", !.run.was = was, !.wanted = wanted]
<1>1. r \in Procs /\ was \in BOOLEAN /\ Frame(s, r) /\ Dropped(s, r)
  BY ReleaseType, ReleaseFrame, ReleaseDrops
<1>2. wanted \in Wants /\ "stopped" \in Seen
  BY <1>1 DEF Procs, Wants, Seen
<1> HIDE DEF was, wanted, r
<1>3. d \in Procs
  BY ZenonT(60), <1>1, <1>2 DEF Procs, Runs
<1>4. Frame(r, d) /\ d.cid = r.cid /\ d.released = r.released
  BY <1>1 DEF Constant, Frame, Procs, Runs
<1> HIDE DEF d
<1>5. Ending(d) /\ Dropped(s, d)
  BY <1>1, <1>4, FrameEnding DEF Dropped, IsReleased
<1>6. Dropped(s, Advance(d))
  BY <1>3, <1>5, AdvanceKeeps, SameDoubts DEF Keeps
<1> QED
  BY <1>6 DEF StopDone, was, wanted, r, d

LEMMA StrictStopFailedDrops ==
  ASSUME NEW s \in Procs, Ending(s) PROVE Dropped(s, StrictStopFailed(s))
<1> DEFINE was == Running(s) \/ s.wanted = "started"
           r == Release(s)
           c == [r EXCEPT !.run.result = "error"]
           d == [r EXCEPT !.run.result = "error", !.run.was = was]
           e == PutSteps(d, <<"start?">>)
<1>1. r \in Procs /\ was \in BOOLEAN /\ Ending(r) /\ Dropped(s, r)
  BY ReleaseType, ReleaseFrame, ReleaseDrops, FrameEnding DEF Running
<1> HIDE DEF was, r
<1>2. c \in Procs /\ Same(r, c) /\ Ending(c)
  BY <1>1, PutResultType, PutRunFrame, PutSame, FrameEnding
<1>3. d = [c EXCEPT !.run.was = was]
  OBVIOUS
<1> HIDE DEF c, d
<1>4. d \in Procs /\ Same(c, d) /\ Ending(d)
  BY <1>1, <1>2, <1>3, PutWasType, PutRunFrame, PutSame, FrameEnding
<1>5. <<"start?">> \in Seq(StepNames)
  BY DEF StepNames
<1>6. e \in Procs /\ Same(d, e) /\ Ending(e)
  BY <1>4, <1>5, PutStepsType, PutStepsFrame, PutSame, FrameEnding
<1> HIDE DEF e
<1>7. Same(r, Advance(e))
  BY <1>2, <1>4, <1>6, AdvanceKeeps, SameChain DEF Keeps
<1>8. Dropped(s, Advance(e))
  BY <1>1, <1>7, SameDoubts
<1> QED
  BY <1>8 DEF StrictStopFailed, was, r, d, e

LEMMA SnapshotDoneKeeps ==
  ASSUME NEW s \in Procs, NEW r, Ending(s) PROVE Keeps(s, SnapshotDone(s, r))
<1> DEFINE good == [s EXCEPT !.run.result = "ok"]
           bad == [s EXCEPT !.run.result = "error"]
           e == PutSteps(bad, <<"start?">>)
<1>1. /\ good \in Procs /\ Same(s, good) /\ Ending(good)
      /\ bad \in Procs /\ Same(s, bad) /\ Ending(bad)
  BY PutResultType, PutRunFrame, PutSame, FrameEnding
<1>2. [s EXCEPT !.run.result = IF r = "ok" THEN "ok" ELSE "error"]
        = IF r = "ok" THEN good ELSE bad
  BY DEF good, bad
<1> HIDE DEF good, bad
<1>3. <<"start?">> \in Seq(StepNames)
  BY DEF StepNames
<1>4. e \in Procs /\ Same(bad, e) /\ Ending(e)
  BY <1>1, <1>3, PutStepsType, PutStepsFrame, PutSame, FrameEnding
<1> HIDE DEF e
<1>5. /\ Keeps(s, Advance(good)) /\ Keeps(s, Advance(bad))
      /\ Keeps(s, Advance(e)) /\ Keeps(s, Advance(s))
  BY <1>1, <1>4, AdvanceKeeps, SameChain
<1> QED
  BY <1>2, <1>5 DEF SnapshotDone, e, bad

LEMMA OptionsDoneKeeps ==
  ASSUME NEW s \in Procs, NEW r, Ending(s) PROVE Keeps(s, OptionsDone(s, r))
<1> DEFINE d == [s EXCEPT !.opt = "backup", !.touched = TRUE, !.save = TRUE]
<1>1. d \in Procs /\ Same(s, d) /\ Ending(d)
  BY ZenonT(60) DEF Procs, OptionValues, Same, Ending
<1> HIDE DEF d
<1>2. Keeps(s, Advance(d)) /\ Keeps(s, Advance(s)) /\ Keeps(s, Fail(s))
  BY <1>1, AdvanceKeeps, FailKeeps, SameChain
<1> QED
  BY <1>2 DEF OptionsDone, d

LEMMA HaltDoneDrops == ASSUME NEW s \in Procs, NEW r PROVE Dropped(s, HaltDone(s, r))
<1>1. Release(s) \in Procs /\ Dropped(s, Release(s))
  BY ReleaseType, ReleaseDrops
<1> QED
  BY <1>1 DEF HaltDone, Dropped, IsReleased, Procs

LEMMA PortDoneKeeps ==
  ASSUME NEW s \in Procs, NEW r, Ending(s) PROVE Keeps(s, PortDone(s, r))
<1> DEFINE k == s.keys \cup {"port"}
           save == s.save \/ s.run.op # "install"
           d == [s EXCEPT !.port = TRUE, !.keys = k, !.save = save]
<1>1. k \in KeySets /\ save \in BOOLEAN
  BY DEF Procs, KeySets, KeyNames
<1> HIDE DEF k, save
<1>2. d \in Procs /\ Same(s, d) /\ Ending(d)
  BY ZenonT(60), <1>1 DEF Procs, Same, Ending
<1> HIDE DEF d
<1>3. Keeps(s, Advance(d)) /\ Keeps(s, Fail(s))
  BY <1>2, AdvanceKeeps, FailKeeps, SameChain
<1> QED
  BY <1>3 DEF PortDone, k, save, d

LEMMA SettleLearns ==
  ASSUME NEW s \in Procs, NEW r, NEW id \in Held, Ending(s)
  PROVE  Learns(s, Settle(s, r, id), r, id)
<1> DEFINE t == Settle(s, r, id)
           calm == [s EXCEPT !.img = 0]
<1>1. ASSUME NEW u, Keeps(s, u) PROVE Doubted(s, u) /\ Ending(u)
  BY <1>1, SameDoubts DEF Keeps
<1>2. Keeps(s, Advance(calm)) /\ Keeps(s, Advance(s)) /\ Keeps(s, Fail(s))
  <2>1. 0 \in ImageTries
    BY BoundsAssumption DEF ImageTries
  <2>2. calm \in Procs /\ Same(s, calm) /\ Ending(calm)
    BY <2>1 DEF Procs, Same, Ending
  <2> HIDE DEF calm
  <2> QED
    BY <2>2, AdvanceKeeps, FailKeeps, SameChain
<1> HIDE DEF calm
<1>3. /\ Keeps(s, ShutdownRefused(s)) /\ Keeps(s, Cleanup(s)) /\ Keeps(s, SnapshotDone(s, r))
      /\ Keeps(s, OptionsDone(s, r)) /\ Keeps(s, PortDone(s, r))
  BY ShutdownRefusedKeeps, CleanupKeeps, SnapshotDoneKeeps, OptionsDoneKeeps, PortDoneKeeps
<1>4. CASE s.run.step \in Stops
  <2>1. /\ Dropped(s, CleanedUp(s)) /\ Dropped(s, StopDone(s, r = "was_running"))
        /\ Dropped(s, StrictStopFailed(s)) /\ Dropped(s, HaltDone(s, r))
    BY CleanedUpDrops, StopDoneDrops, StrictStopFailedDrops, HaltDoneDrops
  <2>2. /\ Doubted(s, Fail(s)) /\ Doubted(s, Cleanup(s))
    BY <1>1, <1>2, <1>3
  <2>3. CASE s.run.step = "stop_by_name"
    BY <2>1, <2>3 DEF Settle, Learns, Stops
  <2>4. CASE s.run.step = "halt_stop"
    BY <2>1, <2>4 DEF Settle, Learns, Stops
  <2>5. CASE s.run.step = "stop"
    <3>1. CASE Good(r)
      BY <2>1, <2>5, <3>1 DEF Settle, Learns, Stops, Good
    <3>2. CASE ~Good(r) /\ r \in {"died", "timeout"}
      BY <2>2, <2>5, <3>2 DEF Settle, Learns, Stops, Good
    <3>3. CASE ~Good(r) /\ r \notin {"died", "timeout"}
      BY <2>2, <2>5, <3>3 DEF Settle, Learns, Stops, Good
    <3> QED
      BY <3>1, <3>2, <3>3
  <2>6. CASE s.run.step = "stop_strict"
    <3>1. CASE Good(r)
      BY <2>1, <2>6, <3>1 DEF Settle, Learns, Stops, Good
    <3>2. CASE r = "error"
      BY <2>1, <2>6, <3>2 DEF Settle, Learns, Stops, Good
    <3>3. CASE ~Good(r) /\ r \in {"died", "timeout"}
      BY <2>2, <2>6, <3>3 DEF Settle, Learns, Stops, Good
    <3>4. CASE ~Good(r) /\ r \notin {"error", "died", "timeout"}
      BY <2>2, <2>6, <3>4 DEF Settle, Learns, Stops, Good
    <3> QED
      BY <3>1, <3>2, <3>3, <3>4
  <2> QED
    BY <1>4, <2>3, <2>4, <2>5, <2>6 DEF Stops
<1>5. CASE s.run.step = "start" /\ r = "ok"
  <2>1. t = StartDone(s, id)
    BY <1>5 DEF Settle
  <2> QED
    BY <1>5, <2>1, StartDoneTakes DEF Learns, Stops
<1>6. CASE s.run.step \notin Stops /\ ~(s.run.step = "start" /\ r = "ok")
  <2>1. /\ Doubted(s, ImageFailed(s, r)) /\ Ending(ImageFailed(s, r))
        /\ Doubted(s, StartFailed(s, r)) /\ Ending(StartFailed(s, r))
    BY ImageFailedDoubts, StartFailedDoubts
  <2>2. \/ t = ShutdownRefused(s) \/ t = Advance(calm) \/ t = ImageFailed(s, r)
        \/ t = StartFailed(s, r) \/ t = SnapshotDone(s, r) \/ t = OptionsDone(s, r)
        \/ t = PortDone(s, r) \/ t = Advance(s) \/ t = Fail(s)
    BY <1>6 DEF Settle, Stops, calm
  <2>3. Doubted(s, t) /\ Ending(t)
    BY <1>1, <1>2, <1>3, <2>1, <2>2
  <2> QED
    BY <1>6, <2>3 DEF Learns
<1> QED
  BY <1>4, <1>5, <1>6

-----------------------------------------------------------------------------
(* Queues of events. *)

LEMMA AppendPlaces ==
  ASSUME NEW S, NEW q \in Seq(S), NEW m \in S
  PROVE  LET r == Append(q, m)
         IN  /\ r \in Seq(S) /\ Len(r) = Len(q) + 1 /\ Len(q) \in Nat
             /\ r[Len(q) + 1] = m /\ \A i \in 1..Len(q) : r[i] = q[i]
OBVIOUS

LEMMA TailPlaces ==
  ASSUME NEW S, NEW q \in Seq(S), q # <<>>
  PROVE  LET r == Tail(q)
         IN  /\ r \in Seq(S) /\ Len(q) = Len(r) + 1 /\ Len(r) \in Nat
             /\ q[1] = Head(q) /\ \A i \in 1..Len(r) : r[i] = q[i + 1]
OBVIOUS

LEMMA ExitAppended ==
  ASSUME NEW S, NEW q \in Seq(S), NEW m \in S
  PROVE  LET r == Append(q, m)
         IN  /\ \A id : ExitIn(r, id) <=> ExitIn(q, id) \/ IsExit(m, id)
             /\ \A i \in 1..Len(q) : Closed(r, i) <=> Closed(q, i) \/ IsExit(m, q[i].id)
<1> DEFINE r == Append(q, m)
<1>1. /\ Len(r) = Len(q) + 1 /\ Len(q) \in Nat
      /\ r[Len(q) + 1] = m /\ \A i \in 1..Len(q) : r[i] = q[i]
  BY AppendPlaces
<1> HIDE DEF r
<1>2. ASSUME NEW id PROVE ExitIn(r, id) <=> ExitIn(q, id) \/ IsExit(m, id)
  <2>1. ExitIn(r, id) => ExitIn(q, id) \/ IsExit(m, id)
    <3> SUFFICES ASSUME NEW i \in 1..Len(r), IsExit(r[i], id)
                 PROVE  ExitIn(q, id) \/ IsExit(m, id)
      BY DEF ExitIn
    <3>1. CASE i \in 1..Len(q)
      BY <1>1, <3>1 DEF ExitIn
    <3>2. CASE i = Len(q) + 1
      BY <1>1, <3>2
    <3> QED
      BY <1>1, <3>1, <3>2
  <2>2. ExitIn(q, id) => ExitIn(r, id)
    <3> SUFFICES ASSUME NEW i \in 1..Len(q), IsExit(q[i], id) PROVE ExitIn(r, id)
      BY DEF ExitIn
    <3>1. i \in 1..Len(r) /\ IsExit(r[i], id)
      BY <1>1
    <3> QED
      BY <3>1 DEF ExitIn
  <2>3. IsExit(m, id) => ExitIn(r, id)
    <3>1. Len(q) + 1 \in 1..Len(r)
      BY <1>1
    <3> QED
      BY <1>1, <3>1 DEF ExitIn
  <2> QED
    BY <2>1, <2>2, <2>3
<1>3. ASSUME NEW i \in 1..Len(q)
      PROVE  Closed(r, i) <=> Closed(q, i) \/ IsExit(m, q[i].id)
  <2>1. r[i] = q[i]
    BY <1>1
  <2>2. \A j \in i + 1..Len(q) : j \in i + 1..Len(r) /\ r[j] = q[j]
    BY <1>1
  <2>3. Len(q) + 1 \in i + 1..Len(r)
    BY <1>1
  <2>4. \A j \in i + 1..Len(r) : j \in i + 1..Len(q) \/ j = Len(q) + 1
    BY <1>1
  <2> QED
    BY <1>1, <2>1, <2>2, <2>3, <2>4 DEF Closed
<1> QED
  BY <1>2, <1>3 DEF r

LEMMA ExitTail ==
  ASSUME NEW S, NEW q \in Seq(S), q # <<>>
  PROVE  LET r == Tail(q)
         IN  /\ \A id : ExitIn(q, id) <=> IsExit(Head(q), id) \/ ExitIn(r, id)
             /\ \A i \in 1..Len(r) : Closed(q, i + 1) <=> Closed(r, i)
             /\ Closed(q, 1) <=> ExitIn(r, Head(q).id)
<1> DEFINE r == Tail(q)
<1>1. /\ Len(q) = Len(r) + 1 /\ Len(r) \in Nat
      /\ q[1] = Head(q) /\ \A i \in 1..Len(r) : r[i] = q[i + 1]
  BY TailPlaces
<1> HIDE DEF r
<1>2. \A i \in 1..Len(q) : i = 1 \/ (i - 1 \in 1..Len(r) /\ q[i] = r[i - 1])
  <2> TAKE i \in 1..Len(q)
  <2>1. i # 1 => i - 1 \in 1..Len(r) /\ (i - 1) + 1 = i
    BY <1>1
  <2> QED
    BY <1>1, <2>1
<1>3. \A i \in 1..Len(r) : i + 1 \in 1..Len(q) /\ i + 1 \in 2..Len(q)
  BY <1>1
<1>4. 1 \in 1..Len(q)
  BY <1>1
<1>5. ASSUME NEW id PROVE ExitIn(q, id) <=> IsExit(Head(q), id) \/ ExitIn(r, id)
  BY <1>1, <1>2, <1>3, <1>4 DEF ExitIn
<1>6. ASSUME NEW i \in 1..Len(r) PROVE Closed(q, i + 1) <=> Closed(r, i)
  <2>1. r[i] = q[i + 1]
    BY <1>1
  <2>2. \A j \in i + 1..Len(r) : j + 1 \in i + 1 + 1..Len(q) /\ r[j] = q[j + 1]
    BY <1>1
  <2>3. ASSUME NEW j \in i + 1 + 1..Len(q)
        PROVE  j - 1 \in i + 1..Len(r) /\ q[j] = r[j - 1]
    <3>1. j - 1 \in i + 1..Len(r) /\ j - 1 \in 1..Len(r) /\ (j - 1) + 1 = j
      BY <1>1
    <3> QED
      BY <1>1, <3>1
  <2> QED
    BY <2>1, <2>2, <2>3 DEF Closed
<1>7. Closed(q, 1) <=> ExitIn(r, Head(q).id)
  <2>1. \A j \in 1 + 1..Len(q) : j - 1 \in 1..Len(r) /\ q[j] = r[j - 1]
    <3> TAKE j \in 1 + 1..Len(q)
    <3>1. j \in 1..Len(q) /\ j # 1
      BY <1>1
    <3> QED
      BY <1>2, <3>1
  <2>2. \A i \in 1..Len(r) : i + 1 \in 1 + 1..Len(q)
    BY <1>1
  <2> QED
    BY <1>1, <2>1, <2>2 DEF Closed, ExitIn
<1> QED
  BY <1>5, <1>6, <1>7 DEF r
(* The exit that is sent last closes all that came before it, and so does  *)
(* any event that makes no other one late.                                 *)
LEMMA EndsAppended ==
  ASSUME NEW w \in Seq(Events), NEW q \in Seq(Messages), NEW e \in Events, NEW b, NEW c,
         NEW n \in Nat, Ends(w, q, b), Counted(w, q, n), e.id <= n, ~Late(e, c),
         \A m \in Messages : Late(m, c) => Late(m, b) \/ IsExit(e, m.id)
  PROVE  LET r == Append(w, e)
         IN  /\ r \in Seq(Events) /\ Ends(r, q, c) /\ Counted(r, q, n)
             /\ \A id : Due(r, q, id) <=> Due(w, q, id) \/ IsExit(e, id)
<1> DEFINE r == Append(w, e)
<1>1. /\ r \in Seq(Events) /\ Len(r) = Len(w) + 1 /\ Len(w) \in Nat
      /\ r[Len(w) + 1] = e /\ \A i \in 1..Len(w) : r[i] = w[i]
  BY AppendPlaces
<1>2. /\ \A id : ExitIn(r, id) <=> ExitIn(w, id) \/ IsExit(e, id)
      /\ \A i \in 1..Len(w) : Closed(r, i) <=> Closed(w, i) \/ IsExit(e, w[i].id)
  BY ExitAppended
<1> HIDE DEF r
<1>3. \A i \in 1..Len(r) : i \in 1..Len(w) \/ i = Len(w) + 1
  BY <1>1
<1>4. \A i \in 1..Len(w) : w[i] \in Messages
  BY DEF Messages
<1>5. \A i \in 1..Len(q) : q[i] \in Messages
  OBVIOUS
<1>6. Ends(r, q, c)
  <2>1. ASSUME NEW i \in 1..Len(r), Late(r[i], c) PROVE Closed(r, i)
    <3>1. i \in 1..Len(w) /\ r[i] = w[i]
      BY <1>1, <1>3, <2>1
    <3>2. Late(w[i], b) \/ IsExit(e, w[i].id)
      BY <1>4, <2>1, <3>1
    <3> QED
      BY <1>2, <3>1, <3>2 DEF Ends
  <2>2. ASSUME NEW i \in 1..Len(q), Late(q[i], c) PROVE Closed(q, i) \/ ExitIn(r, q[i].id)
    <3>1. Late(q[i], b) \/ IsExit(e, q[i].id)
      BY <1>5, <2>2
    <3> QED
      BY <1>2, <3>1 DEF Ends
  <2> QED
    BY <2>1, <2>2 DEF Ends
<1>7. Counted(r, q, n)
  BY <1>1, <1>3 DEF Counted
<1>8. \A id : Due(r, q, id) <=> Due(w, q, id) \/ IsExit(e, id)
  BY <1>2 DEF Due
<1> QED
  BY <1>1, <1>6, <1>7, <1>8 DEF r

(* A container that starts makes nothing late, nor does one that was not up. *)
LEMMA EndsAgain ==
  ASSUME NEW w \in Seq(Events), NEW q \in Seq(Messages), NEW b, NEW c, NEW n \in Nat,
         NEW k \in Nat, n <= k, Ends(w, q, b), Counted(w, q, n),
         \A m \in Messages : Late(m, c) => Late(m, b)
  PROVE  Ends(w, q, c) /\ Counted(w, q, k)
<1>0. \A m \in Messages : m.id \in Int
  BY DEF Messages, Events, Ids, Held
<1>1. \A i \in 1..Len(w) : w[i] \in Messages /\ w[i].id \in Int
  <2>1. \A i \in 1..Len(w) : w[i] \in Events
    OBVIOUS
  <2> QED
    BY <1>0, <2>1 DEF Messages
<1>2. \A i \in 1..Len(q) : q[i] \in Messages /\ q[i].id \in Int
  <2>1. \A i \in 1..Len(q) : q[i] \in Messages
    OBVIOUS
  <2> QED
    BY <1>0, <2>1
<1>3. Ends(w, q, c)
  BY <1>1, <1>2 DEF Ends
<1>4. Counted(w, q, k)
  <2>1. \A i \in 1..Len(w) : w[i].id <= k
    BY <1>1 DEF Counted
  <2>2. \A i \in 1..Len(q) : q[i].kind \in EventKinds => q[i].id <= k
    BY <1>2 DEF Counted
  <2> QED
    BY <2>1, <2>2 DEF Counted
<1> QED
  BY <1>3, <1>4

(* An event that is received has been sent before the rest.                *)
LEMMA EndsReceived ==
  ASSUME NEW w \in Seq(Events), w # <<>>, NEW b, NEW n, Ends(w, <<>>, b),
         Counted(w, <<>>, n)
  PROVE  LET r == Tail(w)
             m == Head(w)
         IN  /\ Ends(r, <<>>, b) /\ Counted(r, <<>>, n) /\ m.id <= n
             /\ \A id : Due(w, <<>>, id) <=> Due(r, <<>>, id) \/ IsExit(m, id)
             /\ Late(m, b) => Due(r, <<>>, m.id)
<1> DEFINE r == Tail(w)
<1>1. /\ r \in Seq(Events) /\ Len(w) = Len(r) + 1 /\ Len(r) \in Nat
      /\ w[1] = Head(w) /\ \A i \in 1..Len(r) : r[i] = w[i + 1]
  BY TailPlaces
<1>2. /\ \A id : ExitIn(w, id) <=> IsExit(Head(w), id) \/ ExitIn(r, id)
      /\ \A i \in 1..Len(r) : Closed(w, i + 1) <=> Closed(r, i)
      /\ Closed(w, 1) <=> ExitIn(r, Head(w).id)
  BY ExitTail
<1> HIDE DEF r
<1>3. 1 \in 1..Len(w) /\ \A i \in 1..Len(r) : i + 1 \in 1..Len(w)
  BY <1>1
<1>4. 1..Len(<<>>) = {}
  OBVIOUS
<1>5. Ends(r, <<>>, b) /\ Counted(r, <<>>, n) /\ Head(w).id <= n
  BY <1>1, <1>2, <1>3, <1>4 DEF Ends, Counted
<1>6. \A id : Due(w, <<>>, id) <=> Due(r, <<>>, id) \/ IsExit(Head(w), id)
  BY <1>2 DEF Due
<1>7. Late(Head(w), b) => Due(r, <<>>, Head(w).id)
  BY <1>1, <1>2, <1>3 DEF Ends, Due
<1> QED
  BY <1>5, <1>6, <1>7 DEF r

LEMMA EndsReplayed ==
  ASSUME NEW w \in Seq(Events), NEW q \in Seq(Messages), q # <<>>, NEW b, NEW n,
         Ends(w, q, b), Counted(w, q, n)
  PROVE  LET r == Tail(q)
             m == Head(q)
         IN  /\ Ends(w, r, b) /\ Counted(w, r, n) /\ (m.kind \in EventKinds => m.id <= n)
             /\ \A id : Due(w, q, id) <=> Due(w, r, id) \/ IsExit(m, id)
             /\ Late(m, b) => Due(w, r, m.id)
<1> DEFINE r == Tail(q)
<1>1. /\ r \in Seq(Messages) /\ Len(q) = Len(r) + 1 /\ Len(r) \in Nat
      /\ q[1] = Head(q) /\ \A i \in 1..Len(r) : r[i] = q[i + 1]
  BY TailPlaces
<1>2. /\ \A id : ExitIn(q, id) <=> IsExit(Head(q), id) \/ ExitIn(r, id)
      /\ \A i \in 1..Len(r) : Closed(q, i + 1) <=> Closed(r, i)
      /\ Closed(q, 1) <=> ExitIn(r, Head(q).id)
  BY ExitTail
<1> HIDE DEF r
<1>3. 1 \in 1..Len(q) /\ \A i \in 1..Len(r) : i + 1 \in 1..Len(q)
  BY <1>1
<1>4. /\ Ends(w, r, b) /\ Counted(w, r, n)
      /\ Head(q).kind \in EventKinds => Head(q).id <= n
  BY <1>1, <1>2, <1>3 DEF Ends, Counted
<1>5. \A id : Due(w, q, id) <=> Due(w, r, id) \/ IsExit(Head(q), id)
  BY <1>2 DEF Due
<1>6. Late(Head(q), b) => Due(w, r, Head(q).id)
  BY <1>1, <1>2, <1>3 DEF Ends, Due
<1> QED
  BY <1>4, <1>5, <1>6 DEF r

(* A message is postponed: an event that arrives, or a timer's.            *)
LEMMA EndsPostponed ==
  ASSUME NEW w \in Seq(Events), NEW q \in Seq(Messages), w # <<>>, NEW b, NEW n,
         Ends(w, q, b), Counted(w, q, n)
  PROVE  LET r == Tail(w)
             l == Append(q, Head(w))
         IN  /\ Ends(r, l, b) /\ Counted(r, l, n)
             /\ \A id : Due(r, l, id) <=> Due(w, q, id)
<1> DEFINE r == Tail(w)
           m == Head(w)
           l == Append(q, m)
<1>1. m \in Events /\ m \in Messages
  BY SomeKept DEF Messages
<1>2. /\ r \in Seq(Events) /\ Len(w) = Len(r) + 1 /\ Len(r) \in Nat
      /\ w[1] = m /\ \A i \in 1..Len(r) : r[i] = w[i + 1]
  BY TailPlaces
<1>3. /\ \A id : ExitIn(w, id) <=> IsExit(m, id) \/ ExitIn(r, id)
      /\ \A i \in 1..Len(r) : Closed(w, i + 1) <=> Closed(r, i)
      /\ Closed(w, 1) <=> ExitIn(r, m.id)
  BY ExitTail
<1> HIDE DEF r, m
<1>4. /\ l \in Seq(Messages) /\ Len(l) = Len(q) + 1 /\ Len(q) \in Nat
      /\ l[Len(q) + 1] = m /\ \A i \in 1..Len(q) : l[i] = q[i]
  BY <1>1, AppendPlaces
<1>5. /\ \A id : ExitIn(l, id) <=> ExitIn(q, id) \/ IsExit(m, id)
      /\ \A i \in 1..Len(q) : Closed(l, i) <=> Closed(q, i) \/ IsExit(m, q[i].id)
  BY <1>1, ExitAppended
<1> HIDE DEF l
<1>6. 1 \in 1..Len(w) /\ \A i \in 1..Len(r) : i + 1 \in 1..Len(w)
  BY <1>2
<1>7. \A i \in 1..Len(l) : i \in 1..Len(q) \/ i = Len(q) + 1
  BY <1>4
<1>8. Ends(r, l, b)
  <2>1. ASSUME NEW i \in 1..Len(r), Late(r[i], b) PROVE Closed(r, i)
    BY <1>2, <1>3, <1>6, <2>1 DEF Ends
  <2>2. ASSUME NEW i \in 1..Len(q), Late(l[i], b) PROVE Closed(l, i) \/ ExitIn(r, l[i].id)
    BY <1>3, <1>4, <1>5, <2>2 DEF Ends
  <2>3. Late(m, b) => ExitIn(r, m.id)
    BY <1>2, <1>3, <1>6 DEF Ends
  <2> QED
    BY <1>4, <1>7, <2>1, <2>2, <2>3 DEF Ends
<1>9. Counted(r, l, n)
  <2>1. \A i \in 1..Len(r) : r[i].id <= n
    BY <1>2, <1>6 DEF Counted
  <2>2. m.id <= n
    BY <1>2, <1>6 DEF Counted
  <2>3. \A i \in 1..Len(l) : l[i].kind \in EventKinds => l[i].id <= n
    BY <1>4, <1>7, <2>2 DEF Counted
  <2> QED
    BY <2>1, <2>3 DEF Counted
<1>10. \A id : Due(r, l, id) <=> Due(w, q, id)
  BY <1>3, <1>5 DEF Due
<1> QED
  BY <1>8, <1>9, <1>10 DEF r, l, m

LEMMA EndsTimed ==
  ASSUME NEW w \in Seq(Events), NEW q \in Seq(Messages), NEW m \in Messages, NEW b, NEW n,
         m.kind \in TimerKinds, Ends(w, q, b), Counted(w, q, n)
  PROVE  LET l == Append(q, m)
         IN  /\ Ends(w, l, b) /\ Counted(w, l, n)
             /\ \A id : Due(w, l, id) <=> Due(w, q, id)
<1> DEFINE l == Append(q, m)
<1>1. /\ l \in Seq(Messages) /\ Len(l) = Len(q) + 1 /\ Len(q) \in Nat
      /\ l[Len(q) + 1] = m /\ \A i \in 1..Len(q) : l[i] = q[i]
  BY AppendPlaces
<1>2. /\ \A id : ExitIn(l, id) <=> ExitIn(q, id) \/ IsExit(m, id)
      /\ \A i \in 1..Len(q) : Closed(l, i) <=> Closed(q, i) \/ IsExit(m, q[i].id)
  BY ExitAppended
<1> HIDE DEF l
<1>3. ~Late(m, b) /\ m.kind \notin EventKinds /\ \A id : ~IsExit(m, id)
  BY DEF Late, EventKinds, TimerKinds, IsExit
<1>4. \A i \in 1..Len(l) : i \in 1..Len(q) \/ i = Len(q) + 1
  BY <1>1
<1>5. Ends(w, l, b)
  BY <1>1, <1>2, <1>3, <1>4 DEF Ends
<1>6. Counted(w, l, n)
  BY <1>1, <1>3, <1>4 DEF Counted
<1>7. \A id : Due(w, l, id) <=> Due(w, q, id)
  BY <1>2, <1>3 DEF Due
<1> QED
  BY <1>5, <1>6, <1>7 DEF l

LEMMA EndsNone ==
  ASSUME NEW w, NEW q, NEW b, NEW n, Ends(w, q, b), Counted(w, q, n)
  PROVE  Ends(w, <<>>, b) /\ Counted(w, <<>>, n)
BY DEF Ends, Counted
-----------------------------------------------------------------------------
(* What a step of the process leaves of the invariant. *)

LEMMA NowBelieving ==
  ASSUME NEW t, p' = t, Knows(t), UNCHANGED <<box, ids>>, EventsEnd', Numbered', Drained',
         \A id : Due(wire', postponed', id) <=> Due(wire, postponed, id)
  PROVE  Believing'
BY DEF Believing, Knows, Hears, Trusts, Running, IsReleased, ExitDue, Announced, Reporting,
       Known, Believed, Alive, Emptied

(* A step of the process alone. *)
LEMMA AloneBelieving ==
  ASSUME NEW t, p' = t, Knows(t), UNCHANGED <<box, ids, wire, postponed>>, EventsEnd,
         Numbered, t.st = "down" => postponed = <<>>
  PROVE  Believing'
<1>1. EventsEnd' /\ Numbered' /\ Drained'
  BY DEF EventsEnd, Numbered, Drained
<1> QED
  BY <1>1, NowBelieving

LEMMA FreshKnows ==
  ASSUME ~box.up, ids \in Nat PROVE Knows(Fresh)
<1>1. /\ Fresh.cid = 0 /\ Fresh.released = <<>> /\ Fresh.st = "down" /\ Fresh.run = NoRun
      /\ NoRun.step = "none" /\ NoRun.op = "none" /\ ~Fresh.gone
  BY DEF Fresh, NoRun
<1>2. ~Trusts(Fresh)
  BY <1>1 DEF Trusts, Running
<1>3. DOMAIN Fresh.released = {}
  BY <1>1
<1> QED
  BY <1>1, <1>2, <1>3 DEF Knows, Hears, Announced, Reporting, Known, Emptied, Stops

LEMMA FreshBelieving ==
  ASSUME Inv, EventsEnd, Numbered, ~box.up, p' = Fresh, UNCHANGED <<box, ids, wire>>,
         postponed' = <<>>
  PROVE  Believing'
<1>1. Knows(Fresh) /\ Fresh.run.step = "none" /\ Fresh.cid = 0
  BY FreshKnows DEF Inv, Typed, TypeOK, Fresh, NoRun
<1>2. EventsEnd' /\ Numbered'
  BY EndsNone DEF EventsEnd, Numbered
<1>3. Fresh.st = "down" /\ Fresh.run.op = "none" /\ ~Fresh.gone /\ Fresh.released = <<>>
  BY DEF Fresh, NoRun
<1>4. ~Trusts(Fresh)
  BY <1>1 DEF Trusts, Running
<1>5. Drained'
  BY DEF Drained
<1>6. Knows(p)'
  BY <1>1, <1>3, <1>4 DEF Knows, Hears, Trusts, Running, Announced, Reporting, Known, Emptied,
     IsReleased, Stops
<1> QED
  BY <1>2, <1>5, <1>6 DEF Believing

LEMMA HearsSame ==
  ASSUME NEW s, NEW t, Hears(s), t.cid = s.cid, t.released = s.released,
         Trusts(t) => Trusts(s)
  PROVE  Hears(t)
BY DEF Hears, IsReleased

(* The process changes nothing the invariant speaks of. *)
LEMMA KnowsSame ==
  ASSUME NEW s, NEW t, Knows(s), Same(s, t), t.refused = s.refused, t.gone = s.gone,
         t.st = s.st, t.run.op = s.run.op, t.run.step = s.run.step, t.run.task = s.run.task
  PROVE  Knows(t)
BY HearsSame DEF Knows, Same, Trusts, Running, Announced, Reporting, IsReleased, Known,
   Believed, Alive, Emptied

(* Its record is at rest and nobody's operation is in flight. *)
LEMMA KnowsIdle ==
  ASSUME NEW t, Hears(t), t.run = NoRun, ~t.gone, t.st # "busy", t.st # "down",
         t.st = "refused" => t.refused, box.up => t.st = "idle" /\ Believed(t)
  PROVE  Knows(t)
BY DEF Knows, Announced, Reporting, NoRun, Known, Emptied, Stops

LEMMA SettledHears ==
  ASSUME NEW s, NEW t, Knows(s), t.refused = s.refused, ids \in Nat,
         \/ Doubted(s, t)
         \/ Dropped(s, t)
         \/ Reporting(s) /\ Taken(s, t, box.id) /\ box.id <= ids
  PROVE  Hears(t)
<1>1. CASE Doubted(s, t)
  BY <1>1, HearsSame DEF Knows, Doubted, Trusts, Running, Up
<1>2. CASE Dropped(s, t)
  <2>1. ~Trusts(t) /\ t.cid = 0
    BY <1>2 DEF Dropped, Trusts, Running
  <2>2. \A i \in DOMAIN t.released : t.released[i] <= ids
    BY <1>2 DEF Dropped, Knows, Hears, IsReleased
  <2> QED
    BY <2>1, <2>2 DEF Knows, Hears
<1>3. CASE Reporting(s) /\ Taken(s, t, box.id) /\ box.id <= ids
  BY <1>3 DEF Knows, Hears, Taken, Announced, IsReleased, Trusts
<1> QED
  BY <1>1, <1>2, <1>3
-----------------------------------------------------------------------------
(* The beginning and the end of a handler. *)

LEMMA PlanSame ==
  ASSUME NEW s \in Procs, NEW op \in Ops, NEW a \in Args, s.fate = "stay"
  PROVE  \E e \in Procs : /\ Begin(op, a, s) = Advance(e) /\ Same(s, e)
                          /\ e.fate = "stay" /\ e.gone = s.gone
                          /\ \E d : e.run.steps = Steps(op, a, d)
<1> DEFINE retry == IF op \in {"start", "restart", "stop", "uninstall", "halt"}
                    THEN NoTimer ELSE s.retry
           d == [s EXCEPT !.st = "busy", !.probing = FALSE, !.retry = retry]
           run == [NoRun EXCEPT !.op = op, !.steps = Steps(op, a, d),
                                !.from = a.from, !.retry = a.retry,
                                !.starts = a.starts, !.backup = a.backup,
                                !.options = a.options, !.old = d.ver]
           e == [d EXCEPT !.touched = FALSE, !.run = run]
<1>0. retry \in Armed /\ "busy" \in States
  BY DEF Procs, Armed, States
<1> HIDE DEF retry
<1>1. d \in Procs /\ Same(s, d) /\ d.fate = "stay" /\ d.gone = s.gone
  BY ZenonT(60), <1>0 DEF Procs, Same
<1> HIDE DEF d
<1>2. run \in Runs /\ run.steps = Steps(op, a, d)
  <2>1. Steps(op, a, d) \in Seq(StepNames) /\ NoRun \in Runs
    BY StepsType, FreshType
  <2>2. d.ver \in SavedVersions /\ op \in Ops \cup {"none"}
    BY <1>1 DEF Procs
  <2> QED
    BY <2>1, <2>2 DEF Runs, Args
<1> HIDE DEF run
<1>3. e \in Procs /\ Same(d, e) /\ e.fate = "stay" /\ e.gone = d.gone /\ e.run = run
  BY ZenonT(60), <1>1, <1>2 DEF Procs, Same
<1>4. e = Plan(op, a, d)
  BY DEF Plan, run
<1> HIDE DEF e
<1>5. Begin(op, a, s) = Advance(e)
  BY <1>4 DEF Begin, d, retry
<1>6. Same(s, e) /\ e.gone = s.gone /\ e.run.steps = Steps(op, a, d)
  BY <1>1, <1>2, <1>3, SameChain
<1> QED
  BY <1>3, <1>5, <1>6

LEMMA BeginKeeps ==
  ASSUME NEW s \in Procs, NEW op \in Ops, NEW a \in Args, s.fate = "stay"
  PROVE  Keeps(s, Begin(op, a, s))
<1>1. PICK e \in Procs : Begin(op, a, s) = Advance(e) /\ Same(s, e) /\ e.fate = "stay"
  BY PlanSame
<1>2. Keeps(e, Advance(e))
  BY <1>1, AdvanceKeeps DEF Ending
<1> QED
  BY <1>1, <1>2, SameChain

LEMMA BeforeTaskGone ==
  ASSUME NEW s \in Procs, NEW name PROVE BeforeTask(name, s).gone = s.gone
<1> DEFINE k == DropRunKeys(s)
<1>1. CancelTimers(s) \in Procs /\ CancelTimers(s).gone = s.gone
  BY ZenonT(60), CancelTimersType DEF CancelTimers, Procs
<1>2. [CancelTimers(s) EXCEPT !.keys = @ \ Keys(s), !.token = FALSE, !.ip = FALSE,
                              !.wanted = "stopped"].gone = s.gone
  BY <1>1 DEF Procs
<1>3. k \in Procs /\ k.gone = s.gone
  BY ZenonT(60), DropRunKeysType DEF DropRunKeys, Procs
<1> HIDE DEF k
<1>4. CancelTimers(k) \in Procs /\ CancelTimers(k).gone = s.gone
  BY <1>3, CancelTimersType DEF CancelTimers, Procs
<1>5. \A w : [CancelTimers(k) EXCEPT !.wanted = w].gone = s.gone
  BY <1>4 DEF Procs
<1> QED
  BY <1>2, <1>5 DEF BeforeTask, k

(* An uninstall and a halt begin with a task step that stops the container. *)
LEMMA StopsFirst ==
  ASSUME NEW s \in Procs, NEW op \in {"uninstall", "halt"}, NEW a \in Args, s.fate = "stay"
  PROVE  LET t == Begin(op, a, s)
         IN  t.fate = "stay" /\ t.gone = s.gone /\ t.run.step \in {"stop", "halt_stop"}
<1>0. op \in Ops
  BY DEF Ops
<1>1. PICK e \in Procs : /\ Begin(op, a, s) = Advance(e)
                         /\ e.fate = "stay" /\ e.gone = s.gone
                         /\ \E d : e.run.steps = Steps(op, a, d)
  BY <1>0, PlanSame
<1>2. e.run.steps = <<"stop", "delete_file", "remove_app">> \/ e.run.steps = <<"halt_stop">>
  BY <1>1 DEF Steps
<1> DEFINE name == Head(e.run.steps)
           b == BeforeTask(name, e)
<1>3. name \in {"stop", "halt_stop"} /\ e.run.steps # <<>>
  BY <1>2
<1> HIDE DEF name
<1>4. Local(e) = e
  BY ZenonT(60), <1>3 DEF Local, IsLocal, LocalNames, name
<1>5. Advance(e) = Launch(e)
  BY <1>4 DEF Advance
<1>6. b \in Procs /\ b.fate = "stay" /\ b.gone = e.gone
  BY <1>1, BeforeTaskType, BeforeTaskFrame, BeforeTaskGone DEF Constant, Frame
<1> HIDE DEF b
<1> DEFINE t == [b EXCEPT !.run.step = name, !.run.steps = Tail(b.run.steps),
                          !.run.task = "running"]
<1>7. t.fate = "stay" /\ t.run.step = name /\ t.gone = b.gone
  BY <1>6 DEF Procs, Runs
<1>8. Launch(e) = t
  BY <1>1, <1>3 DEF Launch, b, name
<1> QED
  BY <1>1, <1>3, <1>5, <1>6, <1>7, <1>8

LEMMA AfterSame ==
  ASSUME NEW s \in Procs, ~Exits(s)
  PROVE  Same(s, After(s)) /\ After(s).refused = s.refused /\ After(s).gone = s.gone
<1> DEFINE n == Neutral(s)
           u == Unsaved(s)
           st == CASE s.fate = "shutting_down" -> "shutting_down"
                   [] s.fate # "shutting_down" /\ s.refused -> "refused"
                   [] OTHER -> "idle"
<1>1. n \in Procs /\ Same(s, n) /\ n.refused = s.refused /\ n.gone = s.gone
  BY ZenonT(60), NeutralType DEF Neutral, Procs, Same
<1>2. \/ After(s) = [n EXCEPT !.run.unsaved = u]
      \/ After(s) = [n EXCEPT !.run = NoRun, !.retired = FALSE, !.st = st]
  BY DEF After
<1> HIDE DEF n, u, st
<1>3. LET t == [n EXCEPT !.run.unsaved = u]
      IN  Same(n, t) /\ t.refused = n.refused /\ t.gone = n.gone
  BY <1>1 DEF Procs, Same
<1>4. LET t == [n EXCEPT !.run = NoRun, !.retired = FALSE, !.st = st]
      IN  Same(n, t) /\ t.refused = n.refused /\ t.gone = n.gone
  BY <1>1 DEF Procs, Same
<1>5. Same(n, After(s)) /\ After(s).refused = n.refused /\ After(s).gone = n.gone
  BY <1>2, <1>3, <1>4
<1> QED
  BY <1>1, <1>5, SameChain

(* A handler that leaves the operation at its next task step. *)
LEMMA StayKnows ==
  ASSUME NEW s \in Procs, Out(s), ~Exits(s), s.fate = "stay", Hears(s),
         box.up => /\ Believed(s) \/ s.run.op = "halt"
                   /\ ~s.gone /\ s.run.op # "install" /\ s.run.step # "remove_app"
  PROVE  Knows(After(s))
<1> DEFINE t == After(s)
<1>1. /\ Same(s, t) /\ t.refused = s.refused /\ t.gone = s.gone /\ t.st = s.st
      /\ t.run.op = s.run.op /\ t.run.step = s.run.step /\ t.run.task = s.run.task
  BY AfterSame, StayFields DEF Alike
<1>2. s.st = "busy" /\ s.run.task = "running"
  BY DEF Out, OnTrack
<1> HIDE DEF t
<1>3. Hears(t) /\ (Believed(s) => Believed(t))
  BY <1>1, HearsSame DEF Same, Trusts, Running, Believed, Alive
<1> QED
  BY <1>1, <1>2, <1>3 DEF Knows, Announced, Reporting, Known, Emptied, Outcomes, t

(* A handler that ends it. *)
LEMMA EndKnows ==
  ASSUME NEW s \in Procs, Out(s), ~Exits(s), s.fate # "stay", Hears(s),
         box.up => Believed(s) /\ ~s.refused /\ s.fate # "shutting_down"
  PROVE  Knows(After(s))
<1> DEFINE t == After(s)
<1>1. /\ Same(s, t) /\ t.refused = s.refused /\ t.gone = s.gone /\ t.run = NoRun
      /\ t.st = IF s.fate = "shutting_down" THEN "shutting_down"
                ELSE IF s.refused THEN "refused" ELSE "idle"
  BY AfterSame, EndFields
<1>2. ~s.gone
  BY DEF Out, Over, Exits
<1> HIDE DEF t
<1>3. Hears(t) /\ (Believed(s) => Believed(t))
  BY <1>1, HearsSame DEF Same, Trusts, Running, Believed, Alive
<1> QED
  BY <1>1, <1>2, <1>3, KnowsIdle DEF t

(* Which operations have which task steps. *)
LEMMA StepOps ==
  ASSUME NEW op \in Ops
  PROVE  /\ Then(op, "remove_app") # {} => op = "uninstall"
         /\ \A name \in TaskSteps \ Stops :
              Then("uninstall", name) # {} => name = "remove_app"
BY DEF Then, ThenOfInstall, ThenOfUninstall, ThenOfStart, ThenOfUpdate, ThenOfBackup,
       ThenOfRestore, Ops, TaskSteps, Stops

(* What a handler leaves, whatever it did. *)
LEMMA LeaveKnows ==
  ASSUME Inv, NEW s \in Procs, Out(s), Hears(s),
         box.up => /\ Believed(s) /\ Ending(s)
                   /\ s.run.op \notin {"install", "uninstall", "halt"}
  PROVE  /\ Knows(After(s))
         /\ After(s).st = "down" => After(s) = Fresh /\ ~box.up
<1>1. OnTrack(s) /\ s.run.op \in Ops
  BY DEF Out, OnTrack
<1>2. box.up => ~s.gone /\ ~s.refused /\ ~Exits(s) /\ s.fate # "shutting_down"
  BY <1>1 DEF OnTrack, Ending, Exits, InstallUnsaved
<1>3. CASE Exits(s)
  <2>1. ~box.up /\ ids \in Nat
    BY <1>2, <1>3 DEF Inv, Typed, TypeOK
  <2> QED
    BY <1>3, <2>1, FreshKnows DEF After
<1>4. CASE ~Exits(s) /\ s.fate = "stay"
  <2>1. s.run.step = "remove_app" => s.run.op = "uninstall"
    BY <1>1, <1>4, StepOps DEF Out, AtWork, Here, Follows
  <2>2. After(s).st = "busy"
    BY <1>1, <1>4, StayFields DEF OnTrack, Alike
  <2> QED
    BY <1>2, <1>4, <2>1, <2>2, StayKnows
<1>5. CASE ~Exits(s) /\ s.fate # "stay"
  <2>1. After(s).st \in {"shutting_down", "refused", "idle"}
    BY <1>5, EndFields
  <2> QED
    BY <1>2, <1>5, <2>1, EndKnows
<1> QED
  BY <1>3, <1>4, <1>5
-----------------------------------------------------------------------------
(* One lemma per action: first those that begin an operation. *)

Believes == Inv /\ Planned /\ Believing

LEMMA BelievesFacts ==
  ASSUME Believes
  PROVE  /\ p \in Procs /\ ids \in Nat /\ box.id \in Held /\ (box.up => box.id # 0)
         /\ wire \in Seq(Events) /\ postponed \in Seq(Messages)
         /\ EventsEnd /\ Numbered /\ Drained /\ Knows(p) /\ Hears(p)
         /\ p.st # "busy" => p.run = NoRun /\ (box.up => p.st = "idle" /\ Believed(p))
<1>1. p.st # "busy" => p.run = NoRun /\ p.run.step = "none"
  BY DEF Believes, Planned, Resting, NoRun
<1>2. Inv /\ Knows(p) /\ Believing
  BY DEF Believes, Believing
<1>3. /\ p \in Procs /\ ids \in Nat /\ box.id \in Held /\ (box.up => box.id # 0)
      /\ wire \in Seq(Events) /\ postponed \in Seq(Messages)
  BY <1>2 DEF Inv, Typed, TypeOK, Boxes, UpHasId, Ids
<1>4. p.st # "busy" => p.run = NoRun /\ (box.up => p.st = "idle" /\ Believed(p))
  BY <1>1, <1>2 DEF Knows, Known
<1> QED
  BY <1>2, <1>3, <1>4 DEF Believing, Knows

LEMMA EnterSame ==
  ASSUME Inv, NEW disk \in Disk
  PROVE  LET s == Enter(disk)
         IN  /\ s \in Procs /\ s.fate = "stay" /\ Same(p, s) /\ s.st = p.st
             /\ s.refused = p.refused /\ s.gone = p.gone /\ s.run = p.run
<1>1. Enter(disk) \in Procs /\ Enter(disk).fate = "stay"
  BY EnterAlike
<1>2. p \in Procs
  BY DEF Inv, Typed, TypeOK
<1> QED
  BY <1>1, <1>2 DEF Enter, Procs, Same

LEMMA SameHears ==
  ASSUME NEW s, NEW t, Hears(s), Same(s, t), t.refused = s.refused
  PROVE  Hears(t) /\ (Believed(s) => Believed(t))
<1>1. Trusts(t) => Trusts(s)
  BY DEF Same, Trusts, Running
<1>2. Hears(t)
  BY <1>1, HearsSame DEF Same
<1> QED
  BY <1>2 DEF Same, Believed, Alive

(* The container is what it was and the same exits are on their way. *)
Unmoved == /\ UNCHANGED <<box, ids>> /\ EventsEnd' /\ Numbered'
           /\ \A id : Due(wire', postponed', id) <=> Due(wire, postponed, id)

(* The process goes, and with it what it had postponed; or it stays. *)
Leaving == IF p'.st = "down" THEN UNCHANGED <<box, ids, wire>> /\ postponed' = <<>>
          ELSE Unmoved

LEMMA StillUnmoved ==
  ASSUME EventsEnd, Numbered, UNCHANGED <<box, ids, wire, postponed>> PROVE Unmoved
BY DEF Unmoved, EventsEnd, Numbered

LEMMA UnmovedBelieving ==
  ASSUME NEW t, p' = t, Knows(t), t.st # "down", Unmoved PROVE Believing'
<1>1. Drained'
  BY DEF Drained
<1> QED
  BY <1>1, NowBelieving DEF Unmoved

(* A handler that goes through an operation. *)
LEMMA LeaveBelieving ==
  ASSUME Believes, NEW s \in Procs, Out(s), Hears(s),
         box.up => /\ Believed(s) /\ Ending(s)
                   /\ s.run.op \notin {"install", "uninstall", "halt"},
         p' = After(s), Leaving
  PROVE  Believing'
<1>1. /\ Knows(After(s))
      /\ After(s).st = "down" => After(s) = Fresh /\ ~box.up
  BY LeaveKnows DEF Believes
<1>2. EventsEnd /\ Numbered /\ Inv
  BY DEF Believes, Believing
<1>3. CASE p'.st = "down"
  BY <1>1, <1>2, <1>3, FreshBelieving DEF Leaving
<1>4. CASE p'.st # "down"
  BY <1>1, <1>4, UnmovedBelieving DEF Leaving
<1> QED
  BY <1>3, <1>4

(* An operation that begins on what the process believed. *)
LEMMA BeginBelieving ==
  ASSUME Believes, NEW s \in Procs, NEW op \in Ops, NEW a \in Args, Fit(op, s),
         Balanced(s), Same(p, s), s.refused = p.refused,
         box.up => Believed(p) /\ op \notin {"install", "uninstall", "halt"},
         p' = After(Begin(op, a, s)), Leaving
  PROVE  Believing'
<1> DEFINE t == Begin(op, a, s)
<1>1. t \in Procs /\ Out(t) /\ t.run.op = op /\ t.refused = s.refused
  BY BeginType, BeginOut, BeginCarries
<1>2. Same(s, t) /\ Ending(t)
  BY BeginKeeps DEF Keeps, Fit
<1>3. p' = After(t) /\ Hears(p)
  BY BelievesFacts
<1> HIDE DEF t
<1>4. Same(p, t) /\ t.refused = p.refused
  BY <1>1, <1>2, SameChain
<1>5. Hears(t) /\ (Believed(p) => Believed(t))
  BY <1>3, <1>4, SameHears
<1> QED
  BY <1>1, <1>2, <1>3, <1>5, LeaveBelieving

(* One that first stops the container. *)
LEMMA StopBelieving ==
  ASSUME Believes, NEW s \in Procs, NEW op \in {"uninstall", "halt"}, NEW a \in Args,
         Fit(op, s), Balanced(s), Same(p, s), s.refused = p.refused, s.gone = p.gone,
         box.up => Believed(p) \/ op = "halt",
         p' = After(Begin(op, a, s)), p'.st # "down" => Unmoved
  PROVE  Believing'
<1> DEFINE t == Begin(op, a, s)
<1>0. op \in Ops /\ s.fate = "stay"
  BY DEF Ops, Fit
<1>1. t \in Procs /\ Out(t) /\ t.run.op = op /\ t.refused = s.refused
  BY <1>0, BeginType, BeginOut, BeginCarries
<1>2. Same(s, t) /\ t.fate = "stay" /\ t.gone = s.gone /\ t.run.step \in {"stop", "halt_stop"}
  BY <1>0, BeginKeeps, StopsFirst DEF Keeps
<1>3. p' = After(t) /\ Hears(p) /\ (p.gone => ~box.up)
  BY BelievesFacts DEF Knows, Emptied
<1> HIDE DEF t
<1>4. Same(p, t) /\ t.refused = p.refused
  BY <1>1, <1>2, SameChain
<1>5. Hears(t) /\ (Believed(p) => Believed(t))
  BY <1>3, <1>4, SameHears
<1>6. ~Exits(t)
  BY <1>1, <1>2 DEF Exits, InstallUnsaved
<1>7. Knows(After(t))
  BY <1>1, <1>2, <1>3, <1>5, <1>6, StayKnows
<1>8. After(t).st = "busy"
  BY <1>1, <1>2, <1>6, StayFields DEF Out, OnTrack, Alike
<1> QED
  BY <1>3, <1>7, <1>8, UnmovedBelieving

LEMMA CommandBelieving ==
  ASSUME Believes, NEW op \in Commands, Command(op) PROVE Believing'
<1>1. PICK a \in ArgsOf(op), disk \in Disk :
        p' = After(Begin(op, a, IF op = "uninstall"
                                THEN [Enter(disk) EXCEPT !.retired = TRUE]
                                ELSE Enter(disk)))
  BY DEF Command, Leave
<1> DEFINE s == IF op = "uninstall" THEN [Enter(disk) EXCEPT !.retired = TRUE]
                ELSE Enter(disk)
<1>2. /\ s \in Procs /\ Balanced(s) /\ Fit(op, s) /\ op \in Ops /\ op # "halt"
      /\ s.refused = p.refused /\ s.gone = p.gone /\ p.st \in {"new", "idle", "refused"}
      /\ (p.st = "new" <=> op = "install") /\ a \in Args
  BY CommandFits, ArgsOfType DEF Believes
<1>3. Same(p, s)
  BY EnterSame DEF Believes, Same, Procs
<1>4. p' = After(Begin(op, a, s))
  BY <1>1
<1> HIDE DEF s
<1>5. box.up => Believed(p) /\ p.st = "idle"
  BY <1>2, BelievesFacts
<1>6. p'.st # "down" => Unmoved
  BY StillUnmoved, BelievesFacts DEF Command, outside
<1>7. Leaving
  BY <1>6 DEF Command, outside, Leaving
<1>8. CASE op = "uninstall"
  BY <1>2, <1>3, <1>4, <1>5, <1>6, <1>8, StopBelieving
<1>9. CASE op # "uninstall"
  BY <1>2, <1>3, <1>4, <1>5, <1>7, <1>9, BeginBelieving
<1> QED
  BY <1>8, <1>9

(* A halt finds the container of a start that has not reported, too.       *)
LEMMA HaltBelieving == ASSUME Believes, Halt PROVE Believing'
<1>0. UNCHANGED <<box, ids, wire>>
  BY DEF Halt
<1>1. CASE p.run.op = "install" /\ p' = Fresh /\ postponed' = <<>>
  <2>1. ~box.up
    BY <1>1, BelievesFacts DEF Knows, Emptied
  <2> QED
    BY <1>0, <1>1, <2>1, BelievesFacts, FreshBelieving DEF Believes
<1>2. CASE /\ p.run.op # "install" /\ UNCHANGED postponed
           /\ p' = After(Begin("halt", Called, Enter(TRUE)))
  <2> DEFINE s == Enter(TRUE)
  <2>1. TRUE \in Disk /\ Called \in Args
    BY DEF Disk, Called, Args
  <2>2. s \in Procs /\ Same(p, s) /\ s.refused = p.refused /\ s.gone = p.gone
    BY <2>1, EnterSame DEF Believes
  <2>3. Fit("halt", s) /\ Balanced(s)
    BY <1>2, <2>1, HaltFits, EnterAlike DEF Believes
  <2>4. p' = After(Begin("halt", Called, s))
    BY <1>2
  <2> HIDE DEF s
  <2>5. Unmoved
    BY <1>0, <1>2, StillUnmoved, BelievesFacts
  <2> QED
    BY <2>1, <2>2, <2>3, <2>4, <2>5, StopBelieving
<1> QED
  BY <1>1, <1>2 DEF Halt

LEMMA NeutralSame ==
  ASSUME NEW s \in Procs
  PROVE  LET t == Neutral(s)
         IN  /\ Same(s, t) /\ t.refused = s.refused /\ t.gone = s.gone /\ t.st = s.st
             /\ t.run = s.run
BY DEF Neutral, Procs, Same

(* A handler outside any operation that learns nothing of the container.   *)
LEMMA RestBelieving ==
  ASSUME Believes, NEW s \in Procs, p' = Neutral(s), Unmoved, Same(p, s),
         s.refused = p.refused, s.gone = p.gone, s.run = p.run, p.st # "busy",
         s.st \notin {"busy", "down"}, s.st = "refused" => s.refused,
         box.up => s.st = "idle"
  PROVE  Believing'
<1> DEFINE t == Neutral(s)
<1>1. /\ Same(s, t) /\ t.refused = s.refused /\ t.gone = s.gone /\ t.st = s.st
      /\ t.run = s.run /\ p' = t
  BY NeutralSame
<1> HIDE DEF t
<1>2. Hears(p) /\ p.run = NoRun /\ (box.up => Believed(p)) /\ ~p.gone
  BY BelievesFacts, RestingFacts DEF Believes
<1>3. Same(p, t) /\ t.refused = p.refused
  BY <1>1, SameChain
<1>4. Hears(t) /\ (Believed(p) => Believed(t))
  BY <1>2, <1>3, SameHears
<1>5. Knows(t)
  BY <1>1, <1>2, <1>4, KnowsIdle
<1> QED
  BY <1>1, <1>5, UnmovedBelieving

LEMMA StartFits ==
  ASSUME NEW s \in Procs, Resting(s), s.fate = "stay", ~s.save, ~s.refused,
         s.st \notin {"down", "new"}
  PROVE  Fit("start", s)
BY DEF Resting, Fit

LEMMA BootStartBelieving == ASSUME Believes, BootStart PROVE Believing'
<1>1. PICK disk \in Disk :
        LET s == [Enter(disk) EXCEPT !.st = "idle"]
        IN  \/ p.refused /\ Rest([s EXCEPT !.st = "refused"])
            \/ ~p.refused /\ Leave(Begin("start", Called, s), callers + 1)
            \/ ~p.refused /\ Leave([s EXCEPT !.wanted = "stopped", !.retry = NoTimer,
                                             !.save = TRUE, !.fate = "idle"], callers)
            \/ ~p.refused /\ Rest(s)
  BY BootStartCases DEF Believes
<1> DEFINE e == Enter(disk)
           s == [e EXCEPT !.st = "idle"]
           q == [s EXCEPT !.st = "refused"]
           d == [s EXCEPT !.wanted = "stopped", !.retry = NoTimer,
                          !.save = TRUE, !.fate = "idle"]
<1>2. /\ e \in Procs /\ Balanced(e) /\ e.fate = "stay" /\ Alike(p, e) /\ e.run = p.run
      /\ e.save = p.save /\ Same(p, e)
  BY EnterAlike, EnterSame DEF Believes
<1>3. /\ p.st \in {"idle", "shutting_down"} /\ Resting(p) /\ ~p.save /\ ~p.gone
      /\ p.run = NoRun /\ (box.up => p.st = "idle" /\ Believed(p) /\ ~p.refused)
  BY RestingFacts, BelievesFacts DEF BootStart, Believes
<1>4. Unmoved /\ postponed = <<>> /\ postponed' = postponed /\ UNCHANGED <<box, ids, wire>>
  BY <1>3, StillUnmoved, BelievesFacts DEF BootStart, Quiet
<1>5. Leaving
  BY <1>4 DEF Leaving
<1>6. Resting(e)
  BY <1>2, <1>3, AlikeFacts DEF Believes, Inv, Typed, TypeOK
<1> HIDE DEF e
<1>7. /\ s \in Procs /\ Balanced(s) /\ s.fate = "stay" /\ ~s.save /\ Same(p, s)
      /\ s.st = "idle" /\ s.run = e.run /\ s.probing = e.probing /\ s.retired = e.retired
      /\ s.refused = e.refused /\ s.gone = e.gone /\ s.ver = e.ver /\ s.token = e.token
      /\ s.ip = e.ip /\ s.port = e.port /\ s.keys = e.keys /\ s.cid = e.cid
      /\ s.ev = e.ev
  BY <1>2, <1>3 DEF Procs, Balanced, Same, Alike, States
<1>8. \/ p.refused /\ p' = Neutral(q)
      \/ ~p.refused /\ p' = After(Begin("start", Called, s))
      \/ ~p.refused /\ p' = After(d)
      \/ ~p.refused /\ p' = Neutral(s)
  BY <1>1 DEF e, Rest, Leave
<1> HIDE DEF s
<1>9. s.refused = p.refused /\ s.gone = p.gone /\ s.run = p.run
  BY <1>2, <1>7 DEF Alike
<1>10. CASE p.refused /\ p' = Neutral(q)
  <2>1. /\ q \in Procs /\ Same(p, q) /\ q.st = "refused" /\ q.refused = p.refused
        /\ q.gone = p.gone /\ q.run = p.run
    BY <1>7, <1>9 DEF Procs, States, Same
  <2> HIDE DEF q
  <2> QED
    BY <1>3, <1>4, <1>10, <2>1, RestBelieving
<1>11. CASE ~p.refused /\ p' = After(Begin("start", Called, s))
  <2>1. Keys(s) = Keys(e)
    BY <1>2, <1>7, KeysAgree
  <2>2. KeysKept(s) /\ TokenBacked(s) /\ e.st \notin {"down", "new"}
    <3>1. e.st \notin {"down", "new"}
      BY <1>2, <1>3 DEF Alike
    <3> QED
      BY <1>6, <1>7, <2>1, <3>1 DEF Resting, KeysKept, TokenBacked, Backed, Alive
  <2>3. Fit("start", s)
    BY <1>6, <1>7, <1>9, <1>11, <2>2 DEF Resting, Fit
  <2>4. Called \in Args /\ "start" \in Ops
    BY DEF Called, Args, Ops
  <2> QED
    BY <1>3, <1>5, <1>7, <1>9, <1>11, <2>3, <2>4, BeginBelieving
<1>12. CASE ~p.refused /\ p' = After(d)
  <2> DEFINE t == After(d)
  <2>1. /\ d \in Procs /\ Same(p, d) /\ d.fate = "idle" /\ d.run = p.run
        /\ d.refused = p.refused /\ d.gone = p.gone
    BY ZenonT(60), <1>7, <1>9 DEF Procs, Wants, Armed, Fates, Same
  <2> HIDE DEF d
  <2>2. ~Exits(d)
    BY <1>3, <2>1 DEF Exits, InstallUnsaved, NoRun
  <2>3. /\ t.st = "idle" /\ t.run = NoRun /\ ~t.gone /\ Same(d, t) /\ t.refused = d.refused
    BY <1>3, <1>12, <2>1, <2>2, EndFields, AfterSame
  <2>4. p' = t
    BY <1>12
  <2> HIDE DEF t
  <2>5. Same(p, t) /\ t.refused = p.refused
    BY <2>1, <2>3, SameChain
  <2>6. Hears(t) /\ (Believed(p) => Believed(t))
    BY <2>5, SameHears, BelievesFacts
  <2>7. Knows(t)
    BY <1>3, <2>3, <2>6, KnowsIdle
  <2> QED
    BY <1>4, <2>3, <2>4, <2>7, UnmovedBelieving
<1>13. CASE ~p.refused /\ p' = Neutral(s)
  BY <1>3, <1>4, <1>7, <1>9, <1>13, RestBelieving
<1> QED
  BY SMTT(30), <1>8, <1>10, <1>11, <1>12, <1>13
-----------------------------------------------------------------------------
(* Steps that learn nothing of the container. *)

LEMMA StrikeSees ==
  ASSUME NEW s \in Procs, NEW result
  PROVE  LET t == Strike(result, s)
         IN  /\ t.cid = s.cid /\ t.released = s.released /\ t.ev \in {s.ev, "failed_probe"}
             /\ t.refused = s.refused /\ t.gone = s.gone /\ t.st = s.st /\ t.run = s.run
<1> DEFINE d == [s EXCEPT !.strikes = 0]
           out == [s EXCEPT !.strikes = 0, !.ev = "failed_probe"]
<1>1. /\ d.cid = s.cid /\ d.released = s.released /\ d.ev = s.ev /\ d.refused = s.refused
      /\ d.gone = s.gone /\ d.st = s.st /\ d.run = s.run
  BY DEF Procs
<1>2. /\ out.cid = s.cid /\ out.released = s.released /\ out.ev = "failed_probe"
      /\ out.refused = s.refused /\ out.gone = s.gone /\ out.st = s.st /\ out.run = s.run
  BY DEF Procs
<1>3. \A a, b : LET t == [s EXCEPT !.strikes = a, !.probe = b]
                IN  /\ t.cid = s.cid /\ t.released = s.released /\ t.ev = s.ev
                    /\ t.refused = s.refused /\ t.gone = s.gone /\ t.st = s.st
                    /\ t.run = s.run
  BY DEF Procs
<1>4. LET t == [s EXCEPT !.probe = TRUE]
      IN  /\ t.cid = s.cid /\ t.released = s.released /\ t.ev = s.ev
          /\ t.refused = s.refused /\ t.gone = s.gone /\ t.st = s.st /\ t.run = s.run
  BY DEF Procs
<1>5. d \in Procs
  BY BoundsAssumption DEF Procs, StrikeCounts
<1> HIDE DEF d
<1>6. LET t == Retry(d)
      IN  /\ t.cid = d.cid /\ t.released = d.released /\ t.ev = d.ev
          /\ t.refused = d.refused /\ t.gone = d.gone /\ t.st = d.st /\ t.run = d.run
  BY <1>5 DEF Retry, Procs
<1> QED
  BY <1>1, <1>2, <1>3, <1>4, <1>6 DEF Strike, d

LEMMA ProbeBelieving == ASSUME Believes, ProbeAnswer PROVE Believing'
<1> DEFINE e == Enter(TRUE)
           s == [e EXCEPT !.probing = FALSE]
<1>1. PICK result \in {"healthy", "unhealthy", "skip"} : p' = Neutral(Strike(result, s))
  BY DEF ProbeAnswer, Rest
<1>2. e \in Procs /\ Same(p, e) /\ e.st = p.st /\ e.refused = p.refused /\ e.gone = p.gone
      /\ e.run = p.run
  BY EnterSame DEF Believes, Disk
<1>3. p.probing /\ p.st = "idle" /\ p.cid # 0 /\ ~p.gone
  BY RestingFacts DEF ProbeAnswer, Believes, Planned, OnTrack, Resting
<1>4. Unmoved
  BY StillUnmoved, BelievesFacts DEF ProbeAnswer
<1> HIDE DEF e
<1>5. s \in Procs /\ Same(e, s) /\ s.st = e.st /\ s.refused = e.refused /\ s.gone = e.gone
      /\ s.run = e.run
  BY <1>2 DEF Procs, Same
<1> HIDE DEF s
<1> DEFINE k == Strike(result, s)
           t == Neutral(k)
<1>6. /\ k \in Procs /\ k.cid = s.cid /\ k.released = s.released
      /\ k.ev \in {s.ev, "failed_probe"} /\ k.refused = s.refused /\ k.gone = s.gone
      /\ k.st = s.st /\ k.run = s.run
  BY <1>5, StrikeSees, StrikeType
<1>7. p' = t
  BY <1>1
<1> HIDE DEF k
<1>8. /\ Same(k, t) /\ t.refused = k.refused /\ t.gone = k.gone /\ t.st = k.st
      /\ t.run = k.run
  BY <1>6, NeutralSame
<1> HIDE DEF t
<1>9. /\ t.cid = p.cid /\ t.released = p.released /\ t.ev \in {p.ev, "failed_probe"}
      /\ t.refused = p.refused /\ t.st = "idle" /\ t.run = p.run /\ ~t.gone
  BY <1>2, <1>3, <1>5, <1>6, <1>8 DEF Same
<1>10. Hears(p) /\ p.run = NoRun /\ (box.up => Believed(p))
  BY <1>3, BelievesFacts
<1>11. Hears(t)
  BY <1>9, <1>10, HearsSame DEF Trusts, Running, Up
<1>12. box.up => Believed(t)
  BY <1>3, <1>9, <1>10 DEF Believed, Alive
<1>13. Knows(t)
  BY <1>9, <1>10, <1>11, <1>12, KnowsIdle
<1> QED
  BY <1>4, <1>7, <1>9, <1>13, UnmovedBelieving

LEMMA SettingBelieving == ASSUME Believes, SetOptions \/ SetWatchdog PROVE Believing'
<1>1. PICK s : /\ p' = s /\ UNCHANGED <<box, ids, wire, postponed>>
               /\ \/ s = [p EXCEPT !.opt = "user", !.touched = TRUE]
                  \/ s = [p EXCEPT !.watchdog = ~p.watchdog,
                                   !.probe = IF p.watchdog THEN FALSE
                                             ELSE p.probe \/ p.cid # 0]
  BY DEF SetOptions, SetWatchdog
<1>2. Same(p, s) /\ s.refused = p.refused /\ s.gone = p.gone /\ s.st = p.st /\ s.run = p.run
  BY ZenonT(60), <1>1, BelievesFacts DEF Procs, Same
<1>3. Knows(s)
  BY <1>2, KnowsSame, BelievesFacts
<1>4. s.st = "down" => postponed = <<>>
  BY <1>2, BelievesFacts DEF Drained
<1> QED
  BY <1>1, <1>3, <1>4, AloneBelieving, BelievesFacts

LEMMA ExpireBelieving == ASSUME Believes, Expire PROVE Believing'
<1>1. p.st = "new" /\ postponed = <<>> /\ p' = Fresh /\ UNCHANGED <<box, ids, wire, postponed>>
  BY DEF Expire, Quiet
<1>2. ~box.up
  BY <1>1, BelievesFacts
<1> QED
  BY <1>1, <1>2, FreshBelieving, BelievesFacts DEF Believes

(* A process that starts holds no container. *)
Begun(t) == /\ t.cid = 0 /\ t.released = <<>> /\ t.run = NoRun /\ ~t.gone
            /\ t.st \notin {"busy", "down"} /\ (t.st = "refused" => t.refused)

LEMMA SpawnBelieving == ASSUME Believes, Spawn PROVE Believing'
<1>1. p.st = "down" /\ UNCHANGED <<box, ids, wire, postponed>> /\ ~box.up
  BY BelievesFacts DEF Spawn
<1>2. \/ p' = [Fresh EXCEPT !.st = "new"]
      \/ \E port : p' = Loaded(port)
      \/ p' = [Fresh EXCEPT !.st = "refused", !.refused = TRUE, !.ver = 1]
  BY DEF Spawn
<1>3. PICK t : p' = t /\ Begun(t)
  <2>1. LET s == [Fresh EXCEPT !.st = "new"] IN Begun(s)
    BY DEF Begun, Fresh
  <2>2. LET s == [Fresh EXCEPT !.st = "refused", !.refused = TRUE, !.ver = 1] IN Begun(s)
    BY DEF Begun, Fresh
  <2>3. \A port : Begun(Loaded(port))
    BY DEF Begun, Fresh, Loaded
  <2> QED
    BY <1>2, <2>1, <2>2, <2>3
<1>4. ~Trusts(t) /\ DOMAIN t.released = {}
  BY <1>3 DEF Begun, Trusts, Running
<1>5. Hears(t)
  BY <1>1, <1>3, <1>4, BelievesFacts DEF Begun, Hears
<1>6. Knows(t)
  BY <1>1, <1>3, <1>5, KnowsIdle DEF Begun
<1> QED
  BY <1>1, <1>3, <1>6, AloneBelieving, BelievesFacts DEF Begun

(* A step of the surroundings that is seen by no one yet. *)
LEMMA StillBelieving ==
  ASSUME Believes, UNCHANGED <<p, box, ids, wire, postponed>> PROVE Believing'
<1>1. Knows(p) /\ (p.st = "down" => postponed = <<>>) /\ p' = p
  BY BelievesFacts DEF Drained
<1> QED
  BY <1>1, AloneBelieving, BelievesFacts

(* A task step reports what changes nothing of the container. *)
LEMMA ReportBelieving ==
  ASSUME Believes, NEW r, Finished(r), UNCHANGED <<box, ids, wire>>, p.st = "busy",
         p.run.task # "ok", p.run.step \notin Stops, p.run.step = "start" => r # "ok"
  PROVE  Believing'
<1> DEFINE t == [p EXCEPT !.run.task = r]
<1>1. p' = t /\ UNCHANGED postponed
  BY DEF Finished
<1>2. /\ Same(p, t) /\ t.refused = p.refused /\ t.gone = p.gone /\ t.st = p.st
      /\ t.run.op = p.run.op /\ t.run.step = p.run.step /\ t.run.task = r
  BY BelievesFacts DEF Procs, Runs, Same
<1> HIDE DEF t
<1>3. Hears(t) /\ (Believed(p) => Believed(t))
  BY <1>2, SameHears, BelievesFacts
<1>4. Known(t) /\ Emptied(t) /\ Announced(t)
  BY <1>2, <1>3, BelievesFacts DEF Knows, Known, Emptied, Announced, Reporting
<1> QED
  BY <1>1, <1>2, <1>3, <1>4, AloneBelieving, BelievesFacts DEF Knows

LEMMA CheckBelieving == ASSUME Believes, Check \/ WorkElsewhere PROVE Believing'
<1>1. PICK r : Finished(r) /\ UNCHANGED <<box, ids, wire>> /\ p.run.task # "ok"
               /\ p.run.step \notin Stops /\ (p.run.step = "start" => r # "ok")
               /\ p.run.task # "none"
  BY DEF Check, WorkElsewhere, Works, Guarded, Stops
<1>2. p.st = "busy"
  BY <1>1, BelievesFacts DEF NoRun
<1> QED
  BY <1>1, <1>2, ReportBelieving
-----------------------------------------------------------------------------
(* The result of a task step: of a stop, that the container is gone; of a  *)
(* start, which one there is now.                                          *)

LEMMA DoneBelieving == ASSUME Believes, Done PROVE Believing'
<1>1. PICK disk \in Disk : p' = After(Settle(Enter(disk), p.run.task, box.id))
  BY DEF Done, Leave
<1> DEFINE r == p.run.task
           id == box.id
           s == Enter(disk)
           t == Settle(s, r, id)
<1>2. /\ r \in Outcomes /\ id \in Held /\ UNCHANGED <<box, ids, wire>>
      /\ postponed' = IF p'.st = "down" THEN <<>> ELSE postponed
  BY BelievesFacts DEF Done
<1>3. p.st = "busy" /\ OnTrack(p) /\ AtWork(p) /\ ~p.save
  BY <1>2 DEF Believes, Planned, Resting, NoRun, Outcomes
<1>4. /\ s \in Procs /\ Balanced(s) /\ s.fate = "stay" /\ Alike(p, s) /\ Same(p, s)
      /\ s.run = p.run /\ s.st = p.st /\ s.refused = p.refused /\ s.gone = p.gone
  BY EnterAlike, EnterSame DEF Believes
<1>5. p.run.step = "start" /\ r = "ok" => id # 0 /\ box.ver = p.ver
  BY DEF Believes, Planned, StartReported
<1>6. Leaving
  <2>1. p'.st # "down" => Unmoved
    BY <1>2, StillUnmoved, BelievesFacts
  <2> QED
    BY <1>2, <2>1 DEF Leaving
<1> HIDE DEF s
<1>7. Working(s) /\ Knows(s)
  BY <1>3, <1>4, BelievesFacts, AlikeFacts, KnowsSame DEF Working, Alike
<1>8. t \in Procs /\ Out(t)
  BY <1>2, <1>4, <1>5, <1>7, SettleType, SettleOut DEF Alike
<1>9. t.run.op = p.run.op /\ t.refused = p.refused
  <2>1. LET o == OptionsTaken(s) IN o.run = s.run /\ o.refused = s.refused
    BY <1>4 DEF OptionsTaken, Procs
  <2>2. Carries(s, t) \/ Carries(OptionsTaken(s), t)
    BY <1>2, <1>4, SettleCarries
  <2> QED
    BY <1>4, <2>1, <2>2 DEF Carries, Constant
<1>10. Learns(s, t, r, id)
  BY <1>2, <1>4, SettleLearns DEF Ending
<1>11. p' = After(t)
  BY <1>1 DEF s
<1> HIDE DEF t
<1>12. Hears(t)
  <2>1. \/ Doubted(s, t)
        \/ Dropped(s, t)
        \/ Reporting(s) /\ Taken(s, t, box.id) /\ box.id <= ids
    BY <1>4, <1>10, BelievesFacts DEF Learns, Reporting, Numbered
  <2> QED
    BY <1>4, <1>7, <1>9, <2>1, SettledHears, BelievesFacts
<1>13. ASSUME box.up
       PROVE  /\ Believed(t) /\ Ending(t)
              /\ t.run.op \notin {"install", "uninstall", "halt"}
  <2>1. p.run.step \notin Stops /\ p.run.op # "install" /\ p.run.step # "remove_app"
    BY <1>2, <1>13, BelievesFacts DEF Knows, Emptied
  <2>2. p.run.op # "halt"
    BY <2>1 DEF Believes, Inv, Halting, HaltStops, Stops
  <2>3. p.run.op # "uninstall"
    <3>1. Then(p.run.op, p.run.step) # {} /\ p.run.step \in TaskSteps
      BY <1>3 DEF AtWork, Here, Follows
    <3> QED
      BY <2>1, <3>1, StepOps DEF Ops
  <2>4. ASSUME p.run.step = "start" /\ r = "ok" PROVE Believed(t) /\ Ending(t)
    BY <1>4, <1>5, <1>10, <2>1, <2>4 DEF Learns, Taken, Believed, Alive, Up
  <2>5. ASSUME ~(p.run.step = "start" /\ r = "ok") PROVE Believed(t) /\ Ending(t)
    <3>1. Believed(p)
      BY <1>3, <1>13, <2>2, <2>5, BelievesFacts DEF Knows, Known, Reporting
    <3>2. Doubted(s, t) /\ Ending(t)
      BY <1>4, <1>10, <2>1, <2>5 DEF Learns
    <3>3. Believed(s)
      BY <1>4, <3>1 DEF Believed, Alive, Same
    <3> QED
      BY <3>2, <3>3 DEF Believed, Alive, Doubted
  <2>6. Believed(t) /\ Ending(t)
    BY <2>4, <2>5
  <2> QED
    BY <1>9, <2>1, <2>2, <2>3, <2>6
<1> QED
  BY <1>6, <1>8, <1>11, <1>12, <1>13, LeaveBelieving
-----------------------------------------------------------------------------
(* Events of the container. *)

(* What an event does to the record: it is none of its business, or it is  *)
(* adopted, or it is the end or the health of the container held.          *)
Ignored(m, s, t) == Same(s, t) /\ (IsExit(m, s.cid) => IsReleased(s.cid, s))
Adopted(m, s, t) == /\ m.kind = "start" /\ s.cid = 0 /\ ~IsReleased(m.id, s)
                    /\ t.cid = m.id /\ t.ev = "running"
Departed(m, s, t) == IsExit(m, s.cid) /\ t.cid = s.cid /\ t.ev = m.kind
Judged(m, s, t) == /\ m.kind \in {"healthy", "unhealthy"} /\ m.id = s.cid
                   /\ t.cid = s.cid /\ t.ev \in {s.ev, m.kind}
Sees(m, s, t) ==
    /\ t.released = s.released /\ t.refused = s.refused /\ t.gone = s.gone
    /\ t.st = s.st /\ t.run = s.run
    /\ Ignored(m, s, t) \/ Adopted(m, s, t) \/ Departed(m, s, t) \/ Judged(m, s, t)

LEMMA RetrySees ==
  ASSUME NEW s \in Procs
  PROVE  LET t == Retry(s)
         IN  /\ t.cid = s.cid /\ t.released = s.released /\ t.ev = s.ev
             /\ t.refused = s.refused /\ t.gone = s.gone /\ t.st = s.st /\ t.run = s.run
BY DEF Retry, Procs

LEMMA DiedSees ==
  ASSUME NEW s \in Procs, NEW ev \in {"exited0", "exited"}
  PROVE  LET t == Died(s, ev)
         IN  /\ t.cid = s.cid /\ t.released = s.released /\ t.ev = ev
             /\ t.refused = s.refused /\ t.gone = s.gone /\ t.st = s.st /\ t.run = s.run
<1> DEFINE k == DropRunKeys(s)
           d == [k EXCEPT !.health = "none", !.probe = FALSE, !.settled = FALSE, !.ev = ev]
<1>1. /\ k \in Procs /\ k.cid = s.cid /\ k.released = s.released
      /\ k.refused = s.refused /\ k.gone = s.gone /\ k.st = s.st /\ k.run = s.run
  <2> DEFINE rest == s.keys \ (DnsKeys(s) \cup IF s.token THEN {"token"} ELSE {})
             e == [s EXCEPT !.keys = rest, !.token = FALSE, !.ip = FALSE]
  <2>1. k = e
    BY DEF DropRunKeys
  <2>2. k \in Procs
    BY DropRunKeysType
  <2> HIDE DEF rest, k
  <2>3. e.cid = s.cid /\ e.released = s.released /\ e.refused = s.refused
    BY DEF Procs
  <2>4. e.gone = s.gone /\ e.st = s.st /\ e.run = s.run
    BY DEF Procs
  <2> HIDE DEF e
  <2> QED
    BY <2>1, <2>2, <2>3, <2>4
<1> HIDE DEF k
<1>2. /\ d.cid = k.cid /\ d.released = k.released /\ d.ev = ev
      /\ d.refused = k.refused /\ d.gone = k.gone /\ d.st = k.st /\ d.run = k.run
  BY <1>1 DEF Procs
<1>3. d \in Procs
  <2>1. ev \in Seen /\ "none" \in Healths
    BY DEF Seen, Healths
  <2> QED
    BY ZenonT(60), <1>1, <2>1 DEF Procs
<1>4. Died(s, ev) = d \/ Died(s, ev) = Retry(d)
  BY DEF Died, k
<1> HIDE DEF d
<1> QED
  BY <1>1, <1>2, <1>3, <1>4, RetrySees

LEMMA HealthSees ==
  ASSUME NEW s \in Procs, NEW h \in {"healthy", "unhealthy"}
  PROVE  LET t == HealthSeen(s, h)
         IN  /\ t.cid = s.cid /\ t.released = s.released /\ t.ev \in {s.ev, h}
             /\ t.refused = s.refused /\ t.gone = s.gone /\ t.st = s.st /\ t.run = s.run
<1> DEFINE ev == IF s.ev = "failed_probe" THEN s.ev ELSE h
           d == [s EXCEPT !.health = h, !.ev = ev]
<1>1. ev \in Seen /\ h \in Healths /\ ev \in {s.ev, h}
  BY DEF Seen, Healths
<1> HIDE DEF ev
<1>2. /\ d \in Procs /\ d.cid = s.cid /\ d.released = s.released /\ d.ev = ev
      /\ d.refused = s.refused /\ d.gone = s.gone /\ d.st = s.st /\ d.run = s.run
  BY <1>1 DEF Procs
<1>3. HealthSeen(s, h) \in {s, d, Retry(d)}
  BY DEF HealthSeen, ev
<1> HIDE DEF d
<1> QED
  BY <1>1, <1>2, <1>3, RetrySees

LEMMA OnEventSees ==
  ASSUME NEW s \in Procs, NEW m \in Messages PROVE Sees(m, s, OnEvent(m, s))
<1> DEFINE d == [s EXCEPT !.cid = m.id, !.health = "none", !.ev = "running"]
<1>1. CASE IsReleased(m.id, s)
  BY <1>1 DEF OnEvent, IsReleased, Sees, Ignored, Same, IsExit
<1>2. CASE ~IsReleased(m.id, s) /\ m.kind = "start" /\ s.cid = 0
  <2>1. OnEvent(m, s) = d
    BY <1>2 DEF OnEvent, IsReleased
  <2>2. /\ d.cid = m.id /\ d.released = s.released /\ d.ev = "running"
        /\ d.refused = s.refused /\ d.gone = s.gone /\ d.st = s.st /\ d.run = s.run
    BY DEF Procs
  <2> HIDE DEF d
  <2> QED
    BY <1>2, <2>1, <2>2 DEF Sees, Adopted
<1>3. CASE ~IsReleased(m.id, s) /\ ~(m.kind = "start" /\ s.cid = 0) /\ s.cid # m.id
  <2>1. OnEvent(m, s) = s
    BY <1>3 DEF OnEvent, IsReleased
  <2> QED
    BY <1>3, <2>1 DEF Sees, Ignored, Same, IsExit
<1>4. CASE ~IsReleased(m.id, s) /\ s.cid = m.id /\ m.kind \in {"exited0", "exited"}
  <2>1. OnEvent(m, s) = Died(s, m.kind)
    BY <1>4 DEF OnEvent, IsReleased
  <2> QED
    BY <1>4, <2>1, DiedSees DEF Sees, Departed, IsExit
<1>5. CASE ~IsReleased(m.id, s) /\ s.cid = m.id /\ m.kind \in {"healthy", "unhealthy"}
  <2>1. OnEvent(m, s) = HealthSeen(s, m.kind)
    BY <1>5 DEF OnEvent, IsReleased
  <2> QED
    BY <1>5, <2>1, HealthSees DEF Sees, Judged
<1>6. CASE /\ ~IsReleased(m.id, s) /\ ~(m.kind = "start" /\ s.cid = 0) /\ s.cid = m.id
           /\ m.kind \notin {"exited0", "exited", "healthy", "unhealthy"}
  <2>1. OnEvent(m, s) = s
    BY <1>6 DEF OnEvent, IsReleased
  <2> QED
    BY <1>6, <2>1 DEF Sees, Ignored, Same, IsExit
<1> QED
  BY <1>1, <1>2, <1>3, <1>4, <1>5, <1>6

(* A message leaves the queues: the exit it may be is due no longer, and   *)
(* for other news of a container that is gone the exit still is.           *)
Received(m) ==
    /\ UNCHANGED <<box, ids>> /\ EventsEnd' /\ Numbered'
    /\ \A id : Due(wire, postponed, id) <=> Due(wire', postponed', id) \/ IsExit(m, id)
    /\ Late(m, box) => Due(wire', postponed', m.id)
    /\ m.kind \in EventKinds => m.id <= ids

LEMMA HeardBelieving ==
  ASSUME Believes, NEW m, Received(m), NEW t, p' = t, t.run = NoRun, ~t.gone,
         t.st \notin {"busy", "down"}, t.st = "refused" => t.refused,
         box.up => t.st = "idle" /\ Believed(t), t.released = p.released, t.cid <= ids,
         t.cid # 0 => ~IsReleased(t.cid, t),
         Trusts(t) => (box.up /\ box.id = t.cid) \/ Due(wire', postponed', t.cid)
  PROVE  Believing'
<1>1. Hears(p)
  BY BelievesFacts
<1>2. Hears(p)'
  BY <1>1 DEF Hears, Received, ExitDue, Trusts, Running, IsReleased
<1>3. Announced(p)' /\ Emptied(p)' /\ Known(p)'
  BY DEF Announced, Reporting, Emptied, Known, NoRun, Stops, Received, Believed, Alive
<1>4. EventsEnd' /\ Numbered' /\ Drained'
  BY DEF Received, Drained
<1> QED
  BY <1>2, <1>3, <1>4 DEF Believing, Knows

(* An event is handled by a process that is not busy. *)
LEMMA EventBelieving ==
  ASSUME Believes, p.st \notin {"busy", "down"}, NEW m \in Messages, Received(m),
         NEW t, p' = t, m.kind \in EventKinds,
         \/ Sees(m, p, t)
         \/ p.st \in {"new", "refused"} /\ Same(p, t) /\ t.refused = p.refused
            /\ t.gone = p.gone /\ t.st = p.st /\ t.run = p.run
  PROVE  Believing'
<1>1. /\ Hears(p) /\ p.run = NoRun /\ ~p.gone /\ (p.st = "refused" => p.refused)
      /\ (box.up => p.st = "idle" /\ Believed(p)) /\ (box.up => box.id # 0)
  BY BelievesFacts, RestingFacts DEF Knows, Known, Believes
<1>2. /\ t.released = p.released /\ t.refused = p.refused /\ t.gone = p.gone
      /\ t.st = p.st /\ t.run = p.run
  BY DEF Sees, Same
<1>3. IsReleased(t.cid, t) => IsReleased(t.cid, p)
  BY <1>2 DEF IsReleased
<1>4. CASE p.st \in {"new", "refused"} /\ Same(p, t)
  <2>1. ~Trusts(t) /\ ~box.up
    <3>1. p.st = "new" => p.cid = 0
      BY RestingFacts DEF Believes, Resting, Blank
    <3> QED
      BY <1>1, <1>2, <1>4, <3>1 DEF Trusts, Running, Same
  <2> QED
    BY <1>1, <1>2, <1>3, <1>4, <2>1, HeardBelieving DEF Same, Hears
<1>5. CASE Ignored(m, p, t)
  <2>1. Trusts(t) => (box.up /\ box.id = t.cid) \/ Due(wire', postponed', t.cid)
    BY <1>1, <1>2, <1>5 DEF Ignored, Same, Trusts, Running, Hears, Received, ExitDue
  <2>2. Believed(p) => Believed(t)
    BY <1>5 DEF Ignored, Same, Believed, Alive
  <2> QED
    BY <1>1, <1>2, <1>3, <1>5, <2>1, <2>2, HeardBelieving DEF Ignored, Same, Hears
<1>6. CASE Adopted(m, p, t)
  <2>1. ~box.up
    BY <1>1, <1>6 DEF Adopted, Believed
  <2>2. Due(wire', postponed', t.cid)
    BY <1>6, <2>1 DEF Adopted, Late, Received
  <2> QED
    BY <1>1, <1>2, <1>3, <1>6, <2>1, <2>2, HeardBelieving DEF Adopted, Received
<1>7. CASE Departed(m, p, t)
  <2>1. ~box.up
    BY <1>1, <1>7 DEF Departed, Believed, Hears, ExitDue, Received
  <2>2. ~Trusts(t)
    BY <1>7 DEF Departed, IsExit, Trusts, Running, Up
  <2> QED
    BY <1>1, <1>2, <1>3, <1>7, <2>1, <2>2, HeardBelieving DEF Departed, Hears
<1>8. CASE Judged(m, p, t)
  <2>1. (box.up /\ box.id = t.cid) \/ Due(wire', postponed', t.cid)
    BY <1>8 DEF Judged, Late, Received
  <2>2. box.up => Believed(t)
    BY <1>1, <1>8 DEF Judged, Believed, Alive, Up
  <2> QED
    BY <1>1, <1>2, <1>3, <1>8, <2>1, <2>2, HeardBelieving DEF Judged, Hears
<1> QED
  BY <1>4, <1>5, <1>6, <1>7, <1>8 DEF Sees
-----------------------------------------------------------------------------
(* What arrives, from the stream of events, the queue of postponed ones or *)
(* a timer.                                                                *)

(* An operation that is neither an install, an uninstall nor a halt leaves *)
(* a process.                                                              *)
LEMMA GoesOn ==
  ASSUME NEW s \in Procs, NEW op \in Ops \ {"install", "uninstall", "halt"},
         NEW a \in Args, Fit(op, s), Balanced(s)
  PROVE  After(Begin(op, a, s)).st # "down"
<1> DEFINE t == Begin(op, a, s)
<1>1. t \in Procs /\ Out(t) /\ t.run.op = op /\ Ending(t)
  BY BeginType, BeginOut, BeginCarries, BeginKeeps DEF Fit, Keeps
<1> HIDE DEF t
<1>2. OnTrack(t) /\ ~Exits(t)
  BY <1>1 DEF Out, OnTrack, Ending, Exits, InstallUnsaved
<1>3. After(t).st # "down"
  <2>1. t.fate = "stay" => After(t).st = "busy"
    BY <1>1, <1>2, StayFields DEF OnTrack, Alike
  <2>2. t.fate # "stay" => After(t).st \in {"shutting_down", "refused", "idle"}
    BY <1>1, <1>2, EndFields
  <2> QED
    BY <2>1, <2>2
<1> QED
  BY <1>3 DEF t

LEMMA TimerUnmoved ==
  ASSUME NEW m, Received(m), m.kind \in TimerKinds PROVE Unmoved
BY DEF Received, Unmoved, IsExit, TimerKinds

LEMMA RetryBelieving ==
  ASSUME Believes, p.st \notin {"busy", "down"}, NEW m, Unmoved, NEW s \in Procs,
         Handle(m, s), m.kind = "retry", Same(p, s), s.refused = p.refused,
         s.gone = p.gone, s.st = p.st, s.run = p.run, Balanced(s), s.fate = "stay",
         ~s.save, Resting(s)
  PROVE  Believing'
<1> DEFINE a == [Called EXCEPT !.from = FALSE, !.retry = TRUE]
<1>1. a \in Args /\ "start" \in Ops
  BY DEF Called, Args, Ops
<1>2. (box.up => p.st = "idle" /\ Believed(p)) /\ (p.st = "refused" => p.refused)
  BY BelievesFacts DEF Knows, Known
<1>3. CASE RetryDue(m.id, s) /\ Leave(Begin("start", a, s), callers)
  <2> HIDE DEF a
  <2>1. Fit("start", s)
    BY <1>3 DEF RetryDue, Fit, Resting
  <2>2. p' = After(Begin("start", a, s))
    BY <1>3 DEF Leave
  <2>3. p'.st # "down"
    BY <1>1, <2>1, <2>2, GoesOn
  <2>4. Leaving
    BY <2>3 DEF Leaving
  <2> QED
    BY <1>1, <1>2, <2>1, <2>2, <2>4, BeginBelieving
<1>4. CASE Rest(s)
  <2>1. p' = Neutral(s)
    BY <1>4 DEF Rest
  <2> QED
    BY <1>2, <2>1, RestBelieving
<1> QED
  BY <1>3, <1>4 DEF Handle

LEMMA SeesSame ==
  ASSUME NEW m, NEW s, NEW k, NEW q, NEW t, Sees(m, s, k), Same(q, s), Same(k, t),
         s.refused = q.refused, s.gone = q.gone, s.st = q.st, s.run = q.run,
         t.refused = k.refused, t.gone = k.gone, t.st = k.st, t.run = k.run
  PROVE  Sees(m, q, t)
BY DEF Sees, Same, Ignored, Adopted, Departed, Judged, IsReleased

LEMMA HandleBelieving ==
  ASSUME Believes, p.st \notin {"busy", "down"}, NEW m \in Messages, Received(m),
         NEW s \in Procs, Handle(m, s), Same(p, s), s.refused = p.refused,
         s.gone = p.gone, s.st = p.st, s.run = p.run, Balanced(s), s.fate = "stay",
         ~s.save, Resting(s)
  PROVE  Believing'
<1>1. (box.up => p.st = "idle" /\ Believed(p)) /\ (p.st = "refused" => p.refused)
  BY BelievesFacts DEF Knows, Known
<1>2. CASE m.kind = "retry"
  BY <1>2, TimerUnmoved, RetryBelieving DEF TimerKinds
<1>3. CASE m.kind = "settled"
  <2> DEFINE t == IF s.st = "refused" THEN s ELSE [s EXCEPT !.attempt = 0]
  <2>1. /\ t \in Procs /\ Same(s, t) /\ t.refused = s.refused /\ t.gone = s.gone
        /\ t.st = s.st /\ t.run = s.run
    <3>1. 0 \in Attempts
      BY BoundsAssumption DEF Attempts
    <3> QED
      BY <3>1 DEF Procs, Same
  <2>2. p' = Neutral(t)
    BY <1>3 DEF Handle, Rest
  <2> HIDE DEF t
  <2>3. Same(p, t) /\ Unmoved
    BY <1>3, <2>1, SameChain, TimerUnmoved DEF TimerKinds
  <2> QED
    BY <1>1, <2>1, <2>2, <2>3, RestBelieving
<1>4. CASE m.kind = "probe"
  <2> DEFINE d == [s EXCEPT !.probing = TRUE]
             t == IF ProbeDue(s) THEN d ELSE s
  <2>0. /\ d \in Procs /\ Same(s, d) /\ d.refused = s.refused /\ d.gone = s.gone
        /\ d.st = s.st /\ d.run = s.run
    BY DEF Procs, Same
  <2>1. /\ t \in Procs /\ Same(s, t) /\ t.refused = s.refused /\ t.gone = s.gone
        /\ t.st = s.st /\ t.run = s.run
    BY <2>0 DEF Same
  <2>2. p' = Neutral(t)
    BY <1>4 DEF Handle, Rest
  <2> HIDE DEF t
  <2>3. Same(p, t) /\ Unmoved
    BY <1>4, <2>1, SameChain, TimerUnmoved DEF TimerKinds
  <2> QED
    BY <1>1, <2>1, <2>2, <2>3, RestBelieving
<1>5. CASE m.kind \notin TimerKinds
  <2> DEFINE k == IF s.st \in {"new", "refused"} THEN s ELSE OnEvent(m, s)
             t == Neutral(k)
  <2>1. p' = t /\ m.kind \in EventKinds
    BY <1>5 DEF Handle, Rest, TimerKinds, EventKinds, Messages, Events
  <2>2. CASE s.st \in {"new", "refused"}
    <3>1. k = s
      BY <2>2
    <3> HIDE DEF k
    <3>2. /\ Same(s, t) /\ t.refused = s.refused /\ t.gone = s.gone /\ t.st = s.st
          /\ t.run = s.run
      BY <3>1, NeutralSame
    <3> HIDE DEF t
    <3>3. Same(p, t)
      BY <3>2, SameChain
    <3> QED
      BY <2>1, <2>2, <3>2, <3>3, EventBelieving
  <2>3. CASE s.st \notin {"new", "refused"}
    <3>1. k = OnEvent(m, s)
      BY <2>3
    <3>2. k \in Procs /\ Sees(m, s, k)
      BY <2>3, OnEventSees, OnEventType
    <3> HIDE DEF k
    <3>3. /\ Same(k, t) /\ t.refused = k.refused /\ t.gone = k.gone /\ t.st = k.st
          /\ t.run = k.run
      BY <3>2, NeutralSame
    <3> HIDE DEF t
    <3>4. Sees(m, p, t)
      BY <3>2, <3>3, SeesSame
    <3> QED
      BY <2>1, <3>4, EventBelieving
  <2> QED
    BY <2>2, <2>3
<1> QED
  BY <1>2, <1>3, <1>4, <1>5 DEF TimerKinds

LEMMA EnteredBelieving ==
  ASSUME Believes, p.st \notin {"busy", "down"}, NEW m \in Messages, Received(m),
         NEW d \in Procs, Alike(p, d), Same(p, d), d.run = p.run, d.fate = p.fate,
         d.reply = p.reply, NEW disk \in Disk,
         Handle(m, [d EXCEPT !.shutting_down = inflight, !.disk = disk])
  PROVE  Believing'
<1> DEFINE s == [d EXCEPT !.shutting_down = inflight, !.disk = disk]
<1>1. inflight \in BOOLEAN /\ disk \in BOOLEAN /\ p \in Procs
  BY DiskType DEF Believes, Inv, Typed, TypeOK
<1>2. /\ s \in Procs /\ Alike(d, s) /\ s.run = d.run /\ s.fate = d.fate
      /\ s.reply = d.reply /\ Same(d, s)
  BY ZenonT(60), <1>1 DEF Procs, Alike, Same
<1>3. Handle(m, s)
  OBVIOUS
<1> HIDE DEF s
<1>4. Alike(p, s) /\ s.run = p.run /\ Same(p, s)
  BY <1>2, SameChain DEF Alike
<1>5. Resting(s) /\ ~s.save
  BY <1>1, <1>2, <1>4, RestingFacts, AlikeFacts DEF Alike, Believes
<1>6. Balanced(s) /\ s.fate = "stay"
  BY <1>2 DEF Believes, Inv, Answering, Calm, Balanced
<1> QED
  BY <1>2, <1>3, <1>4, <1>5, <1>6, HandleBelieving DEF Alike

LEMMA EnterBelieving ==
  ASSUME Believes, p.st \notin {"busy", "down"}, NEW m \in Messages, Received(m),
         NEW disk \in Disk, Handle(m, Enter(disk))
  PROVE  Believing'
<1>1. p \in Procs /\ Alike(p, p) /\ Same(p, p)
  BY BelievesFacts DEF Alike, Same
<1>2. Handle(m, [p EXCEPT !.shutting_down = inflight, !.disk = disk])
  BY DEF Enter
<1> QED
  BY <1>1, <1>2, EnteredBelieving

LEMMA DeliverBelieving == ASSUME Believes, Deliver PROVE Believing'
<1>1. /\ wire \in Seq(Events) /\ wire # <<>> /\ wire' = Tail(wire) /\ UNCHANGED <<box, ids>>
      /\ Ends(wire, postponed, box) /\ Counted(wire, postponed, ids) /\ box.id <= ids
      /\ postponed \in Seq(Messages) /\ (p.st # "busy" => postponed = <<>>)
  BY BelievesFacts DEF Deliver, EventsEnd, Numbered, Quiet
<1>2. CASE p.st = "busy" /\ Postpone(Head(wire)) /\ UNCHANGED p
  <2>1. postponed' = Append(postponed, Head(wire))
    BY <1>2 DEF Postpone
  <2>2. Unmoved
    BY <1>1, <2>1, EndsPostponed DEF Unmoved, EventsEnd, Numbered
  <2>3. p' = p /\ Knows(p)
    BY <1>2, BelievesFacts
  <2> QED
    BY <1>2, <2>2, <2>3, UnmovedBelieving
<1>3. CASE p.st # "busy"
  <2>1. postponed = <<>>
    BY <1>1, <1>3
  <2>2. /\ Ends(wire', <<>>, box) /\ Counted(wire', <<>>, ids) /\ Head(wire).id <= ids
        /\ \A id : Due(wire, <<>>, id) <=> Due(wire', <<>>, id) \/ IsExit(Head(wire), id)
        /\ Late(Head(wire), box) => Due(wire', <<>>, Head(wire).id)
    BY <1>1, <2>1, EndsReceived
  <2>3. CASE p.st = "down" /\ UNCHANGED <<p, postponed>>
    <3>1. ~box.up /\ p.cid = 0 /\ p.run = NoRun /\ Hears(p)
      BY <1>3, <2>3, BelievesFacts DEF Knows, Known
    <3>2. ~Trusts(p)
      BY <3>1 DEF Trusts, Running
    <3>3. Hears(p)'
      BY <1>1, <2>3, <3>1, <3>2 DEF Hears, Trusts, Running, IsReleased
    <3>4. Announced(p)' /\ Known(p)' /\ Emptied(p)'
      BY <1>1, <2>3, <3>1, BelievesFacts DEF Knows, Announced, Reporting, Known, Emptied,
         NoRun, Believed, Alive
    <3>5. EventsEnd' /\ Numbered' /\ Drained'
      BY <1>1, <2>1, <2>2, <2>3 DEF EventsEnd, Numbered, Drained
    <3> QED
      BY <3>3, <3>4, <3>5 DEF Believing, Knows
  <2>4. CASE /\ p.st \notin {"busy", "down"} /\ UNCHANGED postponed
             /\ \E disk \in Disk : Handle(Head(wire), Enter(disk))
    <3>1. Received(Head(wire))
      BY <1>1, <2>1, <2>2, <2>4 DEF Received, EventsEnd, Numbered
    <3>2. Head(wire) \in Messages
      BY <1>1, SomeKept DEF Messages
    <3> QED
      BY <2>4, <3>1, <3>2, EnterBelieving
  <2> QED
    BY <1>3, <2>3, <2>4 DEF Deliver
<1> QED
  BY <1>2, <1>3 DEF Deliver

LEMMA ReplayBelieving == ASSUME Believes, Replay PROVE Believing'
<1>1. /\ wire \in Seq(Events) /\ postponed \in Seq(Messages) /\ postponed # <<>>
      /\ postponed' = Tail(postponed) /\ UNCHANGED <<box, ids, wire>>
      /\ Ends(wire, postponed, box) /\ Counted(wire, postponed, ids) /\ box.id <= ids
      /\ p.st \notin {"busy", "down"}
  BY BelievesFacts DEF Replay, EventsEnd, Numbered, Drained
<1> DEFINE m == Head(postponed)
           r == Tail(postponed)
<1>2. /\ Ends(wire, r, box) /\ Counted(wire, r, ids) /\ (m.kind \in EventKinds => m.id <= ids)
      /\ \A id : Due(wire, postponed, id) <=> Due(wire, r, id) \/ IsExit(m, id)
      /\ Late(m, box) => Due(wire, r, m.id)
  BY <1>1, EndsReplayed
<1>3. m \in Messages
  BY <1>1, SomeKept
<1>4. postponed' = r /\ \E disk \in Disk : Handle(m, Enter(disk))
  BY DEF Replay
<1> HIDE DEF m, r
<1>5. Received(m)
  BY <1>1, <1>2, <1>4 DEF Received, EventsEnd, Numbered
<1> QED
  BY <1>1, <1>3, <1>4, <1>5, EnterBelieving

LEMMA FiresBelieving ==
  ASSUME Believes, NEW m \in Messages, m.kind \in TimerKinds, NEW d \in Procs,
         Fires(m, d), Alike(p, d), Same(p, d), d.run = p.run, d.fate = p.fate,
         d.reply = p.reply
  PROVE  Believing'
<1>1. /\ UNCHANGED <<box, ids, wire>> /\ p.st # "down" /\ ~Late(m, box)
      /\ m.kind \notin EventKinds /\ \A id : ~IsExit(m, id)
  BY DEF Fires, Late, EventKinds, TimerKinds, IsExit
<1>2. CASE p.st = "busy" /\ Postpone(m) /\ p' = d
  <2>1. postponed' = Append(postponed, m)
    BY <1>2 DEF Postpone
  <2>2. Unmoved
    BY <1>1, <2>1, EndsTimed, BelievesFacts DEF Unmoved, EventsEnd, Numbered
  <2>3. Knows(d) /\ d.st # "down"
    BY <1>1, KnowsSame, BelievesFacts DEF Alike
  <2> QED
    BY <1>2, <2>2, <2>3, UnmovedBelieving
<1>3. CASE /\ p.st # "busy" /\ UNCHANGED postponed
           /\ \E disk \in Disk :
                Handle(m, [d EXCEPT !.shutting_down = inflight, !.disk = disk])
  <2>1. Received(m)
    BY <1>1, <1>3, BelievesFacts DEF Received, EventsEnd, Numbered
  <2> QED
    BY <1>1, <1>3, <2>1, EnteredBelieving
<1> QED
  BY <1>2, <1>3 DEF Fires

LEMMA TimerBelieving == ASSUME Believes, TimerStep PROVE Believing'
<1>0. p \in Procs /\ NoTimer \in Armed
  BY BelievesFacts DEF Armed
<1>1. LET d == [p EXCEPT !.retry = NoTimer]
      IN  d \in Procs /\ Alike(p, d) /\ Same(p, d) /\ d.run = p.run /\ d.fate = p.fate
          /\ d.reply = p.reply
  BY <1>0 DEF Procs, Alike, Same
<1>2. LET d == [p EXCEPT !.settled = FALSE]
      IN  d \in Procs /\ Alike(p, d) /\ Same(p, d) /\ d.run = p.run /\ d.fate = p.fate
          /\ d.reply = p.reply
  BY ZenonT(60), <1>0 DEF Procs, Alike, Same
<1>3. LET d == [p EXCEPT !.probe = FALSE]
      IN  d \in Procs /\ Alike(p, d) /\ Same(p, d) /\ d.run = p.run /\ d.fate = p.fate
          /\ d.reply = p.reply
  BY ZenonT(60), <1>0 DEF Procs, Alike, Same
<1>4. /\ p.retry # NoTimer => Event("retry", p.retry) \in Messages
      /\ Event("settled", 0) \in Messages /\ Event("probe", 0) \in Messages
      /\ \A k, i : Event(k, i).kind = k
  BY <1>0 DEF Event, Messages, TimerKinds, Held, Armed, Procs
<1>5. CASE RetryTimer
  BY <1>1, <1>4, <1>5, FiresBelieving DEF RetryTimer, TimerKinds
<1>6. CASE SettledTimer
  BY <1>2, <1>4, <1>6, FiresBelieving DEF SettledTimer, TimerKinds
<1>7. CASE ProbeTimer
  BY <1>3, <1>4, <1>7, FiresBelieving DEF ProbeTimer, TimerKinds
<1> QED
  BY <1>5, <1>6, <1>7 DEF TimerStep
-----------------------------------------------------------------------------
(* What the engine does to the container: the task steps, and its own end. *)

LEMMA DueCounted ==
  ASSUME NEW w, NEW q, NEW n, NEW id, Counted(w, q, n), Due(w, q, id) PROVE id <= n
BY DEF Counted, Due, ExitIn, IsExit, EventKinds

(* The container goes, by itself or by a stop, and its exit is sent.       *)
LEMMA EndsGone ==
  ASSUME Believes, NEW kind \in {"exited0", "exited"}, NEW c, ~c.up,
         NEW w, w = IF box.up THEN Append(wire, Event(kind, box.id)) ELSE wire
  PROVE  /\ w \in Seq(Events) /\ Ends(w, postponed, c) /\ Counted(w, postponed, ids)
         /\ \A id : Due(w, postponed, id) <=> Due(wire, postponed, id)
                                              \/ (box.up /\ id = box.id)
<1>1. /\ wire \in Seq(Events) /\ postponed \in Seq(Messages) /\ ids \in Nat
      /\ Ends(wire, postponed, box) /\ Counted(wire, postponed, ids) /\ box.id <= ids
      /\ box.id \in Held /\ (box.up => box.id # 0)
  BY BelievesFacts DEF EventsEnd, Numbered
<1>2. CASE box.up
  <2> DEFINE e == Event(kind, box.id)
  <2>1. /\ e \in Events /\ e.id <= ids /\ ~Late(e, c)
        /\ \A id : IsExit(e, id) <=> id = box.id
    BY <1>1, <1>2 DEF Event, Events, EventKinds, Held, Late, IsExit
  <2>2. w = Append(wire, e)
    BY <1>2
  <2> HIDE DEF e
  <2>3. \A m \in Messages : Late(m, c) => Late(m, box) \/ IsExit(e, m.id)
    BY <2>1 DEF Late
  <2> QED
    BY <1>1, <1>2, <2>1, <2>2, <2>3, EndsAppended
<1>3. CASE ~box.up
  <2>1. \A m \in Messages : Late(m, c) => Late(m, box)
    BY <1>3 DEF Late
  <2> QED
    BY <1>1, <1>3, <2>1, EndsAgain
<1> QED
  BY <1>2, <1>3

LEMMA GoneBelieving ==
  ASSUME Believes, NEW kind \in {"exited0", "exited"}, ~box'.up, box'.id \in {0, box.id},
         wire' = IF box.up THEN Append(wire, Event(kind, box.id)) ELSE wire,
         UNCHANGED <<ids, postponed>>, NEW t, p' = t, Same(p, t), t.refused = p.refused,
         t.st = p.st, Reporting(t) => Reporting(p) /\ box'.id = box.id
  PROVE  Believing'
<1>1. /\ Ends(wire', postponed, box') /\ Counted(wire', postponed, ids)
      /\ \A id : Due(wire', postponed, id) <=> Due(wire, postponed, id)
                                               \/ (box.up /\ id = box.id)
  BY EndsGone
<1>2. Hears(p) /\ Announced(p) /\ Known(p) /\ Numbered /\ Drained /\ ids \in Nat
  BY BelievesFacts DEF Knows
<1>3. EventsEnd' /\ Numbered' /\ Drained'
  BY <1>1, <1>2 DEF EventsEnd, Numbered, Drained
<1>4. Hears(p)'
  BY <1>1, <1>2 DEF Hears, ExitDue, Same, Trusts, Running, IsReleased
<1>5. Announced(p)'
  BY <1>1, <1>2 DEF Announced, Reporting, ExitDue, Same, IsReleased
<1>6. Known(p)' /\ Emptied(p)'
  BY <1>2 DEF Known, Emptied, Same
<1> QED
  BY <1>3, <1>4, <1>5, <1>6 DEF Believing, Knows

(* A task step that reports, whatever it did.                              *)
LEMMA FinishedSame ==
  ASSUME Believes, NEW r, Finished(r)
  PROVE  LET t == [p EXCEPT !.run.task = r]
         IN  /\ p' = t /\ UNCHANGED postponed /\ Same(p, t) /\ t.refused = p.refused
             /\ t.gone = p.gone /\ t.st = p.st /\ t.run.op = p.run.op
             /\ t.run.step = p.run.step /\ t.run.task = r
<1>1. p \in Procs
  BY BelievesFacts
<1> QED
  BY <1>1 DEF Finished, Same, Procs, Runs

LEMMA RemovedBelieving ==
  ASSUME Believes, NEW r, Finished(r), Removed, p.run.step # "start" \/ r # "ok"
  PROVE  Believing'
<1> DEFINE t == [p EXCEPT !.run.task = r]
<1>1. /\ p' = t /\ UNCHANGED postponed /\ Same(p, t) /\ t.refused = p.refused
      /\ t.st = p.st /\ t.run.step = p.run.step /\ t.run.task = r
  BY FinishedSame
<1> HIDE DEF t
<1>2. ~box'.up /\ box'.id = 0 /\ UNCHANGED ids
  BY DEF Removed, NoBox
<1>3. wire' = IF box.up THEN Append(wire, Event("exited", box.id)) ELSE wire
  BY DEF Removed
<1>4. ~Reporting(t)
  BY <1>1 DEF Reporting
<1> QED
  BY <1>1, <1>2, <1>3, <1>4, GoneBelieving

LEMMA HaltStopBelieving ==
  ASSUME Believes, NEW r, Finished(r), p.run.step = "halt_stop",
         box' = [box EXCEPT !.up = FALSE], UNCHANGED ids,
         wire' = IF box.up THEN Append(wire, Event("exited", box.id)) ELSE wire
  PROVE  Believing'
<1> DEFINE t == [p EXCEPT !.run.task = r]
<1>1. /\ p' = t /\ UNCHANGED postponed /\ Same(p, t) /\ t.refused = p.refused
      /\ t.st = p.st /\ t.run.step = p.run.step
  BY FinishedSame
<1> HIDE DEF t
<1>2. ~box'.up /\ box'.id = box.id
  BY DEF Believes, Inv, Typed, TypeOK, Boxes
<1>3. ~Reporting(t)
  BY <1>1 DEF Reporting
<1> QED
  BY <1>1, <1>2, <1>3, GoneBelieving

LEMMA JoinedLast ==
  ASSUME NEW S, NEW q \in Seq(S)
  PROVE  q \o <<>> = q /\ \A m \in S : q \o <<m>> = Append(q, m)
OBVIOUS

(* The new container of a start: whatever ran before has gone, and the     *)
(* event of its own start is no late one.                                  *)
LEMMA EndsStarted ==
  ASSUME Believes, NEW c, c.up, c.id = ids + 1, ids + 1 \in Ids, NEW w,
         w = wire \o (IF box.up THEN <<Event("exited", box.id)>> ELSE <<>>)
                  \o (IF Native THEN <<>> ELSE <<Event("start", ids + 1)>>)
  PROVE  /\ Ends(w, postponed, c) /\ Counted(w, postponed, ids + 1)
         /\ \A id : Due(w, postponed, id) <=> Due(wire, postponed, id)
                                              \/ (box.up /\ id = box.id)
<1> DEFINE v == IF box.up THEN Append(wire, Event("exited", box.id)) ELSE wire
           e == Event("start", ids + 1)
<1>1. wire \in Seq(Events) /\ postponed \in Seq(Messages) /\ ids \in Nat /\ ~NoBox.up
  BY BelievesFacts DEF NoBox
<1>2. /\ v \in Seq(Events) /\ Ends(v, postponed, NoBox) /\ Counted(v, postponed, ids)
      /\ \A id : Due(v, postponed, id) <=> Due(wire, postponed, id)
                                           \/ (box.up /\ id = box.id)
  BY <1>1, EndsGone
<1>3. Event("exited", box.id) \in Events \/ ~box.up
  BY BelievesFacts DEF Event, Events, EventKinds, Held
<1>4. /\ e \in Events /\ e.id <= ids + 1 /\ ~Late(e, c) /\ \A id : ~IsExit(e, id)
  BY <1>1 DEF Event, Events, EventKinds, Late, IsExit
<1>5. w = IF Native THEN v ELSE Append(v, e)
  <2> DEFINE x == Event("exited", box.id)
  <2>1. v = wire \o (IF box.up THEN <<x>> ELSE <<>>)
    <3>1. CASE box.up
      BY <1>1, <1>3, <3>1, JoinedLast
    <3>2. CASE ~box.up
      BY <1>1, <3>2, JoinedLast
    <3> QED
      BY <3>1, <3>2
  <2>2. w = v \o (IF Native THEN <<>> ELSE <<e>>)
    BY <2>1
  <2> HIDE DEF v, e, x
  <2>3. v \o <<e>> = Append(v, e) /\ v \o <<>> = v
    BY <1>2, <1>4, JoinedLast
  <2> QED
    BY <2>2, <2>3
<1> HIDE DEF v, e
<1>6. \A m \in Messages : Late(m, c) => Late(m, NoBox)
  BY <1>1 DEF Late
<1>7. Ends(v, postponed, c) /\ Counted(v, postponed, ids + 1)
  <2>1. ids + 1 \in Nat /\ ids <= ids + 1
    BY <1>1
  <2> QED
    BY <1>1, <1>2, <1>6, <2>1, EndsAgain
<1>8. LET r == Append(v, e)
      IN  /\ Ends(r, postponed, c) /\ Counted(r, postponed, ids + 1)
          /\ \A id : Due(r, postponed, id) <=> Due(v, postponed, id) \/ IsExit(e, id)
  <2>1. ids + 1 \in Nat /\ \A m \in Messages : Late(m, c) => Late(m, c) \/ IsExit(e, m.id)
    BY <1>1
  <2> QED
    BY <1>1, <1>2, <1>4, <1>7, <2>1, EndsAppended
<1>9. CASE Native
  BY <1>2, <1>5, <1>7, <1>9
<1>10. CASE ~Native
  BY <1>2, <1>4, <1>5, <1>8, <1>10
<1> QED
  BY <1>9, <1>10

LEMMA StartedBelieving ==
  ASSUME Believes, p.run.step = "start", ids < MaxId, ids' = ids + 1, Finished("ok"),
         box' = [id |-> ids + 1, up |-> TRUE, ver |-> p.ver],
         wire' = wire \o (IF box.up THEN <<Event("exited", box.id)>> ELSE <<>>)
                      \o (IF Native THEN <<>> ELSE <<Event("start", ids + 1)>>)
  PROVE  Believing'
<1> DEFINE t == [p EXCEPT !.run.task = "ok"]
<1>1. /\ p' = t /\ UNCHANGED postponed /\ Same(p, t) /\ t.refused = p.refused
      /\ t.gone = p.gone /\ t.st = p.st /\ t.run.op = p.run.op
      /\ t.run.step = p.run.step /\ t.run.task = "ok"
  BY FinishedSame
<1> HIDE DEF t
<1>2. ids + 1 \in Ids /\ ids \in Nat /\ box'.up /\ box'.id = ids + 1
  BY BelievesFacts, BoundsAssumption DEF Ids
<1>3. /\ Ends(wire', postponed, box') /\ Counted(wire', postponed, ids + 1)
      /\ \A id : Due(wire', postponed, id) <=> Due(wire, postponed, id)
                                               \/ (box.up /\ id = box.id)
  BY <1>2, EndsStarted
<1>4. /\ Hears(p) /\ Known(p) /\ Emptied(p) /\ box.id <= ids /\ box.id \in Int
      /\ Counted(wire, postponed, ids) /\ p \in Procs
  BY BelievesFacts DEF Knows, Numbered, Held, Ids
<1>5. p.st = "busy" /\ ~p.gone /\ p.run.op # "install"
  <2>1. p.st = "busy"
    BY BelievesFacts DEF NoRun
  <2>2. Working(p)
    BY <2>1 DEF Believes, Planned, Inv, Answering, Calm, Working
  <2>3. p.run.op \notin {"install", "uninstall", "halt"}
    BY <1>4, <2>2, StartingFacts
  <2> QED
    BY <2>1, <2>2, <2>3 DEF Working, OnTrack
<1>6. EventsEnd' /\ Numbered' /\ Drained'
  BY <1>1, <1>2, <1>3, <1>5 DEF EventsEnd, Numbered, Drained
<1>7. ~Due(wire', postponed, ids + 1)
  <2>1. Due(wire, postponed, ids + 1) => ids + 1 <= ids
    BY <1>4, DueCounted
  <2> QED
    BY <1>2, <1>3, <1>4, <2>1
<1>8. ~IsReleased(ids + 1, p)
  BY <1>2, <1>4 DEF Hears, IsReleased
<1>9. Hears(p)'
  <2>1. p.cid <= ids + 1 /\ \A i \in DOMAIN p.released : p.released[i] <= ids + 1
    <3>0. p.cid \in Held /\ p.released \in Seq(Ids) /\ Ids \subseteq Int
      BY <1>4 DEF Procs, Ids
    <3>1. p.cid \in Int
      <4>1. \A id \in Held : id \in Int
        BY DEF Held, Ids
      <4> QED
        BY <3>0, <4>1
    <3>2. \A q \in Seq(Ids) : \A i \in DOMAIN q : q[i] \in Ids
      OBVIOUS
    <3>3. \A i \in DOMAIN p.released : p.released[i] \in Int
      BY <3>0, <3>2
    <3> QED
      BY <1>2, <1>4, <3>1, <3>3 DEF Hears
  <2>2. Trusts(p) => Due(wire', postponed, p.cid)
    BY <1>3, <1>4 DEF Hears, ExitDue
  <2> QED
    BY <1>1, <1>2, <1>4, <1>7, <2>1, <2>2 DEF Hears, ExitDue, Same, Trusts, Running, IsReleased
<1>10. Announced(p)'
  BY <1>1, <1>2, <1>8 DEF Announced, Same, IsReleased
<1>11. Known(p)' /\ Emptied(p)'
  BY <1>1, <1>4, <1>5 DEF Known, Emptied, Reporting, Same, Stops
<1> QED
  BY <1>6, <1>9, <1>10, <1>11 DEF Believing, Knows

LEMMA WorkBelieving ==
  ASSUME Believes, ~EngineFails, WorkStop \/ WorkHalt \/ WorkStart PROVE Believing'
<1>1. CASE WorkStop
  <2>1. PICK r : Removed /\ Finished(r) /\ p.run.step # "start"
    BY <1>1 DEF WorkStop
  <2> QED
    BY <2>1, RemovedBelieving
<1>2. CASE WorkHalt
  BY <1>2, HaltStopBelieving DEF WorkHalt
<1>3. CASE WorkStart
  BY <1>3, RemovedBelieving, StartedBelieving DEF WorkStart
<1> QED
  BY <1>1, <1>2, <1>3

LEMMA BoxBelieving == ASSUME Believes, BoxDies \/ BoxHealth PROVE Believing'
<1>0. Same(p, p) /\ box \in Boxes
  BY DEF Same, Believes, Inv, Typed, TypeOK
<1>1. CASE BoxDies
  <2>1. PICK kind \in {"exited0", "exited"} : wire' = Append(wire, Event(kind, box.id))
    BY <1>1 DEF BoxDies
  <2>2. /\ ~box'.up /\ box'.id = box.id /\ box.up /\ UNCHANGED <<ids, postponed>> /\ p' = p
    BY <1>0, <1>1 DEF BoxDies, Boxes
  <2>3. wire' = IF box.up THEN Append(wire, Event(kind, box.id)) ELSE wire
    BY <2>1, <2>2
  <2> QED
    BY <1>0, <2>2, <2>3, GoneBelieving
<1>2. CASE BoxHealth
  <2>1. PICK kind \in {"healthy", "unhealthy"} : wire' = Append(wire, Event(kind, box.id))
    BY <1>2 DEF BoxHealth
  <2>2. box.up /\ UNCHANGED <<box, ids, postponed>> /\ p' = p
    BY <1>2 DEF BoxHealth
  <2> DEFINE e == Event(kind, box.id)
  <2>3. /\ wire \in Seq(Events) /\ postponed \in Seq(Messages) /\ ids \in Nat
        /\ Ends(wire, postponed, box) /\ Counted(wire, postponed, ids) /\ box.id <= ids
        /\ box.id \in Held /\ box.id # 0 /\ Drained /\ Knows(p)
    BY <2>2, BelievesFacts DEF EventsEnd, Numbered
  <2>4. /\ e \in Events /\ e.id <= ids /\ ~Late(e, box) /\ \A id : ~IsExit(e, id)
        /\ \A m \in Messages : Late(m, box) => Late(m, box) \/ IsExit(e, m.id)
    BY <2>2, <2>3 DEF Event, Events, EventKinds, Held, Late, IsExit
  <2>5. wire' = Append(wire, e)
    BY <2>1
  <2> HIDE DEF e
  <2>6. /\ Ends(wire', postponed, box) /\ Counted(wire', postponed, ids)
        /\ \A id : Due(wire', postponed, id) <=> Due(wire, postponed, id)
    BY <2>3, <2>4, <2>5, EndsAppended
  <2>7. EventsEnd' /\ Numbered' /\ Drained'
    BY <2>2, <2>3, <2>6 DEF EventsEnd, Numbered, Drained
  <2> QED
    BY <2>2, <2>3, <2>6, <2>7, NowBelieving
<1> QED
  BY <1>1, <1>2
-----------------------------------------------------------------------------
(* The invariant, and what it says of a process that is up to date.        *)

LEMMA BelievingInit == ASSUME Init PROVE Believing
<1>1. /\ ~box.up /\ box.id = 0 /\ ids = 0 /\ wire = <<>> /\ postponed = <<>> /\ p = Fresh
  BY DEF Init, NoBox
<1>2. EventsEnd /\ Numbered /\ Drained
  BY <1>1 DEF EventsEnd, Ends, Numbered, Counted, Drained
<1> QED
  BY <1>1, <1>2, FreshKnows DEF Believing

(* What the engine and the process are trusted with. *)
Faultless == ~EngineFails /\ ~TasksFail /\ ~EventsLost /\ ~Crashes

LEMMA BelievingNext ==
  ASSUME Faultless, Inv, Planned, Believing, [Next]_vars PROVE Believing'
<1>0. Believes /\ ~EngineFails /\ ~TasksFail /\ ~EventsLost /\ ~Crashes
  BY DEF Believes, Faultless
<1>1. CASE \E op \in Commands : Command(op)
  BY <1>0, <1>1, CommandBelieving
<1>2. CASE Halt \/ BootStart
  BY <1>0, <1>2, HaltBelieving, BootStartBelieving
<1>3. CASE SetOptions \/ SetWatchdog
  BY <1>0, <1>3, SettingBelieving
<1>4. CASE Deliver \/ Replay \/ TimerStep \/ ProbeAnswer \/ Expire
  BY <1>0, <1>4, DeliverBelieving, ReplayBelieving, TimerBelieving, ProbeBelieving,
     ExpireBelieving
<1>5. CASE TaskStep
  BY <1>0, <1>5, CheckBelieving, WorkBelieving DEF TaskStep
<1>6. CASE Done \/ TaskLost
  BY <1>0, <1>6, DoneBelieving DEF TaskLost
<1>7. CASE Surroundings
  <2>1. CASE BoxDies \/ BoxHealth
    BY <1>0, <2>1, BoxBelieving
  <2>2. CASE BeginShutdown \/ AbandonShutdown
    BY <1>0, <2>2, StillBelieving DEF BeginShutdown, AbandonShutdown
  <2> QED
    BY <1>0, <1>7, <2>1, <2>2 DEF Surroundings, Lose
<1>8. CASE Crash \/ Spawn
  BY <1>0, <1>8, SpawnBelieving DEF Crash
<1>9. CASE UNCHANGED vars
  BY <1>0, <1>9, StillBelieving DEF vars
<1> QED
  BY <1>1, <1>2, <1>3, <1>4, <1>5, <1>6, <1>7, <1>8, <1>9 DEF Next

LEMMA BelievingMatches == ASSUME Inv, Planned, Believing PROVE BeliefMatchesEngine
<1> SUFFICES ASSUME p.st = "idle", wire = <<>>, postponed = <<>>
             PROVE  /\ box.up => Believed(p)
                    /\ ~box.up => ~Running(p)
  BY DEF BeliefMatchesEngine, Believed
<1>1. Hears(p) /\ Known(p) /\ ~p.refused
  BY RestingFacts DEF Believing, Knows
<1>2. ~ExitDue(p.cid)
  BY DEF ExitDue, Due, ExitIn
<1> QED
  BY <1>1, <1>2 DEF Hears, Trusts, Known

(* With an engine that does what it is told and loses no event, and with   *)
(* tasks and a process that end on their own terms, an idle process with   *)
(* no event left to hear is right about its container: it holds the one    *)
(* that runs, if any does, and believes it up or records that a start of   *)
(* it failed; and if none runs it believes in none.  Commands in any       *)
(* order, late and postponed events, timers, shutdowns, and containers     *)
(* that die at any moment, between a start and its report too, are all     *)
(* there: container_event and release of Vagus.App.Policy, with the events *)
(* Vagus.App.Server postpones while it is busy.                            *)
THEOREM BeliefIsRight ==
  ASSUME ~EngineFails, ~TasksFail, ~EventsLost, ~Crashes
  PROVE  Spec => []BeliefMatchesEngine
<1>0. Faultless
  BY DEF Faultless
<1>1. Init => Believing
  BY BelievingInit
<1>2. Inv /\ Planned /\ Believing /\ [Next]_vars => Believing'
  BY <1>0, BelievingNext
<1>3. Inv /\ Planned /\ Believing => BeliefMatchesEngine
  BY BelievingMatches
<1> QED
  BY <1>1, <1>2, <1>3, AlwaysPlanned, PTL DEF Spec
=============================================================================
