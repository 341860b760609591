----------------------------- MODULE AppRestart -----------------------------
(***************************************************************************)
(* For every value of the other constants: with no shutdown, no dynamic    *)
(* port and a watchdog flag nobody sets, no restart of a container that    *)
(* died is lost.                                                           *)
(*                                                                         *)
(* The argument: a death arms the timer for the container held, and from   *)
(* then on one of three things is true of a restart that is due: the timer *)
(* is armed for that container, its message is among the postponed ones,   *)
(* or the step at work ends in a death that counts no more, a container    *)
(* that runs, or a timer armed again (Touching).  An operation that takes  *)
(* the timer away goes straight to such a step (Heading); any other leaves *)
(* it where it is (Spares).                                                *)
(***************************************************************************)
EXTENDS AppPlan

(* The container died, and the watchdog has a restart to give. *)
Dead(s) == s.ev = "exited" \/ (s.ev = "exited0" /\ ~Once)
Due(s) == /\ s.wanted = "started" /\ s.watchdog /\ s.attempt \in 1..MaxAttempts - 1
          /\ Dead(s)
Posted(q, s) == \E i \in DOMAIN q : q[i] = Event("retry", s.cid)
Hopes(q, s) == Due(s) => s.retry = s.cid \/ Posted(q, s)

(* A native app that is not started at boot has no ladder to climb. *)
Uncounted(s) == Native /\ ~BootAuto => s.attempt = 0

Starting == {"ensure_image", "start"}
Touching == Stops \cup Starting

(* An install, and an app that was refused, know of no death; the image of *)
(* an app whose start failed is retried on a ladder of its own.            *)
Known(s) == Uncounted(s) /\ (s.refused \/ s.run.op = "install" => ~Dead(s))
Sane(s) == Known(s) /\ (s.run.image # "none" => ~Dead(s) \/ s.run.step \in Starting)

(* A stop's task has an outcome of its own kind. *)
Outcome(run) ==
    /\ run.task # "shutting_down"
    /\ run.step = "stop" => run.task \in {"running", "ok", "was_running"}
    /\ run.step = "stop_strict" => run.task \in {"running", "ok", "was_running", "error"}

Waits(q, s) ==
    /\ s.st # "shutting_down" /\ s.run.op # "halt"
    /\ Sane(s) /\ Outcome(s.run)
    /\ s.st \in {"new", "down", "refused"} => ~Dead(s)
    /\ Hopes(q, s) \/ s.run.step \in Touching

Restarting == /\ ~inflight /\ Waits(postponed, p)
              /\ p.st = "down" => postponed = <<>>

-----------------------------------------------------------------------------
(* Operators of a handler.  Some only last: what is known of the container *)
(* and the kind of the operation stay.  Most spare the restart, too: the   *)
(* timer stays armed unless it is armed again.                             *)

Lasts(s, t) ==
    /\ t.ev = s.ev /\ t.refused = s.refused
    /\ t.run.op = s.run.op /\ t.run.image = s.run.image
    /\ Uncounted(s) => Uncounted(t)
    /\ t.fate = "shutting_down" => s.fate = "shutting_down"

Keeps(s, t) ==
    /\ t.cid = s.cid /\ t.watchdog = s.watchdog /\ t.wanted \in {s.wanted, "stopped"}
    /\ (t.attempt = s.attempt /\ t.retry = s.retry) \/ t.retry = t.cid

Spares(s, t) == Lasts(s, t) /\ (s.run.op = "install" \/ Keeps(s, t))
Goes(s, t) == /\ Lasts(s, t)
              /\ Spares(s, t) \/ (t.fate = "stay" /\ t.run.step \in Stops)

LEMMA SparesChain ==
  ASSUME NEW s, NEW t, NEW u, Spares(s, t)
  PROVE  (Spares(t, u) => Spares(s, u)) /\ (Goes(t, u) => Goes(s, u))
BY DEF Spares, Lasts, Keeps, Goes

LEMMA LastsChain ==
  ASSUME NEW s, NEW t, NEW u, Lasts(s, t), Lasts(t, u) PROVE Lasts(s, u)
BY DEF Lasts

LEMMA SparesGoes ==
  ASSUME NEW s, NEW t, Spares(s, t) PROVE Goes(s, t)
BY DEF Spares, Goes

LEMMA LadderSpares ==
  ASSUME NEW s \in Procs, NEW reason
  PROVE  /\ Spares(s, Retry(s)) /\ Spares(s, ImageRetry(s, reason))
         /\ Spares(s, DropRunKeys(s)) /\ Spares(s, s)
<1>1. Spares(s, s)
  BY DEF Spares, Lasts, Keeps
<1>2. Spares(s, Retry(s))
  <2> DEFINE n == IF s.attempt < MaxAttempts THEN s.attempt + 1 ELSE s.attempt
             t == [s EXCEPT !.attempt = n, !.retry = s.cid]
  <2>1. CASE Restart(s)
    <3>1. /\ t.ev = s.ev /\ t.refused = s.refused /\ t.run = s.run /\ t.fate = s.fate
          /\ t.cid = s.cid /\ t.watchdog = s.watchdog /\ t.wanted = s.wanted
          /\ t.retry = t.cid
      BY DEF Procs
    <3>2. Retry(s) = t
      BY <2>1 DEF Retry
    <3> HIDE DEF t
    <3>3. Uncounted(t)
      BY <2>1 DEF Uncounted, Restart
    <3> QED
      BY <3>1, <3>2, <3>3 DEF Spares, Lasts, Keeps
  <2>2. CASE ~Restart(s)
    BY <1>1, <2>2 DEF Retry
  <2> QED
    BY <2>1, <2>2
<1>3. Spares(s, ImageRetry(s, reason))
  <2> DEFINE n == IF s.img < RefusedTries THEN s.img + 1 ELSE s.img
             t == [s EXCEPT !.img = n, !.retry = s.cid]
  <2>1. /\ t.ev = s.ev /\ t.refused = s.refused /\ t.run = s.run /\ t.fate = s.fate
        /\ t.cid = s.cid /\ t.watchdog = s.watchdog /\ t.wanted = s.wanted
        /\ t.retry = t.cid /\ t.attempt = s.attempt
    BY DEF Procs
  <2>2. ImageRetry(s, reason) \in {s, t}
    BY DEF ImageRetry
  <2> HIDE DEF t
  <2> QED
    BY <1>1, <2>1, <2>2 DEF Spares, Lasts, Keeps, Uncounted
<1>4. Spares(s, DropRunKeys(s))
  <2> DEFINE k == s.keys \ (DnsKeys(s) \cup IF s.token THEN {"token"} ELSE {})
             t == [s EXCEPT !.keys = k, !.token = FALSE, !.ip = FALSE]
  <2>1. t = DropRunKeys(s)
    BY DEF DropRunKeys
  <2> HIDE DEF k
  <2>2. /\ t.ev = s.ev /\ t.refused = s.refused /\ t.run = s.run /\ t.fate = s.fate
        /\ t.cid = s.cid /\ t.watchdog = s.watchdog /\ t.wanted = s.wanted
        /\ t.retry = s.retry /\ t.attempt = s.attempt
    BY DEF Procs
  <2> HIDE DEF t
  <2> QED
    BY <2>1, <2>2 DEF Spares, Lasts, Keeps, Uncounted
<1> QED
  BY <1>1, <1>2, <1>3, <1>4

LEMMA PutSpares ==
  ASSUME NEW s \in Procs, NEW v
  PROVE  /\ Spares(s, PutSteps(s, v)) /\ Spares(s, [s EXCEPT !.run.cleaned = v])
         /\ Spares(s, [s EXCEPT !.run.result = v])
         /\ Spares(s, [s EXCEPT !.run.cause = v]) /\ Spares(s, [s EXCEPT !.run.was = v])
<1>1. Spares(s, PutSteps(s, v))
  BY DEF PutSteps, Spares, Lasts, Keeps, Uncounted, Procs, Runs
<1>2. Spares(s, [s EXCEPT !.run.cleaned = v]) /\ Spares(s, [s EXCEPT !.run.result = v])
  BY DEF Spares, Lasts, Keeps, Uncounted, Procs, Runs
<1>3. Spares(s, [s EXCEPT !.run.cause = v]) /\ Spares(s, [s EXCEPT !.run.was = v])
  BY DEF Spares, Lasts, Keeps, Uncounted, Procs, Runs
<1> QED
  BY <1>1, <1>2, <1>3

LEMMA CloseSpares ==
  ASSUME NEW s \in Procs, NEW reply PROVE Spares(s, Close(s, reply))
<1> DEFINE d == CASE s.run.image # "none" -> ImageRetry(s, s.run.image)
                  [] s.run.image = "none" /\ (s.run.retry \/ s.run.cleaned) -> Retry(s)
                  [] OTHER -> s
           t == [d EXCEPT !.save = TRUE, !.reply = reply, !.fate = "idle"]
<1>1. d \in Procs /\ Spares(s, d)
  BY ImageRetryType, RetryType, LadderSpares
<1>2. t = Close(s, reply)
  BY DEF Close
<1> HIDE DEF d
<1>3. Spares(d, t)
  BY <1>1 DEF Spares, Lasts, Keeps, Uncounted, Procs
<1> QED
  BY <1>1, <1>2, <1>3, SparesChain

LEMMA FailSpares == ASSUME NEW s \in Procs PROVE Spares(s, Fail(s))
<1>1. Spares(s, [s EXCEPT !.reply = "error", !.fate = "exit"])
  BY DEF Spares, Lasts, Keeps, Uncounted, Procs
<1> QED
  BY <1>1, CloseSpares DEF Fail

LEMMA FinishSpares == ASSUME NEW s \in Procs PROVE Spares(s, Finish(s))
<1>1. \A r : Spares(s, [s EXCEPT !.reply = "ok", !.fate = r]) \/ r = "shutting_down"
  BY DEF Spares, Lasts, Keeps, Uncounted, Procs
<1>2. \A r : Spares(s, [s EXCEPT !.save = TRUE, !.fate = "idle", !.reply = r])
  BY DEF Spares, Lasts, Keeps, Uncounted, Procs
<1> QED
  BY <1>1, <1>2 DEF Finish

LEMMA DeleteFileSpares == ASSUME NEW s \in Procs PROVE Spares(s, DeleteFile(s))
<1> DEFINE k == s.keys \cup IngressKeys(s)
           d == [s EXCEPT !.keys = k]
<1>1. k \in KeySets
  BY IngressKeysType DEF Procs, KeySets
<1>2. d = [s EXCEPT !.keys = @ \cup IngressKeys(s)]
  OBVIOUS
<1> HIDE DEF k
<1>3. d \in Procs /\ Spares(s, d)
  BY <1>1 DEF Procs, Spares, Lasts, Keeps, Uncounted
<1>4. Spares(s, [s EXCEPT !.gone = TRUE])
  BY DEF Spares, Lasts, Keeps, Uncounted, Procs
<1> HIDE DEF d
<1>5. Spares(s, Fail(d))
  BY <1>3, FailSpares, SparesChain
<1> QED
  BY <1>2, <1>4, <1>5 DEF DeleteFile

LEMMA ReconfigureSpares ==
  ASSUME NEW s \in Procs, NEW version PROVE Spares(s, Reconfigure(s, version))
<1>1. Lasts(s, Reconfigure(s, version))
  BY DEF Reconfigure, Lasts, Uncounted, Procs
<1>2. Keeps(s, Reconfigure(s, version))
  BY DEF Reconfigure, Keeps, Procs
<1> QED
  BY <1>1, <1>2 DEF Spares

LEMMA CommitInstallSpares ==
  ASSUME NEW s \in Procs, s.run.op = "install" PROVE Spares(s, CommitInstall(s))
BY DEF CommitInstall, Spares, Lasts, Uncounted, Procs

LEMMA RunLocalSpares ==
  ASSUME NEW s \in Procs, NEW name PROVE Spares(s, RunLocal(name, s))
<1>1. Spares(s, s)
  BY LadderSpares
<1>2. \A steps : Spares(s, PutSteps(s, steps))
  BY PutSpares
<1>3. Spares(s, [s EXCEPT !.token = TRUE, !.keys = @ \cup {"token"}])
  BY DEF Spares, Lasts, Keeps, Uncounted, Procs
<1>4. s.run.op = "install" => Spares(s, CommitInstall(s))
  BY CommitInstallSpares
<1>5. \A v : Spares(s, Reconfigure(s, v))
  BY ReconfigureSpares
<1>6. Spares(s, DeleteFile(s))
  BY DeleteFileSpares
<1> QED
  BY <1>1, <1>2, <1>3, <1>4, <1>5, <1>6 DEF RunLocal

LEMMA LocalSpares ==
  ASSUME NEW s \in Procs PROVE Local(s) \in Procs /\ Spares(s, Local(s))
<1>1. Local(s) \in Procs
  BY LocalType
<1>2. CASE ~(s.fate = "stay" /\ s.run.steps # <<>> /\ IsLocal(Head(s.run.steps), s))
  BY <1>1, <1>2, LadderSpares DEF Local
<1>3. CASE s.fate = "stay" /\ s.run.steps # <<>> /\ IsLocal(Head(s.run.steps), s)
  <2> DEFINE d == PutSteps(s, Tail(s.run.steps))
  <2>1. Tail(s.run.steps) \in Seq(StepNames)
    BY <1>3 DEF Procs, Runs
  <2>2. d \in Procs /\ Spares(s, d)
    BY <2>1, PutStepsType, PutSpares
  <2> HIDE DEF d
  <2>3. Spares(d, RunLocal(Head(s.run.steps), d))
    BY <2>2, RunLocalSpares
  <2>4. Spares(s, RunLocal(Head(s.run.steps), d))
    BY <2>2, <2>3, SparesChain
  <2> QED
    BY <1>1, <1>3, <2>4 DEF Local, d
<1> QED
  BY <1>2, <1>3

(* A stop takes the timer with it. *)
LEMMA BeforeTaskLasts ==
  ASSUME NEW s \in Procs, NEW name PROVE Lasts(s, BeforeTask(name, s))
<1>1. Lasts(s, s)
  BY DEF Lasts
<1>2. CancelTimers(s) \in Procs /\ Lasts(s, CancelTimers(s))
  BY CancelTimersType DEF CancelTimers, Lasts, Uncounted, Procs
<1>3. Lasts(CancelTimers(s), [CancelTimers(s) EXCEPT !.keys = @ \ Keys(s), !.token = FALSE,
                                                     !.ip = FALSE, !.wanted = "stopped"])
  BY <1>2 DEF Lasts, Uncounted, Procs
<1> DEFINE d == DropRunKeys(s)
           c == CancelTimers(d)
<1>4. d \in Procs /\ Lasts(s, d)
  BY DropRunKeysType, LadderSpares DEF Spares
<1> HIDE DEF d
<1>5. c \in Procs /\ Lasts(d, c)
  <2>1. c \in Procs
    BY <1>4, CancelTimersType
  <2>2. c.ev = d.ev /\ c.refused = d.refused /\ c.run = d.run
    BY <1>4 DEF CancelTimers, Procs
  <2>3. c.attempt = d.attempt /\ c.fate = d.fate
    BY <1>4 DEF CancelTimers, Procs
  <2> QED
    BY <2>1, <2>2, <2>3 DEF Lasts, Uncounted
<1> HIDE DEF c
<1>6. \A w : Lasts(c, [c EXCEPT !.wanted = w])
  BY <1>5 DEF Lasts, Uncounted, Procs
<1>7. Lasts(s, c)
  BY <1>4, <1>5, LastsChain
<1>8. \A w : Lasts(s, [c EXCEPT !.wanted = w])
  BY <1>6, <1>7, LastsChain
<1>9. Lasts(s, [CancelTimers(s) EXCEPT !.keys = @ \ Keys(s), !.token = FALSE,
                                       !.ip = FALSE, !.wanted = "stopped"])
  BY <1>2, <1>3, LastsChain
<1> QED
  BY <1>1, <1>8, <1>9 DEF BeforeTask, c, d

LEMMA LaunchGoes ==
  ASSUME NEW s \in Procs PROVE Goes(s, Launch(s))
<1>1. CASE s.fate # "stay" \/ s.run.steps = <<>>
  BY <1>1, FinishSpares, LadderSpares, SparesGoes DEF Launch
<1>2. CASE s.fate = "stay" /\ s.run.steps # <<>>
  <2> DEFINE name == Head(s.run.steps)
             b == BeforeTask(name, s)
             t == [b EXCEPT !.run.step = name, !.run.steps = Tail(b.run.steps),
                            !.run.task = "running"]
  <2>1. /\ b \in Procs /\ Lasts(s, b) /\ Frame(s, b) /\ (name \notin Stops => b = s)
        /\ name \in StepNames
    <3>1. name \notin Stops => b = s
      BY DEF BeforeTask, Stops
    <3>2. name \in StepNames
      BY <1>2 DEF Procs, Runs
    <3> QED
      BY <3>1, <3>2, BeforeTaskType, BeforeTaskFrame, BeforeTaskLasts
  <2>2. t = Launch(s)
    BY <1>2 DEF Launch
  <2> HIDE DEF name, b
  <2>3. Spares(b, t) /\ t.fate = b.fate /\ t.run.step = name
    BY <2>1 DEF Spares, Lasts, Keeps, Uncounted, Procs, Runs
  <2> HIDE DEF t
  <2>4. t.fate = "stay"
    BY <1>2, <2>1, <2>3 DEF Frame
  <2>5. Lasts(s, t)
    BY <2>1, <2>3, LastsChain DEF Spares
  <2> QED
    BY <2>1, <2>2, <2>3, <2>4, <2>5 DEF Goes
<1> QED
  BY <1>1, <1>2

LEMMA AdvanceGoes ==
  ASSUME NEW s \in Procs PROVE Goes(s, Advance(s))
<1> DEFINE a == Local(s)
           b == Local(a)
           c == Local(b)
           d == Local(c)
           e == Local(d)
<1>1. a \in Procs /\ Spares(s, a)
  BY LocalSpares
<1> HIDE DEF a
<1>2. b \in Procs /\ Spares(s, b)
  BY <1>1, LocalSpares, SparesChain
<1> HIDE DEF b
<1>3. c \in Procs /\ Spares(s, c)
  BY <1>2, LocalSpares, SparesChain
<1> HIDE DEF c
<1>4. d \in Procs /\ Spares(s, d)
  BY <1>3, LocalSpares, SparesChain
<1> HIDE DEF d
<1>5. e \in Procs /\ Spares(s, e)
  BY <1>4, LocalSpares, SparesChain
<1> HIDE DEF e
<1>6. Goes(s, Launch(e))
  BY <1>5, LaunchGoes, SparesChain
<1> QED
  BY <1>6 DEF Advance, a, b, c, d, e

-----------------------------------------------------------------------------
(* What a handler leaves. *)

Stays(steps, s) == s.fate = "stay" /\ s.run.step \in steps

Mends(q, s) ==
    \/ s.fate = "exit"
    \/ /\ Known(s) /\ s.fate # "shutting_down"
       /\ s.run.image # "none" => ~Dead(s) \/ Stays(Starting, s)
       /\ Hopes(q, s) \/ Stays(Touching, s)

LEMMA HopesOn ==
  ASSUME NEW s, NEW t, NEW q, Spares(s, t), Known(s), Hopes(q, s)
  PROVE  Hopes(q, t) /\ Known(t)
<1>1. Known(t) /\ (Dead(t) <=> Dead(s))
  BY DEF Spares, Lasts, Known, Dead
<1>2. CASE s.run.op = "install"
  BY <1>1, <1>2 DEF Known, Hopes, Due
<1>3. CASE Keeps(s, t)
  <2>1. t.retry # t.cid => /\ Due(t) => Due(s)
                           /\ t.retry = s.retry /\ t.cid = s.cid
    BY <1>1, <1>3 DEF Keeps, Due
  <2>2. Posted(q, s) /\ t.cid = s.cid => Posted(q, t)
    BY DEF Posted
  <2> QED
    BY <1>1, <2>1, <2>2 DEF Hopes
<1> QED
  BY <1>2, <1>3 DEF Spares

LEMMA RetryHopes ==
  ASSUME NEW s \in Procs, NEW q, Uncounted(s), ~s.shutting_down
  PROVE  Hopes(q, Retry(s))
<1>1. CASE Restart(s)
  <2>1. Retry(s).retry = Retry(s).cid
    BY <1>1 DEF Retry, Procs
  <2> QED
    BY <2>1 DEF Hopes
<1>2. CASE ~Restart(s)
  <2>1. Due(s) => Restart(s)
    BY BoundsAssumption, ConfigAssumption DEF Due, Restart, Uncounted, Procs, Attempts
  <2> QED
    BY <1>2, <2>1 DEF Retry, Hopes
<1> QED
  BY <1>1, <1>2

LEMMA GoesMends ==
  ASSUME NEW s, NEW t, NEW q, Goes(s, t), Known(s), Hopes(q, s),
         s.run.image # "none" => ~Dead(s), s.fate # "shutting_down"
  PROVE  Mends(q, t)
<1>1. Known(t) /\ (t.run.image # "none" => ~Dead(t)) /\ t.fate # "shutting_down"
  BY DEF Goes, Lasts, Known, Dead
<1>2. CASE Spares(s, t)
  BY <1>1, <1>2, HopesOn DEF Mends
<1>3. CASE t.fate = "stay" /\ t.run.step \in Stops
  BY <1>1, <1>3 DEF Mends, Stays, Touching
<1> QED
  BY <1>2, <1>3 DEF Goes

(* On the way to a start, with no other task in between. *)
Heading(s) ==
    /\ s.fate = "stay" /\ s.run.op \in Ops \ {"install", "uninstall", "halt"}
    /\ OnPlan(s.run.op, s.run.steps)
    /\ \/ First(s.run.steps) \in {"port?", "ensure_image", "mint_token", "start"}
       \/ First(s.run.steps) = "rollback_config" /\ s.run.op = "update"
       \/ First(s.run.steps) = "start?" /\ s.run.was

LEMMA HeadingLocal ==
  ASSUME NEW s \in Procs, NoPorts, Heading(s) PROVE Heading(Local(s))
<1> DEFINE op == s.run.op
           name == Head(s.run.steps)
           d == PutSteps(s, Tail(s.run.steps))
<1>1. /\ s.run.steps \in Seq(StepNames) /\ s.run.steps # <<>> /\ First(s.run.steps) = name
      /\ Tail(s.run.steps) \in Seq(StepNames)
  BY FirstFacts DEF Procs, Runs, Heading
<1>2. CASE ~IsLocal(name, s)
  BY <1>2 DEF Local
<1>3. CASE IsLocal(name, s)
  <2>1. /\ d \in Procs /\ d.fate = "stay" /\ d.run.op = op /\ d.run.was = s.run.was
        /\ d.run.steps = Tail(s.run.steps)
    <3>1. d \in Procs
      BY <1>1, PutStepsType
    <3> QED
      BY <3>1 DEF PutSteps, Procs, Runs, Heading
  <2>2. OnPlan(op, d.run.steps) /\ First(d.run.steps) \in Then(op, name)
    BY <1>1, <2>1, OnPlanRest DEF Heading, Follows
  <2>3. /\ name \in {"port?", "ensure_image", "mint_token", "start?"}
             \/ (name = "rollback_config" /\ op = "update")
        /\ name = "start?" => d.run.was
    BY <1>1, <1>3, <2>1 DEF Heading, IsLocal, LocalNames
  <2>4. op \in Ops \ {"install", "uninstall", "halt"}
    BY DEF Heading
  <2>5. Local(s) = RunLocal(name, d)
    BY <1>1, <1>3 DEF Local, Heading
  <2> HIDE DEF name, d, op
  <2>6. CASE name \in {"port?", "ensure_image"}
    <3>1. ~NeedsPort(d)
      BY <2>1 DEF NeedsPort, NoPorts, Procs, SavedVersions, Versions
    <3>2. RunLocal(name, d) = d
      BY <2>6, <3>1 DEF RunLocal
    <3> QED
      BY <2>1, <2>2, <2>4, <2>5, <2>6, <3>2, ThenInFront DEF Heading
  <2>7. CASE name = "mint_token"
    <3>1. RunLocal(name, d).fate = "stay" /\ RunLocal(name, d).run = d.run
      BY <2>1, <2>7 DEF RunLocal, Procs
    <3> QED
      BY <2>1, <2>2, <2>4, <2>5, <2>7, <3>1, ThenInFront DEF Heading
  <2>8. CASE name = "rollback_config" /\ op = "update"
    <3>1. RunLocal(name, d).fate = "stay" /\ RunLocal(name, d).run = d.run
      BY <2>1, <2>8 DEF RunLocal, Reconfigure, Procs
    <3>2. Then(op, name) = {"port?"}
      BY <2>8 DEF Then, ThenOfUpdate
    <3> QED
      BY <2>1, <2>2, <2>4, <2>5, <3>1, <3>2 DEF Heading
  <2>9. CASE name = "start?"
    <3> DEFINE q == StartSteps \o d.run.steps
               t == PutSteps(d, q)
    <3>1. d.run.steps \in Seq(StepNames)
      BY <1>1, <2>1
    <3>2. OnPlan(op, q) /\ First(q) = "port?" /\ q \in Seq(StepNames)
      BY <2>2, <2>4, <2>9, <3>1, ThenInFront, StartStepsOnPlan DEF Follows
    <3>3. RunLocal(name, d) = t
      BY <2>3, <2>9 DEF RunLocal
    <3> HIDE DEF q
    <3>4. t.fate = "stay" /\ t.run.op = op /\ t.run.steps = q
      BY <2>1 DEF PutSteps, Procs, Runs
    <3> QED
      BY <2>4, <2>5, <3>2, <3>3, <3>4 DEF Heading
  <2> QED
    BY <2>3, <2>6, <2>7, <2>8, <2>9
<1> QED
  BY <1>2, <1>3

LEMMA HeadingLaunch ==
  ASSUME NEW s \in Procs, Heading(s), Out(Launch(s)) PROVE Stays(Starting, Launch(s))
<1> DEFINE name == Head(s.run.steps)
           b == BeforeTask(name, s)
           t == [b EXCEPT !.run.step = name, !.run.steps = Tail(b.run.steps),
                          !.run.task = "running"]
<1>1. s.run.steps \in Seq(StepNames) /\ s.run.steps # <<>> /\ First(s.run.steps) = name
  BY FirstFacts DEF Procs, Runs, Heading
<1>2. b = s /\ (name \in TaskSteps => name \in Starting)
  BY <1>1 DEF Heading, BeforeTask, TaskSteps, Starting
<1>3. t = Launch(s)
  BY <1>1 DEF Launch, Heading
<1> HIDE DEF b, name
<1>4. t.fate = "stay" /\ t.run.step = name
  BY <1>2 DEF Heading, Procs, Runs
<1> QED
  BY <1>2, <1>3, <1>4 DEF Out, AtWork, Stays

LEMMA HeadingMends ==
  ASSUME NEW s \in Procs, NEW q, NoPorts, Heading(s), Known(s), Out(Advance(s))
  PROVE  Mends(q, Advance(s)) /\ Stays(Starting, Advance(s))
<1> DEFINE a == Local(s)
           b == Local(a)
           c == Local(b)
           d == Local(c)
           e == Local(d)
<1>1. a \in Procs /\ Heading(a)
  BY LocalType, HeadingLocal
<1> HIDE DEF a
<1>2. b \in Procs /\ Heading(b)
  BY <1>1, LocalType, HeadingLocal
<1> HIDE DEF b
<1>3. c \in Procs /\ Heading(c)
  BY <1>2, LocalType, HeadingLocal
<1> HIDE DEF c
<1>4. d \in Procs /\ Heading(d)
  BY <1>3, LocalType, HeadingLocal
<1> HIDE DEF d
<1>5. e \in Procs /\ Heading(e)
  BY <1>4, LocalType, HeadingLocal
<1> HIDE DEF e
<1>6. Advance(s) = Launch(e)
  BY DEF Advance, a, b, c, d, e
<1>7. Stays(Starting, Advance(s))
  BY <1>5, <1>6, HeadingLaunch
<1>8. Known(Advance(s))
  BY AdvanceGoes DEF Goes, Lasts, Known, Dead
<1> QED
  BY <1>7, <1>8 DEF Mends, Stays, Touching

-----------------------------------------------------------------------------
(* The outcomes of a step. *)

LEMMA SparesMends ==
  ASSUME NEW s \in Procs, NEW t \in Procs, NEW q, Spares(s, t), Known(s), Hopes(q, s),
         s.run.image # "none" => ~Dead(s), s.fate # "shutting_down"
  PROVE  Mends(q, Advance(t)) /\ Mends(q, Fail(t))
<1>1. Goes(s, Advance(t)) /\ Goes(s, Fail(t))
  BY AdvanceGoes, FailSpares, SparesChain, SparesGoes
<1> QED
  BY <1>1, GoesMends

(* With no death to answer for. *)
LEMMA LivesMends ==
  ASSUME NEW s \in Procs, NEW q, Uncounted(s), ~Dead(s), s.fate # "shutting_down"
  PROVE  Mends(q, Advance(s)) /\ Mends(q, Fail(s)) /\ Mends(q, Finish(s))
<1>1. Known(s) /\ Hopes(q, s)
  BY DEF Known, Hopes, Due
<1>2. Mends(q, Finish(s))
  BY <1>1, FinishSpares, SparesGoes, GoesMends
<1> QED
  BY <1>1, <1>2, LadderSpares, SparesMends

LEMMA LaunchStays ==
  ASSUME NEW s \in Procs, s.fate = "stay", s.run.steps # <<>>,
         ~IsLocal(Head(s.run.steps), s)
  PROVE  Advance(s).fate = "stay" /\ Advance(s).run.step = Head(s.run.steps)
<1> DEFINE name == Head(s.run.steps)
           b == BeforeTask(name, s)
           t == [b EXCEPT !.run.step = name, !.run.steps = Tail(b.run.steps),
                          !.run.task = "running"]
<1>1. b \in Procs /\ b.fate = "stay"
  <2>1. name \in StepNames
    BY DEF Procs, Runs
  <2>2. name \notin Stops => b = s
    BY DEF BeforeTask, Stops
  <2> QED
    BY <2>1, <2>2, BeforeTaskType, BeforeTaskFrame DEF Frame
<1>2. Local(s) = s
  BY DEF Local
<1>3. Advance(s) = t
  BY <1>2 DEF Advance, Launch
<1> HIDE DEF b, name
<1>4. t.fate = "stay" /\ t.run.step = name
  BY <1>1 DEF Procs, Runs
<1> QED
  BY <1>3, <1>4 DEF name

LEMMA CleanupMends ==
  ASSUME NEW s \in Procs, NEW q, s.fate = "stay", Known(s), s.run.image # "none" => ~Dead(s)
  PROVE  Mends(q, Cleanup(s))
<1> DEFINE d == [s EXCEPT !.run.cause = TRUE]
           steps == <<"stop_by_name">>
           e == PutSteps(d, steps)
<1>1. d \in Procs /\ Spares(s, d) /\ d.fate = "stay"
  BY PutCauseType, PutSpares DEF Procs
<1> HIDE DEF d
<1>2. steps \in Seq(StepNames) /\ steps # <<>> /\ Head(steps) = "stop_by_name"
  BY DEF StepNames, TaskSteps
<1> HIDE DEF steps
<1>3. e \in Procs /\ Spares(s, e)
  BY <1>1, <1>2, PutStepsType, PutSpares, SparesChain
<1>4. e.run.steps = steps /\ e.fate = "stay"
  BY <1>1 DEF PutSteps, Procs, Runs
<1> HIDE DEF e
<1>5. Stays(Touching, Advance(e))
  BY <1>2, <1>3, <1>4, LaunchStays DEF IsLocal, LocalNames, Stays, Touching, Stops
<1>6. Lasts(s, Advance(e))
  BY <1>3, AdvanceGoes, LastsChain DEF Spares, Goes
<1>7. Mends(q, Advance(e))
  BY <1>5, <1>6 DEF Mends, Lasts, Known, Dead
<1> QED
  BY <1>7 DEF Cleanup, d, e, steps

LEMMA ReleaseKeeps ==
  ASSUME NEW s \in Procs
  PROVE  LET t == Release(s)
         IN  /\ t \in Procs /\ t.run = s.run /\ t.fate = s.fate /\ t.ev = s.ev
             /\ t.refused = s.refused /\ t.attempt = s.attempt /\ t.wanted = s.wanted
             /\ t.shutting_down = s.shutting_down
<1>1. Release(s) \in Procs
  BY ReleaseType
<1>2. /\ Release(s).run = s.run /\ Release(s).fate = s.fate /\ Release(s).ev = s.ev
      /\ Release(s).refused = s.refused /\ Release(s).attempt = s.attempt
  BY DEF Release, Procs
<1>3. /\ Release(s).wanted = s.wanted /\ Release(s).shutting_down = s.shutting_down
  BY DEF Release, Procs
<1> QED
  BY <1>1, <1>2, <1>3

LEMMA CleanedUpMends ==
  ASSUME NEW s \in Procs, NEW q, Known(s), s.run.image # "none" => ~Dead(s),
         ~s.shutting_down, s.fate # "shutting_down"
  PROVE  Mends(q, CleanedUp(s))
<1> DEFINE r == Release(s)
           d == [r EXCEPT !.run.cleaned = TRUE]
<1>1. /\ r \in Procs /\ r.run = s.run /\ r.ev = s.ev /\ ~r.shutting_down
      /\ r.refused = s.refused /\ r.attempt = s.attempt /\ r.fate = s.fate
  BY ReleaseKeeps
<1> HIDE DEF r
<1>2. /\ d \in Procs /\ d.run.cleaned /\ ~d.shutting_down
      /\ d.run.op = s.run.op /\ d.run.image = s.run.image
      /\ d.ev = s.ev /\ d.refused = s.refused /\ d.attempt = s.attempt
      /\ d.fate = s.fate
  <2>1. d \in Procs
    BY <1>1, PutCauseType
  <2>2. d.run.cleaned /\ d.run.op = r.run.op /\ d.run.image = r.run.image
    BY <1>1 DEF Procs, Runs
  <2>3. /\ ~d.shutting_down /\ d.ev = r.ev /\ d.refused = r.refused
        /\ d.attempt = r.attempt /\ d.fate = r.fate
    BY <1>1 DEF Procs
  <2> QED
    BY <1>1, <2>1, <2>2, <2>3
<1> HIDE DEF d
<1>3. Known(d) /\ (d.run.image # "none" => ~Dead(d))
  BY <1>2 DEF Known, Uncounted, Dead
<1>4. ASSUME NEW reply PROVE Mends(q, Close(d, reply))
  <2>1. CASE d.run.image # "none"
    <3>1. Known(d) /\ Hopes(q, d) /\ ~Dead(d)
      BY <1>3, <2>1 DEF Hopes, Due
    <3> QED
      BY <1>2, <3>1, CloseSpares, SparesGoes, GoesMends
  <2>2. CASE d.run.image = "none"
    <3> DEFINE e == Retry(d)
               t == [e EXCEPT !.save = TRUE, !.reply = reply, !.fate = "idle"]
    <3>1. /\ e \in Procs /\ Spares(d, e) /\ Hopes(q, e)
      BY <1>2, <1>3, RetryType, LadderSpares, RetryHopes DEF Known
    <3>2. Close(d, reply) = t
      BY <1>2, <2>2 DEF Close
    <3> HIDE DEF e
    <3>3. Spares(e, t)
      BY <3>1 DEF Spares, Lasts, Keeps, Uncounted, Procs
    <3>4. Known(e) /\ (e.run.image # "none" => ~Dead(e)) /\ e.fate # "shutting_down"
      BY <1>2, <1>3, <3>1 DEF Known, Spares, Lasts, Dead
    <3> QED
      BY <3>1, <3>2, <3>3, <3>4, SparesGoes, GoesMends
  <2> QED
    BY <2>1, <2>2
<1>5. Mends(q, Fail(d))
  <2>1. CASE d.run.op = "install" \/ d.gone
    <3>1. Fail(d).fate = "exit"
      BY <1>2, <2>1 DEF Fail, Procs
    <3> QED
      BY <3>1 DEF Mends
  <2>2. CASE ~(d.run.op = "install" \/ d.gone)
    BY <1>4, <2>2 DEF Fail
  <2> QED
    BY <2>1, <2>2
<1> QED
  BY <1>4, <1>5 DEF CleanedUp, d, r

LEMMA StopDoneMends ==
  ASSUME NEW s \in Procs, NEW q, Uncounted(s), NEW was_running \in BOOLEAN, s.fate = "stay"
  PROVE  Mends(q, StopDone(s, was_running))
<1> DEFINE was == was_running \/ (s.run.op = "backup" /\ s.wanted = "started")
           r == Release(s)
           wanted == IF s.run.op = "restore" THEN "stopped" ELSE r.wanted
           d == [r EXCEPT !.ev = "stopped", !.run.was = was, !.wanted = wanted]
<1>1. r \in Procs /\ r.attempt = s.attempt /\ r.fate = "stay"
  BY ReleaseKeeps
<1>2. was \in BOOLEAN /\ wanted \in Wants /\ "stopped" \in Seen
  BY <1>1 DEF Procs, Wants, Seen
<1>3. Advance(d) = StopDone(s, was_running)
  BY DEF StopDone, was, wanted, r
<1> HIDE DEF was, wanted, r
<1>4. d \in Procs
  BY ZenonT(60), <1>1, <1>2 DEF Procs, Runs
<1>5. d.attempt = r.attempt /\ d.ev = "stopped" /\ d.fate = r.fate
  BY <1>1 DEF Procs
<1> HIDE DEF d
<1>6. Uncounted(d) /\ ~Dead(d)
  BY <1>1, <1>5 DEF Uncounted, Dead
<1> QED
  BY <1>1, <1>3, <1>4, <1>5, <1>6, LivesMends

LEMMA StrictStopFailedMends ==
  ASSUME NEW s \in Procs, NEW q, NoPorts, Working(s), s.run.step = "stop_strict", Known(s),
         s.run.image # "none" => ~Dead(s)
  PROVE  Mends(q, StrictStopFailed(s))
<1> DEFINE was == Running(s) \/ s.wanted = "started"
           r == Release(s)
           c == [r EXCEPT !.run.result = "error"]
           d == [c EXCEPT !.run.was = was]
           steps == <<"start?">>
           e == PutSteps(d, steps)
<1>1. /\ r \in Procs /\ r.run = s.run /\ r.ev = s.ev /\ r.refused = s.refused
      /\ r.attempt = s.attempt /\ r.wanted = s.wanted /\ r.fate = s.fate /\ was \in BOOLEAN
  BY ReleaseKeeps DEF Running
<1>2. Advance(e) = StrictStopFailed(s)
  BY DEF StrictStopFailed, was, r, c, d, steps, e
<1>3. s.wanted = "started" => was
  OBVIOUS
<1> HIDE DEF was, r
<1>4. Known(r) /\ (r.run.image # "none" => ~Dead(r))
  BY <1>1 DEF Known, Uncounted, Dead
<1>5. c \in Procs /\ Spares(r, c) /\ c.fate = r.fate
  BY <1>1, PutResultType, PutSpares DEF Procs
<1> HIDE DEF c
<1>6. d \in Procs /\ Spares(r, d) /\ d.run.was = was /\ d.fate = r.fate
  <2>1. d \in Procs /\ Spares(c, d)
    BY <1>1, <1>5, PutWasType, PutSpares
  <2>2. d.run.was = was /\ d.fate = c.fate
    BY <1>5 DEF Procs, Runs
  <2> QED
    BY <1>5, <2>1, <2>2, SparesChain
<1> HIDE DEF d
<1>7. steps \in Seq(StepNames) /\ First(steps) = "start?" /\ "start?" \in StepNames
  BY DEF StepNames, First
<1>8. e \in Procs /\ Spares(r, e)
  BY <1>6, <1>7, PutStepsType, PutSpares, SparesChain
<1>9. e.run.steps = steps /\ e.run.was = was /\ e.fate = r.fate
  BY <1>6 DEF PutSteps, Procs, Runs
<1>10. Known(e)
  BY <1>4, <1>8 DEF Spares, Lasts, Known, Dead
<1>11. CASE was
  <2>1. e.run.op = s.run.op /\ s.run.op \in {"update", "backup", "restore"}
    BY <1>1, <1>8, WorkingFacts, ThenOps DEF Spares, Lasts
  <2>2. OnPlan(e.run.op, steps)
    <3>1. "end" \in Then(e.run.op, "start?")
      BY <2>1, ThenInFront DEF Ops
    <3> QED
      BY <1>7, <3>1, OnlyOnPlan
  <2> HIDE DEF steps, e
  <2>3. Heading(e)
    BY <1>1, <1>7, <1>9, <1>11, <2>1, <2>2 DEF Heading, Working, Ops
  <2>4. Out(Advance(e))
    BY <1>2, StrictStopFailedOut
  <2> QED
    BY <1>2, <1>8, <1>10, <2>3, <2>4, HeadingMends
<1>12. CASE ~was
  <2>1. s.wanted = "stopped"
    BY <1>3, <1>12 DEF Procs, Wants
  <2>2. Hopes(q, r)
    BY <1>1, <2>1 DEF Hopes, Due
  <2> HIDE DEF e
  <2> QED
    BY <1>1, <1>2, <1>4, <1>8, <2>2, SparesMends DEF Working
<1> QED
  BY <1>11, <1>12

LEMMA StartFailedMends ==
  ASSUME NEW s \in Procs, NEW q, NoPorts, OnTrack(s), s.fate = "stay", ~s.save, NEW why,
         s.run.op \notin {"install", "uninstall", "halt"},
         s.run.op = "update" => s.cid = 0, Known(s)
  PROVE  Mends(q, StartFailed(s, why))
<1> DEFINE r == DropRunKeys(s)
           d == [r EXCEPT !.ev = "failed"]
           i == ImageRetry(d, s.run.image)
           c == [s EXCEPT !.run.cause = TRUE]
           steps == <<"rollback_config">> \o StartSteps
           e == PutSteps(c, steps)
<1>1. r \in Procs /\ Spares(s, r) /\ r.fate = "stay"
  BY DropRunKeysType, LadderSpares, DropRunKeysFrame DEF Frame
<1> HIDE DEF r
<1>2. d \in Procs /\ d.attempt = r.attempt /\ d.ev = "failed" /\ d.fate = "stay"
  BY <1>1 DEF Procs, Seen
<1> HIDE DEF d
<1>3. Uncounted(d) /\ ~Dead(d) /\ Known(d)
  BY <1>1, <1>2 DEF Spares, Lasts, Known, Uncounted, Dead
<1>4. Mends(q, Fail(d)) /\ Mends(q, Finish(d)) /\ Mends(q, Cleanup(d))
  BY <1>2, <1>3, LivesMends, CleanupMends
<1>5. Mends(q, Finish(i))
  <2>1. i \in Procs /\ Spares(d, i)
    BY <1>2, ImageRetryType, LadderSpares
  <2> HIDE DEF i
  <2>2. Uncounted(i) /\ ~Dead(i) /\ i.fate # "shutting_down"
    BY <1>2, <1>3, <2>1 DEF Spares, Lasts, Dead
  <2> QED
    BY <2>1, <2>2, LivesMends
<1>6. ASSUME s.run.op = "update", Out(Advance(e)) PROVE Mends(q, Advance(e))
  <2>1. c \in Procs /\ Spares(s, c) /\ c.fate = "stay"
    BY PutCauseType, PutSpares DEF Procs
  <2> HIDE DEF c
  <2>2. OnPlan("update", steps) /\ First(steps) = "rollback_config" /\ steps \in Seq(StepNames)
    BY RollbackOnPlan
  <2> HIDE DEF steps
  <2>3. e \in Procs /\ Spares(s, e)
    BY <2>1, <2>2, PutStepsType, PutSpares, SparesChain
  <2>4. e.run.steps = steps /\ e.fate = "stay"
    BY <2>1 DEF PutSteps, Procs, Runs
  <2> HIDE DEF e
  <2>5. Known(e) /\ e.run.op = "update"
    BY <1>6, <2>3 DEF Spares, Lasts, Known, Dead
  <2>6. Heading(e)
    BY <2>2, <2>4, <2>5 DEF Heading, Ops
  <2> QED
    BY <1>6, <2>3, <2>5, <2>6, HeadingMends
<1>7. Out(StartFailed(s, why))
  BY StartFailedOut
<1>8. CASE s.run.op = "update" /\ ~s.run.cause /\ s.ver # s.run.old
  <2>1. StartFailed(s, why) = Advance(e)
    BY <1>8 DEF StartFailed, e, c, steps
  <2> QED
    BY <1>6, <1>7, <1>8, <2>1
<1>9. CASE ~(s.run.op = "update" /\ ~s.run.cause /\ s.ver # s.run.old)
  <2>1. StartFailed(s, why) \in {Fail(d), Cleanup(d), Finish(d), Finish(i)}
    BY <1>9 DEF StartFailed, d, r, i
  <2> QED
    BY <1>4, <1>5, <2>1
<1> QED
  BY <1>8, <1>9

LEMMA ImageFailedMends ==
  ASSUME NEW s \in Procs, NEW q, NoPorts, Working(s), s.run.step = "ensure_image", Known(s),
         NEW why
  PROVE  Mends(q, ImageFailed(s, why))
<1> DEFINE image == IF why = "refused" THEN why ELSE "error"
           d == [s EXCEPT !.run.image = image]
<1>1. image \in {"none", "error", "refused"}
  OBVIOUS
<1> HIDE DEF image
<1>2. d \in Procs
  BY ZenonT(60), <1>1 DEF Procs, Runs
<1>3. Agree(s, d) /\ d.fate = s.fate
  BY PutRunFrame, PutAgrees DEF Agree, Frame
<1>4. Known(d)
  BY DEF Known, Uncounted, Dead, Procs, Runs
<1> HIDE DEF d
<1>5. OnTrack(d)
  BY <1>2, <1>3, AgreeTrack DEF Working
<1>6. Mends(q, StartFailed(d, why))
  BY <1>2, <1>3, <1>4, <1>5, StartingFacts, StartFailedMends
  DEF Working, Agree, Constant, Facts
<1> QED
  BY <1>6 DEF ImageFailed, image, d

LEMMA StartDoneMends ==
  ASSUME NEW s \in Procs, NEW q, Uncounted(s), NEW id \in Held, s.fate = "stay"
  PROVE  Mends(q, StartDone(s, id))
<1> DEFINE d == Started(s, id)
           e == [d EXCEPT !.run.result = "error"]
           g == PutSteps(e, <<>>)
<1>1. d \in Procs /\ d.ev = "running" /\ d.attempt \in {s.attempt, 0} /\ d.fate = "stay"
  <2>1. d \in Procs
    BY StartedType
  <2>2. d.ev = "running" /\ d.attempt \in {s.attempt, 0} /\ d.fate = s.fate
    BY DEF Started, Procs
  <2> QED
    BY <2>1, <2>2
<1> HIDE DEF d
<1>2. Uncounted(d) /\ ~Dead(d)
  BY <1>1 DEF Uncounted, Dead
<1>3. e \in Procs /\ Spares(d, e)
  BY <1>1, PutResultType, PutSpares
<1> HIDE DEF e
<1>4. g \in Procs /\ Spares(d, g)
  <2>1. <<>> \in Seq(StepNames)
    OBVIOUS
  <2> QED
    BY <1>3, <2>1, PutStepsType, PutSpares, SparesChain
<1> HIDE DEF g
<1>5. Uncounted(g) /\ ~Dead(g) /\ g.fate # "shutting_down"
  BY <1>1, <1>2, <1>4 DEF Spares, Lasts, Dead
<1>6. Mends(q, Finish(g)) /\ Mends(q, Advance(d))
  BY <1>1, <1>2, <1>4, <1>5, LivesMends
<1> QED
  BY <1>6 DEF StartDone, d, e, g

LEMMA SnapshotDoneMends ==
  ASSUME NEW s \in Procs, NEW q, Known(s), Hopes(q, s), s.run.image # "none" => ~Dead(s),
         NEW r, s.fate # "shutting_down"
  PROVE  Mends(q, SnapshotDone(s, r))
<1>1. ASSUME NEW v \in {"ok", "error"} PROVE Mends(q, Advance([s EXCEPT !.run.result = v]))
  BY PutResultType, PutSpares, SparesMends
<1>2. Mends(q, Advance(s))
  BY LadderSpares, SparesMends
<1>3. Mends(q, Advance(PutSteps([s EXCEPT !.run.result = "error"], <<"start?">>)))
  <2> DEFINE d == [s EXCEPT !.run.result = "error"]
             steps == <<"start?">>
  <2>1. d \in Procs /\ Spares(s, d)
    BY PutResultType, PutSpares
  <2>2. steps \in Seq(StepNames)
    BY DEF StepNames
  <2> HIDE DEF d, steps
  <2>3. PutSteps(d, steps) \in Procs /\ Spares(s, PutSteps(d, steps))
    BY <2>1, <2>2, PutStepsType, PutSpares, SparesChain
  <2>4. Mends(q, Advance(PutSteps(d, steps)))
    BY <2>3, SparesMends
  <2> QED
    BY <2>4 DEF d, steps
<1> QED
  BY <1>1, <1>2, <1>3 DEF SnapshotDone

LEMMA OptionsDoneMends ==
  ASSUME NEW s \in Procs, NEW q, Known(s), Hopes(q, s), s.run.image # "none" => ~Dead(s),
         NEW r, s.fate # "shutting_down"
  PROVE  Mends(q, OptionsDone(s, r))
<1> DEFINE t == OptionsTaken(s)
<1>1. Mends(q, Advance(s)) /\ Mends(q, Fail(s))
  BY LadderSpares, SparesMends
<1>2. t \in Procs /\ Spares(s, t)
  BY DEF OptionsTaken, Procs, OptionValues, Spares, Lasts, Keeps, Uncounted
<1>3. Mends(q, Advance(t))
  BY <1>2, SparesMends
<1> QED
  BY <1>1, <1>3 DEF OptionsDone, OptionsTaken

LEMMA PortDoneMends ==
  ASSUME NEW s \in Procs, NEW q, Known(s), Hopes(q, s), s.run.image # "none" => ~Dead(s),
         NEW r, s.fate # "shutting_down"
  PROVE  Mends(q, PortDone(s, r))
<1> DEFINE k == s.keys \cup {"port"}
           save == s.save \/ s.run.op # "install"
           t == [s EXCEPT !.port = TRUE, !.keys = k, !.save = save]
<1>1. k \in KeySets /\ save \in BOOLEAN
  BY DEF Procs, KeySets, KeyNames
<1>2. [s EXCEPT !.port = TRUE, !.keys = s.keys \cup {"port"},
                !.save = s.save \/ s.run.op # "install"] = t
  OBVIOUS
<1> HIDE DEF k, save
<1>3. t \in Procs
  BY ZenonT(60), <1>1 DEF Procs
<1>4. Spares(s, t)
  BY DEF Spares, Lasts, Keeps, Uncounted, Procs
<1>5. Mends(q, Advance(t)) /\ Mends(q, Fail(s))
  BY <1>3, <1>4, LadderSpares, SparesMends
<1> QED
  BY <1>2, <1>5 DEF PortDone

(* What a result may be of a step that stops the container. *)
StopResult(step, r) ==
    /\ step = "stop" => Good(r) \/ r \in {"died", "timeout"}
    /\ step = "stop_strict" => Good(r) \/ r \in {"died", "timeout", "error"}

LEMMA SettleMends ==
  ASSUME NEW s \in Procs, NEW q, NoPorts, Working(s), Sane(s), ~s.shutting_down,
         s.run.op # "halt", Hopes(q, s) \/ s.run.step \in Touching,
         NEW r, NEW id \in Held, r # "shutting_down", StopResult(s.run.step, r),
         s.run.step = "start" /\ r = "ok" => id # 0 /\ box.id = id /\ box.ver = s.ver
  PROVE  Mends(q, Settle(s, r, id))
<1> DEFINE name == s.run.step
<1>1. Known(s) /\ (name \notin Starting => (s.run.image # "none" => ~Dead(s)))
  BY DEF Sane
<1>2. s.fate = "stay" /\ OnTrack(s) /\ ~s.save
  BY DEF Working
<1>3. CASE name = "stop_by_name"
  BY <1>1, <1>2, <1>3, CleanedUpMends DEF Settle, Starting
<1>4. CASE name = "ensure_image"
  <2> DEFINE d == [s EXCEPT !.img = 0]
  <2>1. 0 \in ImageTries
    BY BoundsAssumption DEF ImageTries
  <2>2. d \in Procs /\ d.fate = s.fate /\ d.run = s.run
    BY <2>1 DEF Procs
  <2>3. Known(d)
    BY <1>1 DEF Known, Uncounted, Dead, Procs
  <2>4. Settle(s, r, id) = IF r = "ok" THEN Advance(d) ELSE ImageFailed(s, r)
    BY <1>4 DEF Settle
  <2> HIDE DEF d
  <2>5. s.run.op \in Ops \ {"install", "uninstall", "halt"} /\ OnPlan(s.run.op, s.run.steps)
    BY <1>4, StartingFacts, WorkingFacts DEF Working, AtWork, Here
  <2>6. First(s.run.steps) = "mint_token"
    BY <1>4, <2>5, WorkingFacts, ThenInFront
  <2>7. Heading(d)
    BY <1>2, <2>2, <2>5, <2>6 DEF Heading
  <2>8. r = "ok" => Out(Advance(d))
    <3>1. Out(Settle(s, r, id))
      BY SettleOut
    <3> QED
      BY <2>4, <3>1
  <2>9. r = "ok" => Mends(q, Advance(d))
    BY <2>2, <2>3, <2>7, <2>8, HeadingMends
  <2> QED
    BY <1>1, <1>4, <2>4, <2>9, ImageFailedMends
<1>5. CASE name = "start"
  <2>1. Mends(q, StartFailed(s, r)) /\ Mends(q, StartDone(s, id))
    BY <1>1, <1>2, <1>5, StartingFacts, StartFailedMends, StartDoneMends DEF Known
  <2> QED
    BY <1>5, <2>1 DEF Settle
<1>6. CASE name \in {"stop", "stop_strict"}
  <2>1. Mends(q, StopDone(s, r = "was_running")) /\ Mends(q, Cleanup(s))
    BY <1>1, <1>2, <1>6, StopDoneMends, CleanupMends DEF Starting, Known
  <2>2. name = "stop_strict" => Mends(q, StrictStopFailed(s))
    BY <1>1, StrictStopFailedMends DEF Starting
  <2> QED
    BY <1>6, <2>1, <2>2 DEF Settle, StopResult, Good
<1>7. CASE name \notin Touching
  <2>1. Hopes(q, s) /\ (s.run.image # "none" => ~Dead(s))
    BY <1>1, <1>7 DEF Touching
  <2>2. Mends(q, Advance(s)) /\ Mends(q, Fail(s))
    BY <1>1, <1>2, <2>1, LadderSpares, SparesMends
  <2>3. /\ Mends(q, SnapshotDone(s, r)) /\ Mends(q, OptionsDone(s, r))
        /\ Mends(q, PortDone(s, r))
    BY <1>1, <1>2, <2>1, SnapshotDoneMends, OptionsDoneMends, PortDoneMends
  <2> QED
    BY <1>7, <2>2, <2>3 DEF Settle, Touching, Stops, Starting
<1>8. name # "halt_stop"
  BY WorkingFacts, ThenOps
<1> QED
  BY <1>3, <1>4, <1>5, <1>6, <1>7, <1>8 DEF Touching, Stops, Starting

-----------------------------------------------------------------------------
(* From one event to the next. *)

SameHope(s, t) ==
    /\ t.ev = s.ev /\ t.refused = s.refused /\ t.attempt = s.attempt /\ t.retry = s.retry
    /\ t.cid = s.cid /\ t.wanted = s.wanted /\ t.watchdog = s.watchdog

LEMMA SameHopes ==
  ASSUME NEW s, NEW t, NEW q, SameHope(s, t)
  PROVE  /\ Hopes(q, s) => Hopes(q, t)
         /\ Uncounted(s) => Uncounted(t)
         /\ Dead(t) <=> Dead(s)
BY DEF SameHope, Hopes, Due, Dead, Posted, Uncounted

(* Outside any operation. *)
Rests(q, s) ==
    /\ s.run = NoRun /\ s.st # "shutting_down" /\ Known(s) /\ Hopes(q, s)
    /\ s.st \in {"new", "down", "refused"} => ~Dead(s)

LEMMA RestsWait ==
  ASSUME NEW s, NEW q, s.run = NoRun PROVE Rests(q, s) <=> Waits(q, s)
BY DEF Rests, Waits, Known, Sane, Outcome, NoRun, Touching, Stops, Starting

LEMMA FreshWaits == ASSUME NEW q PROVE Waits(q, Fresh)
<1>1. Fresh.run = NoRun /\ Fresh.st = "down" /\ Fresh.ev = "none" /\ Fresh.attempt = 0
  BY DEF Fresh
<1>2. Rests(q, Fresh)
  BY <1>1 DEF Rests, Known, Uncounted, Dead, Hopes, Due
<1> QED
  BY <1>1, <1>2, RestsWait

LEMMA NeutralWaits ==
  ASSUME NEW s \in Procs, NEW q, Rests(q, s) PROVE Waits(q, Neutral(s))
<1> DEFINE t == Neutral(s)
<1>1. SameHope(s, t) /\ t.run = s.run /\ t.st = s.st
  BY ZenonT(60) DEF Neutral, Procs, SameHope
<1> HIDE DEF t
<1>2. Rests(q, t)
  BY <1>1, SameHopes DEF Rests, Known, SameHope
<1>3. Waits(q, t)
  BY <1>1, <1>2, RestsWait DEF Rests
<1> QED
  BY <1>3 DEF t

LEMMA EndWaits ==
  ASSUME NEW s \in Procs, NEW q, s.fate = "idle", Known(s), Hopes(q, s)
  PROVE  /\ Waits(q, After(s)) /\ (After(s).st = "down" => After(s) = Fresh)
         /\ s.run.op # "install" => After(s).st # "down"
<1>1. CASE Exits(s)
  BY <1>1, FreshWaits DEF After, Exits, InstallUnsaved
<1>2. CASE ~Exits(s)
  <2> DEFINE n == Neutral(s)
             st == CASE s.fate = "shutting_down" -> "shutting_down"
                     [] s.fate # "shutting_down" /\ s.refused -> "refused"
                     [] OTHER -> "idle"
             t == [n EXCEPT !.run = NoRun, !.retired = FALSE, !.st = st]
  <2>1. n \in Procs /\ SameHope(s, n)
    BY ZenonT(60), NeutralType DEF Neutral, Procs, SameHope
  <2>2. t = After(s)
    BY <1>2 DEF After
  <2>3. st = IF s.refused THEN "refused" ELSE "idle"
    OBVIOUS
  <2> HIDE DEF n, st
  <2>4. SameHope(n, t) /\ t.run = NoRun /\ t.st = st
    BY <2>1 DEF Procs, SameHope
  <2> HIDE DEF t
  <2>5. SameHope(s, t)
    BY <2>1, <2>4 DEF SameHope
  <2>6. Rests(q, t)
    BY <2>3, <2>4, <2>5, SameHopes DEF Rests, Known, SameHope, NoRun
  <2> QED
    BY <2>2, <2>3, <2>4, <2>6, RestsWait
<1> QED
  BY <1>1, <1>2

LEMMA StayWaits ==
  ASSUME NEW s \in Procs, NEW q, s.fate = "stay", ~Exits(s), Mends(q, s), Out(s),
         s.run.op # "halt"
  PROVE  Waits(q, After(s)) /\ After(s).st = "busy"
<1> DEFINE n == Neutral(s)
           u == Unsaved(s)
           t == [n EXCEPT !.run.unsaved = u]
<1>1. /\ n \in Procs /\ SameHope(s, n) /\ n.run = s.run /\ n.st = s.st
  BY ZenonT(60), NeutralType DEF Neutral, Procs, SameHope
<1>2. t = After(s)
  BY DEF After
<1> HIDE DEF n, u
<1>3. /\ SameHope(n, t) /\ t.st = n.st /\ t.run.task = n.run.task /\ t.run.op = n.run.op
      /\ t.run.step = n.run.step /\ t.run.image = n.run.image
  BY <1>1 DEF Procs, Runs, SameHope
<1> HIDE DEF t
<1>4. SameHope(s, t)
  BY <1>1, <1>3 DEF SameHope
<1>5. s.st = "busy" /\ s.run.task = "running"
  BY DEF Out, OnTrack
<1>6. Known(t) /\ (Dead(t) <=> Dead(s)) /\ (Hopes(q, s) => Hopes(q, t))
  BY <1>1, <1>3, <1>4, SameHopes DEF Mends, Known, SameHope
<1>7. Sane(t) /\ (Hopes(q, t) \/ t.run.step \in Touching)
  BY <1>1, <1>3, <1>6 DEF Mends, Sane, Stays
<1>8. Outcome(t.run)
  BY <1>1, <1>3, <1>5 DEF Outcome
<1> QED
  BY <1>1, <1>2, <1>3, <1>5, <1>7, <1>8 DEF Waits

(* What a handler that went through an operation leaves. *)
LEMMA AfterWaits ==
  ASSUME NEW s \in Procs, NEW q, Mends(q, s), Out(s), s.run.op # "halt"
  PROVE  Waits(IF After(s).st = "down" THEN <<>> ELSE q, After(s)) /\ Waits(q, After(s))
<1>1. CASE Exits(s)
  BY <1>1, FreshWaits DEF After
<1>2. CASE ~Exits(s) /\ s.fate = "stay"
  BY <1>2, StayWaits
<1>3. CASE ~Exits(s) /\ s.fate # "stay"
  <2>1. s.fate = "idle"
    BY <1>3 DEF Procs, Fates, Exits, Mends
  <2> QED
    BY <1>3, <2>1, EndWaits, FreshWaits DEF Mends, Stays, Exits
<1> QED
  BY <1>1, <1>2, <1>3

(* An operation that takes the timer away begins with a stop, or heads for *)
(* a start.                                                                *)
LEMMA BeginMends ==
  ASSUME NEW s \in Procs, NEW q, NoPorts, NEW op \in Ops \ {"halt"}, NEW a \in Args,
         Fit(op, s), Uncounted(s), s.refused \/ op = "install" => ~Dead(s),
         Hopes(q, s) \/ op = "start"
  PROVE  /\ Begin(op, a, s) \in Procs /\ Out(Begin(op, a, s)) /\ Mends(q, Begin(op, a, s))
         /\ Begin(op, a, s).run.op = op
         /\ op = "start" => Stays(Starting, Begin(op, a, s))
<1> DEFINE retry == IF op \in {"start", "restart", "stop", "uninstall", "halt"}
                    THEN NoTimer ELSE s.retry
           d == [s EXCEPT !.st = "busy", !.probing = FALSE, !.retry = retry]
           run == [NoRun EXCEPT !.op = op, !.steps = Steps(op, a, d),
                                !.from = a.from, !.retry = a.retry,
                                !.starts = a.starts, !.backup = a.backup,
                                !.options = a.options, !.old = d.ver]
           e == [d EXCEPT !.touched = FALSE, !.run = run]
<1>0. retry \in Armed /\ "busy" \in States
  BY DEF Procs, Armed, States
<1>1. op \notin {"start", "restart", "stop", "uninstall"} => retry = s.retry
  OBVIOUS
<1> HIDE DEF retry
<1>2. /\ d \in Procs /\ d.retry = retry /\ d.ver = s.ver /\ d.fate = s.fate
      /\ d.ev = s.ev /\ d.refused = s.refused /\ d.attempt = s.attempt
      /\ d.cid = s.cid /\ d.wanted = s.wanted /\ d.watchdog = s.watchdog
  BY ZenonT(60), <1>0 DEF Procs
<1> HIDE DEF d
<1>3. /\ run \in Runs /\ run.op = op /\ run.steps = Steps(op, a, d) /\ run.image = "none"
  <2>1. Steps(op, a, d) \in Seq(StepNames) /\ NoRun \in Runs
    BY StepsType, FreshType
  <2>2. d.ver \in SavedVersions /\ op \in Ops \cup {"none"}
    BY <1>2 DEF Procs
  <2>3. run.image = "none"
    BY DEF NoRun
  <2>4. run \in Runs /\ run.op = op /\ run.steps = Steps(op, a, d)
    BY <2>1, <2>2 DEF Runs, Args
  <2> QED
    BY <2>3, <2>4
<1> HIDE DEF run
<1>4. e \in Procs /\ SameHope(d, e) /\ e.run = run /\ e.fate = d.fate
  BY ZenonT(60), <1>2, <1>3 DEF Procs, SameHope
<1>5. e = Plan(op, a, d)
  BY DEF Plan, run
<1> HIDE DEF e
<1>6. Begin(op, a, s) = Advance(e)
  BY <1>5 DEF Begin, d, retry
<1>7. Advance(e) \in Procs /\ Out(Advance(e))
  BY <1>6, BeginType, BeginOut
<1>8. Lasts(e, Advance(e))
  BY <1>4, AdvanceGoes DEF Goes
<1>9. s.fate = "stay"
  BY DEF Fit
<1>10. Known(e)
  BY <1>2, <1>3, <1>4 DEF Known, Uncounted, Dead, SameHope
<1>11. /\ OnPlan(op, e.run.steps) /\ e.run.steps # <<>>
       /\ Head(e.run.steps) \in FirstOf(op) /\ First(e.run.steps) = Head(e.run.steps)
  BY <1>2, <1>3, <1>4, StepsPlanned, LeadsOnPlan DEF Planning, First
<1>12. CASE op = "start"
  <2>1. Heading(e)
    BY <1>2, <1>3, <1>4, <1>9, <1>11, <1>12 DEF Heading, FirstOf
  <2> QED
    BY <1>3, <1>4, <1>6, <1>7, <1>8, <1>2, <1>9, <1>10, <2>1, HeadingMends DEF Lasts
<1>13. CASE op \in {"stop", "restart", "uninstall"}
  <2>1. Head(e.run.steps) = "stop"
    BY <1>11, <1>13 DEF FirstOf
  <2>2. Stays(Touching, Advance(e))
    BY <1>2, <1>4, <1>9, <1>11, <2>1, LaunchStays
    DEF IsLocal, LocalNames, Stays, Touching, Stops
  <2>3. Mends(q, Advance(e))
    BY <1>3, <1>4, <1>8, <1>10, <2>2 DEF Mends, Lasts, Known, Dead, Stays
  <2> QED
    BY <1>3, <1>4, <1>6, <1>7, <1>8, <1>13, <2>3 DEF Lasts
<1>14. CASE op \notin {"start", "stop", "restart", "uninstall"}
  <2>1. SameHope(s, e)
    BY <1>1, <1>2, <1>4, <1>14 DEF SameHope
  <2>2. Hopes(q, e)
    BY <1>14, <2>1, SameHopes
  <2>3. Mends(q, Advance(e))
    BY <1>2, <1>3, <1>4, <1>9, <1>10, <2>2, LadderSpares, SparesMends
  <2> QED
    BY <1>3, <1>4, <1>6, <1>7, <1>8, <1>14, <2>3 DEF Lasts
<1> QED
  BY <1>12, <1>13, <1>14

LEMMA BeginWaits ==
  ASSUME NEW s \in Procs, NEW q, NoPorts, NEW op \in Ops \ {"halt"}, NEW a \in Args,
         Fit(op, s), Uncounted(s), s.refused \/ op = "install" => ~Dead(s),
         Hopes(q, s) \/ op = "start"
  PROVE  LET t == After(Begin(op, a, s))
         IN  /\ Waits(q, t) /\ Waits(IF t.st = "down" THEN <<>> ELSE q, t)
             /\ op = "start" => t.st # "down"
<1> DEFINE b == Begin(op, a, s)
<1>1. /\ b \in Procs /\ Out(b) /\ Mends(q, b) /\ b.run.op = op
      /\ op = "start" => Stays(Starting, b)
  BY BeginMends
<1> HIDE DEF b
<1>2. Waits(IF After(b).st = "down" THEN <<>> ELSE q, After(b)) /\ Waits(q, After(b))
  BY <1>1, AfterWaits
<1>3. ASSUME op = "start" PROVE After(b).st # "down"
  <2>1. b.fate = "stay" /\ ~Exits(b)
    BY <1>1, <1>3 DEF Stays, Exits, InstallUnsaved
  <2> QED
    BY <1>1, <1>3, <2>1, StayWaits
<1> QED
  BY <1>2, <1>3 DEF b

-----------------------------------------------------------------------------
(* Handlers outside any operation. *)

(* A handler for an event, of a process that knows of an app. *)
Hears(s) == /\ Uncounted(s) /\ ~s.refused /\ ~s.shutting_down /\ s.run = NoRun
               /\ s.st = "idle"

LEMMA HearsRests ==
  ASSUME NEW s, NEW q, Hears(s), Hopes(q, s) PROVE Rests(q, s)
BY DEF Hears, Rests, Known, NoRun

(* A restart that is armed, or none that is due. *)
LEMMA RetryRests ==
  ASSUME NEW s \in Procs, NEW q, Hears(s) PROVE Rests(q, Retry(s))
<1>1. Spares(s, Retry(s)) /\ Hopes(q, Retry(s))
  BY LadderSpares, RetryHopes DEF Hears
<1>2. /\ Retry(s).run = s.run /\ Retry(s).st = s.st
  BY DEF Retry, Procs
<1> QED
  BY <1>1, <1>2 DEF Hears, Rests, Spares, Lasts, Known, NoRun

LEMMA DiedRestarts ==
  ASSUME NEW s \in Procs, NEW q, Hears(s), NEW ev \in {"exited0", "exited"}
  PROVE  Rests(q, Died(s, ev))
<1> DEFINE k == DropRunKeys(s)
           d == [k EXCEPT !.health = "none", !.probe = FALSE, !.settled = FALSE,
                          !.ev = ev]
<1>1. k \in Procs /\ Spares(s, k) /\ ev \in Seen /\ "none" \in Healths
  BY DropRunKeysType, LadderSpares DEF Seen, Healths
<1>2. k.run = s.run /\ k.st = s.st /\ k.shutting_down = s.shutting_down
  BY DEF DropRunKeys, Procs
<1> HIDE DEF k
<1>3. /\ d \in Procs /\ d.run = k.run /\ d.st = k.st /\ d.attempt = k.attempt
      /\ d.shutting_down = k.shutting_down /\ d.refused = k.refused /\ d.ev = ev
  BY ZenonT(60), <1>1 DEF Procs
<1> HIDE DEF d
<1>4. Hears(d)
  BY <1>1, <1>2, <1>3 DEF Hears, Spares, Lasts, Uncounted
<1>5. Once /\ ev = "exited0" => Hopes(q, d)
  BY <1>3 DEF Hopes, Due, Dead
<1> QED
  BY <1>3, <1>4, <1>5, HearsRests, RetryRests DEF Died, d, k

LEMMA HealthSeenRestarts ==
  ASSUME NEW s \in Procs, NEW q, Hears(s), Hopes(q, s), NEW h \in {"healthy", "unhealthy"}
  PROVE  Rests(q, HealthSeen(s, h))
<1> DEFINE ev == IF s.ev = "failed_probe" THEN s.ev ELSE h
           d == [s EXCEPT !.health = h, !.ev = ev]
<1>1. ev \in Seen /\ h \in Healths /\ ev \in {"failed_probe", "healthy", "unhealthy"}
  BY DEF Procs, Seen, Healths
<1> HIDE DEF ev
<1>2. /\ d \in Procs /\ d.ev = ev /\ d.run = s.run /\ d.st = s.st /\ d.attempt = s.attempt
      /\ d.shutting_down = s.shutting_down /\ d.refused = s.refused
  BY ZenonT(60), <1>1 DEF Procs
<1> HIDE DEF d
<1>3. Hears(d) /\ Hopes(q, d)
  BY <1>1, <1>2 DEF Hears, Uncounted, Hopes, Due, Dead
<1> QED
  BY <1>2, <1>3, HearsRests, RetryRests DEF HealthSeen, d, ev

LEMMA OnEventRestarts ==
  ASSUME NEW s \in Procs, NEW q, Hears(s), Hopes(q, s), NEW e \in Messages
  PROVE  Rests(q, OnEvent(e, s))
<1> DEFINE t == [s EXCEPT !.cid = e.id, !.health = "none", !.ev = "running"]
<1>1. /\ t.ev = "running" /\ t.run = s.run /\ t.st = s.st /\ t.attempt = s.attempt
      /\ t.shutting_down = s.shutting_down /\ t.refused = s.refused
  BY DEF Procs
<1> HIDE DEF t
<1>2. Hears(t) /\ Hopes(q, t)
  BY <1>1 DEF Hears, Uncounted, Hopes, Due, Dead
<1> QED
  BY <1>2, HearsRests, DiedRestarts, HealthSeenRestarts DEF OnEvent, t

LEMMA StrikeRestarts ==
  ASSUME NEW s \in Procs, NEW q, Hears(s), Hopes(q, s), NEW result
  PROVE  Rests(q, Strike(result, s))
<1> DEFINE d == [s EXCEPT !.strikes = 0]
           ok == [s EXCEPT !.strikes = 0, !.probe = TRUE]
           skip == [s EXCEPT !.probe = TRUE]
           hit == [s EXCEPT !.strikes = s.strikes + 1, !.probe = TRUE]
           out == [s EXCEPT !.strikes = 0, !.ev = "failed_probe"]
<1>1. d \in Procs /\ Hears(d)
  <2>1. 0 \in StrikeCounts
    BY BoundsAssumption DEF StrikeCounts
  <2> QED
    BY <2>1 DEF Procs, Hears, Uncounted
<1>2. /\ SameHope(s, ok) /\ Hears(ok) /\ SameHope(s, skip) /\ Hears(skip)
  BY DEF Procs, Hears, Uncounted, SameHope
<1>3. SameHope(s, hit) /\ Hears(hit)
  BY DEF Procs, Hears, Uncounted, SameHope
<1>4. Hears(out) /\ out.ev = "failed_probe"
  BY DEF Procs, Hears, Uncounted
<1> HIDE DEF d, ok, skip, hit, out
<1>5. Rests(q, ok) /\ Rests(q, skip) /\ Rests(q, hit)
  BY <1>2, <1>3, SameHopes, HearsRests
<1>6. Rests(q, out)
  BY <1>4, HearsRests DEF Hopes, Due, Dead
<1>7. Rests(q, Retry(d))
  BY <1>1, RetryRests
<1> QED
  BY <1>5, <1>6, <1>7 DEF Strike, d, ok, skip, hit, out

(* The message of the retry timer starts the app, or there is nothing to   *)
(* restart.                                                                *)
LEMMA HandleWaits ==
  ASSUME NEW s \in Procs, NEW q, NEW m \in Messages, Handle(m, s), NoPorts, Resting(s),
         s.fate = "stay", ~s.save, s.st \notin {"busy", "down", "shutting_down"},
         ~s.shutting_down, Known(s), s.st \in {"new", "refused"} => ~Dead(s),
         Hopes(q, s) \/ m = Event("retry", s.cid)
  PROVE  Waits(q, p') /\ p'.st # "down"
<1>1. s.run = NoRun /\ (s.st # "refused" => ~s.refused) /\ s.st \in {"new", "idle", "refused"}
  BY DEF Resting, Procs, States
<1>2. Hopes(q, s) => Rests(q, s)
  BY <1>1 DEF Rests
<1>3. ASSUME NEW t \in Procs, Rests(q, t), Rest(t), t.st = s.st
      PROVE  Waits(q, p') /\ p'.st # "down"
  <2>1. Neutral(t).st = t.st
    BY DEF Neutral, Procs
  <2> QED
    BY <1>3, <2>1, NeutralWaits DEF Rest
<1>4. CASE m.kind = "retry"
  <2> DEFINE a == [Called EXCEPT !.from = FALSE, !.retry = TRUE]
  <2>1. CASE RetryDue(m.id, s) /\ Leave(Begin("start", a, s), callers)
    <3>1. a \in Args /\ "start" \in Ops \ {"halt"}
      BY DEF Called, Args, Ops
    <3> HIDE DEF a
    <3>2. s.ver # 0 /\ Fit("start", s) /\ ~s.refused
      BY <1>1, <2>1 DEF RetryDue, Fit, Resting
    <3>3. /\ Waits(q, After(Begin("start", a, s)))
          /\ After(Begin("start", a, s)).st # "down"
      BY <3>1, <3>2, BeginWaits DEF Known
    <3> QED
      BY <2>1, <3>3 DEF Leave
  <2>2. CASE ~RetryDue(m.id, s) /\ Rest(s)
    <3>1. m = Event("retry", s.cid) => ~Due(s)
      BY <1>1, <2>2 DEF RetryDue, Due, Dead, Event
    <3> QED
      BY <1>2, <1>3, <2>2, <3>1 DEF Hopes
  <2> QED
    BY <1>4, <2>1, <2>2 DEF Handle
<1>5. CASE m.kind # "retry"
  <2>1. Hopes(q, s) /\ Rests(q, s)
    BY <1>2, <1>5 DEF Event
  <2>2. CASE m.kind = "settled"
    <3> DEFINE t == [s EXCEPT !.attempt = 0]
    <3>1. 0 \in Attempts
      BY BoundsAssumption DEF Attempts
    <3>2. /\ t \in Procs /\ t.attempt = 0 /\ t.run = s.run /\ t.st = s.st /\ t.ev = s.ev
          /\ t.refused = s.refused
      BY <3>1 DEF Procs
    <3>3. Rest(s) \/ Rest(t)
      BY <2>2 DEF Handle
    <3> HIDE DEF t
    <3>4. Rests(q, t)
      BY <2>1, <3>2 DEF Rests, Known, Uncounted, Hopes, Due, Dead, NoRun
    <3> QED
      BY <1>3, <2>1, <3>2, <3>3, <3>4
  <2>3. CASE m.kind = "probe"
    <3> DEFINE t == [s EXCEPT !.probing = TRUE]
    <3>1. t \in Procs /\ SameHope(s, t) /\ t.run = s.run /\ t.st = s.st
      BY DEF Procs, SameHope
    <3>2. Rest(s) \/ Rest(t)
      BY <2>3 DEF Handle
    <3> HIDE DEF t
    <3>3. Rests(q, t)
      BY <2>1, <3>1, SameHopes DEF Rests, Known, SameHope
    <3> QED
      BY <1>3, <2>1, <3>1, <3>2, <3>3
  <2>4. CASE m.kind \notin {"settled", "probe"}
    <3>1. Rest(s) \/ (s.st = "idle" /\ Rest(OnEvent(m, s)))
      BY <1>1, <1>5, <2>4 DEF Handle
    <3>2. s.st = "idle" => Rests(q, OnEvent(m, s))
      BY <1>1, <2>1, OnEventRestarts DEF Hears, Known
    <3> QED
      BY <1>3, <2>1, <3>1, <3>2, OnEventType, OnEventKeeps DEF SameRun
  <2> QED
    BY <2>2, <2>3, <2>4
<1> QED
  BY <1>4, <1>5

LEMMA EnteredWaits ==
  ASSUME Inv, Planned, Restarting, NoPorts, p.st \notin {"busy", "down"}, NEW q,
         NEW m \in Messages, NEW d \in Procs, Alike(p, d),
         d.run = p.run, d.fate = p.fate, d.watchdog = p.watchdog, d.wanted = p.wanted,
         d.attempt = p.attempt, NEW disk \in Disk,
         Hopes(q, d) \/ m = Event("retry", d.cid),
         Handle(m, [d EXCEPT !.shutting_down = inflight, !.disk = disk])
  PROVE  Waits(q, p') /\ p'.st # "down"
<1> DEFINE s == [d EXCEPT !.shutting_down = inflight, !.disk = disk]
<1>1. inflight \in BOOLEAN /\ disk \in BOOLEAN /\ p \in Procs /\ ~inflight
  BY DiskType DEF Inv, Typed, TypeOK, Restarting
<1>2. /\ s \in Procs /\ Alike(d, s) /\ s.run = d.run /\ s.fate = d.fate
      /\ s.shutting_down = inflight
  BY ZenonT(60), <1>1 DEF Procs, Alike
<1>3. SameHope(d, s)
  BY DEF Procs, SameHope
<1>4. Handle(m, s)
  OBVIOUS
<1> HIDE DEF s
<1>5. Alike(p, s) /\ s.run = p.run
  BY <1>2 DEF Alike
<1>6. Resting(s) /\ ~s.save
  BY <1>1, <1>2, <1>5, RestingFacts, AlikeFacts DEF Alike
<1>7. s.fate = "stay"
  BY <1>2 DEF Inv, Answering, Calm, Balanced
<1>8. Known(p) /\ p.st # "shutting_down" /\ (p.st \in {"new", "refused"} => ~Dead(p))
  BY DEF Restarting, Waits, Sane
<1>9. Known(s) /\ s.st \notin {"busy", "down", "shutting_down"}
      /\ (s.st \in {"new", "refused"} => ~Dead(s))
  BY <1>3, <1>5, <1>8 DEF Known, Uncounted, Dead, SameHope, Alike
<1>10. Hopes(q, s) \/ m = Event("retry", s.cid)
  BY <1>3, SameHopes DEF SameHope
<1> QED
  BY <1>1, <1>2, <1>4, <1>6, <1>7, <1>9, <1>10, HandleWaits

-----------------------------------------------------------------------------
(* One lemma per action. *)

(* A message that was postponed is no less there with another behind it.   *)
LEMMA PostedMore ==
  ASSUME NEW q \in Seq(Messages), NEW m \in Messages
  PROVE  LET r == Append(q, m)
         IN  /\ \A s : Hopes(q, s) => Hopes(r, s)
             /\ \A s : m = Event("retry", s.cid) => Hopes(r, s)
<1> DEFINE r == Append(q, m)
<1>1. /\ DOMAIN r = 1..Len(q) + 1 /\ Len(q) \in Nat /\ r[Len(q) + 1] = m
      /\ DOMAIN q = 1..Len(q) /\ \A i \in 1..Len(q) : r[i] = q[i]
  OBVIOUS
<1> HIDE DEF r
<1>2. ASSUME NEW s, Posted(q, s) PROVE Posted(r, s)
  BY <1>1, <1>2 DEF Posted
<1>3. ASSUME NEW s, m = Event("retry", s.cid) PROVE Posted(r, s)
  BY <1>1, <1>3 DEF Posted
<1> QED
  BY <1>2, <1>3 DEF Hopes, r

LEMMA PostedLess ==
  ASSUME NEW q \in Seq(Messages), q # <<>>, NEW s, Hopes(q, s)
  PROVE  Hopes(Tail(q), s) \/ Head(q) = Event("retry", s.cid)
<1> DEFINE t == Tail(q)
<1>1. /\ DOMAIN q = 1..Len(q) /\ Len(q) \in Nat /\ Len(q) > 0 /\ Head(q) = q[1]
      /\ DOMAIN t = 1..Len(q) - 1 /\ \A i \in 1..Len(q) - 1 : t[i] = q[i + 1]
  OBVIOUS
<1> HIDE DEF t
<1>2. ASSUME NEW i \in DOMAIN q, q[i] = Event("retry", s.cid), i # 1 PROVE Posted(t, s)
  <2>1. i - 1 \in DOMAIN t /\ t[i - 1] = q[i]
    BY <1>1, <1>2
  <2> QED
    BY <1>2, <2>1 DEF Posted
<1>3. Posted(q, s) => Posted(t, s) \/ Head(q) = Event("retry", s.cid)
  BY <1>1, <1>2 DEF Posted
<1> QED
  BY <1>3 DEF Hopes, t

LEMMA CommandRestarts ==
  ASSUME Inv, Planned, Restarting, NoPorts, NEW op \in Commands, Command(op)
  PROVE  Restarting'
<1>1. PICK a \in ArgsOf(op), disk \in Disk :
        Leave(Begin(op, a, IF op = "uninstall" THEN [Enter(disk) EXCEPT !.retired = TRUE]
                           ELSE Enter(disk)), callers + 1)
  BY DEF Command
<1> DEFINE e == Enter(disk)
           s == IF op = "uninstall" THEN [e EXCEPT !.retired = TRUE] ELSE e
<1>2. /\ s \in Procs /\ s.refused = p.refused /\ Fit(op, s) /\ op \in Ops \ {"halt"}
      /\ p.st \in {"new", "idle", "refused"} /\ (p.st = "new" <=> op = "install")
  BY CommandFits
<1>3. Leave(Begin(op, a, s), callers + 1)
  BY <1>1
<1>4. SameHope(p, s)
  BY DEF Enter, Inv, Typed, TypeOK, Procs, SameHope
<1> HIDE DEF s
<1>5. p.run = NoRun
  BY <1>2, RestingFacts DEF Resting
<1>6. Rests(postponed, p)
  BY <1>5, RestsWait DEF Restarting
<1>7. /\ Hopes(postponed, s) /\ Uncounted(s) /\ (s.refused \/ op = "install" => ~Dead(s))
  BY <1>2, <1>4, <1>6, SameHopes DEF Rests, Known
<1>8. a \in Args
  BY ArgsOfType
<1> DEFINE t == After(Begin(op, a, s))
<1>9. Waits(postponed, t) /\ Waits(IF t.st = "down" THEN <<>> ELSE postponed, t)
  BY <1>2, <1>7, <1>8, BeginWaits
<1>10. p' = t
  BY <1>3 DEF Leave
<1> HIDE DEF t
<1>11. /\ postponed' = IF p'.st = "down" THEN <<>> ELSE postponed
       /\ inflight' = inflight
  BY DEF Command, outside
<1>12. /\ Waits(postponed', p') /\ ~inflight'
       /\ p'.st = "down" => postponed' = <<>>
  BY <1>9, <1>10, <1>11 DEF Restarting
<1> QED
  BY <1>12 DEF Restarting

LEMMA BootStartRestarts ==
  ASSUME Inv, Planned, Restarting, NoPorts, BootStart PROVE Restarting'
<1>1. PICK disk \in Disk :
        LET s == [Enter(disk) EXCEPT !.st = "idle"]
        IN  \/ p.refused /\ Rest([s EXCEPT !.st = "refused"])
            \/ ~p.refused /\ Leave(Begin("start", Called, s), callers + 1)
            \/ ~p.refused /\ Leave([s EXCEPT !.wanted = "stopped", !.retry = NoTimer,
                                             !.save = TRUE, !.fate = "idle"], callers)
            \/ ~p.refused /\ Rest(s)
  BY BootStartCases
<1> DEFINE e == Enter(disk)
           s == [e EXCEPT !.st = "idle"]
           r == [s EXCEPT !.st = "refused"]
           d == [s EXCEPT !.wanted = "stopped", !.retry = NoTimer,
                          !.save = TRUE, !.fate = "idle"]
<1>2. /\ e \in Procs /\ e.fate = "stay" /\ Alike(p, e) /\ e.run = p.run /\ e.save = p.save
  BY EnterAlike
<1>3. /\ p.st = "idle" /\ postponed' = postponed /\ inflight' = inflight
      /\ Resting(p) /\ ~p.save
  BY RestingFacts DEF BootStart, Restarting, Waits
<1>4. SameHope(p, e)
  BY DEF Enter, Inv, Typed, TypeOK, Procs, SameHope
<1>5. Resting(e)
  BY <1>2, <1>3, AlikeFacts DEF Inv, Typed, TypeOK
<1>6. Rests(postponed, p)
  BY <1>3, RestsWait DEF Restarting, Resting
<1> HIDE DEF e
<1>7. s = e
  BY <1>2, <1>3 DEF Procs, Alike
<1>8. Rests(postponed, e)
  BY <1>2, <1>4, <1>6, SameHopes DEF Rests, Known, SameHope, Alike
<1>9. CASE p.refused /\ Rest(r)
  BY <1>3, <1>9 DEF Resting
<1>10. CASE ~p.refused /\ Leave(Begin("start", Called, s), callers + 1)
  <2>1. Called \in Args /\ "start" \in Ops \ {"halt"}
    BY DEF Called, Args, Ops
  <2>2. Fit("start", e)
    BY <1>2, <1>3, <1>5, <1>10 DEF Fit, Resting, Alike
  <2>3. /\ Waits(postponed, After(Begin("start", Called, e)))
        /\ After(Begin("start", Called, e)).st # "down"
    BY <1>2, <1>8, <2>1, <2>2, BeginWaits DEF Rests, Known
  <2> QED
    BY <1>3, <1>7, <1>10, <2>3 DEF Leave, Restarting
<1>11. CASE ~p.refused /\ Rest(s)
  <2>1. Waits(postponed, Neutral(e)) /\ Neutral(e).st = e.st
    BY <1>2, <1>8, NeutralWaits DEF Neutral, Procs
  <2> QED
    BY <1>2, <1>3, <1>7, <1>11, <2>1 DEF Rest, Restarting, Alike
<1>12. CASE ~p.refused /\ Leave(d, callers)
  <2>1. /\ d \in Procs /\ d.wanted = "stopped" /\ d.fate = "idle" /\ d.run = e.run
        /\ d.attempt = e.attempt /\ d.refused = e.refused /\ d.ev = e.ev
    BY <1>2, <1>7 DEF Procs, Wants, Armed, Fates
  <2>2. p' = After(d)
    BY <1>12 DEF Leave
  <2> HIDE DEF d
  <2>3. Known(d) /\ Hopes(postponed, d)
    BY <1>8, <2>1 DEF Rests, Known, Uncounted, Dead, Hopes, Due
  <2>4. Waits(postponed, After(d)) /\ After(d).st # "down"
    <3>1. d.run.op # "install"
      BY <1>8, <2>1 DEF Rests, NoRun
    <3> QED
      BY <2>1, <2>3, <3>1, EndWaits
  <2> QED
    BY <1>3, <2>2, <2>4 DEF Restarting
<1> HIDE DEF s, r, d
<1> QED
  BY <1>1, <1>9, <1>10, <1>11, <1>12 DEF s, r, d, e

LEMMA IdleHopes ==
  ASSUME Inv, Planned, Restarting, p.st # "busy" PROVE Hopes(postponed, p)
<1>1. p.run = NoRun
  BY RestingFacts DEF Resting
<1> QED
  BY <1>1, RestsWait DEF Restarting, Rests

LEMMA SetOptionsRestarts ==
  ASSUME Inv, Planned, Restarting, SetOptions PROVE Restarting'
<1> DEFINE s == [p EXCEPT !.opt = "user", !.touched = TRUE]
<1>1. p' = s /\ postponed' = postponed /\ inflight' = inflight
  BY DEF SetOptions
<1>2. SameHope(p, s) /\ s.run = p.run /\ s.st = p.st
  BY DEF SameHope, Inv, Typed, TypeOK, Procs
<1> HIDE DEF s
<1>3. Waits(postponed, s)
  BY <1>2, SameHopes DEF Restarting, Waits, Sane, Known, SameHope
<1> QED
  BY <1>1, <1>2, <1>3 DEF Restarting

LEMMA DeliverRestarts ==
  ASSUME Inv, Planned, Restarting, NoPorts, Deliver PROVE Restarting'
<1>1. Head(wire) \in Messages /\ postponed \in Seq(Messages)
  <2>1. wire \in Seq(Events) /\ wire # <<>> /\ postponed \in Seq(Messages)
    BY TypedFacts DEF Deliver, Inv
  <2> QED
    BY <2>1, SomeKept DEF Messages
<1>2. inflight' = inflight /\ p \in Procs
  BY DEF Deliver, Inv, Typed, TypeOK
<1>3. CASE p.st = "busy" /\ Postpone(Head(wire)) /\ UNCHANGED p
  <2>1. Waits(postponed', p)
    BY <1>1, <1>3, PostedMore DEF Postpone, Restarting, Waits
  <2> QED
    BY <1>2, <1>3, <2>1 DEF Restarting
<1>4. CASE UNCHANGED <<p, postponed>>
  BY <1>2, <1>4 DEF Restarting
<1>5. CASE /\ p.st \notin {"busy", "down"}
           /\ \E disk \in Disk : Handle(Head(wire), Enter(disk))
           /\ UNCHANGED postponed
  <2>1. PICK disk \in Disk :
          Handle(Head(wire), [p EXCEPT !.shutting_down = inflight, !.disk = disk])
    BY <1>5 DEF Enter
  <2>2. Hopes(postponed, p)
    BY <1>5, IdleHopes
  <2>3. Waits(postponed, p') /\ p'.st # "down"
    BY <1>1, <1>2, <1>5, <2>1, <2>2, EnteredWaits DEF Alike
  <2> QED
    BY <1>2, <1>5, <2>3 DEF Restarting
<1> QED
  BY <1>3, <1>4, <1>5 DEF Deliver

LEMMA ReplayRestarts ==
  ASSUME Inv, Planned, Restarting, NoPorts, Replay PROVE Restarting'
<1>1. /\ postponed \in Seq(Messages) /\ postponed # <<>> /\ Head(postponed) \in Messages
      /\ p \in Procs /\ inflight' = inflight /\ postponed' = Tail(postponed)
  <2>1. postponed \in Seq(Messages) /\ postponed # <<>>
    BY TypedFacts DEF Replay, Inv
  <2> QED
    BY <2>1, SomeKept DEF Replay, Inv, Typed, TypeOK
<1>2. p.st \notin {"busy", "down"}
  BY <1>1 DEF Replay, Restarting
<1>3. PICK disk \in Disk :
        Handle(Head(postponed), [p EXCEPT !.shutting_down = inflight, !.disk = disk])
  BY DEF Replay, Enter
<1>4. Hopes(Tail(postponed), p) \/ Head(postponed) = Event("retry", p.cid)
  BY <1>1, <1>2, IdleHopes, PostedLess
<1>5. Waits(Tail(postponed), p') /\ p'.st # "down"
  BY <1>1, <1>2, <1>3, <1>4, EnteredWaits DEF Alike
<1> QED
  BY <1>1, <1>5 DEF Restarting

(* A timer leaves, as it fires, a message where it was. *)
LEMMA FiresRestarts ==
  ASSUME Inv, Planned, Restarting, NoPorts, NEW m \in Messages, NEW d \in Procs,
         Fires(m, d), Alike(p, d), d.run = p.run, d.fate = p.fate,
         d.watchdog = p.watchdog, d.wanted = p.wanted, d.attempt = p.attempt,
         d.retry = p.retry \/ (p.retry = p.cid => m = Event("retry", d.cid))
  PROVE  Restarting'
<1>1. inflight' = inflight /\ p.st # "down" /\ postponed \in Seq(Messages)
  BY TypedFacts DEF Fires, Inv
<1>2. ASSUME NEW q, Hopes(q, p) PROVE Hopes(q, d) \/ m = Event("retry", d.cid)
  BY <1>2 DEF Hopes, Due, Dead, Posted, Alike
<1>3. CASE p.st = "busy" /\ Postpone(m) /\ p' = d
  <2>1. postponed' = Append(postponed, m)
    BY <1>3 DEF Postpone
  <2>2. Hopes(postponed, p) => Hopes(postponed', d)
    BY <1>1, <1>2, <2>1, PostedMore
  <2>3. Waits(postponed', d)
    BY <1>3, <2>2 DEF Restarting, Waits, Sane, Known, Uncounted, Dead, Alike
  <2> QED
    BY <1>1, <1>3, <2>3 DEF Restarting, Alike
<1>4. CASE /\ p.st # "busy" /\ UNCHANGED postponed
           /\ \E disk \in Disk :
                Handle(m, [d EXCEPT !.shutting_down = inflight, !.disk = disk])
  <2>1. PICK disk \in Disk :
          Handle(m, [d EXCEPT !.shutting_down = inflight, !.disk = disk])
    BY <1>4
  <2>2. Hopes(postponed, d) \/ m = Event("retry", d.cid)
    BY <1>2, <1>4, IdleHopes
  <2>3. Waits(postponed, p') /\ p'.st # "down"
    BY <1>1, <1>4, <2>1, <2>2, EnteredWaits
  <2> QED
    BY <1>1, <1>4, <2>3 DEF Restarting
<1> QED
  BY <1>3, <1>4 DEF Fires

LEMMA TimerRestarts ==
  ASSUME Inv, Planned, Restarting, NoPorts, TimerStep PROVE Restarting'
<1>0. p \in Procs /\ NoTimer \in Armed
  BY DEF Inv, Typed, TypeOK, Armed
<1> DEFINE retry == [p EXCEPT !.retry = NoTimer]
           settled == [p EXCEPT !.settled = FALSE]
           probe == [p EXCEPT !.probe = FALSE]
<1>1. /\ retry \in Procs /\ Alike(p, retry) /\ retry.run = p.run /\ retry.fate = p.fate
      /\ retry.watchdog = p.watchdog /\ retry.wanted = p.wanted
      /\ retry.attempt = p.attempt /\ retry.cid = p.cid
  BY <1>0 DEF Procs, Alike
<1>2. /\ settled \in Procs /\ Alike(p, settled) /\ settled.run = p.run
      /\ settled.fate = p.fate /\ settled.watchdog = p.watchdog
      /\ settled.wanted = p.wanted /\ settled.attempt = p.attempt
      /\ settled.retry = p.retry
  BY <1>0 DEF Procs, Alike
<1>3. /\ probe \in Procs /\ Alike(p, probe) /\ probe.run = p.run
      /\ probe.fate = p.fate /\ probe.watchdog = p.watchdog
      /\ probe.wanted = p.wanted /\ probe.attempt = p.attempt
      /\ probe.retry = p.retry
  BY <1>0 DEF Procs, Alike
<1> HIDE DEF retry, settled, probe
<1>4. /\ p.retry # NoTimer => Event("retry", p.retry) \in Messages
      /\ Event("settled", 0) \in Messages
      /\ Event("probe", 0) \in Messages
  BY <1>0 DEF Event, Messages, TimerKinds, Held, Armed, Procs
<1>5. CASE p.retry # NoTimer /\ Fires(Event("retry", p.retry), retry)
  BY <1>1, <1>4, <1>5, FiresRestarts
<1>6. CASE Fires(Event("settled", 0), settled)
  BY <1>2, <1>4, <1>6, FiresRestarts
<1>7. CASE Fires(Event("probe", 0), probe)
  BY <1>3, <1>4, <1>7, FiresRestarts
<1> QED
  BY <1>5, <1>6, <1>7
  DEF TimerStep, RetryTimer, SettledTimer, ProbeTimer, retry, settled, probe

LEMMA ProbeRestarts ==
  ASSUME Inv, Planned, Restarting, ProbeAnswer PROVE Restarting'
<1> DEFINE e == Enter(TRUE)
           s == [e EXCEPT !.probing = FALSE]
<1>1. PICK result \in {"healthy", "unhealthy", "skip"} : Rest(Strike(result, s))
  BY DEF ProbeAnswer
<1>2. /\ p.probing /\ postponed' = postponed /\ inflight' = inflight
      /\ inflight \in BOOLEAN /\ p \in Procs
  BY DEF ProbeAnswer, Inv, Typed, TypeOK
<1>3. p.st = "idle" /\ p.run = NoRun /\ ~p.refused
  <2>1. p.st # "busy"
    BY <1>2 DEF Planned, OnTrack
  <2> QED
    BY <1>2, <2>1, RestingFacts DEF Resting
<1>4. e \in Procs
  BY EnterAlike DEF Disk
<1>5. /\ SameHope(p, e) /\ e.run = p.run /\ e.st = p.st /\ e.shutting_down = inflight
  BY <1>2 DEF Enter, Procs, SameHope
<1> HIDE DEF e
<1>6. /\ s \in Procs /\ SameHope(e, s) /\ s.run = e.run /\ s.st = e.st
      /\ s.shutting_down = e.shutting_down
  BY <1>4 DEF Procs, SameHope
<1> HIDE DEF s
<1>7. SameHope(p, s)
  BY <1>5, <1>6 DEF SameHope
<1>8. Hears(s) /\ Hopes(postponed, s)
  <2>1. Hopes(postponed, p) /\ Uncounted(p)
    BY <1>3, IdleHopes DEF Restarting, Waits, Sane, Known
  <2> QED
    BY <1>3, <1>5, <1>6, <1>7, <2>1, SameHopes DEF Hears, Restarting, SameHope
<1> DEFINE t == Strike(result, s)
<1>9. t \in Procs /\ Rests(postponed, t) /\ t.st = "idle"
  BY <1>3, <1>5, <1>6, <1>8, StrikeType, StrikeRestarts, StrikeKeeps DEF SameRun
<1>10. p' = Neutral(t)
  BY <1>1 DEF Rest
<1> HIDE DEF t
<1>11. Waits(postponed, p') /\ p'.st = "idle"
  BY <1>9, <1>10, NeutralWaits DEF Neutral, Procs
<1> QED
  BY <1>2, <1>11 DEF Restarting

(* A process that has just been started knows of no death. *)
LEMMA NewWaits ==
  ASSUME NEW s, NEW q, s.run = NoRun, s.st # "shutting_down", s.ev = "none",
         s.attempt = 0
  PROVE  Waits(q, s)
<1>1. Rests(q, s)
  BY DEF Rests, Known, Uncounted, Dead, Hopes, Due
<1> QED
  BY <1>1, RestsWait

LEMMA SpawnRestarts ==
  ASSUME Inv, Restarting, Expire \/ Crash \/ Spawn PROVE Restarting'
<1>1. inflight' = inflight
  BY DEF Expire, Crash, Spawn
<1>2. CASE Expire \/ Crash
  <2>1. p' = Fresh /\ postponed' = <<>>
    BY <1>2 DEF Expire, Crash, Quiet
  <2> QED
    BY <1>1, <2>1, FreshWaits DEF Restarting
<1>3. CASE Spawn
  <2>1. postponed' = <<>>
    BY <1>3 DEF Spawn, Restarting
  <2>2. ASSUME NEW port PROVE Waits(postponed', Loaded(port))
    <3> DEFINE b == [Fresh EXCEPT !.wanted = file.wanted, !.ver = file.ver,
                       !.opt = file.opt, !.watchdog = file.watchdog, !.port = port,
                       !.st = IF inflight THEN "shutting_down" ELSE "idle"]
               k == Keys(b)
               s == [b EXCEPT !.keys = k]
    <3>1. s = Loaded(port)
      BY DEF Loaded
    <3> HIDE DEF k
    <3>2. s.run = NoRun /\ s.st = "idle" /\ s.ev = "none" /\ s.attempt = 0
      BY DEF Fresh, Restarting
    <3> HIDE DEF s
    <3> QED
      BY <3>1, <3>2, NewWaits
  <2> DEFINE new == [Fresh EXCEPT !.st = "new"]
             refused == [Fresh EXCEPT !.st = "refused", !.refused = TRUE, !.ver = 1]
  <2>3. /\ new.run = NoRun /\ new.st = "new" /\ new.ev = "none" /\ new.attempt = 0
        /\ refused.run = NoRun /\ refused.st = "refused" /\ refused.ev = "none"
        /\ refused.attempt = 0
    BY DEF Fresh
  <2>4. \E t : p' = t /\ Waits(postponed', t)
    <3>1. CASE \E port : p' = Loaded(port)
      BY <2>2, <3>1
    <3>2. CASE p' \in {new, refused}
      <4> HIDE DEF new, refused
      <4> QED
        BY <2>3, <3>2, NewWaits
    <3> QED
      BY <1>3, <3>1, <3>2 DEF Spawn
  <2> QED
    BY <1>1, <2>1, <2>4 DEF Restarting
<1> QED
  BY <1>2, <1>3

(* A task step reports, none of them that a shutdown stopped it.           *)
LEMMA TaskRestarts ==
  ASSUME Inv, Planned, Restarting, TaskStep PROVE Restarting'
<1>1. PICK r :
        /\ Finished(r) /\ r # "shutting_down"
        /\ p.run.step = "stop" => r \in {"ok", "was_running"}
        /\ p.run.step = "stop_strict" => r \in {"ok", "was_running", "error"}
  <2>1. CASE Check
    BY <2>1 DEF Check, Guarded, Restarting
  <2>2. CASE WorkElsewhere
    BY <2>2 DEF WorkElsewhere
  <2>3. CASE WorkStop
    <3> DEFINE done == IF box.up THEN "was_running" ELSE "ok"
    <3>1. /\ p.run.step \in {"stop", "stop_strict", "stop_by_name"}
          /\ \/ Finished(done)
             \/ p.run.step = "stop_strict" /\ Finished("error")
      BY <2>3 DEF WorkStop
    <3> QED
      BY <3>1
  <2>4. CASE WorkHalt \/ WorkStart
    BY <2>4 DEF WorkHalt, WorkStart
  <2> QED
    BY <2>1, <2>2, <2>3, <2>4 DEF TaskStep
<1> DEFINE t == [p EXCEPT !.run.task = r]
<1>2. p' = t /\ postponed' = postponed /\ inflight' = inflight
  BY <1>1 DEF Finished
<1>3. p \in Procs
  BY DEF Inv, Typed, TypeOK
<1>4. /\ SameHope(p, t) /\ t.st = p.st /\ t.run.op = p.run.op /\ t.run.step = p.run.step
      /\ t.run.image = p.run.image /\ t.run.task = r
  BY <1>3 DEF Procs, Runs, SameHope
<1> HIDE DEF t
<1>5. Outcome(t.run)
  BY <1>1, <1>4 DEF Outcome
<1>6. Waits(postponed, t)
  BY <1>4, <1>5, SameHopes DEF Restarting, Waits, Sane, Known, SameHope
<1> QED
  BY <1>2, <1>4, <1>6 DEF Restarting

LEMMA ResultRestarts ==
  ASSUME Inv, Planned, Restarting, NoPorts, p.st = "busy", NEW disk \in Disk, NEW r,
         NEW id \in Held, r # "shutting_down", StopResult(p.run.step, r),
         p.run.step = "start" /\ r = "ok" => id # 0 /\ box.id = id /\ box.ver = p.ver,
         Leave(Settle(Enter(disk), r, id), callers), inflight' = inflight,
         postponed' = IF p'.st = "down" THEN <<>> ELSE postponed
  PROVE  Restarting'
<1> DEFINE s == Enter(disk)
           t == Settle(s, r, id)
<1>1. /\ s \in Procs /\ Balanced(s) /\ s.fate = "stay" /\ Alike(p, s) /\ s.run = p.run
      /\ s.save = p.save
  BY EnterAlike
<1>2. SameHope(p, s) /\ s.shutting_down = inflight
  BY DEF Enter, Inv, Typed, TypeOK, Procs, SameHope
<1> HIDE DEF s
<1>3. Working(s)
  <2>1. p \in Procs /\ OnTrack(p) /\ AtWork(p) /\ ~p.save
    BY DEF Planned, Inv, Typed, TypeOK
  <2> QED
    BY <1>1, <2>1, AlikeFacts DEF Working
<1>4. /\ Sane(s) /\ ~s.shutting_down /\ s.run.op # "halt"
      /\ Hopes(postponed, s) \/ s.run.step \in Touching
  BY <1>1, <1>2, SameHopes DEF Restarting, Waits, Sane, Known, SameHope
<1>5. t \in Procs /\ Out(t) /\ Mends(postponed, t)
  BY <1>1, <1>3, <1>4, SettleType, SettleOut, SettleMends DEF Alike
<1>6. t.run.op = s.run.op
  <2>1. OptionsTaken(s).run = s.run
    BY <1>1 DEF OptionsTaken, Procs
  <2> QED
    BY <1>1, <2>1, SettleCarries DEF Carries, Constant
<1>7. p' = After(t)
  BY DEF Leave, s
<1> HIDE DEF t
<1>8. /\ Waits(IF After(t).st = "down" THEN <<>> ELSE postponed, After(t))
  BY <1>4, <1>5, <1>6, AfterWaits
<1> QED
  BY <1>7, <1>8 DEF Restarting

LEMMA OutcomeRestarts ==
  ASSUME Inv, Planned, Restarting, NoPorts, Done \/ TaskLost PROVE Restarting'
<1>1. box.id \in Held /\ 0 \in Held
  BY DEF Inv, Typed, TypeOK, Boxes, Held
<1>2. /\ inflight' = inflight
      /\ postponed' = IF p'.st = "down" THEN <<>> ELSE postponed
  BY DEF Done, TaskLost
<1>3. CASE Done
  <2>1. PICK disk \in Disk : Leave(Settle(Enter(disk), p.run.task, box.id), callers)
    BY <1>3 DEF Done
  <2>2. p.run.task \in Outcomes
    BY <1>3 DEF Done
  <2>3. p.st = "busy"
    BY <2>2 DEF Planned, Resting, NoRun, Outcomes
  <2>4. p.run.step = "start" /\ p.run.task = "ok" => box.id # 0 /\ box.ver = p.ver
    BY DEF Planned, StartReported
  <2>5. p.run.task # "shutting_down" /\ StopResult(p.run.step, p.run.task)
    BY <2>2 DEF Restarting, Waits, Outcome, StopResult, Good, Outcomes
  <2> QED
    BY <1>1, <1>2, <2>1, <2>3, <2>4, <2>5, ResultRestarts
<1>4. CASE TaskLost
  <2>1. PICK disk \in Disk, r \in {"died", "timeout"} :
          Leave(Settle(Enter(disk), r, 0), callers)
    BY <1>4 DEF TaskLost
  <2>2. p.st = "busy" /\ r \notin {"ok", "shutting_down"} /\ StopResult(p.run.step, r)
    BY <1>4 DEF TaskLost, StopResult
  <2> QED
    BY <1>1, <1>2, <2>1, <2>2, ResultRestarts
<1> QED
  BY <1>3, <1>4

LEMMA SurroundingsRestarts ==
  ASSUME Restarting, ~Shutdowns, Surroundings PROVE Restarting'
<1>1. UNCHANGED <<p, postponed, inflight>>
  BY DEF Surroundings, BoxDies, BoxHealth, Lose, BeginShutdown, AbandonShutdown,
         Restarting
<1> QED
  BY <1>1 DEF Restarting

-----------------------------------------------------------------------------
(* The invariant. *)

LEMMA RestartingInit == ASSUME Init PROVE Restarting
<1>1. p = Fresh /\ postponed = <<>> /\ ~inflight
  BY DEF Init
<1> QED
  BY <1>1, FreshWaits DEF Restarting

LEMMA RestartingNext ==
  ASSUME Inv, Planned, Restarting, ~Shutdowns, NoPorts, "watchdog" \notin Settings,
         [Next]_vars
  PROVE  Restarting'
<1>1. CASE UNCHANGED vars
  BY <1>1 DEF vars, Restarting
<1>2. ~Halt /\ ~SetWatchdog
  BY DEF Halt, SetWatchdog, Restarting
<1>3. CASE Next
  BY <1>2, <1>3, CommandRestarts, BootStartRestarts, SetOptionsRestarts,
     DeliverRestarts, ReplayRestarts, TimerRestarts, ProbeRestarts, SpawnRestarts,
     TaskRestarts, OutcomeRestarts, SurroundingsRestarts DEF Next
<1> QED
  BY <1>1, <1>3

LEMMA RestartingKeepsTimer ==
  ASSUME Inv, Planned, Restarting PROVE NoRestartIsLost
<1> SUFFICES ASSUME p.st = "idle", postponed = <<>>, Due(p)
             PROVE  p.retry # NoTimer
  BY DEF NoRestartIsLost, Due, Dead
<1>1. p.retry = p.cid
  BY IdleHopes DEF Hopes, Posted
<1>2. p.cid \in Held
  BY DEF Inv, Typed, TypeOK, Procs
<1>3. NoTimer \notin Held
  BY BoundsAssumption DEF Held, Ids, NoTimer
<1> QED
  BY <1>1, <1>2, <1>3

(* A container that died with a restart due has its timer armed: once the  *)
(* process is idle and has handled what it postponed, a death on the       *)
(* restart ladder is never a death nobody answers.  It holds whatever      *)
(* commands race the death, whatever fails or crashes, and however events  *)
(* are lost, while no host shutdown begins (it takes the timer and gives   *)
(* the restart to the next boot), no port is dynamic (a start that fails   *)
(* before its container is touched leaves the death as it was) and the     *)
(* watchdog flag stays as it is (turned on, it does not look back at a     *)
(* death): container_event, retry and begin_op of Vagus.App.Policy and     *)
(* Vagus.App.Server.                                                       *)
THEOREM NoRestartLost ==
  ASSUME ~Shutdowns, NoPorts, "watchdog" \notin Settings
  PROVE  Spec => []NoRestartIsLost
<1>1. Init => Restarting
  BY RestartingInit
<1>2. Inv /\ Planned /\ Restarting /\ [Next]_vars => Restarting'
  BY RestartingNext
<1>3. Inv /\ Planned /\ Restarting => NoRestartIsLost
  BY RestartingKeepsTimer
<1> QED
  BY <1>1, <1>2, <1>3, AlwaysPlanned, PTL DEF Spec
=============================================================================
