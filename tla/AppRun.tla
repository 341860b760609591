------------------------------- MODULE AppRun -------------------------------
(***************************************************************************)
(* The step runner of Vagus.App.Policy: plan/3 lists an operation's steps, *)
(* next/3 applies one outcome of the current step, runs the local steps    *)
(* that follow in the same handler, and either launches one task step or   *)
(* ends the operation.                                                     *)
(*                                                                         *)
(* The code recurses through advance/2.  Between two task steps at most    *)
(* five local ones follow each other: commit (or rollback_config), start?, *)
(* and the port?, ensure_image and mint_token of a native start.  So       *)
(* Advance applies Local five times.                                       *)
(***************************************************************************)
EXTENDS AppPolicy

LocalNames == {"port?", "start?", "mint_token", "commit", "rollback_config",
               "delete_file"}

PutSteps(s, steps) == [s EXCEPT !.run.steps = steps]

(* Broken: an update commits the new version after it started the app. *)
StepsCommitLate(op, a, s) ==
    CASE op = "update" -> <<"pull", "stop", "start?", "commit", "reclaim_image">>
      [] op = "restart" -> <<"stop">> \o StartSteps
      [] OTHER -> StartSteps

(* steps/3 and plan/3; `a` holds the command's arguments. *)
Steps(op, a, s) ==
    LET start == IF a.starts THEN StartSteps ELSE <<>>
        hook(name) == IF Hooks THEN <<name>> ELSE <<>>
    IN  CASE op = "install" -> <<"pull", "port?", "commit">>
          [] op = "start" -> StartSteps
          [] op = "stop" -> <<"stop">>
          [] op = "restart" -> <<"stop">> \o StartSteps
          [] op = "uninstall" -> <<"stop", "delete_file", "remove_app">>
          [] op = "halt" -> <<"halt_stop">>
          [] op = "restore" -> <<"stop_strict", "swap_data", "set_options">> \o start
          [] op = "update" ->
               (IF a.backup THEN <<"pull", "stop_strict", "snapshot">>
                            ELSE <<"pull", "stop">>)
               \o <<"commit", "start?", "reclaim_image">>
          [] OTHER ->  \* backup
               CASE ColdBackup -> <<"stop_strict", "snapshot", "start?">>
                 [] ~ColdBackup /\ Native -> <<"snapshot">>
                 [] OTHER -> hook("exec_pre") \o <<"snapshot">> \o hook("exec_post")

Plan(op, a, s) ==
    [s EXCEPT !.touched = FALSE,
              !.run = [NoRun EXCEPT !.op = op, !.steps = Steps(op, a, s),
                                    !.from = a.from, !.retry = a.retry,
                                    !.starts = a.starts, !.backup = a.backup,
                                    !.options = a.options, !.old = s.ver]]

CancelTimers(s) ==
    [s EXCEPT !.probe = FALSE, !.settled = FALSE, !.retry = NoTimer]

(* Broken: a container is released even when none is held. *)
ReleaseAlways(s) ==
    [s EXCEPT !.cid = 0,
              !.released = SubSeq(<<s.cid>> \o @, 1,
                             IF Len(@) < ReleasedKept THEN Len(@) + 1 ELSE ReleasedKept)]

Release(s) ==
    IF s.cid = 0 THEN s
    ELSE [s EXCEPT !.cid = 0,
                   !.released = SubSeq(<<s.cid>> \o @, 1,
                                  IF Len(@) < ReleasedKept THEN Len(@) + 1
                                  ELSE ReleasedKept)]

(* The ladder of an image that could not be fetched: whatever the watchdog *)
(* flag, without end unless the registry refused it.                       *)
ImageRetry(s, reason) ==
    IF /\ s.wanted = "started" /\ ~s.shutting_down
       /\ reason = "refused" => s.img + 1 < RefusedTries
    THEN [s EXCEPT !.img = IF @ < RefusedTries THEN @ + 1 ELSE @, !.retry = s.cid]
    ELSE s

-----------------------------------------------------------------------------
(* Ends of an operation. *)

Close(s, reply) ==
    LET d == CASE s.run.image # "none" -> ImageRetry(s, s.run.image)
               [] s.run.image = "none" /\ (s.run.retry \/ s.run.cleaned) -> Retry(s)
               [] OTHER -> s
    IN  [d EXCEPT !.save = TRUE, !.reply = reply, !.fate = "idle"]

(* Broken: the process of a failed install goes without an answer. *)
FailSilently(s) ==
    IF s.run.op = "install" \/ s.gone THEN [s EXCEPT !.fate = "exit"]
    ELSE Close(s, "error")

(* A failed install leaves no file and no process; one past the delete of  *)
(* its file has nothing left to keep.                                      *)
Fail(s) ==
    IF s.run.op = "install" \/ s.gone
    THEN [s EXCEPT !.reply = "error", !.fate = "exit"]
    ELSE Close(s, "error")

Finish(s) ==
    CASE s.run.op = "install"   -> [s EXCEPT !.reply = "ok", !.fate = "idle"]
      [] s.run.op = "uninstall" -> [s EXCEPT !.reply = "ok", !.fate = "exit"]
      [] OTHER -> [s EXCEPT !.save = TRUE, !.fate = "idle",
                            !.reply = IF s.run.result = "none" THEN "ok"
                                      ELSE s.run.result]

-----------------------------------------------------------------------------
(* Local steps, run by the process itself in the handler that reaches them. *)

(* Broken: a config adds its ingress keys and drops none. *)
ReconfigureAddsOnly(s, version) ==
    LET d == [s EXCEPT !.ver = version,
                       !.port = @ /\ IngressOf[version] = "dynamic"]
    IN  [d EXCEPT !.keys = @ \cup IngressKeys(d), !.save = TRUE]

(* The ingress keys follow the config in both directions. *)
Reconfigure(s, version) ==
    LET d == [s EXCEPT !.ver = version,
                       !.port = @ /\ IngressOf[version] = "dynamic"]
        before == IngressKeys(s)
        now == IngressKeys(d)
    IN  [d EXCEPT !.keys = (@ \cup (now \ before)) \ (before \ now), !.save = TRUE]

(* An install takes version 1, and an update goes to the other one.  Only a *)
(* default app is installed wanted started, with its watchdog on.           *)
CommitInstall(s) ==
    LET d == [s EXCEPT !.ver = 1, !.save = TRUE, !.watchdog = @ \/ s.run.starts,
                       !.wanted = IF s.run.starts THEN "started" ELSE "stopped"]
    IN  [d EXCEPT !.keys = @ \cup (IngressKeys(d) \cap {"ingress"})]

(* The commit point of an uninstall, by the process itself; a failed one   *)
(* keeps the app and its ingress keys.                                     *)
DeleteFile(s) ==
    IF s.disk THEN [s EXCEPT !.gone = TRUE]
    ELSE Fail([s EXCEPT !.keys = @ \cup IngressKeys(s)])

NeedsPort(s) ==
    IngressOf[IF s.ver = 0 THEN 1 ELSE s.ver] = "dynamic" /\ ~s.port

IsLocal(name, s) ==
    \/ name \in LocalNames
    \/ name = "ensure_image" /\ Native
    \/ name = "set_options" /\ ~s.run.options

RunLocal(name, s) ==
    CASE name = "port?" -> IF NeedsPort(s) THEN PutSteps(s, <<"port">> \o s.run.steps)
                           ELSE s
      [] name = "start?" -> IF s.run.was THEN PutSteps(s, StartSteps \o s.run.steps)
                            ELSE s
      [] name = "mint_token" ->
           IF Native THEN s
           ELSE [s EXCEPT !.token = TRUE, !.keys = @ \cup {"token"}]
      [] name = "commit" -> IF s.run.op = "install" THEN CommitInstall(s)
                            ELSE Reconfigure(s, Other(s.run.old))
      [] name = "rollback_config" -> Reconfigure(s, s.run.old)
      [] name = "delete_file" -> DeleteFile(s)
      [] OTHER -> s

Local(s) ==
    IF s.fate = "stay" /\ s.run.steps # <<>> /\ IsLocal(Head(s.run.steps), s)
    THEN RunLocal(Head(s.run.steps), PutSteps(s, Tail(s.run.steps)))
    ELSE s

(* before_task/2: the credential goes before the container.  An uninstall  *)
(* drops everything the data implies and what the app wanted.              *)
BeforeTask(name, s) ==
    CASE name = "stop" /\ s.run.op = "uninstall" ->
           [CancelTimers(s) EXCEPT !.keys = @ \ Keys(s), !.token = FALSE,
                                   !.ip = FALSE, !.wanted = "stopped"]
      [] \/ name \in {"stop_strict", "stop_by_name", "halt_stop"}
         \/ (name = "stop" /\ s.run.op # "uninstall") ->
           [CancelTimers(DropRunKeys(s)) EXCEPT
              !.wanted = IF s.run.op = "stop" THEN "stopped" ELSE @]
      [] OTHER -> s

Launch(s) ==
    CASE s.fate # "stay" -> s
      [] s.fate = "stay" /\ s.run.steps = <<>> -> Finish(s)
      [] OTHER ->
           LET name == Head(s.run.steps)
           IN  [BeforeTask(name, s) EXCEPT !.run.step = name,
                                           !.run.steps = Tail(@),
                                           !.run.task = "running"]

Advance(s) == Launch(Local(Local(Local(Local(Local(s))))))

-----------------------------------------------------------------------------
(* Outcomes of the task step in flight. *)

(* The recovery after a dead or late step that touched the container. *)
Cleanup(s) == Advance(PutSteps([s EXCEPT !.run.cause = TRUE], <<"stop_by_name">>))

CleanedUp(s) ==
    LET d == [Release(s) EXCEPT !.run.cleaned = TRUE]
    IN  IF s.run.op = "backup" /\ s.run.result # "none"
        THEN Close(d, s.run.result) ELSE Fail(d)

ShutdownRefused(s) ==
    [DropRunKeys(s) EXCEPT !.reply = "shutting_down", !.fate = "idle"]

(* A start's result becomes the process's facts.  Only a start on the      *)
(* ladder keeps the count, and arms the timer that clears it.              *)
Started(s, id) ==
    LET d == [s EXCEPT !.cid = id, !.ip = ~Native, !.health = "none",
                       !.strikes = 0, !.ev = "running",
                       !.wanted = IF s.run.op \in {"start", "restore"}
                                  THEN "started" ELSE @,
                       !.attempt = IF s.run.retry THEN @ ELSE 0,
                       !.settled = @ \/ s.run.retry,
                       !.probe = @ \/ (ProbeUrl /\ s.watchdog)]
    IN  [d EXCEPT !.keys = @ \cup DnsKeys(d)]

StartDone(s, id) ==
    LET d == Started(s, id)
    IN  IF s.run.cause THEN Finish(PutSteps([d EXCEPT !.run.result = "error"], <<>>))
        ELSE Advance(d)

(* Only a committed target is rolled back, and only once. *)
StartFailed(s, why) ==
    LET d == [DropRunKeys(s) EXCEPT !.ev = "failed"]
    IN  CASE s.run.op = "update" /\ s.run.cause -> Fail(d)
          [] s.run.op = "update" /\ ~s.run.cause /\ s.ver # s.run.old ->
               Advance(PutSteps([s EXCEPT !.run.cause = TRUE],
                                <<"rollback_config">> \o StartSteps))
          [] OTHER ->
               CASE why \in {"died", "timeout"} -> Cleanup(d)
                 [] why \notin {"died", "timeout"} /\ s.run.op = "backup" ->
                      Finish(IF s.run.image = "none" THEN d
                             ELSE ImageRetry(d, s.run.image))
                 [] OTHER -> Fail(d)

ImageFailed(s, why) ==
    StartFailed([s EXCEPT !.run.image = IF why = "refused" THEN why ELSE "error"],
                why)

(* Broken: a cold backup starts again only what was running. *)
StopDoneOnlyIfRan(s, was_running) ==
    Advance([Release(s) EXCEPT !.ev = "stopped", !.run.was = was_running,
               !.wanted = IF s.run.op = "restore" THEN "stopped" ELSE @])

StopDone(s, was_running) ==
    LET was == was_running \/ (s.run.op = "backup" /\ s.wanted = "started")
    IN  Advance([Release(s) EXCEPT !.ev = "stopped", !.run.was = was,
                   !.wanted = IF s.run.op = "restore" THEN "stopped" ELSE @])

(* Broken: a strict stop that failed is tried again. *)
StrictStopRetried(s) == Advance(PutSteps(s, <<"stop_strict">> \o s.run.steps))

(* A strict stop that failed commits nothing and starts the app again in   *)
(* place of a container that may still run.                                *)
StrictStopFailed(s) ==
    LET was == Running(s) \/ s.wanted = "started"
    IN  Advance(PutSteps([Release(s) EXCEPT !.run.result = "error",
                                            !.run.was = was], <<"start?">>))

SnapshotDone(s, r) ==
    CASE s.run.op = "backup" ->
           Advance([s EXCEPT !.run.result = IF r = "ok" THEN "ok" ELSE "error"])
      [] s.run.op # "backup" /\ r = "ok" -> Advance(s)
      [] OTHER -> Advance(PutSteps([s EXCEPT !.run.result = "error"], <<"start?">>))

(* Broken: a restore puts its options over a newer set. *)
OptionsDoneAnyway(s, r) ==
    CASE r = "ok" -> Advance([s EXCEPT !.opt = "backup", !.touched = TRUE, !.save = TRUE])
      [] r = "invalid" -> Advance(s)
      [] OTHER -> Fail(s)

(* A set acknowledged since the restore began is newer than the backup. *)
OptionsDone(s, r) ==
    CASE r = "ok" /\ ~s.touched ->
           Advance([s EXCEPT !.opt = "backup", !.touched = TRUE, !.save = TRUE])
      [] (r = "ok" /\ s.touched) \/ r = "invalid" -> Advance(s)
      [] OTHER -> Fail(s)

(* Broken: a halt keeps the process of an app whose file is deleted. *)
HaltDoneStays(s, r) ==
    [Release(s) EXCEPT !.ev = "stopped", !.reply = IF r = "ok" THEN "ok" ELSE "error",
                       !.fate = "shutting_down"]

HaltDone(s, r) ==
    [Release(s) EXCEPT !.ev = "stopped", !.reply = IF r = "ok" THEN "ok" ELSE "error",
                       !.fate = IF s.gone THEN "exit" ELSE "shutting_down"]

PortDone(s, r) ==
    IF r = "ok"
    THEN Advance([s EXCEPT !.port = TRUE, !.keys = @ \cup {"port"},
                           !.save = @ \/ s.run.op # "install"])
    ELSE Fail(s)

Good(r) == r \in {"ok", "was_running"}

(* next/3: `id` is the container a successful start created. *)
Settle(s, r, id) ==
    LET name == s.run.step
    IN  CASE name = "stop_by_name" -> CleanedUp(s)
          [] name \in {"ensure_image", "start"} /\ r = "shutting_down" ->
               ShutdownRefused(s)
          [] name = "ensure_image" /\ r # "shutting_down" ->
               IF r = "ok" THEN Advance([s EXCEPT !.img = 0]) ELSE ImageFailed(s, r)
          [] name = "start" /\ r # "shutting_down" ->
               IF r = "ok" THEN StartDone(s, id) ELSE StartFailed(s, r)
          [] name \in {"stop", "stop_strict"} /\ Good(r) ->
               StopDone(s, r = "was_running")
          [] name = "stop_strict" /\ r = "error" -> StrictStopFailed(s)
          [] name \in {"stop", "stop_strict"} /\ r \in {"died", "timeout"} ->
               Cleanup(s)
          [] name = "snapshot" -> SnapshotDone(s, r)
          [] name = "set_options" -> OptionsDone(s, r)
          [] name = "halt_stop" -> HaltDone(s, r)
          [] name = "port" -> PortDone(s, r)
          [] name \in {"exec_post", "reclaim_image"} -> Advance(s)
          [] OTHER ->  \* pull, exec_pre, swap_data, remove_app
               IF r = "ok" THEN Advance(s) ELSE Fail(s)

=============================================================================
