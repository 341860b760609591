----------------------------- MODULE AppServer -----------------------------
(***************************************************************************)
(* Vagus.App.Server: one gen_statem per installed app.  It takes commands, *)
(* settings, container events, timers and the results of the task steps it *)
(* spawns, hands each to AppPolicy and AppRun, and interprets the effects. *)
(* Around it: the app's saved file, the engine with the one container of   *)
(* the app's name, the stream of container events, the task of the step in *)
(* flight, the shutdown flag, and the callers waiting for an answer.       *)
(*                                                                         *)
(* An action is one event handled to its end.  Events that reach a busy    *)
(* process are postponed; when the operation ends they are handled, in     *)
(* order, before anything newer.                                           *)
(***************************************************************************)
EXTENDS AppRun

CONSTANTS
    Commands,       \* the operations callers issue
    Installed,      \* start from an installed app rather than from no file
    DiskFails,      \* a write or a delete of the file may fail
    EngineFails,    \* a stop or a start the engine refuses
    TasksFail,      \* a task step may die or overrun its deadline
    Crashes,        \* the process may crash and be started again
    CanCorrupt,     \* a file may fail to load when the process starts
    Shutdowns,      \* the host may begin, and abandon, a shutdown
    EventsLost,     \* the engine's event stream may drop events
    Settings,       \* what callers set: a subset of {"options", "watchdog"}
    Verdicts,       \* the container has a healthcheck of its own
    MaxQueue        \* bound: events in flight or postponed, beyond which the
                    \* container stays as it is and a busy app's timers wait

ASSUME ServerAssumption ==
    /\ Commands \subseteq Ops \ {"halt"}
    /\ {Installed, DiskFails, EngineFails, TasksFail, Crashes, CanCorrupt,
        Shutdowns, EventsLost, Verdicts} \subseteq BOOLEAN
    /\ Settings \subseteq {"options", "watchdog"}
    /\ MaxQueue \in Nat

VARIABLES
    p,          \* the process: its state, data, directory keys and timers
    file,       \* the app's saved file; version 0 is no file
    box,        \* the container of the app's name; id 0 is none
    ids,        \* containers created so far
    wire,       \* container events not yet received
    postponed,  \* events received while busy, oldest first
    inflight,   \* Vagus.Host.Shutdown.in_flight?
    callers,    \* callers blocked on an operation
    answer,     \* what the last step answered, and for which operation
    acked       \* an options write was acknowledged since the last restore

vars == <<p, file, box, ids, wire, postponed, inflight, callers, answer, acked>>
outside == <<box, ids, wire, inflight>>

Saved(s) == [wanted |-> s.wanted, ver |-> s.ver, opt |-> s.opt,
             port |-> s.port, watchdog |-> s.watchdog]
Files == [wanted : Wants, ver : SavedVersions, opt : OptionValues,
          port : BOOLEAN, watchdog : BOOLEAN]
Boxes == [id : Held, up : BOOLEAN, ver : SavedVersions]
Answers == [op : Ops \cup {"none"}, value : Replies]
NoFile == Saved(Fresh)
NoBox == [id |-> 0, up |-> FALSE, ver |-> 0]
NoAnswer == [op |-> "none", value |-> "none"]

EventKinds == {"start", "exited0", "exited", "healthy", "unhealthy"}
TimerKinds == {"retry", "settled", "probe"}
Event(kind, id) == [kind |-> kind, id |-> id]
Events == [kind : EventKinds, id : Ids]
Messages == Events \cup [kind : TimerKinds, id : Held]

Args == [from : BOOLEAN, retry : BOOLEAN, starts : BOOLEAN, backup : BOOLEAN,
         options : BOOLEAN]
Called == [from |-> TRUE, retry |-> FALSE, starts |-> FALSE, backup |-> FALSE,
           options |-> FALSE]
ArgsOf(op) ==
    CASE op = "install" -> {[Called EXCEPT !.starts = b] : b \in BOOLEAN}
      [] op = "update"  -> {[Called EXCEPT !.backup = b] : b \in BOOLEAN}
      [] op = "restore" -> {[Called EXCEPT !.starts = b, !.options = TRUE] : b \in BOOLEAN}
                           \cup {[Called EXCEPT !.starts = TRUE]}
      [] OTHER -> {Called}

-----------------------------------------------------------------------------
(* A handler: the record with what it reads of its surroundings, and then  *)
(* the effects it asked for.                                               *)

Disk == IF DiskFails THEN BOOLEAN ELSE {TRUE}
Enter(disk) == [p EXCEPT !.shutting_down = inflight, !.disk = disk]

Neutral(s) == [s EXCEPT !.shutting_down = FALSE, !.disk = TRUE, !.save = FALSE,
                        !.reply = "none", !.fate = "stay"]

Unsaved(s) == IF s.save THEN ~s.disk /\ ~s.refused ELSE s.run.unsaved
InstallUnsaved(s) == s.run.op = "install" /\ Unsaved(s)
Exits(s) == s.fate = "exit" \/ InstallUnsaved(s)

(* Broken: a success is a success, on disk or not. *)
ValueIgnoresDisk(s) == IF InstallUnsaved(s) THEN "error" ELSE s.reply

(* A success whose record is not on disk is answered as a failure.         *)
Value(s) ==
    IF InstallUnsaved(s) \/ (s.reply = "ok" /\ s.run.op # "backup" /\ Unsaved(s))
    THEN "error" ELSE s.reply

After(s) ==
    CASE Exits(s) -> Fresh
      [] ~Exits(s) /\ s.fate = "stay" ->
           [Neutral(s) EXCEPT !.run.unsaved = Unsaved(s)]
      [] OTHER ->
           [Neutral(s) EXCEPT !.run = NoRun, !.retired = FALSE,
              !.st = CASE s.fate = "shutting_down" -> "shutting_down"
                       [] s.fate # "shutting_down" /\ s.refused -> "refused"
                       [] OTHER -> "idle"]

(* run_effects/4.  `waiting` callers are blocked before any is answered.   *)
Leave(s, waiting) ==
    /\ p' = After(s)
    /\ file' = CASE s.gone /\ ~p.gone -> NoFile
                 [] ~(s.gone /\ ~p.gone) /\ s.save /\ s.disk /\ ~s.refused -> Saved(s)
                 [] OTHER -> file
    /\ callers' = IF Value(s) # "none" /\ s.run.from THEN waiting - 1 ELSE waiting
    /\ answer' = IF Value(s) = "none" THEN NoAnswer
                 ELSE [op |-> s.run.op, value |-> Value(s)]

(* A handler outside any operation: it neither saves nor answers. *)
Rest(s) ==
    /\ p' = Neutral(s)
    /\ answer' = NoAnswer
    /\ UNCHANGED <<file, callers>>

(* Broken: an operation begins with a URL probe in flight. *)
BeginKeepsProbe(op, a, s) == Advance(Plan(op, a, [s EXCEPT !.st = "busy"]))

(* Broken: any operation drops the restart that was waiting. *)
BeginCancelsRetry(op, a, s) ==
    Advance(Plan(op, a, [s EXCEPT !.st = "busy", !.probing = FALSE,
                                  !.retry = NoTimer]))

(* begin_op/6: an operation never runs beside a probe, and a restart that  *)
(* was waiting is stale once anything else starts or stops the app.        *)
Begin(op, a, s) ==
    LET d == [s EXCEPT !.st = "busy", !.probing = FALSE,
                       !.retry = IF op \in {"start", "restart", "stop",
                                            "uninstall", "halt"}
                                 THEN NoTimer ELSE @]
    IN  Advance(Plan(op, a, d))

(* Nothing newer is handled while a process that is not busy still has     *)
(* postponed events.                                                       *)
Quiet == p.st = "busy" \/ postponed = <<>>

-----------------------------------------------------------------------------
(* Commands. *)

Command(op) ==
    /\ op \in Commands /\ Admitted(op, p) /\ Quiet
    /\ \E a \in ArgsOf(op), disk \in Disk :
         LET s == Enter(disk)
         IN  Leave(Begin(op, a, IF op = "uninstall" THEN [s EXCEPT !.retired = TRUE]
                                ELSE s), callers + 1)
    /\ postponed' = IF p'.st = "down" THEN <<>> ELSE postponed
    /\ acked' = (acked /\ op \notin {"restore", "install"})
    /\ UNCHANGED outside

(* Only a halt pre-empts an operation: its task is killed and its caller   *)
(* answered.  An install has nothing to stop, so the process just ends.    *)
Halt ==
    /\ inflight /\ Admitted("halt", p) /\ Quiet
    /\ answer' = IF p.st = "busy" THEN [op |-> p.run.op, value |-> "shutting_down"]
                 ELSE NoAnswer
    /\ LET owed == IF p.run.from THEN 1 ELSE 0
       IN  \/ /\ p.run.op = "install"
              /\ p' = Fresh /\ postponed' = <<>>
              /\ callers' = callers - owed
           \/ /\ p.run.op # "install"
              /\ p' = After(Begin("halt", Called, Enter(TRUE)))
              /\ callers' = callers + 1 - owed
              /\ UNCHANGED postponed
    /\ UNCHANGED <<file, box, ids, wire, inflight, acked>>

(* What boot knows of the container: what this process started and holds   *)
(* is managed; otherwise the engine's answer, or none.                     *)
BootView(reported) ==
    CASE Up(p.ev) /\ (p.token \/ Native) -> "managed"
      [] Up(p.ev) /\ ~(p.token \/ Native) -> "yes"
      [] ~Up(p.ev) /\ Native -> "no"
      [] OTHER -> reported

Reported == {"unknown", IF box.up THEN "yes" ELSE "no"}

(* boot_start when idle, resume when halted: the boot rule. *)
BootStart ==
    /\ p.st \in {"idle", "shutting_down"} /\ Quiet
    /\ \E reported \in Reported, disk \in Disk :
         LET s == [Enter(disk) EXCEPT !.st = "idle"]
             view == BootView(reported)
             rule == IF view = "managed" THEN "none" ELSE Boot(p, view)
         IN  IF s.refused
             THEN Rest([s EXCEPT !.st = "refused"])
             ELSE CASE rule = "start" -> Leave(Begin("start", Called, s), callers + 1)
                    [] rule = "demote" ->
                         Leave([s EXCEPT !.wanted = "stopped", !.retry = NoTimer,
                                         !.save = TRUE, !.fate = "idle"], callers)
                    [] OTHER -> Rest(s)
    /\ UNCHANGED <<box, ids, wire, inflight, postponed, acked>>

(* Settings are written before they are acknowledged, in any state of an   *)
(* installed app, an operation in flight included.                         *)
SetOptions ==
    /\ "options" \in Settings /\ p.ver # 0 /\ ~p.retired /\ ~p.refused /\ Quiet
    /\ LET s == [p EXCEPT !.opt = "user", !.touched = TRUE]
       IN  p' = s /\ file' = Saved(s)
    /\ acked' = TRUE /\ answer' = NoAnswer
    /\ UNCHANGED <<box, ids, wire, inflight, postponed, callers>>

SetWatchdog ==
    /\ "watchdog" \in Settings /\ p.ver # 0 /\ ~p.retired /\ ~p.refused /\ Quiet
    /\ LET s == [p EXCEPT !.watchdog = ~@,
                          !.probe = IF p.watchdog THEN FALSE ELSE @ \/ p.cid # 0]
       IN  p' = s /\ file' = Saved(s)
    /\ answer' = NoAnswer
    /\ UNCHANGED <<box, ids, wire, inflight, postponed, callers, acked>>

-----------------------------------------------------------------------------
(* Events and timers. *)

(* The restart that was waiting, for the container it was armed against. *)
RetryDue(id, s) ==
    /\ s.st = "idle" /\ s.wanted = "started" /\ ~s.shutting_down /\ id = s.cid

ProbeDue(s) == s.st = "idle" /\ s.cid # 0 /\ s.watchdog /\ ProbeUrl

(* One event handled by a process that is not busy. *)
Handle(m, s) ==
    CASE m.kind = "retry" ->
           IF RetryDue(m.id, s)
           THEN Leave(Begin("start", [Called EXCEPT !.from = FALSE, !.retry = TRUE], s),
                      callers)
           ELSE Rest(s)
      [] m.kind = "settled" ->
           Rest(IF s.st = "refused" THEN s ELSE [s EXCEPT !.attempt = 0])
      [] m.kind = "probe" -> Rest(IF ProbeDue(s) THEN [s EXCEPT !.probing = TRUE] ELSE s)
      [] OTHER -> Rest(IF s.st \in {"new", "refused"} THEN s ELSE OnEvent(m, s))

Postpone(m) ==
    /\ postponed' = Append(postponed, m)
    /\ answer' = NoAnswer
    /\ UNCHANGED <<file, callers>>

(* A container event arrives; with no process it is lost. *)
Deliver ==
    /\ wire # <<>> /\ Quiet
    /\ wire' = Tail(wire)
    /\ \/ p.st = "busy" /\ Postpone(Head(wire)) /\ UNCHANGED p
       \/ p.st = "down" /\ UNCHANGED <<p, postponed, file, callers, answer>>
       \/ /\ p.st \notin {"busy", "down"}
          /\ \E disk \in Disk : Handle(Head(wire), Enter(disk))
          /\ UNCHANGED postponed
    /\ UNCHANGED <<box, ids, inflight, acked>>

(* The operation ended: what was postponed is handled first. *)
Replay ==
    /\ p.st # "busy" /\ postponed # <<>>
    /\ postponed' = Tail(postponed)
    /\ \E disk \in Disk : Handle(Head(postponed), Enter(disk))
    /\ UNCHANGED <<box, ids, wire, inflight, acked>>

(* A timer fires.  While busy its message is postponed, and from then on   *)
(* cancelling the timer no longer takes it back.                           *)
Fires(m, d) ==
    /\ Quiet /\ p.st # "down"
    /\ \/ p.st = "busy" /\ Len(postponed) < MaxQueue /\ Postpone(m) /\ p' = d
       \/ /\ p.st # "busy"
          /\ \E disk \in Disk :
               Handle(m, [d EXCEPT !.shutting_down = inflight, !.disk = disk])
          /\ UNCHANGED postponed
    /\ UNCHANGED <<box, ids, wire, inflight, acked>>

RetryTimer ==
    p.retry # NoTimer /\ Fires(Event("retry", p.retry), [p EXCEPT !.retry = NoTimer])
SettledTimer ==
    p.settled /\ Fires(Event("settled", 0), [p EXCEPT !.settled = FALSE])
ProbeTimer ==
    p.probe /\ Fires(Event("probe", 0), [p EXCEPT !.probe = FALSE])

(* The URL probe answers, dies (a skip) or overruns its deadline (a miss). *)
ProbeAnswer ==
    /\ p.probing /\ Quiet
    /\ \E result \in {"healthy", "unhealthy", "skip"} :
         Rest(Strike(result, [Enter(TRUE) EXCEPT !.probing = FALSE]))
    /\ UNCHANGED <<box, ids, wire, inflight, postponed, acked>>

(* A slug nobody installed within the minute. *)
Expire ==
    /\ p.st = "new" /\ Quiet
    /\ p' = Fresh /\ answer' = NoAnswer
    /\ UNCHANGED <<file, box, ids, wire, postponed, inflight, callers, acked>>

-----------------------------------------------------------------------------
(* The task of the step in flight. *)

Guarded == {"ensure_image", "start"}    \* refused once a shutdown is in flight

Finished(r) ==
    /\ p' = [p EXCEPT !.run.task = r]
    /\ answer' = NoAnswer
    /\ UNCHANGED <<file, postponed, inflight, callers, acked>>

(* Broken: only the first task of a start reads the flag.                  *)
CheckOnce ==
    /\ p.run.task = "running" /\ p.run.step \in Guarded
    /\ Finished(IF inflight /\ ~Native /\ p.run.step = "ensure_image"
                THEN "shutting_down" ELSE "checked")
    /\ UNCHANGED <<box, ids, wire>>

(* Read once, when the task begins: the flag may be raised while it works. *)
Check ==
    /\ p.run.task = "running" /\ p.run.step \in Guarded
    /\ Finished(IF inflight /\ ~Native THEN "shutting_down" ELSE "checked")
    /\ UNCHANGED <<box, ids, wire>>

Works == IF p.run.step \in Guarded THEN p.run.task = "checked"
         ELSE p.run.task = "running"

Removed == /\ box' = NoBox
           /\ wire' = IF box.up THEN Append(wire, Event("exited", box.id)) ELSE wire
           /\ UNCHANGED ids

(* Steps that leave the container alone. *)
WorkElsewhere ==
    /\ Works
    /\ \/ /\ p.run.step \in {"pull", "ensure_image", "port", "snapshot",
                             "exec_pre", "swap_data", "remove_app"}
          /\ \E r \in {"ok", "error"} : Finished(r)
       \/ p.run.step = "ensure_image" /\ Finished("refused")
       \/ p.run.step \in {"exec_post", "reclaim_image"} /\ Finished("ok")
       \/ p.run.step = "set_options" /\ \E r \in {"ok", "invalid"} : Finished(r)
    /\ UNCHANGED <<box, ids, wire>>

(* Stop and remove by name.  A stop the engine refuses is tolerated unless *)
(* it is strict.                                                           *)
WorkStop ==
    /\ Works /\ p.run.step \in {"stop", "stop_strict", "stop_by_name"}
    /\ LET done == IF box.up THEN "was_running" ELSE "ok"
       IN  \/ Removed /\ Finished(done)
           \/ /\ EngineFails
              /\ Finished(IF p.run.step = "stop_strict" THEN "error" ELSE done)
              /\ UNCHANGED <<box, ids, wire>>

(* Broken: a halt stops only the container the process already knows of. *)
WorkHaltHeld ==
    /\ Works /\ p.run.step = "halt_stop"
    /\ Finished("ok")
    /\ box' = [box EXCEPT !.up = @ /\ box.id # p.cid]
    /\ wire' = IF box.up /\ box.id = p.cid THEN Append(wire, Event("exited", box.id))
               ELSE wire
    /\ UNCHANGED ids

(* A halt stops the container and leaves it for the next boot to replace. *)
WorkHalt ==
    /\ Works /\ p.run.step = "halt_stop"
    /\ \/ /\ Finished("ok")
          /\ box' = [box EXCEPT !.up = FALSE]
          /\ wire' = IF box.up THEN Append(wire, Event("exited", box.id)) ELSE wire
          /\ UNCHANGED ids
       \/ EngineFails /\ Finished("error") /\ UNCHANGED <<box, ids, wire>>

(* A start replaces the container: it may fail before it removes the old   *)
(* one, or after; one that fails to start is removed again.                *)
WorkStart ==
    /\ Works /\ p.run.step = "start"
    /\ \/ /\ ids < MaxId
          /\ ids' = ids + 1
          /\ box' = [id |-> ids + 1, up |-> TRUE, ver |-> p.ver]
          /\ wire' = wire \o (IF box.up THEN <<Event("exited", box.id)>> ELSE <<>>)
                          \o (IF Native THEN <<>> ELSE <<Event("start", ids + 1)>>)
          /\ Finished("ok")
       \/ EngineFails /\ Finished("error") /\ UNCHANGED <<box, ids, wire>>
       \/ (EngineFails \/ ids = MaxId) /\ Finished("error") /\ Removed

(* Its result arrives. *)
Done ==
    /\ p.run.task \in Outcomes
    /\ \E disk \in Disk :
         Leave(Settle(Enter(disk), p.run.task, box.id), callers)
    /\ postponed' = IF p'.st = "down" THEN <<>> ELSE postponed
    /\ UNCHANGED <<box, ids, wire, inflight, acked>>

(* It dies, or its deadline passes and it is killed, whatever it had done. *)
TaskLost ==
    /\ TasksFail /\ p.st = "busy"
    /\ \E disk \in Disk, r \in {"died", "timeout"} :
         Leave(Settle(Enter(disk), r, 0), callers)
    /\ postponed' = IF p'.st = "down" THEN <<>> ELSE postponed
    /\ UNCHANGED <<box, ids, wire, inflight, acked>>

-----------------------------------------------------------------------------
(* The surroundings. *)

Room == Len(wire) + Len(postponed) < MaxQueue

(* The container exits of itself. *)
BoxDies ==
    /\ box.up /\ Room
    /\ box' = [box EXCEPT !.up = FALSE]
    /\ \E kind \in {"exited0", "exited"} : wire' = Append(wire, Event(kind, box.id))
    /\ answer' = NoAnswer
    /\ UNCHANGED <<p, file, ids, postponed, inflight, callers, acked>>

(* The container's own healthcheck gives a verdict. *)
BoxHealth ==
    /\ Verdicts /\ box.up /\ Room /\ ~Native
    /\ \E kind \in {"healthy", "unhealthy"} : wire' = Append(wire, Event(kind, box.id))
    /\ answer' = NoAnswer
    /\ UNCHANGED <<p, file, box, ids, postponed, inflight, callers, acked>>

Lose ==
    /\ EventsLost /\ wire # <<>>
    /\ wire' = Tail(wire) /\ answer' = NoAnswer
    /\ UNCHANGED <<p, file, box, ids, postponed, inflight, callers, acked>>

BeginShutdown ==
    /\ Shutdowns /\ ~inflight
    /\ inflight' = TRUE /\ answer' = NoAnswer
    /\ UNCHANGED <<p, file, box, ids, wire, postponed, callers, acked>>

(* The runtime call failed: the device is not going down after all. *)
AbandonShutdown ==
    /\ inflight
    /\ inflight' = FALSE /\ answer' = NoAnswer
    /\ UNCHANGED <<p, file, box, ids, wire, postponed, callers, acked>>

(* The process crashes: its task dies with it, its keys are released and   *)
(* the callers it owed an answer see it go.                                *)
Crash ==
    /\ Crashes /\ p.st # "down"
    /\ p' = Fresh /\ postponed' = <<>> /\ callers' = 0 /\ answer' = NoAnswer
    /\ UNCHANGED <<file, box, ids, wire, inflight, acked>>

(* init/1: the saved half of the data, and the keys it implies.  A dynamic *)
(* port another app took meanwhile is given up, which must be on disk.     *)
Loaded(port) ==
    LET s == [Fresh EXCEPT !.wanted = file.wanted, !.ver = file.ver,
                           !.opt = file.opt, !.watchdog = file.watchdog,
                           !.port = port,
                           !.st = IF inflight THEN "shutting_down" ELSE "idle"]
    IN  [s EXCEPT !.keys = Keys(s)]

Spawn ==
    /\ p.st = "down" /\ answer' = NoAnswer
    /\ \/ /\ file.ver = 0
          /\ p' = [Fresh EXCEPT !.st = "new"]
          /\ UNCHANGED file
       \/ /\ file.ver # 0
          /\ p' = Loaded(file.port) /\ UNCHANGED file
       \/ /\ file.ver # 0 /\ file.port /\ Crashes
          /\ p' = Loaded(FALSE) /\ file' = Saved(p')
       \/ /\ file.ver # 0 /\ CanCorrupt
          /\ p' = [Fresh EXCEPT !.st = "refused", !.refused = TRUE, !.ver = 1]
          /\ UNCHANGED file
    /\ UNCHANGED <<box, ids, wire, postponed, inflight, callers, acked>>

-----------------------------------------------------------------------------

TypeOK ==
    /\ p \in Procs
    /\ file \in Files
    /\ box \in Boxes
    /\ ids \in 0..MaxId
    /\ wire \in Seq(Events)
    /\ postponed \in Seq(Messages)
    /\ inflight \in BOOLEAN /\ acked \in BOOLEAN
    /\ callers \in Int
    /\ answer \in Answers

InstalledFile ==
    [wanted |-> "started", ver |-> 1, opt |-> "default", port |-> FALSE,
     watchdog |-> TRUE]

Init ==
    /\ p = Fresh
    /\ file = IF Installed THEN InstalledFile ELSE NoFile
    /\ box = NoBox /\ ids = 0
    /\ wire = <<>> /\ postponed = <<>>
    /\ inflight = FALSE /\ callers = 0
    /\ answer = NoAnswer /\ acked = FALSE

TaskStep == Check \/ WorkElsewhere \/ WorkStop \/ WorkHalt \/ WorkStart
TimerStep == RetryTimer \/ SettledTimer \/ ProbeTimer
Surroundings == BoxDies \/ BoxHealth \/ Lose \/ BeginShutdown \/ AbandonShutdown

Next ==
    \/ \E op \in Commands : Command(op)
    \/ Halt \/ BootStart \/ SetOptions \/ SetWatchdog
    \/ Deliver \/ Replay \/ TimerStep \/ ProbeAnswer \/ Expire
    \/ TaskStep \/ Done \/ TaskLost
    \/ Surroundings \/ Crash \/ Spawn

Spec == Init /\ [][Next]_vars

(* Every step has a deadline, after which it is over one way or another;   *)
(* the process handles what reaches it; a timer that is armed fires; the   *)
(* engine delivers its events; a supervisor starts a process that went.    *)
(* The first three are weak fairness with its enabling condition written   *)
(* out: TLC evaluates ENABLED of a whole handler without sharing.          *)
StepDue == Works \/ p.run.task \in Outcomes \cup {"running"}
EventDue == (wire # <<>> /\ Quiet) \/ (p.st # "busy" /\ postponed # <<>>)
RetryTimerDue ==
    /\ p.retry # NoTimer /\ Quiet /\ p.st # "down"
    /\ p.st = "busy" => Len(postponed) < MaxQueue

Fairness ==
    /\ []<>~StepDue \/ []<><<TaskStep \/ Done>>_vars
    /\ []<>~EventDue \/ []<><<Deliver \/ Replay>>_vars
    /\ []<>~RetryTimerDue \/ []<><<RetryTimer>>_vars
    /\ WF_vars(Spawn)

FairSpec == Spec /\ Fairness

=============================================================================
