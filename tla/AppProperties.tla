--------------------------- MODULE AppProperties ---------------------------
(***************************************************************************)
(* What one app process owes its callers, its file, the directory and the  *)
(* engine.                                                                 *)
(***************************************************************************)
EXTENDS AppServer

AtRest == p.st \in {"idle", "shutting_down"}

(* Every caller an operation keeps waiting is answered once: the one of an *)
(* operation a halt pre-empts, of one whose task died, of a failed install *)
(* included, and no event or timer answers anybody twice.                  *)
EveryCallerAnsweredOnce == callers = IF p.run.from THEN 1 ELSE 0

(* An operation reported as a success is on disk: the record the process   *)
(* holds is the one a reboot would find, whichever of the saves on its way *)
(* failed (`unsaved` in run_effects/4).                                    *)
Durable == {"install", "start", "stop", "restart", "update", "restore"}
SuccessIsOnDisk ==
    answer.value = "ok" /\ answer.op \in Durable => file = Saved(p)

(* The directory answers for the app exactly what its data implies: no     *)
(* token, DNS or ingress key outlives the fact behind it and none of them  *)
(* is missing, however an operation ended (keys/1, sync_keys/3).           *)
DirectoryFollowsData == AtRest /\ ~p.refused => p.keys = Keys(p)

(* A token opens the API only while the container it was given to is       *)
(* believed up: a crash, a failed start and a stop all revoke it.          *)
TokenOnlyWhileUp == AtRest /\ "token" \in p.keys => Alive(p)

(* A write of the options that was acknowledged stands: no restore that    *)
(* was already under way, no crash and no failed save takes it back.       *)
AckedOptionsStand ==
    acked => /\ file.ver # 0 => file.opt = "user"
             /\ AtRest /\ ~p.refused => p.opt = "user"

(* Once an uninstall has deleted the file nothing but a new install writes *)
(* one again: not a late step, a timer, a halt or a settings write.        *)
UninstalledStaysGone ==
    [][file.ver = 0 /\ file'.ver # 0 => p.run.op = "install"]_vars

(* The container that runs under the process's token runs the version the  *)
(* record names, through commits, rollbacks, snapshots that fail and halts.*)
RunsItsVersion ==
    AtRest /\ p.token /\ box.up /\ box.id = p.cid => box.ver = p.ver

(* With an engine that does what it is told and loses no event, a process  *)
(* at rest with nothing left to hear holds the container that runs, if any *)
(* does, and believes it up, or else records that a start of it failed (an *)
(* image that cannot be fetched fails the start of a running app, too).    *)
BeliefMatchesEngine ==
    p.st = "idle" /\ wire = <<>> /\ postponed = <<>> =>
        IF box.up THEN p.cid = box.id /\ (Alive(p) \/ p.ev = "failed")
        ELSE ~Running(p)

(* A container that died while the app should run, its watchdog on and an  *)
(* attempt left, has a restart waiting: none is lost to an operation that  *)
(* was in flight, to a cancelled timer or to a late event.  A death counts *)
(* one, so the count is zero again only when `settled` is handled after it.*)
NoRestartIsLost ==
    /\ p.st = "idle" /\ postponed = <<>> /\ ~inflight
    /\ p.wanted = "started" /\ p.watchdog /\ p.attempt \in 1..MaxAttempts - 1
    /\ p.ev = "exited" \/ (p.ev = "exited0" /\ ~Once)
    => p.retry # NoTimer

(* A halt that reports success left no container running: not the start it *)
(* pre-empted, nor one that had passed its check of the shutdown flag.     *)
HaltedIsDown == answer.op = "halt" /\ answer.value = "ok" => ~box.up

(* The app keeps AppPromise: whichever way a start, a halt, a crash and    *)
(* the flag cross, a halt that says ok speaks of everything that could yet *)
(* bring the app up, and no start that reads the flag later gets past it   *)
(* (shutting_down? in Vagus.App.Steps, read when a task begins; halt).     *)
Rising == p.run.step = "start" /\ p.run.task = "checked"
App == INSTANCE AppPromise WITH
    Native <- Native, inflight <- inflight, rising <- Rising, up <- box.up,
    halted <- answer = [op |-> "halt", value |-> "ok"]
KeepsAppPromise == App!Spec

(* An operation never runs beside a URL probe, so no probe of a container  *)
(* that is being replaced comes back as a strike against its successor.    *)
NoProbeBesideAnOperation == p.probing => p.st = "idle" /\ p.cid # 0

(* An operation that began ends, whatever its tasks do: each step has a    *)
(* deadline, and no sequence of outcomes loops inside an operation.        *)
EveryOperationEnds == p.st = "busy" ~> p.st # "busy"

(* An app that should run and whose container died under it comes back, or *)
(* says that it failed, or has used up its attempts.                       *)
DeadContainerComesBack ==
    AtRest /\ p.wanted = "started" /\ p.watchdog /\ Running(p) /\ ~box.up
      ~> box.up \/ p.ev = "failed" \/ p.attempt = MaxAttempts

-----------------------------------------------------------------------------
(* What the documentation says and the code does not do.                   *)

(* app-lifecycle.md: a start that dies or overruns leaves a container in   *)
(* an unknown state, "so the one recovery is a {:stop, :by_name} cleanup". *)
LostStartIsCleanedUp ==
    [][p.run.step = "start" /\ p'.st = "idle" /\ p'.ev = "failed" => ~box.up]_vars

=============================================================================
