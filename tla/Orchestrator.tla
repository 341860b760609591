---------------------------- MODULE Orchestrator ----------------------------
(***************************************************************************)
(* Vagus.App.Orchestrator, the GenServer that brings the apps and Core up  *)
(* at boot and down at shutdown, with Vagus.Host.Shutdown, which asks for  *)
(* the stop, and the tasks between them: the boot task (linked to the      *)
(* orchestrator), the stop tasks and the units (linked to nothing).        *)
(*                                                                         *)
(* An app is what AppServer promises of it: a start is refused once the    *)
(* shutdown flag is up, a halt pre-empts a start, and a halted app waits   *)
(* for the boot rule.  Every app here is wanted started.                   *)
(***************************************************************************)
EXTENDS Integers, Sequences, FiniteSets

CONSTANTS
    Apps,             \* app slugs
    NativeApps,       \* those that run in the BEAM: never halted
    OnceApps,         \* startup: once, started and not awaited
    Defaults,         \* default apps not yet installed
    StageOf,          \* config.startup as a stage
    Agent,            \* the agent-dev-board flavor
    Boots,            \* boot: true
    GateTries,        \* gate_tries: 60 in the code
    FatalGates,       \* a gate may answer {:fatal, _}
    NoPrimary,        \* the primary interface may be missing
    Overruns,         \* a stage may outlast stage_timeout
    BudgetRunsOut,    \* the host may give up on the stop
    Crashes,          \* the orchestrator or its boot task may crash
    Failures,         \* a start, a halt or Core's stop may fail
    MaxShutdowns,     \* bound: shutdowns asked for
    MaxRestarts       \* bound: crashes of the orchestrator and of app processes

Gates == {"tree", "patches", "engine", "network", "dist", "api"}
AppStages == {"initialize", "system", "services", "application"}
Stages == <<"initialize", "system", "services", "core", "application">>
AppOrder == <<"initialize", "system", "services", "application">>

CoreUnit == "core"      \* what `units` holds of Core, beside the apps

ASSUME AppsAssumption ==
    /\ IsFiniteSet(Apps)
    /\ NativeApps \subseteq Apps /\ OnceApps \subseteq Apps /\ Defaults \subseteq Apps
    /\ StageOf \in [Apps -> AppStages]
    /\ CoreUnit \notin Apps
ASSUME SwitchesAssumption ==
    {Agent, Boots, FatalGates, NoPrimary, Overruns, BudgetRunsOut, Crashes,
     Failures} \subseteq BOOLEAN
ASSUME NumbersAssumption ==
    GateTries \in Nat \ {0} /\ MaxShutdowns \in Nat /\ MaxRestarts \in Nat

VARIABLES
    orch,       \* the GenServer's state; phase "down" between two incarnations
    mailbox,    \* its messages, oldest first
    boot,       \* the boot task
    stops,      \* the stop task of each shutdown asked for, orphans included
    units,      \* what the boot task and `up` spawned and is still at work
    app,        \* each app, as far as boot and shutdown see it
    core,       \* Home Assistant Core and its lifecycle lock
    host,       \* the caller of Vagus.Host.Shutdown
    inflight,   \* Vagus.Host.Shutdown.in_flight?
    restarts    \* crashes so far

vars == <<orch, mailbox, boot, stops, units, app, core, host, inflight, restarts>>

Shutdowns == 1..MaxShutdowns

(* task: 0 is none, -1 the boot task, n the stop task of shutdown n. *)
Orchs == [phase : {"down", "up", "booting", "cancelling", "stopping"},
          task : -1..MaxShutdowns, waiters : SUBSET Shutdowns,
          resume : BOOLEAN, complete : BOOLEAN]
Down == [phase |-> "down", task |-> 0, waiters |-> {}, resume |-> FALSE,
         complete |-> FALSE]

StepNames == Gates \cup AppStages \cup {"defaults", "native", "install", "core"}

Plan ==
    LET patches == IF Agent THEN <<"patches">> ELSE <<>>
        dist == IF Agent THEN <<"dist">> ELSE <<>>
    IN  <<"defaults", "tree">> \o patches \o <<"native", "engine", "network">>
        \o dist \o <<"api", "install">> \o Stages

(* at: idle, running (at a step boundary), decided (past one, with what    *)
(* becomes of the app stages settled), gate, awaiting, primary.            *)
(* `ran` is the stages this boot has started, for the properties.          *)
BootTasks == [at : {"idle", "running", "decided", "gate", "awaiting", "primary"},
           steps : Seq(StepNames), put_off : Seq(AppStages),
           decided : {"undecided", "run", "put_off"}, tries : 0..GateTries,
           awaited : SUBSET (Apps \cup {CoreUnit}), cancel : BOOLEAN,
           ran : Seq(StepNames)]
NoBoot == [at |-> "idle", steps |-> <<>>, put_off |-> <<>>, decided |-> "undecided",
           tries |-> 0, awaited |-> {}, cancel |-> FALSE, ran |-> <<>>]
RunBoot == [NoBoot EXCEPT !.at = "running", !.steps = Plan]

(* The groups a stop still has to go through, and whether all went well.   *)
NoStop == [at |-> "none", ok |-> TRUE]
StopTasks == [at : {"none", "apps", "core", "earlier", "done"}, ok : BOOLEAN]

AppStates == [present : BOOLEAN, ruled : BOOLEAN, halted : BOOLEAN,
              starting : BOOLEAN, up : BOOLEAN]

BootEnds == {"complete", "cancelled", "halted", "crashed"}
Messages == [kind : {"shutdown", "stopped"}, arg : Shutdowns]
            \cup [kind : {"up"}, arg : Apps]
            \cup [kind : {"resume"} \cup BootEnds, arg : {0}]
Message(kind, n) == [kind |-> kind, arg |-> n]
Send(m) == mailbox' = Append(mailbox, m)
Received(kind) == mailbox # <<>> /\ Head(mailbox).kind = kind /\ orch.phase # "down"

-----------------------------------------------------------------------------
(* The GenServer.  Each handler takes the head of the mailbox. *)

(* begin_stop/1 and boot/1, as what they leave of state, boot and stops.   *)
BeginStop(s, n) ==
    /\ orch' = [s EXCEPT !.phase = "stopping", !.task = n]
    /\ stops' = [stops EXCEPT ![n] = [at |-> "apps", ok |-> TRUE]]

BeginBoot(s) ==
    IF Boots THEN orch' = [s EXCEPT !.phase = "booting", !.task = -1] /\ boot' = RunBoot
    ELSE orch' = [s EXCEPT !.phase = "up"] /\ UNCHANGED boot

(* init/1 and handle_continue/2: restarted mid-shutdown, it does not boot. *)
Start ==
    /\ orch.phase = "down"
    /\ IF inflight THEN orch' = [Down EXCEPT !.phase = "stopping"] /\ UNCHANGED boot
       ELSE BeginBoot(Down)
    /\ UNCHANGED <<mailbox, stops, units, app, core, host, inflight, restarts>>

Latest(waiters) == CHOOSE n \in waiters : \A k \in waiters : k <= n

(* Broken: stops at once, beside a boot in flight. *)
HandleShutdownAtOnce ==
    /\ Received("shutdown")
    /\ LET n == Head(mailbox).arg
           joined == orch.phase \in {"stopping", "cancelling"} /\ orch.task # 0
       IN  CASE joined ->
                  /\ orch' = [orch EXCEPT !.waiters = @ \cup {n}]
                  /\ UNCHANGED <<boot, stops>>
             [] OTHER -> BeginStop([orch EXCEPT !.waiters = {n}], n) /\ UNCHANGED boot
    /\ mailbox' = Tail(mailbox)
    /\ UNCHANGED <<units, app, core, host, inflight, restarts>>

HandleShutdown ==
    /\ Received("shutdown")
    /\ LET n == Head(mailbox).arg
           joined == orch.phase \in {"stopping", "cancelling"} /\ orch.task # 0
       IN  CASE joined ->
                  /\ orch' = [orch EXCEPT !.waiters = @ \cup {n}]
                  /\ UNCHANGED <<boot, stops>>
             [] ~joined /\ orch.phase = "booting" ->
                  /\ orch' = [orch EXCEPT !.waiters = {n}, !.phase = "cancelling"]
                  /\ boot' = [boot EXCEPT !.cancel = TRUE]
                  /\ UNCHANGED stops
             [] OTHER -> BeginStop([orch EXCEPT !.waiters = {n}], n) /\ UNCHANGED boot
    /\ mailbox' = Tail(mailbox)
    /\ UNCHANGED <<units, app, core, host, inflight, restarts>>

HandleResume ==
    /\ Received("resume")
    /\ CASE orch.phase = "stopping" /\ orch.task = 0 -> BeginBoot(orch)
         [] orch.phase = "cancelling" \/ (orch.phase = "stopping" /\ orch.task # 0) ->
              orch' = [orch EXCEPT !.resume = TRUE] /\ UNCHANGED boot
         [] OTHER -> UNCHANGED <<orch, boot>>
    /\ mailbox' = Tail(mailbox)
    /\ UNCHANGED <<stops, units, app, core, host, inflight, restarts>>

(* Broken: the announcement is taken inside a boot and not after it. *)
HandleUpInBoot ==
    /\ Received("up")
    /\ units' = IF orch.phase = "booting" /\ Boots THEN units \cup {Head(mailbox).arg}
                ELSE units
    /\ mailbox' = Tail(mailbox)
    /\ UNCHANGED <<orch, boot, stops, app, core, host, inflight, restarts>>

(* Only once boot is over: a process that restarts inside it is covered by *)
(* its stage, if that has not run yet.                                     *)
HandleUp ==
    /\ Received("up")
    /\ units' = IF orch.phase = "up" /\ Boots THEN units \cup {Head(mailbox).arg}
                ELSE units
    /\ mailbox' = Tail(mailbox)
    /\ UNCHANGED <<orch, boot, stops, app, core, host, inflight, restarts>>

(* Broken: the shutdown that cancelled the boot is forgotten. *)
HandleBootEndForgets ==
    /\ \E result \in BootEnds :
         /\ Received(result) /\ (orch.phase = "booting" => result # "crashed")
         /\ LET s == [orch EXCEPT !.task = 0]
            IN  orch' = [s EXCEPT !.phase = "up", !.complete = @ \/ result = "complete"]
         /\ UNCHANGED stops
    /\ mailbox' = Tail(mailbox)
    /\ UNCHANGED <<boot, units, app, core, host, inflight, restarts>>

(* The boot task ended: finish/2.  After a cancel the stop begins, however *)
(* it ended.                                                               *)
HandleBootEnd ==
    /\ \E result \in BootEnds :
         /\ Received(result) /\ (orch.phase = "booting" => result # "crashed")
         /\ LET s == [orch EXCEPT !.task = 0]
            IN  IF orch.phase = "cancelling"
                THEN BeginStop(s, Latest(orch.waiters))
                ELSE /\ orch' = [s EXCEPT !.phase = "up",
                                          !.complete = @ \/ result = "complete"]
                     /\ UNCHANGED stops
    /\ mailbox' = Tail(mailbox)
    /\ UNCHANGED <<boot, units, app, core, host, inflight, restarts>>

(* The stop task ended: every waiter is answered, and a remembered resume  *)
(* boots.  The result of any task but its own is ignored.                  *)
HandleStopEnd ==
    /\ Received("stopped")
    /\ LET n == Head(mailbox).arg
           s == [orch EXCEPT !.task = 0, !.waiters = {}, !.resume = FALSE]
       IN  IF orch.task # n THEN UNCHANGED <<orch, boot, host>>
           ELSE /\ host' = IF host.st = "calling" /\ host.n \in orch.waiters
                           THEN [host EXCEPT !.st = "runtime", !.ok = stops[n].ok]
                           ELSE host
                /\ IF orch.resume THEN BeginBoot(s) ELSE orch' = s /\ UNCHANGED boot
    /\ mailbox' = Tail(mailbox)
    /\ UNCHANGED <<stops, units, app, core, inflight, restarts>>

(* It goes down: the boot task is linked to it, the stop tasks and units   *)
(* are not, and a caller blocked on it sees it go.                         *)
GoDown ==
    /\ orch' = Down /\ mailbox' = <<>> /\ boot' = NoBoot
    /\ host' = IF host.st = "calling" THEN [host EXCEPT !.st = "runtime", !.ok = FALSE]
               ELSE host
    /\ UNCHANGED <<stops, units, app, core, inflight>>

(* {:stop, {:boot_crashed, _}}: the restart simply boots again. *)
HandleBootCrash ==
    /\ Received("crashed") /\ orch.phase = "booting"
    /\ GoDown /\ UNCHANGED restarts

Crash ==
    /\ Crashes /\ orch.phase # "down" /\ restarts < MaxRestarts
    /\ GoDown /\ restarts' = restarts + 1

-----------------------------------------------------------------------------
(* The boot task: run_boot/1. *)

InStage(stage) ==
    {a \in Apps : /\ app[a].present
                  /\ IF stage = "native" THEN a \in NativeApps ELSE StageOf[a] = stage}

EndBoot(result) == Send(Message(result, 0)) /\ boot' = NoBoot

BootCrashes ==
    /\ Crashes /\ restarts < MaxRestarts /\ boot.at # "idle"
    /\ EndBoot("crashed") /\ restarts' = restarts + 1
    /\ UNCHANGED <<orch, stops, units, app, core, host, inflight>>

(* A step boundary: before a step, and while a gate waits out its interval. *)
(* The decision of the first app stage is taken past its boundary, so that  *)
(* a cancel that comes during it waits for the next one.                    *)
Checkpoint == ~boot.cancel
PastBoundary == boot.at = "decided" \/ (boot.at = "running" /\ Checkpoint)
Cancelled ==
    /\ boot.at # "idle" /\ boot.cancel
    /\ \/ boot.at = "running" /\ boot.steps # <<>> /\ Head(boot.steps) # "defaults"
       \/ boot.at = "gate" /\ boot.tries > 0
       \/ boot.at = "primary" /\ boot.tries > 0
    /\ EndBoot("cancelled")
    /\ UNCHANGED <<orch, stops, units, app, core, host, inflight, restarts>>

Proceed == [boot EXCEPT !.at = "running", !.steps = Tail(@), !.tries = 0, !.awaited = {}]

(* The native default apps, before the plan and without a boundary. *)
InstallNative ==
    /\ boot.at = "running" /\ boot.steps # <<>> /\ Head(boot.steps) = "defaults"
    /\ \E done \in IF Failures THEN SUBSET (Defaults \cap NativeApps)
                   ELSE {Defaults \cap NativeApps} :
         app' = [a \in Apps |-> IF a \in done
                                THEN [app[a] EXCEPT !.present = TRUE] ELSE app[a]]
    /\ boot' = Proceed
    /\ UNCHANGED <<orch, mailbox, stops, units, core, host, inflight, restarts>>

(* Whether apps wait for the primary interface is decided once, at the     *)
(* first app stage; put-off stages keep their order.                       *)
Decide ==
    /\ boot.at = "running" /\ boot.steps # <<>> /\ Checkpoint
    /\ Head(boot.steps) \in AppStages /\ boot.decided = "undecided"
    /\ \E primary \in IF NoPrimary THEN BOOLEAN ELSE {TRUE} :
         boot' = [boot EXCEPT !.at = "decided", !.decided = IF primary THEN "run" ELSE "put_off"]
    /\ UNCHANGED <<orch, mailbox, stops, units, app, core, host, inflight, restarts>>

(* Broken: the last stage put off comes first. *)
PutOffReversed ==
    /\ PastBoundary /\ boot.steps # <<>>
    /\ Head(boot.steps) \in AppStages /\ boot.decided = "put_off"
    /\ boot' = [Proceed EXCEPT !.put_off = <<Head(boot.steps)>> \o @]
    /\ UNCHANGED <<orch, mailbox, stops, units, app, core, host, inflight, restarts>>

PutOff ==
    /\ PastBoundary /\ boot.steps # <<>>
    /\ Head(boot.steps) \in AppStages /\ boot.decided = "put_off"
    /\ boot' = [Proceed EXCEPT !.put_off = Append(@, Head(boot.steps))]
    /\ UNCHANGED <<orch, mailbox, stops, units, app, core, host, inflight, restarts>>

EnterGate ==
    /\ boot.at = "running" /\ boot.steps # <<>> /\ Checkpoint
    /\ Head(boot.steps) \in Gates
    /\ boot' = [boot EXCEPT !.at = "gate"]
    /\ UNCHANGED <<orch, mailbox, stops, units, app, core, host, inflight, restarts>>

(* Broken: the tries of a gate are counted one too far. *)
GateWithoutEnd ==
    /\ boot.at = "gate" /\ (boot.tries > 0 => Checkpoint)
    /\ LET last == boot.tries > GateTries
           required == Head(boot.steps) = "dist"
       IN  \/ boot' = Proceed /\ UNCHANGED mailbox
           \/ FatalGates /\ EndBoot("halted")
           \/ last /\ required /\ EndBoot("halted")
           \/ ~last /\ boot' = [boot EXCEPT !.tries = @ + 1] /\ UNCHANGED mailbox
    /\ UNCHANGED <<orch, stops, units, app, core, host, inflight, restarts>>

(* gate/4: a check passes, is fatal, or fails and is tried again; out of   *)
(* tries a gate is carried past, unless it is required.                    *)
Gate ==
    /\ boot.at = "gate" /\ (boot.tries > 0 => Checkpoint)
    /\ LET last == boot.tries + 1 >= GateTries
           required == Head(boot.steps) = "dist"
       IN  \/ boot' = Proceed /\ UNCHANGED mailbox
           \/ FatalGates /\ EndBoot("halted")
           \/ last /\ required /\ EndBoot("halted")
           \/ ~last /\ boot' = [boot EXCEPT !.tries = @ + 1] /\ UNCHANGED mailbox
    /\ UNCHANGED <<orch, stops, units, app, core, host, inflight, restarts>>

(* The container default apps: units that are never awaited. *)
InstallContainers ==
    /\ boot.at = "running" /\ boot.steps # <<>> /\ Checkpoint
    /\ Head(boot.steps) = "install"
    /\ units' = units \cup {a \in Defaults \ NativeApps : ~app[a].present}
    /\ boot' = Proceed
    /\ UNCHANGED <<orch, mailbox, stops, app, core, host, inflight, restarts>>

(* A stage spawns its units and awaits all but the once apps'. *)
Stage ==
    /\ PastBoundary /\ boot.steps # <<>>
    /\ LET stage == Head(boot.steps)
           spawned == CASE stage = "core" /\ ~Agent -> {CoreUnit}
                        [] stage = "core" /\ Agent -> {}
                        [] OTHER -> InStage(stage)
       IN  /\ stage \in AppStages \cup {"native", "core"}
           /\ stage \in AppStages => boot.decided = "run"
           /\ units' = units \cup spawned
           /\ boot' = [boot EXCEPT !.at = "awaiting", !.awaited = spawned \ OnceApps,
                                   !.ran = Append(@, stage)]
    /\ UNCHANGED <<orch, mailbox, stops, app, core, host, inflight, restarts>>

(* Each awaited up to its budget, then carried past. *)
Awaited ==
    /\ boot.at = "awaiting" /\ (boot.awaited \cap units = {} \/ Overruns)
    /\ boot' = Proceed
    /\ UNCHANGED <<orch, mailbox, stops, units, app, core, host, inflight, restarts>>

(* The stages that were put off run after the rest, once the interface is  *)
(* there or primary_timeout has passed.                                    *)
AwaitPrimary ==
    /\ boot.at = "running" /\ boot.steps = <<>> /\ boot.put_off # <<>>
    /\ boot' = [boot EXCEPT !.at = "primary", !.tries = 0]
    /\ UNCHANGED <<orch, mailbox, stops, units, app, core, host, inflight, restarts>>

Primary ==
    /\ boot.at = "primary" /\ (boot.tries > 0 => Checkpoint)
    /\ \/ boot' = [boot EXCEPT !.at = "running", !.steps = boot.put_off,
                               !.put_off = <<>>, !.decided = "run", !.tries = 0]
       \/ boot.tries + 1 < GateTries /\ boot' = [boot EXCEPT !.tries = @ + 1]
    /\ UNCHANGED <<orch, mailbox, stops, units, app, core, host, inflight, restarts>>

PushComplete ==
    /\ boot.at = "running" /\ boot.steps = <<>> /\ boot.put_off = <<>>
    /\ EndBoot("complete")
    /\ UNCHANGED <<orch, stops, units, app, core, host, inflight, restarts>>

-----------------------------------------------------------------------------
(* The units. *)

(* Broken: the start does not read the shutdown flag. *)
UnitCallsUnflagged(a) ==
    /\ a \in units \cap Apps /\ ~app[a].starting
    /\ LET starts == ~app[a].up
       IN  /\ app' = [app EXCEPT ![a] = [@ EXCEPT !.present = TRUE, !.ruled = TRUE,
                                                  !.halted = FALSE, !.starting = starts]]
           /\ units' = IF starts THEN units ELSE units \ {a}
    /\ UNCHANGED <<orch, mailbox, boot, stops, core, host, inflight, restarts>>

(* Broken: boot_start is not followed by the resume a halted app asks for. *)
UnitCallsLeavesHalted(a) ==
    /\ a \in units \cap Apps /\ ~app[a].starting
    /\ LET starts == ~app[a].up /\ ~app[a].halted /\ (a \in NativeApps \/ ~inflight)
       IN  /\ app' = [app EXCEPT ![a] = [@ EXCEPT !.present = TRUE, !.ruled = TRUE,
                                                  !.starting = starts]]
           /\ units' = IF starts THEN units ELSE units \ {a}
    /\ UNCHANGED <<orch, mailbox, boot, stops, core, host, inflight, restarts>>

(* boot_start, which resumes a halted app, or an install and its start.    *)
(* The start reads the shutdown flag; an app that is up is left alone.     *)
UnitCalls(a) ==
    /\ a \in units \cap Apps /\ ~app[a].starting
    /\ LET starts == ~app[a].up /\ (a \in NativeApps \/ ~inflight)
       IN  /\ app' = [app EXCEPT ![a] = [@ EXCEPT !.present = TRUE, !.ruled = TRUE,
                                                  !.halted = FALSE, !.starting = starts]]
           /\ units' = IF starts THEN units ELSE units \ {a}
    /\ UNCHANGED <<orch, mailbox, boot, stops, core, host, inflight, restarts>>

(* A container default's install that fails is tried at the next boot. *)
InstallFails(a) ==
    /\ Failures /\ a \in units \cap Apps /\ ~app[a].present
    /\ units' = units \ {a}
    /\ UNCHANGED <<orch, mailbox, boot, stops, app, core, host, inflight, restarts>>

UnitReturns(a) ==
    /\ app[a].starting
    /\ \E up \in IF Failures THEN BOOLEAN ELSE {TRUE} :
         app' = [app EXCEPT ![a] = [@ EXCEPT !.starting = FALSE, !.up = up]]
    /\ units' = units \ {a}
    /\ UNCHANGED <<orch, mailbox, boot, stops, core, host, inflight, restarts>>

(* Core's start takes its lifecycle lock and holds it to the end. *)
CoreLocks ==
    /\ CoreUnit \in units /\ ~core.locked
    /\ core' = [core EXCEPT !.locked = TRUE]
    /\ UNCHANGED <<orch, mailbox, boot, stops, units, app, host, inflight, restarts>>

CoreStarted ==
    /\ core.locked
    /\ \E up \in IF Failures THEN BOOLEAN ELSE {TRUE} :
         core' = [up |-> up, locked |-> FALSE]
    /\ units' = units \ {CoreUnit}
    /\ UNCHANGED <<orch, mailbox, boot, stops, app, host, inflight, restarts>>

(* An app process crashes and restarts, announcing itself.  Inside a boot  *)
(* the announcement is ignored by design, so only the rest is modelled.    *)
AppRestarts(a) ==
    /\ restarts < MaxRestarts /\ orch.phase \in {"up", "stopping"} /\ app[a].present
    /\ restarts' = restarts + 1
    /\ app' = [app EXCEPT ![a] = [@ EXCEPT !.ruled = FALSE, !.starting = FALSE,
                                           !.up = app[a].up /\ a \notin NativeApps,
                                           !.halted = inflight]]
    /\ units' = IF app[a].starting THEN units \ {a} ELSE units
    /\ Send(Message("up", a))
    /\ UNCHANGED <<orch, boot, stops, core, host, inflight>>

-----------------------------------------------------------------------------
(* A stop task: run_stop/2. *)

(* stop_all/2: every app of the group is halted, which pre-empts a start   *)
(* and its unit; one that fails or overruns the group's budget may run on. *)
HaltGroup(n, group, next) ==
    \E done \in IF Failures THEN SUBSET group ELSE {group} :
        /\ app' = [a \in Apps |->
                     IF a \in done
                     THEN [app[a] EXCEPT !.halted = TRUE, !.starting = FALSE, !.up = FALSE]
                     ELSE app[a]]
        /\ units' = units \ {a \in done : app[a].starting}
        /\ stops' = [stops EXCEPT ![n] = [at |-> next, ok |-> @.ok /\ done = group]]

Containers == {a \in Apps : app[a].present} \ NativeApps
Applications == {a \in Containers : StageOf[a] = "application"}

StopApps(n) ==
    /\ stops[n].at = "apps"
    /\ HaltGroup(n, Applications, "core")
    /\ UNCHANGED <<orch, mailbox, boot, core, host, inflight, restarts>>

(* It rides out the lifecycle lock, up to its deadline. *)
StopCore(n) ==
    /\ stops[n].at = "core"
    /\ \/ /\ ~core.locked
          /\ core' = [core EXCEPT !.up = FALSE]
          /\ stops' = [stops EXCEPT ![n].at = "earlier"]
       \/ /\ core.locked \/ Failures
          /\ stops' = [stops EXCEPT ![n] = [at |-> "earlier", ok |-> FALSE]]
          /\ UNCHANGED core
    /\ UNCHANGED <<orch, mailbox, boot, units, app, host, inflight, restarts>>

StopEarlier(n) ==
    /\ stops[n].at = "earlier"
    /\ HaltGroup(n, Containers \ Applications, "done")
    /\ IF orch.task = n THEN Send(Message("stopped", n)) ELSE UNCHANGED mailbox
    /\ UNCHANGED <<orch, boot, core, host, inflight, restarts>>

(* A crash of the task, seen by an orchestrator still waiting on it. *)
StopCrashes(n) ==
    /\ Crashes /\ restarts < MaxRestarts /\ stops[n].at \in {"apps", "core", "earlier"}
    /\ stops' = [stops EXCEPT ![n] = [at |-> "done", ok |-> FALSE]]
    /\ IF orch.task = n THEN Send(Message("stopped", n)) ELSE UNCHANGED mailbox
    /\ restarts' = restarts + 1
    /\ UNCHANGED <<orch, boot, units, app, core, host, inflight>>

-----------------------------------------------------------------------------
(* Vagus.Host.Shutdown: one at a time, under its lock. *)

(* The flag goes up before the orchestrator is asked. *)
RaiseFlag ==
    /\ host.st = "idle" /\ host.n < MaxShutdowns
    /\ host' = [st |-> "asking", n |-> host.n + 1, ok |-> FALSE]
    /\ inflight' = TRUE
    /\ UNCHANGED <<orch, mailbox, boot, stops, units, app, core, restarts>>

(* With no orchestrator to ask the call fails at once. *)
AskShutdown ==
    /\ host.st = "asking"
    /\ IF orch.phase = "down"
       THEN host' = [host EXCEPT !.st = "runtime"] /\ UNCHANGED mailbox
       ELSE host' = [host EXCEPT !.st = "calling"] /\ Send(Message("shutdown", host.n))
    /\ UNCHANGED <<orch, boot, stops, units, app, core, inflight, restarts>>

(* Its own budget is over, or its call crashed: on to the runtime call. *)
GiveUp ==
    /\ BudgetRunsOut /\ host.st = "calling"
    /\ host' = [host EXCEPT !.st = "runtime", !.ok = FALSE]
    /\ UNCHANGED <<orch, mailbox, boot, stops, units, app, core, inflight, restarts>>

(* The runtime call failed, so the device stays up: the flag comes off,    *)
(* and then the orchestrator is told to boot again, if there is one.       *)
RuntimeFails ==
    /\ host.st = "runtime"
    /\ host' = [host EXCEPT !.st = "resuming", !.ok = FALSE]
    /\ inflight' = FALSE
    /\ UNCHANGED <<orch, mailbox, boot, stops, units, app, core, restarts>>

Resume ==
    /\ host.st = "resuming"
    /\ host' = [host EXCEPT !.st = "idle"]
    /\ IF orch.phase = "down" THEN UNCHANGED mailbox ELSE Send(Message("resume", 0))
    /\ UNCHANGED <<orch, boot, stops, units, app, core, inflight, restarts>>

-----------------------------------------------------------------------------

TypeOK ==
    /\ orch \in Orchs
    /\ mailbox \in Seq(Messages)
    /\ boot \in BootTasks
    /\ stops \in [Shutdowns -> StopTasks]
    /\ units \subseteq Apps \cup {CoreUnit}
    /\ app \in [Apps -> AppStates]
    /\ core \in [up : BOOLEAN, locked : BOOLEAN]
    /\ host \in [st : {"idle", "asking", "calling", "runtime", "resuming"}, 
                 n : 0..MaxShutdowns, ok : BOOLEAN]
    /\ inflight \in BOOLEAN
    /\ restarts \in 0..MaxRestarts

Init ==
    /\ orch = Down /\ mailbox = <<>> /\ boot = NoBoot
    /\ stops = [n \in Shutdowns |-> NoStop]
    /\ units = {}
    /\ app = [a \in Apps |-> [present |-> a \notin Defaults, ruled |-> FALSE,
                              halted |-> FALSE, starting |-> FALSE, up |-> FALSE]]
    /\ core = [up |-> FALSE, locked |-> FALSE]
    /\ host = [st |-> "idle", n |-> 0, ok |-> FALSE]
    /\ inflight = FALSE /\ restarts = 0

Server ==
    \/ HandleShutdown \/ HandleResume \/ HandleUp \/ HandleBootEnd
    \/ HandleBootCrash \/ HandleStopEnd
BootTask ==
    \/ Cancelled \/ InstallNative \/ Decide \/ PutOff \/ EnterGate \/ Gate
    \/ InstallContainers \/ Stage \/ Awaited \/ AwaitPrimary \/ Primary \/ PushComplete
UnitStep == \/ \E a \in Apps : UnitCalls(a) \/ UnitReturns(a) \/ InstallFails(a)
            \/ CoreLocks \/ CoreStarted
StopStep == \E n \in Shutdowns : StopApps(n) \/ StopCore(n) \/ StopEarlier(n)
Host == RaiseFlag \/ AskShutdown \/ GiveUp \/ RuntimeFails \/ Resume

Next ==
    \/ Start \/ Server \/ Crash \/ BootTask \/ UnitStep \/ StopStep \/ Host
    \/ BootCrashes \/ (\E n \in Shutdowns : StopCrashes(n)) \/ \E a \in Apps : AppRestarts(a)

Spec == Init /\ [][Next]_vars

(* The supervisor restarts the orchestrator; it handles its messages; the  *)
(* boot task, the units and a stop are each bounded on their own.          *)
Fairness ==
    /\ WF_vars(Start) /\ WF_vars(Server) /\ WF_vars(BootTask)
    /\ WF_vars(UnitStep) /\ WF_vars(StopStep)
    /\ WF_vars(AskShutdown) /\ WF_vars(Resume)

FairSpec == Spec /\ Fairness

-----------------------------------------------------------------------------

(* A stop answered as clean leaves no app's container running or starting  *)
(* until the device goes down: not the one a unit had begun to start when  *)
(* the flag went up, nor a default app being installed.                    *)
AppsDownOnceAnswered ==
    host.st = "runtime" /\ host.ok =>
        \A a \in Apps \ NativeApps : ~app[a].up /\ ~app[a].starting

(* The same of Core, whose start reads no flag: what keeps it down is that *)
(* the boot has ended at a step boundary before Core is stopped.           *)
CoreDownOnceAnswered == host.st = "runtime" /\ host.ok => ~core.up /\ ~core.locked

(* A boot that completes has run every stage once and the app stages in    *)
(* their order: the native apps first, and Core in its place, or ahead of  *)
(* the app stages that were put off until the primary interface was there. *)
CompleteBootRanEveryStage ==
    boot.at = "running" /\ boot.steps = <<>> /\ boot.put_off = <<>> =>
        boot.ran \in {<<"native">> \o Stages, <<"native", "core">> \o AppOrder}

(* Once boot is over and nothing is on its way, every app process that is  *)
(* alive has had its boot rule and none is left halted, whatever shutdowns *)
(* were abandoned and whichever processes restarted outside a boot.        *)
EveryAppIsRuled ==
    /\ Boots /\ orch.phase = "up" /\ mailbox = <<>> /\ units = {}
    /\ ~inflight /\ host.st = "idle"
    => \A a \in Apps : app[a].present => app[a].ruled /\ ~app[a].halted

(* Whoever asks for a shutdown is answered, whatever the boot was doing    *)
(* and whoever asked before, without the host's own budget running out.    *)
EveryShutdownIsAnswered == host.st = "calling" ~> host.st # "calling"

(* An app a shutdown halted comes back once the shutdown is abandoned.     *)
HaltedAppsComeBack ==
    \A a \in Apps : app[a].halted /\ ~inflight ~> ~app[a].halted \/ inflight

=============================================================================
