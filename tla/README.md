# Vagus: models, checks and proofs

Vagus is an Elixir application that does on an embedded (Nerves) device what the
Home Assistant Supervisor does: it runs Home Assistant Core and the user's apps
in podman containers, brings them up at boot and down at shutdown, updates them,
backs them up, restarts them when they die, and answers the Supervisor's HTTP
API. Beside it lie three Python scripts that read foreign sources (Home
Assistant's frontend, its `hassio` integration, its client library) and pin in
fixtures what they ask of that API. This directory holds TLA+ models of the parts
whose behaviour depends on what happens between two steps, of the scripts'
algorithms, the TLC runs that check them, and proofs.

All source paths below are relative to `src/apps/vagus/lib/vagus/`, docs to
`src/docs/`, scripts to `src/scripts/`.

## Inventory

Each component with the state it keeps, what it does, whom it talks to, what is
hard about it and what would make it correct.

| Component | State | Operations and interactions | Hard | Correct when |
|---|---|---|---|---|
| App process (`app/server.ex`, `app/policy.ex`, `app/steps.ex`) | one `gen_statem` per slug: state (`new`, `idle`, `busy`, `shutting_down`, `refused`), the saved half of the data, the live half (container id, token, last event, attempts), three timers, one task | commands from API, orchestrator and backups; container events; timers; results of the step tasks it spawns. Calls the engine, the directory, the file | events postponed while busy; a halt that pre-empts; a step killed at its deadline; rollback; saves that fail; crash and restart | callers answered once, file = memory after a success, directory = data, belief = engine, no restart lost |
| App files and facade (`app/file.ex`, `app.ex`) | one file per app | load, save, delete | torn or unreadable files | an acknowledged write survives |
| Orchestrator (`app/orchestrator.ex`, `app/units.ex`, `app/gates.ex`) | a `GenServer` phase, the boot and stop tasks, waiters | boot plan (gates, stages, put-off stages, Core), shutdown, resume, announcements of app processes | shutdown in a boot, a resume in a stop, orphaned tasks after a crash | containers down once a stop is answered; every app ruled |
| Host shutdown (`host/shutdown.ex`) | the in-flight flag, a lock | raise the flag, stop within a budget, runtime call, resume when it fails | the flag is read by others at other times | the stop precedes the power-off; an abandoned one is undone |
| Core unit (`app/core_unit.ex`) | none | start and stop Core for the orchestrator; hands a failed start of an absent Core to the Provisioner | shares the lifecycle lock, which may be taken | Core is down when the stop says so; an absent Core is left to someone |
| Core lifecycle (`core/lifecycle.ex`, `core/versions.ex`) | one container, the recorded version, a lock tried and never waited for, the count of stops | adopt, start, stop, restart, rebuild, update with rollback, each a sequence of engine calls | six kinds of callers; any call fails, any caller dies; a start across a stop | an unattended start never undoes a stop; a success leaves Core as recorded whatever came before |
| Core watchdog (`core/watchdog.ex`, `core/watchdog/probe.ex`) | misses, reanimations, healthy streak, given up; death window, action budget; a task in each half | probe at each tick, restart, rebuild, give up; rebuild on a crash loop | tasks that die, overrun or find Core busy; the option flipped meanwhile | rungs climbed are restarts that ran; a hung Core is seen to |
| Core events (`core/event_pusher.ex`) | connection, backoff, attempt | connect, push, reconnect | one attempt a connection, late answers | a loss is always followed by a new attempt |
| Discovery push (`discovery/push.ex`) | FIFO of posts and deletes, one in flight | enqueue, deliver, retry | bounded queue, deduplication | order per service kept, no DELETE shed |
| Container host (`runtime/host.ex`, `runtime/migration.ex`) | permits, holders, waiters | pull, ops and shutdown permits, engine restarts | holder or waiter dies; a shutdown stops pulls | permits conserved, no waiter starves |
| Event stream (`runtime/events.ex`) | connection, generation, held-back events | reconnect, resync, publish | events during a resync | no event older than the listing is published after it |
| Jobs (`jobs.ex`) | job trees | create, update, finish, evict | owner dies; the cap | a live job is never evicted |
| Backups (`backups.ex`, `backup.ex`) | index of archives, jobs | create, restore, remove | partial failure over many apps | index = archives, every app answered |
| Provisioner (`provisioner.ex`) | version to fetch, reading of the stops, its own messages and timers | expand data, await engine and internet, install or pull, start, retry, take over boot's start | retries across a user's stop; a hand-over while it works; a handler that raises | an absent Core comes up unless someone stopped it |
| Firmware updates (`os/updater.ex`) | one update | check, install, reboot | two at once; stale check | at most one, of what was checked |
| Core's port and config (`core/port_migration.ex`) | marker files | migrate once | crash between steps | idempotent |
| Ingress (`ingress.ex`) | sessions | create, validate, expire | expiry at the boundary | no session after expiry |
| MQTT broker (`mqtt/`) | retained service | start, stop with its native app | restart of one side | service gone with the app |
| Contract scripts (`frontend_hassio_endpoints.py`, `core_hassio_surface.py`, `dump_aiohasupervisor_contract.py`) | the entries read so far | lex minified JavaScript, find the Supervisor requests, resolve their methods and paths; walk Python trees for views and websocket commands; dump models by reflection | shadowed and reassigned constants, overriding spreads, branches, quotes inside regexes; one part unreadable | every request is listed or left raw, nothing is listed that is not made; what is registered is in the fixture |
| Network, NFS, USB/IP, serial, bluetooth, DNS, SSH, memory, patches, API, store | small state around I/O | — | — | — |

`PROJECT.json` lists every component with its status, and under `hazards` each
place in the modelled code where a test would hardly reach what can go wrong.

How the modelled parts meet: the **orchestrator** spawns units that call
`boot_start` on **app processes**; an app process asks **host shutdown**'s flag
before a start; **host shutdown** asks the orchestrator to stop, whose stop
tasks call `halt` on the app processes and stop **Core** under its lifecycle
lock; container events reach app processes through the engine's event stream.
Core's lock is shared by the user (over HTTP), boot's **Core unit**, the
**Provisioner**, the shutdown and both halves of the **watchdog**; the Core unit
casts a start it could not make to the Provisioner. The scripts meet nothing but
their input.

## Modules

| Module | Models | Extends |
|---|---|---|
| `AppPolicy` | `policy.ex`: the process record, what it reads off it, admission, boot rule, restart ladder, events, strikes | |
| `AppRun` | `policy.ex`: `plan`, `next`, the local steps, one settle operator per step, the ends of an operation | `AppPolicy` |
| `AppServer` | `server.ex`, `steps.ex`, `file.ex`: the state machine, effects, tasks, timers, file, container, event stream, crash and restart | `AppRun` |
| `AppPromise` | abstract: what an app promises to a host that goes down | |
| `AppProperties` | properties of the app process, the refinement of `AppPromise` | `AppServer`; instance of `AppPromise` |
| `AppTypes` | proof that the types hold | `AppServer`, `TLAPS` |
| `AppAnswers` | proofs that callers are answered once and that a halt stops the container | `AppProperties`, `AppTypes` |
| `AppPlan` | which step may follow which; proofs about the file, the directory, the token, the options and the probe, and that the app implements `AppPromise` | `AppAnswers` |
| `AppBelief` | proof that what a process believes of its container is what the engine runs | `AppPlan` |
| `AppRestart` | proof that a container that died gets its restart | `AppPlan` |
| `MCApp` | values of `IngressOf` | `AppProperties` |
| `Orchestrator` | `orchestrator.ex`, the outcomes of `units.ex`, `gates.ex`, `core_unit.ex`, `host/shutdown.ex`; its properties | |
| `OrchestratorSafety` | proofs that the types hold, that a stop's answer is true of the apps and of Core, that boots run in order and that every app is ruled | `Orchestrator`, `TLAPS` |
| `MCOrchestrator` | app names and stages | `Orchestrator` |
| `CoreLifecycle` | `core/lifecycle.ex`: the lock and every operation, one action per engine call | |
| `CoreWatchdog` | `core/watchdog.ex`, `core/watchdog/probe.ex`: both halves and their tasks | `CoreLifecycle` |
| `CoreBoot` | `app/core_unit.ex`, the Core chain of `provisioner.ex`, the Core stop of `host/shutdown.ex`, the user | `CoreLifecycle` |
| `CorePromise` | abstract: engagements to start Core, and stops that end them | |
| `Core` | composition of the three, fairness, properties, the refinement of `CorePromise` | `CoreBoot`, `CoreWatchdog`; instance of `CorePromise` |
| `CoreSafety` | proofs that Core's types hold, that it implements `CorePromise`, that its operations heal, and that the ladder's rungs are earned | `Core`, `TLAPS` |
| `MCCore` | the initial scenes and the bound on troubles | `Core` |
| `FrontendSyntax` | `frontend_hassio_endpoints.py`: tokens, brackets, splitting, constants, path normalisation | |
| `FrontendLexer` | the same: `lex` and what it calls | |
| `FrontendEndpoints` | the same: `Extractor`, `main` | `FrontendSyntax` |
| `MCFrontend` | the small sources and what they mean at run time | `FrontendEndpoints` |
| `CoreSurface` | `core_hassio_surface.py`: its two passes, and what the integration they read registers | |
| `SurfaceSafety` | proof that the one is the other | `CoreSurface`, `TLAPS` |
| `MCSurface` | the small integrations | `CoreSurface` |
| `MCScripts` | both scripts, on every small source | `MCFrontend`, `MCSurface`; instance of `FrontendLexer` |

### The app process

The code keeps a *functional core* (`Policy`) apart from the *shell*
(`Server`), and so do the modules. In the code `Policy` returns a state and a
list of effects that `Server` reduces from left to right. In the model an
operator of `AppPolicy` or `AppRun` takes the process record `p` and returns
the record the handler leaves; effects that touch the process (directory keys,
timers) are applied in place, the others are the fields `save`, `reply` and
`fate`, which `Leave` in `AppServer` interprets as `run_effects/4` does. So each
action is **one event handled to its end**, with every local step, save and
reply the code performs in that handler.

| Code | Model |
|---|---|
| `gen_statem` state | `p.st`; `down` is no process |
| `data` | the other fields of `p`; `p.run` is the operation in flight, `p.run.task` its task |
| `Vagus.Directory` keys of the app | `p.keys` |
| timers `:retry`, `:settled`, `:probe` | `p.retry` (with the container id it was armed for), `p.settled`, `p.probe` |
| the app's file | `file` |
| the container of the app's name | `box` |
| engine events not yet received | `wire` |
| `:postpone` | `postponed`; `Quiet` makes it go before anything newer |
| `Shutdown.in_flight?` | `inflight` |
| callers parked on an operation | `callers`, and `answer` for the last reply |

A step's task is three actions: `Check` (the shutdown flag, read once when the
task begins), the work on the container, and `Done`, the arrival of the result.
`TaskLost` may come at any point between them: the task has then had its effect
or not, and the process is told it died or overran.

`Advance` applies the step runner's local step five times because between two
task steps no more than five local steps follow each other; the code recurses.

### The orchestrator

`Orchestrator` has the GenServer with its mailbox, the boot task (linked to
it), stop tasks and units (linked to nothing, so they outlive a crash), the
apps as boot and shutdown see them, Core with its lock, and the caller of
`Vagus.Host.Shutdown`. Each handler takes the head of the mailbox. The boot
task has an action for each step and checkpoint of `run_boot/1`; a gate is tried
`GateTries` times, its interval being the state between two tries in which a
cancel is noticed. What becomes of the app stages is decided past the boundary of
the first one (`decided`), so a cancel that comes during that decision still has
the stage's units spawned, as in the code. An app's start and halt are what `AppServer` does: a start
reads the flag, a halt pre-empts a start.

**`AppPromise`** is what the stop counts on, said in four Booleans: the flag,
whether a start has read it and is on its way up (`rising`), whether the
container is up, and whether a halt has just been answered with ok. A container
app's start gets past the flag only while it is down; only one that got past it
brings the app up, however much later; a halt says ok when the app is neither up
nor rising. In `AppProperties` a start is rising from the moment its task has read
the flag until it has done its work. `Orchestrator` treats its apps this way;
`AppServer` is shown to be such an app.

### Core

`CoreLifecycle` keeps the operation that holds the lock in `op`: who called it,
its kind, and `at`, the engine call it makes next. An action is one engine call
with its failure, and what the code does with either answer. `Call` is
`with_lock/1`: the caller gets the lock or the answer `busy`. Answers wait in
`answers` until the caller reads them, so that everything may happen between an
operation's end and what its caller does about it. A caller that dies leaves the
lock (`Abandon`, which is what `:global.trans` does) and what it had done.

| Code | Model |
|---|---|
| the container: image, spec fingerprint, running, its API | `box.v`, `box.fresh`, `box.up`, `box.sick` |
| `:core_lifecycle` lock and its holder's position | `op` |
| `stops/0`, `:stops_seen` | `stops`; `op.seen`, `Attended` when there is none |
| `Vagus.Core.Versions` | `installed`, `Latest` |
| the probe's GenServer state | `misses`, `reanimations`, `streak`, `given_up`, `action` |
| the event half's | `dies`, `actions`, `loop`; `deaths` are events not handled |
| the Provisioner's mailbox, timers included | `mail`, and `handed` for a cast |
| the handler the Provisioner is in | `prov` |
| the Core unit of the running boot | `unit`, `unit_seen` |

The Provisioner's messages are a set because its handlers only ever send one
message of a kind while none of that kind waits, or a second `:attempt_start`
that would do the same.

**`CorePromise`** is the abstract specification. It knows of Core whether it is
up and who has it, and of each *starter* (the Core unit, the cast on its way to
the Provisioner, the Provisioner) whether it is *engaged* to start Core. A stop
puts every engagement out of date, a hand-over carries the date along, and only
a starter whose engagement is up to date may take Core unasked, and not while a
shutdown is under way. In `Core` the mapping is: `owner` is `op` past its first
check, attended when it has no reading; `owed` are the starters that are between
their reading and their end; `fresh` those whose reading equals `stops`. So the
refinement says that comparing two integers, under a lock, through retries,
timers and a cast, is as good as being told of every stop.

### The contract scripts

`FrontendEndpoints` translates the extractor function by function: what a
construct yields is a set of entries, and an unreadable part is the raw entry at
the construct. `FrontendSyntax` has the reading of brackets, objects, constants
and paths, `FrontendLexer` the lexer over characters. A text is a sequence of
atoms: letters where the code looks at letters (lexer, paths), whole words
elsewhere. `CoreSurface` has the two passes over syntax trees, which are values
here as they are Python's in the code. `main` is the behaviour: one action per
file read, one for the fixture written, none of it if a file fails the checks.

## Runs

An app run's cfg names which commands callers issue and which surroundings
misbehave. Splitting them this way keeps each run inside minutes and lets each
property be checked in the surroundings that threaten it: `BeliefMatchesEngine`
only makes sense with an engine that obeys, `SuccessIsOnDisk` only bites with a
disk that fails.

| Run | Surroundings | Checks | States |
|---|---|---|---|
| `AppBackup` | cold backups; engine and tasks fail; fairness | `TokenOnlyWhileUp`, `EveryOperationEnds`, `DeadContainerComesBack` | 0.15 M |
| `AppLadder` | hot backups with hooks, verdicts, URL probes, deaths | `BeliefMatchesEngine`, `NoRestartIsLost`, `NoProbeBesideAnOperation` | 3.1 M |
| `AppNative` | a native app whose version 2 has a dynamic ingress port | `TypeOK`, `DirectoryFollowsData` | 1.1 M |
| `AppUninstall` | install, uninstall, restore, option writes, halts, a shutdown, crashes; tasks and disk fail | `EveryCallerAnsweredOnce`, `AckedOptionsStand`, `HaltedIsDown`, `KeepsAppPromise`, `UninstalledStaysGone` | 0.9 M |
| `AppUpdate` | updates with and without snapshot, tasks and disk fail | `RunsItsVersion`, `SuccessIsOnDisk` | 1.3 M |
| `OrchStop` | agent flavor, a native and a once app, default installs, gates that fail or are fatal, no primary interface, overruns, a crash | `TypeOK`, `CompleteBootRanEveryStage`, `AppsDownOnceAnswered` | 1.5 M |
| `OrchLive` | two shutdowns, either abandoned, app processes that restart; fairness | `CoreDownOnceAnswered`, `EveryAppIsRuled`, `EveryShutdownIsAnswered`, `HaltedAppsComeBack` | 0.13 M |
| `Core` | seven devices at boot (nothing, version without image, image, created, old spec, other version, running) and a watched running Core; engine calls fail, tasks, handlers and Core die, the option flips, users call, a shutdown comes and may fail; fairness | `TypeOK`, `EachReanimationRan`, `Reconciles`, `Promise`, `HungCoreIsHandled`, `PendingCoreComesUp` | 0.23 M |
| `Scripts` | 41 thousand sources: frontend programs of one construct with declarations and what becomes of them, spellings of three pieces, integrations of two files, the constants' first or last | `NothingIsDropped`, `NothingIsInvented`, `LexerReadsWhatWasWritten`, `SurfaceIsWhatCoreRegisters` | 0.15 M |
| `RollbackPort`, `LostRollback`, `RememberedResume` | see *Disagreements* | one property each, violated | |

What the passing runs show, in words:

* No order of deaths, dead tasks, overrun deadlines and commands leaves an
  operation open, a caller unanswered or answered twice.
* A success is on disk, whichever save of the operation failed; an acknowledged
  options write is not taken back by a restore under way, a crash or a failed
  save; a deleted app is not written again by anything but an install.
* The directory holds exactly the keys the data implies after every kind of end,
  rollback included, and a token goes when its container does.
* With an engine that obeys, the process believes what runs; a death while the
  app should run always has a restart waiting until the ladder is used up,
  whatever operation was in flight when it was reported.
* A halt that reports success left nothing running and nothing on its way up,
  although the flag is read once and may be raised while a start works; and no
  start that begins after the flag is up gets past it.
* At the orchestrator, a stop answered as clean left no app container up or
  starting, across a crash of the orchestrator in the middle; a completed boot
  ran every stage once in order, put off or not; a shutdown at any point of a
  boot, or joined to another, is answered; after abandoned shutdowns every app
  has had its boot rule again.
* At Core, a start made on nobody's request never undoes a later stop or
  shutdown, through busy locks, retries and hand-overs; an operation that
  succeeds leaves Core on the recorded version and the present spec whatever
  earlier ones left when they failed or were killed; the watchdog's rungs are
  restarts that ran; a hung Core is seen to, a pending absent one comes up.
* Of a small frontend source the script lists each request it can make, or leaves
  a raw entry where it makes it, provided the request's type is in sight: written
  in the object, held in a once-declared constant, or in an object of the same
  file. A request out of sight stops the script when it is alone in a file that
  names the type; elsewhere it is dropped (see *Disagreements*). No request is
  listed that the source does not make; the lexer reads what
  was written; the surface is what an integration registers, or is withheld.

### Bounds, and why they are enough

* `MaxId` (container ids, 1 to 3): the process tells apart the container it
  holds, one it released, and a foreign one. A start beyond the bound fails
  after removing the old container, which the engine may do anyway, so the
  bound adds no behaviour the code could not show. `ReleasedKept = 4` is the
  code's own number, above `MaxId`, so no released id is forgotten within it.
* `MaxAttempts = 2` (5 in the code), `Strikes = 2` (the code's), `RefusedTries
  = 2` (3): the ladder compares with zero, with the maximum and in between; two
  attempts have all three. `AppUninstall`, whose properties do not concern
  the ladder, has one of each. A native app's count and the image count are
  unbounded in the code and saturate here: the first is only compared with zero
  and the second with the bound.
* `MaxQueue` (events in flight plus postponed, 1 or 2): two suffice for an
  event and a timer of the same failure to overtake each other's effect. The
  container stays as it is, and a busy app's timers wait, while the queue is
  full.
* Two versions: an update and its rollback go between the recorded one and the
  other.
* `MaxShutdowns` (1 or 2): a second shutdown joining the stop of the first is
  the interesting case. `OrchStop` has one: with a second, the first given up,
  `AppsDownOnceAnswered` fails the way `RememberedResume` does, since the second
  joins a stop that is past an app's group. `MaxRestarts = 1`: one crash anywhere.
* `GateTries` (1 or 2, 60 in the code): passed at once, passed on retry, out of
  tries.
* Two or three apps: one of an earlier stage and one or two of `application`,
  the stop's two groups; among them a native, a once and a default app.

* Core's ladder has one restart (5 in the code), one stable tick (5), two
  deaths in a window (3) and one action in the limiter (10): each count is
  compared with its maximum only, and with one below it the case before the
  last is there too. `Misses` is the code's 2.
* `MaxFailures`, `MaxKills`, `MaxToggles`, `MaxCalls`, `MaxShutdowns`,
  `MaxRaises` are 1 and `MaxCrashes` 2, and `MCCore!FewTroubles` lets a scene
  have at most two of them (`MaxTroubles`): a trouble and another one in its
  middle. A third would come upon a state in which one has been dealt with.
* Scripts: one construct per program, because the extractor keeps nothing from
  one construct to the next but constants, and two files, the smaller number
  that has an order. Members and paths are combined up to three and two deep,
  which is where an override, a branch or a nested bracket can go wrong.

`CHECK_DEADLOCK FALSE` is in every cfg: an installed app with no command, no
event and its bounds used up really has nothing to do, and a device whose
shutdown succeeded is off; a script ends.

### Fairness, and why the code justifies it

`AppServer!FairSpec`: a step that is due is taken or done (each has a deadline
after which `Server` kills it), an event that is due is handled (the
`gen_statem`'s loop), an armed retry timer fires, and a supervisor starts a
process that went. No command, death, verdict, loss of an event or shutdown is
assumed. The first three are weak fairness written out with its condition as a
state predicate, since TLC evaluates `ENABLED` of a whole handler afresh in
every state. `DeadContainerComesBack` allows the three ends the code has: up
again, recorded as failed, out of attempts.

`Orchestrator!FairSpec`: weak fairness of the restart of the orchestrator, its
handlers, the boot task, the units, a stop (each bounded on its own by a
budget), and of the two sends of `Host.Shutdown`, which is straight-line code.
`OrchLive` runs without `BudgetRunsOut`: `EveryShutdownIsAnswered` must hold
without the host's own time limit coming to its help.

`Core!Fairness`: an engine call returns or times out, the Provisioner goes on
with its mailbox, the Core unit with its code, the probe's timer fires and its
task goes on: weak fairness of each. `SF_vars(Chain)`: a start that keeps failing
comes back by a timer, behind the messages that wait, so that none of them is
passed over for ever; as the messages are a set, this is said by strong fairness
of the handlers of the chain. Nothing is asked of users, faults, the shutdown or
the event half.

## Proofs

They hold for every value of the constants and assume what the modules assume of
them, nothing more: `BoundsAssumption`, `ConfigAssumption` and `ServerAssumption`
for the app process, `AppsAssumption` and `NumbersAssumption` for the
orchestrator, `VersionsAssumption`, `LatestAssumption`,
`FailuresAssumption`, `BootBoundsAssumption`, `WatchBoundsAssumption`,
`LadderAssumption` and `CallersAssumption` for Core. So neither the number of
troubles, nor that of calls, versions or rungs, nor the scene Core begins in is
bounded as it is in the runs.

### The app process

**`AppTypes!TypeCorrect == Spec => []TypeOK`.** `TypeOK` alone is not inductive:
a container that exits sends an event that names it, so the id of a container
that is up must be a real one. The inductive invariant is
`Typed == TypeOK /\ UpHasId` with `UpHasId == box.up => box.id \in Ids`. The
proof follows the model's layers: one lemma per operator on the process record
(`RetryType` ... `SettleType`: it maps `Procs` to `Procs`), then one for the
effects (`AfterType`, `LeaveType`), one per action, `NextTyped`, and the
temporal step. What it says of the code: whatever the sequence of events, the
step runner never leaves its step names, the count never passes the maximum, the
strikes never reach the bound, the list of released containers holds ids only,
and the keys are those of the app.

**`AppAnswers!CallersAnsweredOnce == Spec => []EveryCallerAnsweredOnce`** and
**`AppAnswers!HaltStopsTheContainer == Spec => []HaltedIsDown`**, from one
inductive invariant, `Inv == Typed /\ Answering /\ Halting`:

* `Answering` adds `Calm` to the first property: between two handlers no reply
  or end of the process is pending, and only a busy process owes an answer. An
  answer is owed from the command's handler to another handler far away, so
  what each operator does in between must be known, not only that it keeps the
  types.
* `Halting` adds `HaltStops` to the second: a halt at work has the one step
  `halt_stop`, and once its task reports ok the container is down. It holds to
  the end because no other task runs beside it and the container rises only in
  a start's task.

The argument has three layers. An operator of the policy that neither ends nor
changes the operation in flight *frames* it (`Frame`). One that takes a handler
to its end *carries* it (`Carries`): the same operation, for the same caller,
and `Balanced`, that is, it ends exactly if it replies; there is one such lemma
for each way a step settles, failures and cleanups among them. The effects then
turn an ended operation into none and its reply into the one answer
(`AfterFacts`, `LeaveAnswers`, `LeaveHalts`). One lemma per action puts these
together. `RestStep` covers the handlers that touch neither.

**`AppPlan`** proves what the record, the file, the directory and the options owe
each other between any two events. The first idea is the plan: `Then(op, name)`
says which step may follow which in each operation. `steps/3` computes a list
once and handlers later pop it, put steps in front of it or replace it by a
cleanup or a rollback, many events apart; `OnPlan` says that what is left is
still a path of `Then`, whatever happened. With it each step finds the record as
its plan needs it. The inductive invariant is `Inv /\ Planned`:

* `OnTrack`, `AtWork`: at each step of each operation, what may be true of the
  record. An install records its version last; an update moves between versions
  only while it holds no container; a stop's step finds the token revoked; a
  retired app saves nothing.
* `Resting`: what an operation leaves when it ends, keys and token included.
* `OptionsKept`: from an acknowledged write on, the file and the record hold it,
  and a restore at work knows that it was touched.
* `StartReported`: a start that reports ok names the container that is there.

The proof goes down a handler as the code does: a local step maps a record that
is `Ready` to one that is `Ready` or at an end; five of them reach a task step or
an end (`AdvanceOut`, which also shows that `Advance`'s five are enough); one
lemma for each way a step settles; then one per action. From `AlwaysPlanned ==
Spec => [](Inv /\ Planned)` follow:

| Theorem | Says | Under |
|---|---|---|
| `NoProbeOutlivesItsContainer` | `NoProbeBesideAnOperation` | |
| `SuccessSurvivesAReboot` | `SuccessIsOnDisk` | |
| `AcknowledgedOptionsStand` | `AckedOptionsStand` | |
| `NothingComesBack` | `UninstalledStaysGone`, an action property | |
| `NoKeyOutlivesItsFact` | `KeysHaveFacts`: no key without its fact, none missing but ingress ones | |
| `DirectoryHoldsTheKeys` | `DirectoryFollowsData` | no `uninstall`, or no ingress |
| `TokenNeedsAContainer` | `TokenOnlyWhileUp` | `NoPorts` |
| `TokenNamesItsVersion` | `RunsItsVersion` | `NoPorts` |

The hypotheses are where the code departs from the property. An uninstall drops
the ingress keys before its stop; one that a halt pre-empts, or whose stop dies
and is cleaned up by name, keeps the app without them (`app/policy.ex:835-841`).
`NoPorts`: no version has a *dynamic* ingress port; with one a rollback may fail
after a token was minted, as the run `RollbackPort` shows. What holds without any
hypothesis is `KeysHaveFacts`. `Planned` was model-checked with the constants of
every run of the app process before it was proved.

**`AppBelief!BeliefIsRight == ASSUME ~EngineFails, ~TasksFail, ~EventsLost,
~Crashes PROVE Spec => []BeliefMatchesEngine`**, for any commands, settings and
shutdowns, files that do not load and writes that fail. The hypotheses are what
the belief rests on: a process that crashed has forgotten its container, a task
that died does not say what it did, and an event that neither the stream nor the
listing after a reconnect delivers is never heard (each has a hazard of its own). What is left is the order of things: the result
of a task, the events of the container it made and of the one it replaced, and
what was postponed meanwhile reach the process by different ways. The inductive
invariant is `Inv /\ Planned /\ Believing`:

* `Known`: a container that runs is the one held, except between a start that
  made it and the result that says so, and under a halt, which may have
  pre-empted that result and stops whatever it finds by name.
* `Hears`: a container believed up either is, or its exit is among the events in
  flight or postponed. A refused app is left out (`Trusts`): halted, it may take a
  late `start` for its own, and it is never idle.
* `EventsEnd`: an event of a container that runs no longer has the exit of that
  container behind it, through the stream first and the postponed ones before
  it. So a `start` seen late may be adopted, and is taken back.
* `Numbered`, and in `Hears` that the container held was never released: ids
  are fresh, so an event of one container is not taken for another's.
* `Announced`: what a start has made has not been released before it is said.
* `Emptied`: a stop that has reported, a deleted file and an install find no
  container up, so a process that goes leaves none behind.

The proof has a layer for the operators on the record (`Learns`: a stop lets go of
the container, a start that reports takes one, no other outcome changes the one
held), one for the queues (`EndsAppended`, `EndsReceived`, `EndsPostponed`, ...,
stated of any two sequences), one for the events (`Sees`: an event is ignored,
adopted, or the end or the health of the container held), and then one lemma per
action. TLC had found `Believing` to hold in four settings between them of every
command, with and without shutdowns, verdicts and failing writes.

**`AppRestart!NoRestartLost == ASSUME ~Shutdowns, NoPorts, "watchdog" \notin
Settings PROVE Spec => []NoRestartIsLost`**, for engines that fail, tasks that
die, events that are lost, crashes, and all commands. The timer that makes up for
a death is armed by whichever handler learns of it, but an operation may be in
its way: a death is postponed behind it, a start or a stop changes what was
armed, a timer that has fired may be postponed too. The inductive invariant is
`Inv /\ Planned /\ Restarting`, and `Restarting` is, of the record and the
postponed events, `Waits`:

* `Hopes`: a record that shows a death the watchdog is to answer (`Due`) has its
  timer armed for that container, or the timer's event is among those postponed.
* Only while the plan is at a step that starts or stops the container
  (`Touching`) may it have neither: such a step ends in a handler that looks at
  the death anew.
* `Sane`, `Outcome` and `Uncounted`: what an operation may know of the container,
  and a native app without a ladder counts nothing.

A local operator *lasts* (what is known stays), *spares* the restart (the timer
stays, or is armed for the container held) or *goes* to a step that touches the
container; composed to the end of a handler they *mend* it. Each hypothesis is
needed, as TLC shows with one of them lifted at a time: a shutdown takes the
timer and leaves the restart to the next boot; a watchdog that is turned on does
not look back at a death; and a start that fails for want of a port, before it
has touched the container, leaves the death with no timer. The run `AppLadder`
checks the property under the same hypotheses. TLC had found the invariant to hold
before it was proved.

**`AppPlan!AppKeepsItsPromise == Spec => KeepsAppPromise`**, without hypotheses:
`AppServer` implements `AppPromise`. `Check` is the abstract `Rise` where it
passes, the start's work on the container is `Risen`, the flag `Flag`; every
other step is `Halted` if it answers a halt with ok, which `Halting` makes true,
and `Sink` if not. What has to be shown of every handler is
`NotRising`: it leaves no start that has passed its check but the one that was
there, although handlers replace steps, put steps in front of others and begin
operations of their own. The theorem is the app's half of `FirstStopHolds` and
`EveryStopHolds` below, whose model has apps that act like this.

### Core

**`CoreSafety!CoreTypeCorrect == Spec => []TypeOK`.** `Typed` adds to the types
that only an update pulls, that it pulls a version, that what the Provisioner is
to pull is one, and that no more deaths wait than there were crashes. One lemma
per helper (`CallTyped`, `GoTyped`, `FinishTyped`, ...), one per action.

**`CoreSafety!PromiseKept == ~ExpandOutlasts => (Spec => Promise)`**: the
composition implements `CorePromise`. The condition is the order the code counts
on, that boot reaches Core after `expand_data`; without it the theorem is false,
as TLC shows (below, under the disagreements). The inductive invariant is
`Keeping == Typed /\ Readings /\ Holding /\ Closing /\ FirstPass`:

* `Readings`: no reading is of a stop to come, so that a stop puts every one of
  them out of date by counting one further.
* `Holding`: whose start has the lock is in the state that waits for its answer,
  and the start carries that starter's reading and no other. This is what links
  the check under the lock to the engagement it stands for.
* `Closing`: the flag is up from a shutdown's beginning to its failure, and no
  unit is at work once the shutdown has come to Core's lock.
* `FirstPass`: the Provisioner's first message, which takes a new reading, comes
  before anyone has handed it one.

The proof first says what a step of the lifecycle is to everybody else
(`LcEffect`: a refusal, a stop, a start that takes Core, or work by whoever has
it), then that each action of the composition is one step of `CorePromise` or a
stutter (`Stutters`, `Engages`, `Hands`, `Drops`, `Takes`, `Works2`, `Stops`
name the steps it may be), and that it keeps the invariant: one lemma per group
of actions (`LcKeeps`, `UnitKeeps`, `ProvKeeping`, `GoKeeps`, `FaultKeeps`,
`WdKeeps`).

**`CoreSafety!CoreReconciles == Spec => Reconciles`.** An operation answers "ok"
several engine calls after it read what was there, and any caller may die in
between. `Built` says what the operation with the lock has made of the container
at each of its calls; nobody else touches the container while it is held, but
for a crash or a hang of Core itself, which do not change what it was made from.

**`CoreSafety!LadderIsEarned == Spec => []EachReanimationRan`.** `Climbing`
says where the probe's restart may be between its call and its answer, and that
such a restart has been counted by the history before the ladder counts it: the
task that has it is not replaced while it is at work.

### The orchestrator

**`OrchestratorSafety!OrchTypeCorrect == Spec => []TypeOK`.** `Typed` adds what the
types rest on: a booting or cancelling orchestrator has the boot task, a
cancelling one has a waiter (the stop it goes on with is the latest one's, and
`Latest` of no waiter would be none: `LatestWaits` shows that of some it is one
of them), a gate or an awaited stage is at a step of the plan, a shutdown under
way has a number.

**`OrchestratorSafety!FirstStopHolds == Spec => [](host.n = 1 => AppsDownOnceAnswered)`**,
for any set of apps and stages, any number of crashes, every failure and overrun.
The answer passes from the stop task by a message to the orchestrator and on to
the caller, and in between units, stops and crashes go on. The inductive
invariant `Holds` has, as long as no second shutdown was asked for:

* `Flagged`: the flag is up from the asking to the power-off or its failure.
* `OneStop`: one request makes one stop, whether it is in the mailbox, waits for
  the boot to end, or is at work; after it none begins; and a stop's end is in
  the mailbox only when it has ended. So the stop the caller hears of has not
  begun anew meanwhile.
* `Emptied`: while the flag is up, a group that a stop has halted stays down. A
  unit's start reads the flag; one that read it before the flag rose is
  pre-empted by the halt of its group.
* `Answered`: a caller that was told ok was told so by a stop that is through.

With a second shutdown `OneStop` fails, and with it the property, as the run
`RememberedResume` shows: this is where the condition comes from.

**`EveryBootIsInOrder == Spec => []CompleteBootRanEveryStage`**, with no
hypothesis. A boot may put stages off at the first app stage, skip gates, be
cancelled and begin anew; `InOrder` says of each of its states that what it ran,
what it put off and what it has yet to do make up one of two plans (Core in its
place, or ahead of the put-off stages). The work is in the sequences: taking the
head of what is to come moves it to the end of what has been, and the put-off
stages come back in the order they left in.

**One task at a time** (`OneTask`, for `~Crashes`) is the lemma behind the next
three: there is one boot task or one stop task the server waits for, the end of
each is in the mailbox at most once, and a dead server has no mailbox.
`OneCall` adds, while the host waits a stop out (`~BudgetRunsOut`), that it has
one call open at most, with no resume behind it, so a server that has answered
has nothing under way.

**`CoreDown == ASSUME ~Crashes, ~BudgetRunsOut, ~Overruns PROVE Spec =>
[]CoreDownOnceAnswered`.** Core's start reads no flag. `CoreStays` says why it
stays down: Core's unit is awaited by the boot task, so a boot that is cancelled
at a step boundary has no such unit left; the stop task then takes Core down and
no boot begins before the host calls the shutdown off. Each hypothesis is
needed: with any one of the three switches turned on, and the others off, TLC
finds the property violated. With a crash, the restarted server's boot leaves
Core's unit behind when it crashes in turn, and the unit takes the lock after
the stop has been there; with an overrun the unit outlives its stage; with a
budget that runs out a remembered resume boots beside the second answer.

**`EveryStopHolds == ASSUME ~Crashes, ~BudgetRunsOut PROVE Spec =>
[]AppsDownOnceAnswered`**: under those two conditions the first theorem's
conclusion holds at every shutdown, since a shutdown that was called off leaves
no stop at work and no resume to be remembered. `StopKeeps` is `Emptied` for the
one stop the server waits for.

**`AppsAreRuled == ASSUME ~Crashes, ~FatalGates, ~Agent PROVE Spec =>
[]EveryAppIsRuled`.** `Pending` says who will yet see to an app that was not
ruled or is halted: a unit at work, an announcement in the mailbox, or a stage
that the boot at work still has before it or has put off. `CancelIsKnown` is
needed beside it: a boot that stops early because it was cancelled is followed
by a stop, never by a server that is up. Here, too, each hypothesis is needed,
as TLC shows with one switch turned on at a time: a fatal gate, and the agent's
required `dist` gate when it is out of tries, end a boot before its stages; a
stop task that outlives a crash halts an app the new boot has begun.

Before the proofs TLC found the invariants to hold: `InOrder` with the constants
of `OrchStop` (1.5 million states), `OneTask`, `OneCall`, `CoreStays` and
`Pending` with those of `OrchLive`, `OneTask` and `Pending` also with overruns,
budgets and a native, a default and a once app (7 million), and `StopKeeps` with
two shutdowns and overruns (1.8 million).

### The contract scripts

**`SurfaceSafety!SurfaceRead == OneMeaning /\ CsSpec => []SurfaceIsWhatCoreRegisters`**,
for any number of files, classes, calls and names. The property compares the
fixture with what the integration as a whole registers (`RegisteredUrls`,
`RegisteredCommands`): a text's meaning is the literal that some file gives the
name, without regard to files and their order. `OneMeaning` is what makes that a
meaning, and what the one map of constants takes for granted: two assignments of
one name give it one value, and a schema has one `type` key. The inductive
invariant `SInv` says that the constants known are literals of their names
(`Sound`), that none is missing from the files read (`Complete`), and that what
has been collected is what the files so far register (`Collected`). So in the
second pass reading with the map is reading the meaning (`ResolveTellsText`,
`SchemaTellsCommand`). The last literal of a name in a file is found by
well-foundedness (`LastOne`), with no induction. TLC had found `SInv` to hold of
the integrations of `Scripts`.

### Model-checked only

All liveness (`EveryOperationEnds`, `DeadContainerComesBack`,
`EveryShutdownIsAnswered`, `HaltedAppsComeBack`, `HungCoreIsHandled`,
`PendingCoreComesUp`), since fairness and `ENABLED` are out of the prover's reach;
the extractor and the lexer of the frontend script (`NothingIsDropped`,
`NothingIsInvented`, `LexerReadsWhatWasWritten`), whose operators are recursive.

## Disagreements between the code and what is written about it

Three are shown by a run that violates the property the text states:

* **`RollbackPort`.** `before_task` says a credential goes before its container
  (`app/policy.ex:833-834`), and `start_failed` drops the run keys of a failed
  start except on the way to a rollback (`:920`). When the rolled-back version
  needs a port and the port step fails, the operation ends there: the dead
  container's token is still registered.
* **`LostRollback`.** `docs/app-lifecycle.md:158-160` says the one recovery from
  a start that died or overran is a cleanup stop by name. The start of a
  rollback that dies or overruns fails at once (`app/policy.ex:934-937`), and a
  container that came up is left running, unknown, under the recorded version.
* **`RememberedResume`.** A resume that arrives during a stop is remembered
  (`app/orchestrator.ex:254-255`). A second shutdown may join that stop; when
  the stop ends, the second caller is told that everything is down
  (`:290-294`) while the remembered resume boots. The comment at `:227` and
  `host/shutdown.ex:20-22` promise a stop that holds until the power-off.

Two more of the kind were met at Core. The run `Core` excuses them, by a
constant and in a property, where a reader can take the excuse away:

* **Boot hands a start to a Provisioner that is not yet through with
  `expand_data`.** The cast is handled before `{:provision_core, version,
  stops}`, whose newer reading of the stops replaces the one that was handed
  over (`provisioner.ex:201-203`), so the retried start undoes a stop that came
  in between. `provisioner.ex:131-135` and `app/core_unit.ex:95-97` promise a
  retry until Core is stopped after the reading the *caller* took. With
  `ExpandOutlasts = TRUE` in `Core.cfg` TLC finds `Promise` violated.
* **A shutdown that fails leaves an absent Core to nobody.** Its stop counts, so
  the pull that waits in the Provisioner ends (`provisioner.ex:605-607`). The
  boot that follows finds the image absent, logs that the Provisioner pulls it
  and does nothing (`app/core_unit.ex:64-66`). Nothing pulls it until the device
  boots again. `PendingCoreComesUp` excuses it in the last line of `Excused`.

One was met in the frontend script, and the run `Scripts` excuses it by one operator,
`MCFrontend!CanHide`:

* **A request whose type is out of sight is dropped.** `supervisor_object`
  (`frontend_hassio_endpoints.py:601-616`) knows the type as a literal, a
  once-declared constant or a member of an object of the file. In
  `let T = "supervisor/api"; callWS({type: T, endpoint: "/host/info"});
  supervisorUrl("/jobs");` the first request leaves no entry, and the script exits
  0 because the second left one. A file whose request object is imported is not
  even looked at. The docstring says that anything not resolved "fails closed" as
  a raw entry (`:40-44`), and `:602-603` that the object is read leniently "so a
  request with an unresolvable member is still caught". It also concedes (`:13-17`)
  that a lexer cannot follow every way to build a request, and names the pinned
  hashes as the guard, which do not speak of a file that never matched. With
  `CanHide` replaced by `FALSE` TLC finds `NothingIsDropped` violated by 40 of the
  programs. Without the test for silent files in `WriteFixture` it finds two more,
  which the excuse does not cover.

Others were met while modelling, and the model does what the code does:

* `core/lifecycle.ex:499-501` says that with Core absent a shutdown's stop moves
  no counter; `do_stop` counts it (`:532-536`).
* `core_hassio_surface.py:20-24` promises a failure for every view whose URL
  cannot be read; a class-level `url: str = "..."` is an annotated assignment
  and is not looked at (`:104`).
* `core_hassio_surface.py:148-149` collects constants over all files; two files
  that give one name two values are read with the later one's.
* `frontend_hassio_endpoints.py:181-187` takes a slash after `)` for a division,
  so that in `if (x) /"/.test(y)` the quote opens a string.

* A halt that pre-empts an uninstall, or the cleanup of an uninstall whose stop
  died, keeps the app, whose ingress keys the uninstall had dropped
  (`app/policy.ex:835-841`, `app-lifecycle.md:147-148`).
* A restore records the app as wanted stopped before it starts it again; a halt
  in between leaves that in memory, so a resume does not start the app, though
  a reboot would (`app/policy.ex:965`, `app-lifecycle.md:381`).
* A `settled` timer that fires while an operation is at work is postponed and
  clears the count after it, whatever the operation did to the container
  (`app/server.ex:338-340`, `app/policy.ex:255`, `app-lifecycle.md:173-175`).
* An unhealthy verdict and the exit it leads to count two of the five attempts
  (`app/policy.ex:336-343`, `app-lifecycle.md:187`).
* A `start` of a running app whose image cannot be fetched records `failed` and
  revokes the token of the container that runs (`app/policy.ex:908`, `:947`).
* The documentation has `:ignore` for a file that does not load, and `:refused`
  is what `app/server.ex:103-113` does; its step tables leave out
  `ensure_image`; and it says that Core's unit never creates Core.

## What the models leave out

*App process.* Events pushed to Core; the health loop of engines without
healthchecks; service and discovery posts; the settings other than options and
watchdog, and the writes of those two that fail; prechecks that refuse a
command and commands that are answered without a change; the rivalry for ports
beyond one taken while the process was down; backoff lengths; the content of
images, options and archives; the `protected` flag. A native app's broker is
its one "container" and its `:DOWN` an exit event. The saves of one handler
succeed or fail together. A killed task has no effect on the engine after its
death: this is an assumption on the engine, not a fact of the code. A process that
starts with a port that is another app's drops the port and rewrites its file; when
that write fails the code answers `:ignore` and the app stays without a process
(`app/server.ex:117-137`), while in the model that write succeeds.

*Orchestrator.* The list of running containers and what the boot rule decides
(every app is wanted started); `follow_firmware`; reporting. An app process
that restarts inside a boot is left out, since the code ignores its
announcement by design (`app-lifecycle.md:389-398`). `CoreDownOnceAnswered` is
checked without crashes of the orchestrator and without overruns: after a crash
between the spawn of Core's unit and its taking the lock, Core may start beside
the stop. Core's stop is one step, with its failure: past its deadline the code
leaves it stopping beside the earlier group (`app/orchestrator.ex:618-633`), where it
can only take Core down. The apps a group halts are those there when it is halted;
the code lists them once when the stop begins (`:585-588`), and none is installed
or started under the flag that is not in that list or refused. `EveryAppIsRuled` too: a stop task that outlives a crash may halt
apps after the shutdown was abandoned. Both are listed under `hazards`.

*Core.* The safe-mode marker, the migration of the stored port and the HTTP
parameters, which change no step; what the container specification holds;
the fetch of the latest version, which is a constant; the clocks (a death or an
action may fall out of its window whenever it is looked at) and the backoff's
delays; what `expand_data` does; a crash of the whole VM, and with it a version
recorded a moment too late (`core/lifecycle.ex:717-718`); restarts of the
watchdog's processes. A killed operation has no effect after its death, as for
apps, and an engine call that fails has none on the container: a stop or restart
that acted but whose answer timed out is not there (`core/lifecycle.ex:527`, `:550`),
nor is it counted in the code. An update has a target and is permitted: the refusal
of one above the supported version (`:640`) and of an update to the latest version
while none is known (`:662-667`) come before any effect. The advertised latest
version is capped at the supported one (`Supported.latest`). The shutdown's stop waits for Core's unit to be
waiting or done; a unit that outlasted its stage and is still at work when the stop
takes the lock is in `Orchestrator` (`Overruns`) and not here. The probe's look at
the container and its request to the API are one instant, so a slow Core that heals
by itself between the two is not there. A user awaits one answer before the next
call.

*Scripts.* The wording of a raw entry and the JSON printed; the download and the
hash of the pinned sources; the syntax trees, which are Python's. `CoreSurface`
reads `websocket_command` alone, as the code does, so a command registered by the
three-argument `async_register_command` is outside what is promised. Programs
leave out: an imported name declared again in an inner scope, a request object
mutated after its literal, and two `type` keys in one schema, of which the code
takes the first. `dump_aiohasupervisor_contract.py` prints what reflection on a
foreign package says; there is nothing between two steps in it.

*Not modelled at all*: the components marked so in `PROJECT.json`, each with
its reason. Most are I/O around a small state; the others are the plan.

## Plan

In this order, each with its module, its abstract specification and its runs.

1. Done: the app process and the orchestrator; Core's lifecycle with the
   watchdog, boot and the Provisioner, and the refinement of `CorePromise`; the
   refinement of `AppPromise`; the contract scripts.
2. `Permits` (container host): permits conserved when holders or waiters die,
   no pull after a shutdown began, no waiter starves.
3. `DiscoveryPush`: abstract specification a set of pending posts; order per
   service and nothing but the oldest posts shed.
4. `EngineEvents` (reconnect, and the listing that makes up for what was missed,
   which may fail) composed with what an app process believes, which replaces the
   assumption that no event is lost by one on listings.
5. `Jobs` and `Backups` over several apps; `PortMigration` as a crash-restart
   model.

Runs are shared between components where their questions fit, as now.

Every safety property that a passing run checks is a theorem, some under the
hypotheses stated above, but for those of the frontend script. Theorems worth proving next come with the models above: permits
conserved, and `BeliefIsRight` with a stream that may lose events.
