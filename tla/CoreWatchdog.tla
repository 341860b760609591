---------------------------- MODULE CoreWatchdog ----------------------------
(***************************************************************************)
(* The two halves of Core's watchdog.  Vagus.Core.Watchdog.Probe asks      *)
(* Core's API at each tick: two misses in a row restart Core; after        *)
(* MaxReanimations restarts without StableTicks healthy ticks in a row, one*)
(* rebuild, and then it gives up.  Vagus.Core.Watchdog rebuilds a Core     *)
(* that crashes DieThreshold times within a window.  Each acts in a task,  *)
(* one at a time, and neither waits for Core's lock.                       *)
(*                                                                         *)
(* Left out: the clocks.  A death may fall out of its window, and an action*)
(* out of the limiter's, whenever one is looked at.                        *)
(***************************************************************************)
EXTENDS CoreLifecycle

CONSTANTS
    MaxReanimations, StableTicks, DieThreshold, MaxActions,
    MaxKills,      \* bound: tasks that time out or die
    MaxToggles,    \* bound: flips of the watchdog option
    MaxCrashes     \* bound: times Core's process crashes or hangs

ASSUME LadderAssumption ==
    {MaxReanimations, StableTicks, DieThreshold, MaxActions} \subseteq Nat \ {0}
ASSUME WatchBoundsAssumption == {MaxKills, MaxToggles, MaxCrashes} \subseteq Nat

VARIABLES
    option,        \* the persisted watchdog option
    toggled,       \* :watchdog_changed is in the probe's mailbox
    misses, reanimations, streak, given_up,
    action,        \* the probe's task: what it is to do and whether it has called
    deaths,        \* crash events not yet handled
    dies, actions, \* timestamps in the windows
    loop,          \* the event half's task, as `action`
    kills, toggles, crashes

wdVars == <<option, toggled, misses, reanimations, streak, given_up, action, deaths, dies,
            actions, loop, kills, toggles, crashes>>

Tasks == [kind : {"restart", "rebuild"}, called : BOOLEAN]
NoTask == [kind |-> "none", called |-> FALSE]
Misses == 2

WdTypeOK ==
    /\ option \in BOOLEAN /\ toggled \in BOOLEAN /\ given_up \in BOOLEAN
    /\ misses \in 0..Misses /\ reanimations \in 0..MaxReanimations /\ streak \in 0..StableTicks
    /\ action \in Tasks \cup {NoTask} /\ loop \in Tasks \cup {NoTask}
    /\ deaths \in 0..MaxCrashes /\ dies \in 0..(DieThreshold - 1) /\ actions \in 0..MaxActions
    /\ kills \in 0..MaxKills /\ toggles \in 0..MaxToggles /\ crashes \in 0..MaxCrashes

ProbeStarts ==
    /\ option \in BOOLEAN /\ toggled = FALSE
    /\ misses = 0 /\ reanimations = 0 /\ streak = 0 /\ given_up = FALSE /\ action = NoTask
LoopStarts == deaths = 0 /\ dies = 0 /\ actions = 0 /\ loop = NoTask
WdInit == ProbeStarts /\ LoopStarts /\ kills = 0 /\ toggles = 0 /\ crashes = 0

eventVars == <<deaths, dies, actions, loop>>
ladderVars == <<misses, reanimations, streak, given_up>>
boundVars == <<kills, toggles, crashes>>

-----------------------------------------------------------------------------
(* Around them: the user flips the option, Core crashes or hangs.  The     *)
(* engine starts a crashed Core again by its own restart policy.           *)

Toggle ==
    /\ toggles < MaxToggles /\ toggles' = toggles + 1
    /\ option' = ~option /\ toggled' = TRUE
    /\ UNCHANGED <<ladderVars, action, eventVars, kills, crashes, lcVars>>

Crash ==
    /\ box.up /\ crashes < MaxCrashes /\ crashes' = crashes + 1
    /\ \/ deaths' = deaths + 1 /\ \E sick \in BOOLEAN : box' = [box EXCEPT !.sick = sick]
       \/ ~box.sick /\ box' = [box EXCEPT !.sick = TRUE] /\ UNCHANGED deaths
    /\ UNCHANGED <<option, toggled, ladderVars, action, dies, actions, loop, kills, toggles>>
    /\ UNCHANGED <<installed, images, stops, shutting, op, answers, failures>>

-----------------------------------------------------------------------------
(* The probe.                                                              *)

(* handle_info({:token_store, :watchdog_changed}, ...): the ladder starts  *)
(* over, whatever its task is doing.                                       *)
Revive ==
    /\ toggled /\ toggled' = FALSE
    /\ misses' = 0 /\ reanimations' = 0 /\ streak' = 0 /\ given_up' = FALSE
    /\ UNCHANGED <<option, action, eventVars, boundVars, lcVars>>

Healthy ==
    /\ misses' = 0
    /\ streak' = IF streak < StableTicks THEN streak + 1 ELSE streak
    /\ reanimations' = IF streak' = StableTicks THEN 0 ELSE reanimations
    /\ UNCHANGED action

Unhealthy ==
    /\ streak' = 0
    /\ misses' = IF misses < Misses THEN misses + 1 ELSE misses
    /\ UNCHANGED reanimations
    /\ action' = IF misses' < Misses THEN NoTask
                 ELSE [kind |-> IF reanimations >= MaxReanimations THEN "rebuild" ELSE "restart",
                       called |-> FALSE]

(* run_tick/1; a tick that skips changes nothing.                          *)
Tick ==
    /\ ~given_up /\ action = NoTask /\ option /\ box.up
    /\ IF box.sick THEN Unhealthy ELSE Healthy
    /\ UNCHANGED <<option, toggled, given_up, eventVars, boundVars, lcVars>>

ActionCalls ==
    /\ action # NoTask /\ ~action.called
    /\ Call("probe", action.kind, Attended, None)
    /\ action' = [action EXCEPT !.called = TRUE]
    /\ UNCHANGED <<option, toggled, ladderVars, eventVars, boundVars>>

(* Broken: a restart that found Core busy counts as one.                   *)
BusyCounts(answer) == answer # "none"
Counts(answer) == answer # "busy"

(* handle_action_result/3 *)
HandleActionResult ==
    /\ action.called /\ answers["probe"] # "none" /\ Read("probe")
    /\ action' = NoTask
    /\ IF ~Counts(answers["probe"]) THEN UNCHANGED <<misses, reanimations, given_up>>
       ELSE /\ misses' = 0
            /\ given_up' = (given_up \/ action.kind = "rebuild")
            /\ reanimations' = IF action.kind = "restart" /\ reanimations < MaxReanimations
                               THEN reanimations + 1 ELSE reanimations
    /\ UNCHANGED <<option, toggled, streak, eventVars, boundVars>>
    /\ UNCHANGED <<box, installed, images, stops, shutting, op, failures>>

(* Past :attempt_timeout_ms the call is killed, within the lock or not, and*)
(* answers {:error, :timeout}.                                             *)
ActionTimesOut ==
    /\ action.called /\ answers["probe"] = "none" /\ op.who = "probe"
    /\ kills < MaxKills /\ kills' = kills + 1
    /\ op' = Idle /\ answers' = [answers EXCEPT !["probe"] = "failed"]
    /\ UNCHANGED <<option, toggled, ladderVars, action, eventVars, toggles, crashes>>
    /\ UNCHANGED <<box, installed, images, stops, shutting, failures>>

(* Broken: a task that is gone stays the probe's.                          *)
ActionDownStays ==
    /\ action # NoTask /\ answers["probe"] = "none"
    /\ kills < MaxKills /\ kills' = kills + 1
    /\ Abandon("probe") /\ UNCHANGED action
    /\ UNCHANGED <<option, toggled, ladderVars, eventVars, toggles, crashes>>

(* The task goes down, or is killed at its deadline: nothing is counted.   *)
ActionDown ==
    /\ action # NoTask /\ answers["probe"] = "none"
    /\ kills < MaxKills /\ kills' = kills + 1
    /\ Abandon("probe") /\ action' = NoTask
    /\ UNCHANGED <<option, toggled, ladderVars, eventVars, toggles, crashes>>

-----------------------------------------------------------------------------
(* The event half.                                                         *)

(* Broken: one death more is needed.                                       *)
LoopingLate(count) == count > DieThreshold
Looping(count) == count >= DieThreshold

(* handle_die/2, count_die/2 and trigger_rebuild/3.                        *)
HandleDie ==
    /\ deaths > 0 /\ deaths' = deaths - 1
    /\ IF loop # NoTask \/ ~option THEN UNCHANGED <<dies, actions, loop>>
       ELSE \E recent \in 0..dies, acted \in 0..actions :
              IF ~Looping(recent + 1)
              THEN dies' = recent + 1 /\ UNCHANGED <<actions, loop>>
              ELSE /\ dies' = 0
                   /\ IF acted >= MaxActions THEN actions' = acted /\ UNCHANGED loop
                      ELSE /\ actions' = acted + 1
                           /\ loop' = [kind |-> "rebuild", called |-> FALSE]
    /\ UNCHANGED <<option, toggled, ladderVars, action, boundVars, lcVars>>

LoopCalls ==
    /\ loop # NoTask /\ ~loop.called
    /\ Call("events", "rebuild", Attended, None)
    /\ loop' = [loop EXCEPT !.called = TRUE]
    /\ UNCHANGED <<option, toggled, ladderVars, action, deaths, dies, actions, boundVars>>

HandleLoopResult ==
    /\ loop.called /\ answers["events"] # "none" /\ Read("events")
    /\ loop' = NoTask
    /\ UNCHANGED <<option, toggled, ladderVars, action, deaths, dies, actions, boundVars>>
    /\ UNCHANGED <<box, installed, images, stops, shutting, op, failures>>

(* The task goes down, is killed at its deadline, or its call times out.   *)
LoopDown ==
    /\ loop # NoTask /\ answers["events"] = "none"
    /\ kills < MaxKills /\ kills' = kills + 1
    /\ Abandon("events") /\ loop' = NoTask
    /\ UNCHANGED <<option, toggled, ladderVars, action, deaths, dies, actions, toggles, crashes>>

-----------------------------------------------------------------------------

ActionStep == ActionCalls \/ HandleActionResult
LoopStep == HandleDie \/ LoopCalls \/ HandleLoopResult
WdStep == Revive \/ Tick \/ ActionStep \/ LoopStep
WdFault == Toggle \/ Crash \/ ActionTimesOut \/ ActionDown \/ LoopDown
=============================================================================
