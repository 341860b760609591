----------------------------- MODULE CoreSafety -----------------------------
(***************************************************************************)
(* For every value of its constants: Core's types hold; Core keeps         *)
(* CorePromise, if boot reaches Core after expand_data; Core's operations  *)
(* heal what others left; and the probe's ladder climbs on restarts that   *)
(* happened.                                                               *)
(***************************************************************************)
EXTENDS Core, TLAPS

(* What the types rest on: the pulls are of versions, and no more deaths   *)
(* wait than there were crashes.                                           *)
LcTyped ==
    /\ LcTypeOK
    /\ op.kind = "update" => op.target \in Versions
    /\ op.at = "pull" => op.kind = "update"
CbTyped == CbTypeOK /\ ("pull" \in mail \/ prov = "pulling" => prov_version \in Versions)
WdTyped == WdTypeOK /\ deaths <= crashes
Typed == LcTyped /\ CbTyped /\ WdTyped /\ ran \in Nat

-----------------------------------------------------------------------------
(* The lifecycle.                                                          *)

LEMMA CallTyped ==
  ASSUME LcTyped, NEW who \in Callers, NEW kind \in Kinds, NEW seen \in Int,
         NEW target \in Versions \cup {None}, kind = "update" => target \in Versions,
         Call(who, kind, seen, target)
  PROVE LcTyped'
<1>1. CASE op = Idle
  <2>1. op' = [who |-> who, kind |-> kind, at |-> "begin", seen |-> seen, target |-> target,
               prev |-> None, was |-> FALSE]
    BY <1>1 DEF Call, Idle
  <2>2. op' \in Ops /\ op'.kind = kind /\ op'.target = target /\ op'.at = "begin"
    BY <2>1 DEF Ops, Steps
  <2>3. answers' \in [Callers -> Answers]
    BY <1>1 DEF Call, LcTyped, LcTypeOK, Answers
  <2> QED
    BY <2>2, <2>3 DEF Call, LcTyped, LcTypeOK
<1>2. CASE op # Idle
  <2>1. op' = op /\ answers' \in [Callers -> Answers]
    BY <1>2 DEF Call, LcTyped, LcTypeOK, Answers
  <2> QED
    BY <2>1 DEF Call, LcTyped, LcTypeOK
<1> QED
  BY <1>1, <1>2

LEMMA GoTyped ==
  ASSUME LcTyped, op # Idle, NEW step \in Steps, Go(step), step = "pull" => op.kind = "update"
  PROVE /\ op' \in Ops /\ answers' \in [Callers -> Answers]
        /\ op'.kind = "update" => op'.target \in Versions
        /\ op'.at = "pull" => op'.kind = "update"
<1>1. op \in [who : Callers, kind : Kinds, at : Steps, seen : Int, target : Versions \cup {None},
              prev : Versions \cup {None}, was : BOOLEAN]
  BY DEF LcTyped, LcTypeOK, Ops
<1>2. op' \in [who : Callers, kind : Kinds, at : Steps, seen : Int, target : Versions \cup {None},
               prev : Versions \cup {None}, was : BOOLEAN]
      /\ op'.kind = op.kind /\ op'.target = op.target /\ op'.at = step
  BY <1>1 DEF Go
<1> QED
  BY <1>2 DEF Go, LcTyped, LcTypeOK, Ops

LEMMA FinishTyped ==
  ASSUME LcTyped, NEW answer \in Answers, Finish(answer)
  PROVE /\ op' \in Ops /\ answers' \in [Callers -> Answers]
        /\ op'.kind = "update" => op'.target \in Versions
        /\ op'.at = "pull" => op'.kind = "update"
BY DEF Finish, LcTyped, LcTypeOK, Ops, Idle

LEMMA FailsTyped ==
  ASSUME LcTyped, Fails \/ Works
  PROVE failures' \in 0..MaxFailures
BY FailuresAssumption DEF Fails, Works, LcTyped, LcTypeOK

OpTyped ==
    /\ op \in Ops /\ answers \in [Callers -> Answers]
    /\ op.kind = "update" => op.target \in Versions
    /\ op.at = "pull" => op.kind = "update"

LEMMA UndoTyped ==
  ASSUME LcTyped, op # Idle, NEW step \in Steps \ {"pull"}, Undo(step)
  PROVE OpTyped'
<1>1. "failed" \in Answers
  BY DEF Answers
<1>2. CASE Finish("failed")
  BY <1>1, <1>2, FinishTyped DEF OpTyped
<1>3. CASE Go(step)
  BY <1>3, GoTyped DEF OpTyped
<1> QED
  BY <1>2, <1>3 DEF Undo

LEMMA BoxTyped ==
  ASSUME LcTyped
  PROVE /\ Absent \in Boxes
        /\ \A v \in Versions \cup {None} : Created(v) \in Boxes
        /\ [box EXCEPT !.up = FALSE, !.sick = FALSE] \in Boxes
        /\ \A s \in BOOLEAN : [box EXCEPT !.up = TRUE, !.sick = s] \in Boxes
        /\ \A s \in BOOLEAN : [box EXCEPT !.sick = s] \in Boxes
BY DEF Absent, Created, Boxes, LcTyped, LcTypeOK

LEMMA OpRecord ==
  ASSUME LcTyped, op # Idle
  PROVE /\ op.who \in Callers /\ op.kind \in Kinds /\ op.at \in Steps /\ op.seen \in Int
        /\ op.target \in Versions \cup {None} /\ op.prev \in Versions \cup {None}
        /\ op.was \in BOOLEAN
BY DEF LcTyped, LcTypeOK, Ops

LEMMA LcStepTyped == ASSUME LcTyped, LcStep PROVE LcTyped'
<1> USE DEF At
<1>a. /\ {"failed", "installed", "absent", "adopted", "ok", "stopped", "shutting_down"} \subseteq Answers
      /\ {"pull", "inspect", "stop_old", "remove", "create", "start", "record",
          "gate", "undo_stop", "undo_remove", "undo_create", "undo_start", "undo_record"} \subseteq Steps
  BY DEF Answers, Steps
<1>b. SUFFICES /\ OpTyped' /\ box' \in Boxes /\ installed' \in Versions \cup {None}
               /\ images' \subseteq Versions /\ stops' \in Nat /\ shutting' \in BOOLEAN
               /\ failures' \in 0..MaxFailures
  BY DEF LcTyped, LcTypeOK, OpTyped
<1>c. /\ box \in Boxes /\ installed \in Versions \cup {None} /\ images \subseteq Versions
      /\ stops \in Nat /\ shutting \in BOOLEAN /\ failures \in 0..MaxFailures
  BY DEF LcTyped, LcTypeOK
<1>d. ASSUME NEW s \in Steps \ {"pull"}, op # Idle, Go(s) PROVE OpTyped'
  BY <1>d, GoTyped DEF OpTyped
<1>e. ASSUME NEW a \in Answers, Finish(a) PROVE OpTyped'
  BY <1>e, FinishTyped DEF OpTyped
<1>1. CASE Begin
  <2>1. op.kind = "update" /\ op.target # installed /\ Go("pull") => OpTyped'
    BY <1>1, <1>a, GoTyped DEF Begin, OpTyped
  <2>2. op.kind = "start" /\ Allowed(op.seen) # "ok" /\ Finish(Allowed(op.seen)) => OpTyped'
    BY <1>a, <1>e DEF Allowed
  <2>3. OpTyped'
    BY <1>1, <1>a, <1>d, <1>e, <2>1, <2>2 DEF Begin
  <2> QED
    BY <1>1, <1>c, <2>3 DEF Begin, Untouched, Works
<1>2. CASE Adopt
  <2>1. OpTyped'
    BY <1>2, <1>a, <1>e DEF Adopt
  <2>2. installed' \in Versions \cup {None}
    BY <1>2, <1>c DEF Adopt, Boxes
  <2> QED
    BY <1>2, <1>c, <2>1, <2>2, FailsTyped DEF Adopt
<1>3. CASE Stop
  <2>1. OpTyped'
    BY <1>3, <1>a, <1>e DEF Stop
  <2>2. box' \in Boxes
    BY <1>3, <1>c, BoxTyped, Zenon DEF Stop
  <2>3. stops' \in Nat
    BY <1>3, <1>c DEF Stop
  <2> QED
    BY <1>3, <1>c, <2>1, <2>2, <2>3, FailsTyped DEF Stop
<1>4. CASE Restart
  <2>1. OpTyped'
    BY <1>4, <1>a, <1>d, <1>e DEF Restart
  <2> QED
    BY <1>4, <1>c, <2>1, FailsTyped, BoxTyped DEF Restart
<1>5. CASE Pull
  <2>1. OpTyped'
    BY <1>5, <1>a, <1>d, <1>e DEF Pull
  <2>2. images' \subseteq Versions
    BY <1>5, <1>c DEF Pull, LcTyped
  <2> QED
    BY <1>5, <1>c, <2>1, <2>2, FailsTyped DEF Pull
<1>6. CASE Inspect
  <2>1. ASSUME op' = [op EXCEPT !.at = "stop_old", !.prev = installed, !.was = box.up],
               UNCHANGED answers
        PROVE OpTyped'
    <3>1. op \in [who : Callers, kind : Kinds, at : Steps, seen : Int, target : Versions \cup {None},
                  prev : Versions \cup {None}, was : BOOLEAN] /\ box.up \in BOOLEAN
      BY <1>6, <1>c DEF LcTyped, LcTypeOK, Ops, Inspect, Boxes
    <3>2. op' \in [who : Callers, kind : Kinds, at : Steps, seen : Int, target : Versions \cup {None},
                   prev : Versions \cup {None}, was : BOOLEAN]
          /\ op'.kind = op.kind /\ op'.target = op.target /\ op'.at = "stop_old"
      BY <1>a, <1>c, <2>1, <3>1
    <3> QED
      BY <2>1, <3>2 DEF OpTyped, LcTyped, LcTypeOK, Ops
  <2>2. OpTyped'
    BY <1>6, <1>a, <1>d, <1>e, <2>1 DEF Inspect
  <2> QED
    BY <1>6, <1>c, <2>2, FailsTyped DEF Inspect, Untouched
<1>7. CASE StopOld
  <2>1. OpTyped'
    BY <1>7, <1>a, <1>d, <1>e DEF StopOld
  <2> QED
    BY <1>7, <1>c, <2>1, FailsTyped, BoxTyped DEF StopOld
<1>8. CASE Remove
  <2>1. OpTyped'
    BY <1>8, <1>a, <1>d, <1>e DEF Remove
  <2> QED
    BY <1>8, <1>c, <2>1, FailsTyped, BoxTyped DEF Remove
<1>9. CASE Create
  <2>1. OpTyped'
    BY <1>9, <1>a, <1>d, UndoTyped DEF Create
  <2>2. box' \in Boxes
    BY <1>9, <1>c, BoxTyped, OpRecord DEF Create
  <2> QED
    BY <1>9, <1>c, <2>1, <2>2, FailsTyped DEF Create
<1>10. CASE StartBox
  <2>1. OpTyped'
    BY <1>10, <1>a, <1>d, UndoTyped DEF StartBox
  <2> QED
    BY <1>10, <1>c, <2>1, FailsTyped, BoxTyped DEF StartBox
<1>11. CASE Record
  <2>1. OpTyped'
    BY <1>11, <1>a, <1>d, <1>e DEF Record
  <2> QED
    BY <1>11, <1>c, <2>1, OpRecord DEF Record, Works
<1>12. CASE Gate
  <2>1. OpTyped'
    BY <1>12, <1>a, <1>e, UndoTyped DEF Gate
  <2> QED
    BY <1>12, <1>c, <2>1 DEF Gate, Untouched, Works
<1>13. CASE UndoStop
  <2>1. OpTyped'
    BY <1>13, <1>a, <1>d, <1>e DEF UndoStop
  <2> QED
    BY <1>13, <1>c, <2>1, FailsTyped, BoxTyped DEF UndoStop
<1>14. CASE UndoRemove
  <2>1. OpTyped'
    BY <1>14, <1>a, <1>d, <1>e DEF UndoRemove
  <2> QED
    BY <1>14, <1>c, <2>1, FailsTyped, BoxTyped DEF UndoRemove
<1>15. CASE UndoCreate
  <2>1. OpTyped'
    BY <1>15, <1>a, <1>d, <1>e DEF UndoCreate
  <2> QED
    BY <1>15, <1>c, <2>1, FailsTyped, BoxTyped, OpRecord DEF UndoCreate
<1>16. CASE UndoStart
  <2>1. OpTyped'
    BY <1>16, <1>a, <1>d, <1>e DEF UndoStart
  <2> QED
    BY <1>16, <1>c, <2>1, FailsTyped, BoxTyped DEF UndoStart
<1>17. CASE UndoRecord
  <2>1. OpTyped'
    BY <1>17, <1>a, <1>e DEF UndoRecord
  <2> QED
    BY <1>17, <1>c, <2>1, OpRecord DEF UndoRecord, Works
<1> QED
  BY <1>1, <1>2, <1>3, <1>4, <1>5, <1>6, <1>7, <1>8, <1>9, <1>10, <1>11, <1>12, <1>13,
     <1>14, <1>15, <1>16, <1>17 DEF LcStep

LEMMA ReadTyped ==
  ASSUME LcTyped, NEW who, Read(who),
         UNCHANGED <<box, installed, images, stops, shutting, op, failures>>
  PROVE LcTyped'
BY DEF Read, LcTyped, LcTypeOK, Answers

LEMMA StillTyped == ASSUME LcTyped, UNCHANGED lcVars PROVE LcTyped'
BY DEF lcVars, LcTyped, LcTypeOK

LEMMA AbandonTyped == ASSUME LcTyped, NEW who, Abandon(who) PROVE LcTyped'
BY DEF Abandon, LcTyped, LcTypeOK, Ops, Idle

-----------------------------------------------------------------------------
(* Boot, the Provisioner, the shutdown and the user.                       *)

LEMMA CallersTyped ==
  /\ "user" \in Callers /\ "unit" \in Callers /\ "prov" \in Callers /\ "shutdown" \in Callers
  /\ "probe" \in Callers /\ "events" \in Callers /\ "nobody" \notin Callers
  /\ {"adopt", "start", "stop", "restart", "rebuild", "update"} = Kinds
  /\ Attended \in Int /\ None \in Versions \cup {None} /\ Latest \in Versions
BY CallersAssumption, LatestAssumption DEF Kinds, Attended

LEMMA CbLcTyped ==
  ASSUME LcTyped, CbTyped, CbStep \/ CbFault
  PROVE LcTyped'
<1> USE CallersTyped
<1>1. CASE UnitStep
  <2>1. CASE UnitAdopts
    BY <2>1, CallTyped DEF UnitAdopts
  <2>2. CASE UnitAdopted
    BY <2>2, CallTyped, ReadTyped DEF UnitAdopted
  <2>3. CASE UnitReadsStops
    BY <2>3, StillTyped DEF UnitReadsStops
  <2>4. CASE UnitCreates
    BY <2>4, CallTyped, StillTyped DEF UnitCreates, CbTyped, CbTypeOK
  <2>5. CASE UnitStarted
    BY <2>5, ReadTyped DEF UnitStarted
  <2> QED
    BY <1>1, <2>1, <2>2, <2>3, <2>4, <2>5 DEF UnitStep
<1>2. CASE ProvStep
  <2>1. CASE Provision \/ TakeOver \/ AwaitEngine \/ AwaitInternet \/ AttemptPull
    BY <2>1, StillTyped DEF Provision, TakeOver, AwaitEngine, AwaitInternet, AttemptPull
  <2>2. CASE AttemptUpdate
    BY <2>2, CallTyped DEF AttemptUpdate
  <2>3. CASE Pulled
    <3>1. images' \subseteq Versions
      BY <2>3 DEF Pulled, CbTyped, LcTyped, LcTypeOK
    <3> QED
      BY <2>3, <3>1, FailsTyped DEF Pulled, LcTyped, LcTypeOK
  <2>4. CASE AttemptStart
    BY <2>4, CallTyped, StillTyped DEF AttemptStart, CbTyped, CbTypeOK
  <2>5. CASE HandleStart \/ HandleUpdate
    BY <2>5, ReadTyped DEF HandleStart, HandleUpdate, ProvReads
  <2> QED
    BY <1>2, <2>1, <2>2, <2>3, <2>4, <2>5 DEF ProvStep, ChainStep
<1>3. CASE GoStep
  BY <1>3, CallTyped, ReadTyped DEF GoStep, ShutdownStops, ShutdownStopped
<1>4. CASE UserCalls
  <2>1. PICK kind \in Kinds \ {"adopt"}, v \in Versions :
            Call("user", kind, Attended, IF kind = "update" THEN v ELSE None)
    BY <1>4 DEF UserCalls
  <2> QED
    BY <2>1, CallTyped
<1>5. CASE HandlerRaises
  BY <1>5, AbandonTyped DEF HandlerRaises
<1>6. CASE Shutdown \/ Resume
  BY <1>6 DEF Shutdown, Resume, LcTyped, LcTypeOK
<1> QED
  BY <1>1, <1>2, <1>3, <1>4, <1>5, <1>6 DEF CbStep, CbFault

LEMMA CbCbTyped ==
  ASSUME LcTyped, CbTyped, CbStep \/ CbFault
  PROVE CbTyped'
<1> USE DEF CbTyped, CbTypeOK, provVars, cbBounds
<1>1. /\ stops \in Nat /\ installed \in Versions \cup {None}
      /\ None \notin Versions
  BY VersionsAssumption DEF LcTyped, LcTypeOK, None
<1>2. CASE UnitStep
  BY <1>1, <1>2 DEF UnitStep, UnitAdopts, UnitAdopted, UnitReadsStops, UnitCreates, UnitStarted, Units
<1>3. CASE ProvStep
  <2> USE DEF ProvKeeps, Handles, Sends, Messages, Handlers
  <2>1. CASE Provision
    BY <1>1, <2>1 DEF Provision, Attended
  <2>2. CASE TakeOver
    BY <2>2 DEF TakeOver, Attended
  <2>3. CASE AwaitEngine
    BY <2>3 DEF AwaitEngine
  <2>4. CASE AwaitInternet
    BY <2>4 DEF AwaitInternet
  <2>5. CASE AttemptUpdate
    BY <2>5 DEF AttemptUpdate
  <2>6. CASE AttemptPull
    BY <2>6 DEF AttemptPull
  <2>7. CASE Pulled
    BY <2>7 DEF Pulled
  <2>8. CASE AttemptStart
    BY <2>8 DEF AttemptStart
  <2>9. CASE HandleStart
    BY <2>9 DEF HandleStart
  <2>10. CASE HandleUpdate
    BY <2>10 DEF HandleUpdate
  <2> QED
    BY <1>3, <2>1, <2>2, <2>3, <2>4, <2>5, <2>6, <2>7, <2>8, <2>9, <2>10 DEF ProvStep, ChainStep
<1>4. CASE GoStep
  BY <1>4 DEF GoStep, ShutdownStops, ShutdownStopped
<1>5. CASE CbFault
  BY <1>5, BootBoundsAssumption DEF CbFault, UserCalls, HandlerRaises, Shutdown, Resume, Handlers, Units
<1> QED
  BY <1>2, <1>3, <1>4, <1>5 DEF CbStep

-----------------------------------------------------------------------------
(* The watchdog.                                                           *)

LEMMA WdLcTyped ==
  ASSUME LcTyped, WdTyped, WdStep \/ WdFault
  PROVE LcTyped'
<1> USE CallersTyped
<1>1. CASE Revive \/ Tick
  BY <1>1, StillTyped DEF Revive, Tick
<1>2. CASE ActionCalls
  <2>1. action.kind \in {"restart", "rebuild"}
    BY <1>2 DEF ActionCalls, WdTyped, WdTypeOK, Tasks
  <2> QED
    BY <1>2, <2>1, CallTyped DEF ActionCalls
<1>3. CASE HandleActionResult
  BY <1>3, ReadTyped DEF HandleActionResult
<1>4. CASE HandleDie
  BY <1>4, StillTyped DEF HandleDie
<1>5. CASE LoopCalls
  BY <1>5, CallTyped DEF LoopCalls
<1>6. CASE HandleLoopResult
  BY <1>6, ReadTyped DEF HandleLoopResult
<1>7. CASE Toggle
  BY <1>7, StillTyped DEF Toggle
<1>8. CASE Crash
  BY <1>8, BoxTyped DEF Crash, LcTyped, LcTypeOK
<1>9. CASE ActionTimesOut
  BY <1>9 DEF ActionTimesOut, LcTyped, LcTypeOK, Ops, Idle, Answers
<1>10. CASE ActionDown \/ LoopDown
  BY <1>10, AbandonTyped DEF ActionDown, LoopDown
<1> QED
  BY <1>1, <1>2, <1>3, <1>4, <1>5, <1>6, <1>7, <1>8, <1>9, <1>10
  DEF WdStep, WdFault, ActionStep, LoopStep

WdFlags == option \in BOOLEAN /\ toggled \in BOOLEAN /\ given_up \in BOOLEAN
WdTasks == action \in Tasks \cup {NoTask} /\ loop \in Tasks \cup {NoTask}
WdCounts ==
    /\ misses \in 0..Misses /\ reanimations \in 0..MaxReanimations /\ streak \in 0..StableTicks
    /\ deaths \in 0..MaxCrashes /\ dies \in 0..(DieThreshold - 1) /\ actions \in 0..MaxActions
    /\ kills \in 0..MaxKills /\ toggles \in 0..MaxToggles /\ crashes \in 0..MaxCrashes
    /\ deaths <= crashes

LEMMA WdParts == WdTyped <=> WdFlags /\ WdTasks /\ WdCounts
BY DEF WdTyped, WdTypeOK, WdFlags, WdTasks, WdCounts

LEMMA WdPartsNext == WdTyped' <=> WdFlags' /\ WdTasks' /\ WdCounts'
BY DEF WdTyped, WdTypeOK, WdFlags, WdTasks, WdCounts

LEMMA TaskTyped ==
  ASSUME NEW kind \in {"restart", "rebuild"}, NEW c \in BOOLEAN
  PROVE [kind |-> kind, called |-> c] \in Tasks \cup {NoTask}
BY DEF Tasks

LEMMA WdTasksTyped ==
  ASSUME WdTyped, WdStep \/ WdFault
  PROVE WdTasks'
<1> USE DEF WdTasks, ladderVars, eventVars, boundVars
<1>a. WdTasks
  BY WdParts
<1>1. CASE Revive \/ Toggle \/ Crash \/ ActionTimesOut
  BY <1>a, <1>1 DEF Revive, Toggle, Crash, ActionTimesOut
<1>2. CASE Tick
  <2>1. action' \in Tasks \cup {NoTask}
    BY <1>a, <1>2, TaskTyped DEF Tick, Healthy, Unhealthy
  <2> QED
    BY <1>a, <1>2, <2>1 DEF Tick
<1>3. CASE ActionCalls
  <2>1. action' \in Tasks
    BY <1>a, <1>3 DEF ActionCalls, Tasks
  <2> QED
    BY <1>a, <1>3, <2>1 DEF ActionCalls
<1>4. CASE HandleActionResult \/ ActionDown
  BY <1>a, <1>4 DEF HandleActionResult, ActionDown
<1>5. CASE HandleDie
  BY <1>a, <1>5, TaskTyped DEF HandleDie
<1>6. CASE LoopCalls
  <2>1. loop' \in Tasks
    BY <1>a, <1>6 DEF LoopCalls, Tasks
  <2> QED
    BY <1>a, <1>6, <2>1 DEF LoopCalls
<1>7. CASE HandleLoopResult \/ LoopDown
  BY <1>a, <1>7 DEF HandleLoopResult, LoopDown
<1> QED
  BY <1>1, <1>2, <1>3, <1>4, <1>5, <1>6, <1>7 DEF WdStep, WdFault, ActionStep, LoopStep

LEMMA WdFlagsTyped ==
  ASSUME WdTyped, WdStep \/ WdFault
  PROVE WdFlags'
<1> USE DEF WdFlags, ladderVars, eventVars, boundVars
<1>a. WdFlags
  BY WdParts
<1>1. CASE WdStep
  <2>1. option' = option /\ (toggled' = toggled \/ toggled' = FALSE)
        /\ (given_up' = given_up \/ given_up' \in BOOLEAN)
    BY <1>1 DEF WdStep, ActionStep, LoopStep, Revive, Tick, ActionCalls, HandleActionResult, HandleDie,
                LoopCalls, HandleLoopResult
  <2> QED
    BY <1>a, <2>1
<1>2. CASE WdFault
  <2>1. (option' = option \/ option' \in BOOLEAN) /\ (toggled' = toggled \/ toggled' = TRUE)
        /\ given_up' = given_up
    BY <1>2 DEF WdFault, Toggle, Crash, ActionTimesOut, ActionDown, LoopDown
  <2> QED
    BY <1>a, <2>1
<1> QED
  BY <1>1, <1>2

LEMMA WdCountsTyped ==
  ASSUME WdTyped, WdStep \/ WdFault
  PROVE WdCounts'
<1> USE DEF WdCounts, ladderVars, eventVars, boundVars
<1>a. /\ MaxReanimations \in Nat \ {0} /\ StableTicks \in Nat \ {0} /\ DieThreshold \in Nat \ {0}
      /\ MaxActions \in Nat \ {0} /\ MaxKills \in Nat /\ MaxToggles \in Nat /\ MaxCrashes \in Nat
  BY LadderAssumption, WatchBoundsAssumption
<1>b. WdCounts
  BY WdParts
<1>1. CASE Revive
  BY <1>a, <1>b, <1>1 DEF Revive, Misses
<1>2. CASE Tick
  <2>1. CASE Unhealthy
    BY <1>a, <1>b, <1>2, <2>1 DEF Tick, Unhealthy, Misses
  <2>2. CASE Healthy
    BY <1>a, <1>b, <1>2, <2>2 DEF Tick, Healthy, Misses
  <2> QED
    BY <1>2, <2>1, <2>2 DEF Tick
<1>3. CASE ActionCalls \/ LoopCalls \/ HandleLoopResult
  BY <1>b, <1>3 DEF ActionCalls, LoopCalls, HandleLoopResult
<1>4. CASE HandleActionResult
  BY <1>a, <1>b, <1>4 DEF HandleActionResult, Misses
<1>5. CASE HandleDie
  <2>1. deaths' \in 0..MaxCrashes /\ deaths' <= crashes
    BY <1>a, <1>b, <1>5 DEF HandleDie
  <2>2. dies' \in 0..(DieThreshold - 1) /\ actions' \in 0..MaxActions
    BY <1>a, <1>b, <1>5 DEF HandleDie, Looping
  <2> QED
    BY <1>b, <1>5, <2>1, <2>2 DEF HandleDie
<1>6. CASE Toggle
  BY <1>a, <1>b, <1>6 DEF Toggle
<1>7. CASE Crash
  BY <1>a, <1>b, <1>7 DEF Crash
<1>8. CASE ActionTimesOut \/ ActionDown \/ LoopDown
  BY <1>a, <1>b, <1>8 DEF ActionTimesOut, ActionDown, LoopDown
<1> QED
  BY <1>1, <1>2, <1>3, <1>4, <1>5, <1>6, <1>7, <1>8 DEF WdStep, WdFault, ActionStep, LoopStep

LEMMA WdWdTyped == ASSUME WdTyped, WdStep \/ WdFault PROVE WdTyped'
BY WdFlagsTyped, WdTasksTyped, WdCountsTyped, WdPartsNext

-----------------------------------------------------------------------------

LEMMA InitTyped == ASSUME Init PROVE Typed
<1>1. LcTyped
  <2>1. op = Idle /\ op.kind = "none" /\ op.at = "begin"
    BY DEF Init, LcInit, Idle
  <2>2. answers \in [Callers -> Answers] /\ stops \in Nat /\ failures \in 0..MaxFailures
    BY FailuresAssumption DEF Init, LcInit, Answers
  <2>3. box \in Boxes /\ installed \in Versions \cup {None} /\ images \subseteq Versions
        /\ shutting \in BOOLEAN
    BY DEF Init, LcInit
  <2>4. op \in Ops
    BY <2>1 DEF Ops
  <2> QED
    BY <2>1, <2>2, <2>3, <2>4 DEF LcTyped, LcTypeOK
<1>2. CbTyped
  BY BootBoundsAssumption
  DEF Init, CbInit, BootBegins, CbTyped, CbTypeOK, Units, Messages, Handlers, Attended
<1>3. WdTyped
  <2>1. WdFlags /\ WdTasks
    BY DEF Init, WdInit, ProbeStarts, LoopStarts, WdFlags, WdTasks
  <2>2. WdCounts
    BY LadderAssumption, WatchBoundsAssumption
    DEF Init, WdInit, ProbeStarts, LoopStarts, WdCounts, Misses
  <2> QED
    BY <2>1, <2>2, WdParts
<1> QED
  BY <1>1, <1>2, <1>3 DEF Typed, Init

LEMMA RanTyped == ASSUME ran \in Nat, Ran PROVE ran' \in Nat
BY DEF Ran

(* A step is the lifecycle's, boot's or the watchdog's.                    *)
LEMMA Steps3 ==
  ASSUME Next
  PROVE /\ Ran
        /\ \/ LcStep /\ UNCHANGED <<wdVars, cbVars>>
           \/ (CbStep \/ CbFault) /\ UNCHANGED wdVars
           \/ (WdStep \/ WdFault) /\ UNCHANGED cbVars
BY DEF Next, Engine, Unit, Provisioner, Going, Ticks, Toggled, Action, Loop, Faults, CbStep,
       WdStep

LEMMA NextTyped == ASSUME Typed, [Next]_vars PROVE Typed'
<1>1. CASE UNCHANGED vars
  BY <1>1 DEF vars, lcVars, wdVars, cbVars, provVars, Typed, LcTyped, LcTypeOK, CbTyped, CbTypeOK,
              WdTyped, WdTypeOK
<1>2. CASE Next
  <2>1. ran' \in Nat
    BY <1>2, Steps3, RanTyped DEF Typed
  <2>2. UNCHANGED wdVars => WdTyped'
    BY DEF wdVars, Typed, WdTyped, WdTypeOK
  <2>3. UNCHANGED cbVars => CbTyped'
    BY DEF cbVars, provVars, Typed, CbTyped, CbTypeOK
  <2>4. CASE LcStep /\ UNCHANGED <<wdVars, cbVars>>
    BY <2>1, <2>2, <2>3, <2>4, LcStepTyped DEF Typed
  <2>5. CASE (CbStep \/ CbFault) /\ UNCHANGED wdVars
    BY <2>1, <2>2, <2>5, CbLcTyped, CbCbTyped DEF Typed
  <2>6. CASE (WdStep \/ WdFault) /\ UNCHANGED cbVars
    BY <2>1, <2>3, <2>6, WdLcTyped, WdWdTyped DEF Typed
  <2> QED
    BY <1>2, <2>4, <2>5, <2>6, Steps3
<1> QED
  BY <1>1, <1>2

(* The types hold: no operation pulls, creates or records anything but a   *)
(* version, no count of the watchdog passes its maximum, and the           *)
(* Provisioner's chain never pulls without a version.                      *)
THEOREM CoreTypeCorrect == Spec => []TypeOK
<1>1. Typed => TypeOK
  BY DEF Typed, LcTyped, CbTyped, WdTyped, TypeOK
<1>2. Init => Typed
  BY InitTyped
<1>3. Typed /\ [Next]_vars => Typed'
  BY NextTyped
<1> QED
  BY <1>1, <1>2, <1>3, PTL DEF Spec

-----------------------------------------------------------------------------
(* What the others read of the lifecycle, and when. *)

(* No reading is of a stop to come.                                        *)
Readings == unit_seen <= stops /\ prov_seen <= stops /\ handed <= stops

(* Whose start has the lock, or waits for its answer, and with which       *)
(* reading.                                                                *)
Holding ==
    /\ op.who = "unit" => unit \in {"adopting", "starting", "creating"} /\ answers["unit"] = "none"
    /\ op.who = "prov" => prov \in {"updating", "starting"} /\ answers["prov"] = "none"
    /\ op.seen # Attended =>
         /\ op.kind = "start"
         /\ \/ op.who = "unit" /\ unit = "creating" /\ op.seen = unit_seen
            \/ op.who = "prov" /\ prov = "starting" /\ op.seen = prov_seen

(* The flag is up from a shutdown's beginning to its failure, and once its *)
(* stop has Core's lock no unit is at work.                                *)
Closing ==
    /\ shutting = (going # "no")
    /\ going \in {"stopping", "call"} => unit \in {"waiting", "done"}

(* The Provisioner's first message comes before boot reaches Core.         *)
FirstPass ==
    "run" \in mail => unit = "waiting" /\ handed = Attended /\ mail = {"run"} /\ prov = "idle"

Keeping == Typed /\ Readings /\ Holding /\ Closing /\ FirstPass

-----------------------------------------------------------------------------
(* The lifecycle.                                                          *)

(* What a step of the lifecycle is to the others: the operation ends or    *)
(* goes on; before its first engine call it may be a stop or be refused.   *)
Refused == op.at = "begin" /\ op' = Idle /\ box' = box /\ stops' = stops
Stopped == op.at = "begin" /\ op' = Idle /\ box'.up = FALSE /\ stops' = stops + 1
GoesOn == op'.at # "begin" /\ op'.who = op.who /\ op'.kind = op.kind /\ op'.seen = op.seen
          /\ op' # Idle /\ answers' = answers /\ stops' = stops
Taken == op.at = "begin" /\ GoesOn /\ box'.up \in {box.up, TRUE}
         /\ (op.kind # "start" \/ Allowed(op.seen) = "ok")
Worked == op.at # "begin" /\ stops' = stops /\ (op' = Idle \/ GoesOn)

LEMMA GoOn ==
  ASSUME LcTyped, op # Idle, NEW step \in Steps \ {"begin"}, Go(step), stops' = stops
  PROVE GoesOn
<1>1. /\ op \in [who : Callers, kind : Kinds, at : Steps, seen : Int, target : Versions \cup {None},
                 prev : Versions \cup {None}, was : BOOLEAN]
  BY DEF LcTyped, LcTypeOK, Ops
<1>2. op' = [op EXCEPT !.at = step]
  BY DEF Go
<1>3. op'.at = step /\ op'.who = op.who /\ op'.kind = op.kind /\ op'.seen = op.seen
  BY <1>1, <1>2
<1>4. op' # Idle
  BY <1>3 DEF Idle
<1> QED
  BY <1>3, <1>4 DEF GoesOn, Go

LEMMA LcEffect ==
  ASSUME LcTyped, LcStep
  PROVE op # Idle /\ shutting' = shutting /\ (Refused \/ Stopped \/ Taken \/ Worked)
<1> USE DEF At
<1>f. ASSUME NEW a, Finish(a) PROVE op' = Idle
  BY <1>f DEF Finish
<1>a. {"pull", "inspect", "stop_old", "remove", "create", "start", "record",
       "gate", "undo_stop", "undo_remove", "undo_create", "undo_start", "undo_record"}
      \subseteq Steps \ {"begin"}
  BY DEF Steps
<1>b. op # Idle /\ shutting' = shutting
  BY DEF LcStep, Begin, Adopt, Stop, Restart, Pull, Inspect, StopOld, Remove, Create, StartBox,
         Record, Gate, UndoStop, UndoRemove, UndoCreate, UndoStart, UndoRecord, Untouched
<1>c. ASSUME op.at # "begin", stops' = stops, NEW s \in Steps \ {"begin"}, Go(s) PROVE Worked
  BY <1>b, <1>c, GoOn DEF Worked
<1>d. ASSUME op.at # "begin", stops' = stops, op' = Idle PROVE Worked
  BY <1>d DEF Worked
<1>e. ASSUME op.at # "begin", stops' = stops, NEW s \in Steps \ {"begin"}, Undo(s) PROVE Worked
  BY <1>c, <1>d, <1>e, <1>f DEF Undo
<1>1. CASE Begin
  <2>1. stops' = stops /\ box' = box
    BY <1>1 DEF Begin, Untouched
  <2>2. CASE op' = Idle
    <3>1. op.at = "begin"
      BY <1>1 DEF Begin
    <3> QED
      BY <1>b, <2>1, <2>2, <3>1 DEF Refused
  <2>3. CASE op.kind = "start" /\ Allowed(op.seen) = "ok" /\ Go("inspect")
    BY <1>1, <1>a, <1>b, <2>1, <2>3, GoOn DEF Begin, Taken
  <2>4. CASE op.kind \in {"rebuild", "update"} /\ (Go("inspect") \/ Go("pull"))
    <3>1. GoesOn
      BY <1>a, <1>b, <2>1, <2>4, GoOn
    <3>2. op.at = "begin" /\ box'.up = box.up
      BY <1>1, <2>1 DEF Begin
    <3> QED
      BY <1>b, <2>4, <3>1, <3>2 DEF Taken
  <2> QED
    BY <1>1, <1>b, <1>f, <2>2, <2>3, <2>4 DEF Begin
<1>2. CASE Adopt
  BY <1>2, <1>b, <1>f DEF Adopt, Refused
<1>3. CASE Stop
  <2>1. op.at = "begin" /\ op' = Idle
    BY <1>3, <1>f DEF Stop
  <2>2. CASE stops' = stops + 1 /\ box' = [box EXCEPT !.up = FALSE, !.sick = FALSE]
    <3>1. box'.up = FALSE
      BY <2>2 DEF LcTyped, LcTypeOK, Boxes
    <3> QED
      BY <1>b, <2>1, <2>2, <3>1 DEF Stopped
  <2>3. CASE box' = box /\ stops' = stops
    BY <1>b, <2>1, <2>3 DEF Refused
  <2> QED
    BY <1>3, <1>b, <2>2, <2>3 DEF Stop
<1>4. CASE Restart
  <2>1. CASE op' = Idle /\ box' = box
    BY <1>4, <2>1 DEF Restart, Refused
  <2>2. CASE Go("gate") /\ box'.up = TRUE
    BY <1>4, <1>a, <1>b, <2>2, GoOn DEF Restart, Taken
  <2>3. ASSUME \E sick \in BOOLEAN : box' = [box EXCEPT !.up = TRUE, !.sick = sick]
        PROVE box'.up = TRUE
    BY <2>3 DEF LcTyped, LcTypeOK, Boxes
  <2> QED
    BY <1>4, <1>b, <1>f, <2>1, <2>2, <2>3 DEF Restart
<1>5. CASE Pull
  BY <1>5, <1>a, <1>c, <1>d, <1>f DEF Pull
<1>6. CASE Inspect
  <2>1. stops' = stops /\ op.at # "begin"
    BY <1>6 DEF Inspect, Untouched
  <2>2. ASSUME op' = [op EXCEPT !.at = "stop_old", !.prev = installed, !.was = box.up],
               UNCHANGED answers
        PROVE Worked
    <3>1. op \in [who : Callers, kind : Kinds, at : Steps, seen : Int, target : Versions \cup {None},
                  prev : Versions \cup {None}, was : BOOLEAN]
      BY <1>b DEF LcTyped, LcTypeOK, Ops
    <3>2. op'.at = "stop_old" /\ op'.who = op.who /\ op'.kind = op.kind /\ op'.seen = op.seen
      BY <2>2, <3>1
    <3>3. op' # Idle
      BY <3>2 DEF Idle
    <3> QED
      BY <2>1, <2>2, <3>2, <3>3 DEF Worked, GoesOn
  <2> QED
    BY <1>6, <1>a, <1>b, <1>c, <1>d, <1>f, <2>1, <2>2 DEF Inspect
<1>7. CASE StopOld \/ Remove \/ Record \/ UndoStop \/ UndoRemove \/ UndoCreate \/ UndoStart \/ UndoRecord
  BY <1>7, <1>a, <1>c, <1>d, <1>f
  DEF StopOld, Remove, Record, UndoStop, UndoRemove, UndoCreate, UndoStart, UndoRecord
<1>8. CASE Create \/ StartBox \/ Gate
  BY <1>8, <1>a, <1>c, <1>d, <1>e, <1>f DEF Create, StartBox, Gate, Untouched
<1> QED
  BY <1>b, <1>1, <1>2, <1>3, <1>4, <1>5, <1>6, <1>7, <1>8 DEF LcStep

-----------------------------------------------------------------------------
(* The steps of CorePromise, in the words of Core.                         *)

PromiseStep == [Abstract!Next]_(Abstract!promiseVars)
SameCore == box'.up = box.up /\ Owner' = Owner
SameEngagements == Owed' = Owed /\ Fresh' = Fresh

LEMMA Stutters ==
  ASSUME SameCore, SameEngagements, shutting' = shutting PROVE PromiseStep
BY DEF PromiseStep, Abstract!promiseVars, SameCore, SameEngagements

LEMMA Engages ==
  ASSUME NEW s \in Starters, s \notin Owed, SameCore, shutting' = shutting,
         Owed' = Owed \cup {s}, Fresh' = Fresh \cup {s}
  PROVE PromiseStep
BY DEF PromiseStep, Abstract!Next, Abstract!Engage, Abstract!Core, SameCore

LEMMA Hands ==
  ASSUME NEW s \in Starters, NEW r \in Starters, s \in Owed, SameCore, shutting' = shutting,
         Owed' = (Owed \ {s}) \cup {r},
         Fresh' = (Fresh \ {s, r}) \cup (IF s \in Fresh THEN {r} ELSE {})
  PROVE PromiseStep
BY DEF PromiseStep, Abstract!Next, Abstract!Hand, Abstract!Core, SameCore

LEMMA Drops ==
  ASSUME NEW s \in Starters, s \in Owed, SameCore, shutting' = shutting,
         Owed' = Owed \ {s}, Fresh' = Fresh \ {s}
  PROVE PromiseStep
BY DEF PromiseStep, Abstract!Next, Abstract!Drop, Abstract!Core, SameCore

LEMMA Takes ==
  ASSUME NEW c \in Callers, NEW attended \in BOOLEAN, SameEngagements, shutting' = shutting,
         Owner = Abstract!Nobody, Owner' = [who |-> c, attended |-> attended],
         attended \/ (c \in Fresh /\ ~shutting), box'.up \in {box.up, TRUE}
  PROVE PromiseStep
BY DEF PromiseStep, Abstract!Next, Abstract!Take, Abstract!Engagements, SameEngagements

LEMMA Works2 ==
  ASSUME Owner # Abstract!Nobody, box'.up \in BOOLEAN, shutting' = shutting,
         \/ Owner' \in {Owner, Abstract!Nobody} /\ SameEngagements
         \/ /\ Owner' = Abstract!Nobody
            /\ Owed' = Owed \ {Owner.who} /\ Fresh' = Fresh \ {Owner.who}
  PROVE PromiseStep
BY DEF PromiseStep, Abstract!Next, Abstract!Work, Abstract!Engagements, SameEngagements

LEMMA Stops ==
  ASSUME Owner = Abstract!Nobody, Owner' = Owner, box'.up = FALSE, shutting' = shutting,
         Owed' = Owed, Fresh' = {}
  PROVE PromiseStep
BY DEF PromiseStep, Abstract!Next, Abstract!Stop

LEMMA Closes ==
  ASSUME SameCore, SameEngagements, shutting \in BOOLEAN, shutting' = ~shutting PROVE PromiseStep
BY DEF PromiseStep, Abstract!Next, Abstract!Close, Abstract!Core, Abstract!Engagements, SameCore,
       SameEngagements

LEMMA WhoOwes ==
  \A s :
    /\ s \in Owed <=>
         \/ s = "unit" /\ UnitOwes
         \/ s = "cast" /\ CastOwes
         \/ s = "prov" /\ ProvOwes
    /\ s \in Fresh <=>
         \/ s = "unit" /\ UnitOwes /\ unit_seen = stops
         \/ s = "cast" /\ handed = stops
         \/ s = "prov" /\ ProvOwes /\ prov_seen = stops
BY DEF Owed, Fresh, If

LEMMA WhoOwesNext ==
  \A s :
    /\ s \in Owed' <=>
         \/ s = "unit" /\ UnitOwes'
         \/ s = "cast" /\ CastOwes'
         \/ s = "prov" /\ ProvOwes'
    /\ s \in Fresh' <=>
         \/ s = "unit" /\ UnitOwes' /\ unit_seen' = stops'
         \/ s = "cast" /\ handed' = stops'
         \/ s = "prov" /\ ProvOwes' /\ prov_seen' = stops'
BY DEF Owed, Fresh, If

LEMMA SameOwes ==
  ASSUME UNCHANGED <<unit, unit_seen, handed, mail, prov, prov_seen, stops>>
  PROVE SameEngagements
BY DEF SameEngagements, Owed, Fresh, If, UnitOwes, CastOwes, ProvOwes

LEMMA Ownership ==
  ASSUME LcTyped
  PROVE /\ op = Idle \/ op.at = "begin" => Owner = Abstract!Nobody
        /\ op # Idle /\ op.at # "begin" =>
             /\ Owner = [who |-> op.who, attended |-> op.seen = Attended]
             /\ Owner # Abstract!Nobody /\ Owner.who = op.who
<1>1. ASSUME op # Idle, op.at # "begin" PROVE op.who # "nobody"
  BY <1>1, OpRecord, CallersAssumption
<1> QED
  BY <1>1 DEF Owner, Abstract!Nobody

LEMMA OwnershipNext ==
  /\ op' = Idle \/ op'.at = "begin" => Owner' = Abstract!Nobody
  /\ op' # Idle /\ op'.at # "begin" => Owner' = [who |-> op'.who, attended |-> op'.seen = Attended]
BY DEF Owner, Abstract!Nobody

-----------------------------------------------------------------------------
(* What one step of a caller is to the lifecycle.                          *)

LEMMA CallDoes ==
  ASSUME LcTyped, NEW who \in Callers, NEW kind, NEW seen, NEW target, Call(who, kind, seen, target)
  PROVE /\ SameCore /\ stops' = stops /\ shutting' = shutting
        /\ \A c \in Callers \ {who} : answers'[c] = answers[c]
        /\ \/ /\ op = Idle /\ op'.who = who /\ op'.kind = kind /\ op'.seen = seen
              /\ answers'[who] = "none"
           \/ op # Idle /\ op' = op /\ answers'[who] = "busy"
<1>1. answers \in [Callers -> Answers]
  BY DEF LcTyped, LcTypeOK
<1>2. \A c \in Callers \ {who} : answers'[c] = answers[c]
  BY <1>1 DEF Call
<1>3. box' = box /\ stops' = stops /\ shutting' = shutting
  BY DEF Call
<1>4. CASE op = Idle
  <2>1. op' = [who |-> who, kind |-> kind, at |-> "begin", seen |-> seen, target |-> target,
               prev |-> None, was |-> FALSE]
    BY <1>4 DEF Call, Idle
  <2>2. Owner' = Owner
    BY <1>4, <2>1 DEF Owner
  <2>3. answers'[who] = "none"
    BY <1>1, <1>4 DEF Call
  <2> QED
    BY <1>2, <1>3, <1>4, <2>1, <2>2, <2>3 DEF SameCore
<1>5. CASE op # Idle
  <2>1. op' = op /\ Owner' = Owner
    BY <1>5 DEF Call, Owner
  <2>2. answers'[who] = "busy"
    BY <1>1, <1>5 DEF Call
  <2> QED
    BY <1>2, <1>3, <1>5, <2>1, <2>2 DEF SameCore
<1> QED
  BY <1>4, <1>5

LEMMA ReadDoes ==
  ASSUME LcTyped, NEW who \in Callers, Read(who),
         UNCHANGED <<box, installed, images, stops, shutting, op, failures>>
  PROVE /\ SameCore /\ stops' = stops /\ shutting' = shutting /\ op' = op
        /\ answers'[who] = "none" /\ \A c \in Callers \ {who} : answers'[c] = answers[c]
<1>1. SameCore
  BY DEF SameCore, Owner
<1> QED
  BY <1>1 DEF Read, LcTyped, LcTypeOK

LEMMA StillDoes ==
  ASSUME UNCHANGED lcVars
  PROVE SameCore /\ stops' = stops /\ shutting' = shutting /\ op' = op /\ answers' = answers
BY DEF lcVars, SameCore, Owner

LEMMA IdleHolds ==
  /\ Idle.who = "nobody" /\ Idle.seen = Attended /\ Idle.who # "unit" /\ Idle.who # "prov"
BY DEF Idle

LEMMA CallerNames ==
  /\ "unit" \in Callers /\ "prov" \in Callers /\ "user" \in Callers /\ "shutdown" \in Callers
  /\ "probe" \in Callers /\ "events" \in Callers
  /\ \A who \in {"user", "shutdown", "probe", "events"} : who # "unit" /\ who # "prov"
BY CallersAssumption

(* A call of anyone else's leaves the starters' holds.                     *)
LEMMA OthersHold ==
  ASSUME LcTyped, Holding, NEW who \in {"user", "shutdown", "probe", "events"}, NEW kind, NEW target,
         Call(who, kind, Attended, target), UNCHANGED <<unit, unit_seen, prov, prov_seen>>
  PROVE Holding'
<1>1. who \in Callers /\ who # "unit" /\ who # "prov" /\ "unit" \in Callers /\ "prov" \in Callers
  BY CallerNames
<1>2. answers'["unit"] = answers["unit"] /\ answers'["prov"] = answers["prov"]
  BY <1>1, CallDoes
<1>3. \/ op'.who = who /\ op'.seen = Attended
      \/ op' = op
  BY <1>1, CallDoes
<1> QED
  BY <1>1, <1>2, <1>3 DEF Holding

LEMMA StillHolds ==
  ASSUME Holding, op' = op \/ op' = Idle,
         answers'["unit"] = answers["unit"], answers'["prov"] = answers["prov"],
         UNCHANGED <<unit, unit_seen, prov, prov_seen>>
  PROVE Holding'
BY IdleHolds DEF Holding

Keeps == Readings /\ Holding /\ Closing /\ FirstPass

-----------------------------------------------------------------------------
(* The lifecycle's own steps.                                              *)

LEMMA LcKeeps ==
  ASSUME Keeping, LcTyped', LcStep, UNCHANGED cbVars
  PROVE Keeps' /\ PromiseStep
<1>1. op # Idle /\ shutting' = shutting /\ (Refused \/ Stopped \/ Taken \/ Worked)
  BY LcEffect DEF Keeping, Typed
<1>2. UNCHANGED <<unit, unit_seen, handed, mail, prov, prov_seen, going>>
  BY DEF cbVars, provVars
<1>3. /\ stops \in Nat /\ stops' \in Nat /\ (stops' = stops \/ stops' = stops + 1)
  BY <1>1 DEF Keeping, Typed, LcTyped, LcTypeOK, Refused, Stopped, Taken, Worked, GoesOn
<1>4. /\ unit_seen \in Nat /\ prov_seen \in Nat /\ handed \in Nat \cup {Attended}
      /\ Readings /\ Holding /\ Closing /\ FirstPass /\ LcTyped
  BY DEF Keeping, Typed, CbTyped, CbTypeOK
<1>5. Readings'
  BY <1>2, <1>3, <1>4 DEF Readings, Attended
<1>6. op' = Idle \/ GoesOn
  BY <1>1 DEF Refused, Stopped, Taken, Worked
<1>7. Holding'
  BY <1>2, <1>4, <1>6, IdleHolds DEF Holding, GoesOn
<1>8. Closing' /\ FirstPass'
  BY <1>1, <1>2, <1>4 DEF Closing, FirstPass
<1>9. PromiseStep
  <2>1. CASE Refused
    <3>1. SameEngagements
      BY <1>2, <2>1, SameOwes DEF Refused
    <3>2. SameCore
      BY <1>4, <2>1, Ownership, OwnershipNext DEF Refused, SameCore
    <3> QED
      BY <1>1, <3>1, <3>2, Stutters
  <2>2. CASE Stopped
    <3>1. Owner = Abstract!Nobody /\ Owner' = Owner
      BY <1>4, <2>2, Ownership, OwnershipNext DEF Stopped
    <3>2. Owed' = Owed
      BY <1>2 DEF Owed, If, UnitOwes, CastOwes, ProvOwes
    <3>3. \A s : s \notin Fresh'
      <4>1. unit_seen' # stops' /\ handed' # stops' /\ prov_seen' # stops'
        BY <1>2, <1>3, <1>4, <2>2 DEF Readings, Stopped, Attended
      <4> QED
        BY <4>1, WhoOwesNext
    <3> QED
      BY <1>1, <2>2, <3>1, <3>2, <3>3, Stops DEF Stopped
  <2>3. CASE Taken
    <3>1. SameEngagements
      BY <1>2, <2>3, SameOwes DEF Taken, GoesOn
    <3>2. Owner = Abstract!Nobody
      BY <1>4, <2>3, Ownership DEF Taken
    <3>3. Owner' = [who |-> op.who, attended |-> op.seen = Attended]
      BY <2>3, OwnershipNext DEF Taken, GoesOn
    <3>4. ASSUME op.seen # Attended PROVE op.who \in Fresh /\ ~shutting
      <4>1. Allowed(op.seen) = "ok"
        BY <1>4, <2>3, <3>4 DEF Taken, Holding
      <4>2. ~shutting /\ stops = op.seen
        BY <3>4, <4>1 DEF Allowed
      <4>3. \/ op.who = "unit" /\ unit = "creating" /\ op.seen = unit_seen
            \/ op.who = "prov" /\ prov = "starting" /\ op.seen = prov_seen
        BY <1>4, <3>4 DEF Holding
      <4> QED
        BY <4>2, <4>3, WhoOwes DEF UnitOwes, ProvOwes
    <3>5. op.who \in Callers
      BY <1>1, <1>4, OpRecord
    <3> QED
      BY <1>1, <2>3, <3>1, <3>2, <3>3, <3>4, <3>5, Takes DEF Taken
  <2>4. CASE Worked
    <3>1. SameEngagements
      BY <1>2, <2>4, SameOwes DEF Worked
    <3>2. Owner # Abstract!Nobody /\ Owner = [who |-> op.who, attended |-> op.seen = Attended]
      BY <1>1, <1>4, <2>4, Ownership DEF Worked
    <3>3. Owner' \in {Owner, Abstract!Nobody}
      BY <2>4, <3>2, OwnershipNext DEF Worked, GoesOn
    <3>4. box'.up \in BOOLEAN
      BY DEF LcTyped, LcTypeOK, Boxes
    <3> QED
      BY <1>1, <3>1, <3>2, <3>3, <3>4, Works2
  <2> QED
    BY <1>1, <2>1, <2>2, <2>3, <2>4
<1> QED
  BY <1>5, <1>7, <1>8, <1>9 DEF Keeps

-----------------------------------------------------------------------------
(* Boot's Core unit.                                                       *)

LEMMA UnitKeeps ==
  ASSUME Keeping, ~ExpandOutlasts, UnitStep
  PROVE Keeps' /\ PromiseStep
<1>a. /\ unit_seen \in Nat /\ prov_seen \in Nat /\ handed \in Nat \cup {Attended} /\ stops \in Nat
      /\ Readings /\ Holding /\ Closing /\ FirstPass /\ LcTyped
  BY DEF Keeping, Typed, CbTyped, CbTypeOK, LcTyped, LcTypeOK
<1>b. "unit" \in Callers /\ "prov" \in Callers \ {"unit"} /\ 0 \in Int /\ Attended \notin Nat
  BY CallerNames DEF Attended
<1>c. UNCHANGED <<mail, prov, prov_seen, going>>
  BY DEF UnitStep, UnitAdopts, UnitAdopted, UnitReadsStops, UnitCreates, UnitStarted, provVars
<1>1. CASE UnitAdopts
  <2>1. Call("unit", "adopt", Attended, None) /\ unit' = "adopting" /\ unit = "waiting"
        /\ ~shutting /\ "run" \notin mail /\ UNCHANGED <<unit_seen, handed>>
    BY <1>1 DEF UnitAdopts, provVars
  <2>2. /\ SameCore /\ stops' = stops /\ shutting' = shutting /\ answers'["prov"] = answers["prov"]
        /\ \/ op'.who = "unit" /\ op'.seen = Attended /\ answers'["unit"] = "none"
           \/ op' = op
    BY <1>a, <1>b, <2>1, CallDoes
  <2>3. Holding'
    BY <1>a, <1>c, <2>1, <2>2 DEF Holding
  <2>4. Readings' /\ Closing' /\ FirstPass'
    BY <1>a, <1>c, <2>1, <2>2 DEF Readings, Closing, FirstPass
  <2>5. SameEngagements
    BY <1>c, <2>1, <2>2 DEF SameEngagements, Owed, Fresh, If, UnitOwes, CastOwes, ProvOwes
  <2> QED
    BY <2>2, <2>3, <2>4, <2>5, Stutters DEF Keeps
<1>2. CASE UnitAdopted
  <2>1. unit = "adopting" /\ answers["unit"] # "none" /\ unit' \in {"starting", "absent", "done"}
        /\ UNCHANGED <<unit_seen, handed>>
    BY <1>2 DEF UnitAdopted, provVars
  <2>2. op.who # "unit"
    BY <1>a, <2>1 DEF Holding
  <2>3. /\ SameCore /\ stops' = stops /\ shutting' = shutting /\ answers'["prov"] = answers["prov"]
        /\ \/ unit' = "starting" /\ op'.who = "unit" /\ op'.seen = Attended /\ answers'["unit"] = "none"
           \/ op' = op
    <3>1. CASE Call("unit", "start", Attended, None) /\ unit' = "starting"
      BY <1>a, <1>b, <3>1, CallDoes
    <3>2. CASE Read("unit") /\ UNCHANGED <<box, installed, images, stops, shutting, op, failures>>
      BY <1>a, <1>b, <3>2, ReadDoes
    <3> QED
      BY <1>2, <3>1, <3>2 DEF UnitAdopted
  <2>4. Holding'
    BY <1>a, <1>c, <2>1, <2>2, <2>3 DEF Holding
  <2>5. Readings' /\ Closing' /\ FirstPass'
    BY <1>a, <1>c, <2>1, <2>3 DEF Readings, Closing, FirstPass
  <2>6. SameEngagements
    BY <1>c, <2>1, <2>3 DEF SameEngagements, Owed, Fresh, If, UnitOwes, CastOwes, ProvOwes
  <2> QED
    BY <2>3, <2>4, <2>5, <2>6, Stutters DEF Keeps
<1>3. CASE UnitReadsStops
  <2>1. unit = "absent" /\ unit_seen' = stops /\ unit' = "seen" /\ UNCHANGED <<lcVars, handed>>
    BY <1>3 DEF UnitReadsStops, provVars
  <2>2. SameCore /\ stops' = stops /\ shutting' = shutting /\ op' = op /\ answers' = answers
    BY <2>1, StillDoes
  <2>3. Holding'
    BY <1>a, <1>c, <2>1, <2>2 DEF Holding
  <2>4. Readings' /\ Closing' /\ FirstPass'
    BY <1>a, <1>c, <2>1, <2>2 DEF Readings, Closing, FirstPass
  <2>5. "unit" \notin Owed /\ Owed' = Owed \cup {"unit"} /\ Fresh' = Fresh \cup {"unit"}
    BY <1>c, <2>1, <2>2 DEF Owed, Fresh, If, UnitOwes, CastOwes, ProvOwes
  <2> QED
    BY <2>2, <2>3, <2>4, <2>5, Engages DEF Keeps, Starters
<1>4. CASE UnitCreates
  <2>1. unit = "seen" /\ handed' = handed
    BY <1>4 DEF UnitCreates, provVars
  <2>2. op.who # "unit"
    BY <1>a, <2>1 DEF Holding
  <2>3. CASE unit' = "done" /\ unit_seen' = 0 /\ UNCHANGED lcVars
    <3>1. SameCore /\ stops' = stops /\ shutting' = shutting /\ op' = op /\ answers' = answers
      BY <2>3, StillDoes
    <3>2. Holding'
      BY <1>a, <1>c, <2>1, <2>2, <2>3, <3>1 DEF Holding
    <3>3. Readings' /\ Closing' /\ FirstPass'
      BY <1>a, <1>c, <2>1, <2>3, <3>1 DEF Readings, Closing, FirstPass
    <3>4. "unit" \in Owed /\ Owed' = Owed \ {"unit"} /\ Fresh' = Fresh \ {"unit"}
      BY <1>c, <2>1, <2>3, <3>1 DEF Owed, Fresh, If, UnitOwes, CastOwes, ProvOwes
    <3> QED
      BY <3>1, <3>2, <3>3, <3>4, Drops DEF Keeps, Starters
  <2>4. CASE Call("unit", "start", unit_seen, None) /\ unit' = "creating" /\ UNCHANGED unit_seen
    <3>1. /\ SameCore /\ stops' = stops /\ shutting' = shutting /\ answers'["prov"] = answers["prov"]
          /\ \/ op'.who = "unit" /\ op'.kind = "start" /\ op'.seen = unit_seen /\ answers'["unit"] = "none"
             \/ op' = op
      BY <1>a, <1>b, <2>4, CallDoes
    <3>2. Holding'
      BY <1>a, <1>c, <2>2, <2>4, <3>1 DEF Holding
    <3>3. Readings' /\ Closing' /\ FirstPass'
      BY <1>a, <1>c, <2>1, <2>4, <3>1 DEF Readings, Closing, FirstPass
    <3>4. SameEngagements
      BY <1>c, <2>1, <2>4, <3>1 DEF SameEngagements, Owed, Fresh, If, UnitOwes, CastOwes, ProvOwes
    <3> QED
      BY <3>1, <3>2, <3>3, <3>4, Stutters DEF Keeps
  <2> QED
    BY <1>4, <2>3, <2>4 DEF UnitCreates
<1>5. CASE UnitStarted
  <2>1. unit \in {"starting", "creating"} /\ unit' = "done" /\ unit_seen' = 0 /\ answers["unit"] # "none"
    BY <1>5 DEF UnitStarted
  <2>2. op.who # "unit"
    BY <1>a, <2>1 DEF Holding
  <2>3. SameCore /\ stops' = stops /\ shutting' = shutting /\ op' = op /\ answers'["prov"] = answers["prov"]
    BY <1>5, <1>a, <1>b, ReadDoes DEF UnitStarted
  <2>4. handed' = IF unit = "creating" /\ HandsOff(answers["unit"]) THEN unit_seen ELSE handed
    BY <1>5 DEF UnitStarted
  <2>5. Holding'
    BY <1>a, <1>c, <2>1, <2>2, <2>3 DEF Holding
  <2>6. Readings' /\ Closing' /\ FirstPass'
    BY <1>a, <1>c, <2>1, <2>3, <2>4 DEF Readings, Closing, FirstPass
  <2>7. CASE unit = "starting"
    <3>1. SameEngagements
      BY <1>c, <2>1, <2>3, <2>4, <2>7
      DEF SameEngagements, Owed, Fresh, If, UnitOwes, CastOwes, ProvOwes
    <3> QED
      BY <2>3, <2>5, <2>6, <3>1, Stutters DEF Keeps
  <2>8. CASE unit = "creating" /\ handed' = handed
    <3>1. "unit" \in Owed /\ Owed' = Owed \ {"unit"} /\ Fresh' = Fresh \ {"unit"}
      BY <1>c, <2>1, <2>3, <2>8 DEF Owed, Fresh, If, UnitOwes, CastOwes, ProvOwes
    <3> QED
      BY <2>3, <2>5, <2>6, <3>1, Drops DEF Keeps, Starters
  <2>9. CASE unit = "creating" /\ handed' = unit_seen
    <3>1. "unit" \in Owed
      BY <2>9, WhoOwes DEF UnitOwes
    <3>2. Owed' = (Owed \ {"unit"}) \cup {"cast"}
      BY <1>a, <1>b, <1>c, <2>1, <2>9 DEF Owed, If, UnitOwes, CastOwes, ProvOwes
    <3>3. Fresh' = (Fresh \ {"unit", "cast"}) \cup (IF "unit" \in Fresh THEN {"cast"} ELSE {})
      BY <1>a, <1>b, <1>c, <2>1, <2>3, <2>9 DEF Fresh, If, UnitOwes, ProvOwes
    <3> QED
      BY <2>3, <2>5, <2>6, <3>1, <3>2, <3>3, Hands DEF Keeps, Starters
  <2> QED
    BY <2>1, <2>4, <2>7, <2>8, <2>9
<1> QED
  BY <1>1, <1>2, <1>3, <1>4, <1>5 DEF UnitStep

-----------------------------------------------------------------------------
(* The Provisioner.                                                        *)

(* A handler that ends with the Provisioner's work goes on with it or      *)
(* drops it.                                                               *)
LEMMA ProvGoesOn ==
  ASSUME ProvOwes, SameCore, shutting' = shutting, UNCHANGED <<unit, unit_seen, handed, prov_seen, stops>>
  PROVE PromiseStep
<1>1. CASE ProvOwes'
  <2>1. SameEngagements
    BY <1>1 DEF SameEngagements, Owed, Fresh, If, UnitOwes, CastOwes
  <2> QED
    BY <2>1, Stutters
<1>2. CASE ~ProvOwes'
  <2>1. "prov" \in Owed /\ Owed' = Owed \ {"prov"} /\ Fresh' = Fresh \ {"prov"}
    BY <1>2 DEF Owed, Fresh, If, UnitOwes, CastOwes
  <2> QED
    BY <2>1, Drops DEF Starters
<1> QED
  BY <1>1, <1>2

LEMMA ProvKeeping ==
  ASSUME Keeping, ProvStep
  PROVE Keeps' /\ PromiseStep
<1>a. /\ unit_seen \in Nat /\ prov_seen \in Nat /\ handed \in Nat \cup {Attended} /\ stops \in Nat
      /\ Readings /\ Holding /\ Closing /\ FirstPass /\ LcTyped
  BY DEF Keeping, Typed, CbTyped, CbTypeOK, LcTyped, LcTypeOK
<1>b. "prov" \in Callers /\ "unit" \in Callers \ {"prov"} /\ Attended \notin Nat
  BY CallerNames DEF Attended
<1>c. UNCHANGED <<unit, unit_seen, going>>
  BY DEF ProvStep, ChainStep, Provision, TakeOver, AwaitEngine, AwaitInternet, AttemptUpdate,
         AttemptPull, Pulled, AttemptStart, HandleStart, HandleUpdate, ProvKeeps
<1>1. CASE Provision
  <2>1. /\ prov = "idle" /\ "run" \in mail /\ UNCHANGED <<lcVars, prov>>
        /\ mail' = {"engine"} \cup (IF handed = Attended THEN {} ELSE {"start"})
        /\ handed' = Attended /\ prov_seen' = stops
    BY <1>1 DEF Provision, Handles
  <2>2. handed = Attended /\ mail = {"run"} /\ mail' = {"engine"}
    BY <1>a, <2>1 DEF FirstPass
  <2>3. SameCore /\ stops' = stops /\ shutting' = shutting /\ op' = op /\ answers' = answers
    BY <2>1, StillDoes
  <2>4. Holding'
    BY <1>a, <1>c, <2>1, <2>3 DEF Holding
  <2>5. Readings' /\ Closing' /\ FirstPass'
    BY <1>a, <1>c, <2>1, <2>2, <2>3 DEF Readings, Closing, FirstPass
  <2>6. ~ProvOwes /\ ProvOwes'
    BY <2>1, <2>2 DEF ProvOwes
  <2>7. "prov" \notin Owed /\ Owed' = Owed \cup {"prov"} /\ Fresh' = Fresh \cup {"prov"}
    BY <1>c, <2>1, <2>2, <2>3, <2>6 DEF Owed, Fresh, If, UnitOwes, CastOwes
  <2> QED
    BY <2>3, <2>4, <2>5, <2>7, Engages DEF Keeps, Starters
<1>2. CASE TakeOver
  <2>1. /\ prov = "idle" /\ "run" \notin mail /\ handed # Attended /\ UNCHANGED <<lcVars, prov>>
        /\ mail' = mail \cup {"start"} /\ handed' = Attended /\ prov_seen' = handed
    BY <1>2 DEF TakeOver
  <2>2. SameCore /\ stops' = stops /\ shutting' = shutting /\ op' = op /\ answers' = answers
    BY <2>1, StillDoes
  <2>3. Holding'
    BY <1>a, <1>c, <2>1, <2>2 DEF Holding
  <2>4. Readings' /\ Closing' /\ FirstPass'
    BY <1>a, <1>c, <2>1, <2>2 DEF Readings, Closing, FirstPass, Attended
  <2>5. ProvOwes' /\ CastOwes /\ ~CastOwes'
    BY <2>1 DEF ProvOwes, CastOwes
  <2>6. "cast" \in Owed /\ Owed' = (Owed \ {"cast"}) \cup {"prov"}
    BY <1>c, <2>5 DEF Owed, If, UnitOwes
  <2>7. Fresh' = (Fresh \ {"cast", "prov"}) \cup (IF "cast" \in Fresh THEN {"prov"} ELSE {})
    BY <1>a, <1>b, <1>c, <2>1, <2>2, <2>5 DEF Fresh, If, UnitOwes
  <2> QED
    BY <2>2, <2>3, <2>4, <2>6, <2>7, Hands DEF Keeps, Starters
<1>3. ASSUME ProvOwes, "run" \notin mail, "run" \notin mail', UNCHANGED <<handed, prov_seen>>,
             SameCore, stops' = stops, shutting' = shutting, Holding'
      PROVE Keeps' /\ PromiseStep
  <2>1. Readings' /\ Closing' /\ FirstPass'
    BY <1>a, <1>c, <1>3 DEF Readings, Closing, FirstPass
  <2> QED
    BY <1>c, <1>3, <2>1, ProvGoesOn DEF Keeps
<1>e. ASSUME NEW m \in Messages \ {"run"}, Handles(m) PROVE ProvOwes /\ "run" \notin mail /\ op.who # "prov"
  BY <1>a, <1>e DEF Handles, ProvOwes, FirstPass, Holding
<1>f. ASSUME prov # "idle" PROVE ProvOwes /\ "run" \notin mail
  BY <1>a, <1>f DEF ProvOwes, FirstPass
<1>g. {"engine", "internet", "update", "pull", "start"} \subseteq Messages \ {"run"}
  BY DEF Messages
<1>h. ASSUME UNCHANGED lcVars, op.who # "prov", prov' # "starting", UNCHANGED prov_seen
      PROVE SameCore /\ stops' = stops /\ shutting' = shutting /\ Holding'
  <2>1. SameCore /\ stops' = stops /\ shutting' = shutting /\ op' = op /\ answers' = answers
    BY <1>h, StillDoes
  <2> QED
    BY <1>a, <1>c, <1>h, <2>1 DEF Holding
<1>4. CASE AwaitEngine
  <2>1. UNCHANGED <<lcVars, handed, prov, prov_seen>> /\ "run" \notin mail' /\ prov' = "idle"
        /\ ProvOwes /\ "run" \notin mail /\ op.who # "prov"
    BY <1>4, <1>e, <1>g DEF AwaitEngine, Sends, Handles
  <2> QED
    BY <1>3, <1>h, <2>1
<1>5. CASE AwaitInternet
  <2>1. UNCHANGED <<lcVars, handed, prov, prov_seen>> /\ "run" \notin mail' /\ prov' = "idle"
        /\ ProvOwes /\ "run" \notin mail /\ op.who # "prov"
    BY <1>5, <1>e, <1>g DEF AwaitInternet, Sends, Handles
  <2> QED
    BY <1>3, <1>h, <2>1
<1>6. CASE AttemptPull
  <2>1. UNCHANGED <<lcVars, handed, prov_seen>> /\ "run" \notin mail' /\ prov' # "starting"
        /\ ProvOwes /\ "run" \notin mail /\ op.who # "prov"
    BY <1>6, <1>e, <1>g DEF AttemptPull
  <2> QED
    BY <1>3, <1>h, <2>1
<1>7. CASE AttemptUpdate
  <2>1. UNCHANGED <<handed, prov_seen>> /\ "run" \notin mail' /\ prov' = "updating"
        /\ ProvOwes /\ "run" \notin mail /\ op.who # "prov" /\ Call("prov", "update", Attended, Latest)
    BY <1>7, <1>e, <1>g DEF AttemptUpdate
  <2>2. /\ SameCore /\ stops' = stops /\ shutting' = shutting /\ answers'["unit"] = answers["unit"]
        /\ \/ op'.who = "prov" /\ op'.seen = Attended /\ answers'["prov"] = "none"
           \/ op' = op
    BY <1>a, <1>b, <2>1, CallDoes
  <2>3. Holding'
    BY <1>a, <1>c, <2>1, <2>2 DEF Holding
  <2> QED
    BY <1>3, <2>1, <2>2, <2>3
<1>8. CASE Pulled
  <2>1. prov = "pulling" /\ prov' \in {"idle", "ready"} /\ "run" \notin mail'
        /\ UNCHANGED <<handed, prov_seen, box, stops, shutting, op, answers>>
    BY <1>8, <1>f DEF Pulled
  <2>2. SameCore /\ op.who # "prov"
    BY <1>a, <2>1 DEF SameCore, Owner, Holding
  <2>3. Holding'
    BY <1>a, <1>c, <2>1, <2>2 DEF Holding
  <2> QED
    BY <1>3, <1>f, <2>1, <2>2, <2>3
<1>9. CASE AttemptStart
  <2>1. UNCHANGED <<handed, prov_seen>> /\ "run" \notin mail' /\ ProvOwes /\ "run" \notin mail
        /\ op.who # "prov"
    BY <1>9, <1>a, <1>e, <1>f, <1>g DEF AttemptStart, Holding
  <2>2. CASE Call("prov", "start", prov_seen, None) /\ prov' = "starting"
    <3>1. /\ SameCore /\ stops' = stops /\ shutting' = shutting /\ answers'["unit"] = answers["unit"]
          /\ \/ op'.who = "prov" /\ op'.kind = "start" /\ op'.seen = prov_seen /\ answers'["prov"] = "none"
             \/ op' = op
      BY <1>a, <1>b, <2>2, CallDoes
    <3>2. Holding'
      BY <1>a, <1>c, <2>1, <2>2, <3>1 DEF Holding
    <3> QED
      BY <1>3, <2>1, <3>1, <3>2
  <2>3. CASE UNCHANGED lcVars /\ prov' = "idle"
    BY <1>3, <1>h, <2>1, <2>3
  <2> QED
    BY <1>9, <2>2, <2>3 DEF AttemptStart
<1>10. CASE HandleStart \/ HandleUpdate
  <2>1. UNCHANGED <<handed, prov_seen>> /\ prov' \in {"idle", "ready"} /\ prov \in {"starting", "updating"}
        /\ answers["prov"] # "none" /\ Read("prov")
        /\ UNCHANGED <<box, installed, images, stops, shutting, op, failures>>
    BY <1>10 DEF HandleStart, HandleUpdate, ProvReads
  <2>2. "run" \notin mail'
    BY <1>10, <1>f, <2>1 DEF HandleStart, HandleUpdate
  <2>3. op.who # "prov"
    BY <1>a, <2>1 DEF Holding
  <2>4. SameCore /\ stops' = stops /\ shutting' = shutting /\ op' = op /\ answers'["unit"] = answers["unit"]
    BY <1>a, <1>b, <2>1, ReadDoes
  <2>5. Holding'
    BY <1>a, <1>c, <2>3, <2>4 DEF Holding
  <2> QED
    BY <1>3, <1>f, <2>1, <2>2, <2>4, <2>5
<1> QED
  BY <1>1, <1>2, <1>4, <1>5, <1>6, <1>7, <1>8, <1>9, <1>10 DEF ProvStep, ChainStep

-----------------------------------------------------------------------------
(* The user, a handler that raises, and the shutdown.                      *)

LEMMA GoKeeps ==
  ASSUME Keeping, GoStep
  PROVE Keeps' /\ PromiseStep
<1>a. Readings /\ Holding /\ Closing /\ FirstPass /\ LcTyped /\ stops \in Nat
  BY DEF Keeping, Typed, LcTyped, LcTypeOK
<1>b. UNCHANGED <<unit, unit_seen, handed, mail, prov, prov_seen>>
  BY DEF GoStep, ShutdownStops, ShutdownStopped, provVars
<1>1. /\ SameCore /\ stops' = stops /\ shutting' = shutting /\ Holding'
      /\ going # "no" /\ going' # "no" /\ (going' # "stop" => unit \in {"waiting", "done"})
  <2>1. CASE ShutdownStops
    <3>1. Call("shutdown", "stop", Attended, None) /\ going = "stop" /\ going' = "stopping"
          /\ unit \in {"waiting", "done"}
      BY <2>1 DEF ShutdownStops
    <3> QED
      BY <1>a, <1>b, <3>1, CallDoes, OthersHold, CallerNames
  <2>2. CASE ShutdownStopped
    <3>1. /\ Read("shutdown") /\ UNCHANGED <<box, installed, images, stops, shutting, op, failures>>
          /\ going = "stopping" /\ going' \in {"stop", "call"}
      BY <2>2 DEF ShutdownStopped
    <3>2. /\ SameCore /\ stops' = stops /\ shutting' = shutting /\ op' = op
          /\ answers'["unit"] = answers["unit"] /\ answers'["prov"] = answers["prov"]
      BY <1>a, <3>1, ReadDoes, CallerNames
    <3>3. Holding'
      BY <1>a, <1>b, <3>2, StillHolds
    <3> QED
      BY <1>a, <3>1, <3>2, <3>3 DEF Closing
  <2> QED
    BY <2>1, <2>2 DEF GoStep
<1>2. Readings' /\ Closing' /\ FirstPass'
  BY <1>a, <1>b, <1>1 DEF Readings, Closing, FirstPass
<1>3. SameEngagements
  BY <1>b, <1>1, SameOwes
<1> QED
  BY <1>1, <1>2, <1>3, Stutters DEF Keeps

(* Whoever dies leaves the lock, if it had it, and Core as it is.          *)
LEMMA Dies ==
  ASSUME LcTyped, NEW who \in Callers, op' = (IF op.who = who THEN Idle ELSE op), UNCHANGED box
  PROVE \/ SameCore
        \/ /\ op.who = who /\ Owner # Abstract!Nobody /\ Owner.who = who
           /\ Owner' = Abstract!Nobody /\ box'.up \in BOOLEAN
<1>1. CASE op.who = who /\ op.at # "begin"
  <2>1. op # Idle
    BY <1>1, CallersAssumption DEF Idle
  <2>2. box'.up \in BOOLEAN
    BY DEF LcTyped, LcTypeOK, Boxes
  <2> QED
    BY <1>1, <2>1, <2>2, Ownership, OwnershipNext
<1>2. CASE op.who # who \/ op.at = "begin"
  <2>1. CASE op' = op
    BY <2>1 DEF SameCore, Owner
  <2>2. CASE op' = Idle /\ op.at = "begin"
    BY <2>2, Ownership, OwnershipNext DEF SameCore
  <2> QED
    BY <1>2, <2>1, <2>2
<1> QED
  BY <1>1, <1>2

LEMMA FaultKeeps ==
  ASSUME Keeping, CbFault
  PROVE Keeps' /\ PromiseStep
<1>a. /\ Readings /\ Holding /\ Closing /\ FirstPass /\ LcTyped /\ stops \in Nat /\ shutting \in BOOLEAN
  BY DEF Keeping, Typed, LcTyped, LcTypeOK
<1>1. CASE UserCalls
  <2>1. UNCHANGED <<unit, unit_seen, handed, mail, prov, prov_seen, going>>
    BY <1>1 DEF UserCalls, provVars
  <2>2. SameCore /\ stops' = stops /\ shutting' = shutting /\ Holding'
    <3>1. PICK kind \in Kinds \ {"adopt"}, v \in Versions :
              Call("user", kind, Attended, IF kind = "update" THEN v ELSE None)
      BY <1>1 DEF UserCalls
    <3> QED
      BY <1>a, <2>1, <3>1, CallDoes, OthersHold, CallerNames
  <2>3. Readings' /\ Closing' /\ FirstPass'
    BY <1>a, <2>1, <2>2 DEF Readings, Closing, FirstPass
  <2> QED
    BY <2>1, <2>2, <2>3, SameOwes, Stutters DEF Keeps
<1>2. CASE HandlerRaises
  <2>1. /\ UNCHANGED <<unit, unit_seen, handed, mail, prov_seen, going, box, stops, shutting, answers>>
        /\ prov # "idle" /\ prov' = "idle" /\ op' = IF op.who = "prov" THEN Idle ELSE op
    BY <1>2 DEF HandlerRaises, Abandon
  <2>2. Holding'
    BY <1>a, <2>1, IdleHolds DEF Holding
  <2>3. Readings' /\ Closing' /\ FirstPass'
    BY <1>a, <2>1 DEF Readings, Closing, FirstPass
  <2>4. ProvOwes
    BY <2>1 DEF ProvOwes
  <2>5. CASE SameCore
    BY <2>1, <2>2, <2>3, <2>4, <2>5, ProvGoesOn DEF Keeps
  <2>6. CASE Owner # Abstract!Nobody /\ Owner.who = "prov" /\ Owner' = Abstract!Nobody /\ box'.up \in BOOLEAN
    <3>1. CASE ProvOwes'
      <4>1. SameEngagements
        BY <2>1, <2>4, <3>1 DEF SameEngagements, Owed, Fresh, If, UnitOwes, CastOwes
      <4> QED
        BY <2>1, <2>2, <2>3, <2>6, <4>1, Works2 DEF Keeps
    <3>2. CASE ~ProvOwes'
      <4>1. Owed' = Owed \ {"prov"} /\ Fresh' = Fresh \ {"prov"}
        BY <2>1, <2>4, <3>2 DEF Owed, Fresh, If, UnitOwes, CastOwes
      <4> QED
        BY <2>1, <2>2, <2>3, <2>6, <4>1, Works2 DEF Keeps
    <3> QED
      BY <3>1, <3>2
  <2> QED
    BY <1>a, <2>1, <2>5, <2>6, Dies, CallerNames
<1>3. CASE Shutdown
  <2>1. /\ UNCHANGED <<unit, unit_seen, handed, mail, prov, prov_seen, box, stops, op, answers>>
        /\ going = "no" /\ going' = "stop" /\ shutting' = TRUE
    BY <1>3 DEF Shutdown, provVars
  <2>2. Keeps'
    BY <1>a, <2>1 DEF Keeps, Readings, Holding, Closing, FirstPass
  <2>3. SameCore /\ shutting' = ~shutting
    BY <1>a, <2>1 DEF SameCore, Owner, Closing
  <2> QED
    BY <1>a, <2>1, <2>2, <2>3, SameOwes, Closes
<1>4. CASE Resume
  <2>1. /\ UNCHANGED <<unit_seen, handed, mail, prov, prov_seen, box, stops, op, answers>>
        /\ going = "call" /\ going' = "no" /\ shutting' = FALSE /\ unit' = "waiting"
    BY <1>4 DEF Resume, provVars
  <2>2. unit \in {"waiting", "done"} /\ shutting
    BY <1>a, <2>1 DEF Closing
  <2>3. Keeps'
    BY <1>a, <2>1, <2>2 DEF Keeps, Readings, Holding, Closing, FirstPass
  <2>4. SameCore /\ shutting' = ~shutting
    BY <2>1, <2>2 DEF SameCore, Owner
  <2>5. SameEngagements
    BY <2>1, <2>2 DEF SameEngagements, Owed, Fresh, If, UnitOwes, CastOwes, ProvOwes
  <2> QED
    BY <1>a, <2>3, <2>4, <2>5, Closes
<1> QED
  BY <1>1, <1>2, <1>3, <1>4 DEF CbFault

-----------------------------------------------------------------------------
(* The watchdog is nobody that promises: it calls, reads its answers, dies *)
(* with the lock, and Core under it may hang.                              *)

LEMMA WdKeeps ==
  ASSUME Keeping, WdStep \/ WdFault, UNCHANGED cbVars
  PROVE Keeps' /\ PromiseStep
<1>a. /\ Readings /\ Holding /\ Closing /\ FirstPass /\ LcTyped /\ stops \in Nat
      /\ UNCHANGED <<unit, unit_seen, handed, mail, prov, prov_seen, going>>
  BY DEF Keeping, Typed, LcTyped, LcTypeOK, cbVars, provVars
<1>1. ASSUME stops' = stops, shutting' = shutting, Holding', SameCore
      PROVE Keeps' /\ PromiseStep
  <2>1. Readings' /\ Closing' /\ FirstPass'
    BY <1>a, <1>1 DEF Readings, Closing, FirstPass
  <2> QED
    BY <1>a, <1>1, <2>1, SameOwes, Stutters DEF Keeps
<1>2. ASSUME NEW who \in {"probe", "events"}, NEW kind, Call(who, kind, Attended, None)
      PROVE Keeps' /\ PromiseStep
  BY <1>a, <1>1, <1>2, CallDoes, OthersHold, CallerNames
<1>3. ASSUME NEW who \in {"probe", "events"}, Read(who),
             UNCHANGED <<box, installed, images, stops, shutting, op, failures>>
      PROVE Keeps' /\ PromiseStep
  <2>1. /\ SameCore /\ stops' = stops /\ shutting' = shutting /\ op' = op
        /\ answers'["unit"] = answers["unit"] /\ answers'["prov"] = answers["prov"]
    BY <1>a, <1>3, ReadDoes, CallerNames
  <2>2. Holding'
    BY <1>a, <2>1, StillHolds
  <2> QED
    BY <1>1, <2>1, <2>2
<1>4. ASSUME UNCHANGED lcVars PROVE Keeps' /\ PromiseStep
  <2>1. SameCore /\ stops' = stops /\ shutting' = shutting /\ op' = op /\ answers' = answers
    BY <1>4, StillDoes
  <2>2. Holding'
    BY <1>a, <2>1, StillHolds
  <2> QED
    BY <1>1, <2>1, <2>2
<1>5. ASSUME NEW who \in {"probe", "events"}, op' = (IF op.who = who THEN Idle ELSE op),
             UNCHANGED <<box, stops, shutting>>,
             answers'["unit"] = answers["unit"], answers'["prov"] = answers["prov"]
      PROVE Keeps' /\ PromiseStep
  <2>1. Holding'
    BY <1>a, <1>5, StillHolds
  <2>2. Readings' /\ Closing' /\ FirstPass'
    BY <1>a, <1>5 DEF Readings, Closing, FirstPass
  <2>3. SameEngagements
    BY <1>a, <1>5, SameOwes
  <2>4. CASE SameCore
    BY <1>5, <2>1, <2>2, <2>3, <2>4, Stutters DEF Keeps
  <2>5. CASE Owner # Abstract!Nobody /\ Owner' = Abstract!Nobody /\ box'.up \in BOOLEAN
    BY <1>5, <2>1, <2>2, <2>3, <2>5, Works2 DEF Keeps
  <2> QED
    BY <1>a, <1>5, <2>4, <2>5, Dies, CallerNames
<1>6. CASE Revive \/ Tick \/ HandleDie \/ Toggle
  BY <1>4, <1>6 DEF Revive, Tick, HandleDie, Toggle
<1>7. CASE ActionCalls \/ LoopCalls
  BY <1>2, <1>7 DEF ActionCalls, LoopCalls
<1>8. CASE HandleActionResult \/ HandleLoopResult
  BY <1>3, <1>8 DEF HandleActionResult, HandleLoopResult
<1>9. CASE Crash
  <2>1. UNCHANGED <<stops, shutting, op, answers>> /\ \E s \in BOOLEAN : box' = [box EXCEPT !.sick = s]
    BY <1>9 DEF Crash
  <2>2. box'.up = box.up
    BY <1>a, <2>1 DEF LcTyped, LcTypeOK, Boxes
  <2>3. SameCore
    BY <2>1, <2>2 DEF SameCore, Owner
  <2>4. Holding'
    BY <1>a, <2>1, StillHolds
  <2> QED
    BY <1>1, <2>1, <2>3, <2>4
<1>10. CASE ActionTimesOut
  <2>1. /\ op.who = "probe" /\ op' = Idle /\ answers' = [answers EXCEPT !["probe"] = "failed"]
        /\ UNCHANGED <<box, stops, shutting>>
    BY <1>10 DEF ActionTimesOut
  <2>2. answers'["unit"] = answers["unit"] /\ answers'["prov"] = answers["prov"]
    BY <1>a, <2>1, CallerNames DEF LcTyped, LcTypeOK
  <2> QED
    BY <1>5, <2>1, <2>2
<1>11. CASE ActionDown \/ LoopDown
  BY <1>5, <1>11 DEF ActionDown, LoopDown, Abandon
<1> QED
  BY <1>6, <1>7, <1>8, <1>9, <1>10, <1>11 DEF WdStep, WdFault, ActionStep, LoopStep

-----------------------------------------------------------------------------

LEMMA InitKeeps == ASSUME Init PROVE Keeping /\ Abstract!Init
<1>1. op = Idle /\ stops = 0 /\ shutting = FALSE /\ BootBegins
  BY DEF Init, LcInit, CbInit
<1>2. Typed
  BY InitTyped
<1>3. Holding
  BY <1>1, IdleHolds DEF Holding
<1>4. Readings /\ Closing /\ FirstPass
  <2>1. Readings
    BY <1>1 DEF BootBegins, Readings, Attended
  <2>2. Closing /\ FirstPass
    BY <1>1 DEF BootBegins, Closing, FirstPass
  <2> QED
    BY <2>1, <2>2
<1>5. box.up \in BOOLEAN
  BY DEF Init, LcInit, Boxes
<1>6. Owner = Abstract!Nobody
  BY <1>1 DEF Owner, Abstract!Nobody
<1>7. Owed = {} /\ Fresh = {}
  BY <1>1 DEF BootBegins, Owed, Fresh, If, UnitOwes, CastOwes, ProvOwes, Attended
<1> QED
  BY <1>1, <1>2, <1>3, <1>4, <1>5, <1>6, <1>7 DEF Keeping, Abstract!Init

LEMMA NextKeeps ==
  ASSUME Keeping, ~ExpandOutlasts, [Next]_vars
  PROVE Keeping' /\ PromiseStep
<1>1. Typed'
  BY NextTyped DEF Keeping
<1>2. Keeps' /\ PromiseStep
  <2>1. CASE UNCHANGED vars
    <3>1. Keeps'
      BY <2>1 DEF vars, lcVars, cbVars, provVars, Keeping, Keeps, Readings, Holding, Closing, FirstPass
    <3>2. SameCore /\ shutting' = shutting /\ SameEngagements
      BY <2>1 DEF vars, lcVars, cbVars, provVars, SameCore, Owner, SameEngagements, Owed, Fresh, If,
                  UnitOwes, CastOwes, ProvOwes
    <3> QED
      BY <3>1, <3>2, Stutters
  <2>2. CASE LcStep /\ UNCHANGED <<wdVars, cbVars>>
    BY <1>1, <2>2, LcKeeps DEF Typed
  <2>3. CASE CbStep \/ CbFault
    BY <2>3, UnitKeeps, ProvKeeping, GoKeeps, FaultKeeps DEF CbStep
  <2>4. CASE (WdStep \/ WdFault) /\ UNCHANGED cbVars
    BY <2>4, WdKeeps
  <2> QED
    BY <2>1, <2>2, <2>3, <2>4, Steps3
<1> QED
  BY <1>1, <1>2 DEF Keeping, Keeps

(* Core's lifecycle with the Core unit, the Provisioner and the shutdown   *)
(* implements CorePromise: a start nobody asked for never undoes a stop or *)
(* a shutdown that came after its starter set out, whatever the others, the*)
(* watchdog and the faults do meanwhile, if boot reaches Core after        *)
(* expand_data.                                                            *)
THEOREM PromiseKept == ~ExpandOutlasts => (Spec => Promise)
<1> SUFFICES ASSUME ~ExpandOutlasts PROVE Spec => Promise
  OBVIOUS
<1>1. Init => Keeping /\ Abstract!Init
  BY InitKeeps
<1>2. Keeping /\ [Next]_vars => Keeping' /\ [Abstract!Next]_(Abstract!promiseVars)
  BY NextKeeps DEF PromiseStep
<1> QED
  BY <1>1, <1>2, PTL DEF Spec, Promise, Abstract!Spec

-----------------------------------------------------------------------------
(* Core's operations, and the ladder of the probe.                         *)


(* What the operation with the lock has made of the container so far.      *)
Making == IF op.kind = "update" THEN op.target ELSE installed
Built ==
    /\ op.at \in {"begin", "pull", "inspect"} => ~op.was
    /\ op.at \in {"create", "start"} /\ op.kind = "update" => op.was
    /\ op.at = "start" => box.fresh /\ box.v = Making
    /\ op.at = "record" => /\ op.kind = "update"
                           /\ op.was => box.fresh /\ box.v = op.target
                           /\ ~op.was => box = Absent
    /\ op.at = "gate" /\ op.kind # "restart" =>
         /\ box.fresh /\ box.v = installed
         /\ op.kind = "update" => installed = op.target /\ op.was

LEMMA GoFields ==
  ASSUME LcTyped, op # Idle, NEW step \in Steps, Go(step)
  PROVE /\ op'.at = step /\ op'.who = op.who /\ op'.kind = op.kind /\ op'.target = op.target
        /\ op'.prev = op.prev /\ op'.was = op.was
<1>1. /\ op \in [who : Callers, kind : Kinds, at : Steps, seen : Int, target : Versions \cup {None},
                 prev : Versions \cup {None}, was : BOOLEAN]
  BY DEF LcTyped, LcTypeOK, Ops
<1> QED
  BY <1>1 DEF Go

LEMMA BoxFields ==
  ASSUME LcTyped
  PROVE /\ [box EXCEPT !.up = FALSE, !.sick = FALSE].v = box.v
        /\ \A s \in BOOLEAN : /\ [box EXCEPT !.up = TRUE, !.sick = s].v = box.v
                              /\ [box EXCEPT !.up = TRUE, !.sick = s].fresh = box.fresh
                              /\ [box EXCEPT !.sick = s].v = box.v
                              /\ [box EXCEPT !.sick = s].fresh = box.fresh
        /\ \A v : Created(v).v = v /\ Created(v).fresh
BY DEF LcTyped, LcTypeOK, Boxes, Created

LEMMA FinishDoes ==
  ASSUME LcTyped, op # Idle, NEW answer, Finish(answer)
  PROVE op' = Idle /\ answers'[op.who] = answer /\ \A c \in Callers \ {op.who} : answers'[c] = answers[c]
BY OpRecord DEF Finish, LcTyped, LcTypeOK

LEMMA IdleBuilt == ASSUME op' = Idle PROVE Built'
BY DEF Built, Idle

(* Every step but the success that Healing is about leaves it alone.       *)
LEMMA NoSuccess ==
  ASSUME op'.who = op.who \/ answers'[op.who] # "ok"
  PROVE Healing
BY DEF Healing

LEMMA LcBuilds ==
  ASSUME LcTyped, Built, LcStep
  PROVE Built' /\ Healing
<1> USE DEF At
<1>a. /\ op # Idle /\ op.who \in Callers /\ op.kind \in Kinds
      /\ {"pull", "inspect", "stop_old", "remove", "create", "start", "record",
          "gate", "undo_stop", "undo_remove", "undo_create", "undo_start", "undo_record"} \subseteq Steps
  <2>1. op # Idle
    BY DEF LcStep, Begin, Adopt, Stop, Restart, Pull, Inspect, StopOld, Remove, Create, StartBox,
           Record, Gate, UndoStop, UndoRemove, UndoCreate, UndoStart, UndoRecord
  <2> QED
    BY <2>1, OpRecord DEF Steps
<1>b. ASSUME NEW answer, answer # "ok", Finish(answer) PROVE Built' /\ Healing
  BY <1>a, <1>b, FinishDoes, IdleBuilt, NoSuccess
<1>c. ASSUME NEW step \in Steps, Go(step) PROVE Healing
  BY <1>a, <1>c, GoFields, NoSuccess
<1>d. ASSUME NEW step \in {"stop_old", "remove", "undo_stop", "undo_remove", "undo_create", "undo_start",
                           "undo_record"}, Go(step)
      PROVE Built' /\ Healing
  <2>1. Built'
    BY <1>a, <1>d, GoFields DEF Built, Steps
  <2> QED
    BY <1>a, <1>c, <1>d, <2>1
<1>e. ASSUME NEW step \in {"undo_stop", "undo_remove", "undo_create"}, Undo(step) PROVE Built' /\ Healing
  BY <1>b, <1>d, <1>e DEF Undo
<1>1. CASE Begin
  <2>1. ASSUME NEW step \in {"pull", "inspect"}, Go(step) PROVE Built' /\ Healing
    <3>1. Built'
      BY <1>1, <1>a, <2>1, GoFields DEF Built, Begin
    <3> QED
      BY <1>a, <1>c, <2>1, <3>1
  <2> QED
    BY <1>1, <1>b, <2>1 DEF Begin
<1>2. CASE Adopt
  BY <1>2, <1>b DEF Adopt
<1>3. CASE Stop
  <2>1. ASSUME NEW answer, Finish(answer) PROVE Built' /\ Healing
    <3>1. Healing
      BY <1>3 DEF Stop, Healing
    <3> QED
      BY <1>a, <2>1, <3>1, FinishDoes, IdleBuilt
  <2> QED
    BY <1>3, <2>1 DEF Stop
<1>4. CASE Restart
  <2>1. ASSUME Go("gate") PROVE Built' /\ Healing
    <3>1. op'.at = "gate" /\ op'.kind = "restart"
      BY <1>4, <1>a, <2>1, GoFields DEF Restart
    <3> QED
      BY <1>a, <1>c, <2>1, <3>1 DEF Built
  <2> QED
    BY <1>4, <1>b, <2>1 DEF Restart
<1>5. CASE Pull
  <2>1. ASSUME Go("inspect") PROVE Built' /\ Healing
    <3>1. op'.at = "inspect" /\ ~op'.was
      BY <1>5, <1>a, <2>1, GoFields DEF Pull, Built
    <3> QED
      BY <1>a, <1>c, <2>1, <3>1 DEF Built
  <2> QED
    BY <1>5, <1>b, <2>1 DEF Pull
<1>6. CASE Inspect
  <2>a. ~op.was /\ box' = box /\ installed' = installed
    BY <1>6 DEF Built, Inspect, Untouched
  <2>1. CASE op.kind = "start" /\ box = Absent /\ Go("create")
    <3>1. Built'
      BY <1>a, <2>1, GoFields DEF Built
    <3> QED
      BY <1>a, <1>c, <2>1, <3>1
  <2>2. CASE op.kind = "start" /\ Reuses /\ box.up /\ Finish("ok")
    <3>1. Healing
      BY <2>2 DEF Healing, Healed, Reuses
    <3> QED
      BY <1>a, <2>2, <3>1, FinishDoes, IdleBuilt
  <2>3. CASE op.kind = "start" /\ Reuses /\ Go("start")
    <3>1. Built'
      BY <1>a, <2>a, <2>3, GoFields DEF Built, Reuses, Making
    <3> QED
      BY <1>a, <1>c, <2>3, <3>1
  <2>4. CASE op.kind = "update" /\ box = Absent /\ Go("record")
    <3>1. Built'
      BY <1>a, <2>a, <2>4, GoFields DEF Built
    <3> QED
      BY <1>a, <1>c, <2>4, <3>1
  <2>5. CASE op' = [op EXCEPT !.at = "stop_old", !.prev = installed, !.was = box.up] /\ UNCHANGED answers
    <3>1. op'.at = "stop_old" /\ op'.who = op.who
      <4>1. op \in [who : Callers, kind : Kinds, at : Steps, seen : Int, target : Versions \cup {None},
                    prev : Versions \cup {None}, was : BOOLEAN]
        BY <1>a DEF LcTyped, LcTypeOK, Ops
      <4> QED
        BY <2>5, <4>1
    <3>2. Built'
      BY <3>1 DEF Built
    <3> QED
      BY <3>1, <3>2, NoSuccess
  <2> QED
    BY <1>6, <1>b, <1>d, <2>1, <2>2, <2>3, <2>4, <2>5 DEF Inspect
<1>7. CASE StopOld
  BY <1>7, <1>b, <1>d DEF StopOld
<1>8. CASE Remove
  <2>1. CASE op.kind = "update" /\ ~op.was /\ box' = Absent /\ Go("record")
    <3>1. Built'
      BY <1>a, <2>1, GoFields DEF Built
    <3> QED
      BY <1>a, <1>c, <2>1, <3>1
  <2>2. CASE ~(op.kind = "update" /\ ~op.was) /\ Go("create")
    <3>1. Built'
      BY <1>a, <2>2, GoFields DEF Built
    <3> QED
      BY <1>a, <1>c, <2>2, <3>1
  <2> QED
    BY <1>8, <1>b, <2>1, <2>2 DEF Remove
<1>9. CASE Create
  <2>1. ASSUME Go("start"), box' = Created(Making) PROVE Built' /\ Healing
    <3>1. installed' = installed /\ box'.fresh /\ box'.v = Making
      BY <1>9, <2>1, BoxFields DEF Create
    <3>2. Making' = Making /\ op'.at = "start" /\ (op'.kind = "update" => op'.was)
      BY <1>9, <1>a, <2>1, <3>1, GoFields DEF Making, Built, Create
    <3>3. Built'
      BY <3>1, <3>2 DEF Built
    <3> QED
      BY <1>a, <1>c, <2>1, <3>3
  <2> QED
    BY <1>9, <1>e, <2>1 DEF Create, Making
<1>10. CASE StartBox
  <2>1. ASSUME Go(IF op.kind = "update" THEN "record" ELSE "gate"), installed' = installed,
               \E sick \in BOOLEAN : box' = [box EXCEPT !.up = TRUE, !.sick = sick]
        PROVE Built' /\ Healing
    <3>1. box'.fresh /\ box'.v = Making
      BY <1>10, <2>1, BoxFields DEF Built, StartBox
    <3>2. CASE op.kind = "update"
      <4>1. Go("record") /\ op.was /\ box'.v = op.target
        BY <1>10, <2>1, <3>1, <3>2 DEF Built, StartBox, Making
      <4>2. Built'
        BY <1>a, <3>1, <3>2, <4>1, GoFields DEF Built
      <4> QED
        BY <1>a, <1>c, <4>1, <4>2
    <3>3. CASE op.kind # "update"
      <4>1. Go("gate") /\ box'.v = installed'
        BY <2>1, <3>1, <3>3 DEF Making
      <4>2. Built'
        BY <1>a, <3>1, <3>3, <4>1, GoFields DEF Built
      <4> QED
        BY <1>a, <1>c, <4>1, <4>2
    <3> QED
      BY <3>2, <3>3
  <2> QED
    BY <1>10, <1>e, <2>1 DEF StartBox
<1>11. CASE Record
  <2>1. CASE op.was /\ Go("gate")
    <3>1. Built'
      BY <1>11, <1>a, <2>1, GoFields DEF Built, Record
    <3> QED
      BY <1>a, <1>c, <2>1, <3>1
  <2>2. CASE ~op.was /\ Finish("ok")
    <3>1. Healing
      BY <1>11, <2>2 DEF Built, Record, Healing
    <3> QED
      BY <1>a, <2>2, <3>1, FinishDoes, IdleBuilt
  <2> QED
    BY <1>11, <2>1, <2>2 DEF Record
<1>12. CASE Gate
  <2>1. CASE box.up /\ Finish("ok")
    <3>1. Healing
      BY <1>12, <2>1 DEF Built, Gate, Healing, Healed
    <3> QED
      BY <1>a, <2>1, <3>1, FinishDoes, IdleBuilt
  <2> QED
    BY <1>12, <1>e, <2>1 DEF Gate
<1>13. CASE UndoStop \/ UndoRemove \/ UndoCreate \/ UndoStart \/ UndoRecord
  BY <1>13, <1>b, <1>d DEF UndoStop, UndoRemove, UndoCreate, UndoStart, UndoRecord
<1> QED
  BY <1>1, <1>2, <1>3, <1>4, <1>5, <1>6, <1>7, <1>8, <1>9, <1>10, <1>11, <1>12, <1>13 DEF LcStep

(* Whoever else steps leaves the operation at work as it is, begins one or *)
(* ends one without an answer.                                             *)
LEMMA OthersBuild ==
  ASSUME LcTyped, Built, CbStep \/ CbFault \/ WdStep \/ WdFault
  PROVE Built' /\ Healing
<1>1. ASSUME installed' = installed, op' = op \/ (op'.at = "begin" /\ ~op'.was),
             box'.v = box.v, box'.fresh = box.fresh, box = Absent => box' = Absent
      PROVE Built'
  BY <1>1 DEF Built, Making
<1>2. ASSUME UNCHANGED <<box, installed, op>> PROVE Built' /\ Healing
  BY <1>1, <1>2, NoSuccess
<1>3. ASSUME NEW who \in Callers, NEW kind, NEW seen, NEW target, Call(who, kind, seen, target)
      PROVE Built' /\ Healing
  <2>1. CASE op = Idle
    <3>1. op' = [who |-> who, kind |-> kind, at |-> "begin", seen |-> seen, target |-> target,
                 prev |-> None, was |-> FALSE]
      BY <1>3, <2>1 DEF Call, Idle
    <3>2. Healing
      BY <2>1, CallersAssumption DEF Healing, Idle
    <3> QED
      BY <1>1, <1>3, <3>1, <3>2 DEF Call
  <2>2. CASE op # Idle
    BY <1>2, <1>3, <2>2 DEF Call
  <2> QED
    BY <2>1, <2>2
<1>4. ASSUME NEW who, Abandon(who) PROVE Built' /\ Healing
  <2>1. op' = op \/ (op'.at = "begin" /\ ~op'.was)
    BY <1>4 DEF Abandon, Idle
  <2>2. Healing
    BY <1>4 DEF Abandon, Healing
  <2> QED
    BY <1>1, <1>4, <2>1, <2>2 DEF Abandon
<1> USE CallersTyped
<1>5. CASE CbStep
  BY <1>2, <1>3, <1>5
  DEF CbStep, UnitStep, UnitAdopts, UnitAdopted, UnitReadsStops, UnitCreates, UnitStarted,
      ProvStep, ChainStep, Provision, TakeOver, AwaitEngine, AwaitInternet, AttemptUpdate, AttemptPull,
      Pulled, AttemptStart, HandleStart, HandleUpdate, ProvReads, GoStep, ShutdownStops, ShutdownStopped,
      lcVars
<1>6. CASE CbFault
  <2>1. CASE UserCalls
    <3>1. PICK kind \in Kinds \ {"adopt"}, v \in Versions :
              Call("user", kind, Attended, IF kind = "update" THEN v ELSE None)
      BY <2>1 DEF UserCalls
    <3> QED
      BY <1>3, <3>1
  <2> QED
    BY <1>2, <1>4, <1>6, <2>1 DEF CbFault, HandlerRaises, Shutdown, Resume
<1>7. CASE WdStep
  BY <1>2, <1>3, <1>7
  DEF WdStep, Revive, Tick, ActionStep, ActionCalls, HandleActionResult, LoopStep, HandleDie,
      LoopCalls, HandleLoopResult, lcVars
<1>8. CASE WdFault
  <2>1. CASE Crash
    <3>1. op' = op /\ installed' = installed /\ box.up /\ \E s \in BOOLEAN : box' = [box EXCEPT !.sick = s]
      BY <2>1 DEF Crash
    <3>2. box'.v = box.v /\ box'.fresh = box.fresh /\ box # Absent
      BY <3>1, BoxFields DEF Absent
    <3> QED
      BY <1>1, <3>1, <3>2, NoSuccess
  <2>2. CASE ActionTimesOut
    <3>1. op.who = "probe" /\ op' = Idle /\ UNCHANGED <<box, installed>>
          /\ answers' = [answers EXCEPT !["probe"] = "failed"]
      BY <2>2 DEF ActionTimesOut
    <3>2. answers'["probe"] = "failed"
      BY <3>1 DEF LcTyped, LcTypeOK
    <3> QED
      BY <3>1, <3>2, IdleBuilt, NoSuccess
  <2> QED
    BY <1>2, <1>4, <1>8, <2>1, <2>2 DEF WdFault, Toggle, ActionDown, LoopDown, lcVars
<1> QED
  BY <1>5, <1>6, <1>7, <1>8

(* A start, rebuild or update that succeeds leaves Core running in the     *)
(* version on record from the present spec, whatever failed or was killed  *)
(* before it, between any two engine calls: only the container the         *)
(* operation itself found or made good answers "ok".                       *)
THEOREM CoreReconciles == Spec => Reconciles
<1>1. Init => Typed /\ Built
  <2> SUFFICES ASSUME Init PROVE Typed /\ Built
    OBVIOUS
  <2>1. op = Idle
    BY DEF Init, LcInit
  <2> QED
    BY <2>1, InitTyped DEF Idle, Built
<1>2. Typed /\ Built /\ [Next]_vars => Typed' /\ Built' /\ [Healing]_vars
  <2> SUFFICES ASSUME Typed, Built, [Next]_vars PROVE Typed' /\ Built' /\ [Healing]_vars
    OBVIOUS
  <2>1. Typed'
    BY NextTyped
  <2>2. CASE UNCHANGED vars
    BY <2>1, <2>2 DEF vars, lcVars, Built, Making
  <2>3. CASE Next
    BY <2>1, <2>3, Steps3, LcBuilds, OthersBuild DEF Typed
  <2> QED
    BY <2>2, <2>3
<1> QED
  BY <1>1, <1>2, PTL DEF Spec, Reconciles

-----------------------------------------------------------------------------
(* The probe's ladder.                                                     *)

(* What the probe's restart under the lock, or answered, is still good for.*)
Climbing ==
    /\ op.who = "probe" => action.called /\ answers["probe"] = "none" /\ action.kind = op.kind
    /\ answers["probe"] # "none" => action.called
    /\ reanimations <= ran
    /\ AtWork /\ reanimations < MaxReanimations => reanimations < ran

LEMMA LcAnswers ==
  ASSUME LcTyped, LcStep
  PROVE /\ op' = Idle \/ (op'.who = op.who /\ op'.kind = op.kind)
        /\ answers' = answers \/ (op' = Idle /\ \A c \in Callers \ {op.who} : answers'[c] = answers[c])
<1>1. op # Idle /\ (op' = Idle \/ (op'.who = op.who /\ op'.kind = op.kind))
  BY LcEffect DEF Refused, Stopped, Taken, Worked, GoesOn
<1>2. ASSUME NEW answer, Finish(answer)
      PROVE op' = Idle /\ \A c \in Callers \ {op.who} : answers'[c] = answers[c]
  BY <1>1, <1>2, FinishDoes
<1>3. \A s : Go(s) => answers' = answers
  BY DEF Go
<1>4. answers' = answers \/ \E answer : Finish(answer)
  BY <1>3
  DEF LcStep, Begin, Adopt, Stop, Restart, Pull, Inspect, StopOld, Remove, Create, StartBox,
      Record, Gate, UndoStop, UndoRemove, UndoCreate, UndoStart, UndoRecord, Undo
<1> QED
  BY <1>1, <1>2, <1>4

LEMMA LadderStill ==
  ASSUME Typed, Climbing, Ran, UNCHANGED <<reanimations, toggled, action>>,
         answers'["probe"] = answers["probe"], op' = op \/ op'.who # "probe"
  PROVE Climbing'
<1>1. reanimations \in Nat /\ ran \in Nat
  BY LadderAssumption DEF Typed, WdTyped, WdTypeOK
<1>2. ran' = ran
  BY <1>1 DEF Ran
<1>3. AtWork' => AtWork
  BY DEF AtWork
<1> QED
  BY <1>1, <1>2, <1>3 DEF Climbing

LEMMA LadderClimbs ==
  ASSUME Typed, Climbing, Next
  PROVE Climbing'
<1>a. /\ reanimations \in Nat /\ ran \in Nat /\ MaxReanimations \in Nat \ {0} /\ Ran
      /\ "probe" \in Callers /\ LcTyped /\ action \in Tasks \cup {NoTask}
      /\ reanimations <= MaxReanimations
  BY LadderAssumption, Steps3, CallersTyped DEF Typed, WdTyped, WdTypeOK
<1>b. ~NoTask.called /\ NoTask.kind = "none"
  BY DEF NoTask
<1>1. CASE LcStep /\ UNCHANGED <<wdVars, cbVars>>
  <2>1. UNCHANGED <<reanimations, toggled, action>>
    BY <1>1 DEF wdVars
  <2>2. /\ op' = Idle \/ (op'.who = op.who /\ op'.kind = op.kind)
        /\ answers' = answers \/ (op' = Idle /\ \A c \in Callers \ {op.who} : answers'[c] = answers[c])
    BY <1>1, <1>a, LcAnswers
  <2>3. op'.who = "probe" => op.who = "probe" /\ op'.kind = op.kind /\ answers' = answers
    BY <2>2 DEF Idle
  <2>4. ran' = ran
    BY <1>a, <2>1, <2>3 DEF Ran
  <2>5. answers'["probe"] = answers["probe"] \/ op.who = "probe"
    BY <1>a, <2>2
  <2>6. AtWork' => AtWork
    BY <2>1, <2>3, <2>5 DEF AtWork, Climbing
  <2> QED
    BY <1>a, <2>1, <2>3, <2>4, <2>5, <2>6 DEF Climbing
<1>2. CASE (CbStep \/ CbFault) /\ UNCHANGED wdVars
  <2>1. UNCHANGED <<reanimations, toggled, action>>
    BY <1>2 DEF wdVars
  <2>2. answers'["probe"] = answers["probe"] /\ (op' = op \/ op'.who # "probe")
    <3>1. ASSUME NEW who \in {"user", "unit", "prov", "shutdown"}, NEW kind, NEW seen, NEW target,
                 Call(who, kind, seen, target)
          PROVE answers'["probe"] = answers["probe"] /\ (op' = op \/ op'.who # "probe")
      <4>1. who \in Callers /\ "probe" \in Callers \ {who}
        BY CallersAssumption
      <4> QED
        BY <1>a, <3>1, <4>1, CallDoes
    <3>2. ASSUME NEW who \in {"unit", "prov", "shutdown"}, Read(who)
          PROVE answers'["probe"] = answers["probe"]
      BY <1>a, <3>2 DEF Read, LcTyped, LcTypeOK
    <3>3. CASE CbStep
      BY <3>1, <3>2, <3>3
      DEF CbStep, UnitStep, UnitAdopts, UnitAdopted, UnitReadsStops, UnitCreates, UnitStarted,
          ProvStep, ChainStep, Provision, TakeOver, AwaitEngine, AwaitInternet, AttemptUpdate,
          AttemptPull, Pulled, AttemptStart, HandleStart, HandleUpdate, ProvReads, GoStep,
          ShutdownStops, ShutdownStopped, lcVars
    <3>4. CASE CbFault
      <4>1. CASE UserCalls
        <5>1. PICK kind \in Kinds \ {"adopt"}, v \in Versions :
                  Call("user", kind, Attended, IF kind = "update" THEN v ELSE None)
          BY <4>1 DEF UserCalls
        <5> QED
          BY <3>1, <5>1
      <4> QED
        BY <3>4, <4>1 DEF CbFault, HandlerRaises, Abandon, Shutdown, Resume, Idle
    <3> QED
      BY <1>2, <3>3, <3>4
  <2> QED
    BY <1>a, <2>1, <2>2, LadderStill
<1>3. CASE Revive
  <2>1. UNCHANGED <<action, lcVars>> /\ toggled # toggled' /\ reanimations' = 0
    BY <1>3 DEF Revive
  <2>2. AtWork' <=> AtWork
    BY <2>1 DEF AtWork, lcVars
  <2>3. ran' = IF AtWork THEN 1 ELSE 0
    BY <1>a, <2>1 DEF Ran
  <2>4. UNCHANGED <<op, answers, action>>
    BY <2>1 DEF lcVars
  <2>5. reanimations' <= ran' /\ (AtWork' => reanimations' < ran')
    BY <2>1, <2>2, <2>3
  <2> QED
    BY <2>4, <2>5 DEF Climbing
<1>4. CASE Tick
  <2>1. UNCHANGED lcVars /\ action = NoTask /\ op.who # "probe" /\ answers["probe"] = "none"
    BY <1>4, <1>b DEF Tick, Climbing
  <2>2. ~AtWork'
    BY <2>1 DEF AtWork, lcVars
  <2>3. UNCHANGED <<toggled, reanimations>> \/ reanimations' = 0
    BY <1>4 DEF Tick, Healthy, Unhealthy
  <2>4. ran' \in Nat /\ reanimations' <= ran'
    BY <1>a, <2>1, <2>3 DEF Ran, lcVars, Climbing
  <2> QED
    BY <2>1, <2>2, <2>4 DEF Climbing, lcVars
<1>5. CASE ActionCalls
  <2>1. /\ action # NoTask /\ ~action.called /\ Call("probe", action.kind, Attended, None)
        /\ action' = [action EXCEPT !.called = TRUE] /\ UNCHANGED <<reanimations, toggled>>
    BY <1>5 DEF ActionCalls, ladderVars
  <2>2. action'.called /\ action'.kind = action.kind
    BY <1>a, <2>1 DEF Tasks
  <2>3. op.who # "probe" /\ answers["probe"] = "none"
    BY <2>1 DEF Climbing
  <2>4. \/ op = Idle /\ op'.who = "probe" /\ op'.kind = action.kind /\ answers'["probe"] = "none"
        \/ op' = op /\ answers'["probe"] = "busy"
    BY <1>a, <2>1, CallDoes
  <2>5. CASE op'.who = "probe" /\ op'.kind = "restart"
    <3>1. ran' = ran + 1
      BY <1>a, <2>1, <2>3, <2>5 DEF Ran
    <3> QED
      BY <1>a, <2>1, <2>2, <2>3, <2>4, <2>5, <3>1 DEF Climbing
  <2>6. CASE ~(op'.who = "probe" /\ op'.kind = "restart")
    <3>1. ran' = ran
      BY <1>a, <2>1, <2>6 DEF Ran
    <3>2. ~AtWork'
      BY <2>2, <2>4, <2>6 DEF AtWork
    <3> QED
      BY <1>a, <2>1, <2>2, <2>3, <2>4, <3>1, <3>2 DEF Climbing
  <2> QED
    BY <2>5, <2>6
<1>6. CASE HandleActionResult
  <2>1. /\ action.called /\ answers["probe"] # "none" /\ Read("probe") /\ op' = op /\ toggled' = toggled
        /\ action' = NoTask
        /\ IF ~Counts(answers["probe"]) THEN UNCHANGED reanimations
           ELSE reanimations' = IF action.kind = "restart" /\ reanimations < MaxReanimations
                                THEN reanimations + 1 ELSE reanimations
    BY <1>6 DEF HandleActionResult
  <2>2. op.who # "probe" /\ answers'["probe"] = "none"
    BY <1>a, <2>1 DEF Climbing, Read, LcTyped, LcTypeOK
  <2>3. ~AtWork'
    BY <2>1, <2>2 DEF AtWork
  <2>4. ran' = ran
    BY <1>a, <2>1, <2>2 DEF Ran
  <2>5. reanimations' <= ran
    BY <1>a, <2>1 DEF Climbing, AtWork, Counts
  <2> QED
    BY <2>1, <2>2, <2>3, <2>4, <2>5 DEF Climbing
<1>7. CASE HandleDie \/ LoopCalls \/ HandleLoopResult \/ Crash \/ LoopDown
  <2>1. UNCHANGED <<reanimations, toggled, action>>
    BY <1>7 DEF HandleDie, LoopCalls, HandleLoopResult, Crash, LoopDown, ladderVars
  <2>2. "events" \in Callers /\ "probe" \in Callers \ {"events"}
    BY CallersAssumption
  <2>3. CASE HandleDie \/ Crash
    BY <1>a, <2>1, <2>3, LadderStill DEF HandleDie, Crash, lcVars
  <2>4. CASE LoopCalls
    BY <1>a, <2>1, <2>2, <2>4, LadderStill, CallDoes DEF LoopCalls
  <2>5. CASE HandleLoopResult
    BY <1>a, <2>1, <2>2, <2>5, LadderStill, ReadDoes DEF HandleLoopResult
  <2>6. CASE LoopDown
    BY <1>a, <2>1, <2>6, LadderStill DEF LoopDown, Abandon, Idle
  <2> QED
    BY <1>7, <2>3, <2>4, <2>5, <2>6
<1>8. CASE Toggle
  <2>1. UNCHANGED <<reanimations, action, lcVars>>
    BY <1>8 DEF Toggle, ladderVars
  <2>2. AtWork' = AtWork /\ (ran' = ran \/ (reanimations = 0 /\ ran' = IF AtWork THEN 1 ELSE 0))
    BY <1>a, <2>1 DEF Ran, AtWork, lcVars
  <2> QED
    BY <1>a, <2>1, <2>2 DEF Climbing, lcVars
<1>9. CASE ActionTimesOut
  <2>1. /\ op.who = "probe" /\ action.called /\ op' = Idle /\ UNCHANGED <<reanimations, toggled, action>>
        /\ answers' = [answers EXCEPT !["probe"] = "failed"]
    BY <1>9 DEF ActionTimesOut, ladderVars
  <2>2. op'.who # "probe" /\ answers'["probe"] = "failed"
    BY <1>a, <2>1 DEF Idle, LcTyped, LcTypeOK
  <2>3. ran' = ran
    BY <1>a, <2>1, <2>2 DEF Ran
  <2>4. AtWork' => AtWork
    BY <2>1, <2>2 DEF AtWork, Climbing
  <2> QED
    BY <1>a, <2>1, <2>2, <2>3, <2>4 DEF Climbing
<1>10. CASE ActionDown
  <2>1. /\ answers["probe"] = "none" /\ answers' = answers /\ action' = NoTask
        /\ op' = (IF op.who = "probe" THEN Idle ELSE op) /\ UNCHANGED <<reanimations, toggled>>
    BY <1>10 DEF ActionDown, Abandon, ladderVars
  <2>2. op'.who # "probe"
    BY <2>1 DEF Idle
  <2>3. ~AtWork' /\ ran' = ran
    BY <1>a, <2>1, <2>2 DEF AtWork, Ran
  <2> QED
    BY <1>a, <2>1, <2>2, <2>3 DEF Climbing
<1> QED
  BY <1>1, <1>2, <1>3, <1>4, <1>5, <1>6, <1>7, <1>8, <1>9, <1>10, Steps3
  DEF WdStep, WdFault, ActionStep, LoopStep

(* The rungs the ladder has climbed are restarts that had Core's lock: a   *)
(* restart that found Core busy is never counted, whatever times out, dies *)
(* or is toggled while it is under way.                                    *)
THEOREM LadderIsEarned == Spec => []EachReanimationRan
<1>1. Init => Typed /\ Climbing
  <2> SUFFICES ASSUME Init PROVE Typed /\ Climbing
    OBVIOUS
  <2>1. op = Idle /\ answers["probe"] = "none" /\ ran = 0 /\ reanimations = 0 /\ action = NoTask
    BY CallersTyped DEF Init, LcInit, WdInit, ProbeStarts
  <2>2. op.who # "probe" /\ ~AtWork
    BY <2>1 DEF Idle, AtWork, NoTask
  <2> QED
    BY <2>1, <2>2, InitTyped DEF Climbing
<1>2. Typed /\ Climbing /\ [Next]_vars => Typed' /\ Climbing'
  <2> SUFFICES ASSUME Typed, Climbing, [Next]_vars PROVE Typed' /\ Climbing'
    OBVIOUS
  <2>1. CASE UNCHANGED vars
    <3>1. UNCHANGED <<op, answers, action, reanimations, ran>>
      BY <2>1 DEF vars, lcVars, wdVars
    <3>2. AtWork' <=> AtWork
      BY <3>1 DEF AtWork
    <3> QED
      BY <3>1, <3>2, NextTyped DEF Climbing
  <2> QED
    BY <2>1, NextTyped, LadderClimbs
<1>3. Climbing => EachReanimationRan
  BY DEF Climbing, EachReanimationRan
<1> QED
  BY <1>1, <1>2, <1>3, PTL DEF Spec
=============================================================================
