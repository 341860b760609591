---------------------------- MODULE CoreLifecycle ----------------------------
(***************************************************************************)
(* Vagus.Core.Lifecycle: the operations on Home Assistant Core's one       *)
(* container.  They share one lock that is tried and never waited for, so  *)
(* one operation is at work at a time, `op`; each of its engine calls is a *)
(* step, and any of them may fail.  The lock's holder answers its caller;  *)
(* whoever finds it taken is answered "busy" at once.                      *)
(*                                                                         *)
(* Left out: the safe-mode marker, the stored-port migration and the HTTP  *)
(* parameters, which change no step.                                       *)
(***************************************************************************)
EXTENDS Integers, FiniteSets

CONSTANTS
    Versions,      \* of Core
    Callers,       \* the processes that call this module
    MaxFailures    \* bound: engine calls that fail

None == 0
Attended == -1     \* no :stops_seen

ASSUME VersionsAssumption == Versions \subseteq Nat \ {None} /\ IsFiniteSet(Versions)
ASSUME FailuresAssumption == MaxFailures \in Nat

VARIABLES
    box,           \* Core's container
    installed,     \* Vagus.Core.Versions.installed/0
    images,        \* the versions whose image the engine holds
    stops,         \* stops/0
    shutting,      \* Vagus.Host.Shutdown.in_flight?/0
    op,            \* the operation that holds the lock
    answers,       \* what each caller has been answered and not yet read
    failures       \* engine calls that failed so far

lcVars == <<box, installed, images, stops, shutting, op, answers, failures>>

(* fresh: it carries the fingerprint of the spec that would be built now.  *)
(* sick: its API does not answer.                                          *)
Boxes == [v : Versions \cup {None}, fresh : BOOLEAN, up : BOOLEAN, sick : BOOLEAN]
Absent == [v |-> None, fresh |-> FALSE, up |-> FALSE, sick |-> FALSE]
Created(v) == [v |-> v, fresh |-> TRUE, up |-> FALSE, sick |-> FALSE]

Kinds == {"adopt", "start", "stop", "restart", "rebuild", "update"}
Steps == {"begin", "pull", "inspect", "stop_old", "remove", "create", "start", "record",
          "gate", "undo_stop", "undo_remove", "undo_create", "undo_start", "undo_record"}
Idle == [who |-> "nobody", kind |-> "none", at |-> "begin", seen |-> Attended,
         target |-> None, prev |-> None, was |-> FALSE]
Ops == [who : Callers, kind : Kinds, at : Steps, seen : Int, target : Versions \cup {None},
        prev : Versions \cup {None}, was : BOOLEAN] \cup {Idle}
Answers == {"none", "ok", "busy", "adopted", "absent", "stopped", "shutting_down",
            "installed", "failed"}

LcTypeOK ==
    /\ box \in Boxes /\ installed \in Versions \cup {None} /\ images \subseteq Versions
    /\ stops \in Nat /\ shutting \in BOOLEAN /\ op \in Ops
    /\ answers \in [Callers -> Answers] /\ failures \in 0..MaxFailures

-----------------------------------------------------------------------------

Read(who) == answers' = [answers EXCEPT ![who] = "none"]

(* with_lock/1 *)
Call(who, kind, seen, target) ==
    /\ UNCHANGED <<box, installed, images, stops, shutting, failures>>
    /\ IF op = Idle
       THEN /\ op' = [Idle EXCEPT !.who = who, !.kind = kind, !.seen = seen, !.target = target]
            /\ answers' = [answers EXCEPT ![who] = "none"]
       ELSE answers' = [answers EXCEPT ![who] = "busy"] /\ UNCHANGED op

At(step) == op # Idle /\ op.at = step
Go(step) == op' = [op EXCEPT !.at = step] /\ UNCHANGED answers
Finish(answer) ==
    /\ op' = Idle
    /\ answers' = [answers EXCEPT ![op.who] = answer]

(* An engine call that fails, with no effect on the container. *)
Fails == failures < MaxFailures /\ failures' = failures + 1
Works == UNCHANGED failures
Untouched == UNCHANGED <<box, installed, images, stops, shutting>>

(* Broken: the stops are not looked at under the lock. *)
AllowedByFlag(seen) == IF seen # Attended /\ shutting THEN "shutting_down" ELSE "ok"

(* unattended_start_allowed/1 *)
Allowed(seen) ==
    CASE seen = Attended -> "ok"
      [] seen # Attended /\ shutting -> "shutting_down"
      [] seen # Attended /\ ~shutting -> IF stops = seen THEN "ok" ELSE "stopped"

(* What an operation settles before its first engine call. *)
Begin ==
    /\ At("begin") /\ op.kind \in {"start", "rebuild", "update"}
    /\ \/ op.kind = "start" /\ Allowed(op.seen) # "ok" /\ Finish(Allowed(op.seen))
       \/ op.kind = "start" /\ Allowed(op.seen) = "ok" /\ installed = None /\ Finish("failed")
       \/ op.kind = "start" /\ Allowed(op.seen) = "ok" /\ installed # None /\ Go("inspect")
       \/ op.kind = "rebuild" /\ IF installed = None THEN Finish("failed") ELSE Go("inspect")
       \/ op.kind = "update" /\ op.target = installed /\ Finish("installed")
       \/ /\ op.kind = "update" /\ op.target # installed
          /\ Go("pull")
    /\ Untouched /\ Works

(* adopt/1: seeds the version when none is recorded. *)
Adopt ==
    /\ At("begin") /\ op.kind = "adopt"
    /\ \/ /\ Fails /\ Finish("failed") /\ UNCHANGED installed
       \/ /\ Works /\ box = Absent /\ Finish("absent") /\ UNCHANGED installed
       \/ /\ Works /\ box # Absent /\ Finish("adopted")
          /\ installed' = IF installed = None THEN box.v ELSE installed
    /\ UNCHANGED <<box, images, stops, shutting>>

(* stop/1: an absent Core's stop counts too. *)
Stop ==
    /\ At("begin") /\ op.kind = "stop"
    /\ \/ Fails /\ Finish("failed") /\ UNCHANGED <<box, stops>>
       \/ /\ Works /\ stops' = stops + 1
          /\ box' = [box EXCEPT !.up = FALSE, !.sick = FALSE]
          /\ Finish(IF box = Absent THEN "absent" ELSE "ok")
    /\ UNCHANGED <<installed, images, shutting>>

(* restart/1: podman starts a container that was stopped. *)
Restart ==
    /\ At("begin") /\ op.kind = "restart"
    /\ \/ (Fails \/ (Works /\ box = Absent)) /\ Finish("failed") /\ UNCHANGED box
       \/ /\ Works /\ box # Absent /\ Go("gate")
          /\ \E sick \in BOOLEAN : box' = [box EXCEPT !.up = TRUE, !.sick = sick]
    /\ UNCHANGED <<installed, images, stops, shutting>>

Pull ==
    /\ At("pull")
    /\ \/ Fails /\ Finish("failed") /\ UNCHANGED images
       \/ Works /\ Go("inspect") /\ images' = images \cup {op.target}
    /\ UNCHANGED <<box, installed, stops, shutting>>

(* Broken: any container there is is started as it is. *)
ReusesAny == box # Absent
Reuses == box.v = installed /\ box.fresh

(* start_existing/3, stop_if_present/1 and do_update/2 on what inspect says. *)
Inspect ==
    /\ At("inspect")
    /\ \/ Fails /\ Finish("failed")
       \/ /\ Works /\ op.kind = "start"
          /\ \/ box = Absent /\ Go("create")
             \/ box # Absent /\ ~Reuses /\ Go("stop_old")
             \/ box # Absent /\ Reuses /\ IF box.up THEN Finish("ok") ELSE Go("start")
       \/ Works /\ op.kind = "rebuild" /\ Go(IF box = Absent THEN "remove" ELSE "stop_old")
       \/ /\ Works /\ op.kind = "update"
          /\ IF box = Absent THEN Go("record")
             ELSE /\ op' = [op EXCEPT !.at = "stop_old", !.prev = installed, !.was = box.up]
                  /\ UNCHANGED answers
    /\ Untouched

StopOld ==
    /\ At("stop_old")
    /\ \/ Fails /\ Finish("failed") /\ UNCHANGED box
       \/ Works /\ Go("remove") /\ box' = [box EXCEPT !.up = FALSE, !.sick = FALSE]
    /\ UNCHANGED <<installed, images, stops, shutting>>

Remove ==
    /\ At("remove")
    /\ \/ Fails /\ Finish("failed") /\ UNCHANGED box
       \/ /\ Works /\ box' = Absent
          /\ Go(IF op.kind = "update" /\ ~op.was THEN "record" ELSE "create")
    /\ UNCHANGED <<installed, images, stops, shutting>>

(* recreate_failed/4: with nothing to roll back to Core stays absent. *)
Undo(step) == IF op.kind # "update" \/ op.prev = None THEN Finish("failed") ELSE Go(step)

Create ==
    /\ At("create")
    /\ LET v == IF op.kind = "update" THEN op.target ELSE installed
       IN  \/ Fails /\ Undo("undo_create") /\ UNCHANGED box
           \/ Works /\ v \notin images /\ Undo("undo_create") /\ UNCHANGED box
           \/ Works /\ v \in images /\ Go("start") /\ box' = Created(v)
    /\ UNCHANGED <<installed, images, stops, shutting>>

StartBox ==
    /\ At("start")
    /\ \/ Fails /\ Undo("undo_remove") /\ UNCHANGED box
       \/ /\ Works /\ Go(IF op.kind = "update" THEN "record" ELSE "gate")
          /\ \E sick \in BOOLEAN : box' = [box EXCEPT !.up = TRUE, !.sick = sick]
    /\ UNCHANGED <<installed, images, stops, shutting>>

Record ==
    /\ At("record") /\ Works
    /\ installed' = op.target
    /\ IF op.was THEN Go("gate") ELSE Finish("ok")
    /\ UNCHANGED <<box, images, stops, shutting>>

(* health_gate/1 and, for an update, rollback/2 *)
Gate ==
    /\ At("gate") /\ Works
    /\ IF box.up /\ ~box.sick THEN Finish("ok") ELSE Undo("undo_stop")
    /\ Untouched

UndoStop ==
    /\ At("undo_stop")
    /\ \/ Fails /\ Finish("failed") /\ UNCHANGED box
       \/ Works /\ Go("undo_remove") /\ box' = [box EXCEPT !.up = FALSE, !.sick = FALSE]
    /\ UNCHANGED <<installed, images, stops, shutting>>

UndoRemove ==
    /\ At("undo_remove")
    /\ \/ Fails /\ Finish("failed") /\ UNCHANGED box
       \/ Works /\ Go("undo_create") /\ box' = Absent
    /\ UNCHANGED <<installed, images, stops, shutting>>

UndoCreate ==
    /\ At("undo_create")
    /\ \/ Fails /\ Finish("failed") /\ UNCHANGED box
       \/ Works /\ op.prev \notin images /\ Finish("failed") /\ UNCHANGED box
       \/ Works /\ op.prev \in images /\ Go("undo_start") /\ box' = Created(op.prev)
    /\ UNCHANGED <<installed, images, stops, shutting>>

UndoStart ==
    /\ At("undo_start")
    /\ \/ Fails /\ Finish("failed") /\ UNCHANGED box
       \/ /\ Works /\ Go("undo_record")
          /\ \E sick \in BOOLEAN : box' = [box EXCEPT !.up = TRUE, !.sick = sick]
    /\ UNCHANGED <<installed, images, stops, shutting>>

UndoRecord ==
    /\ At("undo_record") /\ Works
    /\ installed' = op.prev /\ Finish("failed")
    /\ UNCHANGED <<box, images, stops, shutting>>

LcStep ==
    \/ Begin \/ Adopt \/ Stop \/ Restart \/ Pull \/ Inspect \/ StopOld \/ Remove \/ Create
    \/ StartBox \/ Record \/ Gate \/ UndoStop \/ UndoRemove \/ UndoCreate \/ UndoStart
    \/ UndoRecord

(* The caller dies or is killed, between two engine calls if it holds the  *)
(* lock; what it did stays.                                                *)
Abandon(who) ==
    /\ op' = IF op.who = who THEN Idle ELSE op
    /\ UNCHANGED <<box, installed, images, stops, shutting, answers, failures>>
=============================================================================
