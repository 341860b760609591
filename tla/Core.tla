-------------------------------- MODULE Core --------------------------------
(***************************************************************************)
(* Core's lifecycle with everyone who calls it: the user, the boot's Core  *)
(* unit, the Provisioner, the shutdown and the two halves of the watchdog. *)
(***************************************************************************)
EXTENDS CoreBoot, CoreWatchdog

ASSUME CallersAssumption ==
    /\ {"user", "unit", "prov", "shutdown", "probe", "events"} \subseteq Callers
    /\ "nobody" \notin Callers

VARIABLE ran    \* history: the probe's restarts that had Core since its ladder began

vars == <<ran, lcVars, wdVars, cbVars>>

LcInit ==
    /\ box \in {b \in Boxes : b = Absent \/ (b.v # None /\ (b.sick => b.up))}
    /\ installed \in Versions \cup {None}
    /\ images \in SUBSET Versions /\ (box # Absent => box.v \in images)
    /\ stops = 0 /\ shutting = FALSE /\ op = Idle /\ failures = 0
    /\ answers = [c \in Callers |-> "none"]

Init == LcInit /\ CbInit /\ WdInit /\ ran = 0

(* A restart at work, or answered, when the ladder starts over counts for  *)
(* the new one.                                                            *)
AtWork == \/ op.who = "probe" /\ op.kind = "restart"
          \/ action.kind = "restart" /\ answers["probe"] \notin {"none", "busy"}
Ran ==
    ran' = IF reanimations' = 0 /\ (toggled # toggled' \/ reanimations > 0)
           THEN IF AtWork THEN 1 ELSE 0
           ELSE IF op.who # "probe" /\ op'.who = "probe" /\ op'.kind = "restart"
                THEN ran + 1 ELSE ran

Engine == LcStep /\ UNCHANGED <<wdVars, cbVars>> /\ Ran
Unit == UnitStep /\ UNCHANGED wdVars /\ Ran
Provisioner == ProvStep /\ UNCHANGED wdVars /\ Ran
Going == GoStep /\ UNCHANGED wdVars /\ Ran
Ticks == Tick /\ UNCHANGED cbVars /\ Ran
Toggled == Revive /\ UNCHANGED cbVars /\ Ran
Action == ActionStep /\ UNCHANGED cbVars /\ Ran
Loop == LoopStep /\ UNCHANGED cbVars /\ Ran
Faults == \/ CbFault /\ UNCHANGED wdVars /\ Ran
          \/ WdFault /\ UNCHANGED cbVars /\ Ran

Next == Engine \/ Unit \/ Provisioner \/ Going \/ Ticks \/ Toggled \/ Action \/ Loop \/ Faults

-----------------------------------------------------------------------------
(* An engine call returns or times out, the Provisioner handles what is in *)
(* its mailbox, the Core unit goes on, the probe's timer fires and its task*)
(* goes on.  A start that keeps failing comes back behind the messages that*)
(* wait.  Nothing is asked of the others: no property waits for them.      *)

Chain == ChainStep /\ UNCHANGED wdVars /\ Ran
Fairness == /\ WF_vars(Engine) /\ WF_vars(Unit) /\ WF_vars(Provisioner) /\ SF_vars(Chain)
            /\ WF_vars(Ticks) /\ WF_vars(Action)

Spec == Init /\ [][Next]_vars /\ Fairness

-----------------------------------------------------------------------------

TypeOK == LcTypeOK /\ CbTypeOK /\ WdTypeOK /\ ran \in Nat

Healed == box.up /\ box.fresh /\ box.v = installed
Healing ==
    \A c \in Callers :
        /\ op.who = c /\ op'.who # c /\ answers[c] = "none" /\ answers'[c] = "ok"
        /\ op.kind \in {"start", "rebuild", "update"}
        => IF op.kind = "update" /\ ~op.was
           THEN box' = Absent /\ installed' = op.target
           ELSE Healed /\ (op.kind = "update" => installed = op.target)

(* A start, rebuild or update that succeeds leaves Core running in the     *)
(* version on record, from the present spec, whatever the operations before*)
(* it left when they failed or were killed: a lifecycle that heals on its  *)
(* next operation.  An update of a stopped Core leaves none.               *)
Reconciles == [][Healing]_vars

(* The ladder's rungs are restarts that happened: one that found Core busy *)
(* with another operation is not held against Core.                        *)
EachReanimationRan == reanimations <= ran

(* A Core that hangs is seen to: in the end it answers again, is down, or  *)
(* the watchdog is off or has given up.  No task that dies, overruns or    *)
(* finds Core busy leaves the probe waiting.                               *)
HungCoreIsHandled ==
    (box.up /\ box.sick /\ option /\ ~given_up)
      ~> (~box.up \/ ~box.sick \/ ~option \/ given_up)

(* An absent Core that the boot sets out to start, that it hands to the    *)
(* Provisioner when it cannot, or that the Provisioner sets out to install,*)
(* pull or start, is up in the end, unless someone stops it or shuts down, *)
(* another install came first, a handler raised, or a stop had ended the   *)
(* pull of its image.                                                      *)
Pending == \/ unit = "creating" /\ answers["unit"] # "ok"
           \/ handed # Attended
           \/ mail \cap {"internet", "update", "pull", "start"} # {}
Excused ==
    \/ shutting \/ raises > 0 \/ answers["prov"] = "installed"
    \/ stops # IF unit = "creating" THEN unit_seen ELSE IF handed # Attended THEN handed ELSE prov_seen
    \/ stops > 0 /\ installed \notin images
PendingCoreComesUp == Pending ~> box.up \/ Excused

-----------------------------------------------------------------------------
(* What the lifecycle promises to whoever stops Core.                      *)

Starters == {"unit", "cast", "prov"}
If(condition, s) == IF condition THEN {s} ELSE {}
UnitOwes == unit \in {"seen", "creating"}
CastOwes == handed # Attended
ProvOwes == prov # "idle" \/ mail \ {"run"} # {}

Owner ==
    IF op = Idle \/ op.at = "begin" THEN [who |-> "nobody", attended |-> TRUE]
    ELSE [who |-> op.who, attended |-> op.seen = Attended]
Owed == If(UnitOwes, "unit") \cup If(CastOwes, "cast") \cup If(ProvOwes, "prov")
Fresh == If(UnitOwes /\ unit_seen = stops, "unit") \cup If(handed = stops, "cast")
         \cup If(ProvOwes /\ prov_seen = stops, "prov")

Abstract == INSTANCE CorePromise WITH
    Callers <- Callers, Starters <- Starters, up <- box.up, closing <- shutting,
    owner <- Owner, owed <- Owed, fresh <- Fresh

(* The Core unit, the Provisioner and their hand-off keep CorePromise: a   *)
(* start nobody asked for does not undo a stop or a shutdown that came     *)
(* after its starter set out, however long it waited, retried or was       *)
(* handed on.                                                              *)
Promise == Abstract!Spec
=============================================================================
