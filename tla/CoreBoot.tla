------------------------------ MODULE CoreBoot ------------------------------
(***************************************************************************)
(* Who brings Core up and down without being asked for it: the boot's Core *)
(* unit (Vagus.App.CoreUnit), the Provisioner that installs, pulls and     *)
(* retries, and the shutdown's stop.  The user's calls come in between.    *)
(*                                                                         *)
(* Left out: what expand_data does to the disk, a version service that     *)
(* knows no latest version, and the backoff's delays.  The Provisioner's   *)
(* messages are a set: a second copy of one that waits is the same retry.  *)
(***************************************************************************)
EXTENDS CoreLifecycle

CONSTANTS
    Latest,        \* Vagus.Core.Versions.latest/0
    ExpandOutlasts, \* expand_data may still be at work when boot reaches Core
    MaxCalls,      \* bound: the user's calls
    MaxShutdowns,  \* bound: shutdowns asked for
    MaxRaises      \* bound: Provisioner handlers that raise

ASSUME LatestAssumption == Latest \in Versions
ASSUME ExpandAssumption == ExpandOutlasts \in BOOLEAN
ASSUME BootBoundsAssumption == {MaxCalls, MaxShutdowns, MaxRaises} \subseteq Nat

VARIABLES
    unit, unit_seen,    \* where the boot's Core unit is, and its stops reading
    handed,             \* the reading of a start cast to the Provisioner
    mail,               \* the Provisioner's messages, timers included
    prov,               \* the handler it is in
    prov_version, prov_seen,
    going,              \* the shutdown's Core stop
    calls, shutdowns, raises

provVars == <<handed, mail, prov, prov_version, prov_seen>>
cbVars == <<unit, unit_seen, provVars, going, calls, shutdowns, raises>>
cbBounds == <<calls, shutdowns, raises>>

Messages == {"run", "engine", "internet", "update", "pull", "start"}
Handlers == {"idle", "pulling", "updating", "ready", "starting"}
Units == {"waiting", "adopting", "starting", "absent", "seen", "creating", "done"}

CbTypeOK ==
    /\ unit \in Units /\ unit_seen \in Nat
    /\ handed \in Nat \cup {Attended} /\ mail \subseteq Messages /\ prov \in Handlers
    /\ prov_version \in Versions \cup {None} /\ prov_seen \in Nat
    /\ going \in {"no", "stop", "stopping", "call"}
    /\ calls \in 0..MaxCalls /\ shutdowns \in 0..MaxShutdowns /\ raises \in 0..MaxRaises

BootBegins ==
    /\ unit = "waiting" /\ unit_seen = 0
    /\ handed = Attended /\ mail = {"run"} /\ prov = "idle" /\ prov_version = None /\ prov_seen = 0
    /\ going = "no"
CbInit == BootBegins /\ calls = 0 /\ shutdowns = 0 /\ raises = 0

-----------------------------------------------------------------------------
(* The user, over the HTTP API, awaits one answer before the next call.    *)

UserCalls ==
    /\ op.who # "user" /\ calls < MaxCalls /\ calls' = calls + 1
    /\ \E kind \in Kinds \ {"adopt"}, v \in Versions :
          Call("user", kind, Attended, IF kind = "update" THEN v ELSE None)
    /\ UNCHANGED <<unit, unit_seen, provVars, going, shutdowns, raises>>

-----------------------------------------------------------------------------
(* Vagus.App.CoreUnit.start/1                                              *)

UnitAdopts ==
    /\ unit = "waiting" /\ ~shutting /\ (ExpandOutlasts \/ "run" \notin mail)
    /\ Call("unit", "adopt", Attended, None) /\ unit' = "adopting"
    /\ UNCHANGED <<unit_seen, provVars, going, cbBounds>>

(* An adopted Core is started as if the user had asked.                    *)
UnitAdopted ==
    /\ unit = "adopting" /\ answers["unit"] # "none"
    /\ \/ /\ answers["unit"] = "adopted"
          /\ Call("unit", "start", Attended, None) /\ unit' = "starting"
       \/ /\ answers["unit"] = "absent" /\ Read("unit")
          /\ unit' = IF installed = None THEN "done" ELSE "absent"
          /\ UNCHANGED <<box, installed, images, stops, shutting, op, failures>>
       \/ /\ answers["unit"] \notin {"adopted", "absent"} /\ Read("unit") /\ unit' = "done"
          /\ UNCHANGED <<box, installed, images, stops, shutting, op, failures>>
    /\ UNCHANGED <<unit_seen, provVars, going, cbBounds>>

(* start_absent/2: the stops are read before the engine is asked.          *)
UnitReadsStops ==
    /\ unit = "absent" /\ unit_seen' = stops /\ unit' = "seen"
    /\ UNCHANGED <<lcVars, provVars, going, cbBounds>>

(* A check that fails counts as present.                                   *)
UnitCreates ==
    /\ unit = "seen"
    /\ \/ installed \notin images /\ unit' = "done" /\ unit_seen' = 0 /\ UNCHANGED lcVars
       \/ Call("unit", "start", unit_seen, None) /\ unit' = "creating" /\ UNCHANGED unit_seen
    /\ UNCHANGED <<provVars, going, cbBounds>>

(* Broken: a start that found Core busy is left to whoever holds it.       *)
HandsOffFailed(answer) == answer = "failed"
HandsOff(answer) == answer \in {"failed", "busy"}

(* hand_off/3 and retry_core_start/2                                       *)
UnitStarted ==
    /\ unit \in {"starting", "creating"} /\ answers["unit"] # "none" /\ Read("unit")
    /\ unit' = "done" /\ unit_seen' = 0
    /\ handed' = IF unit = "creating" /\ HandsOff(answers["unit"]) THEN unit_seen ELSE handed
    /\ UNCHANGED <<mail, prov, prov_version, prov_seen, going, cbBounds>>
    /\ UNCHANGED <<box, installed, images, stops, shutting, op, failures>>

-----------------------------------------------------------------------------
(* Vagus.Provisioner                                                       *)

Handles(message) == prov = "idle" /\ message \in mail
Sends(message, another) == mail' = (mail \ {message}) \cup {another}
ProvKeeps == UNCHANGED <<unit, unit_seen, going, cbBounds>>
ProvReads == Read("prov") /\ UNCHANGED <<box, installed, images, stops, shutting, op, failures>>

(* handle_continue(:run, ...) and {:provision_core, version, stops_seen},  *)
(* which comes behind a cast that waited for expand_data.                  *)
Provision ==
    /\ Handles("run")
    /\ mail' = {"engine"} \cup (IF handed = Attended THEN {} ELSE {"start"}) /\ handed' = Attended
    /\ prov_version' = installed /\ prov_seen' = stops
    /\ UNCHANGED <<lcVars, prov>> /\ ProvKeeps

(* handle_cast({:retry_core_start, stops_seen}, ...)                       *)
TakeOver ==
    /\ prov = "idle" /\ handed # Attended /\ "run" \notin mail
    /\ prov_seen' = handed /\ mail' = mail \cup {"start"} /\ handed' = Attended
    /\ UNCHANGED <<lcVars, prov, prov_version>> /\ ProvKeeps

(* do_await_engine/1: the engine and its answer on the image may fail, and *)
(* then the message is sent again.                                         *)
AwaitEngine ==
    /\ Handles("engine")
    /\ IF prov_version # None /\ prov_version \in images THEN mail' = mail \ {"engine"}
       ELSE Sends("engine", "internet")
    /\ UNCHANGED <<lcVars, handed, prov, prov_version, prov_seen>> /\ ProvKeeps

AwaitInternet ==
    /\ Handles("internet")
    /\ Sends("internet", IF prov_version = None THEN "update" ELSE "pull")
    /\ UNCHANGED <<lcVars, handed, prov, prov_version, prov_seen>> /\ ProvKeeps

(* attempt_update/1: to the latest version.                                *)
AttemptUpdate ==
    /\ Handles("update") /\ mail' = mail \ {"update"} /\ prov' = "updating"
    /\ Call("prov", "update", Attended, Latest)
    /\ UNCHANGED <<handed, prov_version, prov_seen>> /\ ProvKeeps

(* attempt_pull/1; the pull is outside Core's lock.                        *)
AttemptPull ==
    /\ Handles("pull") /\ mail' = mail \ {"pull"}
    /\ prov' = IF stops = prov_seen THEN "pulling" ELSE "idle"
    /\ UNCHANGED <<lcVars, handed, prov_version, prov_seen>> /\ ProvKeeps

Pulled ==
    /\ prov = "pulling"
    /\ \/ Fails /\ prov' = "idle" /\ mail' = mail \cup {"pull"} /\ UNCHANGED images
       \/ Works /\ prov' = "ready" /\ images' = images \cup {prov_version} /\ UNCHANGED mail
    /\ UNCHANGED <<handed, prov_version, prov_seen, box, installed, stops, shutting, op, answers>>
    /\ ProvKeeps

(* start_and_await_healthy/1, by a message of its own or after an install  *)
(* or a pull in the same handler.                                          *)
AttemptStart ==
    /\ \/ prov = "ready" /\ UNCHANGED mail
       \/ Handles("start") /\ mail' = mail \ {"start"}
    /\ IF stops = prov_seen
       THEN Call("prov", "start", prov_seen, None) /\ prov' = "starting"
       ELSE UNCHANGED lcVars /\ prov' = "idle"
    /\ UNCHANGED <<handed, prov_version, prov_seen>> /\ ProvKeeps

Refusals == {"stopped", "shutting_down"}

HandleStart ==
    /\ prov = "starting" /\ answers["prov"] # "none" /\ prov' = "idle"
    /\ mail' = IF answers["prov"] \in Refusals \cup {"ok"} THEN mail ELSE mail \cup {"start"}
    /\ UNCHANGED <<handed, prov_version, prov_seen>> /\ ProvReads /\ ProvKeeps

(* An install that someone else made meanwhile ends it.                    *)
HandleUpdate ==
    /\ prov = "updating" /\ answers["prov"] # "none"
    /\ prov' = IF answers["prov"] = "ok" THEN "ready" ELSE "idle"
    /\ mail' = IF answers["prov"] \in {"ok", "installed"} THEN mail ELSE mail \cup {"update"}
    /\ UNCHANGED <<handed, prov_version, prov_seen>> /\ ProvReads /\ ProvKeeps

(* safe_async/3: a handler that raises is not run again.                   *)
HandlerRaises ==
    /\ prov # "idle" /\ answers["prov"] = "none"
    /\ raises < MaxRaises /\ raises' = raises + 1
    /\ Abandon("prov") /\ prov' = "idle"
    /\ UNCHANGED <<handed, mail, prov_version, prov_seen, unit, unit_seen, going, calls, shutdowns>>

-----------------------------------------------------------------------------
(* Vagus.Host.Shutdown and Vagus.App.CoreUnit.stop/1.  The orchestrator    *)
(* lets a unit at work finish first.                                       *)

Shutdown ==
    /\ going = "no" /\ shutdowns < MaxShutdowns /\ shutdowns' = shutdowns + 1
    /\ shutting' = TRUE /\ going' = "stop"
    /\ UNCHANGED <<unit, unit_seen, provVars, calls, raises>>
    /\ UNCHANGED <<box, installed, images, stops, op, answers, failures>>

ShutdownStops ==
    /\ going = "stop" /\ unit \in {"waiting", "done"}
    /\ Call("shutdown", "stop", Attended, None) /\ going' = "stopping"
    /\ UNCHANGED <<unit, unit_seen, provVars, cbBounds>>

(* Busy is asked again until the budget is spent.                          *)
ShutdownStopped ==
    /\ going = "stopping" /\ answers["shutdown"] # "none" /\ Read("shutdown")
    /\ \/ answers["shutdown"] = "busy" /\ going' = "stop"
       \/ going' = "call"
    /\ UNCHANGED <<unit, unit_seen, provVars, cbBounds>>
    /\ UNCHANGED <<box, installed, images, stops, shutting, op, failures>>

(* The reboot fails: the flag is erased and the orchestrator boots again.  *)
Resume ==
    /\ going = "call" /\ going' = "no" /\ shutting' = FALSE /\ unit' = "waiting"
    /\ UNCHANGED <<unit_seen, provVars, cbBounds>>
    /\ UNCHANGED <<box, installed, images, stops, op, answers, failures>>

-----------------------------------------------------------------------------

UnitStep == UnitAdopts \/ UnitAdopted \/ UnitReadsStops \/ UnitCreates \/ UnitStarted
ChainStep == AwaitEngine \/ AwaitInternet \/ AttemptUpdate \/ AttemptPull
ProvStep == Provision \/ TakeOver \/ ChainStep \/ Pulled \/ AttemptStart \/ HandleStart \/ HandleUpdate
GoStep == ShutdownStops \/ ShutdownStopped
CbStep == UnitStep \/ ProvStep \/ GoStep
CbFault == UserCalls \/ HandlerRaises \/ Shutdown \/ Resume
=============================================================================
