----------------------------- MODULE AppPolicy -----------------------------
(***************************************************************************)
(* The functional core of one app process: Vagus.App.Policy, which turns   *)
(* an operation into task steps and a closed set of effects.  An operator  *)
(* takes the process record and returns the record the handler leaves.     *)
(* Effects the process interprets later are fields of that record:         *)
(*   save    the handler asked for the record to be written (:persist)     *)
(*   reply   what the parked caller of the operation is told               *)
(*   fate    how the handler ends: stay, idle, shutting_down, exit         *)
(* They are neutral between handlers (see Leave in AppServer).  Effects    *)
(* that change the process itself (directory keys, timers) are applied in  *)
(* place, which is what the code's left to right reduction of the effect   *)
(* list amounts to.                                                        *)
(***************************************************************************)
EXTENDS Integers, Sequences, FiniteSets

CONSTANTS
    MaxAttempts,    \* @max_attempts: 5 in the code
    Strikes,        \* @strikes_to_restart: 2
    RefusedTries,   \* @refused_image_attempts: 3
    ReleasedKept,   \* Enum.take(_, 4) in release/1
    MaxId,          \* bound: container ids 1..MaxId, 0 is no container
    Native,         \* the app runs in the BEAM, without image or token
    Once,           \* startup: once
    BootAuto,       \* the effective boot is auto
    HostNetwork,    \* no DNS record
    ProbeUrl,       \* the config declares a watchdog URL
    ColdBackup,     \* backup: cold, else hot
    Hooks,          \* backup_pre and backup_post are declared
    IngressOf       \* per version: none, fixed or dynamic

Versions == 1..2
Other(version) == IF version = 1 THEN 2 ELSE 1
SavedVersions == {0} \cup Versions
Ids == 1..MaxId

ASSUME BoundsAssumption ==
    /\ MaxAttempts \in Nat \ {0}
    /\ Strikes \in Nat \ {0}
    /\ RefusedTries \in Nat \ {0}
    /\ ReleasedKept \in Nat
    /\ MaxId \in Nat
ASSUME ConfigAssumption ==
    /\ {Native, Once, BootAuto, HostNetwork, ProbeUrl, ColdBackup, Hooks}
         \subseteq BOOLEAN
    /\ IngressOf \in [Versions -> {"none", "fixed", "dynamic"}]

NoTimer == -1     \* the retry timer is off; otherwise the id it was armed for

Ops == {"install", "start", "stop", "restart", "update", "backup", "restore",
        "uninstall", "halt"}
Wants == {"started", "stopped"}
OptionValues == {"default", "user", "backup"}

(* The last container event, or what an operation recorded in its place. *)
Seen == {"none", "stopped", "running", "healthy", "unhealthy",
         "exited0", "exited", "failed", "failed_probe"}
Replies == {"none", "ok", "error", "shutting_down"}

StartSteps == <<"port?", "ensure_image", "mint_token", "start">>
TaskSteps == {"pull", "ensure_image", "port", "start", "stop", "stop_strict",
              "stop_by_name", "halt_stop", "snapshot", "exec_pre", "exec_post",
              "swap_data", "set_options", "remove_app", "reclaim_image"}
StepNames == TaskSteps \cup {"port?", "start?", "mint_token", "commit",
                             "rollback_config", "delete_file"}

(* What a finished task reports.  Before that it is "running", and "checked"
   once it has read the shutdown flag. *)
Outcomes == {"ok", "was_running", "invalid", "error", "refused",
             "shutting_down", "died", "timeout"}

NoRun == [op |-> "none", steps |-> <<>>, step |-> "none", task |-> "none",
          from |-> FALSE, retry |-> FALSE, starts |-> FALSE, backup |-> FALSE,
          options |-> FALSE, old |-> 0, was |-> FALSE, cause |-> FALSE,
          cleaned |-> FALSE, result |-> "none", image |-> "none",
          unsaved |-> FALSE]

RunSteps == StepNames \cup {"none"}
RunTasks == Outcomes \cup {"none", "running", "checked"}

Runs == [op : Ops \cup {"none"}, steps : Seq(StepNames), step : RunSteps,
         task : RunTasks, from : BOOLEAN, retry : BOOLEAN, starts : BOOLEAN,
         backup : BOOLEAN, options : BOOLEAN, old : SavedVersions, was : BOOLEAN,
         cause : BOOLEAN, cleaned : BOOLEAN, result : {"none", "ok", "error"},
         image : {"none", "error", "refused"}, unsaved : BOOLEAN]

KeyNames == {"token", "dns", "ingress", "port"}
KeySets == SUBSET KeyNames

(* One process: its gen_statem state, its data, the directory keys it      *)
(* holds and its timers.  `touched` is options_rev differing from the one  *)
(* the run in flight began with.                                           *)
States == {"down", "new", "idle", "busy", "shutting_down", "refused"}
Fates == {"stay", "idle", "shutting_down", "exit"}
Healths == {"none", "healthy", "unhealthy"}
Held == {0} \cup Ids
Armed == {NoTimer} \cup Held
Attempts == 0..MaxAttempts
StrikeCounts == 0..Strikes
ImageTries == 0..RefusedTries

Procs ==
    [st : States, wanted : Wants, ver : SavedVersions, opt : OptionValues,
     touched : BOOLEAN, watchdog : BOOLEAN, port : BOOLEAN,
     token : BOOLEAN, ip : BOOLEAN, cid : Held, released : Seq(Ids),
     ev : Seen, health : Healths,
     attempt : Attempts, strikes : StrikeCounts, img : ImageTries,
     gone : BOOLEAN, retired : BOOLEAN, refused : BOOLEAN,
     keys : KeySets, retry : Armed,
     settled : BOOLEAN, probe : BOOLEAN, probing : BOOLEAN, run : Runs,
     shutting_down : BOOLEAN, disk : BOOLEAN,
     save : BOOLEAN, reply : Replies, fate : Fates]

(* init_data/2 for a slug that has no file. *)
Fresh ==
    [st |-> "down", wanted |-> "stopped", ver |-> 0, opt |-> "default",
     touched |-> FALSE, watchdog |-> FALSE, port |-> FALSE,
     token |-> FALSE, ip |-> FALSE, cid |-> 0, released |-> <<>>,
     ev |-> "none", health |-> "none", attempt |-> 0, strikes |-> 0, img |-> 0,
     gone |-> FALSE, retired |-> FALSE, refused |-> FALSE, keys |-> {},
     retry |-> NoTimer, settled |-> FALSE, probe |-> FALSE, probing |-> FALSE,
     run |-> NoRun, shutting_down |-> FALSE, disk |-> TRUE, save |-> FALSE,
     reply |-> "none", fate |-> "stay"]

-----------------------------------------------------------------------------
(* Reading the record. *)

Up(ev) == ev \in {"running", "healthy", "unhealthy"}
Running(s) == s.cid # 0 /\ Up(s.ev)
Alive(s) == s.cid # 0 /\ (Up(s.ev) \/ s.ev = "failed_probe")

DnsKeys(s) == IF s.ip /\ ~HostNetwork /\ s.ver # 0 THEN {"dns"} ELSE {}

(* A refused app's stub has no ingress token, so it implies no key. *)
IngressKeys(s) ==
    IF s.ver = 0 \/ s.refused THEN {}
    ELSE (IF IngressOf[s.ver] # "none" THEN {"ingress"} ELSE {})
         \cup (IF IngressOf[s.ver] = "dynamic" /\ s.port THEN {"port"} ELSE {})

(* Every directory key the data implies, the slug's own apart. *)
Keys(s) == (IF s.token THEN {"token"} ELSE {}) \cup DnsKeys(s) \cup IngressKeys(s)

(* Which commands a state takes; the others are answered and change nothing. *)
Admitted(op, s) ==
    CASE s.st = "new"  -> op = "install"
      [] s.st = "idle" -> op \notin {"install", "resume"}
      [] s.st = "busy" -> op = "halt" /\ s.run.op # "halt"
      [] s.st = "shutting_down" -> op = "resume"
      [] s.st = "refused" -> op = "uninstall"
      [] OTHER -> FALSE

(* boot/2: start, demote or leave an app, by whether its container runs. *)
Boot(s, up) ==
    CASE s.wanted = "started" /\ (up = "yes" \/ BootAuto) -> "start"
      [] s.wanted = "started" /\ up = "no" /\ ~BootAuto -> "demote"
      [] OTHER -> "none"

-----------------------------------------------------------------------------
(* The restart ladder. *)

Restart(s) ==
    /\ ~s.shutting_down
    /\ s.wanted = "started"
    /\ IF Native THEN BootAuto ELSE s.watchdog /\ s.attempt < MaxAttempts

(* A native app's count has no cap in the code and is only compared with   *)
(* zero, so here it saturates.                                             *)
Retry(s) ==
    IF Restart(s)
    THEN [s EXCEPT !.attempt = IF @ < MaxAttempts THEN @ + 1 ELSE @,
                   !.retry = s.cid]
    ELSE s

DropRunKeys(s) ==
    [s EXCEPT !.keys = @ \ (DnsKeys(s) \cup IF s.token THEN {"token"} ELSE {}),
              !.token = FALSE, !.ip = FALSE]

(* Broken: a container that died leaves its token behind. *)
DiedKeepsToken(s, ev) ==
    LET d == [s EXCEPT !.health = "none", !.probe = FALSE, !.settled = FALSE, !.ev = ev]
    IN  IF Once /\ ev = "exited0" THEN d ELSE Retry(d)

Died(s, ev) ==
    LET d == [DropRunKeys(s) EXCEPT !.health = "none", !.probe = FALSE,
                                    !.settled = FALSE, !.ev = ev]
    IN  IF Once /\ ev = "exited0" THEN d ELSE Retry(d)

(* A verdict is an event only when it changes, and none replaces the       *)
(* failure of the URL probe, which reads "error" until a restart.          *)
HealthSeen(s, h) ==
    LET d == [s EXCEPT !.health = h,
                       !.ev = IF @ = "failed_probe" THEN @ ELSE h]
    IN  CASE h = s.health -> s
          [] h # s.health /\ h = "healthy" -> d
          [] OTHER -> Retry(d)

(* Broken: an event is taken for the container held, whichever it names. *)
OnEventOfAnyContainer(e, s) ==
    CASE e.kind = "start" /\ s.cid = 0 ->
           [s EXCEPT !.cid = e.id, !.health = "none", !.ev = "running"]
      [] e.kind \in {"exited0", "exited"} -> Died(s, e.kind)
      [] e.kind \in {"healthy", "unhealthy"} -> HealthSeen(s, e.kind)
      [] OTHER -> s

(* An engine event [kind, id]: late for a released container, foreign for  *)
(* another one, adopted when a start is seen and none is held.             *)
OnEvent(e, s) ==
    CASE \E i \in DOMAIN s.released : s.released[i] = e.id -> s
      [] OTHER ->
         CASE e.kind = "start" /\ s.cid = 0 ->
                [s EXCEPT !.cid = e.id, !.health = "none", !.ev = "running"]
           [] s.cid = e.id /\ e.kind \in {"exited0", "exited"} -> Died(s, e.kind)
           [] s.cid = e.id /\ e.kind \in {"healthy", "unhealthy"} ->
                HealthSeen(s, e.kind)
           [] OTHER -> s

(* strike/2: one answer of the URL probe. *)
Strike(result, s) ==
    CASE result = "healthy" -> [s EXCEPT !.strikes = 0, !.probe = TRUE]
      [] result = "skip" -> [s EXCEPT !.probe = TRUE]
      [] result = "unhealthy" /\ s.strikes + 1 < Strikes ->
           [s EXCEPT !.strikes = @ + 1, !.probe = TRUE]
      [] OTHER -> IF Restart(s) THEN Retry([s EXCEPT !.strikes = 0])
                  ELSE [s EXCEPT !.strikes = 0, !.ev = "failed_probe"]

=============================================================================
