------------------------------- MODULE MCCore -------------------------------
(***************************************************************************)
(* Core from two sets of initial states: "boot", with the watchdog off and *)
(* nothing that crashes, and "watch", in which boot is over and Core runs  *)
(* as recorded.  The user calls in both.                                   *)
(***************************************************************************)
EXTENDS Core

CONSTANT MaxTroubles    \* bound: a scene's calls, failures and faults together

MCVersions == {1, 2}
MCCallers == {"user", "unit", "prov", "shutdown", "probe", "events"}

Left(b, v, held) == box = b /\ installed = v /\ images = held
Box(v, fresh, up) == [v |-> v, fresh |-> fresh, up |-> up, sick |-> FALSE]

(* Versions are alike, so the recorded one is 1.                           *)
BootScene ==
    /\ \/ Left(Absent, None, {})
       \/ Left(Absent, 1, {})
       \/ Left(Absent, 1, {1})
       \/ Left(Box(1, TRUE, FALSE), None, {1})
       \/ Left(Box(1, TRUE, FALSE), 1, {1})
       \/ Left(Box(1, FALSE, TRUE), 1, {1})
       \/ Left(Box(2, TRUE, TRUE), 1, {2})
    /\ CbInit
    /\ ProbeStarts /\ LoopStarts /\ ~option
    /\ kills = MaxKills /\ toggles = MaxToggles /\ crashes = MaxCrashes

WatchScene ==
    /\ Left(Box(1, TRUE, TRUE), 1, {1, 2})
    /\ ProbeStarts /\ kills = 0 /\ toggles = 0 /\ crashes = 0
    /\ deaths = 0 /\ dies = 0 /\ actions \in {0, MaxActions} /\ loop = NoTask
    /\ unit = "done" /\ unit_seen = 0 /\ going = "no"
    /\ handed = Attended /\ mail = {} /\ prov = "idle" /\ prov_version = 1 /\ prov_seen = 0
    /\ calls = 0 /\ shutdowns = MaxShutdowns /\ raises = MaxRaises

MCInit == LcInit /\ ran = 0 /\ (BootScene \/ WatchScene)

FewTroubles ==
    \/ calls + shutdowns <= 1 /\ calls + failures + shutdowns + raises <= MaxTroubles
    \/ calls + failures + kills <= 1 /\ calls + failures + kills + toggles <= MaxTroubles

MCSpec == MCInit /\ [][Next /\ FewTroubles']_vars /\ Fairness
=============================================================================
