-------------------------- MODULE OrchestratorSafety --------------------------
(***************************************************************************)
(* The orchestrator's types and invariants, for every value of its         *)
(* constants: the first shutdown's answer is true of the apps; every boot  *)
(* that ends ran its stages in order; a shutdown's answer is true of Core; *)
(* every app is ruled once a boot is over; and a later shutdown's answer   *)
(* is true of the apps.                                                    *)
(***************************************************************************)
EXTENDS Orchestrator, FiniteSetTheorems, SequenceTheorems, TLAPS

(* What the types rest on: a boot has the boot task and a cancelled one    *)
(* somebody to answer, a gate or a stage is at a step of the plan, and a   *)
(* shutdown under way has a number.                                        *)
InBoot ==
    /\ orch.phase \in {"booting", "cancelling"} => orch.task = -1
    /\ orch.phase = "cancelling" => orch.waiters # {}
AtStep == boot.at \in {"gate", "awaiting", "decided"} => boot.steps # <<>>
Asked == host.st # "idle" => host.n # 0
Typed == TypeOK /\ InBoot /\ AtStep /\ Asked

(* The state of the server, and the rest.                                  *)
ServerTyped == orch \in Orchs /\ mailbox \in Seq(Messages) /\ stops \in [Shutdowns -> StopTasks]
BootTyped == boot \in BootTasks /\ AtStep
AppsTyped == units \subseteq Apps \cup {CoreUnit} /\ app \in [Apps -> AppStates]
             /\ core \in [up : BOOLEAN, locked : BOOLEAN]
HostTyped == /\ host \in [st : {"idle", "asking", "calling", "runtime", "resuming"},
                          n : 0..MaxShutdowns, ok : BOOLEAN]
             /\ inflight \in BOOLEAN /\ restarts \in 0..MaxRestarts /\ Asked

LEMMA Parts == Typed <=> ServerTyped /\ InBoot /\ BootTyped /\ AppsTyped /\ HostTyped
BY DEF Typed, TypeOK, ServerTyped, BootTyped, AppsTyped, HostTyped, Asked

LEMMA PartsNext == Typed' <=> ServerTyped' /\ InBoot' /\ BootTyped' /\ AppsTyped' /\ HostTyped'
BY DEF Typed, TypeOK, ServerTyped, BootTyped, AppsTyped, HostTyped, Asked

-----------------------------------------------------------------------------
(* The latest of the waiters.                                              *)

LEMMA StrictSubset ==
  ASSUME NEW S, NEW A \in SUBSET S, NEW B \in SUBSET S, A \subseteq B, A # B
  PROVE <<A, B>> \in StrictSubsetOrdering(S)
BY DEF StrictSubsetOrdering

LEMMA LatestWaits ==
  ASSUME NEW W \in SUBSET Shutdowns, W # {}
  PROVE Latest(W) \in W
<1> DEFINE Above(k) == {j \in W : k <= j}
           T == {Above(k) : k \in W}
           R == StrictSubsetOrdering(Shutdowns)
<1>1. MaxShutdowns \in Nat /\ W \subseteq Nat /\ IsFiniteSet(Shutdowns)
  BY NumbersAssumption, FS_Interval DEF Shutdowns
<1>2. T \subseteq FiniteSubsetsOf(Shutdowns) /\ T # {}
  <2>1. \A k \in W : Above(k) \in SUBSET Shutdowns /\ IsFiniteSet(Above(k))
    BY <1>1, FS_Subset
  <2> QED
    BY <2>1 DEF FiniteSubsetsOf
<1>3. IsWellFoundedOn(R, FiniteSubsetsOf(Shutdowns))
  BY FS_StrictSubsetOrderingWellFounded
<1>4. PICK S \in T : \A U \in T : ~(<<U, S>> \in R)
  <2> HIDE DEF T, R
  <2> QED
    BY <1>2, <1>3, WFMin, Zenon
<1>5. PICK k \in W : S = Above(k)
  BY <1>4
<1>6. \A j \in W : j <= k
  <2> SUFFICES ASSUME NEW j \in W, ~(j <= k) PROVE FALSE
    OBVIOUS
  <2>1. k < j
    BY <1>1
  <2>2. Above(j) \subseteq Above(k) /\ k \in Above(k) /\ k \notin Above(j)
    <3>1. \A i \in W : i \in Int
      BY <1>1
    <3>2. \A i \in W : j <= i => k <= i
      BY <2>1, <3>1
    <3>3. k <= k /\ ~(j <= k)
      BY <2>1, <3>1
    <3> QED
      BY <3>2, <3>3
  <2>3. Above(j) \in SUBSET Shutdowns /\ Above(k) \in SUBSET Shutdowns
    OBVIOUS
  <2>4. <<Above(j), Above(k)>> \in R
    BY <2>2, <2>3, StrictSubset
  <2> QED
    BY <1>4, <1>5, <2>4
<1> QED
  BY <1>6 DEF Latest

-----------------------------------------------------------------------------
(* Messages.                                                               *)

LEMMA MessageTyped ==
  /\ \A n \in Shutdowns : Message("shutdown", n) \in Messages /\ Message("stopped", n) \in Messages
  /\ \A a \in Apps : Message("up", a) \in Messages
  /\ Message("resume", 0) \in Messages
  /\ \A result \in BootEnds : Message(result, 0) \in Messages
BY DEF Message, Messages

LEMMA SendTyped ==
  ASSUME ServerTyped, NEW m \in Messages, Send(m) PROVE mailbox' \in Seq(Messages)
BY DEF Send, ServerTyped

LEMMA ReceivedTyped ==
  ASSUME ServerTyped, NEW kind, Received(kind)
  PROVE /\ mailbox # <<>> /\ Head(mailbox) \in Messages /\ Tail(mailbox) \in Seq(Messages)
        /\ kind \in {"shutdown", "stopped"} => Head(mailbox).arg \in Shutdowns
        /\ kind = "up" => Head(mailbox).arg \in Apps
<1>1. mailbox # <<>> /\ Head(mailbox) \in Messages /\ Tail(mailbox) \in Seq(Messages)
      /\ Head(mailbox).kind = kind
  BY HeadTailProperties DEF ServerTyped, Received
<1> QED
  BY <1>1 DEF Messages, BootEnds

-----------------------------------------------------------------------------
(* Boot tasks.                                                             *)

LEMMA PlanTyped == Plan \in Seq(StepNames)
<1> DEFINE patches == IF Agent THEN <<"patches">> ELSE <<>>
           dist == IF Agent THEN <<"dist">> ELSE <<>>
<1>1. /\ <<"defaults", "tree">> \in Seq(StepNames) /\ <<"native", "engine", "network">> \in Seq(StepNames)
      /\ <<"api", "install">> \in Seq(StepNames) /\ Stages \in Seq(StepNames)
      /\ patches \in Seq(StepNames) /\ dist \in Seq(StepNames)
  BY DEF StepNames, Gates, AppStages, Stages
<1> HIDE DEF patches, dist
<1>2. <<"defaults", "tree">> \o patches \in Seq(StepNames)
  BY <1>1
<1>3. <<"defaults", "tree">> \o patches \o <<"native", "engine", "network">> \in Seq(StepNames)
  BY <1>1, <1>2
<1>4. <<"defaults", "tree">> \o patches \o <<"native", "engine", "network">> \o dist \in Seq(StepNames)
  BY <1>1, <1>3
<1>5. <<"defaults", "tree">> \o patches \o <<"native", "engine", "network">> \o dist
        \o <<"api", "install">> \in Seq(StepNames)
  BY <1>1, <1>4
<1>6. <<"defaults", "tree">> \o patches \o <<"native", "engine", "network">> \o dist
        \o <<"api", "install">> \o Stages \in Seq(StepNames)
  BY <1>1, <1>5
<1> QED
  BY <1>6 DEF Plan, patches, dist

LEMMA NoBootTyped ==
  /\ NoBoot \in BootTasks /\ RunBoot \in BootTasks
  /\ NoBoot.at = "idle" /\ RunBoot.at = "running"
<1>1. 0 \in 0..GateTries /\ <<>> \in Seq(StepNames) /\ <<>> \in Seq(AppStages)
      /\ {} \in SUBSET (Apps \cup {CoreUnit})
  BY NumbersAssumption
<1>2. NoBoot \in BootTasks /\ NoBoot.at = "idle"
  BY <1>1 DEF NoBoot, BootTasks
<1>3. RunBoot = [NoBoot EXCEPT !.at = "running", !.steps = Plan]
  BY DEF RunBoot
<1>4. RunBoot \in BootTasks /\ RunBoot.at = "running"
  BY <1>2, <1>3, PlanTyped DEF BootTasks
<1> QED
  BY <1>2, <1>4

LEMMA ProceedTyped ==
  ASSUME BootTyped, boot.steps # <<>>
  PROVE Proceed \in BootTasks /\ Proceed.at = "running" /\ Proceed.put_off = boot.put_off
<1>1. boot \in BootTasks /\ Tail(boot.steps) \in Seq(StepNames)
  BY HeadTailProperties DEF BootTyped, BootTasks
<1>2. 0 \in 0..GateTries /\ {} \in SUBSET (Apps \cup {CoreUnit})
  BY NumbersAssumption
<1>3. Proceed = [boot EXCEPT !.at = "running", !.steps = Tail(boot.steps), !.tries = 0, !.awaited = {}]
  BY DEF Proceed
<1> DEFINE t == Tail(boot.steps)
           w == {}
<1> HIDE DEF t, w
<1>4. [boot EXCEPT !.at = "running", !.steps = t, !.tries = 0, !.awaited = w] \in BootTasks
  BY <1>1, <1>2 DEF BootTasks, t, w
<1> QED
  BY <1>1, <1>2, <1>3, <1>4 DEF t, w, BootTasks

LEMMA EndBootTyped ==
  ASSUME ServerTyped, NEW result \in BootEnds, EndBoot(result)
  PROVE mailbox' \in Seq(Messages) /\ BootTyped'
BY MessageTyped, SendTyped, NoBootTyped DEF EndBoot, BootTyped, AtStep

LEMMA BeginBootTyped ==
  ASSUME BootTyped, NEW s \in Orchs, BeginBoot(s)
  PROVE orch' \in Orchs /\ InBoot' /\ BootTyped'
<1>1. CASE orch' = [s EXCEPT !.phase = "booting", !.task = -1] /\ boot' = RunBoot
  <2>1. orch' = [phase |-> "booting", task |-> -1, waiters |-> s.waiters, resume |-> s.resume,
                 complete |-> s.complete]
    BY <1>1 DEF Orchs
  <2>2. -1 \in -1..MaxShutdowns
    BY NumbersAssumption
  <2> QED
    BY <1>1, <2>1, <2>2, NoBootTyped DEF BootTyped, AtStep, Orchs, InBoot
<1>2. CASE orch' = [s EXCEPT !.phase = "up"] /\ boot' = boot
  <2>1. orch' \in Orchs /\ InBoot'
    BY <1>2 DEF Orchs, InBoot
  <2> QED
    BY <1>2, <2>1 DEF BootTyped, AtStep
<1> QED
  BY <1>1, <1>2 DEF BeginBoot

LEMMA BeginStopTyped ==
  ASSUME ServerTyped, NEW s \in Orchs, NEW n \in Shutdowns, BeginStop(s, n)
  PROVE orch' \in Orchs /\ InBoot' /\ stops' \in [Shutdowns -> StopTasks]
<1>1. orch' = [phase |-> "stopping", task |-> n, waiters |-> s.waiters, resume |-> s.resume,
               complete |-> s.complete]
  BY DEF BeginStop, Orchs
<1>2. n \in -1..MaxShutdowns
  BY NumbersAssumption DEF Shutdowns
<1>3. orch' \in Orchs /\ InBoot'
  BY <1>1, <1>2 DEF Orchs, InBoot
<1> QED
  BY <1>3 DEF BeginStop, ServerTyped, StopTasks

-----------------------------------------------------------------------------
(* The handlers.                                                           *)

LEMMA DownTyped == Down \in Orchs /\ Down.phase = "down"
BY NumbersAssumption DEF Down, Orchs

LEMMA StartTyped == ASSUME Typed, Start PROVE Typed'
<1>a. ServerTyped /\ InBoot /\ BootTyped /\ AppsTyped /\ HostTyped
  BY Parts
<1>1. orch' \in Orchs /\ InBoot' /\ BootTyped'
  <2>1. CASE orch' = [Down EXCEPT !.phase = "stopping"] /\ UNCHANGED boot
    <3>1. orch' \in Orchs /\ InBoot'
      BY <2>1, DownTyped DEF Orchs, InBoot
    <3> QED
      BY <1>a, <2>1, <3>1 DEF BootTyped, AtStep
  <2>2. CASE BeginBoot(Down)
    BY <1>a, <2>2, DownTyped, BeginBootTyped
  <2> QED
    BY <2>1, <2>2 DEF Start
<1> QED
  BY <1>a, <1>1, PartsNext DEF Start, ServerTyped, AppsTyped, HostTyped, Asked

LEMMA GoDownTyped ==
  ASSUME Typed, GoDown, restarts' \in 0..MaxRestarts PROVE Typed'
<1>a. ServerTyped /\ AppsTyped /\ HostTyped
  BY Parts
<1>1. ServerTyped' /\ InBoot'
  BY <1>a, DownTyped DEF GoDown, ServerTyped, InBoot
<1>2. BootTyped'
  BY NoBootTyped DEF GoDown, BootTyped, AtStep
<1>3. HostTyped'
  BY <1>a DEF GoDown, HostTyped, Asked
<1> QED
  BY <1>a, <1>1, <1>2, <1>3, PartsNext DEF GoDown, AppsTyped

LEMMA ServerStepTyped == ASSUME Typed, Server PROVE Typed'
<1>a. ServerTyped /\ InBoot /\ BootTyped /\ AppsTyped /\ HostTyped
  BY Parts
<1>b. orch \in Orchs /\ stops \in [Shutdowns -> StopTasks]
  BY <1>a DEF ServerTyped
<1>1. CASE HandleShutdown
  <2> DEFINE n == Head(mailbox).arg
  <2>1. n \in Shutdowns /\ Tail(mailbox) \in Seq(Messages)
    BY <1>1, <1>a, ReceivedTyped DEF HandleShutdown
  <2>2. mailbox' = Tail(mailbox) /\ UNCHANGED <<units, app, core, host, inflight, restarts>>
    BY <1>1 DEF HandleShutdown
  <2> HIDE DEF n
  <2>3. CASE orch' = [orch EXCEPT !.waiters = @ \cup {n}] /\ UNCHANGED <<boot, stops>>
    <3>1. orch' \in Orchs /\ InBoot'
      BY <1>a, <1>b, <2>1, <2>3 DEF Orchs, InBoot
    <3> QED
      BY <1>a, <2>1, <2>2, <2>3, <3>1, PartsNext DEF ServerTyped, BootTyped, AtStep, AppsTyped, HostTyped, Asked
  <2>4. CASE /\ orch.phase = "booting" /\ orch' = [orch EXCEPT !.waiters = {n}, !.phase = "cancelling"]
             /\ boot' = [boot EXCEPT !.cancel = TRUE] /\ UNCHANGED stops
    <3>1. orch' \in Orchs /\ InBoot'
      BY <1>a, <1>b, <2>1, <2>4 DEF Orchs, InBoot
    <3>2. BootTyped'
      BY <1>a, <2>4 DEF BootTyped, BootTasks, AtStep
    <3> QED
      BY <1>a, <2>1, <2>2, <2>4, <3>1, <3>2, PartsNext DEF ServerTyped, AppsTyped, HostTyped, Asked
  <2>5. CASE BeginStop([orch EXCEPT !.waiters = {n}], n) /\ UNCHANGED boot
    <3>1. [orch EXCEPT !.waiters = {n}] \in Orchs
      BY <1>b, <2>1 DEF Orchs
    <3>2. orch' \in Orchs /\ InBoot' /\ stops' \in [Shutdowns -> StopTasks]
      BY <1>a, <2>1, <2>5, <3>1, BeginStopTyped
    <3> QED
      BY <1>a, <2>1, <2>2, <2>5, <3>2, PartsNext DEF ServerTyped, BootTyped, AtStep, AppsTyped, HostTyped, Asked
  <2> QED
    BY <1>1, <2>3, <2>4, <2>5 DEF HandleShutdown, n
<1>2. CASE HandleResume
  <2>1. Tail(mailbox) \in Seq(Messages) /\ mailbox' = Tail(mailbox)
        /\ UNCHANGED <<stops, units, app, core, host, inflight, restarts>>
    BY <1>2, <1>a, ReceivedTyped DEF HandleResume
  <2>2. orch' \in Orchs /\ InBoot' /\ BootTyped'
    <3>1. CASE BeginBoot(orch)
      BY <1>a, <1>b, <3>1, BeginBootTyped
    <3>2. CASE orch' = [orch EXCEPT !.resume = TRUE] /\ UNCHANGED boot
      BY <1>a, <1>b, <3>2 DEF Orchs, InBoot, BootTyped, AtStep
    <3>3. CASE UNCHANGED <<orch, boot>>
      BY <1>a, <1>b, <3>3 DEF InBoot, BootTyped, AtStep
    <3> QED
      BY <1>2, <3>1, <3>2, <3>3 DEF HandleResume
  <2> QED
    BY <1>a, <2>1, <2>2, PartsNext DEF ServerTyped, AppsTyped, HostTyped, Asked
<1>3. CASE HandleUp
  <2>1. Tail(mailbox) \in Seq(Messages) /\ mailbox' = Tail(mailbox) /\ Head(mailbox).arg \in Apps
        /\ UNCHANGED <<orch, boot, stops, app, core, host, inflight, restarts>>
        /\ units' \subseteq units \cup {Head(mailbox).arg}
    BY <1>3, <1>a, ReceivedTyped DEF HandleUp
  <2> QED
    BY <1>a, <2>1, PartsNext DEF ServerTyped, InBoot, BootTyped, AtStep, AppsTyped, HostTyped, Asked
<1>4. CASE HandleBootEnd
  <2>1. Tail(mailbox) \in Seq(Messages) /\ mailbox' = Tail(mailbox)
        /\ UNCHANGED <<boot, units, app, core, host, inflight, restarts>>
    BY <1>4, <1>a, ReceivedTyped DEF HandleBootEnd
  <2>2. [orch EXCEPT !.task = 0] \in Orchs
    BY <1>b, NumbersAssumption DEF Orchs
  <2>3. orch' \in Orchs /\ InBoot' /\ stops' \in [Shutdowns -> StopTasks]
    <3>1. CASE orch.phase = "cancelling" /\ BeginStop([orch EXCEPT !.task = 0], Latest(orch.waiters))
      <4>1. Latest(orch.waiters) \in Shutdowns
        BY <1>a, <1>b, <3>1, LatestWaits DEF InBoot, Orchs
      <4> QED
        BY <1>a, <2>2, <3>1, <4>1, BeginStopTyped
    <3>2. ASSUME NEW result \in BootEnds,
                 orch' = [[orch EXCEPT !.task = 0] EXCEPT !.phase = "up", !.complete = @ \/ result = "complete"],
                 UNCHANGED stops
          PROVE orch' \in Orchs /\ InBoot' /\ stops' \in [Shutdowns -> StopTasks]
      BY <1>b, <2>2, <3>2 DEF Orchs, InBoot
    <3> QED
      BY <1>4, <3>1, <3>2 DEF HandleBootEnd
  <2> QED
    BY <1>a, <2>1, <2>3, PartsNext DEF ServerTyped, BootTyped, AtStep, AppsTyped, HostTyped, Asked
<1>5. CASE HandleBootCrash
  BY <1>5, <1>a, GoDownTyped DEF HandleBootCrash, HostTyped, Asked
<1>6. CASE HandleStopEnd
  <2> DEFINE n == Head(mailbox).arg
             s == [orch EXCEPT !.task = 0, !.waiters = {}, !.resume = FALSE]
  <2>1. n \in Shutdowns /\ Tail(mailbox) \in Seq(Messages) /\ mailbox' = Tail(mailbox)
        /\ UNCHANGED <<stops, units, app, core, inflight, restarts>>
    BY <1>6, <1>a, ReceivedTyped DEF HandleStopEnd
  <2>2. s \in Orchs
    <3>1. 0 \in -1..MaxShutdowns /\ {} \in SUBSET Shutdowns
      BY NumbersAssumption
    <3>2. \A t \in -1..MaxShutdowns, w \in SUBSET Shutdowns, x \in BOOLEAN :
            [orch EXCEPT !.task = t, !.waiters = w, !.resume = x] \in Orchs
      BY <1>b DEF Orchs
    <3> QED
      BY <3>1, <3>2
  <2>3. CASE UNCHANGED <<orch, boot, host>>
    BY <1>a, <2>1, <2>3, PartsNext DEF ServerTyped, InBoot, BootTyped, AtStep, AppsTyped, HostTyped, Asked
  <2>4. CASE orch.task = n
    <3>1. host' = host \/ host' = [host EXCEPT !.st = "runtime", !.ok = stops[n].ok]
      BY <1>6, <2>4 DEF HandleStopEnd
    <3>2. HostTyped'
      <4>1. stops[n].ok \in BOOLEAN
        BY <1>b, <2>1 DEF StopTasks
      <4>2. PICK ok \in BOOLEAN : host' = host \/ host' = [host EXCEPT !.st = "runtime", !.ok = ok]
        BY <3>1, <4>1
      <4>3. host.st = "calling" \/ host' = host
        BY <1>6, <2>4 DEF HandleStopEnd
      <4> QED
        BY <1>a, <2>1, <4>2, <4>3 DEF HostTyped, Asked
    <3>3. orch' \in Orchs /\ InBoot' /\ BootTyped'
      <4>1. CASE BeginBoot(s)
        <5> HIDE DEF s
        <5> QED
          BY <1>a, <2>2, <4>1, BeginBootTyped
      <4>2. CASE orch' = s /\ UNCHANGED boot
        <5>1. orch.phase \notin {"booting", "cancelling"}
          BY <1>a, <2>1, <2>4 DEF InBoot, Shutdowns
        <5>2. orch'.phase = orch.phase
          BY <1>b, <4>2 DEF Orchs
        <5> QED
          BY <1>a, <2>2, <4>2, <5>1, <5>2 DEF InBoot, BootTyped, AtStep
      <4> QED
        BY <1>6, <2>4, <4>1, <4>2 DEF HandleStopEnd
    <3> QED
      BY <1>a, <2>1, <3>2, <3>3, PartsNext DEF ServerTyped, AppsTyped
  <2> QED
    BY <1>6, <2>3, <2>4 DEF HandleStopEnd
<1> QED
  BY <1>1, <1>2, <1>3, <1>4, <1>5, <1>6 DEF Server

-----------------------------------------------------------------------------
(* The boot task.                                                          *)

(* A step of the boot task that leaves the server and the host alone.      *)
LEMMA BootKeeps ==
  ASSUME Typed, BootTyped', mailbox' \in Seq(Messages), AppsTyped',
         UNCHANGED <<orch, stops, host, inflight, restarts>>
  PROVE Typed'
BY Parts, PartsNext DEF ServerTyped, InBoot, HostTyped, Asked

LEMMA ProceedKeeps ==
  ASSUME BootTyped, boot.steps # <<>>, boot' = Proceed PROVE BootTyped'
BY ProceedTyped DEF BootTyped, AtStep

LEMMA BootTaskTyped == ASSUME Typed, BootTask PROVE Typed'
<1>a. ServerTyped /\ InBoot /\ BootTyped /\ AppsTyped /\ HostTyped
  BY Parts
<1>b. boot \in BootTasks /\ mailbox \in Seq(Messages)
  BY <1>a DEF BootTyped, ServerTyped
<1>c. ASSUME UNCHANGED <<units, app, core>> PROVE AppsTyped'
  BY <1>a, <1>c DEF AppsTyped
<1>1. CASE Cancelled
  BY <1>1, <1>a, <1>c, EndBootTyped, BootKeeps DEF Cancelled, BootEnds
<1>2. CASE InstallNative
  <2>1. BootTyped'
    BY <1>2, <1>a, ProceedKeeps DEF InstallNative
  <2>2. app' \in [Apps -> AppStates]
    <3>1. PICK done : app' = [a \in Apps |-> IF a \in done THEN [app[a] EXCEPT !.present = TRUE] ELSE app[a]]
      BY <1>2 DEF InstallNative
    <3> QED
      BY <1>a, <3>1 DEF AppsTyped, AppStates
  <2> QED
    BY <1>2, <1>a, <1>b, <2>1, <2>2, BootKeeps DEF InstallNative, AppsTyped
<1>3. CASE Decide
  <2>1. PICK d \in {"run", "put_off"} : boot' = [boot EXCEPT !.at = "decided", !.decided = d]
    BY <1>3 DEF Decide
  <2>2. BootTyped'
    BY <1>3, <1>a, <1>b, <2>1 DEF Decide, BootTyped, BootTasks, AtStep
  <2> QED
    BY <1>3, <1>b, <1>c, <2>2, BootKeeps DEF Decide
<1>4. CASE PutOff
  <2>1. Head(boot.steps) \in AppStages /\ boot.steps # <<>>
    BY <1>4 DEF PutOff
  <2>2. Proceed \in BootTasks /\ Proceed.at = "running"
    BY <1>a, <2>1, ProceedTyped
  <2>3. boot' = [Proceed EXCEPT !.put_off = Append(Proceed.put_off, Head(boot.steps))]
    BY <1>4 DEF PutOff
  <2>4. Append(Proceed.put_off, Head(boot.steps)) \in Seq(AppStages)
    BY <2>1, <2>2 DEF BootTasks
  <2>5. boot' \in BootTasks /\ boot'.at = "running"
    BY <2>2, <2>3, <2>4 DEF BootTasks
  <2>6. BootTyped'
    BY <2>5 DEF BootTyped, AtStep
  <2> QED
    BY <1>4, <1>b, <1>c, <2>6, BootKeeps DEF PutOff
<1>5. CASE EnterGate
  <2>1. BootTyped'
    BY <1>5, <1>a, <1>b DEF EnterGate, BootTyped, BootTasks, AtStep
  <2> QED
    BY <1>5, <1>b, <1>c, <2>1, BootKeeps DEF EnterGate
<1>6. CASE Gate
  <2>1. boot.steps # <<>>
    BY <1>6, <1>a DEF Gate, BootTyped, AtStep
  <2>2. CASE boot' = Proceed /\ UNCHANGED mailbox
    BY <1>6, <1>a, <1>b, <1>c, <2>1, <2>2, ProceedKeeps, BootKeeps DEF Gate
  <2>3. CASE EndBoot("halted")
    BY <1>6, <1>a, <1>c, <2>3, EndBootTyped, BootKeeps DEF Gate, BootEnds
  <2>4. CASE ~(boot.tries + 1 >= GateTries) /\ boot' = [boot EXCEPT !.tries = @ + 1] /\ UNCHANGED mailbox
    <3>1. boot.tries + 1 \in 0..GateTries
      BY <1>b, <2>4, NumbersAssumption DEF BootTasks
    <3>2. BootTyped'
      BY <1>a, <1>b, <2>1, <2>4, <3>1 DEF BootTyped, BootTasks, AtStep
    <3> QED
      BY <1>6, <1>b, <1>c, <2>4, <3>2, BootKeeps DEF Gate
  <2> QED
    BY <1>6, <2>2, <2>3, <2>4 DEF Gate
<1>7. CASE InstallContainers
  <2>1. BootTyped' /\ AppsTyped'
    BY <1>7, <1>a, ProceedKeeps, AppsAssumption DEF InstallContainers, AppsTyped
  <2> QED
    BY <1>7, <1>b, <2>1, BootKeeps DEF InstallContainers
<1>8. CASE Stage
  <2>1. PICK spawned \in SUBSET (Apps \cup {CoreUnit}) :
          /\ units' = units \cup spawned
          /\ boot' = [boot EXCEPT !.at = "awaiting", !.awaited = spawned \ OnceApps,
                                  !.ran = Append(boot.ran, Head(boot.steps))]
    BY <1>8 DEF Stage, InStage
  <2>2. Head(boot.steps) \in StepNames /\ boot.steps # <<>>
    BY <1>8, <1>b, HeadTailProperties DEF Stage, BootTasks
  <2>3. Append(boot.ran, Head(boot.steps)) \in Seq(StepNames)
    BY <1>b, <2>2 DEF BootTasks
  <2>4. boot' \in BootTasks /\ boot'.steps = boot.steps
    BY <1>b, <2>1, <2>3 DEF BootTasks
  <2>5. BootTyped' /\ AppsTyped'
    BY <1>8, <1>a, <2>1, <2>2, <2>4 DEF Stage, BootTyped, AtStep, AppsTyped
  <2> QED
    BY <1>8, <1>b, <2>5, BootKeeps DEF Stage
<1>9. CASE Awaited
  <2>1. boot.steps # <<>>
    BY <1>9, <1>a DEF Awaited, BootTyped, AtStep
  <2> QED
    BY <1>9, <1>a, <1>b, <1>c, <2>1, ProceedKeeps, BootKeeps DEF Awaited
<1>10. CASE AwaitPrimary
  <2>1. 0 \in 0..GateTries
    BY NumbersAssumption
  <2>2. BootTyped'
    BY <1>10, <1>b, <2>1 DEF AwaitPrimary, BootTyped, BootTasks, AtStep
  <2> QED
    BY <1>10, <1>b, <1>c, <2>2, BootKeeps DEF AwaitPrimary
<1>11. CASE Primary
  <2>1. CASE boot' = [boot EXCEPT !.at = "running", !.steps = boot.put_off,
                                  !.put_off = <<>>, !.decided = "run", !.tries = 0]
    <3>1. 0 \in 0..GateTries /\ <<>> \in Seq(AppStages) /\ boot.put_off \in Seq(StepNames)
      BY <1>b, NumbersAssumption DEF BootTasks, StepNames
    <3> DEFINE e == <<>>
    <3> HIDE DEF e
    <3>2. boot' = [boot EXCEPT !.at = "running", !.steps = boot.put_off,
                               !.put_off = e, !.decided = "run", !.tries = 0]
      BY <2>1 DEF e
    <3>3. BootTyped'
      BY <1>b, <3>1, <3>2 DEF e, BootTyped, BootTasks, AtStep
    <3> QED
      BY <1>11, <1>b, <1>c, <3>3, BootKeeps DEF Primary
  <2>2. CASE boot.tries + 1 < GateTries /\ boot' = [boot EXCEPT !.tries = @ + 1]
    <3>1. boot.tries + 1 \in 0..GateTries
      BY <1>b, <2>2, NumbersAssumption DEF BootTasks
    <3>2. BootTyped'
      BY <1>11, <1>b, <2>2, <3>1 DEF Primary, BootTyped, BootTasks, AtStep
    <3> QED
      BY <1>11, <1>b, <1>c, <3>2, BootKeeps DEF Primary
  <2> QED
    BY <1>11, <2>1, <2>2 DEF Primary
<1>12. CASE PushComplete
  BY <1>12, <1>a, <1>c, EndBootTyped, BootKeeps DEF PushComplete, BootEnds
<1> QED
  BY <1>1, <1>2, <1>3, <1>4, <1>5, <1>6, <1>7, <1>8, <1>9, <1>10, <1>11, <1>12 DEF BootTask

-----------------------------------------------------------------------------
(* The units, the stop tasks, the host and the faults.                     *)

LEMMA UnitStepTyped == ASSUME Typed, UnitStep PROVE Typed'
<1>a. ServerTyped /\ InBoot /\ BootTyped /\ AppsTyped /\ HostTyped
  BY Parts
<1>b. app \in [Apps -> AppStates]
  BY <1>a DEF AppsTyped
<1>c. ASSUME AppsTyped', UNCHANGED <<orch, mailbox, boot, stops, host, inflight, restarts>> PROVE Typed'
  BY <1>a, <1>c, PartsNext DEF ServerTyped, InBoot, BootTyped, AtStep, HostTyped, Asked
<1>1. ASSUME NEW a \in Apps, UnitCalls(a) PROVE Typed'
  <2>1. PICK starts \in BOOLEAN :
          app' = [app EXCEPT ![a] = [app[a] EXCEPT !.present = TRUE, !.ruled = TRUE,
                                                   !.halted = FALSE, !.starting = starts]]
    BY <1>1 DEF UnitCalls
  <2>2. [app[a] EXCEPT !.present = TRUE, !.ruled = TRUE, !.halted = FALSE, !.starting = starts] \in AppStates
    BY <1>b DEF AppStates
  <2>3. app' \in [Apps -> AppStates]
    BY <1>b, <2>1, <2>2
  <2>4. units' \subseteq units
    BY <1>1 DEF UnitCalls
  <2> QED
    BY <1>1, <1>a, <1>c, <2>3, <2>4 DEF UnitCalls, AppsTyped
<1>2. ASSUME NEW a \in Apps, UnitReturns(a) PROVE Typed'
  <2>1. PICK up \in BOOLEAN : app' = [app EXCEPT ![a] = [app[a] EXCEPT !.starting = FALSE, !.up = up]]
    BY <1>2 DEF UnitReturns
  <2>2. [app[a] EXCEPT !.starting = FALSE, !.up = up] \in AppStates
    BY <1>b DEF AppStates
  <2>3. app' \in [Apps -> AppStates]
    BY <1>b, <2>1, <2>2
  <2> QED
    BY <1>2, <1>a, <1>c, <2>3 DEF UnitReturns, AppsTyped
<1>3. ASSUME NEW a \in Apps, InstallFails(a) PROVE Typed'
  BY <1>3, <1>a, <1>c DEF InstallFails, AppsTyped
<1>4. CASE CoreLocks
  BY <1>4, <1>a, <1>c DEF CoreLocks, AppsTyped
<1>5. CASE CoreStarted
  <2>1. PICK up \in BOOLEAN : core' = [up |-> up, locked |-> FALSE]
    BY <1>5 DEF CoreStarted
  <2> QED
    BY <1>5, <1>a, <1>c, <2>1 DEF CoreStarted, AppsTyped
<1> QED
  BY <1>1, <1>2, <1>3, <1>4, <1>5 DEF UnitStep

LEMMA HaltGroupTyped ==
  ASSUME Typed, NEW n \in Shutdowns, NEW group, NEW next \in {"core", "done"},
         HaltGroup(n, group, next)
  PROVE app' \in [Apps -> AppStates] /\ units' \subseteq units /\ stops' \in [Shutdowns -> StopTasks]
<1>1. app \in [Apps -> AppStates] /\ stops \in [Shutdowns -> StopTasks]
  BY DEF Typed, TypeOK
<1>2. PICK done :
        /\ app' = [a \in Apps |-> IF a \in done
                                  THEN [app[a] EXCEPT !.halted = TRUE, !.starting = FALSE, !.up = FALSE]
                                  ELSE app[a]]
        /\ units' = units \ {a \in done : app[a].starting}
        /\ stops' = [stops EXCEPT ![n] = [at |-> next, ok |-> @.ok /\ done = group]]
  BY DEF HaltGroup
<1>3. \A a \in Apps : [app[a] EXCEPT !.halted = TRUE, !.starting = FALSE, !.up = FALSE] \in AppStates
  BY <1>1 DEF AppStates
<1>4. app' \in [Apps -> AppStates]
  BY <1>1, <1>2, <1>3
<1>5. PICK ok \in BOOLEAN : stops' = [stops EXCEPT ![n] = [at |-> next, ok |-> ok]]
  BY <1>1, <1>2 DEF StopTasks
<1>6. [at |-> next, ok |-> ok] \in StopTasks
  BY DEF StopTasks
<1>7. stops' \in [Shutdowns -> StopTasks]
  BY <1>1, <1>5, <1>6
<1> QED
  BY <1>2, <1>4, <1>7

LEMMA StopStepTyped == ASSUME Typed, StopStep PROVE Typed'
<1>a. ServerTyped /\ InBoot /\ BootTyped /\ AppsTyped /\ HostTyped
  BY Parts
<1>c. ASSUME AppsTyped', mailbox' \in Seq(Messages), stops' \in [Shutdowns -> StopTasks],
             UNCHANGED <<orch, boot, host, inflight, restarts>>
      PROVE Typed'
  BY <1>a, <1>c, PartsNext DEF ServerTyped, InBoot, BootTyped, AtStep, HostTyped, Asked
<1>1. ASSUME NEW n \in Shutdowns, StopApps(n) PROVE Typed'
  BY <1>1, <1>a, <1>c, HaltGroupTyped DEF StopApps, AppsTyped, ServerTyped
<1>2. ASSUME NEW n \in Shutdowns, StopCore(n) PROVE Typed'
  <2>1. core' \in [up : BOOLEAN, locked : BOOLEAN] /\ mailbox' = mailbox
    BY <1>2, <1>a DEF StopCore, AppsTyped
  <2>2. stops' \in [Shutdowns -> StopTasks]
    <3>1. CASE stops' = [stops EXCEPT ![n].at = "earlier"]
      <4>1. [stops[n] EXCEPT !.at = "earlier"] \in StopTasks
        BY <1>a DEF ServerTyped, StopTasks
      <4> QED
        BY <1>a, <3>1, <4>1 DEF ServerTyped
    <3>2. CASE stops' = [stops EXCEPT ![n] = [at |-> "earlier", ok |-> FALSE]]
      <4>1. [at |-> "earlier", ok |-> FALSE] \in StopTasks
        BY DEF StopTasks
      <4> QED
        BY <1>a, <3>2, <4>1 DEF ServerTyped
    <3> QED
      BY <1>2, <3>1, <3>2 DEF StopCore
  <2> QED
    BY <1>2, <1>a, <1>c, <2>1, <2>2 DEF StopCore, AppsTyped, ServerTyped
<1>3. ASSUME NEW n \in Shutdowns, StopEarlier(n) PROVE Typed'
  <2>1. mailbox' \in Seq(Messages)
    BY <1>3, <1>a, MessageTyped, SendTyped DEF StopEarlier, ServerTyped
  <2>2. app' \in [Apps -> AppStates] /\ units' \subseteq units /\ stops' \in [Shutdowns -> StopTasks]
    BY <1>3, HaltGroupTyped DEF StopEarlier
  <2> QED
    BY <1>3, <1>a, <1>c, <2>1, <2>2 DEF StopEarlier, AppsTyped
<1> QED
  BY <1>1, <1>2, <1>3 DEF StopStep

LEMMA HostTypes == ASSUME Typed, Host PROVE Typed'
<1>a. ServerTyped /\ InBoot /\ BootTyped /\ AppsTyped /\ HostTyped
  BY Parts
<1>b. /\ host \in [st : {"idle", "asking", "calling", "runtime", "resuming"}, n : 0..MaxShutdowns, ok : BOOLEAN]
      /\ mailbox \in Seq(Messages) /\ MaxShutdowns \in Nat
  BY <1>a, NumbersAssumption DEF HostTyped, Asked, ServerTyped
<1>c. ASSUME HostTyped', mailbox' \in Seq(Messages), UNCHANGED <<orch, boot, stops, units, app, core>>
      PROVE Typed'
  BY <1>a, <1>c, PartsNext DEF ServerTyped, InBoot, BootTyped, AtStep, AppsTyped
<1>1. CASE RaiseFlag
  <2>1. HostTyped'
    BY <1>1, <1>a, <1>b DEF RaiseFlag, HostTyped, Asked
  <2> QED
    BY <1>1, <1>b, <1>c, <2>1 DEF RaiseFlag
<1>2. CASE AskShutdown
  <2>1. HostTyped'
    BY <1>2, <1>a, <1>b DEF AskShutdown, HostTyped, Asked
  <2>2. mailbox' \in Seq(Messages)
    <3>1. CASE UNCHANGED mailbox
      BY <1>b, <3>1
    <3>2. CASE Send(Message("shutdown", host.n))
      <4>1. host.n \in Shutdowns
        BY <1>2, <1>a, <1>b DEF AskShutdown, Shutdowns, HostTyped, Asked
      <4> QED
        BY <1>a, <3>2, <4>1, MessageTyped, SendTyped
    <3> QED
      BY <1>2, <3>1, <3>2 DEF AskShutdown
  <2> QED
    BY <1>2, <1>c, <2>1, <2>2 DEF AskShutdown
<1>3. CASE GiveUp \/ RuntimeFails
  <2>1. HostTyped'
    BY <1>3, <1>a, <1>b DEF GiveUp, RuntimeFails, HostTyped, Asked
  <2> QED
    BY <1>3, <1>b, <1>c, <2>1 DEF GiveUp, RuntimeFails
<1>4. CASE Resume
  <2>1. HostTyped'
    BY <1>4, <1>a, <1>b DEF Resume, HostTyped, Asked
  <2>2. mailbox' \in Seq(Messages)
    BY <1>4, <1>a, <1>b, MessageTyped, SendTyped DEF Resume
  <2> QED
    BY <1>4, <1>c, <2>1, <2>2 DEF Resume
<1> QED
  BY <1>1, <1>2, <1>3, <1>4 DEF Host

LEMMA FaultsTyped ==
  ASSUME Typed, \/ Crash \/ BootCrashes \/ (\E n \in Shutdowns : StopCrashes(n))
                \/ \E a \in Apps : AppRestarts(a)
  PROVE Typed'
<1>a. ServerTyped /\ InBoot /\ BootTyped /\ AppsTyped /\ HostTyped
  BY Parts
<1>b. restarts < MaxRestarts => restarts + 1 \in 0..MaxRestarts
  BY <1>a, NumbersAssumption DEF HostTyped, Asked
<1>1. CASE Crash
  BY <1>1, <1>b, GoDownTyped DEF Crash
<1>2. CASE BootCrashes
  <2>1. HostTyped'
    BY <1>2, <1>a, <1>b DEF BootCrashes, HostTyped, Asked
  <2>2. mailbox' \in Seq(Messages) /\ BootTyped'
    BY <1>2, <1>a, EndBootTyped DEF BootCrashes, BootEnds
  <2> QED
    BY <1>2, <1>a, <2>1, <2>2, PartsNext DEF BootCrashes, ServerTyped, InBoot, AppsTyped
<1>3. ASSUME NEW n \in Shutdowns, StopCrashes(n) PROVE Typed'
  <2>1. HostTyped'
    BY <1>3, <1>a, <1>b DEF StopCrashes, HostTyped, Asked
  <2>2. mailbox' \in Seq(Messages)
    BY <1>3, <1>a, MessageTyped, SendTyped DEF StopCrashes, ServerTyped
  <2>3. [at |-> "done", ok |-> FALSE] \in StopTasks
    BY DEF StopTasks
  <2>4. stops' \in [Shutdowns -> StopTasks]
    BY <1>3, <1>a, <2>3 DEF StopCrashes, ServerTyped
  <2> QED
    BY <1>3, <1>a, <2>1, <2>2, <2>4, PartsNext
    DEF StopCrashes, ServerTyped, InBoot, BootTyped, AtStep, AppsTyped
<1>4. ASSUME NEW a \in Apps, AppRestarts(a) PROVE Typed'
  <2>1. HostTyped'
    BY <1>4, <1>a, <1>b DEF AppRestarts, HostTyped, Asked
  <2>2. mailbox' \in Seq(Messages)
    BY <1>4, <1>a, MessageTyped, SendTyped DEF AppRestarts
  <2>3. app \in [Apps -> AppStates] /\ app[a] \in AppStates /\ inflight \in BOOLEAN
    BY <1>a DEF AppsTyped, HostTyped, Asked
  <2>4. PICK up \in BOOLEAN :
          app' = [app EXCEPT ![a] = [app[a] EXCEPT !.ruled = FALSE, !.starting = FALSE,
                                                   !.up = up, !.halted = inflight]]
    BY <1>4 DEF AppRestarts
  <2>5. [app[a] EXCEPT !.ruled = FALSE, !.starting = FALSE, !.up = up, !.halted = inflight] \in AppStates
    BY <2>3 DEF AppStates
  <2>6. app' \in [Apps -> AppStates] /\ units' \subseteq units
    BY <1>4, <2>3, <2>4, <2>5 DEF AppRestarts
  <2> QED
    BY <1>4, <1>a, <2>1, <2>2, <2>6, PartsNext
    DEF AppRestarts, ServerTyped, InBoot, BootTyped, AtStep, AppsTyped
<1> QED
  BY <1>1, <1>2, <1>3, <1>4

-----------------------------------------------------------------------------

LEMMA InitTyped == Init => Typed
<1> SUFFICES ASSUME Init PROVE Typed
  OBVIOUS
<1>1. ServerTyped /\ InBoot
  <2>1. NoStop \in StopTasks
    BY DEF NoStop, StopTasks
  <2> QED
    BY <2>1, DownTyped DEF Init, ServerTyped, InBoot
<1>2. BootTyped
  BY NoBootTyped DEF Init, BootTyped, AtStep
<1>3. AppsTyped
  BY DEF Init, AppsTyped, AppStates
<1>4. HostTyped
  <2>1. 0 \in 0..MaxShutdowns /\ 0 \in 0..MaxRestarts
    BY NumbersAssumption
  <2> QED
    BY <2>1 DEF Init, HostTyped, Asked
<1> QED
  BY <1>1, <1>2, <1>3, <1>4, Parts

LEMMA NextTyped == Typed /\ [Next]_vars => Typed'
<1> SUFFICES ASSUME Typed, [Next]_vars PROVE Typed'
  OBVIOUS
<1>1. CASE UNCHANGED vars
  BY <1>1 DEF vars, Typed, TypeOK, InBoot, AtStep, Asked
<1> QED
  BY <1>1, StartTyped, ServerStepTyped, BootTaskTyped, UnitStepTyped, StopStepTyped, HostTypes,
     FaultsTyped
  DEF Next

(* The orchestrator, its tasks and its callers stay within their types: a  *)
(* boot task goes through steps of the plan and tries a gate no oftener    *)
(* than allowed, and a cancelled boot, however it ends, has a shutdown to  *)
(* go on with.                                                             *)
THEOREM OrchTypeCorrect == Spec => []TypeOK
<1>1. Typed => TypeOK
  BY DEF Typed
<1> QED
  BY <1>1, InitTyped, NextTyped, PTL DEF Spec

-----------------------------------------------------------------------------

(* The flag is up from the asking to the power-off or its failure.         *)
Flagged ==
    /\ inflight <=> host.st \in {"asking", "calling", "runtime"}
    /\ host.st \in {"asking", "calling"} => ~host.ok
AbsentIsDown == \A a \in Apps : ~app[a].present => ~app[a].up /\ ~app[a].starting

(* One request makes one stop, after which none begins; a stop's end is    *)
(* reported once it has ended.                                             *)
Places == 1..Len(mailbox)
Asks == \E i \in Places : mailbox[i].kind = "shutdown"
NoneBegun == \A n \in Shutdowns : stops[n].at = "none"
OneStop ==
    /\ host.n = 0 \/ host.st = "asking" => ~Asks /\ orch.waiters = {} /\ NoneBegun
    /\ Asks => orch.waiters = {} /\ NoneBegun
    /\ \A i, j \in Places : mailbox[i].kind = "shutdown" /\ mailbox[j].kind = "shutdown" => i = j
    /\ orch.phase = "cancelling" => NoneBegun
    /\ \A i \in Places : mailbox[i].kind = "stopped" => stops[mailbox[i].arg].at = "done"

(* While the flag is up a group stays down that a stop has halted, and a   *)
(* caller who was told ok was told so by a stop that is through.           *)
AreDown(group) == \A a \in group : ~app[a].up /\ ~app[a].starting
Past(n) == stops[n].ok /\ stops[n].at \in {"core", "earlier", "done"}
Through(n) == stops[n].ok /\ stops[n].at = "done"
Emptied ==
    inflight => \A n \in Shutdowns : /\ Past(n) => AreDown(Applications)
                                     /\ Through(n) => AreDown(Containers)
Answered == host.st = "runtime" /\ host.ok => \E n \in Shutdowns : Through(n)

First == OneStop /\ Emptied /\ Answered
Holds == Typed /\ (host.n <= 1 => Flagged /\ AbsentIsDown /\ First)

-----------------------------------------------------------------------------
(* What leaves the first stop alone.                                       *)

LEMMA SendPlaces ==
  ASSUME Typed, NEW m \in Messages, Send(m)
  PROVE \A i \in Places' : \/ i \in Places /\ mailbox'[i] = mailbox[i]
                           \/ i = Len(mailbox) + 1 /\ mailbox'[i] = m
BY DEF Typed, TypeOK, Send, Places

LEMMA TailPlaces ==
  ASSUME Typed, mailbox # <<>>, mailbox' = Tail(mailbox)
  PROVE \A i \in Places' : i + 1 \in Places /\ i \in Nat /\ i # 0 /\ mailbox'[i] = mailbox[i + 1]
<1>1. mailbox \in Seq(Messages) /\ Len(mailbox) \in Nat
  BY DEF Typed, TypeOK
<1>2. Len(mailbox') = Len(mailbox) - 1
  BY <1>1, HeadTailProperties
<1> QED
  BY <1>1, <1>2, HeadTailProperties DEF Places

(* What may be sent beside a request.                                      *)
Harmless ==
    \/ mailbox' = mailbox
    \/ mailbox' = <<>>
    \/ mailbox # <<>> /\ mailbox' = Tail(mailbox)
    \/ \E m \in Messages : /\ Send(m) /\ m.kind # "shutdown"
                           /\ m.kind = "stopped" => stops'[m.arg].at = "done"

LEMMA OneStopKept ==
  ASSUME Typed, OneStop, Harmless,
         host'.n = 0 \/ host'.st = "asking" => host.n = 0 \/ host.st = "asking",
         orch'.waiters \in {orch.waiters, {}},
         orch'.phase = "cancelling" => orch.phase = "cancelling",
         \A n \in Shutdowns : stops[n].at = "none" => stops'[n].at = "none",
         \A n \in Shutdowns : stops[n].at = "done" => stops'[n].at = "done"
  PROVE OneStop'
<1>1. NoneBegun => NoneBegun'
  BY DEF NoneBegun, Shutdowns
<1>2. \A i \in Places : mailbox[i] \in Messages
  BY DEF Typed, TypeOK, Places
<1>3. \A i \in Places : mailbox[i].kind = "stopped" => mailbox[i].arg \in Shutdowns
  BY <1>2 DEF Messages, BootEnds
<1> DEFINE Mail ==
             /\ Asks' => Asks
             /\ \A i, j \in Places' : mailbox'[i].kind = "shutdown" /\ mailbox'[j].kind = "shutdown" => i = j
             /\ \A i \in Places' : mailbox'[i].kind = "stopped" => stops'[mailbox'[i].arg].at = "done"
<1>4. Mail
  <2>1. CASE mailbox' = mailbox
    <3>1. Places' = Places
      BY <2>1 DEF Places
    <3> QED
      BY <1>3, <2>1, <3>1 DEF OneStop, Asks
  <2>2. CASE mailbox' = <<>>
    <3>1. Places' = {}
      BY <2>2 DEF Places
    <3> QED
      BY <3>1 DEF Asks
  <2>3. CASE mailbox # <<>> /\ mailbox' = Tail(mailbox)
    <3>1. \A i \in Places' : i + 1 \in Places /\ i \in Nat /\ mailbox'[i] = mailbox[i + 1]
      BY <2>3, TailPlaces
    <3>2. \A i, j \in Nat : i + 1 = j + 1 => i = j
      OBVIOUS
    <3>3. Asks' => Asks
      BY <3>1 DEF Asks
    <3>4. \A i, j \in Places' : mailbox'[i].kind = "shutdown" /\ mailbox'[j].kind = "shutdown" => i = j
      BY <3>1, <3>2 DEF OneStop
    <3>5. \A i \in Places' : mailbox'[i].kind = "stopped" => stops'[mailbox'[i].arg].at = "done"
      BY <1>3, <3>1 DEF OneStop
    <3> QED
      BY <3>3, <3>4, <3>5
  <2>4. ASSUME NEW m \in Messages, Send(m), m.kind # "shutdown",
               m.kind = "stopped" => stops'[m.arg].at = "done"
        PROVE Mail
    <3>1. \A i \in Places' : \/ i \in Places /\ mailbox'[i] = mailbox[i]
                             \/ mailbox'[i] = m
      BY <2>4, SendPlaces
    <3>2. Asks' => Asks
      BY <2>4, <3>1 DEF Asks
    <3>3. \A i, j \in Places' : mailbox'[i].kind = "shutdown" /\ mailbox'[j].kind = "shutdown" => i = j
      BY <2>4, <3>1 DEF OneStop
    <3>4. \A i \in Places' : mailbox'[i].kind = "stopped" => stops'[mailbox'[i].arg].at = "done"
      BY <1>3, <2>4, <3>1 DEF OneStop
    <3> QED
      BY <3>2, <3>3, <3>4
  <2> QED
    BY <2>1, <2>2, <2>3, <2>4 DEF Harmless
<1> QED
  BY <1>1, <1>4 DEF OneStop

(* No app that is down rises while the flag is up, but for the natives.    *)
StayDown ==
    inflight => \A a \in Apps \ NativeApps :
                  app'[a].up \/ app'[a].starting => app[a].up \/ app[a].starting

LEMMA EmptiedKept ==
  ASSUME Typed, AbsentIsDown, Emptied, inflight' => inflight,
         StayDown,
         \A n \in Shutdowns : (Past(n)' => Past(n)) /\ (Through(n)' => Through(n))
  PROVE Emptied'
<1>1. \A a \in Apps \ NativeApps : app[a].up \/ app[a].starting => app[a].present
  BY DEF AbsentIsDown
<1>2. inflight => (AreDown(Applications) => AreDown(Applications)')
  BY <1>1 DEF AreDown, Applications, Containers, StayDown
<1>3. inflight => (AreDown(Containers) => AreDown(Containers)')
  BY <1>1 DEF AreDown, Containers, StayDown
<1> QED
  BY <1>2, <1>3 DEF Emptied, Shutdowns

LEMMA AnsweredKept ==
  ASSUME Answered, host'.st = "runtime" /\ host'.ok => host.st = "runtime" /\ host.ok,
         \A n \in Shutdowns : Through(n) => Through(n)'
  PROVE Answered'
BY DEF Answered, Shutdowns

LEMMA SameStops ==
  ASSUME UNCHANGED stops
  PROVE \A n \in Shutdowns : /\ stops'[n] = stops[n] /\ (Past(n)' <=> Past(n))
                             /\ (Through(n)' <=> Through(n))
BY DEF Past, Through

LEMMA SameApps == ASSUME UNCHANGED app PROVE StayDown
BY DEF StayDown

(* A step that no shutdown takes part in.                                  *)
LEMMA Plain ==
  ASSUME Typed, AbsentIsDown, First, UNCHANGED <<stops, host, inflight>>, Harmless, StayDown,
         orch'.waiters \in {orch.waiters, {}},
         orch'.phase = "cancelling" => orch.phase = "cancelling"
  PROVE First'
<1>1. OneStop'
  BY OneStopKept DEF First
<1>2. Emptied'
  BY EmptiedKept, SameStops DEF First
<1>3. Answered'
  BY AnsweredKept, SameStops DEF First
<1> QED
  BY <1>1, <1>2, <1>3 DEF First

LEMMA BeginBootPlain ==
  ASSUME NEW s \in Orchs, BeginBoot(s)
  PROVE orch'.waiters = s.waiters /\ orch'.phase \in {"booting", "up"}
BY DEF BeginBoot, Orchs

LEMMA BeginFirst ==
  ASSUME Typed, AbsentIsDown, First, NoneBegun, NEW n \in Shutdowns, NEW s \in Orchs, BeginStop(s, n),
         UNCHANGED <<host, inflight, app>>, mailbox # <<>>, mailbox' = Tail(mailbox), ~Asks',
         host.n # 0 /\ host.st # "asking"
  PROVE First'
<1>1. orch'.phase = "stopping"
  BY DEF BeginStop, Orchs
<1>2. \A k \in Shutdowns : stops'[k].at \in {"none", "apps"} /\ ~Past(k)' /\ ~Through(k)'
                           /\ ~Through(k)
  BY DEF BeginStop, NoneBegun, Past, Through, Typed, TypeOK
<1>3. \A i \in Places' : mailbox'[i].kind # "stopped" /\ mailbox'[i].kind # "shutdown"
  <2> SUFFICES ASSUME NEW i \in Places', mailbox'[i].kind = "stopped" PROVE FALSE
    BY DEF Asks
  <2>1. i + 1 \in Places /\ mailbox'[i] = mailbox[i + 1]
    BY TailPlaces
  <2>2. mailbox[i + 1] \in Messages
    BY <2>1 DEF Typed, TypeOK, Places
  <2>3. mailbox[i + 1].arg \in Shutdowns
    BY <2>1, <2>2 DEF Messages, BootEnds
  <2> QED
    BY <2>1, <2>3 DEF First, OneStop, NoneBegun
<1>4. OneStop'
  BY <1>1, <1>3 DEF OneStop
<1>5. Emptied'
  BY <1>2 DEF Emptied, Shutdowns
<1>6. Answered'
  BY <1>2 DEF First, Answered
<1> QED
  BY <1>4, <1>5, <1>6 DEF First

-----------------------------------------------------------------------------
(* The server.                                                             *)

LEMMA StartFirst == ASSUME Typed, AbsentIsDown, First, Start PROVE First'
<1>1. orch'.waiters = {} /\ orch'.phase # "cancelling"
  BY DownTyped, BeginBootPlain DEF Start, Down
<1> QED
  BY <1>1, Plain, SameApps DEF Start, Harmless

LEMMA GoDownFirst ==
  ASSUME Typed, AbsentIsDown, First, GoDown PROVE First'
<1>1. orch'.waiters = {} /\ orch'.phase # "cancelling" /\ Harmless /\ StayDown
      /\ stops' = stops /\ inflight' = inflight
  BY SameApps DEF GoDown, Down, Harmless
<1>2. /\ host'.n = host.n
      /\ host'.st = "asking" => host.st = "asking"
      /\ host'.st = "runtime" /\ host'.ok => host.st = "runtime" /\ host.ok
  BY DEF GoDown, Typed, TypeOK
<1>3. OneStop'
  BY <1>1, <1>2, OneStopKept DEF First
<1>4. Emptied'
  BY <1>1, EmptiedKept, SameStops DEF First
<1>5. Answered'
  BY <1>1, <1>2, AnsweredKept, SameStops DEF First
<1> QED
  BY <1>3, <1>4, <1>5 DEF First

LEMMA ServerFirst == ASSUME Typed, AbsentIsDown, First, Server PROVE First'
<1>a. orch \in Orchs /\ stops \in [Shutdowns -> StopTasks] /\ ServerTyped
      /\ mailbox \in Seq(Messages) /\ InBoot
  BY DEF Typed, TypeOK, ServerTyped
<1>b. ASSUME mailbox # <<>> PROVE Head(mailbox) = mailbox[1] /\ 1 \in Places
  BY <1>a, <1>b, HeadTailProperties DEF Places
<1>1. CASE HandleShutdown
  <2> DEFINE n == Head(mailbox).arg
  <2>1. mailbox # <<>> /\ mailbox' = Tail(mailbox) /\ Head(mailbox).kind = "shutdown" /\ n \in Shutdowns
        /\ UNCHANGED <<host, inflight, app>>
    BY <1>1, <1>a, ReceivedTyped DEF HandleShutdown, Received
  <2> HIDE DEF n
  <2>2. Asks /\ mailbox[1].kind = "shutdown" /\ 1 \in Places
    BY <1>b, <2>1 DEF Asks
  <2>3. NoneBegun /\ orch.waiters = {} /\ host.n # 0 /\ host.st # "asking"
    BY <2>2 DEF First, OneStop
  <2>4. ~Asks'
    <3> SUFFICES ASSUME NEW i \in Places', mailbox'[i].kind = "shutdown" PROVE FALSE
      BY DEF Asks
    <3>1. i + 1 \in Places /\ i \in Nat /\ i # 0 /\ mailbox'[i] = mailbox[i + 1]
      BY <2>1, TailPlaces
    <3>2. i + 1 = 1
      BY <2>2, <3>1 DEF First, OneStop
    <3> QED
      BY <3>1, <3>2
  <2>5. ASSUME UNCHANGED stops PROVE First'
    <3>1. NoneBegun'
      BY <2>3, <2>5 DEF NoneBegun
    <3>2. \A i \in Places' : mailbox'[i].kind = "stopped" => stops'[mailbox'[i].arg].at = "done"
      BY <2>1, <2>5, TailPlaces DEF First, OneStop
    <3>3. OneStop'
      BY <2>1, <2>3, <2>4, <3>1, <3>2 DEF OneStop, Asks
    <3>4. Emptied'
      BY <2>1, <2>5, EmptiedKept, SameStops, SameApps DEF First
    <3>5. Answered'
      BY <2>1, <2>5, AnsweredKept, SameStops DEF First
    <3> QED
      BY <3>3, <3>4, <3>5 DEF First
  <2>6. CASE BeginStop([orch EXCEPT !.waiters = {n}], n)
    <3>1. [orch EXCEPT !.waiters = {n}] \in Orchs
      BY <1>a, <2>1 DEF Orchs
    <3> QED
      BY <2>1, <2>3, <2>4, <2>6, <3>1, BeginFirst
  <2> QED
    BY <1>1, <2>5, <2>6 DEF HandleShutdown, n
<1>2. CASE HandleResume
  <2>1. orch'.waiters = orch.waiters /\ (orch'.phase = "cancelling" => orch.phase = "cancelling")
    <3>1. CASE BeginBoot(orch)
      BY <1>a, <3>1, BeginBootPlain
    <3>2. CASE orch' = [orch EXCEPT !.resume = TRUE] \/ orch' = orch
      BY <1>a, <3>2 DEF Orchs
    <3> QED
      BY <1>2, <3>1, <3>2 DEF HandleResume
  <2> QED
    BY <1>2, <2>1, Plain, SameApps DEF HandleResume, Harmless, Received
<1>3. CASE HandleUp
  BY <1>3, Plain, SameApps DEF HandleUp, Harmless, Received
<1>4. CASE HandleBootEnd
  <2>1. mailbox # <<>> /\ mailbox' = Tail(mailbox) /\ UNCHANGED <<host, inflight, app>>
    BY <1>4 DEF HandleBootEnd, Received
  <2>2. CASE orch.phase = "cancelling" /\ BeginStop([orch EXCEPT !.task = 0], Latest(orch.waiters))
    <3>1. orch.waiters # {} /\ NoneBegun /\ ~Asks /\ host.n # 0 /\ host.st # "asking"
      BY <1>a, <2>2 DEF InBoot, First, OneStop
    <3>2. ~Asks'
      BY <2>1, <3>1, TailPlaces DEF Asks
    <3>3. Latest(orch.waiters) \in Shutdowns
      BY <1>a, <3>1, LatestWaits DEF Orchs
    <3>4. [orch EXCEPT !.task = 0] \in Orchs
      BY <1>a, NumbersAssumption DEF Orchs
    <3> QED
      BY <2>1, <2>2, <3>1, <3>2, <3>3, <3>4, BeginFirst
  <2>3. ASSUME NEW x, orch' = [[orch EXCEPT !.task = 0] EXCEPT !.phase = "up", !.complete = x],
               UNCHANGED stops
        PROVE First'
    <3>1. orch'.waiters = orch.waiters /\ orch'.phase = "up"
      BY <1>a, <2>3 DEF Orchs
    <3> QED
      BY <2>1, <2>3, <3>1, Plain, SameApps DEF Harmless
  <2> QED
    BY <1>4, <2>2, <2>3 DEF HandleBootEnd
<1>5. CASE HandleBootCrash
  BY <1>5, GoDownFirst DEF HandleBootCrash
<1>6. CASE HandleStopEnd
  <2> DEFINE n == Head(mailbox).arg
             s == [orch EXCEPT !.task = 0, !.waiters = {}, !.resume = FALSE]
  <2>1. mailbox # <<>> /\ mailbox' = Tail(mailbox) /\ Head(mailbox).kind = "stopped" /\ n \in Shutdowns
        /\ UNCHANGED <<stops, inflight, app>> /\ Harmless
    BY <1>6, <1>a, ReceivedTyped DEF HandleStopEnd, Received, Harmless
  <2>2. stops[n].at = "done"
    BY <1>b, <2>1 DEF First, OneStop
  <2>3. CASE UNCHANGED <<orch, host>>
    BY <2>1, <2>3, Plain, SameApps
  <2>4. CASE orch.task = n
    <3>1. host' = host \/ host' = [host EXCEPT !.st = "runtime", !.ok = stops[n].ok]
      BY <1>6, <2>4 DEF HandleStopEnd
    <3>2. /\ host'.n = host.n
          /\ host'.st = "asking" => host.st = "asking"
          /\ host' = host \/ host'.ok = stops[n].ok
      BY <3>1 DEF Typed, TypeOK
    <3>3. orch'.waiters = {} /\ (orch'.phase = "cancelling" => orch.phase = "cancelling")
      <4>1. s \in Orchs /\ s.waiters = {} /\ s.phase = orch.phase
        <5>1. 0 \in -1..MaxShutdowns /\ {} \in SUBSET Shutdowns
          BY NumbersAssumption
        <5>2. \A t \in -1..MaxShutdowns, w \in SUBSET Shutdowns, x \in BOOLEAN :
                LET o == [orch EXCEPT !.task = t, !.waiters = w, !.resume = x]
                IN  o \in Orchs /\ o.waiters = w /\ o.phase = orch.phase
          BY <1>a DEF Orchs
        <5> QED
          BY <5>1, <5>2
      <4>2. BeginBoot(s) \/ orch' = s
        BY <1>6, <2>4 DEF HandleStopEnd
      <4> HIDE DEF s
      <4> QED
        BY <4>1, <4>2, BeginBootPlain
    <3>4. OneStop'
      BY <2>1, <3>2, <3>3, OneStopKept DEF First
    <3>5. Emptied'
      BY <2>1, EmptiedKept, SameStops, SameApps DEF First
    <3>6. Answered'
      BY <2>1, <2>2, <3>2 DEF First, Answered, Through
    <3> QED
      BY <3>4, <3>5, <3>6 DEF First
  <2> QED
    BY <1>6, <2>3, <2>4 DEF HandleStopEnd
<1> QED
  BY <1>1, <1>2, <1>3, <1>4, <1>5, <1>6 DEF Server

-----------------------------------------------------------------------------
(* The boot task, the units and the faults.                                *)

LEMMA EndBootHarmless ==
  ASSUME NEW result \in BootEnds, EndBoot(result) PROVE Harmless
<1>1. Message(result, 0) \in Messages /\ Message(result, 0).kind = result
  BY MessageTyped DEF Message
<1> QED
  BY <1>1 DEF EndBoot, Harmless, BootEnds

LEMMA BootTaskStays ==
  ASSUME Typed, AbsentIsDown, BootTask PROVE StayDown /\ AbsentIsDown'
<1>1. app' = app \/ InstallNative
  BY DEF BootTask, Cancelled, InstallNative, Decide, PutOff, EnterGate, Gate, InstallContainers,
         Stage, PastBoundary, Awaited, AwaitPrimary, Primary, PushComplete
<1>2. CASE app' = app
  BY <1>2 DEF StayDown, AbsentIsDown
<1>3. CASE InstallNative
  <2>1. \A a \in Apps : app'[a].up = app[a].up /\ app'[a].starting = app[a].starting
                        /\ app'[a].present \in {app[a].present, TRUE}
    BY <1>3 DEF InstallNative, Typed, TypeOK, AppStates
  <2> QED
    BY <2>1 DEF StayDown, AbsentIsDown
<1> QED
  BY <1>1, <1>2, <1>3

LEMMA BootTaskFirst ==
  ASSUME Typed, AbsentIsDown, First, BootTask
  PROVE First' /\ AbsentIsDown' /\ UNCHANGED <<host, inflight>>
<1>1. UNCHANGED <<orch, stops, host, inflight>>
  BY DEF BootTask, Cancelled, InstallNative, Decide, PutOff, EnterGate, Gate, InstallContainers,
         Stage, PastBoundary, Awaited, AwaitPrimary, Primary, PushComplete
<1>2. Harmless
  <2>1. mailbox' = mailbox \/ \E result \in BootEnds : EndBoot(result)
    BY DEF BootTask, Cancelled, InstallNative, Decide, PutOff, EnterGate, Gate, InstallContainers,
           Stage, PastBoundary, Awaited, AwaitPrimary, Primary, PushComplete, BootEnds
  <2> QED
    BY <2>1, EndBootHarmless DEF Harmless
<1>3. StayDown /\ AbsentIsDown'
  BY BootTaskStays
<1> QED
  BY <1>1, <1>2, <1>3, Plain

LEMMA UnitStays ==
  ASSUME Typed, AbsentIsDown, UnitStep PROVE StayDown /\ AbsentIsDown'
<1>b. app \in [Apps -> AppStates]
  BY DEF Typed, TypeOK
<1>1. ASSUME NEW a \in Apps, UnitCalls(a) PROVE StayDown /\ AbsentIsDown'
  <2>1. PICK starts \in BOOLEAN :
          /\ starts => a \in NativeApps \/ ~inflight
          /\ app' = [app EXCEPT ![a] = [app[a] EXCEPT !.present = TRUE, !.ruled = TRUE,
                                                      !.halted = FALSE, !.starting = starts]]
    BY <1>1 DEF UnitCalls
  <2>2. app'[a].present = TRUE /\ app'[a].starting = starts /\ app'[a].up = app[a].up
    BY <1>b, <2>1 DEF AppStates
  <2>3. \A b \in Apps \ {a} : app'[b] = app[b]
    BY <1>b, <2>1
  <2> QED
    BY <2>1, <2>2, <2>3 DEF StayDown, AbsentIsDown
<1>2. ASSUME NEW a \in Apps, UnitReturns(a) PROVE StayDown /\ AbsentIsDown'
  <2>1. PICK up \in BOOLEAN : app' = [app EXCEPT ![a] = [app[a] EXCEPT !.starting = FALSE, !.up = up]]
    BY <1>2 DEF UnitReturns
  <2>2. app'[a].present = app[a].present /\ app[a].starting
    BY <1>b, <1>2, <2>1 DEF AppStates, UnitReturns
  <2>3. \A b \in Apps \ {a} : app'[b] = app[b]
    BY <1>b, <2>1
  <2>4. app[a].present /\ app'[a].present
    BY <1>b, <2>2 DEF AbsentIsDown
  <2>5. AbsentIsDown'
    BY <2>3, <2>4 DEF AbsentIsDown
  <2>6. StayDown
    BY <2>2, <2>3 DEF StayDown
  <2> QED
    BY <2>5, <2>6
<1>3. CASE app' = app
  BY <1>3 DEF StayDown, AbsentIsDown
<1> QED
  BY <1>1, <1>2, <1>3 DEF UnitStep, InstallFails, CoreLocks, CoreStarted

LEMMA UnitFirst ==
  ASSUME Typed, AbsentIsDown, First, UnitStep
  PROVE First' /\ AbsentIsDown' /\ UNCHANGED <<host, inflight>>
<1>a. UNCHANGED <<orch, mailbox, stops, host, inflight>>
  BY DEF UnitStep, UnitCalls, UnitReturns, InstallFails, CoreLocks, CoreStarted
<1> QED
  BY <1>a, UnitStays, Plain DEF Harmless

LEMMA AppRestartsStays ==
  ASSUME Typed, AbsentIsDown, NEW a \in Apps, AppRestarts(a) PROVE StayDown /\ AbsentIsDown'
<1>b. app \in [Apps -> AppStates] /\ inflight \in BOOLEAN
  BY DEF Typed, TypeOK
<1>1. PICK up \in BOOLEAN :
        /\ up => app[a].up
        /\ app' = [app EXCEPT ![a] = [app[a] EXCEPT !.ruled = FALSE, !.starting = FALSE,
                                                    !.up = up, !.halted = inflight]]
  <2> DEFINE u == app[a].up /\ a \notin NativeApps
  <2>1. u \in BOOLEAN /\ (u => app[a].up)
    OBVIOUS
  <2>2. app' = [app EXCEPT ![a] = [app[a] EXCEPT !.ruled = FALSE, !.starting = FALSE,
                                     !.up = u, !.halted = inflight]]
    BY Zenon DEF AppRestarts
  <2> HIDE DEF u
  <2> QED
    BY <2>1, <2>2
<1>2. ~app'[a].starting /\ (app'[a].up => app[a].up) /\ app'[a].present = app[a].present
  BY <1>b, <1>1 DEF AppStates
<1>3. \A b \in Apps \ {a} : app'[b] = app[b]
  BY <1>b, <1>1
<1> QED
  BY <1>2, <1>3 DEF StayDown, AbsentIsDown

LEMMA AppRestartsFirst ==
  ASSUME Typed, AbsentIsDown, First, NEW a \in Apps, AppRestarts(a)
  PROVE First' /\ AbsentIsDown' /\ UNCHANGED <<host, inflight>>
<1>1. Harmless
  <2>1. Message("up", a) \in Messages /\ Message("up", a).kind = "up"
    BY MessageTyped DEF Message
  <2> QED
    BY <2>1 DEF AppRestarts, Harmless
<1> QED
  BY <1>1, AppRestartsStays, Plain DEF AppRestarts

LEMMA BootCrashesFirst ==
  ASSUME Typed, AbsentIsDown, First, BootCrashes PROVE First'
BY EndBootHarmless, Plain, SameApps DEF BootCrashes, BootEnds

-----------------------------------------------------------------------------
(* The stop tasks.                                                         *)

(* A stop that goes on, or is cut short.                                   *)
LEMMA StopGoesOn ==
  ASSUME Typed, AbsentIsDown, First, UNCHANGED <<orch, host, inflight>>, StayDown, NEW n \in Shutdowns,
         NEW next \in {"core", "earlier", "done"}, NEW ok \in BOOLEAN,
         stops[n].at \in {"apps", "core", "earlier"},
         stops' = [stops EXCEPT ![n] = [at |-> next, ok |-> ok]],
         mailbox' = mailbox \/ (next = "done" /\ Send(Message("stopped", n))),
         inflight /\ ok => /\ AreDown(Applications)'
                           /\ next = "done" => AreDown(Containers)'
  PROVE First'
<1>1. stops \in [Shutdowns -> StopTasks]
  BY DEF Typed, TypeOK
<1>2. stops'[n].at = next /\ stops'[n].ok = ok /\ \A k \in Shutdowns \ {n} : stops'[k] = stops[k]
  BY <1>1
<1>3. Harmless
  <2>1. /\ Message("stopped", n) \in Messages /\ Message("stopped", n).kind = "stopped"
        /\ Message("stopped", n).arg = n
    BY MessageTyped DEF Message
  <2> QED
    BY <1>2, <2>1 DEF Harmless
<1>4. OneStop'
  BY <1>2, <1>3, OneStopKept DEF First
<1>5. Emptied'
  <2>1. \A a \in Apps \ NativeApps : app[a].up \/ app[a].starting => app[a].present
    BY DEF AbsentIsDown
  <2>2. inflight => /\ AreDown(Applications) => AreDown(Applications)'
                    /\ AreDown(Containers) => AreDown(Containers)'
    BY <2>1 DEF AreDown, Applications, Containers, StayDown
  <2>3. ASSUME inflight, NEW k \in Shutdowns
        PROVE /\ Past(k)' => AreDown(Applications)'
              /\ Through(k)' => AreDown(Containers)'
    BY <1>2, <2>2, <2>3 DEF First, Emptied, Past, Through
  <2> QED
    BY <2>3 DEF Emptied, Shutdowns
<1>6. Answered'
  BY <1>2 DEF First, Answered, Through, Shutdowns
<1> QED
  BY <1>4, <1>5, <1>6 DEF First

LEMMA HaltDoes ==
  ASSUME Typed, NEW n \in Shutdowns, NEW group \in SUBSET Apps, NEW next, HaltGroup(n, group, next)
  PROVE /\ \A a \in Apps : /\ app'[a].present = app[a].present
                           /\ app'[a].up => app[a].up
                           /\ app'[a].starting => app[a].starting
        /\ \E ok \in BOOLEAN : /\ stops' = [stops EXCEPT ![n] = [at |-> next, ok |-> ok]]
                               /\ ok => stops[n].ok /\ \A a \in group : ~app'[a].up /\ ~app'[a].starting
<1>1. app \in [Apps -> AppStates] /\ stops \in [Shutdowns -> StopTasks]
  BY DEF Typed, TypeOK
<1>2. PICK done :
        /\ app' = [a \in Apps |-> IF a \in done
                                  THEN [app[a] EXCEPT !.halted = TRUE, !.starting = FALSE, !.up = FALSE]
                                  ELSE app[a]]
        /\ stops' = [stops EXCEPT ![n] = [at |-> next, ok |-> stops[n].ok /\ done = group]]
  BY Zenon DEF HaltGroup
<1>3. \A a \in Apps : IF a \in done
                      THEN app'[a].present = app[a].present /\ ~app'[a].up /\ ~app'[a].starting
                      ELSE app'[a] = app[a]
  BY <1>1, <1>2 DEF AppStates
<1>4. PICK ok \in BOOLEAN : /\ stops' = [stops EXCEPT ![n] = [at |-> next, ok |-> ok]]
                            /\ ok => stops[n].ok /\ done = group
  BY <1>1, <1>2 DEF StopTasks
<1> QED
  BY <1>3, <1>4

(* What a step of a stop task does, given that it kept down what it halted. *)
StopStepIs(n, next, ok) ==
    /\ stops' = [stops EXCEPT ![n] = [at |-> next, ok |-> ok]]
    /\ ok => stops[n].ok
    /\ mailbox' = mailbox \/ (next = "done" /\ Send(Message("stopped", n)))
    /\ inflight /\ ok => /\ AreDown(Applications)'
                         /\ next = "done" => AreDown(Containers)'

LEMMA StopStepDoes ==
  ASSUME Typed, AbsentIsDown, NEW n \in Shutdowns, StopApps(n) \/ StopCore(n) \/ StopEarlier(n),
         inflight /\ Past(n) => AreDown(Applications)
  PROVE /\ UNCHANGED <<orch, host, inflight>> /\ StayDown /\ AbsentIsDown'
        /\ stops[n].at \in {"apps", "core", "earlier"}
        /\ \E next \in {"core", "earlier", "done"}, ok \in BOOLEAN : StopStepIs(n, next, ok)
<1>a. stops \in [Shutdowns -> StopTasks] /\ app \in [Apps -> AppStates] /\ Applications \subseteq Apps
      /\ Containers \subseteq Apps
  BY DEF Typed, TypeOK, Applications, Containers
<1>b. ASSUME \A a \in Apps : /\ app'[a].present = app[a].present
                             /\ app'[a].up => app[a].up
                             /\ app'[a].starting => app[a].starting
      PROVE StayDown /\ AbsentIsDown' /\ Applications' = Applications /\ Containers' = Containers
  BY <1>b DEF StayDown, AbsentIsDown, Applications, Containers
<1>1. CASE StopApps(n)
  <2>1. HaltGroup(n, Applications, "core") /\ stops[n].at = "apps"
        /\ UNCHANGED <<orch, mailbox, host, inflight>>
    BY <1>1 DEF StopApps
  <2>2. /\ StayDown /\ AbsentIsDown' /\ Applications' = Applications
        /\ \E ok \in BOOLEAN : /\ stops' = [stops EXCEPT ![n] = [at |-> "core", ok |-> ok]]
                               /\ ok => stops[n].ok /\ \A a \in Applications :
                                                          ~app'[a].up /\ ~app'[a].starting
    BY <1>a, <1>b, <2>1, HaltDoes
  <2>3. PICK ok \in BOOLEAN : /\ stops' = [stops EXCEPT ![n] = [at |-> "core", ok |-> ok]]
                              /\ ok => stops[n].ok /\ AreDown(Applications)'
    BY <2>2 DEF AreDown
  <2>4. StopStepIs(n, "core", ok)
    BY <2>1, <2>3 DEF StopStepIs
  <2> QED
    BY <2>1, <2>2, <2>4
<1>2. CASE StopCore(n)
  <2>1. stops[n].at = "core" /\ UNCHANGED <<orch, mailbox, app, host, inflight>>
    BY <1>2 DEF StopCore
  <2>2. PICK ok \in BOOLEAN : /\ stops' = [stops EXCEPT ![n] = [at |-> "earlier", ok |-> ok]]
                              /\ ok => stops[n].ok
    <3>1. stops[n] \in StopTasks /\ stops[n].ok \in BOOLEAN
      BY <1>a DEF StopTasks
    <3>2. CASE stops' = [stops EXCEPT ![n].at = "earlier"]
      <4>1. [stops[n] EXCEPT !.at = "earlier"] = [at |-> "earlier", ok |-> stops[n].ok]
        BY <3>1 DEF StopTasks
      <4> QED
        BY <3>1, <3>2, <4>1
    <3>3. CASE stops' = [stops EXCEPT ![n] = [at |-> "earlier", ok |-> FALSE]]
      BY <3>3
    <3> QED
      BY <1>2, <3>2, <3>3 DEF StopCore
  <2>3. StayDown /\ AbsentIsDown' /\ AreDown(Applications)' = AreDown(Applications)
    BY <2>1 DEF StayDown, AbsentIsDown, AreDown, Applications, Containers
  <2>4. inflight /\ ok => AreDown(Applications)
    BY <2>1, <2>2 DEF Past
  <2> QED
    <3>1. StopStepIs(n, "earlier", ok)
      BY <2>1, <2>2, <2>3, <2>4 DEF StopStepIs
    <3> QED
      BY <2>1, <2>3, <3>1
<1>3. CASE StopEarlier(n)
  <2>1. HaltGroup(n, Containers \ Applications, "done") /\ stops[n].at = "earlier"
        /\ UNCHANGED <<orch, host, inflight>>
        /\ (mailbox' = mailbox \/ Send(Message("stopped", n)))
    BY <1>3 DEF StopEarlier
  <2>2. /\ \A a \in Apps : /\ app'[a].present = app[a].present
                           /\ app'[a].up => app[a].up
                           /\ app'[a].starting => app[a].starting
        /\ \E ok \in BOOLEAN : /\ stops' = [stops EXCEPT ![n] = [at |-> "done", ok |-> ok]]
                               /\ ok => stops[n].ok /\ \A a \in Containers \ Applications :
                                                         ~app'[a].up /\ ~app'[a].starting
    BY <1>a, <2>1, HaltDoes
  <2>3. PICK ok \in BOOLEAN : /\ stops' = [stops EXCEPT ![n] = [at |-> "done", ok |-> ok]]
                              /\ ok => stops[n].ok /\ \A a \in Containers \ Applications :
                                                        ~app'[a].up /\ ~app'[a].starting
    BY <2>2
  <2>4. StayDown /\ AbsentIsDown' /\ Applications' = Applications /\ Containers' = Containers
    BY <1>b, <2>2
  <2>5. inflight /\ ok => AreDown(Applications)
    BY <2>1, <2>3 DEF Past
  <2>6. inflight /\ ok => \A a \in Containers : ~app'[a].up /\ ~app'[a].starting
    BY <1>a, <2>2, <2>3, <2>5 DEF AreDown
  <2>7. inflight /\ ok => AreDown(Applications)' /\ AreDown(Containers)'
    BY <2>4, <2>6 DEF AreDown, Applications
  <2> QED
    <3>1. StopStepIs(n, "done", ok)
      BY <2>1, <2>3, <2>7 DEF StopStepIs
    <3> QED
      BY <2>1, <2>4, <3>1
<1> QED
  BY <1>1, <1>2, <1>3

LEMMA StopStepFirst ==
  ASSUME Typed, AbsentIsDown, First, StopStep
  PROVE First' /\ AbsentIsDown' /\ UNCHANGED <<host, inflight>>
<1>1. PICK n \in Shutdowns : StopApps(n) \/ StopCore(n) \/ StopEarlier(n)
  BY DEF StopStep
<1>2. inflight /\ Past(n) => AreDown(Applications)
  BY DEF First, Emptied
<1>3. /\ UNCHANGED <<orch, host, inflight>> /\ StayDown /\ AbsentIsDown'
      /\ stops[n].at \in {"apps", "core", "earlier"}
      /\ \E next \in {"core", "earlier", "done"}, ok \in BOOLEAN : StopStepIs(n, next, ok)
  BY <1>1, <1>2, StopStepDoes
<1>4. PICK next \in {"core", "earlier", "done"}, ok \in BOOLEAN : StopStepIs(n, next, ok)
  BY <1>3
<1> QED
  BY <1>3, <1>4, StopGoesOn DEF StopStepIs

LEMMA StopCrashesFirst ==
  ASSUME Typed, AbsentIsDown, First, NEW n \in Shutdowns, StopCrashes(n) PROVE First'
BY StopGoesOn, SameApps DEF StopCrashes

-----------------------------------------------------------------------------
(* The host.                                                               *)

LEMMA HostFirst ==
  ASSUME Typed, Flagged, AbsentIsDown, First, Host, host'.n <= 1 PROVE First'
<1>a. /\ host \in [st : {"idle", "asking", "calling", "runtime", "resuming"}, n : 0..MaxShutdowns, ok : BOOLEAN]
      /\ host.n \in Nat /\ mailbox \in Seq(Messages) /\ (host.st # "idle" => host.n # 0)
  BY NumbersAssumption DEF Typed, TypeOK, Asked
<1>b. UNCHANGED <<orch, stops, app>>
  BY DEF Host, RaiseFlag, AskShutdown, GiveUp, RuntimeFails, Resume
<1>c. StayDown /\ \A n \in Shutdowns : (Past(n)' <=> Past(n)) /\ (Through(n)' <=> Through(n))
  BY <1>b, SameApps, SameStops
<1>1. CASE RaiseFlag
  <2>1. host.n = 0 /\ host'.st = "asking" /\ mailbox' = mailbox
    BY <1>1, <1>a DEF RaiseFlag
  <2>2. NoneBegun
    BY <2>1 DEF First, OneStop
  <2>3. OneStop'
    BY <1>b, <2>1, OneStopKept DEF First, Harmless
  <2>4. Emptied'
    BY <1>b, <2>2 DEF Emptied, NoneBegun, Past, Through
  <2>5. Answered'
    BY <2>1 DEF Answered
  <2> QED
    BY <2>3, <2>4, <2>5 DEF First
<1>2. CASE AskShutdown
  <2>1. ~Asks /\ orch.waiters = {} /\ NoneBegun /\ inflight' = inflight /\ host.n # 0
    BY <1>2, <1>a DEF AskShutdown, First, OneStop
  <2>2. host'.n = host.n /\ host'.st # "asking" /\ host'.ok = FALSE
    BY <1>2, <1>a DEF AskShutdown, Flagged
  <2>3. OneStop'
    <3>1. CASE mailbox' = mailbox
      BY <1>b, <2>1, <2>2, <3>1, OneStopKept DEF First, Harmless
    <3>2. CASE Send(Message("shutdown", host.n))
      <4>1. host.n \in Shutdowns
        BY <1>a, <2>1 DEF Shutdowns
      <4>2. /\ Message("shutdown", host.n) \in Messages /\ Message("shutdown", host.n).kind = "shutdown"
        BY <4>1, MessageTyped DEF Message
      <4>3. \A i \in Places' : \/ i \in Places /\ mailbox'[i] = mailbox[i]
                               \/ i = Len(mailbox) + 1 /\ mailbox'[i] = Message("shutdown", host.n)
        BY <3>2, <4>2, SendPlaces
      <4>4. \A i, j \in Places' : mailbox'[i].kind = "shutdown" /\ mailbox'[j].kind = "shutdown" => i = j
        BY <2>1, <4>3 DEF Asks
      <4>5. \A i \in Places' : mailbox'[i].kind = "stopped" => stops'[mailbox'[i].arg].at = "done"
        BY <1>b, <4>2, <4>3 DEF First, OneStop
      <4>6. NoneBegun' /\ orch'.waiters = {}
        BY <1>b, <2>1 DEF NoneBegun
      <4> QED
        BY <2>1, <2>2, <4>4, <4>5, <4>6 DEF OneStop
    <3> QED
      BY <1>2, <3>1, <3>2 DEF AskShutdown
  <2>4. Emptied'
    BY <1>b, <1>c, <2>1, EmptiedKept DEF First
  <2>5. Answered'
    BY <2>2 DEF Answered
  <2> QED
    BY <2>3, <2>4, <2>5 DEF First
<1>3. CASE GiveUp \/ RuntimeFails \/ Resume
  <2>1. host'.n = host.n /\ host'.st # "asking" /\ host.n # 0 /\ (host'.st = "runtime" => ~host'.ok)
        /\ (inflight' => inflight)
    <3>1. CASE GiveUp
      BY <3>1, <1>a DEF GiveUp
    <3>2. CASE RuntimeFails
      BY <3>2, <1>a DEF RuntimeFails
    <3>3. CASE Resume
      BY <3>3, <1>a DEF Resume
    <3> QED
      BY <1>3, <3>1, <3>2, <3>3
  <2>2. Harmless
    <3>1. Message("resume", 0) \in Messages /\ Message("resume", 0).kind = "resume"
      BY MessageTyped DEF Message
    <3> QED
      BY <1>3, <3>1 DEF GiveUp, RuntimeFails, Resume, Harmless
  <2>3. OneStop'
    BY <1>b, <2>1, <2>2, OneStopKept DEF First
  <2>4. Emptied'
    BY <1>b, <1>c, <2>1, EmptiedKept DEF First
  <2>5. Answered'
    BY <2>1 DEF Answered
  <2> QED
    BY <2>3, <2>4, <2>5 DEF First
<1> QED
  BY <1>1, <1>2, <1>3 DEF Host

LEMMA FlagFollows ==
  ASSUME Typed, Next
  PROVE (Flagged => Flagged') /\ host'.n \in Nat /\ host.n \in Nat /\ host.n <= host'.n
<1>a. /\ host \in [st : {"idle", "asking", "calling", "runtime", "resuming"}, n : 0..MaxShutdowns, ok : BOOLEAN]
      /\ host.n \in Nat
  BY NumbersAssumption DEF Typed, TypeOK
<1>1. CASE UNCHANGED <<host, inflight>>
  BY <1>1, <1>a DEF Flagged
<1>2. ASSUME NEW ok, host.st = "calling", inflight' = inflight,
             host' = [host EXCEPT !.st = "runtime", !.ok = ok]
      PROVE (Flagged => Flagged') /\ host'.n \in Nat /\ host.n <= host'.n
  BY <1>2, <1>a DEF Flagged
<1>3. CASE GoDown \/ HandleStopEnd
  <2>1. CASE UNCHANGED <<host, inflight>>
    BY <1>1, <2>1
  <2>2. CASE host' # host
    <3>1. CASE GoDown
      <4>1. host.st = "calling"
        BY <2>2, <3>1 DEF GoDown
      <4>2. inflight' = inflight
        BY <3>1, Zenon DEF GoDown
      <4>3. host' = [host EXCEPT !.st = "runtime", !.ok = FALSE]
        BY <3>1, <4>1 DEF GoDown
      <4> QED
        BY <1>a, <1>2, <4>1, <4>2, <4>3
    <3>2. CASE HandleStopEnd
      <4>1. host.st = "calling"
        BY <2>2, <3>2 DEF HandleStopEnd
      <4>2. inflight' = inflight
        BY <3>2, Zenon DEF HandleStopEnd
      <4>3. host' = [host EXCEPT !.st = "runtime", !.ok = stops[Head(mailbox).arg].ok]
        BY <2>2, <3>2 DEF HandleStopEnd
      <4> QED
        BY <1>a, <1>2, <4>1, <4>2, <4>3
    <3> QED
      BY <1>3, <3>1, <3>2
  <2> QED
    BY <1>3, <2>1, <2>2 DEF GoDown, HandleStopEnd
<1>4. CASE Host
  <2>1. host'.n \in {host.n, host.n + 1}
    <3>1. CASE RaiseFlag
      BY <3>1 DEF RaiseFlag
    <3>2. CASE AskShutdown \/ GiveUp
      BY <1>a, <3>2 DEF AskShutdown, GiveUp
    <3>3. CASE RuntimeFails \/ Resume
      BY <1>a, <3>3 DEF RuntimeFails, Resume
    <3> QED
      BY <1>4, <3>1, <3>2, <3>3 DEF Host
  <2>2. ASSUME Flagged PROVE Flagged'
    <3>1. CASE RaiseFlag
      BY <3>1 DEF RaiseFlag, Flagged
    <3>2. CASE AskShutdown
      BY <1>a, <2>2, <3>2 DEF AskShutdown, Flagged
    <3>3. CASE GiveUp
      BY <1>a, <2>2, <3>3 DEF GiveUp, Flagged
    <3>4. CASE RuntimeFails
      BY <1>a, <2>2, <3>4 DEF RuntimeFails, Flagged
    <3>5. CASE Resume
      <4>1. host'.st = "idle" /\ ~inflight'
        BY <1>a, <2>2, <3>5 DEF Resume, Flagged
      <4> QED
        BY <4>1 DEF Flagged
    <3> QED
      BY <1>4, <3>1, <3>2, <3>3, <3>4, <3>5 DEF Host
  <2> QED
    BY <1>a, <2>1, <2>2
<1>5. CASE BootTask \/ UnitStep \/ StopStep
  BY <1>1, <1>5
  DEF BootTask, Cancelled, InstallNative, Decide, PutOff, EnterGate, Gate, InstallContainers,
      Stage, PastBoundary, Awaited, AwaitPrimary, Primary, PushComplete, UnitStep, UnitCalls, UnitReturns,
      InstallFails, CoreLocks, CoreStarted, StopStep, StopApps, StopCore, StopEarlier
<1> QED
  BY <1>1, <1>3, <1>4, <1>5
  DEF Next, Start, Server, HandleShutdown, HandleResume, HandleUp, HandleBootEnd, HandleBootCrash,
      Crash, BootCrashes, StopCrashes, AppRestarts

-----------------------------------------------------------------------------

LEMMA InitHolds == Init => Holds
<1> SUFFICES ASSUME Init PROVE Holds
  OBVIOUS
<1>1. Flagged
  BY DEF Init, Flagged
<1>2. AbsentIsDown
  BY DEF Init, AbsentIsDown
<1>3. Places = {} /\ NoneBegun
  BY DEF Init, Places, NoneBegun, NoStop
<1>4. OneStop
  BY <1>3 DEF Init, Down, OneStop, Asks
<1>5. Emptied /\ Answered
  BY DEF Init, Emptied, Answered
<1> QED
  BY <1>1, <1>2, <1>4, <1>5, InitTyped DEF Holds, First

LEMMA NextHolds == Holds /\ [Next]_vars => Holds'
<1> SUFFICES ASSUME Holds, [Next]_vars PROVE Holds'
  OBVIOUS
<1>1. CASE UNCHANGED vars
  BY <1>1 DEF vars, Holds, Typed, TypeOK, InBoot, AtStep, Asked, Flagged, AbsentIsDown, First,
              OneStop, Asks, Places, NoneBegun, Emptied, Answered, Past, Through, AreDown,
              Applications, Containers
<1>2. CASE Next
  <2>1. Typed'
    BY <1>2, NextTyped DEF Holds
  <2>2. SUFFICES ASSUME host'.n <= 1 PROVE Flagged' /\ AbsentIsDown' /\ First'
    BY <2>1 DEF Holds
  <2>3. Typed /\ Flagged /\ AbsentIsDown /\ First /\ Flagged'
    BY <1>2, <2>2, FlagFollows DEF Holds
  <2>4. ASSUME app' = app PROVE AbsentIsDown'
    BY <2>3, <2>4 DEF AbsentIsDown
  <2>5. CASE Start
    BY <2>3, <2>4, <2>5, StartFirst DEF Start
  <2>6. CASE Server
    <3>1. app' = app
      BY <2>6 DEF Server, HandleShutdown, HandleResume, HandleUp, HandleBootEnd, HandleBootCrash,
                  HandleStopEnd, GoDown
    <3> QED
      BY <2>3, <2>4, <2>6, <3>1, ServerFirst
  <2>7. CASE Crash
    BY <2>3, <2>4, <2>7, GoDownFirst DEF Crash, GoDown
  <2>8. CASE BootTask
    BY <2>3, <2>8, BootTaskFirst
  <2>9. CASE UnitStep
    BY <2>3, <2>9, UnitFirst
  <2>10. CASE StopStep
    BY <2>3, <2>10, StopStepFirst
  <2>11. CASE Host
    <3>1. app' = app
      BY <2>11 DEF Host, RaiseFlag, AskShutdown, GiveUp, RuntimeFails, Resume
    <3> QED
      BY <2>2, <2>3, <2>4, <2>11, <3>1, HostFirst
  <2>12. CASE BootCrashes
    BY <2>3, <2>4, <2>12, BootCrashesFirst DEF BootCrashes
  <2>13. ASSUME NEW n \in Shutdowns, StopCrashes(n) PROVE Flagged' /\ AbsentIsDown' /\ First'
    BY <2>3, <2>4, <2>13, StopCrashesFirst DEF StopCrashes
  <2>14. ASSUME NEW a \in Apps, AppRestarts(a) PROVE Flagged' /\ AbsentIsDown' /\ First'
    BY <2>3, <2>14, AppRestartsFirst
  <2> QED
    BY <1>2, <2>5, <2>6, <2>7, <2>8, <2>9, <2>10, <2>11, <2>12, <2>13, <2>14 DEF Next
<1> QED
  BY <1>1, <1>2

(* The first time the device is shut down, an answer that everything is    *)
(* down is true of every app in a container, and stays true until the      *)
(* device goes or the flag comes off: whatever a unit had begun to start   *)
(* when the flag went up, whatever crashes, overruns or fails, and however *)
(* many apps there are.  For a second shutdown, once the host's budget has *)
(* run out on the first, it is false: see RememberedResume.                *)
THEOREM FirstStopHolds == Spec => [](host.n = 1 => AppsDownOnceAnswered)
<1>1. Holds => (host.n = 1 => AppsDownOnceAnswered)
  <2> SUFFICES ASSUME Holds, host.n = 1, host.st = "runtime", host.ok, NEW a \in Apps \ NativeApps
               PROVE ~app[a].up /\ ~app[a].starting
    BY DEF AppsDownOnceAnswered
  <2>1. Flagged /\ AbsentIsDown /\ First
    BY DEF Holds
  <2>2. inflight /\ AreDown(Containers)
    BY <2>1 DEF Flagged, First, Answered, Emptied
  <2> QED
    BY <2>1, <2>2 DEF AbsentIsDown, AreDown, Containers
<1> QED
  BY <1>1, InitHolds, NextHolds, PTL DEF Spec

-----------------------------------------------------------------------------
(* The order of a boot: what it has run, what it has put off and what it   *)
(* has yet to do make up the plan.  Before the stages come the gates and   *)
(* the defaults, with the native apps somewhere between them; that the     *)
(* primary interface is missing is decided at the first app stage.         *)
Prelude == Gates \cup {"defaults", "install"}
Todo(b) == IF b.at = "awaiting" THEN Tail(b.steps) ELSE b.steps

NativeAhead(b) ==
    /\ b.ran = <<>>
    /\ \E p, q \in Seq(Prelude) : Todo(b) = p \o (<<"native">> \o (q \o Stages))
NativeBehind(b) ==
    /\ b.ran = <<"native">>
    /\ \E q \in Seq(Prelude) : Todo(b) = q \o Stages
Undecided(b) == b.put_off = <<>> /\ (NativeAhead(b) \/ NativeBehind(b))
InPlace == <<"native">> \o Stages
CoreAhead == <<"native", "core">> \o AppOrder
Runs(b) == b.put_off = <<>> /\ b.ran \o Todo(b) \in {InPlace, CoreAhead}
PutsOff(b) ==
    \/ b.ran = <<"native">> /\ b.put_off \o Todo(b) = Stages
    \/ b.ran = <<"native", "core">> /\ b.put_off \o Todo(b) = AppOrder
InOrder(b) ==
    b.at # "idle" =>
        /\ b.at = "gate" => Head(b.steps) \in Gates
        /\ b.at = "primary" => b.steps = <<>> /\ b.decided = "put_off"
        /\ b.decided = "undecided" => Undecided(b)
        /\ b.decided = "run" => Runs(b)
        /\ b.decided = "put_off" => PutsOff(b)

LEMMA ConcatFirst ==
  ASSUME NEW S, NEW s \in Seq(S), NEW t \in Seq(S), s # <<>>
  PROVE s \o t # <<>> /\ Head(s \o t) = Head(s) /\ Tail(s \o t) = Tail(s) \o t
<1>1. Len(s) \in Nat \ {0} /\ Len(t) \in Nat
  BY EmptySeq, LenProperties
<1>2. /\ s \o t \in Seq(S) /\ Len(s \o t) = Len(s) + Len(t)
      /\ \A i \in 1..Len(s) + Len(t) : (s \o t)[i] = IF i <= Len(s) THEN s[i] ELSE t[i - Len(s)]
  BY ConcatProperties
<1>3. s \o t # <<>>
  BY <1>1, <1>2, EmptySeq
<1>4. Head(s \o t) = Head(s)
  BY <1>1, <1>2
<1>5. /\ Tail(s \o t) \in Seq(S) /\ Len(Tail(s \o t)) = Len(s) + Len(t) - 1
      /\ \A i \in 1..Len(Tail(s \o t)) : Tail(s \o t)[i] = (s \o t)[i + 1]
  BY <1>2, <1>3, HeadTailProperties
<1>6. /\ Tail(s) \in Seq(S) /\ Len(Tail(s)) = Len(s) - 1
      /\ \A i \in 1..Len(Tail(s)) : Tail(s)[i] = s[i + 1]
  BY HeadTailProperties
<1>7. /\ Tail(s) \o t \in Seq(S) /\ Len(Tail(s) \o t) = Len(s) - 1 + Len(t)
      /\ \A i \in 1..Len(s) - 1 + Len(t) :
           (Tail(s) \o t)[i] = IF i <= Len(s) - 1 THEN Tail(s)[i] ELSE t[i - (Len(s) - 1)]
  BY <1>6, ConcatProperties
<1>8. ASSUME NEW i \in 1..Len(Tail(s \o t)) PROVE Tail(s \o t)[i] = (Tail(s) \o t)[i]
  <2>1. i + 1 \in 1..Len(s) + Len(t) /\ i \in 1..Len(s) - 1 + Len(t) /\ i \in Nat
        /\ i + 1 - Len(s) = i - (Len(s) - 1)
    BY <1>1, <1>5
  <2>2. CASE i <= Len(s) - 1
    <3>1. i + 1 <= Len(s) /\ i \in 1..Len(Tail(s))
      BY <1>1, <1>6, <2>1, <2>2
    <3>2. (s \o t)[i + 1] = s[i + 1]
      BY <1>2, <2>1, <3>1
    <3>3. (Tail(s) \o t)[i] = Tail(s)[i]
      BY <1>7, <2>1, <2>2
    <3> QED
      BY <1>5, <1>6, <3>1, <3>2, <3>3
  <2>3. CASE ~(i <= Len(s) - 1)
    <3>1. ~(i + 1 <= Len(s))
      BY <1>1, <2>1, <2>3
    <3>2. (s \o t)[i + 1] = t[i + 1 - Len(s)]
      BY <1>2, <2>1, <3>1
    <3>3. (Tail(s) \o t)[i] = t[i - (Len(s) - 1)]
      BY <1>7, <2>1, <2>3
    <3> QED
      BY <1>5, <2>1, <3>2, <3>3
  <2> QED
    BY <2>2, <2>3
<1>9. Len(Tail(s \o t)) = Len(Tail(s) \o t)
  BY <1>1, <1>5, <1>7
<1>10. Tail(s \o t) = Tail(s) \o t
  <2> DEFINE u == Tail(s \o t)
             v == Tail(s) \o t
  <2>1. u \in Seq(S) /\ v \in Seq(S) /\ Len(u) = Len(v) /\ \A i \in 1..Len(u) : u[i] = v[i]
    BY <1>5, <1>7, <1>8, <1>9
  <2> HIDE DEF u, v
  <2>2. u = v
    BY <2>1, SeqEqual
  <2> QED
    BY <2>2 DEF u, v
<1> QED
  BY <1>3, <1>4, <1>10

(* The head of what is to come is one of the whole. *)
LEMMA ConcatThen ==
  ASSUME NEW S, NEW s \in Seq(S), NEW t \in Seq(S), t # <<>>
  PROVE /\ Append(s, Head(t)) \o Tail(t) = s \o t
        /\ Len(s) + 1 \in 1..Len(s \o t) /\ Head(t) = (s \o t)[Len(s) + 1]
<1>1. Head(t) \in S /\ Tail(t) \in Seq(S) /\ Len(t) \in Nat \ {0} /\ Len(s) \in Nat
  BY HeadTailProperties, EmptySeq, LenProperties
<1>2. t = <<Head(t)>> \o Tail(t)
  <2>1. /\ Len(Tail(t)) = Len(t) - 1
        /\ \A i \in 1..Len(Tail(t)) : Tail(t)[i] = t[i + 1]
    BY HeadTailProperties
  <2>2. <<Head(t)>> \in Seq(S) /\ Len(<<Head(t)>>) = 1 /\ <<Head(t)>>[1] = Head(t)
    BY <1>1
  <2> DEFINE h == <<Head(t)>>
             u == h \o Tail(t)
  <2>3. /\ u \in Seq(S) /\ Len(u) = Len(t)
        /\ \A i \in 1..1 + Len(Tail(t)) : u[i] = IF i <= 1 THEN h[i] ELSE Tail(t)[i - 1]
    <3> HIDE DEF h
    <3>1. h \in Seq(S) /\ Len(h) = 1
      BY <2>2 DEF h
    <3>2. /\ u \in Seq(S) /\ Len(u) = Len(h) + Len(Tail(t))
          /\ \A i \in 1..Len(h) + Len(Tail(t)) : u[i] = IF i <= Len(h) THEN h[i] ELSE Tail(t)[i - Len(h)]
      BY <1>1, <3>1, ConcatProperties
    <3>3. Len(h) + Len(Tail(t)) = Len(t) /\ 1 + Len(Tail(t)) = Len(h) + Len(Tail(t))
      BY <1>1, <2>1, <3>1
    <3> HIDE DEF u
    <3> QED
      BY <3>1, <3>2, <3>3
  <2>4. ASSUME NEW i \in 1..Len(t) PROVE u[i] = t[i]
    <3>1. i \in 1..1 + Len(Tail(t)) /\ i \in Int
      BY <1>1, <2>1
    <3>2. CASE i <= 1
      <4>1. i = 1
        BY <3>2
      <4> HIDE DEF h, u
      <4>2. h[1] = Head(t) /\ u[i] = h[1]
        BY <2>2, <2>3, <3>1, <3>2, <4>1 DEF h
      <4> QED
        BY <4>1, <4>2
    <3>3. CASE ~(i <= 1)
      <4> HIDE DEF h, u
      <4>1. u[i] = Tail(t)[i - 1] /\ i - 1 \in 1..Len(Tail(t)) /\ i - 1 + 1 = i
        BY <1>1, <2>1, <2>3, <3>1, <3>3
      <4> QED
        BY <2>1, <4>1
    <3> QED
      BY <3>2, <3>3
  <2> HIDE DEF u
  <2>5. u = t
    BY <2>3, <2>4, SeqEqual
  <2> QED
    BY <2>5 DEF u
<1>3. Append(s, Head(t)) = s \o <<Head(t)>>
  BY <1>1, AppendIsConcat
<1>4. <<Head(t)>> \in Seq(S)
  BY <1>1
<1>5. (s \o <<Head(t)>>) \o Tail(t) = s \o (<<Head(t)>> \o Tail(t))
  BY <1>1, <1>4, ConcatAssociative
<1>6. Append(s, Head(t)) \o Tail(t) = s \o t
  BY <1>2, <1>3, <1>5
<1>7. /\ Len(s \o t) = Len(s) + Len(t)
      /\ \A i \in 1..Len(s) + Len(t) : (s \o t)[i] = IF i <= Len(s) THEN s[i] ELSE t[i - Len(s)]
  BY ConcatProperties
<1>8. Len(s) + 1 \in 1..Len(s \o t) /\ (s \o t)[Len(s) + 1] = t[1]
  BY <1>1, <1>7
<1> QED
  BY <1>6, <1>8

LEMMA PlanNames ==
  /\ Prelude \subseteq StepNames /\ AppStages \subseteq StepNames /\ Gates \subseteq Prelude
  /\ Stages \in Seq(StepNames) /\ AppOrder \in Seq(StepNames) /\ <<"native">> \in Seq(StepNames)
  /\ <<>> \in Seq(StepNames) /\ AppOrder \in Seq(AppStages)
  /\ Prelude \cap AppStages = {} /\ "native" \notin Prelude /\ "core" \notin Prelude
  /\ "native" \notin AppStages /\ "core" \notin AppStages
BY DEF Prelude, StepNames, AppStages, Gates, Stages, AppOrder

LEMMA StagesAre ==
  /\ Stages # <<>> /\ Head(Stages) = "initialize" /\ Len(Stages) = 5
  /\ \A i \in 1..5 : Stages[i] \in AppStages \cup {"core"}
  /\ \A i \in 1..5 : Stages[i] = "core" <=> i = 4
BY DEF Stages, AppStages

LEMMA AppOrderIs ==
  /\ AppOrder # <<>> /\ Len(AppOrder) = 4
  /\ \A i \in 1..4 : AppOrder[i] \in AppStages
BY DEF AppOrder, AppStages

LEMMA OrdersAre ==
  ASSUME NEW u \in {InPlace, CoreAhead}
  PROVE /\ u \in Seq(StepNames) /\ Len(u) = 6
        /\ \A i \in 1..6 : u[i] \in AppStages \cup {"native", "core"}
<1> DEFINE A == AppStages \cup {"native", "core"}
           n == <<"native">>
           nc == <<"native", "core">>
<1>1. n \in Seq(A) /\ Len(n) = 1 /\ nc \in Seq(A) /\ Len(nc) = 2
  OBVIOUS
<1>2. Stages \in Seq(A) /\ Len(Stages) = 5
  BY DEF Stages, AppStages
<1>3. AppOrder \in Seq(A) /\ Len(AppOrder) = 4
  BY DEF AppOrder, AppStages
<1>4. A \subseteq StepNames
  BY DEF StepNames
<1> HIDE DEF A, n, nc
<1>5. InPlace = n \o Stages /\ CoreAhead = nc \o AppOrder
  BY DEF InPlace, CoreAhead, n, nc
<1>6. InPlace \in Seq(A) /\ Len(InPlace) = 6
  <2>1. n \o Stages \in Seq(A) /\ Len(n \o Stages) = Len(n) + Len(Stages)
    BY <1>1, <1>2, ConcatProperties
  <2> QED
    BY <1>1, <1>2, <1>5, <2>1
<1>7. CoreAhead \in Seq(A) /\ Len(CoreAhead) = 6
  <2>1. nc \o AppOrder \in Seq(A) /\ Len(nc \o AppOrder) = Len(nc) + Len(AppOrder)
    BY <1>1, <1>3, ConcatProperties
  <2> QED
    BY <1>1, <1>3, <1>5, <2>1
<1>8. u \in Seq(A) /\ Len(u) = 6
  BY <1>6, <1>7
<1>9. \A i \in 1..6 : u[i] \in A
  BY <1>8, ElementOfSeq
<1> QED
  <2>1. u \in Seq(StepNames)
    BY <1>4, <1>8, SeqMonotonic
  <2> QED
    BY <1>8, <1>9, <2>1 DEF A

(* What is still to be done, by what has been decided. *)
LEMMA AheadNext ==
  ASSUME NEW b, NativeAhead(b)
  PROVE /\ Todo(b) # <<>> /\ Head(Todo(b)) \in Prelude \cup {"native"}
        /\ Head(Todo(b)) \in Prelude =>
             \E p, q \in Seq(Prelude) : Tail(Todo(b)) = p \o (<<"native">> \o (q \o Stages))
        /\ Head(Todo(b)) = "native" => \E q \in Seq(Prelude) : Tail(Todo(b)) = q \o Stages
<1>1. PICK p \in Seq(Prelude), q \in Seq(Prelude) : Todo(b) = p \o (<<"native">> \o (q \o Stages))
  BY DEF NativeAhead
<1>2. p \in Seq(StepNames) /\ q \in Seq(StepNames)
  BY PlanNames, SeqMonotonic
<1> DEFINE r == q \o Stages
           n == <<"native">>
<1>3. r \in Seq(StepNames) /\ n \in Seq(StepNames) /\ n # <<>> /\ Head(n) = "native" /\ Tail(n) = <<>>
  BY <1>2, PlanNames, ConcatProperties
<1> HIDE DEF r, n
<1>4. n \o r # <<>> /\ Head(n \o r) = "native" /\ Tail(n \o r) = <<>> \o r /\ n \o r \in Seq(StepNames)
  BY <1>3, ConcatFirst, ConcatProperties
<1>5. <<>> \o r = r
  BY <1>3, ConcatEmptySeq
<1>6. Todo(b) = p \o (n \o r)
  BY <1>1 DEF r, n
<1>7. CASE p = <<>>
  <2>1. Todo(b) = n \o r
    BY <1>4, <1>6, <1>7, ConcatEmptySeq
  <2> QED
    BY <1>4, <1>5, <2>1, PlanNames DEF r
<1>8. CASE p # <<>>
  <2>1. Todo(b) # <<>> /\ Head(Todo(b)) = Head(p) /\ Tail(Todo(b)) = Tail(p) \o (n \o r)
    BY <1>2, <1>4, <1>6, <1>8, ConcatFirst
  <2>2. Head(p) \in Prelude /\ Tail(p) \in Seq(Prelude)
    BY <1>8, HeadTailProperties
  <2> QED
    BY <2>1, <2>2, PlanNames DEF r, n
<1> QED
  BY <1>7, <1>8

LEMMA BehindNext ==
  ASSUME NEW b, NativeBehind(b)
  PROVE /\ Todo(b) # <<>> /\ Head(Todo(b)) \in Prelude \cup {"initialize"}
        /\ Head(Todo(b)) \in Prelude => \E q \in Seq(Prelude) : Tail(Todo(b)) = q \o Stages
        /\ Head(Todo(b)) = "initialize" => Todo(b) = Stages
<1>1. PICK q \in Seq(Prelude) : Todo(b) = q \o Stages
  BY DEF NativeBehind
<1>2. q \in Seq(StepNames) /\ Stages \in Seq(StepNames) /\ Stages # <<>> /\ Head(Stages) = "initialize"
  BY PlanNames, SeqMonotonic, StagesAre
<1>3. "initialize" \notin Prelude
  BY PlanNames DEF AppStages
<1>4. CASE q = <<>>
  BY <1>1, <1>2, <1>3, <1>4, ConcatEmptySeq
<1>5. CASE q # <<>>
  <2>1. Todo(b) # <<>> /\ Head(Todo(b)) = Head(q) /\ Tail(Todo(b)) = Tail(q) \o Stages
    BY <1>1, <1>2, <1>5, ConcatFirst
  <2>2. Head(q) \in Prelude /\ Tail(q) \in Seq(Prelude)
    BY <1>5, HeadTailProperties
  <2> QED
    BY <1>3, <2>1, <2>2
<1> QED
  BY <1>4, <1>5

LEMMA RunsNext ==
  ASSUME NEW b \in BootTasks, Runs(b), Todo(b) # <<>>, Todo(b) \in Seq(StepNames)
  PROVE /\ Head(Todo(b)) \in AppStages \cup {"native", "core"}
        /\ Append(b.ran, Head(Todo(b))) \o Tail(Todo(b)) = b.ran \o Todo(b)
<1>1. b.ran \in Seq(StepNames)
  BY DEF BootTasks
<1> DEFINE u == b.ran \o Todo(b)
<1>2. u \in {InPlace, CoreAhead}
  BY DEF Runs
<1>3. Len(b.ran) + 1 \in 1..Len(u) /\ Head(Todo(b)) = u[Len(b.ran) + 1]
      /\ Append(b.ran, Head(Todo(b))) \o Tail(Todo(b)) = u
  BY <1>1, ConcatThen
<1> HIDE DEF u
<1>4. Len(u) = 6 /\ \A i \in 1..6 : u[i] \in AppStages \cup {"native", "core"}
  BY <1>2, OrdersAre
<1> QED
  BY <1>3, <1>4 DEF u

(* Core, in the place where it stands among the stages that are put off.   *)
LEMMA CoreNext ==
  ASSUME NEW s \in Seq(AppStages), NEW t \in Seq(StepNames), s \o t = Stages, t # <<>>,
         Head(t) = "core"
  PROVE s \o Tail(t) = AppOrder
<1>1. s \in Seq(StepNames)
  BY PlanNames, SeqMonotonic
<1>2. Len(s) \in Nat /\ Len(t) \in Nat \ {0} /\ Len(s) + Len(t) = 5
      /\ \A i \in 1..Len(s) + Len(t) : Stages[i] = IF i <= Len(s) THEN s[i] ELSE t[i - Len(s)]
  <2>1. Len(s) \in Nat /\ Len(t) \in Nat \ {0}
    BY <1>1, LenProperties, EmptySeq
  <2>2. Len(s \o t) = Len(s) + Len(t)
        /\ \A i \in 1..Len(s) + Len(t) : (s \o t)[i] = IF i <= Len(s) THEN s[i] ELSE t[i - Len(s)]
    BY <1>1, ConcatProperties
  <2>3. Len(Stages) = 5
    BY StagesAre
  <2> QED
    BY <2>1, <2>2, <2>3
<1>3. Stages[Len(s) + 1] = "core" /\ Len(s) + 1 \in 1..5
  <2>1. Len(s) + 1 \in 1..Len(s \o t) /\ Head(t) = (s \o t)[Len(s) + 1]
    BY <1>1, ConcatThen
  <2> QED
    BY <2>1, StagesAre
<1>4. Len(s) = 3
  <2>1. \A i \in 1..5 : Stages[i] = "core" => i = 4
    BY StagesAre
  <2> DEFINE k == Len(s)
  <2>2. k + 1 = 4
    BY <1>3, <2>1
  <2>3. k \in Nat
    BY <1>1, LenProperties
  <2> HIDE DEF k
  <2>4. k = 3
    BY <2>2, <2>3
  <2> QED
    BY <2>4 DEF k
<1> DEFINE x == Tail(t)
<1>5. /\ x \in Seq(StepNames) /\ Len(x) = 1 /\ x[1] = t[2]
  <2>1. /\ x \in Seq(StepNames) /\ Len(x) = Len(t) - 1
        /\ \A i \in 1..Len(x) : x[i] = t[i + 1]
    BY HeadTailProperties
  <2> HIDE DEF x
  <2>2. Len(x) = 1
    BY <1>2, <1>4, <2>1
  <2>3. 1 \in 1..Len(x) /\ 1 + 1 = 2
    BY <2>2
  <2> QED
    BY <2>1, <2>2, <2>3
<1> HIDE DEF x
<1> DEFINE w == s \o x
<1>6. /\ w \in Seq(StepNames) /\ Len(w) = 4
      /\ \A i \in 1..4 : w[i] = IF i <= 3 THEN s[i] ELSE x[i - 3]
  <2>1. /\ w \in Seq(StepNames) /\ Len(w) = Len(s) + Len(x)
        /\ \A i \in 1..Len(s) + Len(x) : w[i] = IF i <= Len(s) THEN s[i] ELSE x[i - Len(s)]
    BY <1>1, <1>5, ConcatProperties
  <2> HIDE DEF w
  <2>2. Len(s) + Len(x) = 4
    BY <1>4, <1>5
  <2> QED
    BY <1>4, <2>1, <2>2
<1> HIDE DEF w
<1>7. w[1] = s[1] /\ w[2] = s[2] /\ w[3] = s[3] /\ w[4] = t[2]
  BY <1>5, <1>6
<1>8. Stages[1] = s[1] /\ Stages[2] = s[2] /\ Stages[3] = s[3] /\ Stages[5] = t[2]
  BY <1>2, <1>4
<1>9. /\ Stages[1] = "initialize" /\ Stages[2] = "system" /\ Stages[3] = "services"
      /\ Stages[5] = "application"
  BY DEF Stages
<1>10. /\ AppOrder[1] = "initialize" /\ AppOrder[2] = "system" /\ AppOrder[3] = "services"
       /\ AppOrder[4] = "application" /\ Len(AppOrder) = 4
  BY DEF AppOrder
<1>11. \A i \in 1..4 : w[i] = AppOrder[i]
  BY <1>7, <1>8, <1>9, <1>10
<1>12. w = AppOrder
  BY <1>6, <1>10, <1>11, PlanNames, SeqEqual
<1> QED
  BY <1>12 DEF w, x

LEMMA PutsOffNext ==
  ASSUME NEW b \in BootTasks, PutsOff(b), Todo(b) # <<>>, Todo(b) \in Seq(StepNames)
  PROVE /\ Head(Todo(b)) \in AppStages \cup {"core"}
        /\ Append(b.put_off, Head(Todo(b))) \o Tail(Todo(b)) = b.put_off \o Todo(b)
        /\ Head(Todo(b)) = "core" =>
             b.ran = <<"native">> /\ b.put_off \o Tail(Todo(b)) = AppOrder
<1>1. b.put_off \in Seq(AppStages) /\ b.put_off \in Seq(StepNames)
  BY PlanNames, SeqMonotonic DEF BootTasks
<1> DEFINE u == b.put_off \o Todo(b)
<1>2. Len(b.put_off) + 1 \in 1..Len(u) /\ Head(Todo(b)) = u[Len(b.put_off) + 1]
      /\ Append(b.put_off, Head(Todo(b))) \o Tail(Todo(b)) = u
  BY <1>1, ConcatThen
<1>3. CASE b.ran = <<"native">> /\ u = Stages
  <2>1. Head(Todo(b)) \in AppStages \cup {"core"}
    BY <1>2, <1>3, StagesAre
  <2> QED
    BY <1>1, <1>2, <1>3, <2>1, CoreNext
<1>4. CASE b.ran = <<"native", "core">> /\ u = AppOrder
  <2>1. Head(Todo(b)) \in AppStages
    BY <1>2, <1>4, AppOrderIs
  <2> QED
    BY <1>2, <2>1, PlanNames
<1> QED
  BY <1>3, <1>4 DEF PutsOff

LEMMA ConcatRegrouped ==
  \A a, n, e, d, i, s \in Seq(StepNames) :
    (((a \o (n \o e)) \o d) \o i) \o s = a \o (n \o ((e \o (d \o i)) \o s))
<1> DEFINE Cat(r, t) == r \o t
           T == Seq(StepNames)
<1>1. ASSUME NEW r \in T, NEW t \in T, NEW u \in T PROVE Cat(Cat(r, t), u) = Cat(r, Cat(t, u))
  BY <1>1, ConcatAssociative
<1>2. \A r, t \in T : Cat(r, t) \in T
  BY ConcatProperties
<1> SUFFICES ASSUME NEW a \in T, NEW n \in T, NEW e \in T, NEW d \in T, NEW i \in T, NEW s \in T
             PROVE Cat(Cat(Cat(Cat(a, Cat(n, e)), d), i), s)
                   = Cat(a, Cat(n, Cat(Cat(e, Cat(d, i)), s)))
  OBVIOUS
<1> HIDE DEF Cat, T
<1>3. /\ Cat(n, e) \in T /\ Cat(a, Cat(n, e)) \in T /\ Cat(d, i) \in T
      /\ Cat(e, Cat(d, i)) \in T /\ Cat(n, Cat(e, Cat(d, i))) \in T
  BY <1>2
<1>4. Cat(Cat(Cat(a, Cat(n, e)), d), i) = Cat(Cat(a, Cat(n, e)), Cat(d, i))
  BY <1>1, <1>3
<1>5. Cat(Cat(a, Cat(n, e)), Cat(d, i)) = Cat(a, Cat(Cat(n, e), Cat(d, i)))
  BY <1>1, <1>3
<1>6. Cat(Cat(n, e), Cat(d, i)) = Cat(n, Cat(e, Cat(d, i)))
  BY <1>1, <1>3
<1>7. Cat(Cat(a, Cat(n, Cat(e, Cat(d, i)))), s) = Cat(a, Cat(Cat(n, Cat(e, Cat(d, i))), s))
  BY <1>1, <1>3
<1>8. Cat(Cat(n, Cat(e, Cat(d, i))), s) = Cat(n, Cat(Cat(e, Cat(d, i)), s))
  BY <1>1, <1>3
<1> QED
  BY <1>4, <1>5, <1>6, <1>7, <1>8

LEMMA PlanInOrder == InOrder(RunBoot) /\ InOrder(NoBoot)
<1>1. InOrder(NoBoot)
  BY NoBootTyped DEF InOrder
<1> DEFINE patches == IF Agent THEN <<"patches">> ELSE <<>>
           dist == IF Agent THEN <<"dist">> ELSE <<>>
           p == <<"defaults", "tree">> \o patches
           e == <<"engine", "network">>
           en == <<"native", "engine", "network">>
           ai == <<"api", "install">>
           q == e \o (dist \o ai)
           n == <<"native">>
<1>2. /\ <<"defaults", "tree">> \in Seq(Prelude) /\ patches \in Seq(Prelude) /\ dist \in Seq(Prelude)
      /\ e \in Seq(Prelude) /\ ai \in Seq(Prelude) /\ n \in Seq(StepNames) /\ en \in Seq(StepNames)
  <2>1. /\ {"defaults", "tree", "patches", "dist", "engine", "network", "api", "install"} \subseteq Prelude
        /\ {"native", "engine", "network"} \subseteq StepNames
    BY DEF Prelude, Gates, StepNames
  <2>2. patches \in Seq(Prelude) /\ dist \in Seq(Prelude)
    BY <2>1
  <2> QED
    BY <2>1, <2>2
<1>3. en = n \o e
  OBVIOUS
<1>4. Plan = (((p \o en) \o dist) \o ai) \o Stages
  BY DEF Plan
<1> HIDE DEF patches, dist, e, en, ai, n
<1>5. p \in Seq(Prelude) /\ dist \o ai \in Seq(Prelude) /\ q \in Seq(Prelude)
  <2>1. dist \o ai \in Seq(Prelude)
    BY <1>2, ConcatProperties
  <2> QED
    BY <1>2, <2>1, ConcatProperties
<1> HIDE DEF p
<1>6. /\ p \in Seq(StepNames) /\ dist \in Seq(StepNames) /\ ai \in Seq(StepNames)
      /\ e \in Seq(StepNames) /\ Stages \in Seq(StepNames)
  BY <1>2, <1>5, PlanNames, SeqMonotonic
<1>7. Plan = p \o (n \o (q \o Stages))
  <2>1. n \in Seq(StepNames)
    BY <1>2
  <2> DEFINE Cat(x, y) == x \o y
  <2>2. \A a, k, f, d, i, s \in Seq(StepNames) :
          Cat(Cat(Cat(Cat(a, Cat(k, f)), d), i), s) = Cat(a, Cat(k, Cat(Cat(f, Cat(d, i)), s)))
    BY ConcatRegrouped
  <2> HIDE DEF Cat
  <2>3. Cat(Cat(Cat(Cat(p, Cat(n, e)), dist), ai), Stages)
        = Cat(p, Cat(n, Cat(Cat(e, Cat(dist, ai)), Stages)))
    BY <1>6, <2>1, <2>2
  <2> QED
    BY <1>3, <1>4, <2>3 DEF Cat
<1>8. /\ RunBoot.at = "running" /\ RunBoot.steps = Plan /\ RunBoot.put_off = <<>>
      /\ RunBoot.decided = "undecided" /\ RunBoot.ran = <<>>
  BY DEF RunBoot, NoBoot
<1>9. NativeAhead(RunBoot)
  BY <1>5, <1>7, <1>8 DEF NativeAhead, Todo, n
<1> QED
  BY <1>1, <1>8, <1>9 DEF InOrder, Undecided

(* The boot task at its next step, with as much behind it.                 *)
Keeps(b, c) == c.ran = b.ran /\ c.put_off = b.put_off /\ c.decided = b.decided

LEMMA SameTodo ==
  ASSUME NEW b, NEW c, InOrder(b), b.at # "idle", Keeps(b, c), Todo(c) = Todo(b),
         c.at = "gate" => Head(c.steps) \in Gates,
         c.at = "primary" => c.steps = <<>> /\ c.decided = "put_off"
  PROVE InOrder(c)
BY DEF InOrder, Keeps, Undecided, NativeAhead, NativeBehind, Runs, PutsOff

LEMMA PreludeDone ==
  ASSUME NEW b \in BootTasks, NEW c, InOrder(b), b.at \in {"running", "gate"}, b.steps # <<>>,
         Head(b.steps) \in Prelude, Keeps(b, c), c.at = "running", c.steps = Tail(b.steps)
  PROVE InOrder(c)
<1>1. Todo(b) = b.steps /\ Todo(c) = Tail(b.steps) /\ b.steps \in Seq(StepNames)
  BY DEF Todo, BootTasks
<1>2. b.decided \in {"undecided", "run", "put_off"}
  BY DEF BootTasks
<1>3. CASE b.decided = "undecided"
  <2>1. NativeAhead(c) \/ NativeBehind(c)
    <3>1. ASSUME NativeAhead(b) PROVE NativeAhead(c)
      <4>1. \E p, q \in Seq(Prelude) : Tail(Todo(b)) = p \o (<<"native">> \o (q \o Stages))
        BY <1>1, <3>1, AheadNext
      <4>2. c.ran = <<>>
        BY <3>1 DEF Keeps, NativeAhead
      <4> QED
        BY <1>1, <4>1, <4>2 DEF NativeAhead
    <3>2. ASSUME NativeBehind(b) PROVE NativeBehind(c)
      <4>1. \E q \in Seq(Prelude) : Tail(Todo(b)) = q \o Stages
        BY <1>1, <3>2, BehindNext
      <4>2. c.ran = <<"native">>
        BY <3>2 DEF Keeps, NativeBehind
      <4> QED
        BY <1>1, <4>1, <4>2 DEF NativeBehind
    <3> QED
      BY <1>3, <3>1, <3>2 DEF InOrder, Undecided
  <2> QED
    BY <1>3, <2>1 DEF InOrder, Undecided, Keeps
<1>4. CASE b.decided = "run"
  BY <1>1, <1>4, RunsNext, PlanNames DEF InOrder
<1>5. CASE b.decided = "put_off"
  BY <1>1, <1>5, PutsOffNext, PlanNames DEF InOrder
<1> QED
  BY <1>2, <1>3, <1>4, <1>5

LEMMA NativeThenCore == Append(<<"native">>, "core") = <<"native", "core">>
<1> DEFINE u == Append(<<"native">>, "core")
           v == <<"native", "core">>
<1>1. v \in Seq(StepNames) /\ Len(v) = 2 /\ v[1] = "native" /\ v[2] = "core"
  BY DEF StepNames
<1>2. u \in Seq(StepNames)
  <2>1. <<"native">> \in Seq(StepNames) /\ "core" \in StepNames
    BY DEF StepNames
  <2> QED
    BY <2>1, AppendProperties
<1>3. Len(u) = 2
  OBVIOUS
<1>4. u[1] = "native"
  OBVIOUS
<1>5. u[2] = "core"
  OBVIOUS
<1> HIDE DEF u, v
<1>6. \A i \in 1..Len(u) : u[i] = v[i]
  BY <1>1, <1>3, <1>4, <1>5
<1>7. u = v
  BY <1>1, <1>2, <1>3, <1>6, SeqEqual
<1> QED
  BY <1>7 DEF u, v

LEMMA StageRun ==
  ASSUME NEW b \in BootTasks, NEW c, InOrder(b), b.at \in {"running", "decided"}, b.steps # <<>>,
         Head(b.steps) \in AppStages \cup {"native", "core"},
         Head(b.steps) \in AppStages => b.decided = "run",
         c.at = "awaiting", c.steps = b.steps, c.ran = Append(b.ran, Head(b.steps)),
         c.put_off = b.put_off, c.decided = b.decided
  PROVE InOrder(c)
<1>1. Todo(b) = b.steps /\ Todo(c) = Tail(b.steps) /\ b.steps \in Seq(StepNames)
  BY DEF Todo, BootTasks
<1>2. b.decided \in {"undecided", "run", "put_off"}
  BY DEF BootTasks
<1>3. CASE b.decided = "undecided"
  <2>1. Head(b.steps) \in {"native", "core"} /\ "initialize" \in AppStages
    BY <1>3 DEF AppStages
  <2>2. ~NativeBehind(b)
    BY <1>1, <2>1, BehindNext, PlanNames
  <2>3. NativeAhead(b)
    BY <1>3, <2>2 DEF InOrder, Undecided
  <2>4. Head(b.steps) = "native" /\ b.ran = <<>> /\ \E q \in Seq(Prelude) : Todo(c) = q \o Stages
    <3>1. Head(Todo(b)) = "native"
      BY <1>1, <2>1, <2>3, AheadNext, PlanNames
    <3>2. \E q \in Seq(Prelude) : Tail(Todo(b)) = q \o Stages
      BY <2>3, <3>1, AheadNext
    <3>3. b.ran = <<>>
      BY <2>3 DEF NativeAhead
    <3> QED
      BY <1>1, <3>1, <3>2, <3>3
  <2>5. c.ran = <<"native">>
    BY <2>4
  <2> QED
    BY <1>3, <2>4, <2>5 DEF InOrder, Undecided, NativeBehind
<1>4. CASE b.decided = "run"
  <2>1. c.ran \o Todo(c) = b.ran \o Todo(b)
    BY <1>1, <1>4, RunsNext DEF InOrder
  <2> QED
    BY <1>4, <2>1 DEF InOrder, Runs
<1>5. CASE b.decided = "put_off"
  <2>1. Head(b.steps) = "core" /\ b.ran = <<"native">> /\ c.put_off \o Todo(c) = AppOrder
    BY <1>1, <1>5, PutsOffNext, PlanNames DEF InOrder
  <2>2. c.ran = <<"native", "core">>
    BY <2>1, NativeThenCore
  <2> QED
    BY <1>5, <2>1, <2>2 DEF InOrder, PutsOff
<1> QED
  BY <1>2, <1>3, <1>4, <1>5

LEMMA DecideInOrder ==
  ASSUME NEW b \in BootTasks, NEW c, InOrder(b), b.at = "running", b.steps # <<>>,
         Head(b.steps) \in AppStages, b.decided = "undecided",
         c.at = "decided", c.steps = b.steps, c.ran = b.ran, c.put_off = b.put_off,
         c.decided \in {"run", "put_off"}
  PROVE InOrder(c)
<1>1. Todo(b) = b.steps /\ Todo(c) = b.steps
  BY DEF Todo
<1>2. ~NativeAhead(b)
  BY <1>1, AheadNext, PlanNames
<1>3. NativeBehind(b) /\ b.put_off = <<>>
  BY <1>2 DEF InOrder, Undecided
<1>4. Todo(c) = Stages /\ c.ran = <<"native">> /\ c.put_off = <<>>
  BY <1>1, <1>3, BehindNext, PlanNames DEF NativeBehind
<1>5. Runs(c)
  BY <1>4 DEF Runs, InPlace
<1>6. PutsOff(c)
  BY <1>4, PlanNames, ConcatEmptySeq DEF PutsOff
<1> QED
  BY <1>5, <1>6 DEF InOrder

LEMMA PutOffInOrder ==
  ASSUME NEW b \in BootTasks, NEW c, InOrder(b), b.at \in {"running", "decided"}, b.steps # <<>>,
         b.decided = "put_off", c.at = "running", c.steps = Tail(b.steps), c.ran = b.ran,
         c.put_off = Append(b.put_off, Head(b.steps)), c.decided = b.decided
  PROVE InOrder(c)
<1>1. Todo(b) = b.steps /\ Todo(c) = Tail(b.steps) /\ b.steps \in Seq(StepNames)
  BY DEF Todo, BootTasks
<1>2. c.put_off \o Todo(c) = b.put_off \o Todo(b)
  BY <1>1, PutsOffNext DEF InOrder
<1> QED
  BY <1>2 DEF InOrder, PutsOff

(* The put-off stages come back in the order they were put off in.         *)
LEMMA PrimaryInOrder ==
  ASSUME NEW b \in BootTasks, NEW c, InOrder(b), b.at = "primary",
         c.at = "running", c.steps = b.put_off, c.ran = b.ran, c.put_off = <<>>, c.decided = "run"
  PROVE InOrder(c)
<1>1. b.steps = <<>> /\ PutsOff(b) /\ Todo(b) = <<>> /\ b.put_off \in Seq(AppStages)
  BY DEF InOrder, Todo, BootTasks
<1>2. b.put_off \o Todo(b) = b.put_off
  BY <1>1, ConcatEmptySeq
<1>3. b.put_off # Stages
  <2>1. Stages[4] = "core" /\ 4 \in 1..Len(Stages)
    BY StagesAre
  <2> QED
    BY <1>1, <2>1, ElementOfSeq, PlanNames
<1>4. c.ran = <<"native", "core">> /\ Todo(c) = AppOrder
  BY <1>1, <1>2, <1>3 DEF PutsOff, Todo
<1>5. Runs(c)
  BY <1>4 DEF Runs, CoreAhead
<1> QED
  BY <1>5 DEF InOrder

ProceedOf(c) == /\ c.at = "running" /\ c.steps = Tail(boot.steps) /\ Keeps(boot, c)

LEMMA ProceedIs == ASSUME Typed, boot' = Proceed PROVE ProceedOf(boot')
<1>1. boot' = [boot EXCEPT !.at = "running", !.steps = Tail(boot.steps), !.tries = 0, !.awaited = {}]
  BY DEF Proceed
<1> QED
  BY <1>1 DEF ProceedOf, Keeps, Typed, TypeOK, BootTasks

LEMMA BootTaskInOrder == ASSUME Typed, InOrder(boot), BootTask PROVE InOrder(boot')
<1>a. boot \in BootTasks /\ AtStep
  BY DEF Typed, TypeOK
<1>b. InOrder(NoBoot)
  BY PlanInOrder
<1>c. ASSUME boot' = Proceed, boot.at \in {"running", "gate"}, boot.steps # <<>>,
             Head(boot.steps) \in Prelude
      PROVE InOrder(boot')
  BY <1>a, <1>c, ProceedIs, PreludeDone DEF ProceedOf
<1>1. CASE Cancelled \/ PushComplete
  BY <1>1, <1>b DEF Cancelled, PushComplete, EndBoot
<1>2. CASE InstallNative \/ InstallContainers
  <2>1. {"defaults", "install"} \subseteq Prelude
    BY DEF Prelude
  <2> QED
    BY <1>2, <1>c, <2>1 DEF InstallNative, InstallContainers
<1>3. CASE Decide
  <2>1. PICK d \in {"run", "put_off"} : boot' = [boot EXCEPT !.at = "decided", !.decided = d]
    BY <1>3 DEF Decide
  <2>2. /\ boot'.at = "decided" /\ boot'.steps = boot.steps /\ boot'.ran = boot.ran
        /\ boot'.put_off = boot.put_off /\ boot'.decided = d
    BY <1>a, <2>1 DEF BootTasks
  <2> QED
    BY <1>3, <1>a, <2>2, DecideInOrder DEF Decide
<1>4. CASE PutOff
  <2>1. boot' = [boot EXCEPT !.at = "running", !.steps = Tail(boot.steps), !.tries = 0, !.awaited = {},
                             !.put_off = Append(boot.put_off, Head(boot.steps))]
    <3>1. boot' = [Proceed EXCEPT !.put_off = Append(Proceed.put_off, Head(boot.steps))]
      BY <1>4 DEF PutOff
    <3> QED
      BY <1>a, <3>1 DEF Proceed, BootTasks
  <2>2. /\ boot'.at = "running" /\ boot'.steps = Tail(boot.steps) /\ boot'.ran = boot.ran
        /\ boot'.put_off = Append(boot.put_off, Head(boot.steps)) /\ boot'.decided = boot.decided
    BY <1>a, <2>1 DEF BootTasks
  <2> QED
    BY <1>4, <1>a, <2>2, PutOffInOrder DEF PutOff, PastBoundary
<1>5. CASE EnterGate
  <2>1. boot'.at = "gate" /\ boot'.steps = boot.steps /\ Keeps(boot, boot')
    BY <1>5, <1>a DEF EnterGate, BootTasks, Keeps
  <2>2. Todo(boot') = Todo(boot) /\ boot.at = "running" /\ Head(boot.steps) \in Gates
    BY <1>5, <2>1 DEF EnterGate, Todo
  <2> QED
    BY <2>1, <2>2, SameTodo
<1>6. CASE Gate
  <2>1. boot.at = "gate" /\ boot.steps # <<>> /\ Head(boot.steps) \in Prelude
    BY <1>6, <1>a, PlanNames DEF Gate, AtStep, InOrder
  <2>2. CASE boot' = Proceed
    BY <1>c, <2>1, <2>2
  <2>3. CASE boot' = NoBoot
    BY <1>b, <2>3
  <2>4. CASE boot' = [boot EXCEPT !.tries = boot.tries + 1]
    <3>1. boot'.at = "gate" /\ boot'.steps = boot.steps /\ Keeps(boot, boot')
      BY <1>a, <2>1, <2>4 DEF BootTasks, Keeps
    <3>2. Todo(boot') = Todo(boot) /\ Head(boot'.steps) \in Gates
      BY <2>1, <3>1 DEF InOrder, Todo
    <3> QED
      BY <2>1, <3>1, <3>2, SameTodo
  <2> QED
    BY <1>6, <2>2, <2>3, <2>4 DEF Gate, EndBoot
<1>7. CASE Stage
  <2>1. PICK w : boot' = [boot EXCEPT !.at = "awaiting", !.awaited = w,
                                      !.ran = Append(boot.ran, Head(boot.steps))]
    BY <1>7 DEF Stage
  <2>2. /\ boot'.at = "awaiting" /\ boot'.steps = boot.steps
        /\ boot'.ran = Append(boot.ran, Head(boot.steps))
        /\ boot'.put_off = boot.put_off /\ boot'.decided = boot.decided
    BY <1>a, <2>1 DEF BootTasks
  <2> QED
    BY <1>7, <1>a, <2>2, StageRun DEF Stage, PastBoundary
<1>8. CASE Awaited
  <2>1. ProceedOf(boot') /\ boot.at = "awaiting"
    BY <1>8, ProceedIs DEF Awaited
  <2>2. Todo(boot') = Todo(boot)
    BY <2>1 DEF ProceedOf, Todo
  <2> QED
    BY <2>1, <2>2, SameTodo DEF ProceedOf
<1>9. CASE AwaitPrimary
  <2>1. boot.at = "running" /\ boot.steps = <<>> /\ boot.put_off # <<>>
    BY <1>9 DEF AwaitPrimary
  <2>2. boot'.at = "primary" /\ boot'.steps = boot.steps /\ Keeps(boot, boot')
    BY <1>9, <1>a DEF AwaitPrimary, BootTasks, Keeps
  <2>3. boot.decided = "put_off"
    BY <1>a, <2>1 DEF InOrder, Undecided, Runs, BootTasks
  <2>4. Todo(boot') = Todo(boot) /\ boot'.decided = "put_off"
    BY <2>1, <2>2, <2>3 DEF Todo, Keeps
  <2> QED
    BY <2>1, <2>2, <2>4, SameTodo
<1>10. CASE Primary
  <2>1. CASE boot' = [boot EXCEPT !.at = "running", !.steps = boot.put_off,
                                  !.put_off = <<>>, !.decided = "run", !.tries = 0]
    <3>1. /\ boot'.at = "running" /\ boot'.steps = boot.put_off /\ boot'.ran = boot.ran
          /\ boot'.put_off = <<>> /\ boot'.decided = "run"
      <4> DEFINE e == <<>>
      <4>1. boot' = [boot EXCEPT !.at = "running", !.steps = boot.put_off,
                                 !.put_off = e, !.decided = "run", !.tries = 0]
        BY <2>1
      <4> HIDE DEF e
      <4>2. /\ boot'.at = "running" /\ boot'.steps = boot.put_off /\ boot'.ran = boot.ran
            /\ boot'.put_off = e /\ boot'.decided = "run"
        BY <1>a, <4>1 DEF BootTasks
      <4> QED
        BY <4>2 DEF e
    <3> QED
      BY <1>10, <1>a, <3>1, PrimaryInOrder DEF Primary
  <2>2. CASE boot' = [boot EXCEPT !.tries = boot.tries + 1]
    <3>1. boot.at = "primary" /\ boot'.at = "primary" /\ boot'.steps = boot.steps /\ Keeps(boot, boot')
      BY <1>10, <1>a, <2>2 DEF Primary, BootTasks, Keeps
    <3>2. Todo(boot') = Todo(boot) /\ boot'.steps = <<>> /\ boot'.decided = "put_off"
      BY <3>1 DEF InOrder, Todo, Keeps
    <3> QED
      BY <3>1, <3>2, SameTodo
  <2> QED
    BY <1>10, <2>1, <2>2 DEF Primary
<1> QED
  BY <1>1, <1>2, <1>3, <1>4, <1>5, <1>6, <1>7, <1>8, <1>9, <1>10 DEF BootTask

Ordered == InOrder(boot)

LEMMA NextOrdered == Typed /\ Ordered /\ [Next]_vars => Ordered'
<1> SUFFICES ASSUME Typed, InOrder(boot), [Next]_vars PROVE InOrder(boot')
  BY DEF Ordered
<1>1. CASE BootTask
  BY <1>1, BootTaskInOrder
<1>2. CASE boot' \in {boot, NoBoot, RunBoot}
  BY <1>2, PlanInOrder
<1>3. CASE boot' = [boot EXCEPT !.cancel = TRUE]
  <2>1. boot'.at = boot.at /\ boot'.steps = boot.steps /\ Keeps(boot, boot')
    BY <1>3 DEF Typed, TypeOK, BootTasks, Keeps
  <2>2. Todo(boot') = Todo(boot)
    BY <2>1 DEF Todo
  <2> QED
    BY <2>1, <2>2, SameTodo DEF InOrder, Keeps
<1>4. CASE Server
  <2>1. boot' \in {boot, NoBoot, RunBoot} \/ boot' = [boot EXCEPT !.cancel = TRUE]
    BY <1>4 DEF Server, HandleShutdown, HandleResume, HandleUp, HandleBootEnd, HandleBootCrash,
                HandleStopEnd, BeginBoot, GoDown
  <2> QED
    BY <1>2, <1>3, <2>1
<1>5. CASE Start \/ Crash \/ BootCrashes
  BY <1>2, <1>5 DEF Start, Crash, BootCrashes, BeginBoot, GoDown, EndBoot
<1>6. CASE UnitStep
  BY <1>2, <1>6 DEF UnitStep, UnitCalls, UnitReturns, InstallFails, CoreLocks, CoreStarted
<1>7. CASE StopStep \/ \E n \in Shutdowns : StopCrashes(n)
  BY <1>2, <1>7 DEF StopStep, StopApps, StopCore, StopEarlier, StopCrashes
<1>8. CASE Host \/ \E a \in Apps : AppRestarts(a)
  BY <1>2, <1>8 DEF Host, RaiseFlag, AskShutdown, GiveUp, RuntimeFails, Resume, AppRestarts
<1>9. CASE UNCHANGED vars
  BY <1>2, <1>9 DEF vars
<1> QED
  BY <1>1, <1>4, <1>5, <1>6, <1>7, <1>8, <1>9 DEF Next

(* Whatever the flavor, the tries of its gates and the apps there are, a   *)
(* boot that gets to its end has started every stage once: the native apps *)
(* first, the app stages in their order, and Core in its place among them  *)
(* or, with the primary interface missing, ahead of them all.  No boot is  *)
(* left with stages that were put off and forgotten.                       *)
THEOREM EveryBootIsInOrder == Spec => []CompleteBootRanEveryStage
<1>1. Typed /\ Ordered => CompleteBootRanEveryStage
  <2> SUFFICES ASSUME Typed, InOrder(boot), boot.at = "running", boot.steps = <<>>, boot.put_off = <<>>
               PROVE boot.ran \in {InPlace, CoreAhead}
    BY DEF CompleteBootRanEveryStage, Ordered, InPlace, CoreAhead
  <2>1. boot \in BootTasks /\ Todo(boot) = <<>>
    BY DEF Typed, TypeOK, Todo
  <2>2. boot.decided # "undecided"
    <3>1. ~NativeAhead(boot) /\ ~NativeBehind(boot)
      BY <2>1, AheadNext, BehindNext
    <3> QED
      BY <3>1 DEF InOrder, Undecided
  <2>3. boot.decided # "put_off"
    <3>1. boot.put_off \o Todo(boot) = <<>>
      BY <2>1
    <3>2. ~PutsOff(boot)
      BY <3>1, StagesAre, AppOrderIs DEF PutsOff
    <3> QED
      BY <3>2 DEF InOrder
  <2>4. boot.ran \o Todo(boot) \in {InPlace, CoreAhead}
    BY <2>1, <2>2, <2>3 DEF InOrder, Runs, BootTasks
  <2>5. boot.ran \in Seq(StepNames)
    BY <2>1 DEF BootTasks
  <2>6. boot.ran \o Todo(boot) = boot.ran
    BY <2>1, <2>5, ConcatEmptySeq
  <2> QED
    BY <2>4, <2>6
<1>2. Init => Ordered
  BY PlanInOrder DEF Init, Ordered
<1> QED
  BY <1>1, <1>2, InitTyped, NextTyped, NextOrdered, PTL DEF Spec

-----------------------------------------------------------------------------
(* One task at a time: while nothing crashes there is one boot task, or    *)
(* one stop task that the server waits for, and the end of each is         *)
(* reported once.                                                          *)
Has(kinds) == \E i \in Places : mailbox[i].kind \in kinds
Once(kinds) ==
    \A i, j \in Places : mailbox[i].kind \in kinds /\ mailbox[j].kind \in kinds => i = j
AtWork(n) == stops[n].at \in {"apps", "core", "earlier"}
Running == orch.phase \in {"booting", "cancelling"}

OneBoot ==
    /\ boot.at # "idle" => Running /\ ~Has(BootEnds)
    /\ Has(BootEnds) => Running
    /\ Once(BootEnds) /\ ~Has({"crashed"})
Reported ==
    \A i \in Places : mailbox[i].kind = "stopped" =>
        orch.task = mailbox[i].arg /\ stops[mailbox[i].arg].at = "done"
OneStopTask ==
    /\ \A n \in Shutdowns : AtWork(n) => orch.task = n /\ ~Has({"stopped"})
    /\ Reported /\ Once({"stopped"})
    /\ orch.task \in Shutdowns => orch.phase = "stopping"
NothingToADead == orch.phase = "down" => mailbox = <<>>
OneTask == OneBoot /\ OneStopTask /\ NothingToADead

LEMMA SendHas ==
  ASSUME Typed, NEW m \in Messages, Send(m), NEW K
  PROVE /\ Has(K)' <=> Has(K) \/ m.kind \in K
        /\ Once(K) /\ (m.kind \in K => ~Has(K)) => Once(K)'
<1>1. mailbox \in Seq(Messages) /\ Len(mailbox) \in Nat /\ mailbox' = Append(mailbox, m)
  BY DEF Typed, TypeOK, Send
<1>2. /\ Places' = Places \cup {Len(mailbox) + 1} /\ mailbox'[Len(mailbox) + 1] = m
      /\ Len(mailbox) + 1 \notin Places
  BY <1>1 DEF Places
<1>3. \A i \in Places : mailbox'[i] = mailbox[i]
  BY <1>1 DEF Places
<1>4. Has(K)' <=> Has(K) \/ m.kind \in K
  BY <1>2, <1>3 DEF Has
<1>5. ASSUME Once(K), m.kind \in K => ~Has(K) PROVE Once(K)'
  <2> SUFFICES ASSUME NEW i \in Places', NEW j \in Places', mailbox'[i].kind \in K, mailbox'[j].kind \in K
               PROVE i = j
    BY DEF Once
  <2>1. CASE i \in Places /\ j \in Places
    BY <1>3, <1>5, <2>1 DEF Once
  <2>2. CASE m.kind \in K
    <3>1. i \notin Places /\ j \notin Places
      BY <1>3, <1>5, <2>2 DEF Has
    <3> QED
      BY <1>2, <3>1
  <2> QED
    BY <1>2, <2>1, <2>2
<1> QED
  BY <1>4, <1>5

LEMMA TailHas ==
  ASSUME Typed, mailbox # <<>>, mailbox' = Tail(mailbox), NEW K
  PROVE /\ Has(K)' => Has(K)
        /\ Once(K) => Once(K)'
        /\ Head(mailbox).kind \in K => Has(K) /\ (Once(K) => ~Has(K)')
        /\ Head(mailbox).kind \notin K => (Has(K)' <=> Has(K))
<1>1. \A i \in Places' : i + 1 \in Places /\ i \in Nat /\ i # 0 /\ mailbox'[i] = mailbox[i + 1]
  BY TailPlaces
<1>2. mailbox \in Seq(Messages) /\ Len(mailbox) \in Nat \ {0} /\ Len(mailbox') = Len(mailbox) - 1
  BY HeadTailProperties, EmptySeq DEF Typed, TypeOK
<1>3. 1 \in Places /\ Head(mailbox) = mailbox[1] /\ \A i \in Places \ {1} : i - 1 \in Places' /\ i - 1 + 1 = i
  BY <1>2 DEF Places
<1>4. Has(K)' => Has(K)
  BY <1>1 DEF Has
<1>5. ASSUME Once(K) PROVE Once(K)'
  <2> SUFFICES ASSUME NEW i \in Places', NEW j \in Places', mailbox'[i].kind \in K, mailbox'[j].kind \in K
               PROVE i = j
    BY DEF Once
  <2>1. i + 1 = j + 1 /\ i \in Nat /\ j \in Nat
    BY <1>1, <1>5 DEF Once
  <2> QED
    BY <2>1
<1>6. ASSUME Head(mailbox).kind \in K PROVE Has(K) /\ (Once(K) => ~Has(K)')
  <2>1. Has(K)
    BY <1>3, <1>6 DEF Has
  <2>2. ASSUME Once(K), NEW i \in Places', mailbox'[i].kind \in K PROVE FALSE
    <3>1. i + 1 = 1 /\ i \in Nat /\ i # 0
      BY <1>1, <1>3, <1>6, <2>2 DEF Once
    <3> QED
      BY <3>1
  <2> QED
    BY <2>1, <2>2 DEF Has
<1>7. ASSUME Head(mailbox).kind \notin K, Has(K) PROVE Has(K)'
  <2>1. PICK i \in Places : mailbox[i].kind \in K
    BY <1>7 DEF Has
  <2>2. i # 1
    BY <1>3, <1>7, <2>1
  <2>3. i - 1 \in Places' /\ mailbox'[i - 1] = mailbox[i]
    BY <1>1, <1>3, <2>2
  <2> QED
    BY <2>1, <2>3 DEF Has
<1> QED
  BY <1>4, <1>5, <1>6, <1>7

(* What says nothing of the end of a task.                                 *)
Unreported ==
    \/ mailbox' = mailbox
    \/ mailbox # <<>> /\ mailbox' = Tail(mailbox)
    \/ \E m \in Messages : Send(m) /\ m.kind \notin BootEnds \cup {"stopped"}

LEMMA NothingReported ==
  ASSUME Typed, Unreported
  PROVE /\ \A K \in SUBSET (BootEnds \cup {"stopped"}) :
             (Has(K)' => Has(K)) /\ (Once(K) => Once(K)')
        /\ \A i \in Places' : mailbox'[i].kind = "stopped" => \E j \in Places : mailbox[j] = mailbox'[i]
<1>1. CASE mailbox' = mailbox
  BY <1>1 DEF Has, Once, Places
<1>2. CASE mailbox # <<>> /\ mailbox' = Tail(mailbox)
  BY <1>2, TailHas, TailPlaces
<1>3. CASE \E m \in Messages : Send(m) /\ m.kind \notin BootEnds \cup {"stopped"}
  <2>1. PICK m \in Messages : Send(m) /\ m.kind \notin BootEnds \cup {"stopped"}
    BY <1>3
  <2>2. ASSUME NEW K \in SUBSET (BootEnds \cup {"stopped"})
        PROVE (Has(K)' => Has(K)) /\ (Once(K) => Once(K)')
    <3>1. m.kind \notin K
      BY <2>1
    <3> QED
      BY <2>1, <3>1, SendHas
  <2>3. ASSUME NEW i \in Places', mailbox'[i].kind = "stopped" PROVE \E j \in Places : mailbox[j] = mailbox'[i]
    BY <2>1, <2>3, SendPlaces
  <2> QED
    BY <2>2, <2>3
<1> QED
  BY <1>1, <1>2, <1>3 DEF Unreported

LEMMA OneBootKept ==
  ASSUME Typed, OneBoot, Unreported, boot'.at # "idle" => boot.at # "idle", Running => Running'
  PROVE OneBoot'
<1>1. /\ Has(BootEnds)' => Has(BootEnds)
      /\ Once(BootEnds) => Once(BootEnds)'
      /\ Has({"crashed"})' => Has({"crashed"})
  <2>1. BootEnds \subseteq BootEnds \cup {"stopped"} /\ {"crashed"} \subseteq BootEnds \cup {"stopped"}
    BY DEF BootEnds
  <2> QED
    BY <2>1, NothingReported
<1> QED
  BY <1>1 DEF OneBoot

LEMMA OneStopTaskKept ==
  ASSUME Typed, OneStopTask, Unreported, orch'.task = orch.task, stops' = stops,
         orch.phase = "stopping" => orch'.phase = "stopping"
  PROVE OneStopTask'
<1>1. /\ Has({"stopped"})' => Has({"stopped"})
      /\ Once({"stopped"}) => Once({"stopped"})'
      /\ \A i \in Places' : mailbox'[i].kind = "stopped" => \E j \in Places : mailbox[j] = mailbox'[i]
  <2>1. {"stopped"} \subseteq BootEnds \cup {"stopped"}
    OBVIOUS
  <2> QED
    BY <2>1, NothingReported
<1>2. Reported'
  BY <1>1 DEF OneStopTask, Reported
<1> QED
  BY <1>1, <1>2 DEF OneStopTask, AtWork, Shutdowns

LEMMA FreeIs ==
  ASSUME Typed, OneTask, orch.task \notin Shutdowns
  PROVE (\A n \in Shutdowns : ~AtWork(n)) /\ ~Has({"stopped"})
<1>1. ~Has({"stopped"})
  <2> SUFFICES ASSUME NEW i \in Places, mailbox[i].kind = "stopped" PROVE FALSE
    BY DEF Has
  <2>1. mailbox[i] \in Messages /\ orch.task = mailbox[i].arg
    BY DEF Places, Typed, TypeOK, OneTask, OneStopTask, Reported
  <2>2. mailbox[i].arg \in Shutdowns
    BY <2>1 DEF Messages, BootEnds
  <2> QED
    BY <2>1, <2>2
<1> QED
  BY <1>1 DEF OneTask, OneStopTask

LEMMA StopBegins ==
  ASSUME Typed, OneTask, orch.task \notin Shutdowns, NEW s \in Orchs, NEW n \in Shutdowns,
         BeginStop(s, n), mailbox # <<>>, mailbox' = Tail(mailbox)
  PROVE OneStopTask'
<1>1. (\A m \in Shutdowns : ~AtWork(m)) /\ ~Has({"stopped"}) /\ ~Has({"stopped"})'
  BY FreeIs, TailHas
<1>2. orch' = [s EXCEPT !.phase = "stopping", !.task = n] /\ stops' = [stops EXCEPT ![n] = [at |-> "apps", ok |-> TRUE]]
  BY DEF BeginStop
<1>3. orch'.phase = "stopping" /\ orch'.task = n
  BY <1>2 DEF Orchs
<1>4. \A m \in Shutdowns : AtWork(m)' => m = n
  BY <1>1, <1>2 DEF AtWork, Typed, TypeOK, Shutdowns
<1>5. Reported' /\ Once({"stopped"})'
  BY <1>1 DEF Reported, Has, Once
<1> QED
  BY <1>1, <1>3, <1>4, <1>5 DEF OneStopTask, Shutdowns

LEMMA NoStopBegins ==
  ASSUME Typed, OneTask, orch.task \notin Shutdowns, Unreported,
         orch'.task \notin Shutdowns, stops' = stops
  PROVE OneStopTask'
<1>1. (\A m \in Shutdowns : ~AtWork(m)) /\ ~Has({"stopped"})
  BY FreeIs
<1>2. ~Has({"stopped"})'
  BY <1>1, NothingReported
<1>3. Reported' /\ Once({"stopped"})'
  BY <1>2 DEF Reported, Has, Once
<1> QED
  BY <1>1, <1>2, <1>3 DEF OneStopTask, AtWork, Shutdowns

(* A boot begins where none is: its end is not reported yet.               *)
LEMMA BootBegins ==
  ASSUME Typed, OneTask, ~Running, NEW s \in Orchs, BeginBoot(s), s.task \notin Shutdowns, Unreported
  PROVE OneBoot' /\ orch'.task \notin Shutdowns /\ orch'.phase \in {"booting", "up"}
<1>1. ~Has(BootEnds) /\ ~Has({"crashed"}) /\ boot.at = "idle"
  BY DEF OneTask, OneBoot
<1>2. ~Has(BootEnds)' /\ ~Has({"crashed"})'
  <2>1. BootEnds \in SUBSET (BootEnds \cup {"stopped"}) /\ {"crashed"} \in SUBSET (BootEnds \cup {"stopped"})
    BY DEF BootEnds
  <2> QED
    BY <1>1, <2>1, NothingReported
<1>3. CASE orch' = [s EXCEPT !.phase = "booting", !.task = -1] /\ boot' = RunBoot
  <2>1. orch'.phase = "booting" /\ orch'.task = -1
    BY <1>3 DEF Orchs
  <2>2. -1 \notin Shutdowns
    BY NumbersAssumption DEF Shutdowns
  <2> QED
    BY <1>2, <2>1, <2>2 DEF OneBoot, Running, Once, Has
<1>4. CASE orch' = [s EXCEPT !.phase = "up"] /\ boot' = boot
  <2>1. orch'.phase = "up" /\ orch'.task = s.task
    BY <1>4 DEF Orchs
  <2> QED
    BY <1>1, <1>2, <1>4, <2>1 DEF OneBoot, Once, Has
<1> QED
  BY <1>3, <1>4 DEF BeginBoot

LEMMA ServedIs ==
  ASSUME Typed, NEW s, s = [orch EXCEPT !.task = 0, !.waiters = {}, !.resume = FALSE]
  PROVE s \in Orchs /\ s.phase = orch.phase /\ s.task = 0 /\ s.waiters = {} /\ s.resume = FALSE
<1>1. PICK t \in -1..MaxShutdowns, w \in SUBSET Shutdowns, x \in BOOLEAN : t = 0 /\ w = {} /\ x = FALSE
  <2>1. 0 \in -1..MaxShutdowns /\ {} \in SUBSET Shutdowns /\ FALSE \in BOOLEAN
    BY NumbersAssumption
  <2> QED
    BY <2>1
<1>2. s = [orch EXCEPT !.task = t, !.waiters = w, !.resume = x]
  BY <1>1
<1>a. orch \in Orchs
  BY DEF Typed, TypeOK
<1>3. s \in Orchs
  BY <1>a, <1>2 DEF Orchs
<1>4. s.phase = orch.phase /\ s.task = t /\ s.waiters = w
  BY <1>a, <1>2 DEF Orchs
<1>5. s.resume = x
  BY <1>a, <1>2 DEF Orchs
<1> QED
  BY <1>1, <1>3, <1>4, <1>5

LEMMA ServerOneTask == ASSUME Typed, OneTask, Server PROVE OneTask'
<1>a. orch \in Orchs /\ boot \in BootTasks /\ InBoot
  BY DEF Typed, TypeOK
<1>b. -1 \notin Shutdowns /\ 0 \notin Shutdowns
  BY NumbersAssumption DEF Shutdowns
<1>c. ASSUME NEW kind, Received(kind), mailbox' = Tail(mailbox) PROVE Unreported /\ mailbox # <<>>
  BY <1>c DEF Received, Unreported
<1>d. Running => orch.task = -1
  BY <1>a DEF Running, InBoot
<1>e. OneBoot /\ OneStopTask /\ NothingToADead
  BY DEF OneTask
<1>1. CASE HandleShutdown
  <2> DEFINE n == Head(mailbox).arg
  <2>1. n \in Shutdowns /\ Unreported /\ mailbox # <<>> /\ mailbox' = Tail(mailbox) /\ orch.phase # "down"
    BY <1>1, <1>c, ReceivedTyped, Parts DEF HandleShutdown, Received
  <2> HIDE DEF n
  <2>2. CASE orch' = [orch EXCEPT !.waiters = @ \cup {n}] /\ UNCHANGED <<boot, stops>>
    <3>1. orch'.phase = orch.phase /\ orch'.task = orch.task
      BY <1>a, <2>2 DEF Orchs
    <3> QED
      BY <1>e, <2>1, <2>2, <3>1, OneBootKept, OneStopTaskKept DEF OneTask, Running, NothingToADead
  <2>3. CASE /\ orch.phase = "booting" /\ orch' = [orch EXCEPT !.waiters = {n}, !.phase = "cancelling"]
             /\ boot' = [boot EXCEPT !.cancel = TRUE] /\ UNCHANGED stops
    <3>1. orch'.phase = "cancelling" /\ orch'.task = orch.task /\ boot'.at = boot.at
      BY <1>a, <2>3 DEF Orchs, BootTasks
    <3> QED
      BY <1>e, <2>1, <2>3, <3>1, OneBootKept, OneStopTaskKept DEF OneTask, Running, NothingToADead
  <2>4. CASE /\ ~(orch.phase \in {"stopping", "cancelling"} /\ orch.task # 0) /\ orch.phase # "booting"
             /\ BeginStop([orch EXCEPT !.waiters = {n}], n) /\ UNCHANGED boot
    <3>1. ~Running /\ orch.task \notin Shutdowns
      BY <1>b, <1>d, <1>e, <2>4 DEF Running, OneStopTask
    <3>2. [orch EXCEPT !.waiters = {n}] \in Orchs
      BY <1>a, <2>1 DEF Orchs
    <3>3. OneStopTask'
      BY <2>1, <2>4, <3>1, <3>2, StopBegins
    <3>4. OneBoot'
      BY <1>e, <2>1, <2>4, <3>1, OneBootKept DEF OneBoot
    <3>5. orch'.phase = "stopping"
      BY <2>4, <3>2 DEF BeginStop, Orchs
    <3> QED
      BY <3>3, <3>4, <3>5 DEF OneTask, NothingToADead
  <2> QED
    BY <1>1, <2>2, <2>3, <2>4 DEF HandleShutdown, n
<1>2. CASE HandleResume
  <2>1. Unreported /\ stops' = stops /\ orch.phase # "down"
    BY <1>2, <1>c DEF HandleResume, Received
  <2>2. CASE orch.phase = "stopping" /\ orch.task = 0 /\ BeginBoot(orch)
    <3>1. OneBoot' /\ orch'.task \notin Shutdowns /\ orch'.phase \in {"booting", "up"}
      BY <1>a, <1>b, <2>1, <2>2, BootBegins DEF Running
    <3>2. OneStopTask'
      BY <1>b, <2>1, <2>2, <3>1, NoStopBegins
    <3> QED
      BY <3>1, <3>2 DEF OneTask, NothingToADead
  <2>3. CASE orch' \in {orch, [orch EXCEPT !.resume = TRUE]} /\ boot' = boot
    <3>1. orch'.phase = orch.phase /\ orch'.task = orch.task
      BY <1>a, <2>3 DEF Orchs
    <3> QED
      BY <1>e, <2>1, <2>3, <3>1, OneBootKept, OneStopTaskKept DEF OneTask, Running, NothingToADead
  <2> QED
    BY <1>2, <2>2, <2>3 DEF HandleResume
<1>3. CASE HandleUp
  <2>1. Unreported /\ stops' = stops /\ orch.phase # "down" /\ orch' = orch /\ boot' = boot
    BY <1>3, <1>c DEF HandleUp, Received
  <2> QED
    BY <1>e, <2>1, OneBootKept, OneStopTaskKept DEF OneTask, Running, NothingToADead
<1>4. CASE HandleBootEnd
  <2>1. /\ mailbox # <<>> /\ mailbox' = Tail(mailbox) /\ boot' = boot
        /\ Head(mailbox).kind \in BootEnds
    BY <1>4, <1>c DEF HandleBootEnd, Received
  <2>2. Has(BootEnds) /\ ~Has(BootEnds)' /\ Running /\ boot.at = "idle"
    BY <1>e, <2>1, TailHas DEF OneBoot
  <2>3. ~Has({"crashed"})'
    BY <1>e, <2>1, TailHas DEF OneBoot
  <2>4. OneBoot'
    BY <2>1, <2>2, <2>3 DEF OneBoot, Once, Has
  <2>5. orch.task \notin Shutdowns
    BY <1>b, <1>d, <2>2
  <2>6. [orch EXCEPT !.task = 0] \in Orchs
    BY <1>a, NumbersAssumption DEF Orchs
  <2>7. CASE BeginStop([orch EXCEPT !.task = 0], Latest(orch.waiters)) /\ orch.phase = "cancelling"
    <3>1. Latest(orch.waiters) \in Shutdowns
      BY <1>a, <2>7, LatestWaits DEF InBoot, Orchs
    <3>2. orch'.phase = "stopping"
      BY <2>6, <2>7 DEF BeginStop, Orchs
    <3> QED
      BY <2>1, <2>4, <2>5, <2>6, <2>7, <3>1, <3>2, StopBegins DEF OneTask, NothingToADead
  <2>8. ASSUME NEW c, orch' = [[orch EXCEPT !.task = 0] EXCEPT !.phase = "up", !.complete = c],
               UNCHANGED stops
        PROVE OneTask'
    <3>1. orch'.task = 0 /\ orch'.phase = "up"
      BY <2>6, <2>8 DEF Orchs
    <3>2. OneStopTask'
      BY <1>b, <2>1, <2>5, <2>8, <3>1, NoStopBegins DEF Unreported
    <3> QED
      BY <2>4, <3>1, <3>2 DEF OneTask, NothingToADead
  <2> QED
    BY <1>4, <2>7, <2>8 DEF HandleBootEnd
<1>5. CASE HandleBootCrash
  <2>1. Has({"crashed"})
    BY <1>5, TailHas DEF HandleBootCrash, Received, Has, Places
  <2> QED
    BY <1>e, <2>1 DEF OneBoot
<1>6. CASE HandleStopEnd
  <2> DEFINE n == Head(mailbox).arg
             s == [orch EXCEPT !.task = 0, !.waiters = {}, !.resume = FALSE]
  <2>1. n \in Shutdowns /\ Unreported /\ mailbox # <<>> /\ mailbox' = Tail(mailbox) /\ stops' = stops
        /\ Head(mailbox).kind = "stopped"
    BY <1>6, <1>c, ReceivedTyped, Parts DEF HandleStopEnd, Received
  <2>2. 1 \in Places /\ mailbox[1] = Head(mailbox)
    BY <2>1, EmptySeq DEF Places, Typed, TypeOK
  <2>3. orch.task = n /\ stops[n].at = "done" /\ orch.phase = "stopping"
    BY <1>e, <2>1, <2>2 DEF OneStopTask, Reported
  <2>4. ~Has({"stopped"})' /\ \A m \in Shutdowns : ~AtWork(m)
    <3>1. ~Has({"stopped"})'
      BY <1>e, <2>1, TailHas DEF OneStopTask
    <3>2. ~AtWork(n)
      BY <2>3 DEF AtWork
    <3> QED
      BY <1>e, <2>3, <3>1, <3>2 DEF OneStopTask
  <2>5. s \in Orchs /\ s.task = 0 /\ s.phase = "stopping"
    BY <2>3, ServedIs
  <2>6. ASSUME orch'.task \notin Shutdowns PROVE OneStopTask'
    <3>1. Reported' /\ Once({"stopped"})'
      BY <2>4 DEF Reported, Has, Once
    <3> QED
      BY <2>1, <2>4, <2>6, <3>1 DEF OneStopTask, AtWork, Shutdowns
  <2>7. ~Running
    BY <2>3 DEF Running
  <2> HIDE DEF s
  <2>8. CASE BeginBoot(s)
    <3>1. OneBoot' /\ orch'.task \notin Shutdowns /\ orch'.phase \in {"booting", "up"}
      BY <1>b, <2>1, <2>5, <2>7, <2>8, BootBegins
    <3> QED
      BY <2>6, <3>1 DEF OneTask, NothingToADead
  <2>9. CASE orch' = s /\ UNCHANGED boot
    <3>1. OneBoot'
      BY <1>e, <2>1, <2>7, <2>9, OneBootKept DEF OneBoot
    <3> QED
      BY <1>b, <2>5, <2>6, <2>9, <3>1 DEF OneTask, NothingToADead
  <2> QED
    BY <1>6, <2>3, <2>8, <2>9 DEF HandleStopEnd, s
<1> QED
  BY <1>1, <1>2, <1>3, <1>4, <1>5, <1>6 DEF Server

LEMMA EndBootOneTask ==
  ASSUME Typed, OneTask, boot.at # "idle", NEW result \in BootEnds \ {"crashed"}, EndBoot(result),
         UNCHANGED <<orch, stops>>
  PROVE OneTask'
<1> DEFINE m == Message(result, 0)
<1>1. m \in Messages /\ m.kind = result /\ Send(m) /\ boot' = NoBoot
  BY MessageTyped DEF EndBoot, Message
<1>2. OneBoot /\ Running /\ ~Has(BootEnds) /\ ~Has({"crashed"}) /\ OneStopTask
  BY DEF OneTask, OneBoot
<1> HIDE DEF m
<1>3. OneBoot'
  <2>1. Once(BootEnds)' /\ ~Has({"crashed"})'
    BY <1>1, <1>2, SendHas DEF OneBoot
  <2> QED
    BY <1>1, <1>2, <2>1, NoBootTyped DEF OneBoot, Running
<1>4. OneStopTask'
  <2>1. orch.task \notin Shutdowns /\ result # "stopped"
    BY <1>2 DEF OneStopTask, Running, BootEnds
  <2>2. (\A n \in Shutdowns : ~AtWork(n)) /\ ~Has({"stopped"})
    BY <2>1, FreeIs
  <2>3. ~Has({"stopped"})'
    BY <1>1, <2>1, <2>2, SendHas
  <2>4. Reported' /\ Once({"stopped"})'
    BY <2>3 DEF Reported, Has, Once
  <2> QED
    BY <2>1, <2>2, <2>3, <2>4 DEF OneStopTask, AtWork, Shutdowns
<1> QED
  BY <1>2, <1>3, <1>4 DEF OneTask, NothingToADead, Running

LEMMA BootTaskOneTask == ASSUME Typed, OneTask, BootTask PROVE OneTask'
<1>1. boot.at # "idle" /\ UNCHANGED <<orch, stops>>
  BY DEF BootTask, Cancelled, InstallNative, Decide, PutOff, EnterGate, Gate, InstallContainers, Stage,
         PastBoundary, Awaited, AwaitPrimary, Primary, PushComplete
<1>2. CASE mailbox' = mailbox
  BY <1>1, <1>2, OneBootKept, OneStopTaskKept DEF OneTask, NothingToADead, Unreported, Running
<1>3. CASE \E result \in BootEnds \ {"crashed"} : EndBoot(result)
  BY <1>1, <1>3, EndBootOneTask
<1>4. mailbox' = mailbox \/ \E result \in BootEnds \ {"crashed"} : EndBoot(result)
  <2>1. CASE Cancelled \/ PushComplete
    BY <2>1 DEF Cancelled, PushComplete, BootEnds
  <2>2. CASE Gate
    BY <2>2 DEF Gate, BootEnds
  <2>3. CASE InstallNative \/ Decide \/ PutOff \/ EnterGate \/ InstallContainers \/ Stage
             \/ Awaited \/ AwaitPrimary \/ Primary
    BY <2>3 DEF InstallNative, Decide, PutOff, EnterGate, InstallContainers, Stage, Awaited,
                AwaitPrimary, Primary
  <2> QED
    BY <2>1, <2>2, <2>3 DEF BootTask
<1> QED
  BY <1>2, <1>3, <1>4

LEMMA StopStepOneTask == ASSUME Typed, OneTask, StopStep PROVE OneTask'
<1>a. OneBoot /\ OneStopTask /\ NothingToADead /\ stops \in [Shutdowns -> StopTasks]
  BY DEF OneTask, Typed, TypeOK
<1>b. PICK n \in Shutdowns : StopApps(n) \/ StopCore(n) \/ StopEarlier(n)
  BY DEF StopStep
<1>1. AtWork(n) /\ orch' = orch /\ boot' = boot
  BY <1>b DEF StopApps, StopCore, StopEarlier, AtWork
<1>2. orch.task = n /\ orch.phase = "stopping" /\ ~Has({"stopped"}) /\ \A m \in Shutdowns \ {n} : ~AtWork(m)
  BY <1>a, <1>1 DEF OneStopTask
<1>3. \E x : stops' = [stops EXCEPT ![n] = x]
  BY <1>b DEF StopApps, StopCore, StopEarlier, HaltGroup
<1>4. \A m \in Shutdowns \ {n} : ~AtWork(m)'
  BY <1>a, <1>2, <1>3 DEF AtWork
<1>5. CASE mailbox' = mailbox
  <2>1. OneBoot'
    BY <1>a, <1>1, <1>5, OneBootKept DEF Unreported, Running
  <2>2. ~Has({"stopped"})'
    BY <1>2, <1>5 DEF Has, Places
  <2>3. Reported' /\ Once({"stopped"})'
    BY <2>2 DEF Reported, Has, Once
  <2> QED
    BY <1>1, <1>2, <1>4, <2>1, <2>2, <2>3 DEF OneTask, OneStopTask, NothingToADead, Shutdowns
<1>6. CASE StopEarlier(n) /\ Send(Message("stopped", n))
  <2> DEFINE m == Message("stopped", n)
  <2>1. m \in Messages /\ m.kind = "stopped" /\ m.arg = n /\ Send(m)
    BY <1>6, MessageTyped DEF Message
  <2> HIDE DEF m
  <2>2. stops'[n].at = "done"
    <3>1. PICK x : stops' = [stops EXCEPT ![n] = [at |-> "done", ok |-> x]]
      BY <1>6 DEF StopEarlier, HaltGroup
    <3> QED
      BY <1>a, <3>1
  <2>3. OneBoot'
    <3>1. Has(BootEnds)' <=> Has(BootEnds)
      BY <2>1, SendHas DEF BootEnds
    <3>2. Once(BootEnds)' /\ ~Has({"crashed"})'
      BY <1>a, <2>1, SendHas DEF OneBoot, BootEnds
    <3> QED
      BY <1>a, <1>1, <3>1, <3>2 DEF OneBoot, Running
  <2>4. Once({"stopped"})'
    BY <1>2, <2>1, SendHas DEF Has, Once
  <2>5. Reported'
    <3> SUFFICES ASSUME NEW i \in Places', mailbox'[i].kind = "stopped"
                 PROVE orch'.task = mailbox'[i].arg /\ stops'[mailbox'[i].arg].at = "done"
      BY DEF Reported
    <3>1. mailbox'[i] = m
      BY <1>2, <2>1, SendPlaces DEF Has
    <3> QED
      BY <1>1, <1>2, <2>1, <2>2, <3>1
  <2>6. ~AtWork(n)'
    BY <2>2 DEF AtWork
  <2> QED
    BY <1>1, <1>2, <1>4, <2>3, <2>4, <2>5, <2>6 DEF OneTask, OneStopTask, NothingToADead, Shutdowns
<1> QED
  BY <1>b, <1>2, <1>5, <1>6 DEF StopApps, StopCore, StopEarlier

LEMMA NextOneTask == ~Crashes /\ Typed /\ OneTask /\ [Next]_vars => OneTask'
<1> SUFFICES ASSUME ~Crashes, Typed, OneTask, [Next]_vars PROVE OneTask'
  OBVIOUS
<1>a. OneBoot /\ OneStopTask /\ NothingToADead /\ orch \in Orchs
  BY DEF OneTask, Typed, TypeOK
<1>b. ASSUME Unreported, UNCHANGED <<orch, boot, stops>>, orch.phase = "down" => mailbox' = mailbox
      PROVE OneTask'
  BY <1>a, <1>b, OneBootKept, OneStopTaskKept DEF OneTask, NothingToADead, Running
<1>1. CASE Start
  <2>1. orch.phase = "down" /\ stops' = stops /\ Unreported
    BY <1>1 DEF Start, Unreported
  <2>2. orch.task \notin Shutdowns /\ ~Running
    BY <1>a, <2>1 DEF OneStopTask, Running
  <2>3. Down \in Orchs /\ Down.task \notin Shutdowns
    BY DownTyped, NumbersAssumption DEF Down, Shutdowns
  <2>4. CASE orch' = [Down EXCEPT !.phase = "stopping"] /\ UNCHANGED boot
    <3>1. orch'.phase = "stopping" /\ orch'.task \notin Shutdowns
      BY <2>3, <2>4 DEF Orchs
    <3>2. OneBoot'
      BY <1>a, <2>1, <2>2, <2>4, OneBootKept
    <3> QED
      BY <2>1, <2>2, <3>1, <3>2, NoStopBegins DEF OneTask, NothingToADead
  <2>5. CASE BeginBoot(Down)
    <3>1. OneBoot' /\ orch'.task \notin Shutdowns /\ orch'.phase \in {"booting", "up"}
      BY <2>1, <2>2, <2>3, <2>5, BootBegins
    <3> QED
      BY <2>1, <2>2, <3>1, NoStopBegins DEF OneTask, NothingToADead
  <2> QED
    BY <1>1, <2>4, <2>5 DEF Start
<1>2. CASE Crash \/ BootCrashes \/ \E n \in Shutdowns : StopCrashes(n)
  BY <1>2 DEF Crash, BootCrashes, StopCrashes
<1>3. CASE UnitStep
  BY <1>3, <1>b DEF UnitStep, UnitCalls, UnitReturns, InstallFails, CoreLocks, CoreStarted, Unreported
<1>4. CASE Host
  <2>1. UNCHANGED <<orch, boot, stops>>
    BY <1>4 DEF Host, RaiseFlag, AskShutdown, GiveUp, RuntimeFails, Resume
  <2>2. CASE mailbox' = mailbox
    BY <1>b, <2>1, <2>2 DEF Unreported
  <2>3. CASE orch.phase # "down" /\ AskShutdown /\ Send(Message("shutdown", host.n))
    <3>1. host.n \in Shutdowns
      BY <2>3, NumbersAssumption DEF AskShutdown, Shutdowns, Typed, TypeOK, Asked
    <3>2. Message("shutdown", host.n) \in Messages
      BY <3>1, MessageTyped
    <3>3. Message("shutdown", host.n).kind \notin BootEnds \cup {"stopped"}
      BY DEF Message, BootEnds
    <3> QED
      BY <1>b, <2>1, <2>3, <3>2, <3>3 DEF Unreported
  <2>4. CASE orch.phase # "down" /\ Send(Message("resume", 0))
    <3>1. Message("resume", 0) \in Messages
      BY MessageTyped
    <3>2. Message("resume", 0).kind \notin BootEnds \cup {"stopped"}
      BY DEF Message, BootEnds
    <3> QED
      BY <1>b, <2>1, <2>4, <3>1, <3>2 DEF Unreported
  <2> QED
    BY <1>4, <2>2, <2>3, <2>4 DEF Host, RaiseFlag, AskShutdown, GiveUp, RuntimeFails, Resume
<1>5. ASSUME NEW a \in Apps, AppRestarts(a) PROVE OneTask'
  <2>1. Message("up", a) \in Messages /\ Send(Message("up", a)) /\ orch.phase # "down"
        /\ UNCHANGED <<orch, boot, stops>>
    BY <1>5, MessageTyped DEF AppRestarts
  <2>2. Message("up", a).kind \notin BootEnds \cup {"stopped"}
    BY DEF Message, BootEnds
  <2> QED
    BY <1>b, <2>1, <2>2 DEF Unreported
<1>6. CASE UNCHANGED vars
  BY <1>b, <1>6 DEF vars, Unreported
<1> QED
  BY <1>1, <1>2, <1>3, <1>4, <1>5, <1>6, ServerOneTask, BootTaskOneTask, StopStepOneTask DEF Next

LEMMA InitOneTask == Init => OneTask
<1> SUFFICES ASSUME Init PROVE OneTask
  OBVIOUS
<1>1. Places = {} /\ boot.at = "idle"
  BY NoBootTyped DEF Init, Places
<1>2. \A n \in Shutdowns : ~AtWork(n)
  BY DEF Init, AtWork, NoStop
<1>3. orch.task \notin Shutdowns
  BY NumbersAssumption DEF Init, Down, Shutdowns
<1> QED
  BY <1>1, <1>2, <1>3 DEF Init, OneTask, OneBoot, OneStopTask, NothingToADead, Has, Once, Reported

-----------------------------------------------------------------------------
(* Core under a shutdown.  While the host waits a stop out, it has one     *)
(* call open at most: a waiter or a request in the mailbox, with no resume *)
(* behind it; and a caller told ok was told so by a server that has        *)
(* nothing under way.                                                      *)
Busy == orch.phase = "cancelling" \/ (orch.phase = "stopping" /\ orch.task # 0)
ToldOk == host.st = "runtime" /\ host.ok
Numbered == \A i \in Places : mailbox[i].kind = "shutdown" => mailbox[i].arg = host.n
ResumesFirst ==
    \A i, j \in Places : mailbox[i].kind = "resume" /\ mailbox[j].kind = "shutdown" => i < j

OneCall ==
    /\ ~orch.resume
    /\ host.st \in {"asking", "calling"} => ~host.ok
    /\ Has({"shutdown"}) => host.st = "calling" /\ orch.waiters = {}
    /\ Once({"shutdown"}) /\ Numbered /\ ResumesFirst
    /\ orch.waiters # {} => host.st = "calling" /\ orch.waiters = {host.n}
    /\ Busy => orch.waiters # {}
    /\ Has({"resume"}) => host.st \in {"idle", "asking"} \/ Has({"shutdown"})
    /\ ToldOk => orch.phase = "stopping" /\ orch.task = 0

(* Core is started by the boot task that waits for it, and by nothing      *)
(* else; the stop that is through with Core has left it down.              *)
CoreHalted(n) == orch.task = n /\ stops[n].ok /\ stops[n].at \in {"earlier", "done"}
CoreStays ==
    /\ core.locked => CoreUnit \in units
    /\ CoreUnit \in units => boot.at = "awaiting" /\ CoreUnit \in boot.awaited
    /\ \A n \in Shutdowns : CoreHalted(n) => ~core.up
    /\ CoreDownOnceAnswered

LEMMA TailCalls ==
  ASSUME Typed, mailbox # <<>>, mailbox' = Tail(mailbox), Numbered, ResumesFirst, host'.n = host.n
  PROVE Numbered' /\ ResumesFirst'
<1>1. \A i \in Places' : i + 1 \in Places /\ i \in Nat /\ mailbox'[i] = mailbox[i + 1]
  BY TailPlaces
<1>2. Numbered'
  BY <1>1 DEF Numbered
<1>3. ASSUME NEW i \in Places', NEW j \in Places', mailbox'[i].kind = "resume", mailbox'[j].kind = "shutdown"
      PROVE i < j
  <2>1. i + 1 < j + 1 /\ i \in Nat /\ j \in Nat
    BY <1>1, <1>3 DEF ResumesFirst
  <2> QED
    BY <2>1
<1> QED
  BY <1>2, <1>3 DEF ResumesFirst

LEMMA SendCalls ==
  ASSUME Typed, NEW m \in Messages, Send(m), Numbered, ResumesFirst, host'.n = host.n,
         m.kind = "shutdown" => m.arg = host.n, m.kind = "resume" => ~Has({"shutdown"})
  PROVE Numbered' /\ ResumesFirst'
<1>1. \A i \in Places' : \/ i \in Places /\ mailbox'[i] = mailbox[i]
                         \/ i = Len(mailbox) + 1 /\ mailbox'[i] = m
  BY SendPlaces
<1>2. Numbered'
  BY <1>1 DEF Numbered
<1>3. ASSUME NEW i \in Places', NEW j \in Places', mailbox'[i].kind = "resume", mailbox'[j].kind = "shutdown"
      PROVE i < j
  <2>1. CASE m.kind = "resume"
    BY <1>1, <1>3, <2>1 DEF Has
  <2>2. CASE m.kind # "resume"
    <3>1. i \in Places /\ mailbox[i].kind = "resume"
      BY <1>1, <1>3, <2>2
    <3>2. CASE j \in Places /\ mailbox'[j] = mailbox[j]
      BY <1>3, <3>1, <3>2 DEF ResumesFirst
    <3>3. CASE j = Len(mailbox) + 1
      <4>1. Len(mailbox) \in Nat
        BY DEF Typed, TypeOK
      <4> QED
        BY <3>1, <3>3, <4>1 DEF Places
    <3> QED
      BY <1>1, <3>2, <3>3
  <2> QED
    BY <2>1, <2>2
<1> QED
  BY <1>2, <1>3 DEF ResumesFirst

(* What neither asks for a shutdown nor calls one off.                     *)
Uncalled ==
    \/ mailbox' = mailbox
    \/ /\ mailbox # <<>> /\ mailbox' = Tail(mailbox)
       /\ Head(mailbox).kind \notin {"shutdown", "resume"}
    \/ \E m \in Messages : Send(m) /\ m.kind \notin {"shutdown", "resume"}

LEMMA NothingCalled ==
  ASSUME Typed, Uncalled, Numbered, ResumesFirst, host'.n = host.n
  PROVE /\ Has({"shutdown"})' <=> Has({"shutdown"})
        /\ Has({"resume"})' <=> Has({"resume"})
        /\ Once({"shutdown"}) => Once({"shutdown"})'
        /\ Numbered' /\ ResumesFirst'
<1>1. CASE mailbox' = mailbox
  BY <1>1 DEF Has, Once, Places, Numbered, ResumesFirst
<1>2. CASE /\ mailbox # <<>> /\ mailbox' = Tail(mailbox)
           /\ Head(mailbox).kind \notin {"shutdown", "resume"}
  BY <1>2, TailHas, TailCalls
<1>3. CASE \E m \in Messages : Send(m) /\ m.kind \notin {"shutdown", "resume"}
  BY <1>3, SendHas, SendCalls
<1> QED
  BY <1>1, <1>2, <1>3 DEF Uncalled

LEMMA OneCallKept ==
  ASSUME Typed, OneCall, Uncalled, host' = host,
         orch'.waiters = orch.waiters, orch'.resume = orch.resume, Busy' => Busy,
         ToldOk => orch'.phase = "stopping" /\ orch'.task = 0
  PROVE OneCall'
<1>1. /\ Has({"shutdown"})' <=> Has({"shutdown"})
      /\ Has({"resume"})' <=> Has({"resume"})
      /\ Once({"shutdown"})' /\ Numbered' /\ ResumesFirst'
  BY NothingCalled DEF OneCall
<1> QED
  BY <1>1 DEF OneCall, ToldOk

LEMMA NotRunning ==
  ASSUME Typed, OneTask, OneCall, Running
  PROVE ~ToldOk /\ orch.task \notin Shutdowns
BY DEF OneTask, OneStopTask, OneCall, Running

LEMMA BeginBootIs ==
  ASSUME NEW s \in Orchs, BeginBoot(s)
  PROVE /\ orch'.waiters = s.waiters /\ orch'.resume = s.resume /\ orch'.phase \in {"booting", "up"}
        /\ boot' = RunBoot \/ boot' = boot
        /\ orch'.task \in {-1, s.task}
<1>1. CASE orch' = [s EXCEPT !.phase = "booting", !.task = -1] /\ boot' = RunBoot
  BY <1>1 DEF Orchs
<1>2. CASE orch' = [s EXCEPT !.phase = "up"] /\ boot' = boot
  BY <1>2 DEF Orchs
<1> QED
  BY <1>1, <1>2 DEF BeginBoot

LEMMA BeginStopIs ==
  ASSUME NEW s \in Orchs, NEW n \in Shutdowns, BeginStop(s, n)
  PROVE /\ orch'.waiters = s.waiters /\ orch'.resume = s.resume
        /\ orch'.phase = "stopping" /\ orch'.task = n
BY DEF BeginStop, Orchs

LEMMA ServerOneCall == ASSUME Typed, OneTask, OneCall, Server PROVE OneCall'
<1>a. orch \in Orchs /\ boot \in BootTasks /\ InBoot /\ 0 \notin Shutdowns
  BY NumbersAssumption DEF Typed, TypeOK, Shutdowns
<1>b. Running => orch.task = -1
  BY <1>a DEF Running, InBoot
<1>1. CASE HandleShutdown
  <2> DEFINE n == Head(mailbox).arg
  <2>1. n \in Shutdowns /\ mailbox # <<>> /\ mailbox' = Tail(mailbox) /\ Head(mailbox).kind = "shutdown"
        /\ host' = host
    BY <1>1, ReceivedTyped, Parts DEF HandleShutdown, Received
  <2>2. 1 \in Places /\ mailbox[1] = Head(mailbox)
    BY <2>1, EmptySeq DEF Places, Typed, TypeOK
  <2>3. n = host.n /\ host.st = "calling" /\ orch.waiters = {} /\ ~Busy
    BY <2>1, <2>2 DEF OneCall, Has, Numbered
  <2>4. ~Has({"shutdown"})' /\ Once({"shutdown"})' /\ Numbered' /\ ResumesFirst'
    BY <2>1, TailHas, TailCalls DEF OneCall
  <2>5. ~Has({"resume"})'
    <3> SUFFICES ASSUME NEW i \in Places', mailbox'[i].kind = "resume" PROVE FALSE
      BY DEF Has
    <3>1. i + 1 \in Places /\ i \in Nat /\ i # 0 /\ mailbox[i + 1].kind = "resume"
      BY <2>1, TailPlaces
    <3>2. i + 1 < 1
      BY <2>1, <2>2, <3>1 DEF OneCall, ResumesFirst
    <3> QED
      BY <3>1, <3>2
  <2> HIDE DEF n
  <2>6. orch'.waiters = {n} /\ ~orch'.resume
    <3>1. CASE orch.phase = "booting" /\ orch' = [orch EXCEPT !.waiters = {n}, !.phase = "cancelling"]
      BY <1>a, <3>1 DEF Orchs, OneCall
    <3>2. CASE BeginStop([orch EXCEPT !.waiters = {n}], n)
      <4>1. [orch EXCEPT !.waiters = {n}] \in Orchs
        BY <1>a, <2>1 DEF Orchs
      <4> QED
        BY <1>a, <2>1, <3>2, <4>1, BeginStopIs DEF Orchs, OneCall
    <3> QED
      BY <1>1, <1>b, <2>3, <3>1, <3>2 DEF HandleShutdown, Busy, n
  <2> QED
    BY <2>1, <2>3, <2>4, <2>5, <2>6 DEF OneCall, ToldOk
<1>2. CASE HandleResume
  <2>1. mailbox # <<>> /\ mailbox' = Tail(mailbox) /\ Head(mailbox).kind = "resume" /\ host' = host
    BY <1>2 DEF HandleResume, Received
  <2>2. /\ Has({"resume"}) /\ (Has({"resume"})' => Has({"resume"}))
        /\ Has({"shutdown"})' <=> Has({"shutdown"})
        /\ Once({"shutdown"})' /\ Numbered' /\ ResumesFirst'
    BY <2>1, TailHas, TailCalls DEF OneCall
  <2>3. ~ToldOk /\ ~Busy
    BY <2>2 DEF OneCall, ToldOk
  <2>4. orch'.waiters = orch.waiters /\ ~orch'.resume /\ ~Busy'
    <3>1. CASE BeginBoot(orch)
      BY <1>a, <3>1, BeginBootIs DEF OneCall, Busy
    <3>2. CASE orch' = orch
      BY <2>3, <3>2 DEF OneCall, Busy
    <3> QED
      BY <1>2, <2>3, <3>1, <3>2 DEF HandleResume, Busy
  <2> QED
    BY <2>1, <2>2, <2>3, <2>4 DEF OneCall, ToldOk
<1>3. CASE HandleUp
  BY <1>3, OneCallKept DEF HandleUp, Received, Uncalled, Busy, OneCall
<1>4. CASE HandleBootEnd
  <2>1. Uncalled /\ host' = host /\ Running
    <3>1. mailbox # <<>> /\ mailbox' = Tail(mailbox) /\ host' = host /\ Head(mailbox).kind \in BootEnds
      BY <1>4 DEF HandleBootEnd, Received
    <3>2. Has(BootEnds)
      BY <3>1, TailHas
    <3> QED
      BY <3>1, <3>2 DEF Uncalled, BootEnds, OneTask, OneBoot
  <2>2. ~ToldOk
    BY <2>1, NotRunning
  <2>3. [orch EXCEPT !.task = 0] \in Orchs
    BY <1>a, NumbersAssumption DEF Orchs
  <2>4. orch'.waiters = orch.waiters /\ orch'.resume = orch.resume /\ (Busy' => Busy)
    <3>1. CASE orch.phase = "cancelling" /\ BeginStop([orch EXCEPT !.task = 0], Latest(orch.waiters))
      <4>1. Latest(orch.waiters) \in Shutdowns
        BY <1>a, <3>1, LatestWaits DEF InBoot, Orchs
      <4> QED
        BY <1>a, <2>3, <3>1, <4>1, BeginStopIs DEF Orchs, Busy
    <3>2. ASSUME NEW c, orch' = [[orch EXCEPT !.task = 0] EXCEPT !.phase = "up", !.complete = c]
          PROVE orch'.waiters = orch.waiters /\ orch'.resume = orch.resume /\ ~Busy'
      BY <1>a, <3>2 DEF Orchs, Busy
    <3> QED
      BY <1>4, <3>1, <3>2 DEF HandleBootEnd
  <2> QED
    BY <2>1, <2>2, <2>4, OneCallKept
<1>5. CASE HandleBootCrash
  <2>1. Has({"crashed"})
    BY <1>5, TailHas DEF HandleBootCrash, Received, Has, Places, GoDown
  <2> QED
    BY <2>1 DEF OneTask, OneBoot
<1>6. CASE HandleStopEnd
  <2> DEFINE n == Head(mailbox).arg
             s == [orch EXCEPT !.task = 0, !.waiters = {}, !.resume = FALSE]
  <2>1. n \in Shutdowns /\ mailbox # <<>> /\ mailbox' = Tail(mailbox) /\ Head(mailbox).kind = "stopped"
    BY <1>6, ReceivedTyped, Parts DEF HandleStopEnd, Received
  <2>2. 1 \in Places /\ mailbox[1] = Head(mailbox)
    BY <2>1, EmptySeq DEF Places, Typed, TypeOK
  <2>3. orch.task = n /\ orch.phase = "stopping" /\ Busy
    BY <1>a, <2>1, <2>2 DEF OneTask, OneStopTask, Reported, Busy
  <2>4. host.st = "calling" /\ orch.waiters = {host.n} /\ ~Has({"shutdown"}) /\ ~Has({"resume"})
    BY <2>3 DEF OneCall
  <2>5. /\ ~Has({"shutdown"})' /\ ~Has({"resume"})'
        /\ Once({"shutdown"})' /\ Numbered' /\ ResumesFirst'
    <3>1. host'.n = host.n
      BY <1>6 DEF HandleStopEnd, Typed, TypeOK
    <3> QED
      BY <2>1, <2>4, <3>1, TailHas, TailCalls DEF OneCall
  <2>6. host'.st = "runtime"
    BY <1>6, <2>3, <2>4 DEF HandleStopEnd, Typed, TypeOK
  <2>7. s \in Orchs /\ s.phase = "stopping" /\ s.task = 0 /\ s.waiters = {} /\ s.resume = FALSE
    BY <2>3, ServedIs
  <2> HIDE DEF s
  <2>8. orch' = s
    BY <1>6, <2>3 DEF HandleStopEnd, OneCall, s
  <2> QED
    BY <2>5, <2>6, <2>7, <2>8 DEF OneCall, Busy, ToldOk
<1> QED
  BY <1>1, <1>2, <1>3, <1>4, <1>5, <1>6 DEF Server

LEMMA NextOneCall ==
  ~Crashes /\ ~BudgetRunsOut /\ Typed /\ OneTask /\ OneCall /\ [Next]_vars => OneCall'
<1> SUFFICES ASSUME ~Crashes, ~BudgetRunsOut, Typed, OneTask, OneCall, [Next]_vars PROVE OneCall'
  OBVIOUS
<1>a. orch \in Orchs /\ host.n \in 0..MaxShutdowns
  BY DEF Typed, TypeOK
<1>b. ASSUME Uncalled, UNCHANGED <<orch, host>> PROVE OneCall'
  BY <1>b, OneCallKept DEF OneCall, Busy
<1>c. orch.phase = "down" => mailbox = <<>> /\ ~Has({"shutdown"}) /\ ~Has({"resume"})
  BY DEF OneTask, NothingToADead, Has, Places
<1>1. CASE Start
  <2>1. orch.phase = "down" /\ Uncalled /\ host' = host
    BY <1>1 DEF Start, Uncalled
  <2>2. orch'.waiters = {} /\ ~orch'.resume /\ ~Busy'
    <3>1. Down \in Orchs /\ Down.waiters = {} /\ Down.resume = FALSE /\ Down.task = 0
      BY DownTyped DEF Down
    <3>2. CASE orch' = [Down EXCEPT !.phase = "stopping"]
      BY <3>1, <3>2 DEF Orchs, Busy
    <3>3. CASE BeginBoot(Down)
      BY <3>1, <3>3, BeginBootIs DEF Busy
    <3> QED
      BY <1>1, <3>2, <3>3 DEF Start
  <2>3. ~ToldOk /\ mailbox' = mailbox /\ mailbox = <<>>
    BY <1>1, <1>c, <2>1 DEF Start, OneCall
  <2>4. Once({"shutdown"})' /\ Numbered' /\ ResumesFirst' /\ ~Has({"shutdown"})' /\ ~Has({"resume"})'
    BY <2>3 DEF Once, Numbered, ResumesFirst, Has, Places
  <2> QED
    BY <2>1, <2>2, <2>3, <2>4 DEF OneCall, ToldOk
<1>2. CASE Crash \/ BootCrashes \/ \E n \in Shutdowns : StopCrashes(n)
  BY <1>2 DEF Crash, BootCrashes, StopCrashes
<1>3. CASE UnitStep
  BY <1>3, <1>b DEF UnitStep, UnitCalls, UnitReturns, InstallFails, CoreLocks, CoreStarted, Uncalled
<1>4. CASE BootTask
  <2>1. UNCHANGED <<orch, host>>
    BY <1>4 DEF BootTask, Cancelled, InstallNative, Decide, PutOff, EnterGate, Gate,
                InstallContainers, Stage, PastBoundary, Awaited, AwaitPrimary, Primary, PushComplete
  <2>2. mailbox' = mailbox \/ \E result \in BootEnds : EndBoot(result)
    <3>1. CASE Cancelled \/ PushComplete \/ Gate
      BY <3>1 DEF Cancelled, PushComplete, Gate, BootEnds
    <3>2. CASE InstallNative \/ Decide \/ PutOff \/ EnterGate \/ InstallContainers \/ Stage
               \/ Awaited \/ AwaitPrimary \/ Primary
      BY <3>2 DEF InstallNative, Decide, PutOff, EnterGate, InstallContainers, Stage, Awaited,
                  AwaitPrimary, Primary
    <3> QED
      BY <1>4, <3>1, <3>2 DEF BootTask
  <2>3. \A result \in BootEnds : EndBoot(result) => Uncalled
    <3> SUFFICES ASSUME NEW result \in BootEnds, EndBoot(result) PROVE Uncalled
      OBVIOUS
    <3>1. Message(result, 0) \in Messages /\ Send(Message(result, 0))
      BY MessageTyped DEF EndBoot
    <3>2. Message(result, 0).kind \notin {"shutdown", "resume"}
      BY DEF Message, BootEnds
    <3> QED
      BY <3>1, <3>2 DEF Uncalled
  <2> QED
    BY <1>b, <2>1, <2>2, <2>3 DEF Uncalled
<1>5. CASE StopStep
  <2>1. PICK n \in Shutdowns : StopApps(n) \/ StopCore(n) \/ StopEarlier(n)
    BY <1>5 DEF StopStep
  <2>2. UNCHANGED <<orch, host>> /\ (mailbox' = mailbox \/ Send(Message("stopped", n)))
    BY <2>1 DEF StopApps, StopCore, StopEarlier
  <2>3. Message("stopped", n) \in Messages
    BY MessageTyped
  <2>4. Message("stopped", n).kind \notin {"shutdown", "resume"}
    BY DEF Message
  <2> QED
    BY <1>b, <2>2, <2>3, <2>4 DEF Uncalled
<1>6. ASSUME NEW a \in Apps, AppRestarts(a) PROVE OneCall'
  <2>1. UNCHANGED <<orch, host>> /\ Send(Message("up", a)) /\ Message("up", a) \in Messages
    BY <1>6, MessageTyped DEF AppRestarts
  <2>2. Message("up", a).kind \notin {"shutdown", "resume"}
    BY DEF Message
  <2> QED
    BY <1>b, <2>1, <2>2 DEF Uncalled
<1>7. CASE RaiseFlag
  <2>1. mailbox' = mailbox /\ orch' = orch /\ host'.st = "asking" /\ ~host'.ok /\ host.st = "idle"
    BY <1>7 DEF RaiseFlag
  <2>2. /\ Has({"shutdown"})' <=> Has({"shutdown"})
        /\ Once({"shutdown"})' /\ ResumesFirst' /\ ~Has({"shutdown"})
    BY <2>1 DEF OneCall, Has, Once, ResumesFirst, Places
  <2>3. Numbered'
    BY <2>2 DEF Numbered, Has
  <2> QED
    BY <2>1, <2>2, <2>3 DEF OneCall, Busy, ToldOk
<1>8. CASE AskShutdown
  <2>1. CASE orch.phase = "down"
    <3>1. mailbox' = mailbox /\ orch' = orch /\ host'.st = "runtime" /\ host'.ok = host.ok
          /\ host'.n = host.n /\ host.st = "asking"
      BY <1>8, <2>1 DEF AskShutdown, Typed, TypeOK
    <3>2. ~host.ok /\ orch.waiters = {}
      BY <3>1 DEF OneCall
    <3>3. ~Has({"shutdown"})' /\ ~Has({"resume"})' /\ Once({"shutdown"})' /\ Numbered' /\ ResumesFirst'
      BY <1>c, <2>1, <3>1 DEF Has, Once, Numbered, ResumesFirst, Places
    <3> QED
      BY <3>1, <3>2, <3>3 DEF OneCall, Busy, ToldOk
  <2>2. CASE orch.phase # "down"
    <3> DEFINE m == Message("shutdown", host.n)
    <3>1. Send(m) /\ orch' = orch /\ host'.st = "calling" /\ host'.ok = host.ok
          /\ host'.n = host.n /\ host.st = "asking"
      BY <1>8, <2>2 DEF AskShutdown, Typed, TypeOK
    <3>2. m \in Messages /\ m.kind = "shutdown" /\ m.arg = host.n
      <4>1. host.n \in Shutdowns
        BY <1>a, <3>1, NumbersAssumption DEF Shutdowns, Typed, Asked
      <4> QED
        BY <4>1, MessageTyped DEF Message
    <3> HIDE DEF m
    <3>3. ~Has({"shutdown"}) /\ orch.waiters = {}
      BY <3>1 DEF OneCall
    <3>4. Has({"shutdown"})' /\ Once({"shutdown"})' /\ Numbered' /\ ResumesFirst'
      <4>1. Once({"shutdown"}) /\ Numbered /\ ResumesFirst
        BY DEF OneCall
      <4>2. Has({"shutdown"})' /\ Once({"shutdown"})'
        BY <3>1, <3>2, <3>3, <4>1, SendHas
      <4> QED
        BY <3>1, <3>2, <3>3, <4>1, <4>2, SendCalls
    <3> QED
      BY <3>1, <3>3, <3>4 DEF OneCall, Busy, ToldOk
  <2> QED
    BY <2>1, <2>2
<1>9. CASE RuntimeFails
  <2>1. mailbox' = mailbox /\ orch' = orch /\ host'.st = "resuming" /\ ~host'.ok
        /\ host'.n = host.n /\ host.st = "runtime"
    BY <1>9 DEF RuntimeFails, Typed, TypeOK
  <2>2. /\ Has({"shutdown"})' <=> Has({"shutdown"})
        /\ Has({"resume"})' <=> Has({"resume"})
        /\ Once({"shutdown"})' /\ Numbered' /\ ResumesFirst'
    BY <2>1 DEF OneCall, Has, Once, Numbered, ResumesFirst, Places
  <2> QED
    BY <2>1, <2>2 DEF OneCall, Busy, ToldOk
<1>10. CASE Resume
  <2>1. orch' = orch /\ host'.st = "idle" /\ host'.ok = host.ok /\ host'.n = host.n /\ host.st = "resuming"
        /\ (mailbox' = mailbox \/ Send(Message("resume", 0)))
    BY <1>10 DEF Resume, Typed, TypeOK
  <2>2. ~Has({"shutdown"}) /\ orch.waiters = {} /\ Once({"shutdown"}) /\ Numbered /\ ResumesFirst
    BY <2>1 DEF OneCall
  <2>3. ~Has({"shutdown"})' /\ Once({"shutdown"})' /\ Numbered' /\ ResumesFirst'
    <3>1. CASE mailbox' = mailbox
      BY <2>1, <2>2, <3>1 DEF Has, Once, Numbered, ResumesFirst, Places
    <3>2. CASE Send(Message("resume", 0))
      <4> DEFINE m == Message("resume", 0)
      <4>1. m \in Messages /\ m.kind = "resume" /\ Send(m)
        BY <3>2, MessageTyped DEF Message
      <4> HIDE DEF m
      <4> QED
        BY <2>1, <2>2, <4>1, SendHas, SendCalls
    <3> QED
      BY <2>1, <3>1, <3>2
  <2> QED
    BY <2>1, <2>2, <2>3 DEF OneCall, Busy, ToldOk
<1>11. CASE GiveUp
  BY <1>11 DEF GiveUp
<1>12. CASE UNCHANGED vars
  BY <1>b, <1>12 DEF vars, Uncalled
<1> QED
  BY <1>1, <1>2, <1>3, <1>4, <1>5, <1>6, <1>7, <1>8, <1>9, <1>10, <1>11, <1>12, ServerOneCall DEF Next, Host

-----------------------------------------------------------------------------
LEMMA CoreStaysKept ==
  ASSUME CoreStays, core' = core, CoreUnit \in units' <=> CoreUnit \in units,
         CoreUnit \in units => boot'.at = "awaiting" /\ CoreUnit \in boot'.awaited,
         \A n \in Shutdowns : CoreHalted(n)' => CoreHalted(n),
         ToldOk' => ToldOk
  PROVE CoreStays'
BY DEF CoreStays, CoreDownOnceAnswered, ToldOk

LEMMA NoBootNoCore ==
  ASSUME OneTask, CoreStays, ~Running
  PROVE boot.at = "idle" /\ CoreUnit \notin units /\ ~core.locked
BY DEF OneTask, OneBoot, CoreStays

LEMMA ServerCore == ASSUME Typed, OneTask, OneCall, CoreStays, Server PROVE CoreStays'
<1>a. orch \in Orchs /\ boot \in BootTasks /\ InBoot /\ 0 \notin Shutdowns /\ -1 \notin Shutdowns
  BY NumbersAssumption DEF Typed, TypeOK, Shutdowns
<1>b. Running => orch.task = -1
  BY <1>a DEF Running, InBoot
<1>c. ASSUME NEW s \in Orchs, s.task \notin Shutdowns, BeginBoot(s), ~Running, core' = core, units' = units,
             ToldOk' => ToldOk
      PROVE CoreStays'
  <2>1. orch'.task \notin Shutdowns
    BY <1>a, <1>c, BeginBootIs
  <2> QED
    BY <1>c, <2>1, CoreStaysKept, NoBootNoCore DEF CoreHalted
<1>d. ASSUME NEW s \in Orchs, NEW n \in Shutdowns, BeginStop(s, n), core' = core, units' = units,
             UNCHANGED <<boot, host>>
      PROVE CoreStays'
  <2>1. orch'.task = n /\ stops'[n].at = "apps"
    BY <1>d, BeginStopIs DEF BeginStop, Typed, TypeOK
  <2>2. \A k \in Shutdowns : ~CoreHalted(k)'
    BY <2>1 DEF CoreHalted
  <2>3. CoreUnit \in units => boot'.at = "awaiting" /\ CoreUnit \in boot'.awaited
    BY <1>d DEF CoreStays
  <2> QED
    BY <1>d, <2>2, <2>3, CoreStaysKept DEF ToldOk
<1>1. CASE HandleShutdown
  <2> DEFINE n == Head(mailbox).arg
  <2>1. n \in Shutdowns /\ UNCHANGED <<units, core, host>>
    BY <1>1, ReceivedTyped, Parts DEF HandleShutdown
  <2> HIDE DEF n
  <2>2. ASSUME UNCHANGED stops, orch'.task = orch.task, boot'.at = boot.at, boot'.awaited = boot.awaited
        PROVE CoreStays'
    <3>1. CoreUnit \in units => boot'.at = "awaiting" /\ CoreUnit \in boot'.awaited
      BY <2>2 DEF CoreStays
    <3> QED
      BY <2>1, <2>2, <3>1, CoreStaysKept DEF CoreHalted, ToldOk
  <2>3. CASE orch' = [orch EXCEPT !.waiters = @ \cup {n}] /\ UNCHANGED <<boot, stops>>
    BY <1>a, <2>2, <2>3 DEF Orchs
  <2>4. CASE /\ orch' = [orch EXCEPT !.waiters = {n}, !.phase = "cancelling"]
             /\ boot' = [boot EXCEPT !.cancel = TRUE] /\ UNCHANGED stops
    <3>1. orch'.task = orch.task /\ boot'.at = boot.at /\ boot'.awaited = boot.awaited
      BY <1>a, <2>4 DEF Orchs, BootTasks
    <3> QED
      BY <2>2, <2>4, <3>1
  <2>5. CASE BeginStop([orch EXCEPT !.waiters = {n}], n) /\ UNCHANGED boot
    <3>1. [orch EXCEPT !.waiters = {n}] \in Orchs
      BY <1>a, <2>1 DEF Orchs
    <3> QED
      BY <1>d, <2>1, <2>5, <3>1
  <2> QED
    BY <1>1, <2>3, <2>4, <2>5 DEF HandleShutdown, n
<1>2. CASE HandleResume
  <2>1. UNCHANGED <<units, core, host, stops>>
    BY <1>2 DEF HandleResume
  <2>2. CASE orch.phase = "stopping" /\ orch.task = 0 /\ BeginBoot(orch)
    BY <1>a, <1>c, <2>1, <2>2 DEF Running, ToldOk
  <2>3. CASE orch' \in {orch, [orch EXCEPT !.resume = TRUE]} /\ boot' = boot
    <3>1. orch'.task = orch.task
      BY <1>a, <2>3 DEF Orchs
    <3>2. CoreUnit \in units => boot'.at = "awaiting" /\ CoreUnit \in boot'.awaited
      BY <2>3 DEF CoreStays
    <3> QED
      BY <2>1, <3>1, <3>2, CoreStaysKept DEF CoreHalted, ToldOk
  <2> QED
    BY <1>2, <2>2, <2>3 DEF HandleResume
<1>3. CASE HandleUp
  <2>1. UNCHANGED <<orch, boot, stops, core, host>> /\ Head(mailbox).arg \in Apps
        /\ (units' = units \/ units' = units \cup {Head(mailbox).arg})
    BY <1>3, ReceivedTyped, Parts DEF HandleUp
  <2>2. CoreUnit \in units' <=> CoreUnit \in units
    BY <2>1, AppsAssumption
  <2>3. CoreUnit \in units => boot'.at = "awaiting" /\ CoreUnit \in boot'.awaited
    BY <2>1 DEF CoreStays
  <2> QED
    BY <2>1, <2>2, <2>3, CoreStaysKept DEF CoreHalted, ToldOk
<1>4. CASE HandleBootEnd
  <2>1. UNCHANGED <<boot, units, core, host>>
    BY <1>4 DEF HandleBootEnd
  <2>2. [orch EXCEPT !.task = 0] \in Orchs
    BY <1>a, NumbersAssumption DEF Orchs
  <2>3. CASE orch.phase = "cancelling" /\ BeginStop([orch EXCEPT !.task = 0], Latest(orch.waiters))
    <3>1. Latest(orch.waiters) \in Shutdowns
      BY <1>a, <2>3, LatestWaits DEF InBoot, Orchs
    <3> QED
      BY <1>d, <2>1, <2>2, <2>3, <3>1
  <2>4. ASSUME NEW c, orch' = [[orch EXCEPT !.task = 0] EXCEPT !.phase = "up", !.complete = c]
        PROVE CoreStays'
    <3>1. orch'.task = 0
      BY <2>2, <2>4 DEF Orchs
    <3>2. CoreUnit \in units => boot'.at = "awaiting" /\ CoreUnit \in boot'.awaited
      BY <2>1 DEF CoreStays
    <3> QED
      BY <1>a, <2>1, <3>1, <3>2, CoreStaysKept DEF CoreHalted, ToldOk
  <2> QED
    BY <1>4, <2>3, <2>4 DEF HandleBootEnd
<1>5. CASE HandleBootCrash
  <2>1. Has({"crashed"})
    BY <1>5, TailHas DEF HandleBootCrash, Received, Has, Places, GoDown
  <2> QED
    BY <2>1 DEF OneTask, OneBoot
<1>6. CASE HandleStopEnd
  <2> DEFINE n == Head(mailbox).arg
             s == [orch EXCEPT !.task = 0, !.waiters = {}, !.resume = FALSE]
  <2>1. n \in Shutdowns /\ mailbox # <<>> /\ Head(mailbox).kind = "stopped" /\ UNCHANGED <<units, core, stops>>
    BY <1>6, ReceivedTyped, Parts DEF HandleStopEnd, Received
  <2>2. 1 \in Places /\ mailbox[1] = Head(mailbox)
    BY <2>1, EmptySeq DEF Places, Typed, TypeOK
  <2>3. orch.task = n /\ orch.phase = "stopping" /\ stops[n].at = "done"
    BY <2>1, <2>2 DEF OneTask, OneStopTask, Reported
  <2>4. ~core.locked /\ CoreUnit \notin units
    BY <2>3, NoBootNoCore DEF Running
  <2>5. ToldOk' => ~core.up
    <3>1. CASE host' = host
      BY <3>1 DEF CoreStays, CoreDownOnceAnswered, ToldOk
    <3>2. CASE host' = [host EXCEPT !.st = "runtime", !.ok = stops[n].ok]
      <4>1. host'.ok = stops[n].ok
        BY <3>2 DEF Typed, TypeOK
      <4> QED
        BY <2>1, <2>3, <4>1 DEF CoreStays, CoreHalted, ToldOk
    <3> QED
      BY <1>6, <2>3, <3>1, <3>2 DEF HandleStopEnd
  <2>6. orch'.task \notin Shutdowns
    <3>1. s \in Orchs /\ s.task = 0
      BY ServedIs
    <3> HIDE DEF s
    <3> QED
      BY <1>6, <1>a, <2>3, <3>1, BeginBootIs DEF HandleStopEnd, s
  <2> QED
    BY <2>1, <2>4, <2>5, <2>6 DEF CoreStays, CoreDownOnceAnswered, CoreHalted, ToldOk
<1> QED
  BY <1>1, <1>2, <1>3, <1>4, <1>5, <1>6 DEF Server

LEMMA BootTaskCore ==
  ASSUME ~Overruns, Typed, OneTask, OneCall, CoreStays, BootTask PROVE CoreStays'
<1>1. boot.at # "idle" /\ UNCHANGED <<orch, stops, host, core>> /\ boot \in BootTasks
  BY DEF BootTask, Cancelled, InstallNative, Decide, PutOff, EnterGate, Gate, InstallContainers, Stage,
         PastBoundary, Awaited, AwaitPrimary, Primary, PushComplete, Typed, TypeOK
<1>2. CASE Stage
  <2> DEFINE stage == Head(boot.steps)
             spawned == CASE stage = "core" /\ ~Agent -> {CoreUnit}
                          [] stage = "core" /\ Agent -> {}
                          [] OTHER -> InStage(stage)
  <2>1. CoreUnit \notin units
    BY <1>2 DEF Stage, PastBoundary, CoreStays
  <2>2. units' = units \cup spawned /\ boot'.at = "awaiting" /\ boot'.awaited = spawned \ OnceApps
    BY <1>1, <1>2 DEF Stage, BootTasks
  <2>3. CoreUnit \notin OnceApps
    BY AppsAssumption
  <2> HIDE DEF spawned
  <2>4. CoreUnit \in units' => boot'.at = "awaiting" /\ CoreUnit \in boot'.awaited
    BY <2>1, <2>2, <2>3
  <2> QED
    BY <1>1, <2>1, <2>4 DEF CoreStays, CoreDownOnceAnswered, CoreHalted
<1>3. CASE ~Stage
  <2>1. CoreUnit \notin units
    <3>1. CASE Awaited
      BY <3>1 DEF Awaited, CoreStays
    <3>2. CASE ~Awaited
      BY <1>3, <3>2 DEF BootTask, Cancelled, InstallNative, Decide, PutOff, PastBoundary, EnterGate, Gate,
                        InstallContainers, AwaitPrimary, Primary, PushComplete, CoreStays
    <3> QED
      BY <3>1, <3>2
  <2>2. CoreUnit \notin units'
    <3>1. units' = units \/ units' = units \cup {a \in Defaults \ NativeApps : ~app[a].present}
      BY <1>3 DEF BootTask, Cancelled, InstallNative, Decide, PutOff, EnterGate, Gate,
                  InstallContainers, Awaited, AwaitPrimary, Primary, PushComplete
    <3> QED
      BY <2>1, <3>1, AppsAssumption
  <2> QED
    BY <1>1, <2>1, <2>2, CoreStaysKept DEF CoreHalted, ToldOk
<1> QED
  BY <1>2, <1>3

LEMMA StopStepCore == ASSUME Typed, OneTask, OneCall, CoreStays, StopStep PROVE CoreStays'
<1>a. stops \in [Shutdowns -> StopTasks]
  BY DEF Typed, TypeOK
<1>1. PICK n \in Shutdowns : StopApps(n) \/ StopCore(n) \/ StopEarlier(n)
  BY DEF StopStep
<1>2. AtWork(n) /\ UNCHANGED <<orch, boot, host>>
  BY <1>1 DEF StopApps, StopCore, StopEarlier, AtWork
<1>3. CoreUnit \in units => boot'.at = "awaiting" /\ CoreUnit \in boot'.awaited
  BY <1>2 DEF CoreStays
<1>4. orch.task = n
  BY <1>2 DEF OneTask, OneStopTask
<1>5. ASSUME NEW group \in SUBSET Apps, NEW next, HaltGroup(n, group, next), core' = core,
             next \in {"earlier", "done"} => stops[n].at = "earlier"
      PROVE CoreStays'
  <2>1. PICK done \in SUBSET group : units' = units \ {a \in done : app[a].starting}
    BY <1>5 DEF HaltGroup
  <2>2. CoreUnit \in units' <=> CoreUnit \in units
    BY <2>1, AppsAssumption
  <2>3. PICK ok \in BOOLEAN : /\ stops' = [stops EXCEPT ![n] = [at |-> next, ok |-> ok]]
                              /\ ok => /\ stops[n].ok
                                       /\ \A a \in group : ~app'[a].up /\ ~app'[a].starting
    <3>1. HaltGroup(n, group, next)
      BY <1>5
    <3> QED
      BY <3>1, HaltDoes, Zenon
  <2>4. stops'[n].at = next /\ stops'[n].ok = ok
    BY <1>a, <2>3
  <2>5. \A k \in Shutdowns : CoreHalted(k)' => CoreHalted(k)
    BY <1>2, <1>4, <1>5, <2>3, <2>4 DEF CoreHalted
  <2> QED
    BY <1>2, <1>3, <1>4, <1>5, <2>2, <2>5, CoreStaysKept DEF ToldOk
<1>6. CASE StopApps(n)
  BY <1>5, <1>6 DEF StopApps, Applications, Containers
<1>7. CASE StopEarlier(n)
  BY <1>5, <1>7 DEF StopEarlier, Containers
<1>8. CASE StopCore(n)
  <2>1. units' = units
    BY <1>8 DEF StopCore
  <2>2. CASE ~core.locked /\ core' = [core EXCEPT !.up = FALSE]
    <3>1. ~core'.up /\ ~core'.locked
      BY <2>2 DEF Typed, TypeOK
    <3> QED
      BY <1>2, <1>3, <1>4, <2>1, <3>1 DEF CoreStays, CoreDownOnceAnswered
  <2>3. CASE stops' = [stops EXCEPT ![n] = [at |-> "earlier", ok |-> FALSE]] /\ core' = core
    <3>1. stops'[n].ok = FALSE
      BY <1>a, <2>3
    <3>2. \A k \in Shutdowns : ~CoreHalted(k)'
      BY <1>2, <1>4, <3>1 DEF CoreHalted
    <3> QED
      BY <1>2, <1>3, <1>4, <2>1, <2>3, <3>2, CoreStaysKept DEF ToldOk
  <2> QED
    BY <1>8, <2>2, <2>3 DEF StopCore
<1> QED
  BY <1>1, <1>6, <1>7, <1>8

LEMMA UnitCore == ASSUME Typed, OneTask, OneCall, CoreStays, UnitStep PROVE CoreStays'
<1>a. UNCHANGED <<orch, boot, stops, host>>
  BY DEF UnitStep, UnitCalls, UnitReturns, InstallFails, CoreLocks, CoreStarted
<1>b. CoreUnit \in units => boot'.at = "awaiting" /\ CoreUnit \in boot'.awaited
  BY <1>a DEF CoreStays
<1>c. CoreUnit \in units => ~ToldOk /\ \A n \in Shutdowns : ~CoreHalted(n)
  <2> SUFFICES ASSUME CoreUnit \in units PROVE ~ToldOk /\ \A n \in Shutdowns : ~CoreHalted(n)
    OBVIOUS
  <2>1. Running
    BY NoBootNoCore
  <2> QED
    BY <2>1, NotRunning DEF CoreHalted
<1>1. ASSUME NEW a \in Apps, UnitCalls(a) \/ UnitReturns(a) \/ InstallFails(a) PROVE CoreStays'
  <2>1. core' = core /\ (units' = units \/ units' = units \ {a})
    BY <1>1 DEF UnitCalls, UnitReturns, InstallFails
  <2>2. CoreUnit \in units' <=> CoreUnit \in units
    BY <2>1, AppsAssumption
  <2> QED
    BY <1>a, <1>b, <2>1, <2>2, CoreStaysKept DEF CoreHalted, ToldOk
<1>2. CASE CoreLocks
  <2>1. CoreUnit \in units /\ units' = units /\ core'.up = core.up
    BY <1>2 DEF CoreLocks, Typed, TypeOK
  <2> QED
    BY <1>a, <1>b, <1>c, <2>1 DEF CoreStays, CoreDownOnceAnswered, CoreHalted, ToldOk
<1>3. CASE CoreStarted
  <2>1. CoreUnit \in units /\ CoreUnit \notin units' /\ ~core'.locked
    BY <1>3 DEF CoreStarted, CoreStays
  <2> QED
    BY <1>a, <1>c, <2>1 DEF CoreStays, CoreDownOnceAnswered, CoreHalted, ToldOk
<1> QED
  BY <1>1, <1>2, <1>3 DEF UnitStep

LEMMA NextCore ==
  /\ ~Crashes /\ ~Overruns /\ Typed /\ OneTask /\ OneCall /\ CoreStays /\ [Next]_vars
  => CoreStays'
<1> SUFFICES ASSUME ~Crashes, ~Overruns, Typed, OneTask, OneCall, CoreStays, [Next]_vars
             PROVE CoreStays'
  OBVIOUS
<1>a. CoreUnit \in units => boot.at = "awaiting" /\ CoreUnit \in boot.awaited
  BY DEF CoreStays
<1>b. ASSUME UNCHANGED <<orch, boot, stops, units, core>>, ToldOk' => ToldOk PROVE CoreStays'
  BY <1>a, <1>b, CoreStaysKept DEF CoreHalted
<1>1. CASE Start
  <2>1. ~Running /\ UNCHANGED <<units, core, stops, host>>
    BY <1>1 DEF Start, Running
  <2>2. orch'.task \notin Shutdowns
    <3>1. Down \in Orchs /\ Down.task = 0 /\ 0 \notin Shutdowns /\ -1 \notin Shutdowns
      BY DownTyped, NumbersAssumption DEF Down, Shutdowns
    <3>2. CASE orch' = [Down EXCEPT !.phase = "stopping"]
      BY <3>1, <3>2 DEF Orchs
    <3>3. CASE BeginBoot(Down)
      BY <3>1, <3>3, BeginBootIs
    <3> QED
      BY <1>1, <3>2, <3>3 DEF Start
  <2> QED
    BY <2>1, <2>2, NoBootNoCore, CoreStaysKept DEF CoreHalted, ToldOk
<1>2. CASE Crash \/ BootCrashes \/ \E n \in Shutdowns : StopCrashes(n)
  BY <1>2 DEF Crash, BootCrashes, StopCrashes
<1>3. ASSUME NEW a \in Apps, AppRestarts(a) PROVE CoreStays'
  <2>1. UNCHANGED <<orch, boot, stops, core, host>> /\ (units' = units \/ units' = units \ {a})
    BY <1>3 DEF AppRestarts
  <2>2. CoreUnit \in units' <=> CoreUnit \in units
    BY <2>1, AppsAssumption
  <2> QED
    BY <1>a, <2>1, <2>2, CoreStaysKept DEF CoreHalted, ToldOk
<1>4. CASE Host
  <2>1. UNCHANGED <<orch, boot, stops, units, core>>
    BY <1>4 DEF Host, RaiseFlag, AskShutdown, GiveUp, RuntimeFails, Resume
  <2>2. ~ToldOk'
    <3>1. CASE AskShutdown
      <4>1. host.st = "asking" /\ host'.ok = host.ok
        BY <3>1 DEF AskShutdown, Typed, TypeOK
      <4> QED
        BY <4>1 DEF OneCall, ToldOk
    <3>2. CASE RaiseFlag \/ Resume
      <4>1. host'.st \in {"asking", "idle"}
        BY <3>2 DEF RaiseFlag, Resume, Typed, TypeOK
      <4> QED
        BY <4>1 DEF ToldOk
    <3>3. CASE GiveUp \/ RuntimeFails
      <4>1. host'.ok = FALSE
        BY <3>3 DEF GiveUp, RuntimeFails, Typed, TypeOK
      <4> QED
        BY <4>1 DEF ToldOk
    <3> QED
      BY <1>4, <3>1, <3>2, <3>3 DEF Host
  <2> QED
    BY <1>b, <2>1, <2>2
<1>5. CASE UNCHANGED vars
  BY <1>b, <1>5 DEF vars, ToldOk
<1> QED
  BY <1>1, <1>2, <1>3, <1>4, <1>5, ServerCore, BootTaskCore, StopStepCore, UnitCore DEF Next

CoreHeld == Typed /\ OneTask /\ OneCall /\ CoreStays

LEMMA InitCoreHeld == Init => CoreHeld
<1> SUFFICES ASSUME Init PROVE CoreHeld
  OBVIOUS
<1>1. Places = {} /\ orch = Down /\ 0 \notin Shutdowns
  BY NumbersAssumption DEF Init, Places, Shutdowns
<1>2. OneCall
  BY <1>1 DEF Init, OneCall, Has, Once, Numbered, ResumesFirst, Busy, ToldOk, Down
<1>3. CoreStays
  BY <1>1 DEF Init, CoreStays, CoreDownOnceAnswered, CoreHalted, Down
<1> QED
  BY <1>2, <1>3, InitTyped, InitOneTask DEF CoreHeld

(* A caller told ok finds Core down and nothing on its way to start it,    *)
(* however often shutdowns are asked for and called off, where nothing     *)
(* crashes, the host waits for its answer and no unit overruns its time.   *)
(* With any one of these the code's answer is not true of Core.            *)
THEOREM CoreDown ==
  ASSUME ~Crashes, ~BudgetRunsOut, ~Overruns
  PROVE Spec => []CoreDownOnceAnswered
<1>1. CoreHeld => CoreDownOnceAnswered
  BY DEF CoreHeld, CoreStays
<1>2. CoreHeld /\ [Next]_vars => CoreHeld'
  BY NextTyped, NextOneTask, NextOneCall, NextCore DEF CoreHeld
<1> QED
  BY <1>1, <1>2, InitCoreHeld, PTL DEF Spec

-----------------------------------------------------------------------------
(* Every app is ruled.  An app process that is alive and has no boot rule, *)
(* or was left halted, has something coming to it: its unit, its own       *)
(* announcement once boot is over, or a stage the boot has yet to run.     *)
Unruled(a) == app[a].present /\ (~app[a].ruled \/ app[a].halted)
Lists(s, x) == \E i \in 1..Len(s) : s[i] = x
Ahead(stage, b) == Lists(Todo(b), stage) \/ Lists(b.put_off, stage)
Told(a) == \E i \in Places : mailbox[i].kind = "up" /\ mailbox[i].arg = a

StartsAreRuled == \A a \in Apps : app[a].starting => app[a].present /\ ~Unruled(a)
CancelIsKnown == boot.at # "idle" /\ boot.cancel => orch.phase = "cancelling"
NoneRequired == boot.steps \in Seq(StepNames \ {"dist"})
UpReaches == Boots /\ orch.phase = "up" => \A a \in Apps : Unruled(a) => a \in units \/ Told(a)
BootReaches ==
    orch.phase = "booting" => \A a \in Apps :
        Unruled(a) => a \in units \/ (boot.at # "idle" /\ Ahead(StageOf[a], boot))
Pending == StartsAreRuled /\ CancelIsKnown /\ NoneRequired /\ UpReaches /\ BootReaches

LEMMA ConcatLists ==
  ASSUME NEW S, NEW s \in Seq(S), NEW t \in Seq(S), NEW x, Lists(t, x)
  PROVE Lists(s \o t, x)
<1>1. PICK i \in 1..Len(t) : t[i] = x
  BY DEF Lists
<1>2. Len(s) \in Nat /\ Len(t) \in Nat /\ Len(s \o t) = Len(s) + Len(t)
  BY ConcatProperties
<1>3. Len(s) + i \in 1..Len(s \o t) /\ (s \o t)[Len(s) + i] = t[i]
  BY <1>2, ConcatProperties
<1> QED
  BY <1>1, <1>3 DEF Lists

LEMMA TailLists ==
  ASSUME NEW S, NEW s \in Seq(S), s # <<>>, NEW x, Lists(s, x), x # Head(s)
  PROVE Lists(Tail(s), x)
<1>1. PICK i \in 1..Len(s) : s[i] = x
  BY DEF Lists
<1>2. Len(s) \in Nat /\ Head(s) = s[1] /\ Len(Tail(s)) = Len(s) - 1
  BY HeadTailProperties, EmptySeq
<1>3. i - 1 \in 1..Len(Tail(s)) /\ i - 1 + 1 = i
  BY <1>1, <1>2
<1>4. Tail(s)[i - 1] = s[i]
  BY <1>3, HeadTailProperties
<1> QED
  BY <1>1, <1>3, <1>4 DEF Lists

LEMMA AppendLists ==
  ASSUME NEW S, NEW s \in Seq(S), NEW e \in S
  PROVE Lists(Append(s, e), e) /\ \A x : Lists(s, x) => Lists(Append(s, e), x)
BY AppendProperties DEF Lists

LEMMA EveryStageListed == \A stage \in AppStages : Lists(Stages, stage)
<1>1. /\ Stages[1] = "initialize" /\ Stages[2] = "system" /\ Stages[3] = "services"
      /\ Stages[5] = "application" /\ Len(Stages) = 5
  BY DEF Stages
<1> QED
  BY <1>1 DEF AppStages, Lists

LEMMA UndecidedAhead ==
  ASSUME NEW b, Undecided(b), NEW stage \in AppStages
  PROVE Ahead(stage, b)
<1>a. Prelude \subseteq StepNames /\ Stages \in Seq(StepNames) /\ <<"native">> \in Seq(StepNames)
  BY PlanNames
<1>b. \A q \in Seq(Prelude) : q \in Seq(StepNames) /\ q \o Stages \in Seq(StepNames) /\ Lists(q \o Stages, stage)
  <2> SUFFICES ASSUME NEW q \in Seq(Prelude)
               PROVE q \in Seq(StepNames) /\ q \o Stages \in Seq(StepNames) /\ Lists(q \o Stages, stage)
    OBVIOUS
  <2>1. q \in Seq(StepNames)
    BY <1>a
  <2> QED
    BY <1>a, <2>1, ConcatLists, ConcatProperties, EveryStageListed
<1>1. CASE NativeAhead(b)
  <2>1. PICK p \in Seq(Prelude), q \in Seq(Prelude) : Todo(b) = p \o (<<"native">> \o (q \o Stages))
    BY <1>1 DEF NativeAhead
  <2>2. q \o Stages \in Seq(StepNames) /\ Lists(q \o Stages, stage) /\ p \in Seq(StepNames)
    BY <1>b
  <2>3. <<"native">> \o (q \o Stages) \in Seq(StepNames) /\ Lists(<<"native">> \o (q \o Stages), stage)
    BY <1>a, <2>2, ConcatLists, ConcatProperties
  <2>4. Lists(p \o (<<"native">> \o (q \o Stages)), stage)
    BY <2>2, <2>3, ConcatLists
  <2> QED
    BY <2>1, <2>4 DEF Ahead
<1>2. CASE NativeBehind(b)
  BY <1>2, <1>b DEF NativeBehind, Ahead
<1> QED
  BY <1>1, <1>2 DEF Undecided

LEMMA PlanRequiresNone == ~Agent => Plan \in Seq(StepNames \ {"dist"})
<1> SUFFICES ASSUME ~Agent PROVE Plan \in Seq(StepNames \ {"dist"})
  OBVIOUS
<1> DEFINE S == StepNames \ {"dist"}
<1>1. /\ <<"defaults", "tree">> \in Seq(S) /\ <<"native", "engine", "network">> \in Seq(S)
      /\ <<"api", "install">> \in Seq(S) /\ Stages \in Seq(S) /\ <<>> \in Seq(S)
  BY DEF StepNames, Gates, AppStages, Stages
<1>2. Plan = <<"defaults", "tree">> \o <<>> \o <<"native", "engine", "network">> \o <<>>
               \o <<"api", "install">> \o Stages
  BY DEF Plan
<1> HIDE DEF S
<1>3. \A s, t \in Seq(S) : s \o t \in Seq(S)
  BY ConcatProperties
<1>4. <<"defaults", "tree">> \o <<>> \in Seq(S)
  BY <1>1, <1>3
<1>5. <<"defaults", "tree">> \o <<>> \o <<"native", "engine", "network">> \in Seq(S)
  BY <1>1, <1>3, <1>4
<1>6. <<"defaults", "tree">> \o <<>> \o <<"native", "engine", "network">> \o <<>> \in Seq(S)
  BY <1>1, <1>3, <1>5
<1>7. <<"defaults", "tree">> \o <<>> \o <<"native", "engine", "network">> \o <<>>
        \o <<"api", "install">> \in Seq(S)
  BY <1>1, <1>3, <1>6
<1>8. <<"defaults", "tree">> \o <<>> \o <<"native", "engine", "network">> \o <<>>
        \o <<"api", "install">> \o Stages \in Seq(S)
  BY <1>1, <1>3, <1>7
<1> QED
  BY <1>2, <1>8 DEF S

LEMMA RunBootIs ==
  /\ RunBoot.decided = "undecided" /\ RunBoot.cancel = FALSE /\ RunBoot.steps = Plan
  /\ NoBoot.cancel = FALSE /\ NoBoot.steps = <<>>
BY DEF RunBoot, NoBoot

(* A boot that begins has every stage ahead of it.                         *)
LEMMA BeginBootPending ==
  ASSUME ~Agent, NEW s \in Orchs, BeginBoot(s), boot.at = "idle", Pending, app' = app
  PROVE Pending'
<1>1. StartsAreRuled'
  BY DEF Pending, StartsAreRuled, Unruled
<1>2. CASE Boots
  <2>1. orch'.phase = "booting" /\ boot' = RunBoot
    BY <1>2 DEF BeginBoot, Orchs
  <2>2. boot'.at = "running" /\ boot'.cancel = FALSE /\ boot'.steps \in Seq(StepNames \ {"dist"})
    BY <2>1, NoBootTyped, RunBootIs, PlanRequiresNone
  <2>3. Undecided(boot')
    BY <2>1, <2>2, PlanInOrder, RunBootIs DEF InOrder
  <2>4. \A a \in Apps : Ahead(StageOf[a], boot')
    BY <2>3, UndecidedAhead, AppsAssumption
  <2> QED
    BY <1>1, <2>1, <2>2, <2>4 DEF Pending, CancelIsKnown, NoneRequired, UpReaches, BootReaches
<1>3. CASE ~Boots
  <2>1. orch'.phase = "up" /\ boot' = boot
    BY <1>3 DEF BeginBoot, Orchs
  <2> QED
    BY <1>1, <1>3, <2>1 DEF Pending, CancelIsKnown, NoneRequired, UpReaches, BootReaches
<1> QED
  BY <1>2, <1>3

(* While it stops or cancels, nothing is promised to an app.               *)
LEMMA NothingPromised ==
  ASSUME Pending, app' = app, orch'.phase \in {"stopping", "cancelling"},
         boot'.steps = boot.steps, boot'.at = boot.at,
         orch'.phase = "stopping" => boot.at = "idle"
  PROVE Pending'
BY DEF Pending, StartsAreRuled, Unruled, CancelIsKnown, NoneRequired, UpReaches, BootReaches

(* A step that leaves to an app what was coming to it, if anything was.    *)
StillReached(a) ==
    Unruled(a)' => \/ Unruled(a) /\ (a \in units => a \in units') /\ (Told(a) => Told(a)')
                   \/ orch.phase = "up" /\ (a \in units' \/ Told(a)')
                   \/ orch.phase \notin {"up", "booting"}

LEMMA PendingKept ==
  ASSUME Pending, orch'.phase = orch.phase, boot' = boot, StartsAreRuled',
         \A a \in Apps : StillReached(a)
  PROVE Pending'
BY DEF StillReached, Pending, CancelIsKnown, NoneRequired, UpReaches, BootReaches

LEMMA ToldKept ==
  ASSUME Typed, \/ mailbox' = mailbox
                \/ mailbox # <<>> /\ mailbox' = Tail(mailbox) /\ Head(mailbox).kind # "up"
                \/ \E m \in Messages : Send(m)
  PROVE \A a : Told(a) => Told(a)'
<1> SUFFICES ASSUME NEW a, NEW i \in Places, mailbox[i].kind = "up", mailbox[i].arg = a
             PROVE Told(a)'
  BY DEF Told
<1>a. mailbox \in Seq(Messages) /\ Len(mailbox) \in Nat
  BY DEF Typed, TypeOK
<1>1. CASE mailbox' = mailbox
  BY <1>1 DEF Told, Places
<1>2. CASE mailbox # <<>> /\ mailbox' = Tail(mailbox) /\ Head(mailbox).kind # "up"
  <2>1. Head(mailbox) = mailbox[1] /\ Len(mailbox') = Len(mailbox) - 1
    BY <1>2, <1>a, HeadTailProperties
  <2>2. i # 1
    BY <1>2, <2>1
  <2>3. i - 1 \in Places' /\ i - 1 + 1 = i
    BY <1>a, <2>1, <2>2 DEF Places
  <2>4. mailbox'[i - 1] = mailbox[i]
    BY <1>2, <2>3, TailPlaces
  <2> QED
    BY <2>3, <2>4 DEF Told
<1>3. CASE \E m \in Messages : Send(m)
  <2>1. PICK m \in Messages : mailbox' = Append(mailbox, m)
    BY <1>3 DEF Send
  <2>2. i \in Places' /\ mailbox'[i] = mailbox[i]
    BY <1>a, <2>1 DEF Places
  <2> QED
    BY <2>2 DEF Told
<1> QED
  BY <1>1, <1>2, <1>3

LEMMA ServerPending ==
  ASSUME ~Agent, Typed, OneTask, Pending, Server PROVE Pending'
<1>a. orch \in Orchs /\ boot \in BootTasks /\ InBoot /\ -1 # 0
  BY DEF Typed, TypeOK
<1>b. Running => orch.task = -1
  BY <1>a DEF Running, InBoot
<1>c. ~Running => boot.at = "idle"
  BY DEF OneTask, OneBoot
<1>d. app' = app => StartsAreRuled'
  BY DEF Pending, StartsAreRuled, Unruled
<1>1. CASE HandleShutdown
  <2> DEFINE n == Head(mailbox).arg
  <2>1. n \in Shutdowns /\ app' = app
    BY <1>1, ReceivedTyped, Parts DEF HandleShutdown
  <2> HIDE DEF n
  <2>2. CASE /\ orch.phase \in {"stopping", "cancelling"} /\ orch' = [orch EXCEPT !.waiters = @ \cup {n}]
             /\ boot' = boot
    <3>1. orch'.phase = orch.phase
      BY <1>a, <2>2 DEF Orchs
    <3> QED
      BY <1>c, <2>1, <2>2, <3>1, NothingPromised DEF Running
  <2>3. CASE orch' = [orch EXCEPT !.waiters = {n}, !.phase = "cancelling"] /\ boot' = [boot EXCEPT !.cancel = TRUE]
    <3>1. orch'.phase = "cancelling" /\ boot'.steps = boot.steps /\ boot'.at = boot.at
      BY <1>a, <2>3 DEF Orchs, BootTasks
    <3> QED
      BY <2>1, <3>1, NothingPromised
  <2>4. CASE ~Running /\ BeginStop([orch EXCEPT !.waiters = {n}], n) /\ boot' = boot
    <3>1. [orch EXCEPT !.waiters = {n}] \in Orchs
      BY <1>a, <2>1 DEF Orchs
    <3>2. orch'.phase = "stopping"
      BY <2>1, <2>4, <3>1, BeginStopIs
    <3> QED
      BY <1>c, <2>1, <2>4, <3>2, NothingPromised
  <2> QED
    BY <1>1, <1>a, <1>b, <2>2, <2>3, <2>4 DEF HandleShutdown, Running, n
<1>2. CASE HandleResume
  <2>1. mailbox # <<>> /\ mailbox' = Tail(mailbox) /\ Head(mailbox).kind = "resume"
        /\ UNCHANGED <<app, units>>
    BY <1>2 DEF HandleResume, Received
  <2>2. CASE orch.phase = "stopping" /\ BeginBoot(orch)
    BY <1>a, <1>c, <2>1, <2>2, BeginBootPending DEF Running
  <2>3. CASE orch' \in {orch, [orch EXCEPT !.resume = TRUE]} /\ boot' = boot
    <3>1. orch'.phase = orch.phase
      BY <1>a, <2>3 DEF Orchs
    <3>2. \A a : Told(a) => Told(a)'
      BY <2>1, ToldKept
    <3>3. \A a \in Apps : StillReached(a)
      BY <2>1, <3>2 DEF Unruled, StillReached
    <3>4. StartsAreRuled'
      BY <1>d, <2>1
    <3> QED
      BY <2>3, <3>1, <3>3, <3>4, PendingKept
  <2> QED
    BY <1>2, <2>2, <2>3 DEF HandleResume
<1>3. CASE HandleUp
  <2>1. mailbox # <<>> /\ mailbox' = Tail(mailbox) /\ UNCHANGED <<orch, boot, app>>
        /\ units \subseteq units'
        /\ (orch.phase = "up" /\ Boots => Head(mailbox).arg \in units')
    BY <1>3 DEF HandleUp, Received
  <2>2. \A a : Told(a) => a = Head(mailbox).arg \/ Told(a)'
    <3> SUFFICES ASSUME NEW a, NEW i \in Places, mailbox[i].kind = "up", mailbox[i].arg = a,
                        a # Head(mailbox).arg
                 PROVE Told(a)'
      BY DEF Told
    <3>a. mailbox \in Seq(Messages) /\ Len(mailbox) \in Nat
      BY DEF Typed, TypeOK
    <3>1. Head(mailbox) = mailbox[1] /\ Len(mailbox') = Len(mailbox) - 1
      BY <2>1, <3>a, HeadTailProperties
    <3>2. i # 1
      BY <3>1
    <3>3. i - 1 \in Places' /\ i - 1 + 1 = i
      BY <3>a, <3>1, <3>2 DEF Places
    <3>4. mailbox'[i - 1] = mailbox[i]
      BY <2>1, <3>3, TailPlaces
    <3> QED
      BY <3>3, <3>4 DEF Told
  <2>3. UpReaches'
    BY <2>1, <2>2 DEF Pending, UpReaches, Unruled
  <2>4. BootReaches'
    BY <2>1 DEF Pending, BootReaches, Unruled
  <2> QED
    BY <1>d, <2>1, <2>3, <2>4 DEF Pending, CancelIsKnown, NoneRequired
<1>4. CASE HandleBootEnd
  <2>1. mailbox # <<>> /\ mailbox' = Tail(mailbox) /\ UNCHANGED <<boot, units, app>>
        /\ Head(mailbox).kind \in BootEnds
    BY <1>4 DEF HandleBootEnd, Received
  <2>2. Has(BootEnds)
    BY <2>1, TailHas
  <2>3. boot.at = "idle" /\ Running
    BY <2>2 DEF OneTask, OneBoot
  <2>4. [orch EXCEPT !.task = 0] \in Orchs
    BY <1>a, NumbersAssumption DEF Orchs
  <2>5. CASE orch.phase = "cancelling" /\ BeginStop([orch EXCEPT !.task = 0], Latest(orch.waiters))
    <3>1. Latest(orch.waiters) \in Shutdowns
      BY <1>a, <2>5, LatestWaits DEF InBoot, Orchs
    <3>2. orch'.phase = "stopping"
      BY <2>4, <2>5, <3>1, BeginStopIs
    <3> QED
      BY <2>1, <2>3, <3>2, NothingPromised
  <2>6. ASSUME orch.phase # "cancelling",
               NEW c, orch' = [[orch EXCEPT !.task = 0] EXCEPT !.phase = "up", !.complete = c]
        PROVE Pending'
    <3>1. orch'.phase = "up" /\ orch.phase = "booting"
      BY <2>3, <2>4, <2>6 DEF Orchs, Running
    <3>2. UpReaches'
      BY <2>1, <2>3, <3>1 DEF Pending, UpReaches, BootReaches, Unruled
    <3> QED
      BY <1>d, <2>1, <2>3, <3>1, <3>2 DEF Pending, CancelIsKnown, NoneRequired, BootReaches
  <2> QED
    BY <1>4, <2>5, <2>6 DEF HandleBootEnd
<1>5. CASE HandleBootCrash
  <2>1. Has({"crashed"})
    BY <1>5, TailHas DEF HandleBootCrash, Received, Has, Places, GoDown
  <2> QED
    BY <2>1 DEF OneTask, OneBoot
<1>6. CASE HandleStopEnd
  <2> DEFINE n == Head(mailbox).arg
             s == [orch EXCEPT !.task = 0, !.waiters = {}, !.resume = FALSE]
  <2>1. n \in Shutdowns /\ mailbox # <<>> /\ Head(mailbox).kind = "stopped" /\ app' = app
    BY <1>6, ReceivedTyped, Parts DEF HandleStopEnd, Received
  <2>2. 1 \in Places /\ mailbox[1] = Head(mailbox)
    BY <2>1, EmptySeq DEF Places, Typed, TypeOK
  <2>3. orch.task = n /\ orch.phase = "stopping" /\ boot.at = "idle"
    BY <1>c, <2>1, <2>2 DEF OneTask, OneStopTask, Reported, Running
  <2>4. s \in Orchs /\ s.phase = "stopping"
    BY <2>3, ServedIs
  <2> HIDE DEF s
  <2>5. CASE BeginBoot(s)
    BY <2>1, <2>3, <2>4, <2>5, BeginBootPending
  <2>6. CASE orch' = s /\ boot' = boot
    BY <2>1, <2>3, <2>4, <2>6, NothingPromised
  <2> QED
    BY <1>6, <2>3, <2>5, <2>6 DEF HandleStopEnd, s
<1> QED
  BY <1>1, <1>2, <1>3, <1>4, <1>5, <1>6 DEF Server

(* The boot task goes on with nothing ahead of it left out.                *)
LEMMA BootGoesOn ==
  ASSUME Typed, OneTask, Pending, boot.at # "idle", boot'.at # "idle", orch' = orch,
         boot'.cancel = boot.cancel, boot'.steps \in Seq(StepNames \ {"dist"}), StartsAreRuled',
         \A a \in Apps : Unruled(a)' =>
             \/ a \in units'
             \/ Ahead(StageOf[a], boot')
             \/ /\ Unruled(a) /\ a \notin units
                /\ Ahead(StageOf[a], boot) => a \in units' \/ Ahead(StageOf[a], boot')
  PROVE Pending'
BY DEF OneTask, OneBoot, Running, Pending, CancelIsKnown, NoneRequired, UpReaches, BootReaches

LEMMA BootTaskPending ==
  ASSUME ~FatalGates, Typed, OneTask, Ordered, Pending, BootTask PROVE Pending'
<1>a. boot \in BootTasks /\ boot.at # "idle" /\ orch' = orch /\ InOrder(boot)
      /\ StageOf \in [Apps -> AppStages]
  BY AppsAssumption
     DEF BootTask, Cancelled, InstallNative, Decide, PutOff, EnterGate, Gate, InstallContainers, Stage,
         PastBoundary, Awaited, AwaitPrimary, Primary, PushComplete, Typed, TypeOK, Ordered
<1>b. boot.steps \in Seq(StepNames \ {"dist"}) /\ Running
  BY <1>a DEF Pending, NoneRequired, OneTask, OneBoot
<1>c. boot.steps # <<>> => /\ Tail(boot.steps) \in Seq(StepNames \ {"dist"})
                           /\ Head(boot.steps) \in StepNames \ {"dist"}
  BY <1>b, HeadTailProperties
<1>d. app' = app => StartsAreRuled' /\ \A a \in Apps : Unruled(a)' <=> Unruled(a)
  BY DEF Pending, StartsAreRuled, Unruled
<1>e. ASSUME boot' = Proceed, boot.steps # <<>>
      PROVE /\ boot'.at = "running" /\ boot'.steps = Tail(boot.steps) /\ boot'.cancel = boot.cancel
            /\ Keeps(boot, boot')
  BY <1>a, <1>e, ProceedIs DEF Proceed, BootTasks, ProceedOf
<1>f. ASSUME boot'.steps = Tail(boot.steps), boot'.put_off = boot.put_off, boot'.at = "running",
             boot.at \in {"running", "gate"}, boot.steps # <<>>, NEW stage, Ahead(stage, boot),
             stage # Head(boot.steps)
      PROVE Ahead(stage, boot')
  BY <1>b, <1>f, TailLists DEF Ahead, Todo
<1>g. ASSUME app' = app, units' = units, boot'.at # "idle", boot'.cancel = boot.cancel,
             Todo(boot') = Todo(boot), boot'.put_off = boot.put_off, boot'.steps \in Seq(StepNames \ {"dist"})
      PROVE Pending'
  BY <1>a, <1>d, <1>g, BootGoesOn DEF Ahead
<1>h. ASSUME app' = app, boot' = NoBoot, orch.phase = "cancelling"
      PROVE Pending'
  <2>1. boot'.steps \in Seq(StepNames \ {"dist"}) /\ boot'.at = "idle"
    BY <1>h, NoBootTyped, RunBootIs
  <2> QED
    BY <1>a, <1>d, <1>h, <2>1 DEF Pending, CancelIsKnown, NoneRequired, UpReaches, BootReaches
<1>i. ASSUME boot' = Proceed, boot.at \in {"running", "gate"}, boot.steps # <<>>,
             Head(boot.steps) \notin AppStages, app' = app, units \subseteq units'
      PROVE Pending'
  <2>1. \A a \in Apps : Ahead(StageOf[a], boot) => Ahead(StageOf[a], boot')
    BY <1>a, <1>e, <1>f, <1>i DEF Keeps
  <2> QED
    BY <1>a, <1>c, <1>d, <1>e, <1>i, <2>1, BootGoesOn
<1>1. CASE Cancelled
  <2>1. boot' = NoBoot /\ app' = app /\ orch.phase = "cancelling"
    BY <1>1, <1>a DEF Cancelled, EndBoot, Pending, CancelIsKnown
  <2> QED
    BY <1>h, <2>1
<1>2. CASE InstallNative
  <2>1. /\ boot' = Proceed /\ boot.at = "running" /\ boot.steps # <<>> /\ Head(boot.steps) = "defaults"
        /\ units' = units
    BY <1>2 DEF InstallNative
  <2>2. boot.decided = "undecided"
    <3>1. Todo(boot) = boot.steps /\ boot.steps \in Seq(StepNames) /\ boot.put_off \in Seq(AppStages)
      BY <1>a, <2>1 DEF Todo, BootTasks
    <3>2. "defaults" \notin AppStages \cup {"native", "core"}
      BY DEF AppStages
    <3> QED
      BY <1>a, <2>1, <3>1, <3>2, RunsNext, PutsOffNext DEF InOrder, BootTasks
  <2>3. Undecided(boot')
    BY <1>2, <1>a, <1>e, <2>1, <2>2, BootTaskInOrder DEF InOrder, Keeps
  <2>4. \A a \in Apps : Ahead(StageOf[a], boot')
    BY <1>a, <2>3, UndecidedAhead
  <2>5. StartsAreRuled'
    BY <1>2 DEF InstallNative, Pending, StartsAreRuled, Unruled, Typed, TypeOK, AppStates
  <2> QED
    BY <1>a, <1>c, <1>e, <2>1, <2>4, <2>5, BootGoesOn
<1>3. CASE Decide
  <2>1. boot.at = "running" /\ boot'.at = "decided" /\ boot'.steps = boot.steps
        /\ boot'.put_off = boot.put_off /\ boot'.cancel = boot.cancel /\ app' = app /\ units' = units
    BY <1>3, <1>a DEF Decide, BootTasks
  <2> QED
    BY <1>a, <1>b, <1>g, <2>1 DEF Todo
<1>4. CASE PutOff
  <2> DEFINE stage == Head(boot.steps)
  <2>1. boot.at \in {"running", "decided"} /\ boot.steps # <<>> /\ stage \in AppStages
        /\ app' = app /\ units' = units
    BY <1>4 DEF PutOff, PastBoundary
  <2>2. boot'.at = "running" /\ boot'.steps = Tail(boot.steps) /\ boot'.cancel = boot.cancel
        /\ boot'.put_off = Append(boot.put_off, stage)
    BY <1>4, <1>a DEF PutOff, Proceed, BootTasks
  <2>3. boot.put_off \in Seq(AppStages)
    BY <1>a DEF BootTasks
  <2> HIDE DEF stage
  <2>4. Lists(boot'.put_off, stage) /\ \A x : Lists(boot.put_off, x) => Lists(boot'.put_off, x)
    BY <2>1, <2>2, <2>3, AppendLists
  <2>5. \A x : Ahead(x, boot) => Ahead(x, boot')
    <3> SUFFICES ASSUME NEW x, Ahead(x, boot), x # stage PROVE Ahead(x, boot')
      BY <2>4 DEF Ahead
    <3> QED
      BY <1>b, <2>1, <2>2, <2>4, TailLists DEF Ahead, Todo, stage
  <2> QED
    BY <1>a, <1>c, <1>d, <2>1, <2>2, <2>5, BootGoesOn
<1>5. CASE EnterGate
  <2>1. boot.at = "running" /\ boot'.at = "gate" /\ boot'.steps = boot.steps /\ boot'.put_off = boot.put_off
        /\ boot'.cancel = boot.cancel /\ app' = app /\ units' = units
    BY <1>5, <1>a DEF EnterGate, BootTasks
  <2> QED
    BY <1>a, <1>b, <1>g, <2>1 DEF Todo
<1>6. CASE Gate
  <2>1. boot.at = "gate" /\ boot.steps # <<>> /\ Head(boot.steps) \in Gates /\ app' = app /\ units' = units
    BY <1>6, <1>a DEF Gate, InOrder, Typed, AtStep
  <2>2. CASE boot' = Proceed
    <3>1. Head(boot.steps) \notin AppStages
      BY <2>1 DEF Gates, AppStages
    <3> QED
      BY <1>i, <2>1, <2>2, <3>1
  <2>3. CASE boot' = [boot EXCEPT !.tries = @ + 1]
    <3>1. boot'.at = boot.at /\ boot'.steps = boot.steps /\ boot'.put_off = boot.put_off
          /\ boot'.cancel = boot.cancel
      BY <1>a, <2>3 DEF BootTasks
    <3> QED
      BY <1>a, <1>b, <1>g, <2>1, <3>1 DEF Todo
  <2> QED
    BY <1>6, <1>c, <2>1, <2>2, <2>3 DEF Gate
<1>7. CASE InstallContainers
  <2>1. /\ boot' = Proceed /\ boot.at = "running" /\ boot.steps # <<>> /\ Head(boot.steps) = "install"
        /\ app' = app /\ units \subseteq units'
    BY <1>7 DEF InstallContainers
  <2> QED
    BY <1>i, <2>1 DEF AppStages
<1>8. CASE Stage
  <2> DEFINE stage == Head(boot.steps)
  <2>1. boot.at \in {"running", "decided"} /\ boot.steps # <<>> /\ app' = app /\ boot'.at = "awaiting"
        /\ boot'.steps = boot.steps /\ boot'.put_off = boot.put_off /\ boot'.cancel = boot.cancel
        /\ units \subseteq units'
    BY <1>8, <1>a DEF Stage, PastBoundary, BootTasks
  <2>2. stage \in AppStages => units' = units \cup InStage(stage)
    BY <1>8 DEF Stage, AppStages
  <2>3. \A a \in Apps : StageOf[a] = stage /\ app[a].present => a \in units'
    BY <1>a, <2>2 DEF InStage, AppStages
  <2>4. \A x : Ahead(x, boot) => x = stage \/ Ahead(x, boot')
    BY <1>b, <2>1, TailLists DEF Ahead, Todo
  <2> QED
    BY <1>a, <1>b, <1>d, <2>1, <2>3, <2>4, BootGoesOn DEF Unruled
<1>9. CASE Awaited
  <2>1. boot' = Proceed /\ boot.at = "awaiting" /\ boot.steps # <<>> /\ app' = app /\ units' = units
    BY <1>9 DEF Awaited, Typed, AtStep
  <2>2. Todo(boot') = Todo(boot) /\ boot'.put_off = boot.put_off
    BY <1>e, <2>1 DEF Todo, Keeps
  <2> QED
    BY <1>c, <1>e, <1>g, <2>1, <2>2
<1>10. CASE AwaitPrimary
  <2>1. boot.at = "running" /\ boot'.at = "primary" /\ boot'.steps = boot.steps
        /\ boot'.put_off = boot.put_off /\ boot'.cancel = boot.cancel /\ app' = app /\ units' = units
    BY <1>10, <1>a DEF AwaitPrimary, BootTasks
  <2> QED
    BY <1>b, <1>g, <2>1 DEF Todo
<1>11. CASE Primary
  <2>1. boot.at = "primary" /\ app' = app /\ units' = units /\ boot.steps = <<>>
    BY <1>11, <1>a DEF Primary, InOrder
  <2>2. CASE boot' = [boot EXCEPT !.at = "running", !.steps = boot.put_off, !.put_off = <<>>,
                                  !.decided = "run", !.tries = 0]
    <3>1. boot'.at = "running" /\ boot'.steps = boot.put_off /\ boot'.cancel = boot.cancel
      BY <1>a, <2>2 DEF BootTasks
    <3>2. boot.put_off \in Seq(StepNames \ {"dist"})
      BY <1>a DEF BootTasks, AppStages, StepNames
    <3>3. \A x : Ahead(x, boot) => Ahead(x, boot')
      BY <2>1, <3>1 DEF Ahead, Lists, Todo
    <3> QED
      BY <1>a, <1>d, <2>1, <3>1, <3>2, <3>3, BootGoesOn
  <2>3. CASE boot' = [boot EXCEPT !.tries = @ + 1]
    <3>1. boot'.at = boot.at /\ boot'.steps = boot.steps /\ boot'.put_off = boot.put_off
          /\ boot'.cancel = boot.cancel
      BY <1>a, <2>3 DEF BootTasks
    <3> QED
      BY <1>a, <1>b, <1>g, <2>1, <3>1 DEF Todo
  <2> QED
    BY <1>11, <2>2, <2>3 DEF Primary
<1>12. CASE PushComplete
  <2>1. boot' = NoBoot /\ app' = app /\ units' = units /\ boot.steps = <<>> /\ boot.put_off = <<>>
        /\ boot.at = "running"
    BY <1>12 DEF PushComplete, EndBoot
  <2>2. \A x : ~Ahead(x, boot)
    BY <2>1 DEF Ahead, Lists, Todo
  <2>3. boot'.steps \in Seq(StepNames \ {"dist"}) /\ boot'.at = "idle"
    BY <2>1, NoBootTyped, RunBootIs
  <2> QED
    BY <1>a, <1>b, <1>d, <2>1, <2>2, <2>3
       DEF Running, Pending, CancelIsKnown, NoneRequired, UpReaches, BootReaches
<1> QED
  BY <1>1, <1>2, <1>3, <1>4, <1>5, <1>6, <1>7, <1>8, <1>9, <1>10, <1>11, <1>12 DEF BootTask

LEMMA UnitPending == ASSUME Typed, Pending, UnitStep PROVE Pending'
<1>a. UNCHANGED <<orch, boot, mailbox>> /\ app \in [Apps -> AppStates]
  BY DEF UnitStep, UnitCalls, UnitReturns, InstallFails, CoreLocks, CoreStarted, Typed, TypeOK
<1>b. \A a : Told(a) => Told(a)'
  BY <1>a DEF Told, Places
<1>c. ASSUME app' = app, \A a \in Apps : Unruled(a) /\ a \in units => a \in units' PROVE Pending'
  <2>1. StartsAreRuled'
    BY <1>c DEF Pending, StartsAreRuled, Unruled
  <2>2. \A a \in Apps : StillReached(a)
    BY <1>b, <1>c DEF Unruled, StillReached
  <2> QED
    BY <1>a, <2>1, <2>2, PendingKept
<1>1. ASSUME NEW a \in Apps, UnitCalls(a) PROVE Pending'
  <2> DEFINE starts == ~app[a].up /\ (a \in NativeApps \/ ~inflight)
  <2>1. PICK x : app' = [app EXCEPT ![a] = [app[a] EXCEPT !.present = TRUE, !.ruled = TRUE,
                                                          !.halted = FALSE, !.starting = x]]
    BY <1>1 DEF UnitCalls
  <2>2. app'[a].present /\ app'[a].ruled /\ ~app'[a].halted /\ \A b \in Apps \ {a} : app'[b] = app[b]
    BY <1>a, <2>1 DEF AppStates
  <2>3. StartsAreRuled'
    BY <2>2 DEF Pending, StartsAreRuled, Unruled
  <2>4. units' = units \/ units' = units \ {a}
    BY <1>1 DEF UnitCalls
  <2>5. \A b \in Apps : StillReached(b)
    BY <1>b, <2>2, <2>4 DEF Unruled, StillReached
  <2> QED
    BY <1>a, <2>3, <2>5, PendingKept
<1>2. ASSUME NEW a \in Apps, UnitReturns(a) PROVE Pending'
  <2>1. app[a].starting /\ units' = units \ {a}
    BY <1>2 DEF UnitReturns
  <2>2. PICK up \in BOOLEAN : app' = [app EXCEPT ![a] = [app[a] EXCEPT !.starting = FALSE, !.up = up]]
    BY <1>2 DEF UnitReturns
  <2>3. /\ app'[a].present = app[a].present /\ app'[a].ruled = app[a].ruled
        /\ app'[a].halted = app[a].halted /\ \A b \in Apps \ {a} : app'[b] = app[b]
    BY <1>a, <2>2 DEF AppStates
  <2>4. app[a].present /\ ~Unruled(a)
    BY <2>1 DEF Pending, StartsAreRuled
  <2>5. \A b \in Apps : (Unruled(b)' <=> Unruled(b)) /\ (app'[b].present <=> app[b].present)
    BY <2>3 DEF Unruled
  <2>6. StartsAreRuled'
    <3> SUFFICES ASSUME NEW b \in Apps, app'[b].starting PROVE app'[b].present /\ ~Unruled(b)'
      BY DEF StartsAreRuled
    <3> QED
      BY <2>3, <2>4, <2>5 DEF Pending, StartsAreRuled
  <2>7. \A b \in Apps : StillReached(b)
    BY <1>b, <2>1, <2>4, <2>5 DEF StillReached
  <2> QED
    BY <1>a, <2>6, <2>7, PendingKept
<1>3. ASSUME NEW a \in Apps, InstallFails(a) PROVE Pending'
  BY <1>3, <1>c DEF InstallFails, Unruled
<1>4. CASE CoreLocks
  BY <1>4, <1>c DEF CoreLocks
<1>5. CASE CoreStarted
  BY <1>5, <1>c, AppsAssumption DEF CoreStarted
<1> QED
  BY <1>1, <1>2, <1>3, <1>4, <1>5 DEF UnitStep

LEMMA StopStepPending == ASSUME Typed, OneTask, Pending, StopStep PROVE Pending'
<1>a. app \in [Apps -> AppStates]
  BY DEF Typed, TypeOK
<1>1. PICK n \in Shutdowns : StopApps(n) \/ StopCore(n) \/ StopEarlier(n)
  BY DEF StopStep
<1>2. AtWork(n) /\ UNCHANGED <<orch, boot>>
  BY <1>1 DEF StopApps, StopCore, StopEarlier, AtWork
<1>3. orch.phase = "stopping"
  BY <1>2 DEF OneTask, OneStopTask
<1>4. StartsAreRuled'
  <2>1. CASE app' = app
    BY <2>1 DEF Pending, StartsAreRuled, Unruled
  <2>2. ASSUME NEW group, NEW next, HaltGroup(n, group, next) PROVE StartsAreRuled'
    <3>1. PICK done : app' = [a \in Apps |->
                                IF a \in done
                                THEN [app[a] EXCEPT !.halted = TRUE, !.starting = FALSE, !.up = FALSE]
                                ELSE app[a]]
      BY <2>2 DEF HaltGroup
    <3>2. \A a \in Apps : IF a \in done THEN ~app'[a].starting ELSE app'[a] = app[a]
      BY <1>a, <3>1 DEF AppStates
    <3> QED
      BY <3>2 DEF Pending, StartsAreRuled, Unruled
  <2> QED
    BY <1>1, <2>1, <2>2 DEF StopApps, StopCore, StopEarlier
<1>5. \A a \in Apps : StillReached(a)
  BY <1>3 DEF StillReached
<1> QED
  BY <1>2, <1>4, <1>5, PendingKept

LEMMA AppRestartsPending ==
  ASSUME Typed, Pending, NEW a \in Apps, AppRestarts(a) PROVE Pending'
<1>a. UNCHANGED <<orch, boot>> /\ app \in [Apps -> AppStates] /\ orch.phase \in {"up", "stopping"}
  BY DEF AppRestarts, Typed, TypeOK
<1>1. Send(Message("up", a)) /\ Message("up", a) \in Messages
  BY MessageTyped DEF AppRestarts
<1>2. Told(a)' /\ \A b : Told(b) => Told(b)'
  <2>1. \A b : Told(b) => Told(b)'
    BY <1>1, ToldKept
  <2>2. Len(mailbox) + 1 \in Places' /\ mailbox'[Len(mailbox) + 1] = Message("up", a)
    BY <1>1 DEF Typed, TypeOK, Places, Send
  <2>3. Message("up", a).kind = "up" /\ Message("up", a).arg = a
    BY DEF Message
  <2> QED
    BY <2>1, <2>2, <2>3 DEF Told
<1>3. PICK ups, down :
        app' = [app EXCEPT ![a] = [app[a] EXCEPT !.ruled = FALSE, !.starting = FALSE, !.up = ups,
                                                 !.halted = down]]
  BY DEF AppRestarts
<1>4. ~app'[a].starting /\ \A b \in Apps \ {a} : app'[b] = app[b]
  BY <1>a, <1>3 DEF AppStates
<1>5. StartsAreRuled'
  BY <1>4 DEF Pending, StartsAreRuled, Unruled
<1>6. \A b \in Apps \ {a} : b \in units => b \in units'
  BY DEF AppRestarts
<1>7. \A b \in Apps : StillReached(b)
  <2> SUFFICES ASSUME NEW b \in Apps, Unruled(b)', orch.phase = "up", ~Told(b)'
               PROVE Unruled(b) /\ (b \in units => b \in units') /\ (Told(b) => Told(b)')
    BY <1>a DEF StillReached
  <2>1. b # a
    BY <1>2
  <2> QED
    BY <1>2, <1>4, <1>6, <2>1 DEF Unruled
<1> QED
  BY <1>a, <1>5, <1>7, PendingKept

LEMMA NextPending ==
  ~Crashes /\ ~FatalGates /\ ~Agent /\ Typed /\ OneTask /\ Ordered /\ Pending /\ [Next]_vars => Pending'
<1> SUFFICES ASSUME ~Crashes, ~FatalGates, ~Agent, Typed, OneTask, Ordered, Pending, [Next]_vars
             PROVE Pending'
  OBVIOUS
<1>1. CASE Start
  <2>1. boot.at = "idle" /\ app' = app
    BY <1>1 DEF Start, OneTask, OneBoot, Running
  <2>2. CASE orch' = [Down EXCEPT !.phase = "stopping"] /\ boot' = boot
    <3>1. orch'.phase = "stopping"
      BY <2>2, DownTyped DEF Orchs
    <3> QED
      BY <2>1, <2>2, <3>1, NothingPromised
  <2>3. CASE BeginBoot(Down)
    BY <2>1, <2>3, DownTyped, BeginBootPending
  <2> QED
    BY <1>1, <2>2, <2>3 DEF Start
<1>2. CASE Crash \/ BootCrashes \/ \E n \in Shutdowns : StopCrashes(n)
  BY <1>2 DEF Crash, BootCrashes, StopCrashes
<1>3. CASE Host
  <2>1. UNCHANGED <<orch, boot, app, units>>
    BY <1>3 DEF Host, RaiseFlag, AskShutdown, GiveUp, RuntimeFails, Resume
  <2>2. mailbox' = mailbox \/ \E m \in Messages : Send(m)
    <3>1. CASE AskShutdown
      <4>1. host.n \in Shutdowns
        BY <3>1, NumbersAssumption DEF AskShutdown, Shutdowns, Typed, TypeOK, Asked
      <4> QED
        BY <3>1, <4>1, MessageTyped DEF AskShutdown
    <3>2. CASE ~AskShutdown
      BY <1>3, <3>2, MessageTyped DEF Host, RaiseFlag, GiveUp, RuntimeFails, Resume
    <3> QED
      BY <3>1, <3>2
  <2>3. \A a : Told(a) => Told(a)'
    BY <2>2, ToldKept
  <2>4. StartsAreRuled' /\ \A a \in Apps : Unruled(a)' <=> Unruled(a)
    BY <2>1 DEF Pending, StartsAreRuled, Unruled
  <2>5. \A a \in Apps : StillReached(a)
    BY <2>1, <2>3, <2>4 DEF StillReached
  <2> QED
    BY <2>1, <2>4, <2>5, PendingKept
<1>4. CASE UNCHANGED vars
  <2>1. UNCHANGED <<orch, boot, app, units, mailbox>>
    BY <1>4 DEF vars
  <2>2. StartsAreRuled' /\ \A a \in Apps : Unruled(a)' <=> Unruled(a)
    BY <2>1 DEF Pending, StartsAreRuled, Unruled
  <2>3. \A a : Told(a) => Told(a)'
    BY <2>1, ToldKept
  <2>4. \A a \in Apps : StillReached(a)
    BY <2>1, <2>2, <2>3 DEF StillReached
  <2> QED
    BY <2>1, <2>2, <2>4, PendingKept
<1> QED
  BY <1>1, <1>2, <1>3, <1>4, ServerPending, BootTaskPending, UnitPending, StopStepPending,
     AppRestartsPending DEF Next

Settled == Typed /\ OneTask /\ Ordered /\ Pending

LEMMA InitSettled == Init => Settled
<1> SUFFICES ASSUME Init PROVE Settled
  OBVIOUS
<1>1. Ordered
  BY PlanInOrder DEF Init, Ordered
<1>2. boot.at = "idle" /\ boot.steps = <<>> /\ orch.phase = "down"
  BY NoBootTyped, RunBootIs, DownTyped DEF Init
<1>3. \A a \in Apps : ~app[a].starting
  BY DEF Init
<1>4. Pending
  BY <1>2, <1>3 DEF Pending, StartsAreRuled, CancelIsKnown, NoneRequired, UpReaches, BootReaches
<1> QED
  BY <1>1, <1>4, InitTyped, InitOneTask DEF Settled

(* Once boot is over and nothing is on its way, every app process that is  *)
(* alive has had its boot rule and none is left halted, however often      *)
(* shutdowns were called off and whichever processes restarted, for every  *)
(* set of apps and every budget; on any flavor but the agent's, whose      *)
(* required gate may halt the boot for good.                               *)
THEOREM AppsAreRuled ==
  ASSUME ~Crashes, ~FatalGates, ~Agent
  PROVE Spec => []EveryAppIsRuled
<1>1. Settled => EveryAppIsRuled
  <2> SUFFICES ASSUME Settled, Boots, orch.phase = "up", mailbox = <<>>, units = {},
                      NEW a \in Apps, app[a].present
               PROVE app[a].ruled /\ ~app[a].halted
    BY DEF EveryAppIsRuled
  <2>1. ~Told(a)
    BY DEF Told, Places
  <2> QED
    BY <2>1 DEF Settled, Pending, UpReaches, Unruled
<1>2. Settled /\ [Next]_vars => Settled'
  BY NextTyped, NextOneTask, NextOrdered, NextPending DEF Settled
<1> QED
  BY <1>1, <1>2, InitSettled, PTL DEF Spec

-----------------------------------------------------------------------------
(* The apps under every shutdown.  While the flag is up the stop that the  *)
(* server waits for keeps down what it has halted.                         *)
StopKeeps ==
    inflight /\ orch.task \in Shutdowns =>
        /\ Past(orch.task) => AreDown(Applications)
        /\ Through(orch.task) => AreDown(Containers)
AppsStay == StopKeeps /\ AppsDownOnceAnswered

LEMMA AppsStayKept ==
  ASSUME Typed, AbsentIsDown, AppsStay, StayDown, inflight' => inflight,
         orch'.task \in Shutdowns =>
             \/ orch'.task = orch.task /\ stops'[orch.task] = stops[orch.task]
             \/ stops'[orch'.task].at = "apps",
         ToldOk' => ToldOk /\ inflight
  PROVE AppsStay'
<1>1. \A a \in Apps \ NativeApps : app[a].up \/ app[a].starting => app[a].present
  BY DEF AbsentIsDown
<1>2. inflight => (AreDown(Applications) => AreDown(Applications)')
  BY <1>1 DEF AreDown, Applications, Containers, StayDown
<1>3. inflight => (AreDown(Containers) => AreDown(Containers)')
  BY <1>1 DEF AreDown, Containers, StayDown
<1>4. StopKeeps'
  BY <1>2, <1>3 DEF AppsStay, StopKeeps, Past, Through, Shutdowns
<1>5. AppsDownOnceAnswered'
  BY DEF AppsStay, AppsDownOnceAnswered, ToldOk, StayDown
<1> QED
  BY <1>4, <1>5 DEF AppsStay

LEMMA ServerApps ==
  ASSUME Typed, Flagged, AbsentIsDown, OneTask, OneCall, AppsStay, Server PROVE AppsStay'
<1>a. orch \in Orchs /\ InBoot /\ 0 \notin Shutdowns /\ -1 \notin Shutdowns
  BY NumbersAssumption DEF Typed, TypeOK, Shutdowns
<1>b. UNCHANGED <<app, inflight>> \/ HandleBootCrash
  BY DEF Server, HandleShutdown, HandleResume, HandleUp, HandleBootEnd, HandleStopEnd
<1>c. ASSUME UNCHANGED <<app, inflight, host>>,
             orch'.task \in Shutdowns => \/ orch'.task = orch.task /\ stops'[orch.task] = stops[orch.task]
                                         \/ stops'[orch'.task].at = "apps"
      PROVE AppsStay'
  BY <1>c, SameApps, AppsStayKept DEF Flagged, ToldOk
<1>d. ASSUME NEW s \in Orchs, NEW n \in Shutdowns, BeginStop(s, n) PROVE stops'[orch'.task].at = "apps"
  <2>1. orch'.task = n
    BY <1>d, BeginStopIs
  <2> QED
    BY <1>d, <2>1 DEF BeginStop, Typed, TypeOK
<1>1. CASE HandleShutdown
  <2> DEFINE n == Head(mailbox).arg
  <2>1. n \in Shutdowns /\ UNCHANGED <<app, inflight, host>>
    BY <1>1, ReceivedTyped, Parts DEF HandleShutdown
  <2> HIDE DEF n
  <2>2. CASE /\ UNCHANGED stops
             /\ orch' \in {[orch EXCEPT !.waiters = @ \cup {n}],
                           [orch EXCEPT !.waiters = {n}, !.phase = "cancelling"]}
    <3>1. orch'.task = orch.task
      BY <1>a, <2>2 DEF Orchs
    <3> QED
      BY <1>c, <2>1, <2>2, <3>1
  <2>3. CASE BeginStop([orch EXCEPT !.waiters = {n}], n)
    <3>1. [orch EXCEPT !.waiters = {n}] \in Orchs
      BY <1>a, <2>1 DEF Orchs
    <3> QED
      BY <1>c, <1>d, <2>1, <2>3, <3>1
  <2> QED
    BY <1>1, <2>2, <2>3 DEF HandleShutdown, n
<1>2. CASE HandleResume
  <2>1. UNCHANGED <<app, inflight, host, stops>>
    BY <1>2 DEF HandleResume
  <2>2. orch'.task \in {orch.task, -1}
    <3>1. CASE BeginBoot(orch)
      BY <1>a, <3>1, BeginBootIs
    <3>2. CASE orch' \in {orch, [orch EXCEPT !.resume = TRUE]}
      BY <1>a, <3>2 DEF Orchs
    <3> QED
      BY <1>2, <3>1, <3>2 DEF HandleResume
  <2> QED
    BY <1>a, <1>c, <2>1, <2>2
<1>3. CASE HandleUp
  BY <1>3, <1>c DEF HandleUp
<1>4. CASE HandleBootEnd
  <2>1. UNCHANGED <<app, inflight, host>>
    BY <1>4 DEF HandleBootEnd
  <2>2. [orch EXCEPT !.task = 0] \in Orchs
    BY <1>a, NumbersAssumption DEF Orchs
  <2>3. CASE orch.phase = "cancelling" /\ BeginStop([orch EXCEPT !.task = 0], Latest(orch.waiters))
    <3>1. Latest(orch.waiters) \in Shutdowns
      BY <1>a, <2>3, LatestWaits DEF InBoot, Orchs
    <3> QED
      BY <1>c, <1>d, <2>1, <2>2, <2>3, <3>1
  <2>4. ASSUME NEW c, orch' = [[orch EXCEPT !.task = 0] EXCEPT !.phase = "up", !.complete = c]
        PROVE AppsStay'
    <3>1. orch'.task = 0
      BY <2>2, <2>4 DEF Orchs
    <3> QED
      BY <1>a, <1>c, <2>1, <3>1
  <2> QED
    BY <1>4, <2>3, <2>4 DEF HandleBootEnd
<1>5. CASE HandleBootCrash
  <2>1. Has({"crashed"})
    BY <1>5, TailHas DEF HandleBootCrash, Received, Has, Places, GoDown
  <2> QED
    BY <2>1 DEF OneTask, OneBoot
<1>6. CASE HandleStopEnd
  <2> DEFINE n == Head(mailbox).arg
             s == [orch EXCEPT !.task = 0, !.waiters = {}, !.resume = FALSE]
  <2>1. n \in Shutdowns /\ mailbox # <<>> /\ Head(mailbox).kind = "stopped" /\ UNCHANGED <<app, inflight>>
    BY <1>6, ReceivedTyped, Parts DEF HandleStopEnd, Received
  <2>2. 1 \in Places /\ mailbox[1] = Head(mailbox)
    BY <2>1, EmptySeq DEF Places, Typed, TypeOK
  <2>3. orch.task = n /\ orch.phase = "stopping" /\ stops[n].at = "done"
    BY <2>1, <2>2 DEF OneTask, OneStopTask, Reported
  <2>4. inflight
    <3>1. host.st = "calling"
      BY <2>1, <2>3, <1>a DEF OneCall, Busy
    <3> QED
      BY <3>1 DEF Flagged
  <2>5. ToldOk' => ToldOk \/ AreDown(Containers)
    <3>1. CASE host' = host
      BY <3>1 DEF ToldOk
    <3>2. CASE host' = [host EXCEPT !.st = "runtime", !.ok = stops[n].ok]
      <4>1. host'.ok = stops[n].ok
        BY <3>2 DEF Typed, TypeOK
      <4> QED
        BY <2>1, <2>3, <2>4, <4>1 DEF AppsStay, StopKeeps, Through, ToldOk
    <3> QED
      BY <1>6, <2>3, <3>1, <3>2 DEF HandleStopEnd
  <2>6. AppsDownOnceAnswered'
    <3>1. ToldOk' => \A a \in Apps \ NativeApps : ~app[a].up /\ ~app[a].starting
      <4>1. AreDown(Containers) => \A a \in Apps \ NativeApps : ~app[a].up /\ ~app[a].starting
        BY DEF AreDown, Containers, AbsentIsDown
      <4>2. ToldOk => \A a \in Apps \ NativeApps : ~app[a].up /\ ~app[a].starting
        BY DEF AppsStay, AppsDownOnceAnswered, ToldOk
      <4> QED
        BY <2>5, <4>1, <4>2
    <3> QED
      BY <2>1, <3>1 DEF AppsDownOnceAnswered, ToldOk
  <2>7. orch'.task \notin Shutdowns
    <3>1. s \in Orchs /\ s.task = 0
      BY ServedIs
    <3> HIDE DEF s
    <3> QED
      BY <1>6, <1>a, <2>3, <3>1, BeginBootIs DEF HandleStopEnd, s
  <2> QED
    BY <2>6, <2>7 DEF AppsStay, StopKeeps, Shutdowns
<1> QED
  BY <1>1, <1>2, <1>3, <1>4, <1>5, <1>6 DEF Server

LEMMA StopStepApps ==
  ASSUME Typed, AbsentIsDown, OneTask, OneCall, AppsStay, StopStep
  PROVE AppsStay' /\ AbsentIsDown'
<1>1. PICK n \in Shutdowns : StopApps(n) \/ StopCore(n) \/ StopEarlier(n)
  BY DEF StopStep
<1>2. AtWork(n)
  BY <1>1 DEF StopApps, StopCore, StopEarlier, AtWork
<1>3. orch.task = n /\ orch.task # 0
  BY <1>2, NumbersAssumption DEF OneTask, OneStopTask, Shutdowns
<1>4. inflight /\ Past(n) => AreDown(Applications)
  BY <1>3 DEF AppsStay, StopKeeps
<1>5. /\ UNCHANGED <<orch, host, inflight>> /\ AbsentIsDown'
      /\ \E next \in {"core", "earlier", "done"}, ok \in BOOLEAN : StopStepIs(n, next, ok)
  BY <1>1, <1>4, StopStepDoes
<1>6. PICK next \in {"core", "earlier", "done"}, ok \in BOOLEAN : StopStepIs(n, next, ok)
  BY <1>5
<1>7. stops'[n].at = next /\ stops'[n].ok = ok
  BY <1>6 DEF StopStepIs, Typed, TypeOK
<1>8. StopKeeps'
  BY <1>3, <1>5, <1>6, <1>7 DEF StopStepIs, StopKeeps, Past, Through
<1>9. AppsDownOnceAnswered'
  BY <1>3, <1>5 DEF OneCall, ToldOk, AppsDownOnceAnswered
<1> QED
  BY <1>5, <1>8, <1>9 DEF AppsStay

LEMMA HostApps ==
  ASSUME ~BudgetRunsOut, Typed, Flagged, OneTask, OneCall, AppsStay, Host PROVE AppsStay'
<1>a. UNCHANGED <<orch, app, stops>>
  BY DEF Host, RaiseFlag, AskShutdown, GiveUp, RuntimeFails, Resume
<1>b. ASSUME inflight' => inflight PROVE StopKeeps'
  BY <1>a, <1>b DEF AppsStay, StopKeeps, Past, Through, AreDown, Applications, Containers, Shutdowns
<1>1. CASE RaiseFlag
  <2>1. orch.task \notin Shutdowns
    BY <1>1, NumbersAssumption DEF RaiseFlag, OneTask, OneStopTask, OneCall, Busy, Shutdowns
  <2>2. host'.st = "asking"
    BY <1>1 DEF RaiseFlag
  <2> QED
    BY <1>a, <2>1, <2>2 DEF AppsStay, StopKeeps, AppsDownOnceAnswered, Shutdowns
<1>2. CASE AskShutdown
  <2>1. host'.ok = host.ok /\ host.st = "asking" /\ inflight' = inflight
    BY <1>2 DEF AskShutdown, Typed, TypeOK
  <2> QED
    BY <1>b, <2>1 DEF OneCall, AppsStay, AppsDownOnceAnswered
<1>3. CASE RuntimeFails
  <2>1. host'.ok = FALSE /\ inflight' = FALSE
    BY <1>3 DEF RuntimeFails, Typed, TypeOK
  <2> QED
    BY <1>b, <2>1 DEF AppsStay, AppsDownOnceAnswered
<1>4. CASE Resume
  <2>1. host'.st = "idle" /\ inflight' = inflight
    BY <1>4 DEF Resume, Typed, TypeOK
  <2> QED
    BY <1>b, <2>1 DEF AppsStay, AppsDownOnceAnswered
<1>5. CASE GiveUp
  BY <1>5 DEF GiveUp
<1> QED
  BY <1>1, <1>2, <1>3, <1>4, <1>5 DEF Host

AppsHeld == Typed /\ Flagged /\ AbsentIsDown /\ OneTask /\ OneCall /\ AppsStay

LEMMA NextApps ==
  ~Crashes /\ ~BudgetRunsOut /\ AppsHeld /\ [Next]_vars => AbsentIsDown' /\ AppsStay'
<1> SUFFICES ASSUME ~Crashes, ~BudgetRunsOut, AppsHeld, [Next]_vars PROVE AbsentIsDown' /\ AppsStay'
  OBVIOUS
<1>a. Typed /\ Flagged /\ AbsentIsDown /\ OneTask /\ OneCall /\ AppsStay
  BY DEF AppsHeld
<1>b. ASSUME UNCHANGED <<orch, stops, host, inflight>>, StayDown PROVE AppsStay'
  BY <1>a, <1>b, AppsStayKept DEF Flagged, ToldOk
<1>c. app' = app => AbsentIsDown'
  BY <1>a DEF AbsentIsDown
<1>1. CASE Start
  <2>1. UNCHANGED <<app, stops, host, inflight>>
    BY <1>1 DEF Start
  <2>2. orch'.task \notin Shutdowns
    <3>1. Down \in Orchs /\ Down.task = 0 /\ 0 \notin Shutdowns /\ -1 \notin Shutdowns
      BY DownTyped, NumbersAssumption DEF Down, Shutdowns
    <3>2. CASE orch' = [Down EXCEPT !.phase = "stopping"]
      BY <3>1, <3>2 DEF Orchs
    <3>3. CASE BeginBoot(Down)
      BY <3>1, <3>3, BeginBootIs
    <3> QED
      BY <1>1, <3>2, <3>3 DEF Start
  <2> QED
    BY <1>a, <1>c, <2>1, <2>2, SameApps, AppsStayKept DEF Flagged, ToldOk
<1>2. CASE Server
  <2>1. app' = app
    BY <1>2 DEF Server, HandleShutdown, HandleResume, HandleUp, HandleBootEnd, HandleBootCrash,
                HandleStopEnd, GoDown
  <2> QED
    BY <1>2, <1>a, <1>c, <2>1, ServerApps
<1>3. CASE Crash \/ BootCrashes \/ \E n \in Shutdowns : StopCrashes(n)
  BY <1>3 DEF Crash, BootCrashes, StopCrashes
<1>4. CASE BootTask
  <2>1. UNCHANGED <<orch, stops, host, inflight>>
    BY <1>4 DEF BootTask, Cancelled, InstallNative, Decide, PutOff, EnterGate, Gate,
                InstallContainers, Stage, PastBoundary, Awaited, AwaitPrimary, Primary, PushComplete
  <2> QED
    BY <1>4, <1>a, <1>b, <2>1, BootTaskStays
<1>5. CASE UnitStep
  <2>1. UNCHANGED <<orch, stops, host, inflight>>
    BY <1>5 DEF UnitStep, UnitCalls, UnitReturns, InstallFails, CoreLocks, CoreStarted
  <2> QED
    BY <1>5, <1>a, <1>b, <2>1, UnitStays
<1>6. CASE StopStep
  BY <1>6, <1>a, StopStepApps
<1>7. CASE Host
  <2>1. app' = app
    BY <1>7 DEF Host, RaiseFlag, AskShutdown, GiveUp, RuntimeFails, Resume
  <2> QED
    BY <1>7, <1>a, <1>c, <2>1, HostApps
<1>8. ASSUME NEW a \in Apps, AppRestarts(a) PROVE AbsentIsDown' /\ AppsStay'
  <2>1. UNCHANGED <<orch, stops, host, inflight>>
    BY <1>8 DEF AppRestarts
  <2> QED
    BY <1>8, <1>a, <1>b, <2>1, AppRestartsStays
<1>9. CASE UNCHANGED vars
  BY <1>9, <1>b, <1>c, SameApps DEF vars
<1> QED
  BY <1>1, <1>2, <1>3, <1>4, <1>5, <1>6, <1>7, <1>8, <1>9 DEF Next

LEMMA InitAppsHeld == Init => AppsHeld
<1> SUFFICES ASSUME Init PROVE AppsHeld
  OBVIOUS
<1>1. Flagged /\ AbsentIsDown
  BY InitHolds DEF Init, Holds
<1>2. AppsStay
  BY DEF Init, AppsStay, StopKeeps, AppsDownOnceAnswered
<1> QED
  BY <1>1, <1>2, InitCoreHeld DEF AppsHeld, CoreHeld

(* Where nothing crashes and the host waits for its answer, the answer is  *)
(* true of the apps at every shutdown, not only at the first: a shutdown   *)
(* that is called off leaves no stop at work and no resume to be           *)
(* remembered that the next one could meet.                                *)
THEOREM EveryStopHolds ==
  ASSUME ~Crashes, ~BudgetRunsOut
  PROVE Spec => []AppsDownOnceAnswered
<1>1. AppsHeld => AppsDownOnceAnswered
  BY DEF AppsHeld, AppsStay
<1>2. AppsHeld /\ [Next]_vars => AppsHeld'
  <2> SUFFICES ASSUME AppsHeld, [Next]_vars PROVE AppsHeld'
    OBVIOUS
  <2>1. Typed /\ Flagged /\ OneTask /\ OneCall
    BY DEF AppsHeld
  <2>2. Typed' /\ OneTask' /\ OneCall'
    BY <2>1, NextTyped, NextOneTask, NextOneCall
  <2>3. Flagged'
    <3>1. CASE UNCHANGED vars
      BY <2>1, <3>1 DEF vars, Flagged
    <3>2. CASE Next
      BY <2>1, <3>2, FlagFollows
    <3> QED
      BY <3>1, <3>2
  <2> QED
    BY <2>2, <2>3, NextApps DEF AppsHeld
<1> QED
  BY <1>1, <1>2, InitAppsHeld, PTL DEF Spec
===============================================================================
