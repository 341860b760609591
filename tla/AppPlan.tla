------------------------------ MODULE AppPlan ------------------------------
(***************************************************************************)
(* For every value of the constants: every operation of the app process    *)
(* goes through the steps of its plan, and what the record, its file, the  *)
(* directory and the options owe each other holds between any two events.  *)
(*                                                                         *)
(* The argument: which step may follow which (Then) is an invariant of the *)
(* steps that are left, and with it each step finds the record as its plan *)
(* needs it: an install records its version last, an update moves to       *)
(* another version only while it holds no container, nothing is saved once *)
(* the file is deleted, and a token is minted for the start that follows.  *)
(***************************************************************************)
EXTENDS AppAnswers

(* The steps that may come after a step of an operation: "end" for none,   *)
(* and nothing at all after a step the operation does not have.            *)
ThenOfInstall(name) ==
    CASE name = "pull" -> {"port?"}
      [] name \in {"port?", "port"} -> {"commit"}
      [] name = "commit" -> {"end"}
      [] OTHER -> {}

ThenOfUninstall(name) ==
    CASE name = "stop" -> {"delete_file"}
      [] name = "delete_file" -> {"remove_app"}
      [] name \in {"remove_app", "stop_by_name"} -> {"end"}
      [] OTHER -> {}

ThenOfStart(name) ==
    CASE name \in {"port?", "port"} -> {"ensure_image"}
      [] name = "ensure_image" -> {"mint_token"}
      [] name = "mint_token" -> {"start"}
      [] name \in {"start", "start?", "stop_by_name"} -> {"end"}
      [] OTHER -> {}

ThenOfUpdate(name) ==
    CASE name = "pull" -> {"stop", "stop_strict"}
      [] name = "stop_strict" -> {"snapshot"}
      [] name \in {"stop", "snapshot"} -> {"commit"}
      [] name = "commit" -> {"start?"}
      [] name = "rollback_config" -> {"port?"}
      [] name \in {"start", "start?"} -> {"end", "reclaim_image"}
      [] name = "reclaim_image" -> {"end"}
      [] OTHER -> ThenOfStart(name)

ThenOfBackup(name) ==
    CASE name = "exec_pre" -> {"snapshot"}
      [] name = "stop_strict" -> {"snapshot"}
      [] name = "snapshot" -> {"start?", "exec_post", "end"}
      [] name = "exec_post" -> {"end"}
      [] OTHER -> ThenOfStart(name)

ThenOfRestore(name) ==
    CASE name = "stop_strict" -> {"swap_data"}
      [] name = "swap_data" -> {"set_options"}
      [] name = "set_options" -> {"port?", "end"}
      [] OTHER -> ThenOfStart(name)

Then(op, name) ==
    CASE op = "install" -> ThenOfInstall(name)
      [] op = "uninstall" -> ThenOfUninstall(name)
      [] op = "halt" -> IF name = "halt_stop" THEN {"end"} ELSE {}
      [] op = "update" -> ThenOfUpdate(name)
      [] op = "backup" -> ThenOfBackup(name)
      [] op = "restore" -> ThenOfRestore(name)
      [] op = "restart" -> IF name = "stop" THEN {"port?"} ELSE ThenOfStart(name)
      [] op = "stop" -> IF name = "stop" THEN {"end"} ELSE ThenOfStart(name)
      [] OTHER -> ThenOfStart(name)

First(steps) == IF steps = <<>> THEN "end" ELSE Head(steps)
Follows(op, name, steps) == First(steps) \in Then(op, name)
OnPlan(op, steps) ==
    \A i \in 1..Len(steps) :
       (IF i < Len(steps) THEN steps[i + 1] ELSE "end") \in Then(op, steps[i])

-----------------------------------------------------------------------------
(* Sequences of steps. *)

LEMMA OnPlanNone == ASSUME NEW op PROVE OnPlan(op, <<>>)
BY DEF OnPlan

LEMMA OnPlanRest ==
  ASSUME NEW op, NEW steps \in Seq(StepNames), steps # <<>>, OnPlan(op, steps)
  PROVE  /\ Follows(op, Head(steps), Tail(steps))
         /\ OnPlan(op, Tail(steps))
<1> DEFINE t == Tail(steps)
<1>1. /\ Len(steps) \in Nat /\ Len(steps) > 0 /\ t \in Seq(StepNames)
      /\ Len(t) = Len(steps) - 1 /\ Head(steps) = steps[1]
      /\ \A i \in 1..Len(t) : t[i] = steps[i + 1]
  OBVIOUS
<1>2. Follows(op, Head(steps), t)
  <2>1. t # <<>> => Len(t) > 0 /\ Head(t) = t[1]
    BY <1>1
  <2>2. Len(<<>>) = 0
    OBVIOUS
  <2>3. 1 \in 1..Len(steps)
    BY <1>1
  <2> HIDE DEF t
  <2> QED
    BY <1>1, <2>1, <2>2, <2>3 DEF OnPlan, Follows, First
<1>3. OnPlan(op, t)
  <2> SUFFICES ASSUME NEW i \in 1..Len(t)
               PROVE  (IF i < Len(t) THEN t[i + 1] ELSE "end") \in Then(op, t[i])
    BY DEF OnPlan
  <2>1. i + 1 \in 1..Len(steps) /\ (i < Len(t) <=> i + 1 < Len(steps))
    BY <1>1
  <2>2. i < Len(t) => t[i + 1] = steps[i + 1 + 1]
    BY <1>1
  <2> HIDE DEF t
  <2> QED
    BY <1>1, <2>1, <2>2 DEF OnPlan
<1> QED
  BY <1>2, <1>3

LEMMA OnPlanMore ==
  ASSUME NEW op, NEW name \in StepNames, NEW steps \in Seq(StepNames),
         OnPlan(op, steps), Follows(op, name, steps)
  PROVE  /\ OnPlan(op, <<name>> \o steps) /\ First(<<name>> \o steps) = name
         /\ <<name>> \o steps \in Seq(StepNames) /\ <<name>> \o steps # <<>>
<1> DEFINE q == <<name>> \o steps
<1>1. /\ q \in Seq(StepNames) /\ Len(steps) \in Nat /\ Len(q) = Len(steps) + 1
      /\ q[1] = name /\ \A i \in 1..Len(steps) : q[i + 1] = steps[i]
  OBVIOUS
<1>2. q # <<>> /\ Head(q) = name
  BY <1>1
<1>3. /\ steps = <<>> => Len(steps) = 0
      /\ steps # <<>> => Len(steps) > 0 /\ Head(steps) = steps[1]
  OBVIOUS
<1> HIDE DEF q
<1>4. OnPlan(op, q)
  <2> SUFFICES ASSUME NEW i \in 1..Len(q)
               PROVE  (IF i < Len(q) THEN q[i + 1] ELSE "end") \in Then(op, q[i])
    BY DEF OnPlan
  <2>1. CASE i = 1
    <3>1. (IF i < Len(q) THEN q[i + 1] ELSE "end") = First(steps)
      BY <1>1, <1>3, <2>1 DEF First
    <3> QED
      BY <1>1, <2>1, <3>1 DEF Follows
  <2>2. CASE i > 1
    <3> DEFINE j == i - 1
    <3>1. j \in 1..Len(steps) /\ i = j + 1 /\ (i < Len(q) <=> j < Len(steps))
      BY <1>1, <2>2
    <3>2. q[i] = steps[j] /\ (j < Len(steps) => q[i + 1] = steps[j + 1])
      BY <1>1, <3>1
    <3> HIDE DEF j
    <3> QED
      BY <3>1, <3>2 DEF OnPlan
  <2> QED
    BY <1>1, <2>1, <2>2
<1> QED
  BY <1>1, <1>2, <1>4 DEF First, q

-----------------------------------------------------------------------------
(* What the table says of the steps an operator puts in front of others,   *)
(* and of those it leaves.                                                 *)

LEMMA EndIsNoStep == "end" \notin StepNames /\ "none" \notin StepNames
BY DEF StepNames, TaskSteps

LEMMA FirstFacts ==
  ASSUME NEW steps \in Seq(StepNames)
  PROVE  /\ steps = <<>> <=> First(steps) = "end"
         /\ steps # <<>> => First(steps) = Head(steps) /\ Head(steps) \in StepNames
                          /\ Tail(steps) \in Seq(StepNames)
BY EndIsNoStep, SomeKept DEF First

LEMMA ThenOps ==
  ASSUME NEW op \in Ops, NEW name, Then(op, name) # {}
  PROVE  /\ name \in {"start", "start?", "ensure_image", "mint_token", "stop",
                      "stop_strict", "stop_by_name", "snapshot", "rollback_config",
                      "set_options", "swap_data", "reclaim_image", "exec_post",
                      "exec_pre", "remove_app", "delete_file"} => op # "install"
         /\ name \in {"start", "start?", "ensure_image", "mint_token", "port?", "port",
                      "snapshot", "set_options", "commit", "rollback_config",
                      "stop_strict"} => op # "uninstall"
         /\ op = "halt" <=> name = "halt_stop"
         /\ name = "set_options" => op = "restore"
         /\ name = "commit" => op \in {"install", "update"}
         /\ name = "rollback_config" => op = "update"
         /\ name = "delete_file" => op = "uninstall"
         /\ name = "snapshot" => op \in {"update", "backup"}
         /\ name = "stop_strict" => op \in {"update", "backup", "restore"}
BY DEF Then, ThenOfInstall, ThenOfUninstall, ThenOfStart, ThenOfUpdate, ThenOfBackup,
       ThenOfRestore, Ops

LEMMA ThenInFront ==
  ASSUME NEW op \in Ops
  PROVE  /\ Then(op, "port") = Then(op, "port?")
         /\ Then(op, "start") = Then(op, "start?")
         /\ op \notin {"install", "uninstall", "halt"} =>
              /\ "end" \in Then(op, "start") /\ "end" \in Then(op, "stop_by_name")
              /\ Then(op, "port?") = {"ensure_image"}
              /\ Then(op, "ensure_image") = {"mint_token"}
              /\ Then(op, "mint_token") = {"start"}
         /\ "end" \in Then("uninstall", "stop_by_name")
         /\ "port?" \in Then("update", "rollback_config")
BY DEF Then, ThenOfInstall, ThenOfUninstall, ThenOfStart, ThenOfUpdate, ThenOfBackup,
       ThenOfRestore, Ops

-----------------------------------------------------------------------------
(* The invariant. *)

(* The keys an interrupted uninstall may have dropped before their facts.  *)
Owed == IF "uninstall" \in Commands THEN {"ingress", "port"} ELSE {}
KeysKept(s) == s.keys \subseteq Keys(s) /\ Keys(s) \ s.keys \subseteq Owed

(* A process without a record: a dynamic port may be taken for the version *)
(* an install is about to commit.                                          *)
Blank(s) ==
    /\ ~s.token /\ ~s.ip /\ ~s.refused /\ s.cid = 0
    /\ s.keys = IF s.port THEN {"port"} ELSE {}
    /\ s.port => IngressOf[1] = "dynamic"

(* With a dynamic port, the start of an app that already runs may fail     *)
(* between its token and its container (RollbackPort.cfg), so what is said *)
(* of tokens is said for the other apps.                                   *)
NoPorts == \A v \in Versions : IngressOf[v] # "dynamic"
Backed(s) == Alive(s) /\ (box.up /\ box.id = s.cid => box.ver = s.ver)
TokenBacked(s) == NoPorts /\ s.token => Backed(s)

(* The steps of an update that find no container held. *)
Between == {"snapshot", "commit", "rollback_config", "start?", "port?", "port",
            "ensure_image", "mint_token", "start"}
Stops == {"stop", "stop_strict", "stop_by_name", "halt_stop"}

(* A token may be ahead of its container just before a start, and all      *)
(* through a rollback, whose failed start leaves the token it was given.   *)
Going(name, run) ==
    \/ name = "start"
    \/ /\ run.cause /\ run.op = "update"
       /\ name \in {"rollback_config", "port?", "ensure_image", "mint_token"}

At(name, s) ==
    /\ s.run.op = "update" /\ name \in Between => s.cid = 0
    /\ name = "port" => IngressOf[IF s.ver = 0 THEN 1 ELSE s.ver] = "dynamic"
    /\ name \in Stops \/ Going(name, s.run) \/ TokenBacked(s)

(* The record of an operation in flight, within its handlers too. *)
Record(s) == IF s.ver = 0 THEN s.run.op = "install" /\ Blank(s)
             ELSE (s.run.op # "install" => s.run.old # 0) /\ KeysKept(s)

OnTrack(s) ==
    /\ s.st = "busy" /\ s.run.op \in Ops /\ ~s.probing
    /\ s.token \/ s.ip => ~Native
    /\ s.refused => s.run.op \in {"uninstall", "halt"}
    /\ s.gone => s.run.op \in {"uninstall", "halt"} /\ s.retired /\ ~s.save
    /\ s.run.op = "uninstall" => "uninstall" \in Commands /\ s.retired
    /\ Record(s)

(* With a step at hand and the rest of its plan behind it. *)
Here(name, s) ==
    /\ OnPlan(s.run.op, s.run.steps) /\ Follows(s.run.op, name, s.run.steps)
    /\ s.run.op = "install" => s.ver = 0
    /\ At(name, s)

(* Between events a task step is in flight, and what stops the container   *)
(* has revoked its token first.                                            *)
AtWork(s) == /\ s.run.step \in TaskSteps /\ Here(s.run.step, s)
             /\ s.run.step \in Stops => ~s.token

(* In a handler that has not yet reached its next task step. *)
Ready(s) ==
    /\ OnPlan(s.run.op, s.run.steps) /\ At(First(s.run.steps), s)
    /\ s.run.op = "install" => IF s.run.steps = <<>> THEN s.ver # 0 /\ s.save
                               ELSE s.ver = 0
    /\ s.run.op \in {"uninstall", "halt"} => ~s.save
    /\ s.run.op = "halt" => s.run.steps # <<>>

(* In a handler that has ended the operation. *)
Over(s) ==
    /\ s.gone \/ s.ver = 0 => s.fate = "exit"
    /\ s.run.op = "install" /\ s.fate # "exit" => s.save
    /\ s.reply = "ok" /\ s.run.op \in Durable => s.save /\ s.fate # "exit"
    /\ s.fate # "exit" => TokenBacked(s)

Mid(s) == OnTrack(s) /\ IF s.fate = "stay" THEN Ready(s) ELSE Over(s)
Out(s) == OnTrack(s) /\ IF s.fate = "stay" THEN AtWork(s) /\ s.run.task = "running"
                        ELSE Over(s)

Resting(s) ==
    /\ s.run = NoRun /\ ~s.gone /\ ~s.retired
    /\ s.probing => s.st = "idle" /\ s.cid # 0
    /\ s.refused => s.st \in {"refused", "shutting_down"}
    /\ s.token \/ s.ip => ~Native
    /\ s.st \in {"down", "new"} => s.ver = 0
    /\ s.st = "new" => Blank(s) /\ ~s.port
    /\ s.st \notin {"down", "new"} => s.ver # 0 /\ KeysKept(s) /\ TokenBacked(s)

OptionsKept ==
    acked => /\ file.ver # 0 => file.opt = "user"
             /\ p.run.op # "install"
             /\ p.ver # 0 /\ ~p.refused =>
                   p.opt = "user" /\ (p.run.op = "restore" => p.touched)

StartReported ==
    p.run.step = "start" /\ p.run.task = "ok" => box.id # 0 /\ box.ver = p.ver

Planned ==
    /\ ~p.save
    /\ IF p.st = "busy" THEN OnTrack(p) /\ AtWork(p) ELSE Resting(p)
    /\ file.ver = 0 => p.ver = 0 \/ p.gone
    /\ OptionsKept /\ StartReported /\ SuccessIsOnDisk

-----------------------------------------------------------------------------
(* Operators that change nothing the invariant reads. *)

Facts(s, t) ==
    /\ t.token = s.token /\ t.ip = s.ip /\ t.cid = s.cid /\ t.ev = s.ev
    /\ t.ver = s.ver /\ t.port = s.port /\ t.keys = s.keys /\ t.gone = s.gone
    /\ t.save = s.save /\ (s.run.cause => t.run.cause)

Agree(s, t) == Constant(s, t) /\ Facts(s, t)

LEMMA KeysAgree ==
  ASSUME NEW s \in Procs, NEW t \in Procs, t.token = s.token, t.ip = s.ip, t.ver = s.ver,
         t.refused = s.refused, t.port = s.port
  PROVE  DnsKeys(t) = DnsKeys(s) /\ IngressKeys(t) = IngressKeys(s) /\ Keys(t) = Keys(s)
<1>1. DnsKeys(t) = DnsKeys(s)
  BY DEF DnsKeys
<1>2. IngressKeys(t) = IngressKeys(s)
  BY DEF IngressKeys
<1> QED
  BY <1>1, <1>2 DEF Keys

LEMMA TokenBackedAgrees ==
  ASSUME NEW s \in Procs, NEW t \in Procs, Facts(s, t), TokenBacked(s) PROVE TokenBacked(t)
BY DEF Facts, TokenBacked, Backed, Alive

LEMMA KeepTrack ==
  ASSUME NEW s \in Procs, NEW t \in Procs, OnTrack(s), Constant(s, t), t.token = s.token,
         t.ip = s.ip, t.ver = s.ver, t.port = s.port, t.keys = s.keys, t.gone = s.gone,
         t.cid = s.cid \/ t.cid = 0, t.save => s.save \/ ~s.gone
  PROVE  OnTrack(t)
<1>1. Keys(t) = Keys(s)
  BY KeysAgree DEF Constant
<1>2. Record(t)
  BY <1>1 DEF OnTrack, Constant, Record, Blank, KeysKept
<1> QED
  BY <1>2 DEF OnTrack, Constant

LEMMA AgreeTrack ==
  ASSUME NEW s \in Procs, NEW t \in Procs, Agree(s, t)
  PROVE  /\ OnTrack(s) => OnTrack(t)
         /\ \A name : At(name, s) => At(name, t)
<1>1. OnTrack(s) => OnTrack(t)
  BY KeepTrack DEF Agree, Facts
<1>2. ASSUME NEW name, At(name, s) PROVE At(name, t)
  <2>1. TokenBacked(s) => TokenBacked(t)
    BY TokenBackedAgrees DEF Agree
  <2>2. Going(name, s.run) => Going(name, t.run)
    BY DEF Agree, Constant, Facts, Going
  <2> QED
    BY <1>2, <2>1, <2>2 DEF Agree, Constant, Facts, At
<1> QED
  BY <1>1, <1>2

LEMMA PutAgrees ==
  ASSUME NEW s \in Procs, NEW v
  PROVE  /\ Facts(s, PutSteps(s, v)) /\ Facts(s, [s EXCEPT !.run.cleaned = v])
         /\ Facts(s, [s EXCEPT !.run.result = v]) /\ Facts(s, [s EXCEPT !.run.image = v])
         /\ Facts(s, [s EXCEPT !.run.cause = TRUE]) /\ Facts(s, [s EXCEPT !.run.was = v])
BY DEF Facts, PutSteps, Procs, Runs

LEMMA LadderAgrees ==
  ASSUME NEW s \in Procs, NEW reason
  PROVE  /\ Agree(s, Retry(s)) /\ Agree(s, ImageRetry(s, reason))
         /\ Agree(s, CancelTimers(s)) /\ Agree(s, s)
<1>1. Facts(s, Retry(s)) /\ Facts(s, s)
  BY DEF Facts, Retry, Procs
<1>2. Facts(s, ImageRetry(s, reason))
  BY DEF Facts, ImageRetry, Procs
<1>3. Facts(s, CancelTimers(s))
  BY DEF Facts, CancelTimers, Procs
<1>4. Constant(s, s)
  BY DEF Constant
<1> QED
  BY <1>1, <1>2, <1>3, <1>4, RetryFrame, ImageRetryFrame, CancelTimersFrame
  DEF Agree, Frame

-----------------------------------------------------------------------------
(* From one step to the next. *)

(* A step of the plan at hand, in a handler that goes on. *)
OnHand(name, s) == /\ OnTrack(s) /\ Here(name, s) /\ s.fate = "stay"
                   /\ s.run.op \in {"uninstall", "halt"} => ~s.save

LEMMA GoingOn ==
  ASSUME NEW run, run.op \in Ops, NEW name, Going(name, run), name # "start",
         NEW next \in Then(run.op, name)
  PROVE  Going(next, run)
BY DEF Going, Then, ThenOfUpdate, ThenOfStart

LEMMA AtNext ==
  ASSUME NEW s \in Procs, s.run.op \in Ops, NEW name, At(name, s),
         name \notin Stops \cup {"start"}, NEW next \in Then(s.run.op, name)
  PROVE  At(next, s)
<1>1. next # "port"
  BY DEF Then, ThenOfInstall, ThenOfUninstall, ThenOfStart, ThenOfUpdate, ThenOfBackup,
         ThenOfRestore
<1>2. s.run.op = "update" /\ next \in Between => name \in Between
  BY DEF Then, ThenOfUpdate, ThenOfStart, Between, Stops
<1>3. Going(next, s.run) \/ TokenBacked(s)
  BY GoingOn DEF At
<1> QED
  BY <1>1, <1>2, <1>3 DEF At

LEMMA Onward ==
  ASSUME NEW s \in Procs, NEW t \in Procs, NEW name, OnHand(name, s),
         name # "halt_stop", name = "commit" => s.run.op # "install",
         OnTrack(t), t.fate = "stay", t.run.steps = s.run.steps, t.run.op = s.run.op,
         s.run.op = "install" => t.ver = s.ver,
         s.run.op \in {"uninstall", "halt"} => ~t.save,
         At(First(t.run.steps), t)
  PROVE  Mid(t)
<1>1. s.run.steps \in Seq(StepNames) /\ s.run.op \in Ops
  BY DEF Procs, Runs, OnHand, OnTrack
<1>2. Then(s.run.op, name) # {} /\ First(s.run.steps) \in Then(s.run.op, name)
  BY DEF OnHand, Here, Follows
<1>3. s.run.op # "halt"
  BY <1>1, <1>2, ThenOps
<1>4. s.run.op = "install" => s.run.steps # <<>>
  <2>1. ASSUME s.run.op = "install" PROVE "end" \notin Then(s.run.op, name)
    BY <2>1 DEF Then, ThenOfInstall
  <2> QED
    BY <1>1, <1>2, <2>1, FirstFacts
<1> QED
  BY <1>3, <1>4 DEF Mid, Ready, OnHand, Here

LEMMA OnwardSame ==
  ASSUME NEW s \in Procs, NEW t \in Procs, NEW name, OnHand(name, s),
         name \notin Stops \cup {"start"}, name = "commit" => s.run.op # "install",
         Agree(s, t), t.fate = "stay", t.run.steps = s.run.steps
  PROVE  Mid(t)
<1>1. OnTrack(t) /\ At(name, t)
  BY AgreeTrack DEF OnHand, Here
<1>2. t.run.op \in Ops /\ First(t.run.steps) \in Then(t.run.op, name)
  BY DEF OnHand, Here, Follows, OnTrack, Agree, Constant
<1>3. At(First(t.run.steps), t)
  BY <1>1, <1>2, AtNext
<1> QED
  BY <1>1, <1>3, Onward DEF Agree, Constant, Facts, OnHand, Stops

(* Other steps put in front of what is left, or in its place. *)
LEMMA Instead ==
  ASSUME NEW s \in Procs, NEW steps \in Seq(StepNames), OnTrack(s), s.fate = "stay",
         s.run.op \notin {"install", "halt"}, s.run.op = "uninstall" => ~s.save,
         OnPlan(s.run.op, steps), At(First(steps), s)
  PROVE  PutSteps(s, steps) \in Procs /\ Mid(PutSteps(s, steps))
<1> DEFINE t == PutSteps(s, steps)
<1>1. t \in Procs /\ Agree(s, t) /\ t.fate = "stay"
  BY PutStepsType, PutStepsFrame, PutAgrees DEF Agree, Frame
<1>2. t.run.steps = steps
  BY DEF PutSteps, Procs, Runs
<1> HIDE DEF t
<1>3. OnTrack(t) /\ At(First(t.run.steps), t)
  BY <1>1, <1>2, AgreeTrack
<1>4. Mid(t)
  BY <1>1, <1>2, <1>3 DEF Mid, Ready, Agree, Constant, Facts
<1> QED
  BY <1>1, <1>4 DEF t

LEMMA StartStepsOnPlan ==
  ASSUME NEW op \in Ops, op \notin {"install", "uninstall", "halt"},
         NEW steps \in Seq(StepNames), OnPlan(op, steps), Follows(op, "start", steps)
  PROVE  /\ OnPlan(op, StartSteps \o steps) /\ First(StartSteps \o steps) = "port?"
         /\ StartSteps \o steps \in Seq(StepNames)
<1> DEFINE q1 == <<"start">> \o steps
           q2 == <<"mint_token">> \o q1
           q3 == <<"ensure_image">> \o q2
           q4 == <<"port?">> \o q3
<1>0. {"start", "mint_token", "ensure_image", "port?"} \subseteq StepNames
  BY DEF StepNames, TaskSteps
<1>1. OnPlan(op, q1) /\ First(q1) = "start" /\ q1 \in Seq(StepNames)
  BY <1>0, OnPlanMore
<1>2. /\ "start" \in Then(op, "mint_token") /\ "mint_token" \in Then(op, "ensure_image")
      /\ "ensure_image" \in Then(op, "port?")
  BY ThenInFront
<1>3. StartSteps \o steps = q4
  BY DEF StartSteps
<1> HIDE DEF q1
<1>4. OnPlan(op, q2) /\ First(q2) = "mint_token" /\ q2 \in Seq(StepNames)
  BY <1>0, <1>1, <1>2, OnPlanMore DEF Follows
<1> HIDE DEF q2
<1>5. OnPlan(op, q3) /\ First(q3) = "ensure_image" /\ q3 \in Seq(StepNames)
  BY <1>0, <1>2, <1>4, OnPlanMore DEF Follows
<1> HIDE DEF q3
<1>6. OnPlan(op, q4) /\ First(q4) = "port?" /\ q4 \in Seq(StepNames)
  BY <1>0, <1>2, <1>5, OnPlanMore DEF Follows
<1> QED
  BY <1>3, <1>6

LEMMA OnlyOnPlan ==
  ASSUME NEW op, NEW name \in StepNames, "end" \in Then(op, name)
  PROVE  OnPlan(op, <<name>>) /\ First(<<name>>) = name /\ <<name>> \in Seq(StepNames)
<1>1. Len(<<name>>) = 1 /\ <<name>>[1] = name /\ Head(<<name>>) = name /\ <<name>> # <<>>
  OBVIOUS
<1> QED
  BY <1>1 DEF OnPlan, First

-----------------------------------------------------------------------------
(* The local steps. *)

LEMMA RecordAtPlan ==
  ASSUME NEW s \in Procs, OnTrack(s), s.run.op # "install"
  PROVE  /\ s.ver # 0 /\ s.run.old # 0 /\ KeysKept(s)
         /\ s.run.op \notin {"uninstall", "halt"} => ~s.refused /\ ~s.gone
BY DEF OnTrack, Record

LEMMA MintMid ==
  ASSUME NEW s \in Procs, OnHand("mint_token", s), ~Native
  PROVE  LET t == [s EXCEPT !.token = TRUE, !.keys = s.keys \cup {"token"}]
         IN  t \in Procs => Mid(t)
<1> DEFINE k == s.keys \cup {"token"}
           t == [s EXCEPT !.token = TRUE, !.keys = k]
<1> SUFFICES ASSUME t \in Procs PROVE Mid(t)
  OBVIOUS
<1>1. /\ Constant(s, t) /\ t.token /\ t.keys = k /\ t.run = s.run /\ t.fate = "stay"
      /\ t.ip = s.ip /\ t.ver = s.ver /\ t.port = s.port /\ t.cid = s.cid
      /\ t.gone = s.gone /\ t.save = s.save
  BY DEF Procs, Constant, OnHand
<1> HIDE DEF t
<1>2. s.run.op \in Ops /\ s.run.op \notin {"install", "uninstall", "halt"}
  BY ThenOps DEF OnHand, OnTrack, Here, Follows
<1>3. First(s.run.steps) = "start"
  BY <1>2, ThenInFront DEF OnHand, Here, Follows
<1>4. s.ver # 0 /\ s.run.old # 0 /\ KeysKept(s) /\ ~s.refused /\ ~s.gone
  BY <1>2, RecordAtPlan DEF OnHand
<1>5. Keys(t) = Keys(s) \cup {"token"}
  <2>1. DnsKeys(t) = DnsKeys(s) /\ IngressKeys(t) = IngressKeys(s)
    BY <1>1 DEF DnsKeys, IngressKeys, Constant
  <2> QED
    BY <1>1, <2>1 DEF Keys
<1>6. KeysKept(t)
  BY <1>1, <1>4, <1>5 DEF KeysKept
<1>7. OnTrack(t)
  BY <1>1, <1>2, <1>4, <1>6 DEF OnHand, OnTrack, Constant, Record
<1>8. At("start", t)
  BY <1>1 DEF OnHand, Here, At, Between, Going
<1> QED
  BY <1>1, <1>2, <1>3, <1>7, <1>8, Onward DEF Constant

LEMMA ReconfigureRecord ==
  ASSUME NEW s \in Procs, NEW version \in Versions, KeysKept(s), s.ver # 0
  PROVE  LET t == Reconfigure(s, version)
         IN  /\ t.ver = version /\ KeysKept(t) /\ t.run = s.run /\ t.fate = s.fate
             /\ t.token = s.token /\ t.ip = s.ip /\ t.cid = s.cid /\ t.gone = s.gone
             /\ t.ev = s.ev
<1> DEFINE d == [s EXCEPT !.ver = version,
                          !.port = s.port /\ IngressOf[version] = "dynamic"]
           k == (d.keys \cup (IngressKeys(d) \ IngressKeys(s)))
                \ (IngressKeys(s) \ IngressKeys(d))
           t == [d EXCEPT !.keys = k, !.save = TRUE]
<1>1. version # 0 /\ version \in SavedVersions
  BY DEF Versions, SavedVersions
<1>2. /\ d \in Procs /\ d.ver = version /\ d.run = s.run /\ d.fate = s.fate
      /\ d.token = s.token /\ d.ip = s.ip /\ d.cid = s.cid /\ d.gone = s.gone
      /\ d.ev = s.ev /\ d.keys = s.keys
  BY ZenonT(60), <1>1 DEF Procs
<1>3. DnsKeys(d) = DnsKeys(s)
  BY <1>1, <1>2 DEF DnsKeys
<1> HIDE DEF d
<1>4. k \in KeySets
  BY <1>2, IngressKeysType DEF KeySets, Procs
<1>5. /\ Keys(s) = (IF s.token THEN {"token"} ELSE {}) \cup DnsKeys(s) \cup IngressKeys(s)
      /\ Keys(d) = (IF s.token THEN {"token"} ELSE {}) \cup DnsKeys(s) \cup IngressKeys(d)
  BY <1>2, <1>3 DEF Keys
<1>6. /\ IngressKeys(s) \subseteq {"ingress", "port"}
      /\ IngressKeys(d) \subseteq {"ingress", "port"}
      /\ DnsKeys(s) \subseteq {"dns"}
  BY DEF IngressKeys, DnsKeys
<1>7. k \subseteq Keys(d) /\ Keys(d) \ k \subseteq Owed
  BY <1>2, <1>5, <1>6 DEF KeysKept
<1> HIDE DEF k
<1>8. /\ t \in Procs /\ t.ver = version /\ t.run = s.run /\ t.fate = s.fate
      /\ t.token = s.token /\ t.ip = s.ip /\ t.cid = s.cid /\ t.gone = s.gone
      /\ t.ev = s.ev /\ t.keys = k /\ t.refused = d.refused /\ t.port = d.port
  BY <1>2, <1>4 DEF Procs
<1>9. t = Reconfigure(s, version)
  BY DEF Reconfigure, d, k
<1> HIDE DEF t
<1>10. Keys(t) = Keys(d)
  BY <1>2, <1>8, KeysAgree
<1> QED
  BY <1>7, <1>8, <1>9, <1>10 DEF KeysKept

LEMMA ReconfigureMid ==
  ASSUME NEW s \in Procs, NEW name, name \in {"commit", "rollback_config"},
         OnHand(name, s), s.run.op = "update", NEW version \in Versions
  PROVE  Mid(Reconfigure(s, version))
<1> DEFINE t == Reconfigure(s, version)
<1>1. version # 0 /\ version \in SavedVersions
  BY DEF Versions, SavedVersions
<1>2. t \in Procs /\ Frame(s, t)
  BY <1>1, ReconfigureType, ReconfigureFrame
<1>3. s.ver # 0 /\ s.run.old # 0 /\ KeysKept(s) /\ ~s.refused /\ ~s.gone
  BY RecordAtPlan DEF OnHand
<1>4. /\ t.ver = version /\ KeysKept(t) /\ t.run = s.run /\ t.fate = s.fate
      /\ t.token = s.token /\ t.ip = s.ip /\ t.cid = s.cid /\ t.gone = s.gone
  BY <1>3, ReconfigureRecord
<1> HIDE DEF t
<1>5. OnTrack(t)
  BY <1>1, <1>2, <1>3, <1>4 DEF OnHand, OnTrack, Record, Frame, Constant
<1>6. s.cid = 0
  BY DEF OnHand, Here, At, Between
<1>7. At(First(s.run.steps), s)
  BY AtNext DEF OnHand, OnTrack, Here, Follows, Stops
<1>8. At(First(s.run.steps), t)
  <2>1. First(s.run.steps) # "port"
    BY DEF OnHand, Here, Follows, Then, ThenOfUpdate, ThenOfStart
  <2>2. TokenBacked(s) => TokenBacked(t)
    BY <1>4, <1>6 DEF TokenBacked, Backed, Alive
  <2> QED
    BY <1>4, <1>7, <2>1, <2>2 DEF At
<1>9. Mid(t)
  BY <1>2, <1>4, <1>5, <1>8, Onward DEF OnHand, Frame, Constant
<1> QED
  BY <1>9 DEF t

LEMMA CommitInstallMid ==
  ASSUME NEW s \in Procs, OnHand("commit", s), s.run.op = "install"
  PROVE  Mid(CommitInstall(s))
<1> DEFINE wanted == IF s.run.starts THEN "started" ELSE "stopped"
           watchdog == s.watchdog \/ s.run.starts
           d == [s EXCEPT !.ver = 1, !.save = TRUE, !.watchdog = watchdog,
                          !.wanted = wanted]
           k == d.keys \cup (IngressKeys(d) \cap {"ingress"})
           t == [d EXCEPT !.keys = k]
<1>1. s.ver = 0 /\ Blank(s) /\ ~s.gone
  BY DEF OnHand, Here, OnTrack, Record
<1>2. 1 \in SavedVersions /\ wanted \in Wants /\ watchdog \in BOOLEAN
  <2>1. s.watchdog \in BOOLEAN /\ s.run.starts \in BOOLEAN
    BY DEF Procs, Runs
  <2> QED
    BY <2>1 DEF SavedVersions, Versions, Wants
<1> HIDE DEF wanted, watchdog
<1>3. /\ d \in Procs /\ d.ver = 1 /\ d.save /\ d.keys = s.keys /\ d.port = s.port
      /\ ~d.token /\ ~d.ip /\ ~d.refused /\ d.run = s.run
  BY ZenonT(60), <1>1, <1>2 DEF Procs, Blank
<1> HIDE DEF d
<1>4. k \in KeySets
  BY <1>3, IngressKeysType DEF KeySets, Procs
<1> HIDE DEF k
<1>5. /\ t.ver = 1 /\ t.save /\ t.keys = k /\ t.port = s.port
      /\ ~t.token /\ ~t.ip /\ ~t.refused /\ t.run = s.run
  BY <1>3, <1>4 DEF Procs
<1>6. t = CommitInstall(s)
  BY DEF CommitInstall, d, k, wanted, watchdog
<1> HIDE DEF t
<1>7. t \in Procs /\ Frame(s, t)
  BY <1>6, CommitInstallType, CommitInstallFrame
<1>8. IngressKeys(d) = (IF IngressOf[1] # "none" THEN {"ingress"} ELSE {})
                       \cup (IF IngressOf[1] = "dynamic" /\ s.port THEN {"port"} ELSE {})
  BY <1>3 DEF IngressKeys
<1>9. Keys(t) = IngressKeys(d)
  BY <1>5, <1>8 DEF Keys, DnsKeys, IngressKeys
<1>10. k = Keys(t)
  BY <1>1, <1>3, <1>8, <1>9 DEF Blank, k
<1>11. KeysKept(t)
  BY <1>5, <1>10 DEF KeysKept
<1>12. t.gone = s.gone
  BY <1>6, <1>3 DEF CommitInstall, Procs
<1>13. OnTrack(t)
  BY <1>1, <1>5, <1>7, <1>11, <1>12 DEF OnHand, OnTrack, Record, Frame, Constant
<1>14. s.run.steps = <<>>
  <2>1. First(s.run.steps) = "end"
    BY DEF OnHand, Here, Follows, Then, ThenOfInstall
  <2> QED
    BY <2>1, FirstFacts DEF Procs, Runs
<1> QED
  BY <1>5, <1>6, <1>7, <1>13, <1>14
  DEF Mid, Ready, OnHand, Here, At, First, TokenBacked, Frame, Constant

-----------------------------------------------------------------------------
(* Ends. *)

(* Fields of a record that no end changes but for what it asks to be saved *)
(* and answered.                                                           *)
Ended(s, t) ==
    /\ Constant(s, t)
    /\ t.token = s.token /\ t.ip = s.ip /\ t.cid = s.cid /\ t.ev = s.ev
    /\ t.ver = s.ver /\ t.port = s.port /\ t.keys = s.keys /\ t.gone = s.gone

LEMMA EndedTrack ==
  ASSUME NEW s \in Procs, NEW t \in Procs, Ended(s, t), OnTrack(s), t.save => s.save \/ ~s.gone
  PROVE  OnTrack(t) /\ (TokenBacked(s) => TokenBacked(t))
BY KeepTrack DEF Ended, TokenBacked, Backed, Alive

LEMMA CloseOut ==
  ASSUME NEW s \in Procs, NEW reply \in Replies, reply # "none", OnTrack(s),
         TokenBacked(s), ~s.gone, s.run.op # "install"
  PROVE  Out(Close(s, reply)) /\ Close(s, reply).fate = "idle"
<1> DEFINE d == CASE s.run.image # "none" -> ImageRetry(s, s.run.image)
                  [] s.run.image = "none" /\ (s.run.retry \/ s.run.cleaned) -> Retry(s)
                  [] OTHER -> s
           t == [d EXCEPT !.save = TRUE, !.reply = reply, !.fate = "idle"]
<1>1. d \in Procs /\ Agree(s, d)
  BY ImageRetryType, RetryType, LadderAgrees
<1> HIDE DEF d
<1>2. /\ t.save /\ t.reply = reply /\ t.fate = "idle" /\ t.run = d.run /\ t.ver = d.ver
      /\ Ended(d, t)
  BY <1>1 DEF Procs, Ended, Constant
<1>3. t = Close(s, reply)
  BY DEF Close, d
<1> HIDE DEF t
<1>4. t \in Procs /\ Ended(s, t)
  BY <1>1, <1>2, <1>3, CloseType DEF Agree, Facts, Ended, Constant
<1>5. OnTrack(t) /\ TokenBacked(t)
  BY <1>4, EndedTrack
<1>6. s.ver # 0
  BY DEF OnTrack, Record
<1> QED
  BY <1>2, <1>3, <1>4, <1>5, <1>6 DEF Out, Over, Ended, Constant

LEMMA FailOut ==
  ASSUME NEW s \in Procs, OnTrack(s), TokenBacked(s) PROVE Out(Fail(s)) /\ Fail(s).fate # "stay"
<1>1. CASE s.run.op = "install" \/ s.gone
  <2> DEFINE t == [s EXCEPT !.reply = "error", !.fate = "exit"]
  <2>1. t = Fail(s)
    BY <1>1 DEF Fail
  <2>2. Ended(s, t) /\ t.fate = "exit" /\ t.reply = "error" /\ t.save = s.save
    BY DEF Procs, Ended, Constant
  <2> HIDE DEF t
  <2>3. t \in Procs
    BY <2>1, FailType
  <2>4. OnTrack(t)
    BY <2>2, <2>3, EndedTrack
  <2> QED
    BY <2>1, <2>2, <2>4 DEF Out, Over
<1>2. CASE ~(s.run.op = "install" \/ s.gone)
  <2>1. Fail(s) = Close(s, "error") /\ "error" \in Replies
    BY <1>2 DEF Fail, Replies
  <2> QED
    BY <1>2, <2>1, CloseOut
<1> QED
  BY <1>1, <1>2

LEMMA FinishOut ==
  ASSUME NEW s \in Procs, OnTrack(s), TokenBacked(s), s.run.op # "halt",
         s.run.op = "install" => s.ver # 0 /\ s.save
  PROVE  Out(Finish(s))
<1> DEFINE t == Finish(s)
           reply == IF s.run.result = "none" THEN "ok" ELSE s.run.result
<1>1. t \in Procs
  BY FinishType
<1>2. CASE s.run.op = "install"
  <2> DEFINE u == [s EXCEPT !.reply = "ok", !.fate = "idle"]
  <2>1. t = u
    BY <1>2 DEF Finish
  <2>2. Ended(s, u) /\ u.fate = "idle" /\ u.save = s.save
    BY DEF Procs, Ended, Constant
  <2> HIDE DEF t, u
  <2>3. OnTrack(t) /\ TokenBacked(t)
    BY <1>1, <2>1, <2>2, EndedTrack
  <2> QED
    BY <1>2, <2>1, <2>2, <2>3 DEF Out, Over, Ended, Constant, OnTrack, t
<1>3. CASE s.run.op = "uninstall"
  <2> DEFINE u == [s EXCEPT !.reply = "ok", !.fate = "exit"]
  <2>1. t = u
    BY <1>3 DEF Finish
  <2>2. Ended(s, u) /\ u.fate = "exit" /\ u.save = s.save
    BY DEF Procs, Ended, Constant
  <2> HIDE DEF t, u
  <2>3. OnTrack(t) /\ TokenBacked(t)
    BY <1>1, <2>1, <2>2, EndedTrack
  <2> QED
    BY <1>3, <2>1, <2>2, <2>3 DEF Out, Over, Ended, Constant, Durable, t
<1>4. CASE s.run.op \notin {"install", "uninstall"}
  <2> DEFINE u == [s EXCEPT !.save = TRUE, !.fate = "idle", !.reply = reply]
  <2>1. t = u
    BY <1>4 DEF Finish
  <2>2. Ended(s, u) /\ u.fate = "idle" /\ u.save
    BY DEF Procs, Ended, Constant
  <2> HIDE DEF t, u
  <2>3. s.ver # 0 /\ ~s.gone
    BY <1>4 DEF OnTrack, Record
  <2>4. OnTrack(t) /\ TokenBacked(t)
    BY <1>1, <2>1, <2>2, <2>3, EndedTrack
  <2> QED
    BY <2>1, <2>2, <2>3, <2>4 DEF Out, Over, Ended, Constant, t
<1> QED
  BY <1>2, <1>3, <1>4

LEMMA EndMid == ASSUME NEW s, Out(s), s.fate # "stay" PROVE Mid(s)
BY DEF Out, Mid

LEMMA DeleteFileMid ==
  ASSUME NEW s \in Procs, OnHand("delete_file", s), s.run.op = "uninstall"
  PROVE  Mid(DeleteFile(s))
<1>1. s.ver # 0 /\ KeysKept(s) /\ s.retired /\ ~s.save /\ TokenBacked(s)
  BY RecordAtPlan DEF OnHand, OnTrack, Here, At, Stops, Going
<1>2. CASE s.disk
  <2> DEFINE t == [s EXCEPT !.gone = TRUE]
  <2>1. /\ t \in Procs /\ Constant(s, t) /\ t.token = s.token /\ t.ip = s.ip
        /\ t.cid = s.cid /\ t.ev = s.ev /\ t.ver = s.ver /\ t.port = s.port
        /\ t.keys = s.keys /\ t.save = s.save /\ t.fate = s.fate /\ t.run = s.run
    BY DEF Procs, Constant
  <2> HIDE DEF t
  <2>2. Keys(t) = Keys(s)
    BY <2>1, KeysAgree DEF Constant
  <2>3. OnTrack(t)
    BY <1>1, <2>1, <2>2 DEF OnHand, OnTrack, Constant, Record, KeysKept
  <2>4. At(First(t.run.steps), t)
    <3>1. First(t.run.steps) = "remove_app"
      BY <2>1 DEF OnHand, Here, Follows, Then, ThenOfUninstall
    <3>2. TokenBacked(t)
      BY <1>1, <2>1 DEF TokenBacked, Backed, Alive
    <3> QED
      BY <3>1, <3>2 DEF At, Between
  <2>5. Mid(t)
    BY <1>1, <2>1, <2>3, <2>4, Onward DEF OnHand
  <2> QED
    BY <1>2, <2>5 DEF DeleteFile, t
<1>3. CASE ~s.disk
  <2> DEFINE k == s.keys \cup IngressKeys(s)
             t == [s EXCEPT !.keys = k]
  <2>1. k \in KeySets
    BY IngressKeysType DEF KeySets, Procs
  <2>2. k \subseteq Keys(s) /\ Keys(s) \ k \subseteq Owed
    BY <1>1 DEF KeysKept, Keys
  <2> HIDE DEF k
  <2>3. /\ t \in Procs /\ Constant(s, t) /\ t.token = s.token /\ t.ip = s.ip
        /\ t.cid = s.cid /\ t.ev = s.ev /\ t.ver = s.ver /\ t.port = s.port
        /\ t.keys = k /\ t.save = s.save /\ t.gone = s.gone
    BY <2>1 DEF Procs, Constant
  <2> HIDE DEF t
  <2>4. Keys(t) = Keys(s)
    BY <2>3, KeysAgree DEF Constant
  <2>5. OnTrack(t)
    BY <1>1, <2>2, <2>3, <2>4 DEF OnHand, OnTrack, Constant, Record, KeysKept
  <2>6. TokenBacked(t)
    BY <1>1, <2>3 DEF TokenBacked, Backed, Alive
  <2>7. Mid(Fail(t))
    BY <2>3, <2>5, <2>6, FailOut, EndMid
  <2> QED
    BY <1>3, <2>7 DEF DeleteFile, t, k
<1> QED
  BY <1>2, <1>3

-----------------------------------------------------------------------------
(* How many local steps can follow each other in one handler. *)

MaybeLocal == LocalNames \cup {"ensure_image", "set_options"}

Depth(op, name) ==
    CASE op = "install" /\ name = "port?" -> 2
      [] op = "install" /\ name = "commit" -> 1
      [] op # "install" /\ name = "commit" -> 5
      [] op # "install" /\ name = "port?" -> 3
      [] name \in {"rollback_config", "start?", "set_options"} -> 4
      [] name = "ensure_image" -> 2
      [] name \in {"mint_token", "delete_file"} -> 1
      [] OTHER -> 0

LEMMA DepthFacts ==
  ASSUME NEW op \in Ops, NEW name
  PROVE  /\ Depth(op, name) \in 0..5
         /\ name \in MaybeLocal /\ Then(op, name) # {} => Depth(op, name) > 0
         /\ Depth(op, "port") = 0 /\ Depth(op, "end") = 0
         /\ Depth(op, "port?") < Depth(op, "start?")
BY DEF Depth, MaybeLocal, LocalNames

LEMMA DepthFalls ==
  ASSUME NEW op \in Ops, NEW name \in MaybeLocal, NEW next \in Then(op, name)
  PROVE  Depth(op, next) < Depth(op, name)
<1>1. CASE name \in {"port?", "ensure_image", "mint_token"}
  BY <1>1 DEF Depth, Then, ThenOfInstall, ThenOfUninstall, ThenOfStart, ThenOfUpdate,
         ThenOfBackup, ThenOfRestore
<1>2. CASE name \in {"start?", "commit", "rollback_config"}
  BY <1>2 DEF Depth, Then, ThenOfInstall, ThenOfUninstall, ThenOfStart, ThenOfUpdate,
         ThenOfBackup, ThenOfRestore
<1>3. CASE name \in {"delete_file", "set_options"}
  BY <1>3 DEF Depth, Then, ThenOfInstall, ThenOfUninstall, ThenOfStart, ThenOfUpdate,
         ThenOfBackup, ThenOfRestore
<1> QED
  BY <1>1, <1>2, <1>3 DEF MaybeLocal, LocalNames

LEMMA PortFirstMid ==
  ASSUME NEW s \in Procs, OnHand("port?", s), NeedsPort(s)
  PROVE  LET t == PutSteps(s, <<"port">> \o s.run.steps)
         IN  Mid(t) /\ t.run.op = s.run.op /\ First(t.run.steps) = "port"
<1> DEFINE steps == <<"port">> \o s.run.steps
           t == PutSteps(s, steps)
<1>1. s.run.steps \in Seq(StepNames) /\ s.run.op \in Ops /\ "port" \in StepNames
  BY DEF Procs, Runs, OnHand, OnTrack, StepNames, TaskSteps
<1>2. /\ OnPlan(s.run.op, steps) /\ First(steps) = "port"
      /\ steps \in Seq(StepNames) /\ steps # <<>>
  BY <1>1, ThenInFront, OnPlanMore DEF OnHand, Here, Follows
<1> HIDE DEF steps
<1>3. t \in Procs /\ Agree(s, t) /\ t.fate = "stay"
  BY <1>2, PutStepsType, PutStepsFrame, PutAgrees DEF Agree, Frame, OnHand
<1>4. t.run.steps = steps
  BY DEF PutSteps, Procs, Runs
<1>5. s.run.op \notin {"halt", "uninstall"}
  BY <1>1, ThenOps DEF OnHand, Here, Follows
<1>6. At("port", s)
  <2>1. ~NoPorts
    BY DEF NeedsPort, NoPorts, Procs, SavedVersions, Versions
  <2> QED
    BY <2>1 DEF OnHand, Here, At, NeedsPort, Between, TokenBacked
<1> HIDE DEF t
<1>7. OnTrack(t) /\ At("port", t)
  BY <1>3, <1>6, AgreeTrack DEF OnHand
<1>8. Mid(t)
  BY <1>2, <1>3, <1>4, <1>5, <1>7
  DEF Mid, Ready, OnHand, Here, Agree, Constant, Facts
<1> QED
  BY <1>2, <1>3, <1>4, <1>8 DEF Agree, Constant, t, steps

LEMMA StartFirstMid ==
  ASSUME NEW s \in Procs, OnHand("start?", s)
  PROVE  LET t == PutSteps(s, StartSteps \o s.run.steps)
         IN  Mid(t) /\ t.run.op = s.run.op /\ First(t.run.steps) = "port?"
<1> DEFINE steps == StartSteps \o s.run.steps
           t == PutSteps(s, steps)
<1>1. s.run.steps \in Seq(StepNames) /\ s.run.op \in Ops
  BY DEF Procs, Runs, OnHand, OnTrack
<1>2. s.run.op \notin {"halt", "uninstall", "install"}
  BY <1>1, ThenOps DEF OnHand, Here, Follows
<1>3. /\ OnPlan(s.run.op, steps) /\ First(steps) = "port?"
      /\ steps \in Seq(StepNames)
  BY <1>1, <1>2, ThenInFront, StartStepsOnPlan DEF OnHand, Here, Follows
<1> HIDE DEF steps
<1>4. At("port?", s)
  BY DEF OnHand, Here, At, Between, Going, Stops
<1>5. Mid(t)
  BY <1>2, <1>3, <1>4, Instead DEF OnHand
<1>6. t.run.steps = steps /\ t.run.op = s.run.op
  BY DEF PutSteps, Procs, Runs
<1> QED
  BY <1>3, <1>5, <1>6 DEF steps

LEMMA RunLocalMid ==
  ASSUME NEW s \in Procs, NEW name \in MaybeLocal, OnHand(name, s)
  PROVE  LET t == RunLocal(name, s)
         IN  /\ Mid(t) /\ t.run.op = s.run.op
             /\ t.fate = "stay" =>
                  Depth(s.run.op, First(t.run.steps)) < Depth(s.run.op, name)
<1> DEFINE t == RunLocal(name, s)
           op == s.run.op
<1>1. /\ op \in Ops /\ First(s.run.steps) \in Then(op, name) /\ s.fate = "stay"
  BY DEF OnHand, OnTrack, Here, Follows
<1>2. t.run.steps = s.run.steps => Depth(op, First(t.run.steps)) < Depth(op, name)
  BY <1>1, DepthFalls
<1>3. ASSUME name # "commit" \/ op # "install", t = s PROVE Mid(t)
  BY <1>3, OnwardSame, LadderAgrees DEF OnHand, MaybeLocal, LocalNames, Stops
<1>4. CASE name = "port?"
  <2>1. CASE NeedsPort(s)
    BY <1>1, <1>4, <2>1, PortFirstMid, DepthFacts, ThenInFront DEF RunLocal
  <2>2. CASE ~NeedsPort(s)
    BY <1>2, <1>3, <1>4, <2>2 DEF RunLocal
  <2> QED
    BY <2>1, <2>2
<1>5. CASE name = "start?"
  <2>1. CASE s.run.was
    BY <1>1, <1>5, <2>1, StartFirstMid, DepthFacts DEF RunLocal
  <2>2. CASE ~s.run.was
    BY <1>2, <1>3, <1>5, <2>2 DEF RunLocal
  <2> QED
    BY <2>1, <2>2
<1>6. CASE name = "mint_token"
  <2>1. CASE Native
    BY <1>2, <1>3, <1>6, <2>1 DEF RunLocal
  <2>2. CASE ~Native
    <3> DEFINE u == [s EXCEPT !.token = TRUE, !.keys = s.keys \cup {"token"}]
    <3>1. t = u
      BY <1>6, <2>2 DEF RunLocal
    <3>2. t \in Procs
      BY RunLocalType
    <3>3. u.run = s.run
      BY DEF Procs
    <3>4. Mid(u)
      BY <1>6, <2>2, <3>1, <3>2, MintMid
    <3> HIDE DEF u
    <3> QED
      BY <1>2, <3>1, <3>3, <3>4
  <2> QED
    BY <2>1, <2>2
<1>7. CASE name \in {"commit", "rollback_config"}
  <2>1. op \in {"install", "update"} /\ (name = "rollback_config" => op = "update")
    BY <1>1, <1>7, ThenOps
  <2>2. CASE op = "install"
    <3>1. t = CommitInstall(s)
      BY <1>7, <2>1, <2>2 DEF RunLocal
    <3>2. Mid(t)
      BY <1>7, <2>1, <2>2, <3>1, CommitInstallMid
    <3>3. t.run = s.run
      BY <3>1 DEF CommitInstall, Procs
    <3> HIDE DEF t
    <3> QED
      BY <1>2, <3>2, <3>3 DEF t
  <2>3. CASE op = "update"
    <3>1. s.run.old \in Versions /\ KeysKept(s) /\ s.ver # 0
      BY <2>3, RecordAtPlan DEF OnHand, Procs, Runs, SavedVersions
    <3>2. PICK version \in Versions : t = Reconfigure(s, version)
      BY <1>7, <2>3, <3>1 DEF RunLocal, Other, Versions
    <3>3. Mid(t) /\ t.run = s.run
      BY <1>7, <2>3, <3>1, <3>2, ReconfigureMid, ReconfigureRecord
    <3> HIDE DEF t
    <3> QED
      BY <1>2, <3>3 DEF t
  <2> QED
    BY <2>1, <2>2, <2>3
<1>8. CASE name = "delete_file"
  <2>1. op = "uninstall" /\ t = DeleteFile(s)
    BY <1>1, <1>8, ThenOps DEF RunLocal
  <2>2. Mid(t)
    BY <1>8, <2>1, DeleteFileMid
  <2>3. t.run.op = op
    BY <2>1 DEF DeleteFile, Fail, Close, Procs, Retry, ImageRetry
  <2>4. t.fate = "stay" => t.run.steps = s.run.steps
    BY <1>1, <2>1 DEF DeleteFile, Procs, Fail, Close
  <2> HIDE DEF t
  <2> QED
    BY <1>2, <2>2, <2>3, <2>4 DEF t
<1>9. CASE name \in {"ensure_image", "set_options"}
  BY <1>2, <1>3, <1>9 DEF RunLocal
<1> QED
  BY <1>4, <1>5, <1>6, <1>7, <1>8, <1>9 DEF MaybeLocal, LocalNames

(* A bound on the local steps a handler still has ahead of it. *)
Within(n, s) ==
    s.fate = "stay" /\ s.run.steps # <<>> /\ IsLocal(Head(s.run.steps), s) =>
        Depth(s.run.op, Head(s.run.steps)) <= n

LEMMA LocalMid ==
  ASSUME NEW s \in Procs, Mid(s), NEW n \in 0..5, Within(n + 1, s)
  PROVE  Local(s) \in Procs /\ Mid(Local(s)) /\ Within(n, Local(s))
<1> DEFINE name == Head(s.run.steps)
           goes == s.fate = "stay" /\ s.run.steps # <<>> /\ IsLocal(name, s)
<1>1. Local(s) \in Procs
  BY LocalType
<1>2. CASE ~goes
  BY <1>1, <1>2 DEF Local, Within
<1>3. CASE goes
  <2> DEFINE rest == Tail(s.run.steps)
             d == PutSteps(s, rest)
             t == RunLocal(name, d)
  <2>1. /\ s.run.steps \in Seq(StepNames) /\ s.run.steps # <<>>
        /\ name \in StepNames /\ rest \in Seq(StepNames)
        /\ First(s.run.steps) = name /\ name \in MaybeLocal
    <3>1. s.run.steps \in Seq(StepNames) /\ s.run.steps # <<>>
      BY <1>3 DEF Procs, Runs
    <3>2. name \in MaybeLocal
      BY <1>3 DEF IsLocal, MaybeLocal
    <3> QED
      BY <3>1, <3>2, FirstFacts
  <2>2. OnPlan(s.run.op, rest) /\ Follows(s.run.op, name, rest)
    BY <1>3, <2>1, OnPlanRest DEF Mid, Ready
  <2>3. d \in Procs /\ Agree(s, d) /\ d.fate = "stay"
    BY <1>3, <2>1, PutStepsType, PutStepsFrame, PutAgrees DEF Agree, Frame
  <2>4. d.run.steps = rest
    BY DEF PutSteps, Procs, Runs
  <2>5. s.run.op # "halt"
    BY <2>1, <2>2, ThenOps DEF Mid, OnTrack, Follows, MaybeLocal, LocalNames
  <2> HIDE DEF d, rest
  <2>6. OnTrack(d) /\ At(name, d)
    BY <1>3, <2>1, <2>3, AgreeTrack DEF Mid, Ready
  <2>7. OnHand(name, d)
    BY <1>3, <2>1, <2>2, <2>3, <2>4, <2>6
    DEF Mid, Ready, OnHand, Here, Agree, Constant, Facts
  <2>8. /\ Mid(t) /\ t.run.op = d.run.op
        /\ t.fate = "stay" => Depth(d.run.op, First(t.run.steps)) < Depth(d.run.op, name)
    BY <2>1, <2>3, <2>7, RunLocalMid
  <2>9. t = Local(s)
    BY <1>3 DEF Local, d, rest
  <2> HIDE DEF t
  <2>10. t.run.steps \in Seq(StepNames) /\ s.run.op \in Ops /\ d.run.op = s.run.op
    BY <1>1, <2>3, <2>9 DEF Procs, Runs, Mid, OnTrack, Agree, Constant
  <2>11. Depth(s.run.op, name) <= n + 1
    BY <1>3 DEF Within
  <2>12. ASSUME t.fate = "stay", t.run.steps # <<>>
         PROVE  Depth(t.run.op, Head(t.run.steps)) <= n
    <3>1. First(t.run.steps) = Head(t.run.steps)
      BY <2>12 DEF First
    <3> DEFINE x == Depth(s.run.op, name)
               y == Depth(s.run.op, Head(t.run.steps))
    <3>2. x \in 0..5 /\ y \in 0..5
      BY <2>10, DepthFacts
    <3>3. y < x /\ x <= n + 1
      BY <2>8, <2>10, <2>11, <2>12, <3>1
    <3> HIDE DEF x, y
    <3>4. y <= n
      BY <3>2, <3>3
    <3> QED
      BY <2>8, <2>10, <3>4 DEF y
  <2> QED
    BY <1>1, <2>8, <2>9, <2>12 DEF Within
<1> QED
  BY <1>2, <1>3

(* Before a task the credential goes, and the facts stay. *)
LEMMA DropRunKeysFacts ==
  ASSUME NEW s \in Procs
  PROVE  LET t == DropRunKeys(s)
         IN  /\ ~t.token /\ ~t.ip /\ t.ver = s.ver /\ t.port = s.port /\ t.cid = s.cid
             /\ t.ev = s.ev /\ t.gone = s.gone /\ t.save = s.save /\ t.run = s.run
             /\ KeysKept(s) => KeysKept(t)
             /\ Blank(s) => Blank(t)
<1> DEFINE k == s.keys \ (DnsKeys(s) \cup IF s.token THEN {"token"} ELSE {})
           t == [s EXCEPT !.keys = k, !.token = FALSE, !.ip = FALSE]
<1>0. t = DropRunKeys(s)
  BY DEF DropRunKeys
<1>1. k \in KeySets
  BY DEF Procs, KeySets
<1>2. k = s.keys \ (DnsKeys(s) \cup IF s.token THEN {"token"} ELSE {})
  OBVIOUS
<1> HIDE DEF k
<1>3. /\ ~t.token /\ ~t.ip /\ t.ver = s.ver /\ t.port = s.port /\ t.cid = s.cid
      /\ t.ev = s.ev /\ t.gone = s.gone /\ t.save = s.save /\ t.run = s.run
      /\ t.refused = s.refused /\ t.keys = k /\ t \in Procs
  BY <1>1 DEF Procs
<1> HIDE DEF t
<1>4. Keys(t) = IngressKeys(s)
  <2>1. DnsKeys(t) = {} /\ IngressKeys(t) = IngressKeys(s)
    BY <1>3 DEF DnsKeys, IngressKeys
  <2> QED
    BY <1>3, <2>1 DEF Keys
<1>5. KeysKept(s) => KeysKept(t)
  <2>1. IngressKeys(s) \subseteq {"ingress", "port"} /\ DnsKeys(s) \subseteq {"dns"}
    BY DEF IngressKeys, DnsKeys
  <2>2. Keys(s) = (IF s.token THEN {"token"} ELSE {}) \cup DnsKeys(s) \cup IngressKeys(s)
    BY DEF Keys
  <2>3. \A x \in {"ingress", "port"} : x \notin DnsKeys(s)
                                       /\ x \notin (IF s.token THEN {"token"} ELSE {})
    BY <2>1
  <2> QED
    BY <1>2, <1>3, <1>4, <2>1, <2>2, <2>3 DEF KeysKept
<1>6. Blank(s) => Blank(t)
  <2>1. Blank(s) => DnsKeys(s) = {}
    BY DEF Blank, DnsKeys
  <2> QED
    BY <1>2, <1>3, <2>1 DEF Blank
<1> QED
  BY <1>0, <1>3, <1>5, <1>6

LEMMA DropRunKeysTrack ==
  ASSUME NEW s \in Procs, OnTrack(s) PROVE OnTrack(DropRunKeys(s))
<1>1. Record(DropRunKeys(s))
  BY DropRunKeysFacts DEF OnTrack, Record
<1> QED
  BY <1>1, DropRunKeysFacts, DropRunKeysFrame DEF OnTrack, Frame, Constant

(* An uninstall drops every key its record implies: its ingress keys are   *)
(* owed until it has deleted the file, or has failed to.                   *)
LEMMA UninstallStops ==
  ASSUME NEW s \in Procs, OnTrack(s), s.run.op = "uninstall"
  PROVE  LET t == [CancelTimers(s) EXCEPT !.keys = CancelTimers(s).keys \ Keys(s),
                                          !.token = FALSE, !.ip = FALSE,
                                          !.wanted = "stopped"]
         IN  OnTrack(t) /\ ~t.token /\ t.run = s.run /\ t.fate = s.fate
             /\ t.save = s.save /\ t.cid = s.cid /\ t.ver = s.ver
<1> DEFINE c == CancelTimers(s)
           k == c.keys \ Keys(s)
           t == [c EXCEPT !.keys = k, !.token = FALSE, !.ip = FALSE,
                          !.wanted = "stopped"]
<1>1. c \in Procs /\ Agree(s, c) /\ c.run = s.run /\ c.fate = s.fate
  BY CancelTimersType, LadderAgrees DEF CancelTimers, Procs
<1>2. k = {}
  <2>1. KeysKept(s)
    BY RecordAtPlan
  <2> QED
    BY <1>1, <2>1 DEF KeysKept, Agree, Facts
<1> HIDE DEF c, k
<1>3. k \in KeySets /\ "stopped" \in Wants
  BY <1>2 DEF KeySets, Wants
<1>4. t \in Procs
  BY ZenonT(60), <1>1, <1>3 DEF Procs
<1>5. /\ ~t.token /\ ~t.ip /\ t.keys = {} /\ t.run = c.run /\ t.fate = c.fate
      /\ t.save = c.save /\ t.cid = c.cid /\ t.ver = c.ver /\ t.port = c.port
      /\ t.gone = c.gone
  BY <1>1, <1>2 DEF Procs
<1>6. Constant(c, t)
  <2>1. /\ t.run = c.run /\ t.st = c.st /\ t.opt = c.opt /\ t.touched = c.touched
        /\ t.refused = c.refused /\ t.retired = c.retired /\ t.probing = c.probing
    BY <1>1 DEF Procs
  <2> QED
    BY <1>5, <2>1 DEF Constant
<1> HIDE DEF t
<1>7. s.ver # 0 /\ s.run.old # 0
  BY RecordAtPlan
<1>8. Keys(t) \subseteq Owed
  <2>1. Keys(t) = IngressKeys(t)
    BY <1>5 DEF Keys, DnsKeys
  <2>2. Owed = {"ingress", "port"}
    BY DEF OnTrack, Owed
  <2> QED
    BY <2>1, <2>2 DEF IngressKeys
<1>9. KeysKept(t)
  BY <1>5, <1>8 DEF KeysKept
<1>10. OnTrack(t)
  BY <1>1, <1>5, <1>7, <1>9, <1>6 DEF OnTrack, Agree, Constant, Facts, Record
<1> QED
  BY <1>1, <1>5, <1>10 DEF t, c, k, Agree, Facts

LEMMA OtherStops ==
  ASSUME NEW s \in Procs, OnTrack(s), NEW w \in Wants
  PROVE  LET t == [CancelTimers(DropRunKeys(s)) EXCEPT !.wanted = w]
         IN  OnTrack(t) /\ ~t.token /\ t.run = s.run /\ t.fate = s.fate
             /\ t.save = s.save /\ t.cid = s.cid /\ t.ver = s.ver
<1> DEFINE d == DropRunKeys(s)
           c == CancelTimers(d)
           t == [c EXCEPT !.wanted = w]
<1>1. /\ d \in Procs /\ OnTrack(d) /\ ~d.token /\ d.run = s.run /\ d.fate = s.fate
      /\ d.save = s.save /\ d.cid = s.cid /\ d.ver = s.ver
  BY DropRunKeysType, DropRunKeysTrack, DropRunKeysFacts, DropRunKeysFrame DEF Frame
<1> HIDE DEF d
<1>2. c \in Procs /\ Agree(d, c) /\ c.run = d.run /\ c.fate = d.fate
  BY <1>1, CancelTimersType, LadderAgrees DEF CancelTimers, Procs
<1> HIDE DEF c
<1>3. t \in Procs /\ Agree(c, t) /\ t.run = c.run /\ t.fate = c.fate
  BY <1>2 DEF Procs, Agree, Constant, Facts
<1> HIDE DEF t
<1>4. OnTrack(t)
  BY <1>1, <1>2, <1>3, AgreeTrack
<1> QED
  BY <1>1, <1>2, <1>3, <1>4 DEF t, c, d, Agree, Facts

LEMMA BeforeTaskTrack ==
  ASSUME NEW s \in Procs, OnTrack(s), NEW name
  PROVE  LET t == BeforeTask(name, s)
         IN  /\ OnTrack(t) /\ t.run = s.run /\ t.fate = s.fate /\ t.save = s.save
             /\ t.cid = s.cid /\ t.ver = s.ver
             /\ name \in Stops => ~t.token
             /\ name \notin Stops => t = s
<1> DEFINE t == BeforeTask(name, s)
           w == IF s.run.op = "stop" THEN "stopped" ELSE DropRunKeys(s).wanted
<1>1. CASE name = "stop" /\ s.run.op = "uninstall"
  <2>1. t = [CancelTimers(s) EXCEPT !.keys = CancelTimers(s).keys \ Keys(s),
                                    !.token = FALSE, !.ip = FALSE, !.wanted = "stopped"]
    BY <1>1 DEF BeforeTask
  <2> HIDE DEF t
  <2> QED
    BY <1>1, <2>1, UninstallStops DEF t, Stops
<1>2. CASE name \in Stops /\ ~(name = "stop" /\ s.run.op = "uninstall")
  <2>1. w \in Wants
    BY DropRunKeysType DEF Procs, Wants
  <2>2. CancelTimers(DropRunKeys(s)).wanted = DropRunKeys(s).wanted
    BY DropRunKeysType DEF CancelTimers, Procs
  <2>3. t = [CancelTimers(DropRunKeys(s)) EXCEPT !.wanted = w]
    BY <1>2, <2>2 DEF BeforeTask, Stops
  <2> HIDE DEF t, w
  <2> QED
    BY <1>2, <2>1, <2>3, OtherStops DEF t
<1>3. CASE name \notin Stops
  BY <1>3 DEF BeforeTask, Stops
<1> QED
  BY <1>1, <1>2, <1>3 DEF Stops

LEMMA LaunchOut ==
  ASSUME NEW s \in Procs, Mid(s), Within(0, s) PROVE Out(Launch(s))
<1>1. CASE s.fate # "stay"
  BY <1>1 DEF Launch, Mid, Out
<1>2. CASE s.fate = "stay" /\ s.run.steps = <<>>
  <2>1. TokenBacked(s)
    BY <1>2 DEF Mid, Ready, First, At, Stops, Going
  <2> QED
    BY <1>2, <2>1, FinishOut DEF Launch, Mid, Ready
<1>3. CASE s.fate = "stay" /\ s.run.steps # <<>>
  <2> DEFINE name == Head(s.run.steps)
             rest == Tail(s.run.steps)
             b == BeforeTask(name, s)
             t == [b EXCEPT !.run.step = name, !.run.steps = rest, !.run.task = "running"]
  <2>1. /\ s.run.steps \in Seq(StepNames) /\ name \in StepNames
        /\ rest \in Seq(StepNames) /\ First(s.run.steps) = name /\ s.run.op \in Ops
    BY <1>3, FirstFacts DEF Procs, Runs, Mid, OnTrack
  <2>2. OnPlan(s.run.op, rest) /\ Follows(s.run.op, name, rest)
    BY <1>3, <2>1, OnPlanRest DEF Mid, Ready
  <2>3. name \in TaskSteps
    <3>1. Then(s.run.op, name) # {}
      BY <2>2 DEF Follows
    <3>2. name \notin LocalNames
      <4>1. SUFFICES ASSUME name \in LocalNames PROVE FALSE
        OBVIOUS
      <4>2. name \in MaybeLocal /\ IsLocal(name, s)
        BY <4>1 DEF MaybeLocal, IsLocal
      <4>3. Depth(s.run.op, name) > 0 /\ Depth(s.run.op, name) \in 0..5
        BY <2>1, <3>1, <4>2, DepthFacts
      <4>4. Depth(s.run.op, name) <= 0
        BY <1>3, <4>2 DEF Within
      <4> QED
        BY <4>3, <4>4
    <3> QED
      BY <2>1, <3>2 DEF StepNames, LocalNames
  <2>4. /\ OnTrack(b) /\ b.run = s.run /\ b.fate = s.fate /\ b.cid = s.cid
        /\ b.ver = s.ver /\ (name \in Stops => ~b.token) /\ (name \notin Stops => b = s)
    BY BeforeTaskTrack DEF Mid
  <2>5. b \in Procs
    BY BeforeTaskType
  <2>6. At(name, b)
    <3>1. At(name, s)
      BY <1>3, <2>1 DEF Mid, Ready
    <3>2. CASE name \in Stops
      BY <3>2 DEF At, Stops, Between
    <3>3. CASE name \notin Stops
      BY <2>4, <3>1, <3>3
    <3> QED
      BY <3>2, <3>3
  <2> HIDE DEF b, name, rest
  <2>7. /\ t.run.step = name /\ t.run.steps = rest /\ t.run.task = "running"
        /\ Agree(b, t) /\ t.fate = b.fate
    <3>1. Frame(b, t)
      BY <2>5, TaskFrame
    <3>2. /\ t.run.step = name /\ t.run.steps = rest /\ t.run.task = "running"
          /\ Facts(b, t)
      BY <2>5 DEF Procs, Runs, Facts
    <3> QED
      BY <3>1, <3>2 DEF Frame, Agree
  <2>8. t = Launch(s)
    BY <1>3, <2>4 DEF Launch, b, name, rest
  <2> HIDE DEF t
  <2>9. t \in Procs
    BY <2>8, LaunchType
  <2>10. OnTrack(t) /\ At(name, t)
    BY <2>4, <2>5, <2>6, <2>7, <2>9, AgreeTrack
  <2>11. s.run.op = "install" => s.ver = 0
    BY <1>3 DEF Mid, Ready
  <2>12. AtWork(t)
    BY <2>2, <2>3, <2>4, <2>7, <2>10, <2>11 DEF AtWork, Here, Agree, Constant, Facts
  <2> QED
    BY <1>3, <2>4, <2>7, <2>8, <2>10, <2>12 DEF Out
<1> QED
  BY <1>1, <1>2, <1>3

(* No handler runs more local steps in a row than the five it models, so   *)
(* each one ends its operation or leaves a task step in flight.            *)
LEMMA AdvanceOut ==
  ASSUME NEW s \in Procs, Mid(s) PROVE Out(Advance(s))
<1> DEFINE a == Local(s)
           b == Local(a)
           c == Local(b)
           d == Local(c)
           e == Local(d)
<1>0. Within(5, s)
  <2>1. SUFFICES Depth(s.run.op, Head(s.run.steps)) <= 5
    BY DEF Within
  <2>2. Depth(s.run.op, Head(s.run.steps)) \in 0..5
    BY DepthFacts DEF Mid, OnTrack
  <2> QED
    BY <2>2
<1>1. a \in Procs /\ Mid(a) /\ Within(4, a)
  BY <1>0, LocalMid
<1> HIDE DEF a
<1>2. b \in Procs /\ Mid(b) /\ Within(3, b)
  BY <1>1, LocalMid
<1> HIDE DEF b
<1>3. c \in Procs /\ Mid(c) /\ Within(2, c)
  BY <1>2, LocalMid
<1> HIDE DEF c
<1>4. d \in Procs /\ Mid(d) /\ Within(1, d)
  BY <1>3, LocalMid
<1> HIDE DEF d
<1>5. e \in Procs /\ Mid(e) /\ Within(0, e)
  BY <1>4, LocalMid
<1> HIDE DEF e
<1>6. Out(Launch(e))
  BY <1>5, LaunchOut
<1> QED
  BY <1>6 DEF Advance, a, b, c, d, e

-----------------------------------------------------------------------------
(* Outcomes of a task step. *)

(* A handler that takes the result of the step at work. *)
Working(s) == OnTrack(s) /\ AtWork(s) /\ s.fate = "stay" /\ ~s.save

LEMMA WorkingFacts ==
  ASSUME NEW s \in Procs, Working(s)
  PROVE  /\ OnHand(s.run.step, s) /\ s.run.op \in Ops
         /\ First(s.run.steps) \in Then(s.run.op, s.run.step)
         /\ Then(s.run.op, s.run.step) # {}
         /\ s.run.step \in TaskSteps
         /\ s.run.step \in Stops => ~s.token
         /\ s.run.step \notin Stops \cup {"start", "ensure_image"} => TokenBacked(s)
BY DEF Working, OnHand, AtWork, Here, Follows, OnTrack, At, Going, TaskSteps

LEMMA NoPortNext ==
  ASSUME NEW op, NEW name, NEW next \in Then(op, name) PROVE next # "port"
BY DEF Then, ThenOfInstall, ThenOfUninstall, ThenOfStart, ThenOfUpdate, ThenOfBackup,
       ThenOfRestore

(* A step that is done, after which the plan goes on. *)
LEMMA StepDoneOut ==
  ASSUME NEW s \in Procs, NEW t \in Procs, Working(s), s.run.step \notin Stops \cup {"start"},
         Agree(s, t), t.fate = "stay", t.run.steps = s.run.steps
  PROVE  Out(Advance(t))
<1>1. s.run.step # "commit"
  BY WorkingFacts DEF TaskSteps
<1>2. Mid(t)
  BY <1>1, WorkingFacts, OnwardSame
<1> QED
  BY <1>2, AdvanceOut

LEMMA StepFailedOut ==
  ASSUME NEW s \in Procs, Working(s), s.run.step \notin {"start", "ensure_image"}
  PROVE  Out(Fail(s))
<1>1. TokenBacked(s)
  BY WorkingFacts DEF TokenBacked
<1> QED
  BY <1>1, FailOut DEF Working

LEMMA StoppedAt ==
  ASSUME NEW s, s.cid = 0, ~s.token, NEW next, next # "port" PROVE At(next, s)
BY DEF At, TokenBacked

LEMMA ReleaseFacts ==
  ASSUME NEW s \in Procs
  PROVE  LET t == Release(s)
         IN  /\ t \in Procs /\ Constant(s, t) /\ t.run = s.run /\ t.fate = s.fate
             /\ t.token = s.token /\ t.ip = s.ip /\ t.ver = s.ver /\ t.port = s.port
             /\ t.keys = s.keys /\ t.gone = s.gone /\ t.save = s.save /\ t.cid = 0
             /\ t.wanted = s.wanted
             /\ OnTrack(s) => OnTrack(t)
<1> DEFINE t == Release(s)
<1>1. t \in Procs /\ Constant(s, t)
  BY ReleaseType, ReleaseFrame DEF Frame
<1>2. /\ t.run = s.run /\ t.fate = s.fate
      /\ t.token = s.token /\ t.ip = s.ip /\ t.ver = s.ver /\ t.port = s.port
      /\ t.keys = s.keys /\ t.gone = s.gone /\ t.save = s.save /\ t.cid = 0
      /\ t.wanted = s.wanted
  BY DEF Release, Procs
<1> HIDE DEF t
<1>3. OnTrack(s) => OnTrack(t)
  BY <1>1, <1>2, KeepTrack
<1> QED
  BY <1>1, <1>2, <1>3 DEF t

LEMMA StopDoneOut ==
  ASSUME NEW s \in Procs, Working(s), s.run.step \in {"stop", "stop_strict"},
         NEW was_running \in BOOLEAN
  PROVE  Out(StopDone(s, was_running))
<1> DEFINE was == was_running \/ (s.run.op = "backup" /\ s.wanted = "started")
           r == Release(s)
           wanted == IF s.run.op = "restore" THEN "stopped" ELSE r.wanted
           d == [r EXCEPT !.ev = "stopped", !.run.was = was, !.wanted = wanted]
<1>1. /\ r \in Procs /\ Constant(s, r) /\ r.run = s.run /\ r.fate = s.fate
      /\ ~r.token /\ r.ver = s.ver /\ r.save = s.save /\ r.cid = 0 /\ OnTrack(r)
      /\ was \in BOOLEAN
  BY ReleaseFacts, WorkingFacts DEF Working, Stops
<1>2. wanted \in Wants /\ "stopped" \in Seen
  BY <1>1 DEF Procs, Wants, Seen
<1> HIDE DEF was, wanted, r
<1>3. d \in Procs
  BY ZenonT(60), <1>1, <1>2 DEF Procs, Runs
<1>4. /\ Constant(r, d) /\ d.fate = r.fate /\ d.token = r.token /\ d.ip = r.ip
      /\ d.ver = r.ver /\ d.port = r.port /\ d.keys = r.keys /\ d.gone = r.gone
      /\ d.save = r.save /\ d.cid = r.cid /\ d.run.steps = r.run.steps
  BY <1>1 DEF Procs, Runs, Constant
<1>5. Advance(d) = StopDone(s, was_running)
  BY DEF StopDone, was, wanted, r
<1> HIDE DEF d
<1>6. OnTrack(d)
  BY <1>1, <1>3, <1>4, KeepTrack
<1>7. At(First(d.run.steps), d)
  <2>1. First(s.run.steps) # "port"
    BY WorkingFacts, NoPortNext
  <2> QED
    BY <1>1, <1>4, <2>1, StoppedAt
<1>8. Mid(d)
  BY <1>1, <1>3, <1>4, <1>6, <1>7, WorkingFacts, Onward DEF Constant, Working
<1> QED
  BY <1>3, <1>5, <1>8, AdvanceOut

LEMMA CleanupOut ==
  ASSUME NEW s \in Procs, OnTrack(s), s.fate = "stay", ~s.save,
         s.run.op \notin {"install", "halt"}
  PROVE  Out(Cleanup(s))
<1> DEFINE d == [s EXCEPT !.run.cause = TRUE]
           steps == <<"stop_by_name">>
<1>1. d \in Procs /\ Agree(s, d) /\ d.fate = "stay"
  BY PutCauseType, PutRunFrame, PutAgrees DEF Agree, Frame
<1> HIDE DEF d
<1>2. OnTrack(d)
  BY <1>1, AgreeTrack
<1>3. /\ OnPlan(d.run.op, steps) /\ First(steps) = "stop_by_name"
      /\ steps \in Seq(StepNames)
  <2>1. "stop_by_name" \in StepNames /\ "end" \in Then(d.run.op, "stop_by_name")
    BY <1>1, ThenInFront DEF OnTrack, Agree, Constant, StepNames, TaskSteps
  <2> QED
    BY <2>1, OnlyOnPlan
<1> HIDE DEF steps
<1>4. At(First(steps), d)
  BY <1>3 DEF At, Between, Stops
<1>5. PutSteps(d, steps) \in Procs /\ Mid(PutSteps(d, steps))
  BY <1>1, <1>2, <1>3, <1>4, Instead DEF Agree, Constant, Facts
<1> QED
  BY <1>5, AdvanceOut DEF Cleanup, d, steps

LEMMA CleanedUpOut ==
  ASSUME NEW s \in Procs, Working(s), s.run.step = "stop_by_name"
  PROVE  Out(CleanedUp(s))
<1> DEFINE r == Release(s)
           d == [r EXCEPT !.run.cleaned = TRUE]
<1>1. /\ r \in Procs /\ r.run = s.run /\ r.fate = s.fate /\ ~r.token /\ OnTrack(r)
      /\ Constant(s, r)
  BY ReleaseFacts, WorkingFacts DEF Working, Stops
<1> HIDE DEF r
<1>2. d \in Procs /\ Agree(r, d)
  BY <1>1, PutCauseType, PutRunFrame, PutAgrees DEF Agree, Frame
<1> HIDE DEF d
<1>3. OnTrack(d) /\ TokenBacked(d)
  BY <1>1, <1>2, AgreeTrack DEF Agree, Facts, TokenBacked
<1>4. Out(Fail(d))
  BY <1>2, <1>3, FailOut
<1>5. ASSUME s.run.op = "backup", s.run.result # "none" PROVE Out(Close(d, s.run.result))
  <2>1. s.run.result \in Replies
    BY DEF Procs, Runs, Replies
  <2>2. ~d.gone /\ d.run.op # "install"
    BY <1>1, <1>2, <1>3, <1>5 DEF OnTrack, Agree, Constant
  <2> QED
    BY <1>2, <1>3, <1>5, <2>1, <2>2, CloseOut
<1> QED
  BY <1>4, <1>5 DEF CleanedUp, d, r

LEMMA StrictStopFailedOut ==
  ASSUME NEW s \in Procs, Working(s), s.run.step = "stop_strict"
  PROVE  Out(StrictStopFailed(s))
<1> DEFINE was == Running(s) \/ s.wanted = "started"
           r == Release(s)
           c == [r EXCEPT !.run.result = "error"]
           d == [c EXCEPT !.run.was = was]
           steps == <<"start?">>
<1>1. /\ r \in Procs /\ r.run = s.run /\ r.fate = s.fate /\ ~r.token /\ OnTrack(r)
      /\ Constant(s, r) /\ r.cid = 0 /\ r.save = s.save /\ was \in BOOLEAN
  BY ReleaseFacts, WorkingFacts DEF Working, Stops, Running
<1> HIDE DEF was, r
<1>2. c \in Procs /\ Agree(r, c) /\ c.fate = r.fate
  BY <1>1, PutResultType, PutRunFrame, PutAgrees DEF Agree, Frame
<1>3. d = [r EXCEPT !.run.result = "error", !.run.was = was]
  OBVIOUS
<1> HIDE DEF c
<1>4. d \in Procs /\ Agree(c, d) /\ d.fate = c.fate
  BY <1>1, <1>2, PutWasType, PutRunFrame, PutAgrees DEF Agree, Frame
<1>5. PutSteps(d, steps) = PutSteps([r EXCEPT !.run.result = "error", !.run.was = was],
                                    <<"start?">>)
  BY <1>3
<1> HIDE DEF d
<1>6. OnTrack(d) /\ ~d.token /\ d.cid = 0 /\ ~d.save /\ d.run.op = s.run.op
  BY <1>1, <1>2, <1>4, AgreeTrack DEF Agree, Constant, Facts, Working
<1>7. s.run.op \in {"update", "backup", "restore"}
  BY WorkingFacts, ThenOps
<1>8. OnPlan(d.run.op, steps) /\ First(steps) = "start?" /\ steps \in Seq(StepNames)
  <2>1. "start?" \in StepNames /\ "end" \in Then(d.run.op, "start?")
    BY <1>6, <1>7, ThenInFront DEF OnTrack, StepNames
  <2> QED
    BY <2>1, OnlyOnPlan
<1> HIDE DEF steps
<1>9. At(First(steps), d)
  BY <1>6, <1>8, StoppedAt
<1>10. PutSteps(d, steps) \in Procs /\ Mid(PutSteps(d, steps))
  BY <1>1, <1>2, <1>4, <1>6, <1>7, <1>8, <1>9, Instead DEF Working
<1>11. Out(Advance(PutSteps(d, steps)))
  BY <1>10, AdvanceOut
<1> QED
  BY <1>5, <1>11 DEF StrictStopFailed, was, r, steps

LEMMA ShutdownRefusedOut ==
  ASSUME NEW s \in Procs, Working(s), s.run.step \in {"ensure_image", "start"}
  PROVE  Out(ShutdownRefused(s))
<1> DEFINE d == DropRunKeys(s)
           t == [d EXCEPT !.reply = "shutting_down", !.fate = "idle"]
<1>1. d \in Procs /\ OnTrack(d) /\ ~d.token /\ d.run = s.run
  BY DropRunKeysType, DropRunKeysTrack, DropRunKeysFacts DEF Working
<1> HIDE DEF d
<1>2. /\ Ended(d, t) /\ t.save = d.save /\ t.reply = "shutting_down" /\ t.fate = "idle"
      /\ ~t.token
  BY <1>1 DEF Procs, Ended, Constant
<1>3. t = ShutdownRefused(s)
  BY DEF ShutdownRefused, d
<1> HIDE DEF t
<1>4. t \in Procs
  BY <1>3, ShutdownRefusedType
<1>5. OnTrack(t) /\ TokenBacked(t)
  BY <1>1, <1>2, <1>4, EndedTrack DEF TokenBacked
<1>6. s.run.op \notin {"install", "uninstall", "halt"}
  BY WorkingFacts, ThenOps
<1>7. t.ver # 0 /\ ~t.gone /\ t.run.op # "install"
  BY <1>1, <1>2, <1>5, <1>6 DEF OnTrack, Record, Ended, Constant
<1> QED
  BY <1>2, <1>3, <1>5, <1>7 DEF Out, Over

LEMMA RollbackOnPlan ==
  LET steps == <<"rollback_config">> \o StartSteps
  IN  OnPlan("update", steps) /\ First(steps) = "rollback_config"
      /\ steps \in Seq(StepNames)
<1>1. /\ "update" \in Ops /\ <<>> \in Seq(StepNames) /\ "rollback_config" \in StepNames
      /\ First(<<>>) = "end"
  BY DEF Ops, StepNames, First
<1>2. OnPlan("update", <<>>) /\ Follows("update", "start", <<>>)
  BY <1>1, OnPlanNone, ThenInFront DEF Follows
<1>3. StartSteps \o <<>> = StartSteps
  BY DEF StartSteps
<1>4. OnPlan("update", StartSteps) /\ First(StartSteps) = "port?" /\ StartSteps \in Seq(StepNames)
  BY <1>1, <1>2, <1>3, StartStepsOnPlan
<1>5. Follows("update", "rollback_config", StartSteps)
  BY <1>1, <1>4, ThenInFront DEF Follows
<1> QED
  BY <1>1, <1>4, <1>5, OnPlanMore

(* A start, or the image it needs, failed. *)
LEMMA StartFailedOut ==
  ASSUME NEW s \in Procs, OnTrack(s), s.fate = "stay", ~s.save, NEW why,
         s.run.op \notin {"install", "uninstall", "halt"},
         s.run.op = "update" => s.cid = 0
  PROVE  Out(StartFailed(s, why))
<1> DEFINE r == DropRunKeys(s)
           d == [r EXCEPT !.ev = "failed"]
<1>1. r \in Procs /\ OnTrack(r) /\ ~r.token /\ r.run = s.run /\ r.fate = s.fate /\ ~r.save
  BY DropRunKeysType, DropRunKeysTrack, DropRunKeysFacts, DropRunKeysFrame DEF Frame
<1> HIDE DEF r
<1>2. /\ d \in Procs /\ ~d.token /\ d.run = r.run /\ d.fate = r.fate /\ ~d.save
      /\ OnTrack(d)
  <2>1. "failed" \in Seen
    BY DEF Seen
  <2>2. d \in Procs /\ Constant(r, d) /\ d.token = r.token /\ d.ip = r.ip /\ d.ver = r.ver
        /\ d.port = r.port /\ d.keys = r.keys /\ d.gone = r.gone /\ d.cid = r.cid
        /\ d.save = r.save /\ d.run = r.run /\ d.fate = r.fate
    BY <1>1, <2>1 DEF Procs, Constant
  <2> HIDE DEF d
  <2> QED
    BY <1>1, <2>2, KeepTrack
<1> HIDE DEF d
<1>3. TokenBacked(d)
  BY <1>2 DEF TokenBacked
<1>4. Out(Fail(d)) /\ Out(Finish(d)) /\ Out(Cleanup(d))
  BY <1>1, <1>2, <1>3, FailOut, FinishOut, CleanupOut
<1>5. Out(Finish(ImageRetry(d, s.run.image)))
  <2> DEFINE i == ImageRetry(d, s.run.image)
  <2>1. i \in Procs /\ Agree(d, i)
    BY <1>2, ImageRetryType, LadderAgrees
  <2> HIDE DEF i
  <2>2. OnTrack(i) /\ TokenBacked(i) /\ i.run.op = s.run.op
    BY <1>1, <1>2, <1>3, <2>1, AgreeTrack, TokenBackedAgrees DEF Agree, Constant
  <2>3. Out(Finish(i))
    BY <2>1, <2>2, FinishOut
  <2> QED
    BY <2>3 DEF i
<1>6. ASSUME s.run.op = "update"
      PROVE  Out(Advance(PutSteps([s EXCEPT !.run.cause = TRUE],
                                  <<"rollback_config">> \o StartSteps)))
  <2> DEFINE c == [s EXCEPT !.run.cause = TRUE]
             steps == <<"rollback_config">> \o StartSteps
  <2>1. c \in Procs /\ Agree(s, c) /\ c.fate = "stay"
    BY PutCauseType, PutRunFrame, PutAgrees DEF Agree, Frame
  <2>2. c.run.cause
    BY DEF Procs, Runs
  <2> HIDE DEF c
  <2>3. OnPlan(c.run.op, steps) /\ First(steps) = "rollback_config" /\ steps \in Seq(StepNames)
    BY <1>6, <2>1, RollbackOnPlan DEF Agree, Constant
  <2> HIDE DEF steps
  <2>4. OnTrack(c) /\ At(First(steps), c)
    BY <1>6, <2>1, <2>2, <2>3, AgreeTrack DEF At, Going, Agree, Constant, Facts
  <2>5. PutSteps(c, steps) \in Procs /\ Mid(PutSteps(c, steps))
    BY <1>6, <2>1, <2>3, <2>4, Instead DEF Agree, Constant
  <2>6. Out(Advance(PutSteps(c, steps)))
    BY <2>5, AdvanceOut
  <2> QED
    BY <2>6 DEF c, steps
<1> QED
  BY <1>4, <1>5, <1>6 DEF StartFailed, d, r

LEMMA StartingFacts ==
  ASSUME NEW s \in Procs, Working(s), s.run.step \in {"ensure_image", "start"}
  PROVE  /\ s.run.op \notin {"install", "uninstall", "halt"}
         /\ s.run.op = "update" => s.cid = 0
BY WorkingFacts, ThenOps DEF Working, AtWork, Here, At, Between

LEMMA ImageFailedOut ==
  ASSUME NEW s \in Procs, Working(s), s.run.step = "ensure_image", NEW why
  PROVE  Out(ImageFailed(s, why))
<1> DEFINE image == IF why = "refused" THEN why ELSE "error"
           d == [s EXCEPT !.run.image = image]
<1>1. image \in {"none", "error", "refused"}
  OBVIOUS
<1> HIDE DEF image
<1>2. d \in Procs
  BY ZenonT(60), <1>1 DEF Procs, Runs
<1>3. Agree(s, d) /\ d.fate = s.fate
  BY PutRunFrame, PutAgrees DEF Agree, Frame
<1> HIDE DEF d
<1>4. OnTrack(d)
  BY <1>2, <1>3, AgreeTrack DEF Working
<1>5. Out(StartFailed(d, why))
  BY <1>2, <1>3, <1>4, StartingFacts, StartFailedOut DEF Working, Agree, Constant, Facts
<1> QED
  BY <1>5 DEF ImageFailed, image, d

(* The facts of a start, with the container it created. *)
LEMMA StartedFacts ==
  ASSUME NEW s \in Procs, OnTrack(s), s.run.op # "install",
         NEW id \in Held, id # 0, box.id = id, box.ver = s.ver
  PROVE  LET t == Started(s, id)
         IN  /\ t \in Procs /\ OnTrack(t) /\ TokenBacked(t) /\ t.run = s.run
             /\ t.fate = s.fate /\ t.save = s.save /\ Constant(s, t)
<1> DEFINE wanted == IF s.run.op \in {"start", "restore"} THEN "started" ELSE s.wanted
           attempt == IF s.run.retry THEN s.attempt ELSE 0
           settled == s.settled \/ s.run.retry
           probe == s.probe \/ (ProbeUrl /\ s.watchdog)
           ip == ~Native
           d == [s EXCEPT !.cid = id, !.ip = ip, !.health = "none",
                          !.strikes = 0, !.ev = "running", !.wanted = wanted,
                          !.attempt = attempt, !.settled = settled, !.probe = probe]
           k == s.keys \cup DnsKeys(d)
           t == [d EXCEPT !.keys = k]
<1>1. t \in Procs /\ t = Started(s, id) /\ Frame(s, t)
  <2>1. d.keys = s.keys
    BY DEF Procs
  <2>2. t = Started(s, id)
    BY <2>1 DEF Started
  <2> HIDE DEF t
  <2> QED
    BY <2>2, StartedType, StartedFrame
<1> DEFINE c == [s EXCEPT !.cid = id, !.ip = ip, !.health = "none", !.strikes = 0,
                         !.ev = "running"]
<1> HIDE DEF wanted, attempt, settled, probe, ip
<1>2. /\ DOMAIN c = DOMAIN s
      /\ c.token = s.token /\ c.ip = ip /\ c.ver = s.ver /\ c.port = s.port
      /\ c.refused = s.refused /\ c.cid = id /\ c.ev = "running" /\ c.gone = s.gone
      /\ c.save = s.save /\ c.run = s.run /\ c.fate = s.fate
  BY DEF Procs
<1>3. d = [c EXCEPT !.wanted = wanted, !.attempt = attempt, !.settled = settled,
                    !.probe = probe]
  OBVIOUS
<1> HIDE DEF c
<1>4. /\ d.token = s.token /\ d.ip = ~Native /\ d.ver = s.ver /\ d.port = s.port
      /\ d.refused = s.refused /\ d.cid = id /\ d.ev = "running" /\ d.gone = s.gone
      /\ d.save = s.save /\ d.run = s.run /\ d.fate = s.fate /\ DOMAIN d = DOMAIN s
  <2> HIDE DEF d
  <2> QED
    BY <1>2, <1>3 DEF Procs, ip
<1> HIDE DEF d
<1>5. DnsKeys(s) \subseteq DnsKeys(d) /\ IngressKeys(d) = IngressKeys(s)
      /\ DnsKeys(d) = IF ~Native /\ ~HostNetwork /\ s.ver # 0 THEN {"dns"} ELSE {}
  BY <1>4 DEF DnsKeys, IngressKeys, OnTrack
<1> HIDE DEF k
<1>6. /\ t.token = s.token /\ t.ip = ~Native /\ t.ver = s.ver /\ t.port = s.port
      /\ t.refused = s.refused /\ t.cid = id /\ t.ev = "running" /\ t.gone = s.gone
      /\ t.save = s.save /\ t.run = s.run /\ t.fate = s.fate
  BY <1>4
<1>7. t.keys = k
  BY <1>1 DEF Procs
<1> HIDE DEF t
<1>8. KeysKept(t)
  <2>1. KeysKept(s)
    BY RecordAtPlan
  <2>2. DnsKeys(t) = DnsKeys(d) /\ IngressKeys(t) = IngressKeys(s)
    BY <1>5, <1>6 DEF DnsKeys, IngressKeys
  <2>3. /\ Keys(t) = (IF s.token THEN {"token"} ELSE {}) \cup DnsKeys(d) \cup IngressKeys(s)
        /\ Keys(s) = (IF s.token THEN {"token"} ELSE {}) \cup DnsKeys(s) \cup IngressKeys(s)
    BY <1>6, <2>2 DEF Keys
  <2>4. Keys(s) \subseteq Keys(t) /\ Keys(t) = Keys(s) \cup DnsKeys(d)
    BY <1>5, <2>3
  <2> QED
    BY <1>7, <2>1, <2>4 DEF KeysKept, k
<1>9. OnTrack(t)
  BY <1>1, <1>6, <1>8 DEF OnTrack, Record, Frame, Constant
<1>10. TokenBacked(t)
  BY <1>6 DEF TokenBacked, Backed, Alive, Up
<1> QED
  BY <1>1, <1>6, <1>9, <1>10 DEF Frame

LEMMA StartDoneOut ==
  ASSUME NEW s \in Procs, Working(s), s.run.step = "start",
         NEW id \in Held, id # 0, box.id = id, box.ver = s.ver
  PROVE  Out(StartDone(s, id))
<1> DEFINE d == Started(s, id)
           e == [d EXCEPT !.run.result = "error"]
           g == PutSteps(e, <<>>)
<1>1. /\ s.run.op \notin {"install", "uninstall", "halt"} /\ s.run.op \in Ops
      /\ OnTrack(s) /\ s.fate = "stay" /\ ~s.save
  BY StartingFacts, WorkingFacts DEF Working
<1>2. /\ d \in Procs /\ OnTrack(d) /\ TokenBacked(d) /\ d.run = s.run
      /\ d.fate = s.fate /\ d.save = s.save /\ Constant(s, d)
  BY <1>1, StartedFacts
<1> HIDE DEF d
<1>3. e \in Procs /\ Agree(d, e)
  BY <1>2, PutResultType, PutRunFrame, PutAgrees DEF Agree, Frame
<1> HIDE DEF e
<1>4. g \in Procs /\ Agree(e, g)
  <2>1. <<>> \in Seq(StepNames)
    OBVIOUS
  <2> QED
    BY <1>3, <2>1, PutStepsType, PutStepsFrame, PutAgrees DEF Agree, Frame
<1> HIDE DEF g
<1>5. OnTrack(g) /\ TokenBacked(g) /\ g.run.op = s.run.op
  BY <1>2, <1>3, <1>4, AgreeTrack, TokenBackedAgrees DEF Agree, Constant
<1>6. Out(Finish(g))
  BY <1>1, <1>4, <1>5, FinishOut
<1>7. At(First(d.run.steps), d)
  <2>1. First(s.run.steps) \in Then(s.run.op, "start")
    BY WorkingFacts
  <2>2. First(s.run.steps) \notin Between
    BY <2>1 DEF Then, ThenOfInstall, ThenOfUninstall, ThenOfStart, ThenOfUpdate,
           ThenOfBackup, ThenOfRestore, Between
  <2> QED
    BY <1>2, <2>2 DEF At, Between
<1>8. Mid(d)
  BY <1>1, <1>2, <1>7, WorkingFacts, Onward DEF Constant
<1>9. Out(Advance(d))
  BY <1>2, <1>8, AdvanceOut
<1> QED
  BY <1>6, <1>9 DEF StartDone, d, e, g

LEMMA SnapshotDoneOut ==
  ASSUME NEW s \in Procs, Working(s), s.run.step = "snapshot", NEW r
  PROVE  Out(SnapshotDone(s, r))
<1>1. ASSUME NEW v \in {"ok", "error"} PROVE Out(Advance([s EXCEPT !.run.result = v]))
  <2> DEFINE t == [s EXCEPT !.run.result = v]
  <2>1. t \in Procs /\ Agree(s, t) /\ t.fate = s.fate
    BY PutResultType, PutRunFrame, PutAgrees DEF Agree, Frame
  <2>2. t.run.steps = s.run.steps
    BY DEF Procs, Runs
  <2> HIDE DEF t
  <2>3. Out(Advance(t))
    BY <2>1, <2>2, StepDoneOut DEF Working, Stops
  <2> QED
    BY <2>3 DEF t
<1>2. Out(Advance(s))
  BY StepDoneOut, LadderAgrees DEF Working, Stops
<1>3. ASSUME s.run.op # "backup"
      PROVE  Out(Advance(PutSteps([s EXCEPT !.run.result = "error"], <<"start?">>)))
  <2> DEFINE d == [s EXCEPT !.run.result = "error"]
             steps == <<"start?">>
  <2>1. d \in Procs /\ Agree(s, d) /\ d.fate = s.fate
    BY PutResultType, PutRunFrame, PutAgrees DEF Agree, Frame
  <2> HIDE DEF d
  <2>2. d.run.op = "update"
    BY <1>3, <2>1, WorkingFacts, ThenOps DEF Agree, Constant
  <2>3. OnPlan(d.run.op, steps) /\ First(steps) = "start?" /\ steps \in Seq(StepNames)
    <3>1. "start?" \in StepNames /\ "end" \in Then("update", "start?") /\ "update" \in Ops
      BY ThenInFront DEF StepNames, Ops
    <3> QED
      BY <2>2, <3>1, OnlyOnPlan
  <2> HIDE DEF steps
  <2>4. s.cid = 0 /\ TokenBacked(s)
    BY <2>1, <2>2, WorkingFacts DEF Working, AtWork, Here, At, Between, Agree, Constant, Stops
  <2>5. OnTrack(d) /\ TokenBacked(d) /\ d.cid = 0
    BY <2>1, <2>4, AgreeTrack, TokenBackedAgrees DEF Working, Agree, Facts
  <2>6. PutSteps(d, steps) \in Procs /\ Mid(PutSteps(d, steps))
    BY <2>1, <2>2, <2>3, <2>5, Instead DEF Working, At
  <2>7. Out(Advance(PutSteps(d, steps)))
    BY <2>6, AdvanceOut
  <2> QED
    BY <2>7 DEF d, steps
<1> QED
  BY <1>1, <1>2, <1>3 DEF SnapshotDone

LEMMA OptionsDoneOut ==
  ASSUME NEW s \in Procs, Working(s), s.run.step = "set_options", NEW r
  PROVE  Out(OptionsDone(s, r))
<1> DEFINE t == OptionsTaken(s)
<1>1. Out(Advance(s)) /\ Out(Fail(s))
  BY StepDoneOut, StepFailedOut, LadderAgrees DEF Working, Stops
<1>2. /\ t \in Procs /\ t.run = s.run /\ t.st = s.st /\ t.fate = s.fate /\ t.token = s.token
      /\ t.ip = s.ip /\ t.ver = s.ver /\ t.port = s.port /\ t.keys = s.keys
      /\ t.gone = s.gone /\ t.cid = s.cid /\ t.ev = s.ev /\ t.probing = s.probing
      /\ t.refused = s.refused /\ t.retired = s.retired
  BY DEF OptionsTaken, Procs, OptionValues
<1> HIDE DEF t
<1>3. s.run.op = "restore"
  BY WorkingFacts, ThenOps
<1>4. KeysKept(s) /\ s.ver # 0 /\ s.run.old # 0 /\ ~s.gone /\ ~s.refused
  BY <1>3, RecordAtPlan DEF Working
<1>5. Keys(t) = Keys(s)
  BY <1>2, KeysAgree
<1>6. OnTrack(t)
  BY <1>2, <1>3, <1>4, <1>5 DEF Working, OnTrack, Record, KeysKept
<1>7. TokenBacked(t)
  BY <1>2, WorkingFacts DEF TokenBacked, Backed, Alive, Stops
<1>8. First(t.run.steps) # "port"
  BY <1>2, WorkingFacts, NoPortNext
<1>9. Mid(t)
  BY <1>2, <1>3, <1>6, <1>7, <1>8, WorkingFacts, Onward DEF Working, At
<1>10. Out(Advance(t))
  BY <1>2, <1>9, AdvanceOut
<1> QED
  BY <1>1, <1>10 DEF OptionsDone, OptionsTaken, t

LEMMA HaltDoneOut ==
  ASSUME NEW s \in Procs, Working(s), s.run.step = "halt_stop", NEW r
  PROVE  Out(HaltDone(s, r))
<1> DEFINE reply == IF r = "ok" THEN "ok" ELSE "error"
           fate == IF s.gone THEN "exit" ELSE "shutting_down"
           d == Release(s)
           t == [d EXCEPT !.ev = "stopped", !.reply = reply, !.fate = fate]
<1>1. d \in Procs /\ OnTrack(d) /\ ~d.token /\ d.run = s.run /\ d.gone = s.gone /\ d.cid = 0
  BY ReleaseFacts, WorkingFacts DEF Working, Stops
<1> HIDE DEF d, reply, fate
<1>2. /\ Constant(d, t) /\ t.token = d.token /\ t.ip = d.ip /\ t.ver = d.ver
      /\ t.port = d.port /\ t.keys = d.keys /\ t.gone = d.gone /\ t.cid = d.cid
      /\ t.save = d.save /\ t.fate = fate /\ t.run = d.run
  BY <1>1 DEF Procs, Constant
<1>3. t = HaltDone(s, r)
  BY DEF HaltDone, d, reply, fate
<1> HIDE DEF t
<1>4. t \in Procs
  BY <1>3, HaltDoneType
<1>5. OnTrack(t)
  BY <1>1, <1>2, <1>4, KeepTrack
<1>6. t.run.op = "halt"
  BY <1>1, <1>2, WorkingFacts, ThenOps
<1>7. t.ver # 0
  BY <1>5, <1>6 DEF OnTrack, Record
<1> QED
  BY <1>1, <1>2, <1>3, <1>5, <1>6, <1>7 DEF Out, Over, fate, Durable, TokenBacked

LEMMA PortDoneOut ==
  ASSUME NEW s \in Procs, Working(s), s.run.step = "port", NEW r
  PROVE  Out(PortDone(s, r))
<1> DEFINE k == s.keys \cup {"port"}
           save == s.save \/ s.run.op # "install"
           t == [s EXCEPT !.port = TRUE, !.keys = k, !.save = save]
<1>1. k \in KeySets /\ save \in BOOLEAN
  BY DEF Procs, KeySets, KeyNames
<1> HIDE DEF k, save
<1>2. t \in Procs
  BY ZenonT(60), <1>1 DEF Procs
<1>3. /\ Constant(s, t) /\ t.port /\ t.keys = k /\ t.save = save /\ t.token = s.token
      /\ t.ip = s.ip /\ t.ver = s.ver /\ t.gone = s.gone /\ t.cid = s.cid /\ t.ev = s.ev
      /\ t.run = s.run /\ t.fate = s.fate
  BY <1>1 DEF Procs, Constant
<1>4. [s EXCEPT !.port = TRUE, !.keys = s.keys \cup {"port"},
                !.save = s.save \/ s.run.op # "install"] = t
  BY DEF k, save
<1> HIDE DEF t
<1>5. s.run.op \notin {"uninstall", "halt"} /\ OnTrack(s) /\ At("port", s)
  BY WorkingFacts, ThenOps DEF Working, AtWork, Here
<1>6. ~s.refused /\ ~s.gone
  BY <1>5 DEF OnTrack
<1>7. Record(t)
  <2>1. CASE s.ver = 0
    <3>1. IngressOf[1] = "dynamic"
      BY <1>5, <2>1 DEF At
    <3>2. s.run.op = "install" /\ Blank(s)
      BY <1>5, <2>1 DEF OnTrack, Record
    <3>3. k = {"port"}
      BY <3>2 DEF Blank, k
    <3> QED
      BY <1>3, <2>1, <3>1, <3>2, <3>3 DEF Record, Blank, Constant
  <2>2. CASE s.ver # 0
    <3>1. IngressOf[s.ver] = "dynamic"
      BY <1>5, <2>2 DEF At
    <3>2. KeysKept(s) /\ (s.run.op # "install" => s.run.old # 0)
      BY <1>5, <2>2 DEF OnTrack, Record
    <3>3. DnsKeys(t) = DnsKeys(s)
      BY <1>3 DEF DnsKeys
    <3>4. IngressKeys(t) = {"ingress", "port"} /\ "ingress" \in IngressKeys(s)
          /\ IngressKeys(s) \subseteq {"ingress", "port"}
      BY <1>3, <1>6, <2>2, <3>1 DEF IngressKeys, Constant
    <3>5. Keys(t) = Keys(s) \cup {"port"}
      BY <1>3, <3>3, <3>4 DEF Keys
    <3>6. KeysKept(t)
      BY <1>3, <3>2, <3>5 DEF KeysKept, k
    <3> QED
      BY <1>3, <2>2, <3>2, <3>6 DEF Record, Constant
  <2> QED
    BY <2>1, <2>2
<1>8. OnTrack(t)
  BY <1>3, <1>5, <1>6, <1>7 DEF OnTrack, Constant
<1>9. At(First(t.run.steps), t)
  <2>1. First(s.run.steps) \in Then(s.run.op, "port") /\ s.run.op \in Ops
    BY WorkingFacts
  <2>2. First(s.run.steps) # "port"
    BY <2>1, NoPortNext
  <2>3. At(First(s.run.steps), s)
    BY <1>5, <2>1, AtNext DEF Stops
  <2>4. TokenBacked(s) => TokenBacked(t)
    BY <1>3 DEF TokenBacked, Backed, Alive
  <2> QED
    BY <1>3, <2>2, <2>3, <2>4 DEF At
<1>10. Mid(t)
  BY <1>2, <1>3, <1>5, <1>8, <1>9, WorkingFacts, Onward DEF Working, Constant
<1>11. Out(Advance(t)) /\ Out(Fail(s))
  BY <1>2, <1>10, AdvanceOut, StepFailedOut
<1> QED
  BY <1>4, <1>11 DEF PortDone

(* A result that arrives takes its operation to the next task step or ends *)
(* it; a start that reports a success has created the container.           *)
LEMMA SettleOut ==
  ASSUME NEW s \in Procs, Working(s), NEW r, NEW id \in Held,
         s.run.step = "start" /\ r = "ok" => id # 0 /\ box.id = id /\ box.ver = s.ver
  PROVE  Out(Settle(s, r, id))
<1> DEFINE name == s.run.step
           t == Settle(s, r, id)
<1>1. CASE name \in {"stop_by_name", "halt_stop", "snapshot", "set_options", "port"}
  BY <1>1, CleanedUpOut, HaltDoneOut, SnapshotDoneOut, OptionsDoneOut, PortDoneOut
  DEF Settle
<1>2. CASE name = "ensure_image"
  <2> DEFINE d == [s EXCEPT !.img = 0]
  <2>1. 0 \in ImageTries
    BY BoundsAssumption DEF ImageTries
  <2>2. d \in Procs /\ Agree(s, d) /\ d.fate = s.fate /\ d.run = s.run
    BY <2>1 DEF Procs, Agree, Constant, Facts
  <2> HIDE DEF d
  <2>3. Out(Advance(d))
    BY <1>2, <2>2, StepDoneOut DEF Working, Stops
  <2> QED
    BY <1>2, <2>3, ShutdownRefusedOut, ImageFailedOut DEF Settle, d
<1>3. CASE name = "start"
  <2>1. Out(StartFailed(s, r))
    BY <1>3, StartingFacts, StartFailedOut DEF Working
  <2> QED
    BY <1>3, <2>1, ShutdownRefusedOut, StartDoneOut DEF Settle
<1>4. CASE name \in {"stop", "stop_strict"}
  <2>1. Out(Fail(s)) /\ Out(StopDone(s, r = "was_running"))
    BY <1>4, StepFailedOut, StopDoneOut
  <2>2. Out(Cleanup(s))
    <3>1. Then("install", name) = {} /\ name # "halt_stop"
      BY <1>4 DEF Then, ThenOfInstall
    <3>2. s.run.op \notin {"install", "halt"}
      BY <3>1, WorkingFacts, ThenOps
    <3> QED
      BY <3>2, CleanupOut DEF Working
  <2>3. name = "stop_strict" => Out(StrictStopFailed(s))
    BY StrictStopFailedOut
  <2>4. CASE Good(r)
    BY <1>4, <2>1, <2>4 DEF Settle, Good
  <2>5. CASE ~Good(r) /\ r \in {"died", "timeout"}
    BY <1>4, <2>2, <2>5 DEF Settle, Good
  <2>6. CASE r = "error"
    BY <1>4, <2>1, <2>3, <2>6 DEF Settle, Good
  <2>7. CASE ~Good(r) /\ r \notin {"died", "timeout", "error"}
    BY <1>4, <2>1, <2>7 DEF Settle, Good
  <2> QED
    BY <2>4, <2>5, <2>6, <2>7
<1>5. CASE name \in {"pull", "exec_pre", "exec_post", "swap_data", "remove_app",
                     "reclaim_image"}
  <2>1. Out(Advance(s)) /\ Out(Fail(s))
    BY <1>5, StepDoneOut, StepFailedOut, LadderAgrees DEF Working, Stops
  <2> QED
    BY <1>5, <2>1 DEF Settle
<1> QED
  BY <1>1, <1>2, <1>3, <1>4, <1>5, WorkingFacts DEF TaskSteps

-----------------------------------------------------------------------------
(* The beginning of an operation: its steps are on its plan. *)

Leads(op, steps, next) ==
    \A i \in 1..Len(steps) :
       (IF i < Len(steps) THEN steps[i + 1] ELSE next) \in Then(op, steps[i])

LEMMA LeadsJoined ==
  ASSUME NEW op, NEW s \in Seq(StepNames), NEW t \in Seq(StepNames), t # <<>>, NEW next,
         Leads(op, s, Head(t)), Leads(op, t, next)
  PROVE  /\ Leads(op, s \o t, next) /\ s \o t \in Seq(StepNames) /\ s \o t # <<>>
         /\ s # <<>> => Head(s \o t) = Head(s)
         /\ s = <<>> => Head(s \o t) = Head(t)
<1> DEFINE q == s \o t
<1>1. /\ q \in Seq(StepNames) /\ Len(s) \in Nat /\ Len(t) \in Nat /\ Len(t) > 0
      /\ Len(q) = Len(s) + Len(t) /\ Head(t) = t[1]
      /\ \A i \in 1..Len(s) : q[i] = s[i]
      /\ \A i \in 1..Len(t) : q[i + Len(s)] = t[i]
  OBVIOUS
<1>2. q # <<>> /\ Head(q) = q[1]
  BY <1>1
<1>3. /\ s # <<>> => Head(q) = Head(s)
      /\ s = <<>> => Head(q) = Head(t)
  OBVIOUS
<1> HIDE DEF q
<1>4. Leads(op, q, next)
  <2> SUFFICES ASSUME NEW i \in 1..Len(q)
               PROVE  (IF i < Len(q) THEN q[i + 1] ELSE next) \in Then(op, q[i])
    BY DEF Leads
  <2>1. CASE i < Len(s)
    <3>1. /\ i \in 1..Len(s) /\ i + 1 \in 1..Len(s) /\ i < Len(q)
      BY <1>1, <2>1
    <3>2. q[i] = s[i] /\ q[i + 1] = s[i + 1] /\ s[i + 1] \in Then(op, s[i])
      BY <1>1, <2>1, <3>1 DEF Leads
    <3> QED
      BY <3>1, <3>2
  <2>2. CASE i = Len(s)
    <3>1. i \in 1..Len(s) /\ i < Len(q) /\ 1 \in 1..Len(t) /\ i + 1 = 1 + Len(s)
          /\ ~(i < Len(s))
      BY <1>1, <2>2
    <3>2. q[i] = s[i] /\ q[i + 1] = t[1] /\ t[1] \in Then(op, s[i])
      BY <1>1, <3>1 DEF Leads
    <3> QED
      BY <3>1, <3>2
  <2>3. CASE i > Len(s)
    <3> DEFINE j == i - Len(s)
    <3>1. j \in 1..Len(t) /\ i = j + Len(s) /\ (i < Len(q) <=> j < Len(t))
      BY <1>1, <2>3
    <3>2. q[j + Len(s)] = t[j]
      BY <1>1, <3>1
    <3>3. ASSUME j < Len(t) PROVE q[i + 1] = t[j + 1]
      <4>1. j + 1 \in 1..Len(t) /\ i + 1 = (j + 1) + Len(s)
        BY <1>1, <3>1, <3>3
      <4>2. q[(j + 1) + Len(s)] = t[j + 1]
        BY <1>1, <4>1
      <4> QED
        BY <4>1, <4>2
    <3> HIDE DEF j
    <3> QED
      BY <3>1, <3>2, <3>3 DEF Leads
  <2> QED
    BY <1>1, <2>1, <2>2, <2>3
<1> QED
  BY <1>1, <1>2, <1>3, <1>4 DEF q

LEMMA LeadsOnPlan ==
  ASSUME NEW op, NEW steps PROVE OnPlan(op, steps) <=> Leads(op, steps, "end")
BY DEF OnPlan, Leads

LEMMA TuplesLead ==
  ASSUME NEW op, NEW next, NEW a, NEW b, NEW c
  PROVE  /\ next \in Then(op, a) => Leads(op, <<a>>, next)
         /\ b \in Then(op, a) /\ next \in Then(op, b) => Leads(op, <<a, b>>, next)
         /\ b \in Then(op, a) /\ c \in Then(op, b) /\ next \in Then(op, c)
              => Leads(op, <<a, b, c>>, next)
         /\ Head(<<a>>) = a /\ Head(<<a, b>>) = a /\ Head(<<a, b, c>>) = a
         /\ <<a>> # <<>> /\ <<a, b>> # <<>> /\ <<a, b, c>> # <<>>
         /\ Leads(op, <<>>, next)
<1>1. next \in Then(op, a) => Leads(op, <<a>>, next)
  BY DEF Leads
<1>2. b \in Then(op, a) /\ next \in Then(op, b) => Leads(op, <<a, b>>, next)
  BY DEF Leads
<1>3. b \in Then(op, a) /\ c \in Then(op, b) /\ next \in Then(op, c)
        => Leads(op, <<a, b, c>>, next)
  BY DEF Leads
<1>4. Leads(op, <<>>, next)
  BY DEF Leads
<1> QED
  BY <1>1, <1>2, <1>3, <1>4

(* The first step of every operation. *)
FirstOf(op) ==
    CASE op \in {"install", "update"} -> {"pull"}
      [] op = "start" -> {"port?"}
      [] op \in {"stop", "restart", "uninstall"} -> {"stop"}
      [] op = "halt" -> {"halt_stop"}
      [] op = "restore" -> {"stop_strict"}
      [] OTHER -> {"stop_strict", "snapshot", "exec_pre"}

Planning(op, steps) ==
    steps # <<>> /\ Leads(op, steps, "end") /\ Head(steps) \in FirstOf(op)

LEMMA BackupPlanned == ASSUME NEW a, NEW s PROVE Planning("backup", Steps("backup", a, s))
<1> DEFINE pre == IF Hooks THEN <<"exec_pre">> ELSE <<>>
           post == IF Hooks THEN <<"exec_post">> ELSE <<>>
           snap == <<"snapshot">>
           cold == <<"stop_strict", "snapshot", "start?">>
           op == "backup"
<1>1. /\ "end" \in Then(op, "snapshot") /\ "end" \in Then(op, "start?")
      /\ "snapshot" \in Then(op, "stop_strict")
      /\ "start?" \in Then(op, "snapshot")
      /\ "snapshot" \in Then(op, "exec_pre")
      /\ "exec_post" \in Then(op, "snapshot")
      /\ "end" \in Then(op, "exec_post")
  BY DEF Then, ThenOfBackup, ThenOfStart
<1>2. {"stop_strict", "snapshot", "exec_pre"} = FirstOf(op)
  BY DEF FirstOf
<1>3. Planning(op, cold)
  BY <1>1, <1>2, TuplesLead DEF Planning
<1>4. Planning(op, snap)
  BY <1>1, <1>2, TuplesLead DEF Planning
<1>5. /\ pre \in Seq(StepNames) /\ Leads(op, pre, "snapshot") /\ snap \in Seq(StepNames)
      /\ Head(snap) = "snapshot" /\ snap # <<>>
      /\ post \in Seq(StepNames) /\ Leads(op, snap, "end") /\ Leads(op, snap, "exec_post")
      /\ pre # <<>> => Head(pre) = "exec_pre"
      /\ post # <<>> => Head(post) = "exec_post" /\ Leads(op, post, "end")
  <2>1. /\ <<"exec_pre">> \in Seq(StepNames) /\ <<"exec_post">> \in Seq(StepNames)
        /\ snap \in Seq(StepNames) /\ <<>> \in Seq(StepNames)
    BY DEF StepNames, TaskSteps
  <2>2. Leads(op, <<>>, "snapshot")
    BY TuplesLead
  <2>3. Leads(op, <<"exec_pre">>, "snapshot")
    BY <1>1, TuplesLead
  <2>4. Leads(op, <<"exec_post">>, "end")
    BY <1>1, TuplesLead
  <2>5. Leads(op, <<"snapshot">>, "end") /\ Leads(op, <<"snapshot">>, "exec_post")
    BY <1>1, TuplesLead
  <2>6. /\ Head(<<"snapshot">>) = "snapshot" /\ <<"snapshot">> # <<>>
        /\ Head(<<"exec_pre">>) = "exec_pre" /\ Head(<<"exec_post">>) = "exec_post"
    OBVIOUS
  <2>7. CASE Hooks
    <3>1. pre = <<"exec_pre">> /\ post = <<"exec_post">>
      BY <2>7
    <3> HIDE DEF pre, post
    <3> QED
      BY <2>1, <2>3, <2>4, <2>5, <2>6, <3>1
  <2>8. CASE ~Hooks
    <3>1. pre = <<>> /\ post = <<>>
      BY <2>8
    <3> HIDE DEF pre, post
    <3> QED
      BY <2>1, <2>2, <2>5, <2>6, <3>1
  <2> QED
    BY <2>7, <2>8
<1> HIDE DEF pre, post, snap, cold, op
<1>6. /\ Leads(op, pre \o snap, "end") /\ Leads(op, pre \o snap, "exec_post")
      /\ pre \o snap \in Seq(StepNames) /\ pre \o snap # <<>>
      /\ Head(pre \o snap) \in {"snapshot", "exec_pre"}
  BY <1>5, LeadsJoined
<1>7. Planning(op, (pre \o snap) \o post)
  <2>1. CASE post = <<>>
    <3>1. (pre \o snap) \o post = pre \o snap
      BY <1>6, <2>1
    <3> QED
      BY <1>2, <1>6, <3>1 DEF Planning
  <2>2. CASE post # <<>>
    <3> DEFINE q == pre \o snap
    <3>1. /\ q \in Seq(StepNames) /\ Leads(op, q, Head(post)) /\ q # <<>>
          /\ Head(q) \in FirstOf(op)
      BY <1>2, <1>5, <1>6, <2>2
    <3> HIDE DEF q
    <3>2. /\ Leads(op, q \o post, "end") /\ q \o post # <<>> /\ Head(q \o post) = Head(q)
      BY <1>5, <2>2, <3>1, LeadsJoined
    <3> QED
      BY <3>1, <3>2 DEF Planning, q
  <2> QED
    BY <2>1, <2>2
<1> QED
  BY <1>3, <1>4, <1>7 DEF Steps, pre, post, snap, cold, op

LEMMA StartPlanned ==
  ASSUME NEW op \in Ops, op \notin {"install", "uninstall", "halt"}
  PROVE  /\ Leads(op, StartSteps, "end") /\ Head(StartSteps) = "port?"
         /\ StartSteps # <<>> /\ StartSteps \in Seq(StepNames)
<1>1. StartSteps \in Seq(StepNames)
  BY StartStepsType
<1>2. Head(StartSteps) = "port?" /\ StartSteps # <<>>
  BY DEF StartSteps
<1>3. OnPlan(op, StartSteps)
  <2>1. <<>> \in Seq(StepNames) /\ OnPlan(op, <<>>) /\ Follows(op, "start", <<>>)
    BY OnPlanNone, ThenInFront DEF Follows, First
  <2>2. OnPlan(op, StartSteps \o <<>>)
    BY <2>1, StartStepsOnPlan
  <2>3. StartSteps \o <<>> = StartSteps
    BY <1>1
  <2> QED
    BY <2>2, <2>3
<1> QED
  BY <1>1, <1>2, <1>3, LeadsOnPlan

LEMMA RestorePlanned ==
  ASSUME NEW a, NEW s PROVE Planning("restore", Steps("restore", a, s))
<1> DEFINE stop == <<"stop_strict", "swap_data", "set_options">>
           start == IF a.starts THEN StartSteps ELSE <<>>
           op == "restore"
<1>1. /\ stop \in Seq(StepNames) /\ Head(stop) = "stop_strict" /\ stop # <<>>
      /\ op \in Ops /\ op \notin {"install", "uninstall", "halt"}
  BY DEF StepNames, TaskSteps, Ops
<1>2. Leads(op, stop, "end") /\ Leads(op, stop, "port?")
  <2>1. /\ "swap_data" \in Then(op, "stop_strict") /\ "set_options" \in Then(op, "swap_data")
        /\ "end" \in Then(op, "set_options") /\ "port?" \in Then(op, "set_options")
    BY DEF Then, ThenOfRestore
  <2> QED
    BY <2>1, TuplesLead
<1>3. "stop_strict" \in FirstOf(op)
  BY DEF FirstOf
<1>4. Steps(op, a, s) = stop \o start
  BY DEF Steps
<1> HIDE DEF stop, op
<1>5. CASE a.starts
  <2>1. start = StartSteps
    BY <1>5
  <2> HIDE DEF start
  <2>2. /\ Leads(op, start, "end") /\ Head(start) = "port?"
        /\ start # <<>> /\ start \in Seq(StepNames)
    BY <1>1, <2>1, StartPlanned
  <2>3. /\ Leads(op, stop \o start, "end") /\ stop \o start # <<>>
        /\ Head(stop \o start) = Head(stop)
    BY <1>1, <1>2, <2>2, LeadsJoined
  <2> QED
    BY <1>1, <1>3, <1>4, <2>3 DEF Planning, op
<1>6. CASE ~a.starts
  <2>1. stop \o start = stop
    BY <1>1, <1>6
  <2> QED
    BY <1>1, <1>2, <1>3, <1>4, <2>1 DEF Planning, op
<1> QED
  BY <1>5, <1>6

LEMMA UpdatePlanned ==
  ASSUME NEW a, NEW s PROVE Planning("update", Steps("update", a, s))
<1> DEFINE safe == <<"pull", "stop_strict", "snapshot">>
           plain == <<"pull", "stop">>
           front == IF a.backup THEN safe ELSE plain
           back == <<"commit", "start?", "reclaim_image">>
           op == "update"
<1>1. /\ safe \in Seq(StepNames) /\ plain \in Seq(StepNames) /\ back \in Seq(StepNames)
      /\ Head(safe) = "pull" /\ safe # <<>> /\ Head(plain) = "pull" /\ plain # <<>>
      /\ Head(back) = "commit" /\ back # <<>>
  BY DEF StepNames, TaskSteps
<1>2. Leads(op, safe, "commit") /\ Leads(op, plain, "commit") /\ Leads(op, back, "end")
  <2>1. /\ "stop_strict" \in Then(op, "pull") /\ "snapshot" \in Then(op, "stop_strict")
        /\ "commit" \in Then(op, "snapshot") /\ "stop" \in Then(op, "pull")
        /\ "commit" \in Then(op, "stop") /\ "start?" \in Then(op, "commit")
        /\ "reclaim_image" \in Then(op, "start?") /\ "end" \in Then(op, "reclaim_image")
    BY DEF Then, ThenOfUpdate
  <2>2. Leads(op, safe, "commit")
    BY <2>1, TuplesLead
  <2>3. Leads(op, plain, "commit")
    BY <2>1, TuplesLead
  <2>4. Leads(op, back, "end")
    BY <2>1, TuplesLead
  <2> QED
    BY <2>2, <2>3, <2>4
<1>3. "pull" \in FirstOf(op)
  BY DEF FirstOf
<1>4. Steps(op, a, s) = front \o back
  BY DEF Steps
<1> HIDE DEF safe, plain, back, op
<1>5. /\ front \in Seq(StepNames) /\ Head(front) = "pull" /\ front # <<>>
      /\ Leads(op, front, Head(back))
  BY <1>1, <1>2
<1> HIDE DEF front
<1>6. /\ Leads(op, front \o back, "end") /\ front \o back # <<>>
      /\ Head(front \o back) = Head(front)
  BY <1>1, <1>2, <1>5, LeadsJoined
<1> QED
  BY <1>3, <1>4, <1>5, <1>6 DEF Planning, op

LEMMA StepsPlanned ==
  ASSUME NEW op \in Ops, NEW a, NEW s PROVE Planning(op, Steps(op, a, s))
<1>1. CASE op = "install"
  <2>1. "port?" \in Then(op, "pull") /\ "commit" \in Then(op, "port?") /\ "end" \in Then(op, "commit")
    BY <1>1 DEF Then, ThenOfInstall
  <2>2. Steps(op, a, s) = <<"pull", "port?", "commit">> /\ "pull" \in FirstOf(op)
    BY <1>1 DEF Steps, FirstOf
  <2>3. Leads(op, <<"pull", "port?", "commit">>, "end")
    BY <2>1, TuplesLead
  <2>4. Head(<<"pull", "port?", "commit">>) = "pull" /\ <<"pull", "port?", "commit">> # <<>>
    OBVIOUS
  <2> QED
    BY <2>1, <2>2, <2>3, <2>4 DEF Planning
<1>2. CASE op = "start"
  <2>1. Steps(op, a, s) = StartSteps /\ "port?" \in FirstOf(op)
    BY <1>2 DEF Steps, FirstOf
  <2> QED
    BY <1>2, <2>1, StartPlanned DEF Planning
<1>3. CASE op = "stop"
  <2>1. "end" \in Then(op, "stop") /\ Steps(op, a, s) = <<"stop">> /\ "stop" \in FirstOf(op)
    BY <1>3 DEF Then, Steps, FirstOf
  <2>2. Leads(op, <<"stop">>, "end")
    BY <2>1, TuplesLead
  <2>3. Head(<<"stop">>) = "stop" /\ <<"stop">> # <<>>
    OBVIOUS
  <2> QED
    BY <2>1, <2>2, <2>3 DEF Planning
<1>4. CASE op = "restart"
  <2> DEFINE stop == <<"stop">>
  <2>1. "port?" \in Then(op, "stop") /\ Steps(op, a, s) = stop \o StartSteps /\ "stop" \in FirstOf(op)
    BY <1>4 DEF Then, Steps, FirstOf
  <2>2. Leads(op, stop, "port?") /\ stop \in Seq(StepNames) /\ stop # <<>> /\ Head(stop) = "stop"
    <3>1. <<"stop">> \in Seq(StepNames)
      BY DEF StepNames, TaskSteps
    <3> QED
      BY <2>1, <3>1, TuplesLead
  <2> HIDE DEF stop
  <2>3. /\ Leads(op, stop \o StartSteps, "end") /\ stop \o StartSteps # <<>>
        /\ Head(stop \o StartSteps) = Head(stop)
    BY <1>4, <2>2, StartPlanned, LeadsJoined
  <2> QED
    BY <2>1, <2>2, <2>3 DEF Planning
<1>5. CASE op = "uninstall"
  <2>1. /\ "delete_file" \in Then(op, "stop") /\ "remove_app" \in Then(op, "delete_file")
        /\ "end" \in Then(op, "remove_app")
    BY <1>5 DEF Then, ThenOfUninstall
  <2>2. Steps(op, a, s) = <<"stop", "delete_file", "remove_app">> /\ "stop" \in FirstOf(op)
    BY <1>5 DEF Steps, FirstOf
  <2>3. Leads(op, <<"stop", "delete_file", "remove_app">>, "end")
    BY <2>1, TuplesLead
  <2>4. Head(<<"stop", "delete_file", "remove_app">>) = "stop" /\ <<"stop", "delete_file", "remove_app">> # <<>>
    OBVIOUS
  <2> QED
    BY <2>1, <2>2, <2>3, <2>4 DEF Planning
<1>6. CASE op = "halt"
  <2>1. "end" \in Then(op, "halt_stop") /\ Steps(op, a, s) = <<"halt_stop">>
        /\ "halt_stop" \in FirstOf(op)
    BY <1>6 DEF Then, Steps, FirstOf
  <2>2. Leads(op, <<"halt_stop">>, "end")
    BY <2>1, TuplesLead
  <2>3. Head(<<"halt_stop">>) = "halt_stop" /\ <<"halt_stop">> # <<>>
    OBVIOUS
  <2> QED
    BY <2>1, <2>2, <2>3 DEF Planning
<1> QED
  BY <1>1, <1>2, <1>3, <1>4, <1>5, <1>6, RestorePlanned, UpdatePlanned, BackupPlanned DEF Ops

LEMMA FirstOfFacts ==
  ASSUME NEW op \in Ops, NEW name \in FirstOf(op)
  PROVE  /\ op = "update" => name \notin Between
         /\ name # "port"
         /\ op = "halt" => name \in Stops
BY DEF FirstOf, Between, Stops, Ops

(* An operation begins on a record that is fit for it. *)
Fit(op, s) ==
    /\ s.fate = "stay" /\ ~s.save
    /\ s.token \/ s.ip => ~Native
    /\ s.refused => op \in {"uninstall", "halt"}
    /\ s.gone => op \in {"uninstall", "halt"} /\ s.retired
    /\ op = "uninstall" => "uninstall" \in Commands /\ s.retired
    /\ IF op = "install" THEN s.ver = 0 /\ Blank(s) ELSE s.ver # 0 /\ KeysKept(s)
    /\ op # "halt" => TokenBacked(s)

LEMMA BeginOut ==
  ASSUME NEW s \in Procs, NEW op \in Ops, NEW a \in Args, Fit(op, s)
  PROVE  Out(Begin(op, a, s))
<1> DEFINE retry == IF op \in {"start", "restart", "stop", "uninstall", "halt"}
                    THEN NoTimer ELSE s.retry
           d == [s EXCEPT !.st = "busy", !.probing = FALSE, !.retry = retry]
           run == [NoRun EXCEPT !.op = op, !.steps = Steps(op, a, d),
                                !.from = a.from, !.retry = a.retry,
                                !.starts = a.starts, !.backup = a.backup,
                                !.options = a.options, !.old = d.ver]
           e == [d EXCEPT !.touched = FALSE, !.run = run]
<1>0. retry \in Armed /\ "busy" \in States
  BY DEF Procs, Armed, States
<1> HIDE DEF retry
<1>1. /\ d \in Procs /\ d.st = "busy" /\ ~d.probing /\ d.ver = s.ver
      /\ d.refused = s.refused /\ d.retired = s.retired /\ d.fate = s.fate
      /\ d.token = s.token /\ d.ip = s.ip /\ d.port = s.port /\ d.keys = s.keys
      /\ d.gone = s.gone /\ d.save = s.save /\ d.cid = s.cid /\ d.ev = s.ev
  BY ZenonT(60), <1>0 DEF Procs
<1> HIDE DEF d
<1>2. run \in Runs /\ run.op = op /\ run.old = d.ver /\ run.steps = Steps(op, a, d)
  <2>1. Steps(op, a, d) \in Seq(StepNames) /\ NoRun \in Runs
    BY StepsType, FreshType
  <2>2. d.ver \in SavedVersions /\ op \in Ops \cup {"none"}
    BY <1>1 DEF Procs
  <2> QED
    BY <2>1, <2>2 DEF Runs, Args
<1> HIDE DEF run
<1>3. /\ e \in Procs /\ e.st = "busy" /\ ~e.probing /\ e.ver = s.ver /\ e.run = run
      /\ e.refused = s.refused /\ e.retired = s.retired /\ e.fate = s.fate
      /\ e.token = s.token /\ e.ip = s.ip /\ e.port = s.port /\ e.keys = s.keys
      /\ e.gone = s.gone /\ e.save = s.save /\ e.cid = s.cid /\ e.ev = s.ev
  BY ZenonT(60), <1>1, <1>2 DEF Procs
<1>4. e = Plan(op, a, d)
  BY DEF Plan, run
<1> HIDE DEF e
<1>5. Begin(op, a, s) = Advance(e)
  BY <1>4 DEF Begin, d, retry
<1>6. /\ e.run.op = op /\ e.run.old = s.ver
      /\ OnPlan(op, e.run.steps) /\ e.run.steps # <<>>
      /\ Head(e.run.steps) \in FirstOf(op) /\ First(e.run.steps) = Head(e.run.steps)
  BY <1>1, <1>2, <1>3, StepsPlanned, LeadsOnPlan DEF Planning, First
<1>7. OnTrack(e)
  <2>1. Keys(e) = Keys(s)
    BY <1>3, KeysAgree
  <2>2. Record(e)
    BY <1>3, <1>6, <2>1 DEF Record, Fit, Blank, KeysKept
  <2> QED
    BY <1>3, <1>6, <2>2 DEF OnTrack, Fit
<1>8. At(First(e.run.steps), e)
  <2>1. op # "halt" => TokenBacked(e)
    BY <1>3 DEF Fit, TokenBacked, Backed, Alive
  <2> QED
    BY <1>6, <2>1, FirstOfFacts DEF At
<1>9. Mid(e)
  BY <1>3, <1>6, <1>7, <1>8 DEF Mid, Ready, Fit
<1> QED
  BY <1>3, <1>5, <1>9, AdvanceOut

-----------------------------------------------------------------------------
(* What the invariant reads, for the changes it does not see.              *)

Alike(s, t) ==
    /\ t.st = s.st /\ t.probing = s.probing /\ t.token = s.token /\ t.ip = s.ip
    /\ t.refused = s.refused /\ t.gone = s.gone /\ t.retired = s.retired
    /\ t.ver = s.ver /\ t.port = s.port /\ t.keys = s.keys /\ t.cid = s.cid
    /\ t.ev = s.ev /\ t.run.op = s.run.op /\ t.run.old = s.run.old
    /\ t.run.steps = s.run.steps /\ t.run.step = s.run.step
    /\ t.run.cause = s.run.cause /\ (t.save => s.save)

LEMMA AlikeFacts ==
  ASSUME NEW s \in Procs, NEW t \in Procs, Alike(s, t)
  PROVE  /\ OnTrack(s) => OnTrack(t)
         /\ AtWork(s) => AtWork(t)
         /\ t.run = s.run /\ Resting(s) => Resting(t)
         /\ TokenBacked(s) => TokenBacked(t)
<1>1. Keys(t) = Keys(s)
  BY KeysAgree DEF Alike
<1>2. (Blank(s) => Blank(t)) /\ (KeysKept(s) => KeysKept(t))
  BY <1>1 DEF Alike, Blank, KeysKept
<1>3. TokenBacked(s) => TokenBacked(t)
  BY DEF Alike, TokenBacked, Backed, Alive
<1>4. OnTrack(s) => OnTrack(t)
  BY <1>2 DEF Alike, OnTrack, Record
<1>5. ASSUME NEW name, At(name, s) PROVE At(name, t)
  BY <1>3, <1>5 DEF Alike, At, Going
<1>6. AtWork(s) => AtWork(t)
  BY <1>5 DEF Alike, AtWork, Here
<1>7. t.run = s.run /\ Resting(s) => Resting(t)
  BY <1>2, <1>3 DEF Alike, Resting
<1> QED
  BY <1>3, <1>4, <1>6, <1>7

LEMMA EnterAlike ==
  ASSUME Inv, NEW disk \in Disk
  PROVE  LET s == Enter(disk)
         IN  /\ s \in Procs /\ Balanced(s) /\ s.fate = "stay"
             /\ Alike(p, s) /\ s.run = p.run /\ s.opt = p.opt /\ s.touched = p.touched
             /\ s.wanted = p.wanted /\ s.save = p.save
<1>1. p \in Procs
  BY DEF Inv, Typed, TypeOK
<1>2. /\ Enter(disk) \in Procs /\ Balanced(Enter(disk)) /\ Enter(disk).fate = "stay"
  BY EnterFacts DEF Inv, Answering
<1> QED
  BY <1>1, <1>2 DEF Enter, Procs, Alike

(* The record the invariant speaks of after a step. *)
LEMMA PrimedRecord ==
  ASSUME NEW t, p' = t, UNCHANGED box
  PROVE  /\ OnTrack(t) => OnTrack(p)'
         /\ AtWork(t) => AtWork(p)'
         /\ Resting(t) => Resting(p)'
BY DEF OnTrack, Record, Blank, KeysKept, AtWork, Here, OnPlan, Follows, First, At, Going,
       TokenBacked, Backed, Alive, Resting, Keys, DnsKeys, IngressKeys

LEMMA StayFields ==
  ASSUME NEW s \in Procs, ~Exits(s), s.fate = "stay"
  PROVE  LET t == After(s)
         IN  /\ t \in Procs /\ Alike(s, t) /\ ~t.save /\ t.run.task = s.run.task
             /\ t.opt = s.opt /\ t.touched = s.touched
<1> DEFINE n == Neutral(s)
           u == Unsaved(s)
           t == [n EXCEPT !.run.unsaved = u]
<1>1. /\ n \in Procs /\ ~n.save /\ n.run = s.run /\ Alike(s, n) /\ n.opt = s.opt
      /\ n.touched = s.touched
  BY ZenonT(60), NeutralType DEF Neutral, Procs, Alike
<1>2. t = After(s)
  BY DEF After
<1> HIDE DEF n, u
<1>3. /\ Alike(n, t) /\ ~t.save /\ t.run.task = n.run.task /\ t.opt = n.opt
      /\ t.touched = n.touched
  BY <1>1 DEF Procs, Runs, Alike
<1>4. t \in Procs
  BY <1>2, AfterType
<1> QED
  BY <1>1, <1>2, <1>3, <1>4 DEF Alike

LEMMA EndFields ==
  ASSUME NEW s \in Procs, ~Exits(s), s.fate # "stay"
  PROVE  LET t == After(s)
         IN  /\ t \in Procs /\ t.run = NoRun /\ ~t.retired /\ ~t.save
             /\ t.st = IF s.fate = "shutting_down" THEN "shutting_down"
                       ELSE IF s.refused THEN "refused" ELSE "idle"
             /\ t.probing = s.probing /\ t.token = s.token /\ t.ip = s.ip
             /\ t.refused = s.refused /\ t.gone = s.gone
             /\ t.ver = s.ver /\ t.port = s.port /\ t.keys = s.keys /\ t.cid = s.cid
             /\ t.ev = s.ev /\ t.opt = s.opt /\ Saved(t) = Saved(s)
<1> DEFINE n == Neutral(s)
           st == CASE s.fate = "shutting_down" -> "shutting_down"
                   [] s.fate # "shutting_down" /\ s.refused -> "refused"
                   [] OTHER -> "idle"
           t == [n EXCEPT !.run = NoRun, !.retired = FALSE, !.st = st]
<1>1. /\ n \in Procs /\ ~n.save /\ Alike(s, n) /\ n.opt = s.opt /\ Saved(n) = Saved(s)
  BY ZenonT(60), NeutralType DEF Neutral, Procs, Alike, Saved
<1>2. t = After(s)
  BY DEF After
<1>3. st = IF s.fate = "shutting_down" THEN "shutting_down"
           ELSE IF s.refused THEN "refused" ELSE "idle"
  BY DEF Procs
<1> HIDE DEF n, st
<1>4. /\ t.run = NoRun /\ ~t.retired /\ t.save = n.save /\ t.st = st
      /\ t.probing = n.probing /\ t.token = n.token /\ t.ip = n.ip
      /\ t.refused = n.refused /\ t.gone = n.gone
      /\ t.ver = n.ver /\ t.port = n.port /\ t.keys = n.keys /\ t.cid = n.cid
      /\ t.ev = n.ev /\ t.opt = n.opt /\ Saved(t) = Saved(n)
  BY <1>1 DEF Procs, Saved
<1>5. t \in Procs
  BY <1>2, AfterType
<1> QED
  BY <1>1, <1>2, <1>3, <1>4, <1>5 DEF Alike

-----------------------------------------------------------------------------
(* The end of a handler. *)

LEMMA FreshRests == Resting(Fresh) /\ ~Fresh.save /\ Fresh.ver = 0 /\ Fresh.st # "busy"
                    /\ Fresh.run.op = "none" /\ Fresh.run.step = "none"
BY DEF Resting, Fresh, NoRun

LEMMA EndRests ==
  ASSUME NEW s \in Procs, ~Exits(s), s.fate # "stay", ~s.gone, s.ver # 0,
         s.probing => s.cid # 0 /\ s.fate = "idle" /\ ~s.refused,
         s.token \/ s.ip => ~Native, KeysKept(s), TokenBacked(s)
  PROVE  Resting(After(s)) /\ After(s).st # "busy"
<1> DEFINE t == After(s)
<1>1. /\ t \in Procs /\ t.run = NoRun /\ ~t.retired
      /\ t.st \in {"idle", "shutting_down", "refused"}
      /\ t.refused => t.st \in {"refused", "shutting_down"}
      /\ s.fate = "idle" /\ ~s.refused => t.st = "idle"
      /\ t.probing = s.probing /\ t.token = s.token /\ t.ip = s.ip
      /\ t.refused = s.refused /\ t.gone = s.gone
      /\ t.ver = s.ver /\ t.port = s.port /\ t.keys = s.keys /\ t.cid = s.cid
      /\ t.ev = s.ev
  BY EndFields
<1> HIDE DEF t
<1>2. Keys(t) = Keys(s)
  BY <1>1, KeysAgree
<1>3. KeysKept(t) /\ TokenBacked(t)
  BY <1>1, <1>2 DEF KeysKept, TokenBacked, Backed, Alive
<1>4. Resting(t) /\ t.st # "busy"
  BY <1>1, <1>3 DEF Resting
<1> QED
  BY <1>4 DEF t

(* What the options of the record owe the caller who set them. *)
Kept(s) == /\ s.run.op # "install"
           /\ s.ver # 0 /\ ~s.refused =>
                s.opt = "user" /\ (s.run.op = "restore" => s.touched)

(* What a handler that went through an operation leaves. *)
LEMMA AfterPlanned ==
  ASSUME NEW s \in Procs, Out(s), p' = After(s), UNCHANGED box
  PROVE  /\ ~p'.save
         /\ IF p'.st = "busy" THEN OnTrack(p)' /\ AtWork(p)' ELSE Resting(p)'
         /\ StartReported'
         /\ p'.ver # 0 => ~Exits(s) /\ p'.ver = s.ver /\ p'.opt = s.opt
                          /\ p'.gone = s.gone
         /\ Kept(s) => Kept(p')
<1> DEFINE t == After(s)
<1>0. p' = t
  OBVIOUS
<1>1. CASE Exits(s)
  <2>1. t = Fresh
    BY <1>1 DEF After
  <2> HIDE DEF t
  <2>2. Resting(p)'
    BY <1>0, <2>1, FreshRests, PrimedRecord
  <2> QED
    BY <1>0, <2>1, <2>2, FreshRests DEF StartReported, Kept
<1>2. CASE ~Exits(s) /\ s.fate = "stay"
  <2>1. /\ t \in Procs /\ Alike(s, t) /\ ~t.save /\ t.run.task = s.run.task
        /\ t.opt = s.opt /\ t.touched = s.touched
    BY <1>2, StayFields
  <2> HIDE DEF t
  <2>2. OnTrack(s) /\ AtWork(s) /\ s.run.task = "running"
    BY <1>2 DEF Out
  <2>3. OnTrack(t) /\ AtWork(t)
    BY <2>1, <2>2, AlikeFacts
  <2>4. OnTrack(p)' /\ AtWork(p)'
    BY <1>0, <2>3, PrimedRecord
  <2>5. p'.st = "busy"
    BY <1>0, <2>3 DEF OnTrack
  <2>6. Kept(s) => Kept(t)
    BY <2>1 DEF Alike, Kept
  <2> QED
    BY <1>0, <1>2, <2>1, <2>2, <2>4, <2>5, <2>6 DEF StartReported, Alike
<1>3. CASE ~Exits(s) /\ s.fate # "stay"
  <2>1. /\ t.run = NoRun /\ ~t.save /\ t.refused = s.refused /\ t.gone = s.gone
        /\ t.ver = s.ver /\ t.opt = s.opt
    BY <1>3, EndFields
  <2>2. Resting(t) /\ t.st # "busy"
    <3>1. OnTrack(s) /\ Over(s) /\ s.fate # "exit"
      BY <1>3 DEF Out, Exits
    <3>2. /\ ~s.probing /\ ~s.gone /\ s.ver # 0 /\ (s.token \/ s.ip => ~Native)
          /\ KeysKept(s) /\ TokenBacked(s)
      BY <3>1 DEF OnTrack, Over, Record
    <3> QED
      BY <1>3, <3>2, EndRests
  <2> HIDE DEF t
  <2>3. Resting(p)'
    BY <1>0, <2>2, PrimedRecord
  <2>4. Kept(s) => Kept(t)
    BY <2>1 DEF Kept, NoRun
  <2> QED
    BY <1>0, <1>3, <2>1, <2>2, <2>3, <2>4 DEF StartReported, NoRun
<1> QED
  BY <1>1, <1>2, <1>3

LEMMA LeavePlanned ==
  ASSUME NEW s \in Procs, NEW waiting, Leave(s, waiting), Out(s), Balanced(s),
         UNCHANGED box, OptionsKept, p.gone => s.gone,
         file.ver = 0 => p.gone \/ s.run.op = "install",
         acked' => acked /\ Kept(s)
  PROVE  Planned'
<1>1. p' = After(s)
  BY DEF Leave
<1>2. /\ ~p'.save
      /\ IF p'.st = "busy" THEN OnTrack(p)' /\ AtWork(p)' ELSE Resting(p)'
      /\ StartReported'
      /\ p'.ver # 0 => ~Exits(s) /\ p'.ver = s.ver /\ p'.opt = s.opt /\ p'.gone = s.gone
      /\ Kept(s) => Kept(p')
  BY <1>1, AfterPlanned
<1>3. OnTrack(s)
  BY DEF Out
<1>4. \/ s.gone /\ file'.ver = 0
      \/ s.save /\ s.disk /\ ~s.refused /\ file' = Saved(s)
      \/ ~(s.save /\ s.disk /\ ~s.refused) /\ file' = file
      \/ p.gone /\ file' = file
  BY <1>3 DEF Leave, NoFile, Saved, Fresh, OnTrack
<1>5. file'.ver = 0 => p'.ver = 0 \/ p'.gone
  <2> SUFFICES ASSUME file'.ver = 0, p'.ver # 0 PROVE s.gone
    BY <1>2
  <2>1. s.ver # 0 /\ ~Exits(s)
    BY <1>2
  <2>2. CASE s.save /\ file' = Saved(s)
    BY <2>1, <2>2 DEF Saved
  <2>3. CASE ~(s.save /\ s.disk /\ ~s.refused) /\ file' = file /\ ~p.gone
    <3>1. s.run.op = "install"
      BY <2>3
    <3>2. s.fate # "stay"
      BY <2>1, <3>1 DEF Out, AtWork, Here
    <3>3. s.save
      BY <2>1, <3>1, <3>2 DEF Out, Over, Exits
    <3>4. ~s.refused
      BY <1>3, <3>1 DEF OnTrack
    <3> QED
      BY <2>1, <2>3, <3>1, <3>3, <3>4 DEF Exits, InstallUnsaved, Unsaved
  <2> QED
    BY <1>4, <2>2, <2>3
<1>6. OptionsKept'
  <2> SUFFICES ASSUME acked' PROVE file'.ver # 0 => file'.opt = "user"
    BY <1>2 DEF OptionsKept, Kept
  <2>1. acked /\ Kept(s)
    OBVIOUS
  <2> QED
    BY <1>4, <2>1 DEF OptionsKept, Kept, Saved
<1>7. SuccessIsOnDisk'
  <2> SUFFICES ASSUME answer'.value = "ok", answer'.op \in Durable
               PROVE  file' = Saved(p')
    BY DEF SuccessIsOnDisk
  <2>1. answer'.value = Value(s) /\ answer'.op = s.run.op
    BY DEF Leave, NoAnswer
  <2>2. s.reply = "ok" /\ ~InstallUnsaved(s) /\ ~Unsaved(s)
    BY <2>1 DEF Value, Durable
  <2>3. s.fate # "stay" /\ s.save /\ s.fate # "exit"
    BY <2>1, <2>2 DEF Balanced, Out, Over
  <2>4. ~Exits(s)
    BY <2>2, <2>3 DEF Exits
  <2>5. ~s.refused /\ ~s.gone
    BY <1>3, <2>1 DEF OnTrack, Durable
  <2>6. file' = Saved(s)
    BY <2>2, <2>3, <2>5 DEF Leave, Unsaved
  <2> QED
    BY <1>1, <2>3, <2>4, <2>6, EndFields
<1> QED
  BY <1>2, <1>5, <1>6, <1>7 DEF Planned

-----------------------------------------------------------------------------
(* Handlers outside any operation. *)

LEMMA RestPlanned ==
  ASSUME Planned, NEW s \in Procs, Rest(s), Resting(s), s.st # "busy", s.opt = p.opt,
         s.ver = p.ver, s.gone = p.gone, s.refused = p.refused,
         UNCHANGED <<box, acked>>
  PROVE  Planned'
<1> DEFINE n == Neutral(s)
<1>1. /\ n \in Procs /\ ~n.save /\ n.run = s.run /\ Alike(s, n) /\ n.opt = s.opt
  BY ZenonT(60), NeutralType DEF Neutral, Procs, Alike
<1>2. p' = n /\ file' = file /\ answer' = NoAnswer
  BY DEF Rest
<1> HIDE DEF n
<1>3. Resting(n)
  BY <1>1, AlikeFacts
<1>4. Resting(p)' /\ p'.st # "busy" /\ ~p'.save /\ p'.run = NoRun
  BY <1>1, <1>2, <1>3, PrimedRecord DEF Alike, Resting
<1>5. p'.ver = p.ver /\ p'.opt = p.opt /\ p'.gone = p.gone /\ p'.refused = p.refused
  BY <1>1, <1>2 DEF Alike
<1>6. OptionsKept'
  BY <1>2, <1>4, <1>5 DEF Planned, OptionsKept, NoRun
<1>7. StartReported' /\ SuccessIsOnDisk'
  BY <1>2, <1>4 DEF StartReported, SuccessIsOnDisk, NoAnswer, NoRun
<1> QED
  BY <1>2, <1>4, <1>5, <1>6, <1>7 DEF Planned

(* What no event changes. *)
Steady(s, t) == /\ SameRun(s, t) /\ t.opt = s.opt /\ t.ver = s.ver /\ t.gone = s.gone
                /\ t.refused = s.refused

LEMMA DiedRests ==
  ASSUME NEW s \in Procs, Resting(s), NEW ev \in {"exited0", "exited"},
         s.st # "new"
  PROVE  Resting(Died(s, ev)) /\ Steady(s, Died(s, ev))
<1> DEFINE k == DropRunKeys(s)
           d == [k EXCEPT !.health = "none", !.probe = FALSE, !.settled = FALSE,
                          !.ev = ev]
<1>1. k \in Procs /\ ev \in Seen /\ "none" \in Healths
  BY DropRunKeysType DEF Seen, Healths
<1>2. /\ ~k.token /\ ~k.ip /\ k.ver = s.ver /\ k.gone = s.gone /\ k.run = s.run
      /\ k.cid = s.cid
      /\ k.st = s.st /\ k.probing = s.probing /\ k.refused = s.refused
      /\ k.retired = s.retired /\ k.opt = s.opt
      /\ KeysKept(s) => KeysKept(k)
  BY DropRunKeysFacts, DropRunKeysFrame DEF Frame, Constant
<1> HIDE DEF k
<1>3. /\ d \in Procs /\ d.token = k.token /\ d.ip = k.ip /\ d.ver = k.ver
      /\ d.gone = k.gone /\ d.run = k.run /\ d.cid = k.cid
      /\ d.st = k.st /\ d.probing = k.probing /\ d.refused = k.refused
      /\ d.retired = k.retired /\ d.opt = k.opt /\ d.keys = k.keys /\ d.port = k.port
  BY ZenonT(60), <1>1 DEF Procs
<1> HIDE DEF d
<1>4. Keys(d) = Keys(k)
  BY <1>1, <1>3, KeysAgree
<1>5. Resting(d)
  BY <1>2, <1>3, <1>4 DEF Resting, KeysKept, TokenBacked
<1>6. Resting(Retry(d)) /\ Steady(s, d) /\ Steady(s, Retry(d))
  <2>1. Retry(d) \in Procs /\ SameRun(d, Retry(d)) /\ Agree(d, Retry(d))
    BY <1>3, RetryType, RetryKeeps, LadderAgrees
  <2>2. Alike(d, Retry(d)) /\ Retry(d).run = d.run
    BY <2>1 DEF Alike, Agree, Constant, Facts, SameRun
  <2>3. Steady(s, d) /\ Steady(s, Retry(d))
    BY <1>2, <1>3, <2>1 DEF Steady, SameRun, Agree, Constant, Facts
  <2> QED
    BY <1>3, <1>5, <2>1, <2>2, <2>3, AlikeFacts
<1> QED
  BY <1>5, <1>6 DEF Died, d, k

LEMMA BelievedUp ==
  ASSUME NEW s \in Procs, NEW t \in Procs, Resting(s), Steady(s, t), t.probing = s.probing,
         t.token = s.token, t.ip = s.ip, t.retired = s.retired, t.port = s.port,
         t.keys = s.keys, t.cid = s.cid, Alive(s) => Alive(t)
  PROVE  Resting(t)
<1>1. Keys(t) = Keys(s)
  BY KeysAgree DEF Steady
<1>2. (Blank(s) => Blank(t)) /\ (KeysKept(s) => KeysKept(t))
  BY <1>1 DEF Steady, Blank, KeysKept
<1>3. TokenBacked(s) => TokenBacked(t)
  BY DEF Steady, TokenBacked, Backed
<1> QED
  BY <1>2, <1>3 DEF Steady, SameRun, Resting

LEMMA HealthSeenRests ==
  ASSUME NEW s \in Procs, Resting(s), NEW h \in {"healthy", "unhealthy"}
  PROVE  Resting(HealthSeen(s, h)) /\ Steady(s, HealthSeen(s, h))
<1> DEFINE ev == IF s.ev = "failed_probe" THEN s.ev ELSE h
           d == [s EXCEPT !.health = h, !.ev = ev]
<1>1. ev \in Seen /\ h \in Healths /\ ev \in {"failed_probe", "healthy", "unhealthy"}
  BY DEF Procs, Seen, Healths
<1> HIDE DEF ev
<1>2. /\ d \in Procs /\ Steady(s, d) /\ d.probing = s.probing /\ Steady(s, s)
      /\ d.token = s.token /\ d.ip = s.ip /\ d.retired = s.retired
      /\ d.port = s.port /\ d.keys = s.keys /\ d.cid = s.cid /\ d.ev = ev
  BY <1>1 DEF Procs, Steady, SameRun
<1> HIDE DEF d
<1>3. Alive(s) => Alive(d)
  BY <1>1, <1>2 DEF Alive, Up
<1>4. Resting(d)
  BY <1>2, <1>3, BelievedUp
<1>5. Resting(Retry(d)) /\ Steady(s, Retry(d))
  <2>1. Retry(d) \in Procs /\ SameRun(d, Retry(d)) /\ Agree(d, Retry(d))
    BY <1>2, RetryType, RetryKeeps, LadderAgrees
  <2>2. Alike(d, Retry(d)) /\ Retry(d).run = d.run /\ Steady(s, Retry(d))
    BY <1>2, <2>1 DEF Alike, Agree, Constant, Facts, SameRun, Steady
  <2> QED
    BY <1>2, <1>4, <2>1, <2>2, AlikeFacts
<1> QED
  BY <1>2, <1>4, <1>5 DEF HealthSeen, d, ev

(* A container is adopted by a process that holds none, and so by one that *)
(* holds no token either.                                                  *)
LEMMA OnEventRests ==
  ASSUME NEW s \in Procs, Resting(s), NEW e \in Messages, s.st # "new"
  PROVE  Resting(OnEvent(e, s)) /\ Steady(s, OnEvent(e, s))
<1>1. Steady(s, s)
  BY DEF Steady, SameRun
<1>2. ASSUME s.cid = 0
      PROVE  LET t == [s EXCEPT !.cid = e.id, !.health = "none", !.ev = "running"]
             IN  Resting(t) /\ Steady(s, t)
  <2> DEFINE t == [s EXCEPT !.cid = e.id, !.health = "none", !.ev = "running"]
  <2>1. e.id \in Held /\ "none" \in Healths /\ "running" \in Seen
    BY DEF Messages, Events, Held, Healths, Seen
  <2>2. /\ t \in Procs /\ Steady(s, t) /\ t.probing = s.probing
        /\ t.token = s.token /\ t.ip = s.ip /\ t.retired = s.retired
        /\ t.port = s.port /\ t.keys = s.keys
    BY <2>1 DEF Procs, Steady, SameRun
  <2> HIDE DEF t
  <2>3. Keys(t) = Keys(s)
    BY <2>2, KeysAgree DEF Steady
  <2>4. s.st # "down" => ~(NoPorts /\ t.token)
    BY <1>2, <2>2 DEF Resting, TokenBacked, Backed, Alive
  <2>5. Resting(t)
    BY <1>2, <2>2, <2>3, <2>4 DEF Resting, Steady, SameRun, KeysKept, TokenBacked
  <2> QED
    BY <2>2, <2>5 DEF t
<1> QED
  BY <1>1, <1>2, DiedRests, HealthSeenRests DEF OnEvent

LEMMA StrikeRests ==
  ASSUME NEW s \in Procs, Resting(s), NEW result
  PROVE  Resting(Strike(result, s)) /\ Steady(s, Strike(result, s))
<1> DEFINE d == [s EXCEPT !.strikes = 0]
           ok == [s EXCEPT !.strikes = 0, !.probe = TRUE]
           skip == [s EXCEPT !.probe = TRUE]
           hit == [s EXCEPT !.strikes = s.strikes + 1, !.probe = TRUE]
           out == [s EXCEPT !.strikes = 0, !.ev = "failed_probe"]
<1>1. 0 \in StrikeCounts /\ "failed_probe" \in Seen
  BY BoundsAssumption DEF StrikeCounts, Seen
<1>2. /\ d \in Procs /\ Alike(s, d) /\ Steady(s, d) /\ d.run = s.run
      /\ ok \in Procs /\ Alike(s, ok) /\ Steady(s, ok) /\ ok.run = s.run
      /\ skip \in Procs /\ Alike(s, skip) /\ Steady(s, skip) /\ skip.run = s.run
  BY <1>1 DEF Procs, Alike, Steady, SameRun
<1>3. ASSUME s.strikes + 1 < Strikes
      PROVE  Resting(hit) /\ Steady(s, hit)
  <2>1. s.strikes + 1 \in StrikeCounts
    BY <1>3, BoundsAssumption DEF StrikeCounts, Procs
  <2>2. hit \in Procs /\ Alike(s, hit) /\ Steady(s, hit) /\ hit.run = s.run
    BY <2>1 DEF Procs, Alike, Steady, SameRun
  <2> QED
    BY <2>2, AlikeFacts
<1>4. Resting(out) /\ Steady(s, out)
  <2>1. /\ out \in Procs /\ Steady(s, out) /\ out.probing = s.probing
        /\ out.token = s.token /\ out.ip = s.ip /\ out.retired = s.retired
        /\ out.port = s.port /\ out.keys = s.keys /\ out.cid = s.cid
        /\ out.ev = "failed_probe"
    BY <1>1 DEF Procs, Steady, SameRun
  <2> HIDE DEF out
  <2>2. Alive(s) => Alive(out)
    BY <2>1 DEF Alive
  <2> QED
    BY <2>1, <2>2, BelievedUp
<1> HIDE DEF d, ok, skip
<1>5. Resting(ok) /\ Resting(skip) /\ Resting(d)
  BY <1>2, AlikeFacts
<1>6. Resting(Retry(d)) /\ Steady(s, Retry(d))
  <2>1. Retry(d) \in Procs /\ SameRun(d, Retry(d)) /\ Agree(d, Retry(d))
    BY <1>2, RetryType, RetryKeeps, LadderAgrees
  <2>2. Alike(d, Retry(d)) /\ Retry(d).run = d.run /\ Steady(s, Retry(d))
    BY <1>2, <2>1 DEF Alike, Agree, Constant, Facts, SameRun, Steady
  <2> QED
    BY <1>2, <1>5, <2>1, <2>2, AlikeFacts
<1> QED
  BY <1>2, <1>3, <1>4, <1>5, <1>6 DEF Strike, d, ok, skip

-----------------------------------------------------------------------------
(* One lemma per action. *)

LEMMA BeginPlanned ==
  ASSUME Planned, NEW s \in Procs, Balanced(s),
         s.opt = p.opt, s.ver = p.ver, s.gone = p.gone, s.refused = p.refused,
         NEW op \in Ops, NEW a \in Args, NEW waiting, Fit(op, s),
         Leave(Begin(op, a, s), waiting), UNCHANGED box, file.ver = 0 => op = "install",
         acked' => acked /\ op \notin {"restore", "install"}
  PROVE  Planned'
<1> DEFINE t == Begin(op, a, s)
<1>1. /\ t \in Procs /\ Balanced(t) /\ t.run.op = op /\ t.opt = s.opt
      /\ t.refused = s.refused /\ (s.gone => t.gone)
  BY BeginType, BeginCarries
<1>2. Out(t)
  BY BeginOut
<1>3. Leave(t, waiting)
  OBVIOUS
<1> HIDE DEF t
<1>4. acked' => acked /\ Kept(t)
  BY <1>1 DEF Planned, OptionsKept, Kept, Fit
<1>5. OptionsKept
  BY DEF Planned
<1> QED
  BY <1>1, <1>2, <1>3, <1>4, <1>5, LeavePlanned

(* What a process at rest brings to a handler. *)
LEMMA RestingFacts ==
  ASSUME Inv, Planned, p.st # "busy"
  PROVE  /\ Resting(p) /\ ~p.save /\ ~p.gone
         /\ p.st \notin {"down", "new"} => p.ver # 0 /\ file.ver # 0
         /\ p.st = "idle" => ~p.refused
BY DEF Planned, Resting

(* A command, and a halt, find a record that is fit for its operation.     *)
LEMMA CommandFits ==
  ASSUME Inv, Planned, NEW op \in Commands, Command(op), NEW disk \in Disk
  PROVE  LET e == Enter(disk)
             s == IF op = "uninstall" THEN [e EXCEPT !.retired = TRUE] ELSE e
         IN  /\ s \in Procs /\ Balanced(s) /\ s.opt = p.opt /\ s.ver = p.ver
             /\ s.gone = p.gone /\ s.refused = p.refused /\ Fit(op, s)
             /\ op \in Ops /\ op # "halt" /\ p.st \in {"new", "idle", "refused"}
             /\ p.st = "new" <=> op = "install"
<1>1. op \in Ops /\ op # "halt"
  BY ServerAssumption
<1> DEFINE e == Enter(disk)
           s == IF op = "uninstall" THEN [e EXCEPT !.retired = TRUE] ELSE e
<1>3. /\ e \in Procs /\ Balanced(e) /\ e.fate = "stay" /\ Alike(p, e) /\ e.run = p.run
      /\ e.opt = p.opt /\ e.save = p.save
  BY EnterAlike
<1>4. p.st # "busy" /\ p.st # "down"
  BY <1>1 DEF Command, Admitted
<1>5. Resting(p) /\ ~p.save /\ ~p.gone
  BY <1>4, RestingFacts
<1>6. Resting(e) /\ e.st = p.st
  BY <1>3, <1>5, AlikeFacts DEF Inv, Typed, TypeOK, Alike
<1>7. /\ p.st = "new" => op = "install"
      /\ p.st = "idle" => op # "install"
      /\ p.st = "refused" => op = "uninstall"
      /\ p.st = "shutting_down" => FALSE
  BY <1>1 DEF Command, Admitted, Ops
<1> HIDE DEF e
<1>8. /\ s \in Procs /\ Balanced(s) /\ s.opt = p.opt /\ s.ver = p.ver /\ s.gone = p.gone
      /\ s.refused = p.refused
      /\ s.fate = "stay" /\ ~s.save /\ s.token = e.token /\ s.ip = e.ip
      /\ (op = "uninstall" => s.retired)
      /\ s.port = e.port /\ s.keys = e.keys /\ s.cid = e.cid /\ s.ev = e.ev
      /\ s.st = p.st
  <2>1. [e EXCEPT !.retired = TRUE] \in Procs
    BY <1>3 DEF Procs
  <2> QED
    BY <1>3, <1>5, <1>6, <2>1 DEF Procs, Balanced, Alike
<1> HIDE DEF s
<1>10. Keys(s) = Keys(e) /\ s.ver = e.ver /\ s.refused = e.refused
  BY <1>3, <1>8, KeysAgree DEF Alike
<1>11. p.st \in {"new", "idle", "refused"}
  BY <1>4, <1>7 DEF Inv, Typed, TypeOK, Procs, States
<1>12. Fit(op, s)
  <2>1. CASE p.st = "new"
    BY <1>5, <1>6, <1>7, <1>8, <1>10, <2>1 DEF Fit, Resting, Blank, TokenBacked
  <2>2. CASE p.st # "new"
    <3>1. TokenBacked(s) /\ KeysKept(s) /\ s.ver # 0 /\ (s.token \/ s.ip => ~Native)
      BY <1>4, <1>6, <1>8, <1>10, <2>2 DEF Resting, TokenBacked, Backed, Alive, KeysKept
    <3>2. s.refused => op = "uninstall"
      BY <1>6, <1>7, <1>8, <1>10, <1>11 DEF Resting
    <3> QED
      BY <1>5, <1>7, <1>8, <1>11, <2>2, <3>1, <3>2 DEF Fit
  <2> QED
    BY <2>1, <2>2
<1>13. p.st = "new" <=> op = "install"
  BY <1>7, <1>11
<1> QED
  BY <1>1, <1>8, <1>11, <1>12, <1>13 DEF e, s

LEMMA CommandPlanned ==
  ASSUME Inv, Planned, NEW op \in Commands, Command(op) PROVE Planned'
<1>1. PICK a \in ArgsOf(op), disk \in Disk :
        Leave(Begin(op, a, IF op = "uninstall" THEN [Enter(disk) EXCEPT !.retired = TRUE]
                           ELSE Enter(disk)), callers + 1)
  BY DEF Command
<1> DEFINE s == IF op = "uninstall" THEN [Enter(disk) EXCEPT !.retired = TRUE]
                ELSE Enter(disk)
<1>2. /\ s \in Procs /\ Balanced(s) /\ s.opt = p.opt /\ s.ver = p.ver /\ s.gone = p.gone
      /\ s.refused = p.refused /\ Fit(op, s) /\ op \in Ops
      /\ p.st \in {"new", "idle", "refused"} /\ (p.st = "new" <=> op = "install")
  BY CommandFits
<1>3. Leave(Begin(op, a, s), callers + 1)
  BY <1>1
<1> HIDE DEF s
<1>4. file.ver = 0 => op = "install"
  BY <1>2, RestingFacts
<1>5. UNCHANGED box /\ (acked' => acked /\ op \notin {"restore", "install"})
  BY DEF Command, outside
<1>6. a \in Args
  BY ArgsOfType
<1> QED
  BY <1>2, <1>3, <1>4, <1>5, <1>6, BeginPlanned

LEMMA HaltFits ==
  ASSUME Inv, Planned, Halt, p.run.op # "install", NEW disk \in Disk
  PROVE  Fit("halt", Enter(disk)) /\ p.ver # 0
<1> DEFINE s == Enter(disk)
<1>1. /\ s \in Procs /\ s.fate = "stay" /\ Alike(p, s) /\ s.run = p.run
      /\ s.save = p.save
  BY EnterAlike
<1> HIDE DEF s
<1>2. p.st \in {"idle", "busy"}
  BY DEF Halt, Admitted, Ops, Inv, Typed, TypeOK, Procs, States
<1>3. CASE p.st = "idle"
  <2>1. Resting(s) /\ s.st = "idle"
    BY <1>1, <1>3, RestingFacts, AlikeFacts DEF Inv, Typed, TypeOK, Alike
  <2> QED
    BY <1>1, <1>3, <2>1, RestingFacts DEF Fit, Resting, Alike, s
<1>4. CASE p.st = "busy"
  <2>1. OnTrack(p) /\ AtWork(p) /\ ~p.save
    BY <1>4 DEF Planned
  <2>2. OnTrack(s)
    BY <1>1, <2>1, AlikeFacts DEF Inv, Typed, TypeOK
  <2>3. p.ver # 0
    BY <2>1 DEF OnTrack, Record
  <2>4. s.ver # 0 /\ KeysKept(s) /\ ~s.save
    BY <1>1, <2>1, <2>2, <2>3 DEF OnTrack, Record, Alike
  <2> QED
    BY <1>1, <2>2, <2>3, <2>4 DEF Fit, OnTrack, s
<1> QED
  BY <1>2, <1>3, <1>4

LEMMA HaltPlanned == ASSUME Inv, Planned, Halt PROVE Planned'
<1> DEFINE s == Enter(TRUE)
           t == Begin("halt", Called, s)
<1>0. /\ UNCHANGED <<file, box, acked>>
      /\ answer' = NoAnswer \/ answer'.value = "shutting_down"
  BY DEF Halt
<1>1. SuccessIsOnDisk'
  BY <1>0 DEF SuccessIsOnDisk, NoAnswer
<1>2. CASE p' = Fresh
  <2>1. Resting(p)'
    BY <1>0, <1>2, FreshRests, PrimedRecord
  <2> QED
    BY <1>0, <1>1, <1>2, <2>1, FreshRests DEF Planned, OptionsKept, StartReported
<1>3. CASE p.run.op # "install" /\ p' = After(t)
  <2>1. TRUE \in Disk /\ Called \in Args /\ "halt" \in Ops
    BY DEF Disk, Called, Args, Ops
  <2>2. /\ s \in Procs /\ Balanced(s) /\ s.fate = "stay" /\ Alike(p, s) /\ s.run = p.run
        /\ s.opt = p.opt /\ s.save = p.save
    BY <2>1, EnterAlike
  <2> HIDE DEF s
  <2>3. TRUE \in Disk /\ Fit("halt", Enter(TRUE)) /\ p.ver # 0
    BY <1>3, <2>1, HaltFits
  <2>4. Fit("halt", s) /\ p.ver # 0
    BY <2>3 DEF s
  <2>5. /\ t \in Procs /\ t.run.op = "halt" /\ t.opt = s.opt /\ t.refused = s.refused
        /\ (s.gone => t.gone) /\ t.fate = "stay"
    BY <2>1, <2>2, BeginType, BeginCarries, HaltBegins
  <2>6. Out(t)
    BY <2>1, <2>2, <2>4, BeginOut
  <2> HIDE DEF t
  <2>7. ~Exits(t)
    BY <2>5 DEF Exits, InstallUnsaved
  <2>8. /\ After(t).gone = t.gone /\ After(t).run.op = "halt" /\ After(t).opt = p.opt
        /\ After(t).refused = p.refused
    BY <2>2, <2>5, <2>7, StayFields DEF Alike
  <2>9. /\ ~p'.save /\ StartReported'
        /\ IF p'.st = "busy" THEN OnTrack(p)' /\ AtWork(p)' ELSE Resting(p)'
    BY <1>0, <1>3, <2>5, <2>6, AfterPlanned
  <2>10. file'.ver = 0 => p'.ver = 0 \/ p'.gone
    BY <1>0, <1>3, <2>2, <2>4, <2>5, <2>8 DEF Planned, Alike
  <2>11. OptionsKept'
    BY <1>0, <1>3, <2>4, <2>8 DEF Planned, OptionsKept
  <2> QED
    BY <1>1, <2>9, <2>10, <2>11 DEF Planned
<1> QED
  BY <1>2, <1>3 DEF Halt

LEMMA BootStartCases ==
  ASSUME Inv, BootStart
  PROVE  \E disk \in Disk :
           LET s == [Enter(disk) EXCEPT !.st = "idle"]
           IN  \/ p.refused /\ Rest([s EXCEPT !.st = "refused"])
               \/ ~p.refused /\ Leave(Begin("start", Called, s), callers + 1)
               \/ ~p.refused /\ Leave([s EXCEPT !.wanted = "stopped", !.retry = NoTimer,
                                                !.save = TRUE, !.fate = "idle"], callers)
               \/ ~p.refused /\ Rest(s)
<1>1. PICK reported \in Reported, disk \in Disk :
        LET s == [Enter(disk) EXCEPT !.st = "idle"]
            view == BootView(reported)
            rule == IF view = "managed" THEN "none" ELSE Boot(p, view)
        IN  IF s.refused
            THEN Rest([s EXCEPT !.st = "refused"])
            ELSE CASE rule = "start" -> Leave(Begin("start", Called, s), callers + 1)
                   [] rule = "demote" ->
                        Leave([s EXCEPT !.wanted = "stopped", !.retry = NoTimer,
                                        !.save = TRUE, !.fate = "idle"], callers)
                   [] OTHER -> Rest(s)
  BY DEF BootStart
<1>2. Enter(disk).refused = p.refused /\ [Enter(disk) EXCEPT !.st = "idle"].refused
        = Enter(disk).refused
  BY EnterAlike DEF Alike, Procs
<1> QED
  BY <1>1, <1>2

LEMMA BootStartPlanned == ASSUME Inv, Planned, BootStart PROVE Planned'
<1>1. PICK disk \in Disk :
        LET s == [Enter(disk) EXCEPT !.st = "idle"]
        IN  \/ p.refused /\ Rest([s EXCEPT !.st = "refused"])
            \/ ~p.refused /\ Leave(Begin("start", Called, s), callers + 1)
            \/ ~p.refused /\ Leave([s EXCEPT !.wanted = "stopped", !.retry = NoTimer,
                                             !.save = TRUE, !.fate = "idle"], callers)
            \/ ~p.refused /\ Rest(s)
  BY BootStartCases
<1> DEFINE e == Enter(disk)
           s == [e EXCEPT !.st = "idle"]
<1>2. /\ e \in Procs /\ Balanced(e) /\ e.fate = "stay" /\ Alike(p, e) /\ e.run = p.run
      /\ e.opt = p.opt /\ e.save = p.save
  BY EnterAlike
<1>3. /\ p.st \in {"idle", "shutting_down"} /\ UNCHANGED <<box, acked>>
      /\ Resting(p) /\ ~p.save /\ ~p.gone /\ p.ver # 0 /\ file.ver # 0
  BY RestingFacts DEF BootStart
<1>4. Resting(e)
  BY <1>2, <1>3, AlikeFacts DEF Inv, Typed, TypeOK
<1> DEFINE q == [s EXCEPT !.st = "refused"]
           d == [s EXCEPT !.wanted = "stopped", !.retry = NoTimer,
                          !.save = TRUE, !.fate = "idle"]
<1>5. /\ s \in Procs /\ Balanced(s) /\ s.opt = p.opt /\ s.ver = p.ver /\ s.gone = p.gone
      /\ s.refused = p.refused /\ s.fate = "stay" /\ ~s.save /\ s.token = e.token
      /\ s.ip = e.ip /\ s.port = e.port /\ s.keys = e.keys /\ s.cid = e.cid
      /\ s.ev = e.ev /\ s.st = "idle" /\ s.run = e.run /\ s.probing = e.probing
      /\ s.retired = e.retired /\ s.reply = e.reply
  BY <1>2, <1>3 DEF Procs, Balanced, Alike, States
<1>6. \/ p.refused /\ Rest(q)
      \/ ~p.refused /\ Leave(Begin("start", Called, s), callers + 1)
      \/ ~p.refused /\ Leave(d, callers)
      \/ ~p.refused /\ Rest(s)
  BY <1>1
<1> HIDE DEF s
<1>7. Keys(s) = Keys(e)
  BY <1>2, <1>5, KeysAgree DEF Alike
<1>8. /\ s.ver # 0 /\ KeysKept(s) /\ TokenBacked(s) /\ (s.token \/ s.ip => ~Native)
      /\ s.run = NoRun /\ ~s.gone /\ ~s.retired
      /\ s.probing => s.cid # 0 /\ e.st = "idle"
  BY <1>2, <1>3, <1>4, <1>5, <1>7
  DEF Resting, KeysKept, TokenBacked, Backed, Alive, Alike
<1>9. CASE p.refused /\ Rest(q)
  <2>1. /\ q \in Procs /\ q.opt = p.opt /\ q.ver = p.ver /\ q.gone = p.gone
        /\ q.refused = p.refused /\ q.token = s.token /\ q.ip = s.ip
        /\ q.port = s.port /\ q.keys = s.keys /\ q.cid = s.cid /\ q.ev = s.ev
        /\ q.st = "refused" /\ q.run = s.run /\ q.probing = s.probing
        /\ q.retired = s.retired
    BY <1>5 DEF Procs, States
  <2> HIDE DEF q
  <2>2. KeysKept(q) /\ TokenBacked(q)
    <3>1. Keys(q) = Keys(s)
      BY <1>5, <2>1, KeysAgree
    <3> QED
      BY <1>5, <1>8, <2>1, <3>1 DEF KeysKept, TokenBacked, Backed, Alive
  <2>3. ~q.probing
    BY <1>2, <1>4, <1>8, <1>9, <2>1 DEF Resting, Alike
  <2>4. Resting(q) /\ q.st # "busy"
    BY <1>5, <1>8, <2>1, <2>2, <2>3 DEF Resting
  <2> QED
    BY <1>3, <1>9, <2>1, <2>4, RestPlanned
<1>10. CASE ~p.refused /\ Leave(Begin("start", Called, s), callers + 1)
  <2>1. Called \in Args /\ "start" \in Ops
    BY DEF Called, Args, Ops
  <2>2. Fit("start", s)
    BY <1>5, <1>8, <1>10 DEF Fit
  <2> QED
    BY <1>3, <1>5, <1>10, <2>1, <2>2, BeginPlanned
<1>11. CASE ~p.refused /\ Rest(s)
  <2>1. Resting(s)
    BY <1>5, <1>8, <1>11 DEF Resting
  <2> QED
    BY <1>3, <1>5, <1>11, <2>1, RestPlanned
<1>12. CASE ~p.refused /\ Leave(d, callers)
  <2>1. /\ d \in Procs /\ d.opt = p.opt /\ d.ver = p.ver /\ d.gone = p.gone
        /\ d.refused = p.refused /\ d.token = s.token /\ d.ip = s.ip
        /\ d.port = s.port /\ d.keys = s.keys /\ d.cid = s.cid /\ d.ev = s.ev
        /\ d.run = s.run /\ d.probing = s.probing /\ d.retired = s.retired
        /\ d.fate = "idle" /\ d.reply = s.reply
    BY <1>5 DEF Procs, Wants, Armed, Fates
  <2>2. Leave(d, callers)
    BY <1>12
  <2> HIDE DEF d
  <2>3. ~Exits(d) /\ Value(d) = "none"
    BY <1>2, <1>5, <1>8, <2>1 DEF Exits, InstallUnsaved, Value, Balanced, NoRun
  <2>4. KeysKept(d) /\ TokenBacked(d)
    <3>1. Keys(d) = Keys(s)
      BY <1>5, <2>1, KeysAgree
    <3> QED
      BY <1>5, <1>8, <2>1, <3>1 DEF KeysKept, TokenBacked, Backed, Alive
  <2>5. Resting(After(d)) /\ After(d).st # "busy"
    BY <1>2, <1>3, <1>5, <1>8, <1>12, <2>1, <2>3, <2>4, EndRests
  <2>6. /\ After(d).ver = p.ver /\ After(d).opt = p.opt /\ After(d).gone = p.gone
        /\ ~After(d).save /\ After(d).run = NoRun
    BY <2>1, <2>3, EndFields
  <2>7. p' = After(d) /\ answer' = NoAnswer
    BY <2>2, <2>3 DEF Leave
  <2>8. file' = file \/ file' = Saved(d)
    BY <1>3, <2>1, <2>2 DEF Leave
  <2>9. Resting(p)'
    BY <1>3, <2>5, <2>7, PrimedRecord
  <2>10. OptionsKept'
    BY <1>3, <1>12, <2>1, <2>6, <2>7, <2>8 DEF Planned, OptionsKept, NoRun, Saved
  <2>11. file'.ver = 0 => p'.ver = 0 \/ p'.gone
    BY <1>3, <2>1, <2>8 DEF Saved
  <2>12. StartReported' /\ SuccessIsOnDisk'
    BY <2>6, <2>7 DEF StartReported, SuccessIsOnDisk, NoAnswer, NoRun
  <2> QED
    BY <2>5, <2>6, <2>7, <2>9, <2>10, <2>11, <2>12 DEF Planned
<1> QED
  BY <1>6, <1>9, <1>10, <1>11, <1>12

(* A step that changes nothing of the record the invariant reads. *)
LEMMA AlikePlanned ==
  ASSUME Inv, Planned, NEW t \in Procs, p' = t, Alike(p, t), t.run = p.run, t.opt = p.opt,
         t.touched = p.touched, UNCHANGED <<file, box, acked>>,
         answer' = NoAnswer \/ (answer' = answer /\ t = p)
  PROVE  Planned'
<1>1. /\ OnTrack(p) => OnTrack(t)
      /\ AtWork(p) => AtWork(t)
      /\ Resting(p) => Resting(t)
  BY AlikeFacts DEF Inv, Typed, TypeOK
<1>2. IF p'.st = "busy" THEN OnTrack(p)' /\ AtWork(p)' ELSE Resting(p)'
  BY <1>1, PrimedRecord DEF Planned, Alike
<1>3. OptionsKept' /\ StartReported'
  BY DEF Planned, OptionsKept, StartReported, Alike
<1>4. SuccessIsOnDisk'
  BY DEF Planned, SuccessIsOnDisk, NoAnswer
<1> QED
  BY <1>2, <1>3, <1>4 DEF Planned, Alike

LEMMA SettingPlanned == ASSUME Inv, Planned, SetOptions \/ SetWatchdog PROVE Planned'
<1>1. PICK s : /\ p' = s /\ file' = Saved(s) /\ UNCHANGED box /\ answer' = NoAnswer
               /\ p.ver # 0 /\ ~p.retired /\ ~p.refused
               /\ \/ s = [p EXCEPT !.opt = "user", !.touched = TRUE]
                  \/ /\ acked' = acked
                     /\ s = [p EXCEPT !.watchdog = ~p.watchdog,
                                      !.probe = IF p.watchdog THEN FALSE
                                                ELSE p.probe \/ p.cid # 0]
  BY DEF SetOptions, SetWatchdog
<1>2. p \in Procs
  BY DEF Inv, Typed, TypeOK
<1>3. /\ s \in Procs /\ Alike(p, s) /\ s.run = p.run /\ s.save = p.save
      /\ \/ s.opt = "user" /\ s.touched
         \/ acked' = acked /\ s.opt = p.opt /\ s.touched = p.touched
  <2>1. CASE s = [p EXCEPT !.opt = "user", !.touched = TRUE]
    <3>1. "user" \in OptionValues
      BY DEF OptionValues
    <3> QED
      BY ZenonT(60), <1>2, <2>1, <3>1 DEF Procs, Alike
  <2>2. CASE /\ acked' = acked
             /\ s = [p EXCEPT !.watchdog = ~p.watchdog,
                              !.probe = IF p.watchdog THEN FALSE
                                        ELSE p.probe \/ p.cid # 0]
    <3> DEFINE probe == IF p.watchdog THEN FALSE ELSE p.probe \/ p.cid # 0
               watchdog == ~p.watchdog
    <3>1. probe \in BOOLEAN /\ watchdog \in BOOLEAN
      BY <1>2 DEF Procs
    <3> HIDE DEF probe, watchdog
    <3>2. s = [p EXCEPT !.watchdog = watchdog, !.probe = probe]
      BY <2>2 DEF probe, watchdog
    <3> QED
      BY ZenonT(60), <1>2, <2>2, <3>1, <3>2 DEF Procs, Alike
  <2> QED
    BY <1>1, <2>1, <2>2
<1>4. /\ OnTrack(p) => OnTrack(s)
      /\ AtWork(p) => AtWork(s)
      /\ Resting(p) => Resting(s)
  BY <1>2, <1>3, AlikeFacts
<1>5. IF p'.st = "busy" THEN OnTrack(p)' /\ AtWork(p)' ELSE Resting(p)'
  BY <1>1, <1>3, <1>4, PrimedRecord DEF Planned, Alike
<1>6. p.run.op # "install"
  BY <1>1 DEF Planned, AtWork, Here, Resting, NoRun
<1>7. OptionsKept'
  BY <1>1, <1>3, <1>6 DEF Planned, OptionsKept, Alike, Saved
<1>8. StartReported' /\ SuccessIsOnDisk'
  BY <1>1, <1>3 DEF Planned, StartReported, SuccessIsOnDisk, NoAnswer, Alike
<1>9. file'.ver = 0 => p'.ver = 0 \/ p'.gone
  BY <1>1 DEF Saved
<1> QED
  BY <1>1, <1>3, <1>5, <1>7, <1>8, <1>9 DEF Planned

LEMMA HandlePlanned ==
  ASSUME Planned, NEW s \in Procs, NEW m \in Messages, Handle(m, s), Balanced(s),
         s.fate = "stay", ~s.save, Resting(s), s.st # "busy", file.ver = 0 => s.ver = 0,
         s.opt = p.opt, s.ver = p.ver, s.gone = p.gone, s.refused = p.refused,
         UNCHANGED <<box, acked>>
  PROVE  Planned'
<1>1. CASE m.kind = "retry"
  <2> DEFINE a == [Called EXCEPT !.from = FALSE, !.retry = TRUE]
  <2>1. CASE RetryDue(m.id, s) /\ Leave(Begin("start", a, s), callers)
    <3>1. a \in Args /\ "start" \in Ops
      BY DEF Called, Args, Ops
    <3> HIDE DEF a
    <3>2. s.ver # 0 /\ Fit("start", s)
      BY <2>1 DEF RetryDue, Fit, Resting
    <3> QED
      BY <2>1, <3>1, <3>2, BeginPlanned
  <2>2. CASE Rest(s)
    BY <2>2, RestPlanned
  <2> QED
    BY <1>1, <2>1, <2>2 DEF Handle
<1>2. CASE m.kind = "settled"
  <2> DEFINE t == [s EXCEPT !.attempt = 0]
  <2>1. t \in Procs /\ Alike(s, t) /\ t.run = s.run /\ t.opt = s.opt
    <3>1. 0 \in Attempts
      BY BoundsAssumption DEF Attempts
    <3> QED
      BY <3>1 DEF Procs, Alike
  <2>2. Rest(s) \/ Rest(t)
    BY <1>2 DEF Handle
  <2> HIDE DEF t
  <2>3. Resting(t)
    BY <2>1, AlikeFacts
  <2> QED
    BY <2>1, <2>2, <2>3, RestPlanned DEF Alike
<1>3. CASE m.kind = "probe"
  <2> DEFINE t == [s EXCEPT !.probing = TRUE]
  <2>1. Rest(s) \/ (ProbeDue(s) /\ Rest(t))
    BY <1>3 DEF Handle
  <2>2. /\ t \in Procs /\ t.opt = s.opt /\ t.token = s.token /\ t.ip = s.ip
        /\ t.refused = s.refused /\ t.gone = s.gone /\ t.retired = s.retired
        /\ t.ver = s.ver /\ t.port = s.port /\ t.keys = s.keys /\ t.cid = s.cid
        /\ t.ev = s.ev /\ t.st = s.st /\ t.run = s.run
    BY DEF Procs
  <2> HIDE DEF t
  <2>3. ProbeDue(s) => Resting(t)
    <3>1. Keys(t) = Keys(s)
      BY <2>2, KeysAgree
    <3>2. (KeysKept(s) => KeysKept(t)) /\ (TokenBacked(s) => TokenBacked(t))
      BY <2>2, <3>1 DEF KeysKept, TokenBacked, Backed, Alive
    <3> QED
      BY <2>2, <3>2 DEF Resting, ProbeDue
  <2> QED
    BY <2>1, <2>2, <2>3, RestPlanned
<1>4. CASE m.kind \notin {"retry", "settled", "probe"}
  <2>1. Rest(s) \/ (s.st # "new" /\ Rest(OnEvent(m, s)))
    BY <1>4 DEF Handle
  <2>2. OnEvent(m, s) \in Procs
    BY OnEventType
  <2>3. s.st # "new" => Resting(OnEvent(m, s)) /\ Steady(s, OnEvent(m, s))
    BY OnEventRests
  <2> QED
    BY <2>1, <2>2, <2>3, RestPlanned DEF Steady, SameRun
<1> QED
  BY <1>1, <1>2, <1>3, <1>4

LEMMA EnteredPlanned ==
  ASSUME Inv, Planned, p.st # "busy", NEW m \in Messages, NEW d \in Procs, Alike(p, d),
         d.run = p.run, d.opt = p.opt, d.fate = p.fate, d.reply = p.reply,
         NEW disk \in Disk,
         Handle(m, [d EXCEPT !.shutting_down = inflight, !.disk = disk]),
         UNCHANGED <<box, acked>>
  PROVE  Planned'
<1> DEFINE s == [d EXCEPT !.shutting_down = inflight, !.disk = disk]
<1>1. inflight \in BOOLEAN /\ disk \in BOOLEAN /\ p \in Procs
  BY DiskType DEF Inv, Typed, TypeOK
<1>2. /\ s \in Procs /\ Alike(d, s) /\ s.run = d.run /\ s.opt = d.opt
      /\ s.fate = d.fate /\ s.reply = d.reply
  BY ZenonT(60), <1>1 DEF Procs, Alike
<1>3. Handle(m, s)
  OBVIOUS
<1> HIDE DEF s
<1>4. Alike(p, s) /\ s.run = p.run
  BY <1>2 DEF Alike
<1>5. Resting(s) /\ s.st # "busy" /\ ~s.save
  BY <1>1, <1>2, <1>4, RestingFacts, AlikeFacts DEF Alike
<1>6. Balanced(s) /\ s.fate = "stay"
  BY <1>2 DEF Inv, Answering, Calm, Balanced
<1>7. file.ver = 0 => s.ver = 0
  BY <1>4, RestingFacts DEF Planned, Alike
<1> QED
  BY <1>2, <1>3, <1>4, <1>5, <1>6, <1>7, HandlePlanned DEF Alike

LEMMA DeliverPlanned == ASSUME Inv, Planned, Deliver \/ Replay PROVE Planned'
<1>1. UNCHANGED <<box, acked>>
  BY DEF Deliver, Replay
<1>2. p \in Procs /\ Alike(p, p)
  BY DEF Inv, Typed, TypeOK, Alike
<1>3. CASE UNCHANGED <<p, file>> /\ (answer' = NoAnswer \/ answer' = answer)
  BY <1>1, <1>2, <1>3, AlikePlanned
<1>4. ASSUME NEW m \in Messages, p.st # "busy", NEW disk \in Disk, Handle(m, Enter(disk))
      PROVE  Planned'
  <2>1. Handle(m, [p EXCEPT !.shutting_down = inflight, !.disk = disk])
    BY <1>4 DEF Enter
  <2> QED
    BY <1>1, <1>2, <1>4, <2>1, EnteredPlanned
<1>5. CASE Deliver
  <2>1. Head(wire) \in Messages
    <3>1. wire \in Seq(Events) /\ wire # <<>>
      BY <1>5, TypedFacts DEF Deliver, Inv
    <3> QED
      BY <3>1, SomeKept DEF Messages
  <2> QED
    BY <1>3, <1>4, <1>5, <2>1 DEF Deliver, Postpone
<1>6. CASE Replay
  <2>1. Head(postponed) \in Messages
    <3>1. postponed \in Seq(Messages) /\ postponed # <<>>
      BY <1>6, TypedFacts DEF Replay, Inv
    <3> QED
      BY <3>1, SomeKept
  <2> QED
    BY <1>4, <1>6, <2>1 DEF Replay
<1> QED
  BY <1>5, <1>6

LEMMA FiresPlanned ==
  ASSUME Inv, Planned, NEW m \in Messages, NEW d \in Procs, Fires(m, d), Alike(p, d),
         d.run = p.run, d.opt = p.opt, d.fate = p.fate, d.reply = p.reply,
         d.touched = p.touched
  PROVE  Planned'
<1>1. UNCHANGED <<box, acked>>
  BY DEF Fires
<1>2. CASE Postpone(m) /\ p' = d
  <2>1. UNCHANGED <<file, box, acked>> /\ answer' = NoAnswer
    BY <1>1, <1>2 DEF Postpone
  <2> QED
    BY <1>2, <2>1, AlikePlanned
<1>3. CASE /\ p.st # "busy"
           /\ \E disk \in Disk :
                Handle(m, [d EXCEPT !.shutting_down = inflight, !.disk = disk])
  <2>1. PICK disk \in Disk :
          Handle(m, [d EXCEPT !.shutting_down = inflight, !.disk = disk])
    BY <1>3
  <2> QED
    BY <1>1, <1>3, <2>1, EnteredPlanned
<1> QED
  BY <1>2, <1>3 DEF Fires

LEMMA TimerPlanned == ASSUME Inv, Planned, TimerStep PROVE Planned'
<1>0. p \in Procs /\ NoTimer \in Armed
  BY DEF Inv, Typed, TypeOK, Armed
<1>1. LET d == [p EXCEPT !.retry = NoTimer]
      IN  d \in Procs /\ Alike(p, d) /\ d.run = p.run /\ d.opt = p.opt /\ d.fate = p.fate
          /\ d.reply = p.reply /\ d.touched = p.touched
  BY <1>0 DEF Procs, Alike
<1>2. LET d == [p EXCEPT !.settled = FALSE]
      IN  d \in Procs /\ Alike(p, d) /\ d.run = p.run /\ d.opt = p.opt /\ d.fate = p.fate
          /\ d.reply = p.reply /\ d.touched = p.touched
  BY <1>0 DEF Procs, Alike
<1>3. LET d == [p EXCEPT !.probe = FALSE]
      IN  d \in Procs /\ Alike(p, d) /\ d.run = p.run /\ d.opt = p.opt /\ d.fate = p.fate
          /\ d.reply = p.reply /\ d.touched = p.touched
  BY <1>0 DEF Procs, Alike
<1>4. /\ p.retry # NoTimer => Event("retry", p.retry) \in Messages
      /\ Event("settled", 0) \in Messages
      /\ Event("probe", 0) \in Messages
  BY <1>0 DEF Event, Messages, TimerKinds, Held, Armed, Procs
<1>5. CASE RetryTimer
  BY <1>1, <1>4, <1>5, FiresPlanned DEF RetryTimer
<1>6. CASE SettledTimer
  BY <1>2, <1>4, <1>6, FiresPlanned DEF SettledTimer
<1>7. CASE ProbeTimer
  BY <1>3, <1>4, <1>7, FiresPlanned DEF ProbeTimer
<1> QED
  BY <1>5, <1>6, <1>7 DEF TimerStep

LEMMA ProbePlanned == ASSUME Inv, Planned, ProbeAnswer PROVE Planned'
<1> DEFINE e == Enter(TRUE)
           s == [e EXCEPT !.probing = FALSE]
<1>1. PICK result \in {"healthy", "unhealthy", "skip"} : Rest(Strike(result, s))
  BY DEF ProbeAnswer
<1>2. /\ e \in Procs /\ Alike(p, e) /\ e.run = p.run /\ e.opt = p.opt
  BY EnterAlike DEF Disk
<1>3. p.probing /\ UNCHANGED <<box, acked>>
  BY DEF ProbeAnswer
<1>4. p.st # "busy" /\ Resting(p)
  BY <1>3 DEF Planned, OnTrack
<1> HIDE DEF e
<1>5. /\ s \in Procs /\ s.opt = e.opt /\ s.token = e.token /\ s.ip = e.ip
      /\ s.refused = e.refused /\ s.gone = e.gone /\ s.retired = e.retired
      /\ s.ver = e.ver /\ s.port = e.port /\ s.keys = e.keys /\ s.cid = e.cid
      /\ s.ev = e.ev /\ s.st = e.st /\ s.run = e.run /\ ~s.probing
  BY <1>2 DEF Procs
<1> HIDE DEF s
<1>6. Resting(s)
  <2>1. Resting(e)
    BY <1>2, <1>4, AlikeFacts DEF Inv, Typed, TypeOK
  <2>2. Keys(s) = Keys(e)
    BY <1>2, <1>5, KeysAgree
  <2> QED
    BY <1>5, <2>1, <2>2 DEF Resting, Blank, KeysKept, TokenBacked, Backed, Alive
<1>7. Strike(result, s) \in Procs /\ Resting(Strike(result, s)) /\ Steady(s, Strike(result, s))
  BY <1>5, <1>6, StrikeType, StrikeRests
<1> QED
  BY <1>1, <1>2, <1>3, <1>4, <1>5, <1>7, RestPlanned DEF Steady, SameRun, Alike

LEMMA ExpirePlanned == ASSUME Inv, Planned, Expire \/ Crash PROVE Planned'
<1>1. p' = Fresh /\ UNCHANGED <<file, box, acked>> /\ answer' = NoAnswer
  BY DEF Expire, Crash
<1>2. Resting(p)'
  BY <1>1, FreshRests, PrimedRecord
<1> QED
  BY <1>1, <1>2, FreshRests
  DEF Planned, OptionsKept, StartReported, SuccessIsOnDisk, NoAnswer

LEMMA LoadedRests ==
  ASSUME NEW port \in BOOLEAN, Typed, file.ver # 0
  PROVE  LET s == Loaded(port)
         IN  /\ Resting(s) /\ ~s.save /\ s.st # "busy" /\ s.ver = file.ver
             /\ s.opt = file.opt /\ s \in Procs /\ Saved(s).opt = file.opt
             /\ Saved(s).ver = file.ver
<1> DEFINE st == IF inflight THEN "shutting_down" ELSE "idle"
           b == [Fresh EXCEPT !.wanted = file.wanted, !.ver = file.ver,
                              !.opt = file.opt, !.watchdog = file.watchdog,
                              !.port = port, !.st = st]
           k == Keys(b)
           s == [b EXCEPT !.keys = k]
<1>1. s = Loaded(port)
  BY DEF Loaded
<1>2. st \in {"idle", "shutting_down"}
  OBVIOUS
<1> HIDE DEF st
<1>3. /\ b \in Procs /\ b.ver = file.ver /\ b.opt = file.opt /\ ~b.token /\ ~b.ip
      /\ b.run = NoRun /\ ~b.gone /\ ~b.retired /\ ~b.probing /\ ~b.refused
      /\ b.st = st /\ ~b.save
  <2>1. Fresh \in Procs /\ file \in Files /\ st \in States
    BY <1>2, FreshType DEF Typed, TypeOK, States
  <2>2. b \in Procs
    BY <2>1 DEF Procs, Files
  <2> QED
    BY <2>2 DEF Fresh
<1> HIDE DEF b
<1>4. k \in KeySets
  BY <1>3, KeysType
<1> HIDE DEF k
<1>5. /\ s \in Procs /\ s.ver = b.ver /\ s.opt = b.opt /\ s.token = b.token
      /\ s.ip = b.ip /\ s.run = b.run /\ s.gone = b.gone /\ s.retired = b.retired
      /\ s.probing = b.probing /\ s.refused = b.refused
      /\ s.st = b.st /\ s.save = b.save /\ s.keys = k /\ s.port = b.port
  BY <1>3, <1>4 DEF Procs
<1> HIDE DEF s
<1>6. Keys(s) = k
  <2>1. Keys(s) = Keys(b)
    BY <1>3, <1>5, KeysAgree
  <2> QED
    BY <2>1 DEF k
<1>7. Resting(s)
  BY <1>2, <1>3, <1>5, <1>6 DEF Resting, KeysKept, TokenBacked
<1>8. Saved(s).opt = s.opt /\ Saved(s).ver = s.ver
  BY DEF Saved
<1> QED
  BY <1>1, <1>2, <1>3, <1>5, <1>7, <1>8

LEMMA RestedPlanned ==
  ASSUME NEW t \in Procs, p' = t, Resting(t), ~t.save, t.st # "busy",
         UNCHANGED <<box, acked>>, answer' = NoAnswer, file'.ver = 0 => t.ver = 0,
         acked => /\ file'.ver # 0 => file'.opt = "user"
                  /\ t.ver # 0 /\ ~t.refused => t.opt = "user"
  PROVE  Planned'
<1>1. Resting(p)'
  BY PrimedRecord
<1>2. p'.run.op = "none" /\ p'.run.step = "none"
  BY DEF Resting, NoRun
<1>3. OptionsKept'
  BY <1>2 DEF OptionsKept
<1>4. StartReported'
  BY <1>2 DEF StartReported
<1>5. SuccessIsOnDisk'
  BY DEF SuccessIsOnDisk, NoAnswer
<1> QED
  BY <1>1, <1>3, <1>4, <1>5 DEF Planned

LEMMA SpawnPlanned == ASSUME Inv, Planned, Spawn PROVE Planned'
<1>1. UNCHANGED <<box, acked>> /\ answer' = NoAnswer
  BY DEF Spawn
<1>2. acked /\ file.ver # 0 => file.opt = "user"
  BY DEF Planned, OptionsKept
<1>3. CASE /\ file.ver = 0 /\ p' = [Fresh EXCEPT !.st = "new"] /\ UNCHANGED file
  <2> DEFINE s == [Fresh EXCEPT !.st = "new"]
  <2>1. Resting(s) /\ ~s.save /\ s.st # "busy" /\ s.ver = 0
    BY DEF Resting, Fresh, Blank
  <2>2. s \in Procs
    BY FreshType DEF Procs, States
  <2>3. p' = s /\ file' = file
    BY <1>3
  <2> HIDE DEF s
  <2> QED
    BY <1>1, <1>2, <2>1, <2>2, <2>3, RestedPlanned
<1>4. ASSUME NEW port \in BOOLEAN, file.ver # 0, p' = Loaded(port),
             file' = file \/ file' = Saved(p')
      PROVE  Planned'
  <2> DEFINE s == Loaded(port)
  <2>1. /\ Resting(s) /\ ~s.save /\ s.st # "busy" /\ s.ver = file.ver
        /\ s.opt = file.opt /\ s \in Procs /\ Saved(s).opt = file.opt
        /\ Saved(s).ver = file.ver
    BY <1>4, LoadedRests DEF Inv
  <2>2. p' = s
    BY <1>4
  <2> HIDE DEF s
  <2>3. file'.ver = file.ver /\ file'.opt = file.opt
    BY <1>4, <2>1, <2>2
  <2> QED
    BY <1>1, <1>2, <1>4, <2>1, <2>2, <2>3, RestedPlanned
<1>5. CASE /\ file.ver # 0 /\ UNCHANGED file
           /\ p' = [Fresh EXCEPT !.st = "refused", !.refused = TRUE, !.ver = 1]
  <2> DEFINE s == [Fresh EXCEPT !.st = "refused", !.refused = TRUE, !.ver = 1]
  <2>1. /\ ~s.token /\ ~s.ip /\ s.keys = {} /\ s.refused /\ s.ver = 1 /\ ~s.gone
        /\ ~s.retired /\ ~s.probing /\ s.run = NoRun /\ s.st = "refused" /\ ~s.save
    BY DEF Fresh
  <2>2. s \in Procs
    <3>1. 1 \in SavedVersions /\ "refused" \in States /\ Fresh \in Procs
      BY FreshType DEF SavedVersions, Versions, States
    <3> QED
      BY <3>1 DEF Procs
  <2>3. p' = s /\ file' = file
    BY <1>5
  <2> HIDE DEF s
  <2>4. KeysKept(s)
    BY <2>1 DEF KeysKept, Keys, DnsKeys, IngressKeys
  <2>5. Resting(s)
    BY <2>1, <2>4 DEF Resting, TokenBacked
  <2> QED
    BY <1>1, <1>2, <1>5, <2>1, <2>2, <2>3, <2>5, RestedPlanned
<1>6. file.port \in BOOLEAN
  BY DEF Inv, Typed, TypeOK, Files
<1> QED
  BY <1>3, <1>4, <1>5, <1>6 DEF Spawn

(* A task step reports, and the container changes under a step that has    *)
(* revoked its token, or under the start the token was minted for.         *)
LEMMA TaskPlanned == ASSUME Inv, Planned, TaskStep PROVE Planned'
<1>0. p.run.task # "none"
  BY DEF TaskStep, Check, WorkElsewhere, WorkStop, WorkHalt, WorkStart, Works
<1>1. PICK r \in RunTasks : Finished(r)
  BY DEF TaskStep, Check, WorkElsewhere, WorkStop, WorkHalt, WorkStart, RunTasks, Outcomes
<1> DEFINE t == [p EXCEPT !.run.task = r]
<1>2. p' = t /\ UNCHANGED <<file, acked>> /\ answer' = NoAnswer
  BY <1>1 DEF Finished
<1>3. p \in Procs /\ box \in Boxes /\ ids \in Nat
  BY DEF Inv, Typed, TypeOK
<1>4. /\ t \in Procs /\ Alike(p, t) /\ t.opt = p.opt /\ t.touched = p.touched
      /\ t.save = p.save /\ t.run.task = r
  BY <1>3 DEF Procs, Runs, Alike
<1> HIDE DEF t
<1>5. p.st = "busy"
  BY <1>0 DEF Planned, Resting, NoRun
<1>6. OnTrack(p) /\ AtWork(p)
  BY <1>5 DEF Planned
<1>7. OnTrack(t) /\ AtWork(t)
  BY <1>3, <1>4, <1>6, AlikeFacts
<1>8. \/ UNCHANGED box
      \/ p.run.step \in Stops
      \/ WorkStart
  BY DEF TaskStep, Check, WorkElsewhere, WorkStop, WorkHalt, Stops
<1>9. WorkStart => p.run.step = "start"
  BY DEF WorkStart
<1>10. OnTrack(p)'
  BY <1>2, <1>7 DEF OnTrack, Record, Blank, KeysKept, Keys, DnsKeys, IngressKeys
<1>11. AtWork(p)'
  <2>1. CASE UNCHANGED box
    BY <1>2, <1>7, <2>1, PrimedRecord
  <2>2. CASE t.run.step \in Stops \cup {"start"}
    <3>1. \/ t.run.step \in Stops
          \/ Going(t.run.step, t.run)
      BY <2>2 DEF Going
    <3> QED
      BY <1>2, <1>7, <3>1 DEF AtWork, Here, At, OnPlan, Follows, First, Going
  <2> QED
    BY <1>4, <1>8, <1>9, <2>1, <2>2 DEF Alike
<1>12. StartReported'
  <2> SUFFICES ASSUME p.run.step = "start", r = "ok"
               PROVE  box'.id # 0 /\ box'.ver = p.ver
    BY <1>2, <1>4 DEF StartReported, Alike
  <2>1. WorkStart
    <3>1. p'.run.task = "ok"
      BY <1>2, <1>4
    <3>2. ~WorkElsewhere /\ ~WorkStop /\ ~WorkHalt
      BY DEF WorkElsewhere, WorkStop, WorkHalt
    <3>3. Check => p'.run.task # "ok"
      <4>1. \A v : [p EXCEPT !.run.task = v].run.task = v
        BY <1>3 DEF Procs, Runs
      <4> QED
        BY <4>1 DEF Check, Finished
    <3> QED
      BY <3>1, <3>2, <3>3 DEF TaskStep
  <2>2. \A v : [p EXCEPT !.run.task = v].run.task = v
    BY <1>3 DEF Procs, Runs
  <2>3. box' = [id |-> ids + 1, up |-> TRUE, ver |-> p.ver]
    BY <1>2, <1>4, <2>1, <2>2 DEF WorkStart, Finished
  <2> QED
    BY <1>3, <2>3
<1>13. OptionsKept' /\ SuccessIsOnDisk'
  BY <1>2, <1>4 DEF Planned, OptionsKept, SuccessIsOnDisk, NoAnswer, Alike
<1> QED
  BY <1>2, <1>4, <1>5, <1>10, <1>11, <1>12, <1>13 DEF Planned, Alike

(* A task step's result, or its loss, is settled by the operation's plan.  *)
LEMMA ResultPlanned ==
  ASSUME Inv, Planned, p.st = "busy", NEW disk \in Disk, NEW r, NEW id \in Held,
         p.run.step = "start" /\ r = "ok" => id # 0 /\ box.id = id /\ box.ver = p.ver,
         Leave(Settle(Enter(disk), r, id), callers), UNCHANGED <<box, acked>>
  PROVE  Planned'
<1> DEFINE s == Enter(disk)
           t == Settle(s, r, id)
<1>1. /\ s \in Procs /\ Balanced(s) /\ s.fate = "stay" /\ Alike(p, s) /\ s.opt = p.opt
      /\ s.touched = p.touched
  BY EnterAlike
<1> HIDE DEF s
<1>2. /\ t \in Procs
      /\ \/ Carries(s, t)
         \/ s.run.step = "set_options" /\ ~s.touched /\ Carries(OptionsTaken(s), t)
  BY <1>1, SettleType, SettleCarries
<1>3. Working(s)
  <2>1. p \in Procs /\ OnTrack(p) /\ AtWork(p) /\ ~p.save
    BY DEF Planned, Inv, Typed, TypeOK
  <2> QED
    BY <1>1, <2>1, AlikeFacts DEF Working, Alike
<1>4. Out(t)
  BY <1>1, <1>3, SettleOut DEF Alike
<1>5. Leave(t, callers)
  BY DEF s
<1> HIDE DEF t
<1>6. /\ Balanced(t) /\ t.run.op = p.run.op /\ t.refused = p.refused
      /\ p.gone => t.gone
  <2>1. LET o == OptionsTaken(s)
        IN  o.gone = s.gone /\ o.run = s.run /\ o.refused = s.refused
    BY <1>1 DEF OptionsTaken, Procs
  <2> QED
    BY <1>1, <1>2, <2>1 DEF Carries, Constant, Alike
<1>7. p.run.op # "install" => p.ver # 0
  BY DEF Planned, OnTrack, Record
<1>8. file.ver = 0 => p.gone \/ t.run.op = "install"
  BY <1>6, <1>7 DEF Planned
<1>9. acked => Kept(t)
  <2> SUFFICES ASSUME acked, ~t.refused
               PROVE  /\ p.run.op # "install"
                      /\ t.opt = "user" /\ (p.run.op = "restore" => t.touched)
    <3>1. acked => p.run.op # "install"
      BY DEF Planned, OptionsKept
    <3> QED
      BY <1>6, <3>1 DEF Kept
  <2>1. p.run.op # "install" /\ p.opt = "user" /\ (p.run.op = "restore" => p.touched)
    BY <1>6, <1>7 DEF Planned, OptionsKept
  <2>2. s.run.step = "set_options" => s.run.op = "restore"
    BY <1>1, <1>3, WorkingFacts, ThenOps
  <2>3. Carries(s, t)
    BY <1>1, <1>2, <2>1, <2>2 DEF Alike
  <2> QED
    BY <1>1, <2>1, <2>3 DEF Carries, Constant
<1>10. OptionsKept
  BY DEF Planned
<1> QED
  BY <1>2, <1>4, <1>5, <1>6, <1>8, <1>9, <1>10, LeavePlanned

LEMMA OutcomePlanned == ASSUME Inv, Planned, Done \/ TaskLost PROVE Planned'
<1>1. box.id \in Held /\ 0 \in Held
  BY DEF Inv, Typed, TypeOK, Boxes, Held
<1>2. CASE Done
  <2>1. PICK disk \in Disk : Leave(Settle(Enter(disk), p.run.task, box.id), callers)
    BY <1>2 DEF Done
  <2>2. UNCHANGED <<box, acked>> /\ p.run.task \in Outcomes
    BY <1>2 DEF Done
  <2>3. p.st = "busy"
    BY <2>2 DEF Planned, Resting, NoRun, Outcomes
  <2>4. p.run.step = "start" /\ p.run.task = "ok" => box.id # 0 /\ box.ver = p.ver
    BY DEF Planned, StartReported
  <2> QED
    BY <1>1, <2>1, <2>2, <2>3, <2>4, ResultPlanned
<1>3. CASE TaskLost
  <2>1. PICK disk \in Disk, r \in {"died", "timeout"} :
          Leave(Settle(Enter(disk), r, 0), callers)
    BY <1>3 DEF TaskLost
  <2>2. UNCHANGED <<box, acked>> /\ p.st = "busy" /\ r # "ok"
    BY <1>3 DEF TaskLost
  <2> QED
    BY <1>1, <2>1, <2>2, ResultPlanned
<1> QED
  BY <1>2, <1>3

(* The container dies of itself, and the shutdown flag comes and goes.     *)
LEMMA SurroundingsPlanned == ASSUME Inv, Planned, Surroundings PROVE Planned'
<1>1. UNCHANGED <<p, file, acked>> /\ answer' = NoAnswer
  BY DEF Surroundings, BoxDies, BoxHealth, Lose, BeginShutdown, AbandonShutdown
<1>2. box'.id = box.id /\ box'.ver = box.ver /\ (box'.up => box.up)
  <2>1. box \in Boxes
    BY DEF Inv, Typed, TypeOK
  <2>2. CASE UNCHANGED box
    BY <2>2
  <2>3. CASE box' = [box EXCEPT !.up = FALSE]
    BY <2>1, <2>3 DEF Boxes
  <2> QED
    BY <2>2, <2>3 DEF Surroundings, BoxDies, BoxHealth, Lose, BeginShutdown,
                      AbandonShutdown
<1>3. TokenBacked(p) => TokenBacked(p)'
  BY <1>1, <1>2 DEF TokenBacked, Backed, Alive
<1>4. OnTrack(p) => OnTrack(p)'
  BY <1>1 DEF OnTrack, Record, Blank, KeysKept, Keys, DnsKeys, IngressKeys
<1>5. AtWork(p) => AtWork(p)'
  BY <1>1, <1>3 DEF AtWork, Here, OnPlan, Follows, First, At, Going
<1>6. Resting(p) => Resting(p)'
  BY <1>1, <1>3 DEF Resting, Blank, KeysKept, Keys, DnsKeys, IngressKeys
<1>7. OptionsKept' /\ StartReported' /\ SuccessIsOnDisk'
  BY <1>1, <1>2 DEF Planned, OptionsKept, StartReported, SuccessIsOnDisk, NoAnswer
<1> QED
  BY <1>1, <1>4, <1>5, <1>6, <1>7 DEF Planned

-----------------------------------------------------------------------------
(* The invariant. *)

LEMMA PlannedInit == ASSUME Init PROVE Planned
<1>1. p = Fresh /\ answer = NoAnswer /\ ~acked
  BY DEF Init
<1>2. Resting(p) /\ ~p.save /\ p.ver = 0 /\ p.st # "busy" /\ p.run.step = "none"
  BY <1>1, FreshRests
<1> QED
  BY <1>1, <1>2 DEF Planned, OptionsKept, StartReported, SuccessIsOnDisk, NoAnswer

LEMMA PlannedNext == ASSUME Inv, Planned, [Next]_vars PROVE Planned'
<1>1. CASE UNCHANGED vars
  <2>1. p \in Procs /\ Alike(p, p)
    BY DEF Inv, Typed, TypeOK, Alike
  <2> QED
    BY <1>1, <2>1, AlikePlanned DEF vars
<1>2. CASE Next
  BY <1>2, CommandPlanned, HaltPlanned, BootStartPlanned, SettingPlanned,
     DeliverPlanned, TimerPlanned, ProbePlanned, ExpirePlanned, TaskPlanned,
     OutcomePlanned, SurroundingsPlanned, SpawnPlanned DEF Next
<1> QED
  BY <1>1, <1>2

(* The whole invariant, for every value of the constants. *)
LEMMA AlwaysPlanned == Spec => [](Inv /\ Planned)
<1>1. Init => Inv /\ Planned
  BY InvInit, PlannedInit
<1>2. Inv /\ Planned /\ [Next]_vars => (Inv /\ Planned)'
  BY InvNext, PlannedNext
<1> QED
  BY <1>1, <1>2, PTL DEF Spec

-----------------------------------------------------------------------------
(* What may write the file. *)

(* An install begins with a pull: it does not reach its commit at once.    *)
LEMMA InstallBegins ==
  ASSUME NEW s \in Procs, s.fate = "stay", NEW a \in Args
  PROVE  Begin("install", a, s).fate = "stay"
<1> DEFINE d == [s EXCEPT !.st = "busy", !.probing = FALSE, !.retry = s.retry]
           steps == <<"pull", "port?", "commit">>
           run == [NoRun EXCEPT !.op = "install", !.steps = steps,
                                !.from = a.from, !.retry = a.retry,
                                !.starts = a.starts, !.backup = a.backup,
                                !.options = a.options, !.old = d.ver]
           e == [d EXCEPT !.touched = FALSE, !.run = run]
<1>1. d \in Procs /\ d.fate = "stay"
  BY ZenonT(60) DEF Procs, States
<1>2. e = Plan("install", a, d) /\ Steps("install", a, d) = steps
  BY DEF Plan, Steps
<1>3. Begin("install", a, s) = Advance(e)
  BY <1>2 DEF Begin
<1>4. steps \in Seq(StepNames) /\ steps # <<>> /\ Head(steps) = "pull"
  <2>1. Steps("install", a, d) \in Seq(StepNames)
    BY StepsType DEF Ops
  <2>2. <<"pull", "port?", "commit">> # <<>> /\ Head(<<"pull", "port?", "commit">>) = "pull"
    OBVIOUS
  <2> QED
    BY <1>2, <2>1, <2>2
<1> HIDE DEF d, steps
<1>5. run \in Runs /\ run.steps = steps
  <2>1. NoRun \in Runs /\ d.ver \in SavedVersions /\ "install" \in Ops \cup {"none"}
    BY <1>1, FreshType DEF Procs, Ops
  <2> QED
    BY <1>4, <2>1 DEF Runs, Args
<1> HIDE DEF run
<1>6. e \in Procs /\ e.fate = "stay" /\ e.run.steps = steps
  BY ZenonT(60), <1>1, <1>5 DEF Procs
<1> HIDE DEF e
<1>7. Local(e) = e
  BY ZenonT(60), <1>4, <1>6 DEF Local, IsLocal, LocalNames
<1> DEFINE b == BeforeTask("pull", e)
           t == [b EXCEPT !.run.step = "pull", !.run.steps = Tail(b.run.steps),
                          !.run.task = "running"]
<1>8. b \in Procs /\ b.fate = "stay"
  BY <1>6, BeforeTaskType, BeforeTaskFrame DEF Constant, Frame
<1> HIDE DEF b
<1>9. t.fate = "stay"
  BY <1>8 DEF Procs, Runs
<1>10. Launch(e) = t
  BY <1>4, <1>6 DEF Launch, b
<1>11. Advance(e) = Launch(e)
  BY <1>7 DEF Advance
<1> QED
  BY <1>3, <1>9, <1>10, <1>11

LEMMA CommandWritesNone ==
  ASSUME Inv, Planned, file.ver = 0, NEW op \in Commands, Command(op)
  PROVE  file'.ver = 0
<1>1. PICK a \in ArgsOf(op), disk \in Disk :
        Leave(Begin(op, a, IF op = "uninstall" THEN [Enter(disk) EXCEPT !.retired = TRUE]
                           ELSE Enter(disk)), callers + 1)
  BY DEF Command
<1>2. op \in Ops /\ op # "halt" /\ a \in Args
  BY ServerAssumption, ArgsOfType
<1>3. p.st # "busy" /\ p.st # "down"
  BY <1>2 DEF Command, Admitted
<1>4. p.st = "new" /\ op = "install"
  BY <1>3, RestingFacts DEF Command, Admitted
<1> DEFINE s == Enter(disk)
           t == Begin("install", a, s)
<1>5. /\ s \in Procs /\ s.fate = "stay" /\ Alike(p, s) /\ s.run = p.run /\ s.save = p.save
  BY EnterAlike
<1>6. Leave(t, callers + 1)
  BY <1>1, <1>4
<1> HIDE DEF s
<1>7. Fit("install", s)
  <2>1. Resting(p) /\ ~p.save /\ ~p.gone
    BY <1>3, RestingFacts
  <2>2. Resting(s) /\ s.st = "new" /\ ~s.gone /\ ~s.save
    BY <1>4, <1>5, <2>1, AlikeFacts DEF Inv, Typed, TypeOK, Alike
  <2> QED
    BY <1>5, <2>2 DEF Fit, Resting, Blank, TokenBacked
<1>8. Out(t) /\ t.fate = "stay"
  BY <1>2, <1>4, <1>5, <1>7, BeginOut, InstallBegins
<1>9. t.run.op = "install"
  BY <1>2, <1>5, BeginCarries, EnterFacts DEF Inv, Answering, s, Ops
<1> HIDE DEF t
<1>10. t.ver = 0
  BY <1>8, <1>9 DEF Out, AtWork, Here
<1> QED
  BY <1>6, <1>10 DEF Leave, NoFile, Saved, Fresh

LEMMA OutcomeWritesNone ==
  ASSUME Inv, Planned, file.ver = 0, p.run.op # "install", Done \/ TaskLost
  PROVE  file'.ver = 0
<1>1. box.id \in Held /\ 0 \in Held
  BY DEF Inv, Typed, TypeOK, Boxes, Held
<1>2. p.st = "busy"
  BY DEF Done, TaskLost, Planned, Resting, NoRun, Outcomes
<1>3. p.gone
  BY <1>2 DEF Planned, OnTrack, Record
<1>4. PICK disk \in Disk, r \in Outcomes \cup {"died", "timeout"}, id \in {0, box.id} :
        /\ Leave(Settle(Enter(disk), r, id), callers)
        /\ p.run.step = "start" /\ r = "ok" => id # 0 /\ box.id = id /\ box.ver = p.ver
  <2>1. CASE Done
    <3>1. p.run.step = "start" /\ p.run.task = "ok" => box.id # 0 /\ box.ver = p.ver
      BY DEF Planned, StartReported
    <3> QED
      BY <2>1, <3>1 DEF Done
  <2>2. CASE TaskLost
    BY <2>2 DEF TaskLost
  <2> QED
    BY <2>1, <2>2
<1> DEFINE s == Enter(disk)
           t == Settle(s, r, id)
<1>5. s \in Procs /\ Balanced(s) /\ s.fate = "stay" /\ Alike(p, s)
  BY EnterAlike
<1>6. Leave(t, callers)
  BY <1>4
<1> HIDE DEF s
<1>7. Working(s)
  <2>1. p \in Procs /\ OnTrack(p) /\ AtWork(p) /\ ~p.save
    BY <1>2 DEF Planned, Inv, Typed, TypeOK
  <2> QED
    BY <1>5, <2>1, AlikeFacts DEF Working, Alike
<1>8. Out(t)
  BY <1>1, <1>4, <1>5, <1>7, SettleOut DEF Alike
<1>9. t.gone
  <2>1. Carries(s, t) \/ Carries(OptionsTaken(s), t)
    BY <1>1, <1>5, SettleCarries
  <2>2. s.gone /\ OptionsTaken(s).gone = s.gone
    BY <1>3, <1>5 DEF Alike, OptionsTaken, Procs
  <2> QED
    BY <2>1, <2>2 DEF Carries, Constant
<1> HIDE DEF t
<1>10. ~t.save
  BY <1>8, <1>9 DEF Out, OnTrack
<1> QED
  BY <1>3, <1>6, <1>10 DEF Leave

LEMMA HandleWritesNone ==
  ASSUME NEW m, NEW s, Handle(m, s), s.st # "idle" PROVE file' = file
BY DEF Handle, RetryDue, Rest

LEMMA NothingWritten ==
  ASSUME Inv, Planned, file.ver = 0, p.run.op # "install", Next PROVE file'.ver = 0
<1>1. p.st # "busy" => p.st \in {"down", "new"}
  BY RestingFacts
<1>2. \A disk \in Disk : Enter(disk).st = p.st
  BY EnterAlike DEF Alike
<1>3. CASE Deliver \/ Replay
  <2>1. ASSUME NEW m, NEW disk \in Disk, Handle(m, Enter(disk)), p.st # "busy"
        PROVE  file' = file
    BY <1>1, <1>2, <2>1, HandleWritesNone
  <2> QED
    BY <1>3, <2>1 DEF Deliver, Replay, Postpone
<1>4. CASE TimerStep
  <2>0. p \in Procs
    BY DEF Inv, Typed, TypeOK
  <2>1. ASSUME NEW m, NEW d, Fires(m, d), d.st = p.st, d \in Procs PROVE file' = file
    <3>1. \A disk \in Disk : [d EXCEPT !.shutting_down = inflight, !.disk = disk].st = d.st
      BY <2>1 DEF Procs
    <3> QED
      BY <1>1, <2>1, <3>1, HandleWritesNone DEF Fires, Postpone
  <2>2. LET d == [p EXCEPT !.retry = NoTimer] IN d.st = p.st /\ d \in Procs
    BY <2>0 DEF Procs, Armed
  <2>3. LET d == [p EXCEPT !.settled = FALSE] IN d.st = p.st /\ d \in Procs
    BY <2>0 DEF Procs
  <2>4. LET d == [p EXCEPT !.probe = FALSE] IN d.st = p.st /\ d \in Procs
    BY <2>0 DEF Procs
  <2>5. CASE RetryTimer
    BY <2>1, <2>2, <2>5 DEF RetryTimer
  <2>6. CASE SettledTimer
    BY <2>1, <2>3, <2>6 DEF SettledTimer
  <2>7. CASE ProbeTimer
    BY <2>1, <2>4, <2>7 DEF ProbeTimer
  <2> QED
    BY <1>4, <2>5, <2>6, <2>7 DEF TimerStep
<1>5. CASE SetOptions \/ SetWatchdog
  <2>1. p.gone /\ ~p.retired
    BY <1>5 DEF SetOptions, SetWatchdog, Planned
  <2> QED
    BY <2>1 DEF Planned, OnTrack, Resting
<1>6. CASE BootStart
  BY <1>1, <1>6 DEF BootStart
<1>7. CASE Halt \/ ProbeAnswer \/ Expire \/ TaskStep \/ Surroundings \/ Crash \/ Spawn
  BY <1>7 DEF Halt, ProbeAnswer, Rest, Expire, TaskStep, Check, WorkElsewhere, WorkStop,
     WorkHalt, WorkStart, Finished, Surroundings, BoxDies, BoxHealth, Lose,
     BeginShutdown, AbandonShutdown, Crash, Spawn
<1> QED
  BY <1>3, <1>4, <1>5, <1>6, <1>7, CommandWritesNone, OutcomeWritesNone DEF Next

-----------------------------------------------------------------------------

(* At whatever moment a URL probe is due or answers, no operation runs     *)
(* beside it: begin_op ends the probe in flight, only an idle app with a   *)
(* container starts one, and every way the container is given up (died,    *)
(* release, a halt, an uninstall) leaves none behind.                      *)
THEOREM NoProbeOutlivesItsContainer == Spec => []NoProbeBesideAnOperation
<1>1. Inv /\ Planned => NoProbeBesideAnOperation
  BY DEF Planned, OnTrack, Resting, NoProbeBesideAnOperation
<1> QED
  BY <1>1, AlwaysPlanned, PTL

(* run_effects answers `ok` for an operation only if the record it leaves  *)
(* is the one on disk, whichever saves failed on the way there: every end  *)
(* of a durable operation that is no failure asks for a save, and an       *)
(* earlier save that failed is remembered until then.                      *)
THEOREM SuccessSurvivesAReboot == Spec => []SuccessIsOnDisk
<1>1. Inv /\ Planned => SuccessIsOnDisk
  BY DEF Planned
<1> QED
  BY <1>1, AlwaysPlanned, PTL

(* An options write that was acknowledged is what the file and the record  *)
(* hold until a later restore or install takes its place: a restore under  *)
(* way finds `touched` and leaves the options alone, and no operation that *)
(* was in flight saves the options it began with.                          *)
THEOREM AcknowledgedOptionsStand == Spec => []AckedOptionsStand
<1>1. Inv /\ Planned => AckedOptionsStand
  <2> SUFFICES ASSUME Inv, Planned, acked
               PROVE  /\ file.ver # 0 => file.opt = "user"
                      /\ AtRest /\ ~p.refused => p.opt = "user"
    BY DEF AckedOptionsStand
  <2>1. AtRest => p.ver # 0
    BY RestingFacts DEF AtRest
  <2> QED
    BY <2>1 DEF Planned, OptionsKept
<1> QED
  BY <1>1, AlwaysPlanned, PTL

(* With the file deleted, by an uninstall or by nobody's install yet, only *)
(* the commit of an install writes one: a step that comes late, a halt, a  *)
(* setting, a timer and a start after a crash find nothing they may save.  *)
THEOREM NothingComesBack == Spec => UninstalledStaysGone
<1>1. Inv /\ Planned /\ [Next]_vars =>
        [file.ver = 0 /\ file'.ver # 0 => p.run.op = "install"]_vars
  BY NothingWritten DEF vars
<1> QED
  BY <1>1, AlwaysPlanned, PTL DEF Spec, UninstalledStaysGone

(* At rest the directory holds no key of the app without the fact behind   *)
(* it, and the only keys it may lack are the ingress ones that an          *)
(* uninstall drops before its stop (before_task/2): one that ends before   *)
(* it deletes the file leaves them dropped.                                *)
KeysHaveFacts ==
    AtRest \/ p.st = "refused" =>
      /\ p.keys \subseteq Keys(p)
      /\ Keys(p) \ p.keys \subseteq {"ingress", "port"}

THEOREM NoKeyOutlivesItsFact == Spec => []KeysHaveFacts
<1>1. Inv /\ Planned => KeysHaveFacts
  <2> SUFFICES ASSUME Inv, Planned, AtRest \/ p.st = "refused"
               PROVE  KeysKept(p)
    BY DEF KeysHaveFacts, KeysKept, Owed
  <2> QED
    BY DEF Planned, Resting, AtRest
<1> QED
  BY <1>1, AlwaysPlanned, PTL

(* Where no uninstall can be interrupted, or no version has ingress keys   *)
(* to lose, the directory holds exactly the keys the record implies: of a  *)
(* start, a stop, a commit, a rollback, an event or a load, none drops or  *)
(* adds a key without its fact.                                            *)
THEOREM DirectoryHoldsTheKeys ==
  ASSUME "uninstall" \notin Commands \/ \A v \in Versions : IngressOf[v] = "none"
  PROVE  Spec => []DirectoryFollowsData
<1>1. Inv /\ Planned => DirectoryFollowsData
  <2> SUFFICES ASSUME Inv, Planned, AtRest PROVE p.keys = Keys(p)
    BY DEF DirectoryFollowsData
  <2>1. KeysKept(p)
    BY DEF Planned, Resting, AtRest
  <2>2. CASE "uninstall" \notin Commands
    BY <2>1, <2>2 DEF KeysKept, Owed
  <2>3. CASE \A v \in Versions : IngressOf[v] = "none"
    <3>1. p.ver # 0 => IngressOf[p.ver] = "none"
      BY <2>3 DEF Inv, Typed, TypeOK, Procs, SavedVersions
    <3>2. IngressKeys(p) = {}
      BY <3>1 DEF IngressKeys
    <3>3. {"ingress", "port"} \cap Keys(p) = {}
      BY <3>2 DEF Keys, DnsKeys
    <3> QED
      BY <2>1, <3>3 DEF KeysKept, Owed
  <2> QED
    BY <2>2, <2>3
<1> QED
  BY <1>1, AlwaysPlanned, PTL

(* For an app without a dynamic port, a token is there at rest only while  *)
(* its container is believed up: a failed start, a stop, a death and a     *)
(* rollback each revoke it.  With one, RollbackPort.cfg shows the start    *)
(* that fails after its token was minted.                                  *)
THEOREM TokenNeedsAContainer ==
  ASSUME NoPorts
  PROVE  Spec => []TokenOnlyWhileUp
<1>1. Inv /\ Planned => TokenOnlyWhileUp
  <2> SUFFICES ASSUME Inv, Planned, AtRest, "token" \in p.keys PROVE Alive(p)
    BY DEF TokenOnlyWhileUp
  <2>1. KeysKept(p) /\ TokenBacked(p)
    BY DEF Planned, Resting, AtRest
  <2>2. p.token
    BY <2>1 DEF KeysKept, Keys, DnsKeys, IngressKeys
  <2> QED
    BY <2>1, <2>2 DEF TokenBacked, Backed
<1> QED
  BY <1>1, AlwaysPlanned, PTL

(* And the container that runs under it runs the version of the record: a  *)
(* commit and a rollback find no container held, and a start gives the     *)
(* container the version the record names then.                            *)
THEOREM TokenNamesItsVersion ==
  ASSUME NoPorts
  PROVE  Spec => []RunsItsVersion
<1>1. Inv /\ Planned => RunsItsVersion
  BY DEF Planned, Resting, AtRest, TokenBacked, Backed, RunsItsVersion
<1> QED
  BY <1>1, AlwaysPlanned, PTL

-----------------------------------------------------------------------------
(* What a handler does to a start that has passed its check: it may end    *)
(* it, never set one going, and no halt is answered while there is one.    *)
HaltOk == answer = [op |-> "halt", value |-> "ok"]

Sinks ==
    /\ UNCHANGED <<box, inflight>>
    /\ Rising' => Rising
    /\ HaltOk' => ~Rising

NotRising(run) == run.step # "start" \/ run.task # "checked"

(* A task that a handler begins has yet to read the flag.                  *)
LEMMA LaunchRuns ==
  ASSUME NEW s \in Procs, Launch(s).fate = "stay" PROVE NotRising(Launch(s).run)
<1>1. s.fate = "stay"
  BY DEF Launch
<1>2. CASE s.run.steps = <<>>
  <2>1. Finish(s).fate # "stay"
    BY DEF Finish, Procs
  <2> QED
    BY <1>1, <1>2, <2>1 DEF Launch
<1>3. CASE s.run.steps # <<>>
  <2> DEFINE name == Head(s.run.steps)
             b == BeforeTask(name, s)
             t == [b EXCEPT !.run.step = name, !.run.steps = Tail(b.run.steps),
                            !.run.task = "running"]
  <2>1. b \in Procs
    BY BeforeTaskType
  <2> HIDE DEF name, b
  <2>2. t.run.task = "running"
    BY <2>1 DEF Procs, Runs
  <2>3. Launch(s) = t
    BY <1>1, <1>3 DEF Launch, b, name
  <2> QED
    BY <2>2, <2>3 DEF NotRising
<1> QED
  BY <1>2, <1>3

LEMMA AdvanceRuns ==
  ASSUME NEW s \in Procs, Advance(s).fate = "stay" PROVE NotRising(Advance(s).run)
BY LocalType, LaunchRuns DEF Advance

LEMMA BeginRuns ==
  ASSUME NEW s \in Procs, NEW op \in Ops, NEW a \in Args,
         Begin(op, a, s).fate = "stay"
  PROVE  NotRising(Begin(op, a, s).run)
<1> DEFINE retry == IF op \in {"start", "restart", "stop", "uninstall", "halt"}
                    THEN NoTimer ELSE s.retry
           d == [s EXCEPT !.st = "busy", !.probing = FALSE, !.retry = retry]
<1>1. retry \in Armed /\ "busy" \in States
  BY DEF Procs, Armed, States
<1> HIDE DEF retry
<1>2. d \in Procs
  BY <1>1 DEF Procs
<1>3. Begin(op, a, s) = Advance(Plan(op, a, d))
  BY DEF Begin, retry
<1> HIDE DEF d
<1> QED
  BY <1>2, <1>3, PlanType, AdvanceRuns

LEMMA LeaveSinks ==
  ASSUME NEW t \in Procs, NEW waiting, Leave(t, waiting), UNCHANGED <<box, inflight>>,
         t.fate = "stay" => NotRising(t.run),
         t.run.op = "halt" => ~Rising
  PROVE  Sinks
<1>1. p' = After(t)
  BY DEF Leave
<1>2. HaltOk' => t.run.op = "halt"
  BY DEF Leave, HaltOk, NoAnswer
<1>3. CASE Exits(t)
  <2>1. After(t) = Fresh
    BY <1>3 DEF After
  <2> QED
    BY <1>1, <1>2, <2>1 DEF Sinks, Rising, Fresh, NoRun
<1>4. CASE ~Exits(t) /\ t.fate = "stay"
  BY <1>1, <1>2, <1>4, AfterFacts DEF Sinks, Rising, NotRising
<1>5. CASE ~Exits(t) /\ t.fate # "stay"
  BY <1>1, <1>2, <1>5, EndFields DEF Sinks, Rising, NoRun
<1> QED
  BY <1>3, <1>4, <1>5

(* A process that keeps its run, or loses it, answers no halt.             *)
LEMMA KeepSinks ==
  ASSUME UNCHANGED <<box, inflight>>, answer' = NoAnswer,
         p'.run = p.run \/ p'.run = NoRun
  PROVE  Sinks
BY DEF Sinks, HaltOk, NoAnswer, Rising, NoRun

LEMMA RestSinks ==
  ASSUME NEW s \in Procs, Rest(s), s.run = p.run, UNCHANGED <<box, inflight>>
  PROVE  Sinks
<1>1. p'.run = p.run /\ answer' = NoAnswer
  BY DEF Rest, Neutral, Procs
<1> QED
  BY <1>1, KeepSinks

LEMMA BeginSinks ==
  ASSUME NEW s \in Procs, Balanced(s), NEW op \in Ops, NEW a \in Args, NEW waiting,
         Leave(Begin(op, a, s), waiting), op # "halt", UNCHANGED <<box, inflight>>
  PROVE  Sinks
<1> DEFINE t == Begin(op, a, s)
<1>1. t \in Procs /\ t.run.op = op /\ (t.fate = "stay" => NotRising(t.run))
  BY BeginType, BeginCarries, BeginRuns
<1>2. Leave(t, waiting)
  OBVIOUS
<1> HIDE DEF t
<1> QED
  BY <1>1, <1>2, LeaveSinks

LEMMA CommandSinks ==
  ASSUME Inv, Planned, NEW op \in Commands, Command(op) PROVE Sinks
<1>1. PICK a \in ArgsOf(op), disk \in Disk :
        Leave(Begin(op, a, IF op = "uninstall" THEN [Enter(disk) EXCEPT !.retired = TRUE]
                           ELSE Enter(disk)), callers + 1)
  BY DEF Command
<1> DEFINE s == IF op = "uninstall" THEN [Enter(disk) EXCEPT !.retired = TRUE]
                ELSE Enter(disk)
<1>2. s \in Procs /\ Balanced(s) /\ op \in Ops /\ op # "halt"
  BY CommandFits
<1>3. Leave(Begin(op, a, s), callers + 1)
  BY <1>1
<1> HIDE DEF s
<1>4. a \in Args /\ UNCHANGED <<box, inflight>>
  BY <1>2, ArgsOfType DEF Command, outside
<1> QED
  BY <1>2, <1>3, <1>4, BeginSinks

(* A halt takes the place of the start it pre-empts.                       *)
LEMMA HaltSinks == ASSUME Inv, Halt PROVE Sinks
<1>1. ~HaltOk' /\ UNCHANGED <<box, inflight>>
  BY DEF Halt, HaltOk, NoAnswer
<1>2. CASE p' = Fresh
  BY <1>1, <1>2 DEF Sinks, Rising, Fresh, NoRun
<1>3. CASE p' = After(Begin("halt", Called, Enter(TRUE)))
  <2> DEFINE s == Enter(TRUE)
             t == Begin("halt", Called, s)
  <2>1. TRUE \in Disk /\ Called \in Args /\ "halt" \in Ops
    BY DEF Disk, Called, Args, Ops
  <2>2. s \in Procs /\ Balanced(s) /\ s.fate = "stay"
    BY <2>1, EnterFacts DEF Inv, Answering
  <2> HIDE DEF s
  <2>3. t \in Procs /\ t.run.op = "halt" /\ t.fate = "stay" /\ t.run.step = "halt_stop"
    BY <2>1, <2>2, BeginType, BeginCarries, HaltBegins
  <2>4. p' = After(t)
    BY <1>3 DEF s
  <2> HIDE DEF t
  <2>5. ~Exits(t)
    BY <2>3 DEF Exits, InstallUnsaved
  <2> QED
    BY <1>1, <2>3, <2>4, <2>5, AfterFacts DEF Sinks, Rising
<1> QED
  BY <1>2, <1>3 DEF Halt

LEMMA BootStartSinks == ASSUME Inv, BootStart PROVE Sinks
<1>1. PICK disk \in Disk :
        LET s == [Enter(disk) EXCEPT !.st = "idle"]
        IN  \/ p.refused /\ Rest([s EXCEPT !.st = "refused"])
            \/ ~p.refused /\ Leave(Begin("start", Called, s), callers + 1)
            \/ ~p.refused /\ Leave([s EXCEPT !.wanted = "stopped", !.retry = NoTimer,
                                             !.save = TRUE, !.fate = "idle"], callers)
            \/ ~p.refused /\ Rest(s)
  BY BootStartCases
<1> DEFINE e == Enter(disk)
           s == [e EXCEPT !.st = "idle"]
           q == [s EXCEPT !.st = "refused"]
           d == [s EXCEPT !.wanted = "stopped", !.retry = NoTimer,
                          !.save = TRUE, !.fate = "idle"]
<1>2. e \in Procs /\ Balanced(e) /\ e.fate = "stay" /\ e.run = p.run
  BY EnterFacts DEF Inv, Answering
<1>3. \/ Rest(q)
      \/ Leave(Begin("start", Called, s), callers + 1)
      \/ Leave(d, callers)
      \/ Rest(s)
  BY <1>1
<1> HIDE DEF e
<1>4. s \in Procs /\ Balanced(s) /\ s.run = p.run /\ s.fate = "stay"
  BY <1>2 DEF Procs, States, Balanced
<1> HIDE DEF s
<1>5. q \in Procs /\ q.run = p.run
  BY <1>4 DEF Procs, States
<1>6. "stopped" \in Wants /\ NoTimer \in Armed /\ "idle" \in Fates
  BY DEF Wants, Armed, Fates
<1>7. d \in Procs /\ d.run = p.run /\ d.fate = "idle"
  BY <1>4, <1>6 DEF Procs
<1>8. UNCHANGED <<box, inflight>> /\ Called \in Args /\ "start" \in Ops
  BY DEF BootStart, Called, Args, Ops
<1>9. p.run.op = "halt" => ~Rising
  BY DEF Rising, Inv, Halting, HaltStops
<1> HIDE DEF q, d
<1> QED
  BY <1>3, <1>4, <1>5, <1>7, <1>8, <1>9, RestSinks, BeginSinks, LeaveSinks

LEMMA SettingSinks == ASSUME Inv, SetOptions \/ SetWatchdog PROVE Sinks
<1>1. p'.run = p.run
  BY TypedFacts DEF Inv, SetOptions, SetWatchdog, Procs
<1> QED
  BY <1>1, KeepSinks DEF SetOptions, SetWatchdog

LEMMA HandleSinks ==
  ASSUME NEW s \in Procs, NEW m \in Messages, Handle(m, s), s.run = p.run,
         Balanced(s), UNCHANGED <<box, inflight>>
  PROVE  Sinks
<1>1. CASE m.kind = "retry"
  <2> DEFINE a == [Called EXCEPT !.from = FALSE, !.retry = TRUE]
  <2>1. a \in Args /\ "start" \in Ops
    BY DEF Called, Args, Ops
  <2>2. Leave(Begin("start", a, s), callers) \/ Rest(s)
    BY <1>1 DEF Handle
  <2> HIDE DEF a
  <2> QED
    BY <2>1, <2>2, BeginSinks, RestSinks
<1>2. CASE m.kind = "settled"
  <2>1. [s EXCEPT !.attempt = 0] \in Procs /\ [s EXCEPT !.attempt = 0].run = s.run
    BY BoundsAssumption DEF Procs, Attempts
  <2> QED
    BY <1>2, <2>1, RestSinks DEF Handle
<1>3. CASE m.kind = "probe"
  <2>1. [s EXCEPT !.probing = TRUE] \in Procs /\ [s EXCEPT !.probing = TRUE].run = s.run
    BY DEF Procs
  <2> QED
    BY <1>3, <2>1, RestSinks DEF Handle
<1>4. CASE m.kind \notin {"retry", "settled", "probe"}
  <2>1. OnEvent(m, s) \in Procs /\ OnEvent(m, s).run = s.run
    BY OnEventType, OnEventKeeps DEF SameRun
  <2> QED
    BY <1>4, <2>1, RestSinks DEF Handle
<1> QED
  BY <1>1, <1>2, <1>3, <1>4

LEMMA EnteredSinks ==
  ASSUME Inv, NEW m \in Messages, NEW d \in Procs, d.run = p.run, d.fate = p.fate,
         d.reply = p.reply, NEW disk \in Disk,
         Handle(m, [d EXCEPT !.shutting_down = inflight, !.disk = disk]),
         UNCHANGED <<box, inflight>>
  PROVE  Sinks
<1> DEFINE s == [d EXCEPT !.shutting_down = inflight, !.disk = disk]
<1>1. inflight \in BOOLEAN /\ disk \in BOOLEAN
  BY DiskType DEF Inv, Typed, TypeOK
<1>2. s \in Procs /\ s.run = d.run /\ s.fate = d.fate /\ s.reply = d.reply
  BY <1>1 DEF Procs
<1>3. Handle(m, s)
  OBVIOUS
<1> HIDE DEF s
<1>4. Balanced(s)
  BY <1>2 DEF Inv, Answering, Calm, Balanced
<1> QED
  BY <1>2, <1>3, <1>4, HandleSinks

(* A step that leaves box, flag, run and answer as they are.               *)
Idles == p' = p /\ answer' = answer /\ UNCHANGED <<box, inflight>>

LEMMA DeliverSinks == ASSUME Inv, Deliver \/ Replay PROVE Sinks \/ Idles
<1>1. UNCHANGED <<box, inflight>> /\ p \in Procs
  BY DEF Deliver, Replay, Inv, Typed, TypeOK
<1>2. ASSUME NEW m \in Messages, NEW disk \in Disk, Handle(m, Enter(disk)) PROVE Sinks
  <2>1. Handle(m, [p EXCEPT !.shutting_down = inflight, !.disk = disk])
    BY <1>2 DEF Enter
  <2> QED
    BY <1>1, <1>2, <2>1, EnteredSinks
<1>3. CASE Deliver
  <2>1. Head(wire) \in Messages
    <3>1. wire \in Seq(Events) /\ wire # <<>>
      BY <1>3, TypedFacts DEF Deliver, Inv
    <3> QED
      BY <3>1, SomeKept DEF Messages
  <2>2. CASE Postpone(Head(wire)) /\ UNCHANGED p
    BY <1>1, <2>2, KeepSinks DEF Postpone
  <2> QED
    BY <1>1, <1>2, <1>3, <2>1, <2>2 DEF Deliver, Idles
<1>4. CASE Replay
  <2>1. Head(postponed) \in Messages
    <3>1. postponed \in Seq(Messages) /\ postponed # <<>>
      BY <1>4, TypedFacts DEF Replay, Inv
    <3> QED
      BY <3>1, SomeKept
  <2> QED
    BY <1>2, <1>4, <2>1 DEF Replay
<1> QED
  BY <1>3, <1>4

LEMMA FiresSinks ==
  ASSUME Inv, NEW m \in Messages, NEW d \in Procs, Fires(m, d), d.run = p.run,
         d.fate = p.fate, d.reply = p.reply
  PROVE  Sinks
<1>1. UNCHANGED <<box, inflight>>
  BY DEF Fires
<1>2. CASE Postpone(m) /\ p' = d
  BY <1>1, <1>2, KeepSinks DEF Postpone
<1>3. ASSUME NEW disk \in Disk,
             Handle(m, [d EXCEPT !.shutting_down = inflight, !.disk = disk])
      PROVE  Sinks
  BY <1>1, <1>3, EnteredSinks
<1> QED
  BY <1>2, <1>3 DEF Fires

LEMMA TimerSinks == ASSUME Inv, TimerStep PROVE Sinks
<1>0. p \in Procs /\ NoTimer \in Armed
  BY DEF Inv, Typed, TypeOK, Armed
<1>1. LET d == [p EXCEPT !.retry = NoTimer]
      IN  d \in Procs /\ d.run = p.run /\ d.fate = p.fate /\ d.reply = p.reply
  BY <1>0 DEF Procs
<1>2. LET d == [p EXCEPT !.settled = FALSE]
      IN  d \in Procs /\ d.run = p.run /\ d.fate = p.fate /\ d.reply = p.reply
  BY <1>0 DEF Procs
<1>3. LET d == [p EXCEPT !.probe = FALSE]
      IN  d \in Procs /\ d.run = p.run /\ d.fate = p.fate /\ d.reply = p.reply
  BY <1>0 DEF Procs
<1>4. /\ p.retry # NoTimer => Event("retry", p.retry) \in Messages
      /\ Event("settled", 0) \in Messages
      /\ Event("probe", 0) \in Messages
  BY <1>0 DEF Event, Messages, TimerKinds, Held, Armed, Procs
<1>5. CASE RetryTimer
  BY <1>1, <1>4, <1>5, FiresSinks DEF RetryTimer
<1>6. CASE SettledTimer
  BY <1>2, <1>4, <1>6, FiresSinks DEF SettledTimer
<1>7. CASE ProbeTimer
  BY <1>3, <1>4, <1>7, FiresSinks DEF ProbeTimer
<1> QED
  BY <1>5, <1>6, <1>7 DEF TimerStep

LEMMA ProbeSinks == ASSUME Inv, ProbeAnswer PROVE Sinks
<1> DEFINE e == Enter(TRUE)
           s == [e EXCEPT !.probing = FALSE]
<1>1. PICK result \in {"healthy", "unhealthy", "skip"} : Rest(Strike(result, s))
  BY DEF ProbeAnswer
<1>2. e \in Procs /\ e.run = p.run
  BY EnterFacts DEF Inv, Answering, Disk
<1> HIDE DEF e
<1>3. s \in Procs /\ s.run = p.run
  BY <1>2 DEF Procs
<1> HIDE DEF s
<1>4. Strike(result, s) \in Procs /\ Strike(result, s).run = s.run
  BY <1>3, StrikeType, StrikeKeeps DEF SameRun
<1> QED
  BY <1>1, <1>3, <1>4, RestSinks DEF ProbeAnswer

LEMMA EndingSinks == ASSUME Expire \/ Crash \/ Spawn PROVE Sinks
<1>1. \A port : Loaded(port).run = NoRun
  BY DEF Loaded, Fresh
<1>2. /\ Fresh.run = NoRun /\ [Fresh EXCEPT !.st = "new"].run = NoRun
      /\ [Fresh EXCEPT !.st = "refused", !.refused = TRUE, !.ver = 1].run = NoRun
  BY DEF Fresh
<1>3. p'.run = NoRun
  BY <1>1, <1>2 DEF Expire, Crash, Spawn
<1> QED
  BY <1>3, KeepSinks DEF Expire, Crash, Spawn

(* The result of a step: only a halt's own step answers one.               *)
LEMMA ResultSinks ==
  ASSUME Inv, Planned, p.st = "busy", NEW disk \in Disk, NEW r, NEW id \in Held,
         p.run.step = "start" /\ r = "ok" => id # 0 /\ box.id = id /\ box.ver = p.ver,
         Leave(Settle(Enter(disk), r, id), callers), UNCHANGED <<box, inflight>>
  PROVE  Sinks
<1> DEFINE s == Enter(disk)
           t == Settle(s, r, id)
<1>1. /\ s \in Procs /\ Balanced(s) /\ s.fate = "stay" /\ Alike(p, s)
  BY EnterAlike
<1> HIDE DEF s
<1>2. t \in Procs /\ (Carries(s, t) \/ Carries(OptionsTaken(s), t))
  BY <1>1, SettleType, SettleCarries
<1>3. Working(s)
  <2>1. p \in Procs /\ OnTrack(p) /\ AtWork(p) /\ ~p.save
    BY DEF Planned, Inv, Typed, TypeOK
  <2> QED
    BY <1>1, <2>1, AlikeFacts DEF Working, Alike
<1>4. Out(t)
  BY <1>1, <1>3, SettleOut DEF Alike
<1>5. Leave(t, callers)
  BY DEF s
<1> HIDE DEF t
<1>6. t.run.op = p.run.op
  <2>1. OptionsTaken(s).run = s.run
    BY <1>1 DEF OptionsTaken, Procs
  <2> QED
    BY <1>1, <1>2, <2>1 DEF Carries, Constant, Alike
<1>7. t.fate = "stay" => NotRising(t.run)
  BY <1>4 DEF Out, NotRising
<1>8. t.run.op = "halt" => ~Rising
  BY <1>6 DEF Rising, Inv, Halting, HaltStops
<1> QED
  BY <1>2, <1>5, <1>7, <1>8, LeaveSinks

LEMMA OutcomeSinks == ASSUME Inv, Planned, Done \/ TaskLost PROVE Sinks
<1>1. box.id \in Held /\ 0 \in Held
  BY DEF Inv, Typed, TypeOK, Boxes, Held
<1>2. CASE Done
  <2>1. PICK disk \in Disk : Leave(Settle(Enter(disk), p.run.task, box.id), callers)
    BY <1>2 DEF Done
  <2>2. UNCHANGED <<box, inflight>> /\ p.run.task \in Outcomes
    BY <1>2 DEF Done
  <2>3. p.st = "busy"
    BY <2>2 DEF Planned, Resting, NoRun, Outcomes
  <2>4. p.run.step = "start" /\ p.run.task = "ok" => box.id # 0 /\ box.ver = p.ver
    BY DEF Planned, StartReported
  <2> QED
    BY <1>1, <2>1, <2>2, <2>3, <2>4, ResultSinks
<1>3. CASE TaskLost
  <2>1. PICK disk \in Disk, r \in {"died", "timeout"} :
          Leave(Settle(Enter(disk), r, 0), callers)
    BY <1>3 DEF TaskLost
  <2>2. UNCHANGED <<box, inflight>> /\ p.st = "busy" /\ r # "ok"
    BY <1>3 DEF TaskLost
  <2> QED
    BY <1>1, <2>1, <2>2, ResultSinks
<1> QED
  BY <1>2, <1>3

-----------------------------------------------------------------------------
(* The refinement, step by step. *)

(* A handler sinks the app, or answers that it is halted.                  *)
LEMMA SinksMaps ==
  ASSUME Inv', Sinks
  PROVE  App!Sink \/ App!Halted
<1>1. CASE HaltOk'
  <2>1. ~Rising /\ ~Rising' /\ ~box.up
    BY <1>1 DEF Sinks, HaltOk, Inv, Halting, HaltedIsDown
  <2> QED
    BY <1>1, <2>1 DEF Sinks, App!Halted, HaltOk, Rising
<1>2. CASE ~HaltOk'
  BY <1>2 DEF Sinks, App!Sink, HaltOk, Rising
<1> QED
  BY <1>1, <1>2

LEMMA FinishedTask ==
  ASSUME p \in Procs, NEW v, Finished(v) PROVE p'.run.task = v
BY DEF Finished, Procs, Runs

(* The task of a start reads the flag, and does what it does.              *)
LEMMA TaskMaps ==
  ASSUME Inv, TaskStep
  PROVE  [App!Next]_(App!promiseVars)
<1>1. PICK r : Finished(r)
  BY DEF TaskStep, Check, WorkElsewhere, WorkStop, WorkHalt, WorkStart
<1>2. p \in Procs /\ box \in Boxes
  BY DEF Inv, Typed, TypeOK
<1>3. ~HaltOk' /\ UNCHANGED inflight
  BY <1>1 DEF Finished, HaltOk, NoAnswer
<1>4. CASE Check
  <2>1. PICK v \in {"shutting_down", "checked"} :
          Finished(v) /\ (v = "checked" => Native \/ ~inflight) /\ UNCHANGED box
    BY <1>4 DEF Check
  <2>2. p'.run.task = v
    BY <1>2, <2>1, FinishedTask
  <2>3. ~Rising
    BY <1>4 DEF Check, Rising
  <2>4. CASE Rising'
    BY <1>3, <2>1, <2>2, <2>3, <2>4 DEF App!Next, App!Rise, HaltOk, Rising
  <2>5. CASE ~Rising'
    BY <1>3, <2>1, <2>3, <2>5 DEF App!Next, App!Sink, HaltOk, Rising
  <2> QED
    BY <2>4, <2>5
<1>5. CASE WorkStart
  <2>1. Rising /\ ~Rising'
    <3>1. ~Works \/ p.run.task = "checked"
      BY <1>5 DEF WorkStart, Works, Guarded
    <3>2. Finished("ok") \/ Finished("error")
      BY <1>5 DEF WorkStart
    <3> QED
      BY <1>2, <1>5, <3>1, <3>2, FinishedTask DEF WorkStart, Rising
  <2>2. box'.up \in BOOLEAN
    <3>1. CASE box' = [id |-> ids + 1, up |-> TRUE, ver |-> p.ver]
      BY <3>1
    <3>2. CASE box' = NoBox
      BY <3>2 DEF NoBox
    <3>3. CASE UNCHANGED box
      BY <1>2, <3>3 DEF Boxes
    <3> QED
      BY <1>5, <3>1, <3>2, <3>3 DEF WorkStart, Removed
  <2> QED
    BY <1>3, <2>1, <2>2 DEF App!Next, App!Risen, HaltOk
<1>6. CASE WorkElsewhere \/ WorkStop \/ WorkHalt
  <2>1. \E v \in Outcomes : Finished(v)
    BY <1>6 DEF WorkElsewhere, WorkStop, WorkHalt, Outcomes
  <2>2. ~Rising'
    BY <1>2, <2>1, FinishedTask DEF Rising, Outcomes
  <2>3. box'.up \in {box.up, FALSE}
    <3>1. box' = NoBox \/ UNCHANGED box \/ box' = [box EXCEPT !.up = FALSE]
      BY <1>6 DEF WorkElsewhere, WorkStop, WorkHalt, Removed
    <3>2. CASE box' = [box EXCEPT !.up = FALSE]
      BY <1>2, <3>2 DEF Boxes
    <3>3. CASE UNCHANGED box
      BY <3>3
    <3>4. NoBox.up = FALSE
      BY DEF NoBox
    <3> QED
      BY <3>1, <3>2, <3>3, <3>4
  <2> QED
    BY <1>3, <2>2, <2>3 DEF App!Next, App!Sink, HaltOk, Rising
<1> QED
  BY <1>4, <1>5, <1>6 DEF TaskStep

LEMMA SurroundingsMap == ASSUME Inv, Surroundings PROVE [App!Next]_(App!promiseVars)
<1>1. UNCHANGED p /\ ~HaltOk' /\ inflight \in BOOLEAN
  BY DEF Surroundings, BoxDies, BoxHealth, Lose, BeginShutdown, AbandonShutdown,
         HaltOk, NoAnswer, Inv, Typed, TypeOK
<1>2. Rising' <=> Rising
  BY <1>1 DEF Rising
<1>3. CASE BeginShutdown \/ AbandonShutdown
  BY <1>1, <1>2, <1>3 DEF BeginShutdown, AbandonShutdown, App!Next, App!Flag, HaltOk, Rising
<1>4. CASE BoxDies \/ BoxHealth \/ Lose
  <2>1. box'.up \in {box.up, FALSE} /\ UNCHANGED inflight
    BY <1>4 DEF BoxDies, BoxHealth, Lose, Inv, Typed, TypeOK, Boxes
  <2> QED
    BY <1>1, <1>2, <2>1 DEF App!Next, App!Sink, HaltOk, Rising
<1> QED
  BY <1>3, <1>4 DEF Surroundings

LEMMA NextMaps ==
  ASSUME Inv, Planned, [Next]_vars PROVE [App!Next]_(App!promiseVars)
<1>1. Inv'
  BY InvNext
<1>2. ASSUME Sinks PROVE [App!Next]_(App!promiseVars)
  BY <1>1, <1>2, SinksMaps DEF App!Next
<1>3. CASE Idles \/ UNCHANGED vars
  BY <1>3 DEF Idles, vars, App!promiseVars, Rising
<1>4. CASE Next
  BY <1>2, <1>3, <1>4, CommandSinks, HaltSinks, BootStartSinks, SettingSinks,
     DeliverSinks, TimerSinks, ProbeSinks, EndingSinks, OutcomeSinks, TaskMaps,
     SurroundingsMap DEF Next
<1> QED
  BY <1>3, <1>4

(* The app implements its promise: whichever way a start, a halt, a crash  *)
(* and the flag cross, a start that reads the flag once it is up goes no   *)
(* further, and a halt says ok only with none past that point.             *)
THEOREM AppKeepsItsPromise == Spec => KeepsAppPromise
<1>1. Init => App!Init
  BY DEF Init, App!Init, Rising, Fresh, NoRun, NoBox, NoAnswer
<1>2. Inv /\ Planned /\ [Next]_vars => [App!Next]_(App!promiseVars)
  BY NextMaps
<1> QED
  BY <1>1, <1>2, AlwaysPlanned, PTL DEF Spec, KeepsAppPromise, App!Spec

=============================================================================
