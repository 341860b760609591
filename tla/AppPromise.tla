----------------------------- MODULE AppPromise -----------------------------
(***************************************************************************)
(* What an app promises to a host that goes down, and all that the         *)
(* orchestrator's stop counts on: a start reads the shutdown flag and may  *)
(* do what it does much later, but once the flag is up no further one gets *)
(* past it, and a halt is answered with ok only when nothing of the app is *)
(* up or on its way.  So what is down when a halt says so stays down until *)
(* the flag comes off.                                                     *)
(***************************************************************************)
CONSTANT Native     \* the app runs in the BEAM and reads no flag

VARIABLES
    inflight,   \* Vagus.Host.Shutdown.in_flight?
    rising,     \* a start has read the flag and may bring the app up
    up,         \* the app's container runs
    halted      \* the last step answered a halt with ok

promiseVars == <<inflight, rising, up, halted>>

Init == ~inflight /\ ~rising /\ ~up /\ ~halted

Rise ==
    /\ Native \/ ~inflight
    /\ rising' = TRUE /\ halted' = FALSE
    /\ UNCHANGED <<inflight, up>>

(* The start ends, whatever it did; nothing but a start brings the app up. *)
Risen ==
    /\ rising /\ up' \in BOOLEAN
    /\ rising' = FALSE /\ halted' = FALSE
    /\ UNCHANGED inflight

(* A start is pre-empted or dies, the app is stopped or dies.              *)
Sink ==
    /\ rising' \in {rising, FALSE} /\ up' \in {up, FALSE}
    /\ halted' = FALSE
    /\ UNCHANGED inflight

Halted ==
    /\ ~rising /\ ~up
    /\ halted' = TRUE
    /\ UNCHANGED <<inflight, rising, up>>

Flag ==
    /\ inflight' = ~inflight /\ halted' = FALSE
    /\ UNCHANGED <<rising, up>>

Next == Rise \/ Risen \/ Sink \/ Halted \/ Flag

Spec == Init /\ [][Next]_promiseVars
=============================================================================
