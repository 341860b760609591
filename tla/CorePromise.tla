----------------------------- MODULE CorePromise -----------------------------
(***************************************************************************)
(* What Core's lifecycle promises to whoever stops Core.  Someone who will *)
(* start Core on its own account, a starter, engages to, and may hand that *)
(* over.  A stop puts every engagement it finds out of date.  An engagement*)
(* out of date, and a shutdown, keep an unattended starter from Core, and  *)
(* Core moves at nobody's hand but the one that has it.                    *)
(***************************************************************************)
CONSTANTS Callers, Starters

VARIABLES
    up,        \* Core runs
    owner,     \* who has Core, and whether a user asked for it
    owed,      \* the starters that are engaged
    fresh,     \* those no stop has come after
    closing    \* a shutdown is under way

promiseVars == <<up, owner, owed, fresh, closing>>
Nobody == [who |-> "nobody", attended |-> TRUE]
Core == <<up, owner>>
Engagements == <<owed, fresh>>

Init ==
    /\ up \in BOOLEAN /\ owner = Nobody /\ ~closing
    /\ owed = {} /\ fresh = {}

Engage(s) ==
    /\ s \notin owed /\ owed' = owed \cup {s} /\ fresh' = fresh \cup {s}
    /\ UNCHANGED <<Core, closing>>

Hand(s, t) ==
    /\ s \in owed /\ owed' = (owed \ {s}) \cup {t}
    /\ fresh' = (fresh \ {s, t}) \cup (IF s \in fresh THEN {t} ELSE {})
    /\ UNCHANGED <<Core, closing>>

Drop(s) ==
    /\ s \in owed /\ owed' = owed \ {s} /\ fresh' = fresh \ {s}
    /\ UNCHANGED <<Core, closing>>

(* A restart has Core up as soon as it has Core.                           *)
Take(c, attended) ==
    /\ owner = Nobody /\ owner' = [who |-> c, attended |-> attended]
    /\ attended \/ (c \in fresh /\ ~closing)
    /\ up' \in {up, TRUE}
    /\ UNCHANGED <<Engagements, closing>>

(* Whoever has Core works on it, leaves it, or dies with its engagement.   *)
Work ==
    /\ owner # Nobody /\ up' \in BOOLEAN
    /\ \/ owner' = owner /\ UNCHANGED Engagements
       \/ owner' = Nobody /\ UNCHANGED Engagements
       \/ owner' = Nobody /\ owed' = owed \ {owner.who} /\ fresh' = fresh \ {owner.who}
    /\ UNCHANGED closing

Stop ==
    /\ owner = Nobody /\ up' = FALSE /\ fresh' = {}
    /\ UNCHANGED <<owner, owed, closing>>

Close == closing' = ~closing /\ UNCHANGED <<Core, Engagements>>

Next ==
    \/ \E s \in Starters : Engage(s) \/ Drop(s) \/ \E t \in Starters : Hand(s, t)
    \/ \E c \in Callers, attended \in BOOLEAN : Take(c, attended)
    \/ Work \/ Stop \/ Close

Spec == Init /\ [][Next]_promiseVars
=============================================================================
