--------------------------- MODULE MCOrchestrator ---------------------------
(* Values of StageOf for the configurations of Orchestrator. *)
EXTENDS Orchestrator

CONSTANTS mqtt, db, web

OneEarlier == [a \in Apps |-> IF a = mqtt THEN "system" ELSE "application"]
=============================================================================
