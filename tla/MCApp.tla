------------------------------- MODULE MCApp -------------------------------
(* Values of IngressOf for the configurations of AppServer. *)
EXTENDS AppProperties

NoIngress == [v \in Versions |-> "none"]
DynamicIngress == [v \in Versions |-> "dynamic"]
LaterDynamic == [v \in Versions |-> IF v = 1 THEN "fixed" ELSE "dynamic"]
=============================================================================
