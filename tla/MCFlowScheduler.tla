-------------------------- MODULE MCFlowScheduler --------------------------
(* Instances of FlowScheduler: flows f1 and f2 of a scheduler, and a flow g
   of the user whose process runs beside that of f1. *)
EXTENDS FlowScheduler

CONSTANTS f1, f2, g, node1, node2

Pair == <<f1, f2>>

SharedHosts == [f \in Flow |-> IF f = f2 THEN {node2} ELSE {node1}]
=============================================================================
