------------------------ MODULE MCNotificationPipeline ------------------------
(* A small instance of NotificationPipeline: one event with two targets, and  *)
(* another whose only target has its channel disabled.                        *)
EXTENDS NotificationPipeline

CONSTANTS e1, e2

MCTargetCount == [e \in Events |-> IF e = e1 THEN 2 ELSE 1]
MCDisabled == [e \in Events |-> IF e = e1 THEN {} ELSE {1}]
==============================================================================
