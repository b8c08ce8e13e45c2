---------------------------- MODULE MCCancellation ----------------------------
(* A small instance of Cancellation: up to two concurrent executions of the    *)
(* workflow, an operator, two requests and two captured payments.              *)
EXTENDS Cancellation, TLC

\* Transactions of one and of two units.
OneEach == [p \in Payments |-> 1]
TwoEach == [p \in Payments |-> 2]

\* Each transaction is reported as paid; or as paid and as failed, in any order.
Paid == [kind : {"pay"}, payment : Payments]
PaidAndFailed == [kind : {"pay", "fail"}, payment : Payments]

\* Executions of the workflow are interchangeable. Only the safety run uses it.
MCSymmetry == Permutations(Workers)
==============================================================================
