------------------------ MODULE CancellationContract -------------------------
(***************************************************************************)
(* What a cancellation promises the customer, with no word on how: an      *)
(* amount is agreed once, that amount is returned at most once, and the    *)
(* request is settled only when it has been returned.                      *)
(***************************************************************************)
EXTENDS Naturals

VARIABLES
    phase,   \* "none", "requested" or "applied"
    due,     \* the agreed refund
    paid     \* the money the payment provider has returned

contractVars == <<phase, due, paid>>

Init ==
    /\ phase = "none"
    /\ due = 0
    /\ paid = 0

\* The request is stored with the refund the policy computed.
Agree ==
    /\ phase = "none"
    /\ phase' = "requested"
    /\ due' \in Nat
    /\ UNCHANGED paid

\* The agreed refund is returned, in full and for the first time.
PayOut ==
    /\ phase = "requested"
    /\ paid = 0
    /\ paid' = due
    /\ UNCHANGED <<phase, due>>

\* Nothing is owed any more: the request is applied.
Settle ==
    /\ phase = "requested"
    /\ paid = due
    /\ phase' = "applied"
    /\ UNCHANGED <<due, paid>>

Next == Agree \/ PayOut \/ Settle

Spec == Init /\ [][Next]_contractVars
==============================================================================
