--------------------------- MODULE WebhookContract ---------------------------
(***************************************************************************)
(* What the webhook route promises the payment provider, with no word on   *)
(* deliveries: a notification is recorded, takes effect once, is closed    *)
(* after that, and is accepted only when it is closed.                     *)
(***************************************************************************)
EXTENDS Naturals

CONSTANTS
    Notifications,
    Effectful       \* the notifications that change something

VARIABLES
    record,    \* of each notification: "none", "received" or "processed"
    effects,   \* how often each has taken effect
    accepted   \* the notifications whose latest answer is an acceptance

contractVars == <<record, effects, accepted>>

Init ==
    /\ record = [n \in Notifications |-> "none"]
    /\ effects = [n \in Notifications |-> 0]
    /\ accepted = {}

Receive(n) ==
    /\ record[n] = "none"
    /\ record' = [record EXCEPT ![n] = "received"]
    /\ UNCHANGED <<effects, accepted>>

\* A recorded notification takes effect, for the first time.
TakeEffect(n) ==
    /\ n \in Effectful
    /\ record[n] = "received"
    /\ effects[n] = 0
    /\ effects' = [effects EXCEPT ![n] = 1]
    /\ UNCHANGED <<record, accepted>>

\* A notification that has taken its effect is closed, and accepted now or later.
Close(n) ==
    /\ record[n] = "received"
    /\ n \in Effectful => effects[n] = 1
    /\ record' = [record EXCEPT ![n] = "processed"]
    /\ accepted' \in {accepted, accepted \cup {n}}
    /\ UNCHANGED effects

Accept(n) ==
    /\ record[n] = "processed"
    /\ accepted' = accepted \cup {n}
    /\ UNCHANGED <<record, effects>>

\* A delivery may be refused at any time; it is repeated.
Refuse(n) ==
    /\ accepted' = accepted \ {n}
    /\ UNCHANGED <<record, effects>>

Next ==
    \E n \in Notifications :
        Receive(n) \/ TakeEffect(n) \/ Close(n) \/ Accept(n) \/ Refuse(n)

Spec == Init /\ [][Next]_contractVars
==============================================================================
