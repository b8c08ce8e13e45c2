--------------------------- MODULE MCPaymentWebhook ---------------------------
(* Notifications about one booking: a first transaction fails, a second pays, *)
(* and it is refunded under a transaction id of its own.                      *)
EXTENDS PaymentWebhook

CONSTANTS fail1, pay2, refund3, t1, t2, t3

MCKind ==
    [n \in Notifications |->
        CASE n = fail1 -> "fail" [] n = pay2 -> "pay" [] n = refund3 -> "refund"]

MCTransaction ==
    [n \in Notifications |-> CASE n = fail1 -> t1 [] n = pay2 -> t2 [] n = refund3 -> t3]
==============================================================================
