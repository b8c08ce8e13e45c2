----------------------------- MODULE RefundPolicy -----------------------------
(***************************************************************************)
(* What a cancellation refunds: computeCancellationPolicyOutcome, from who *)
(* cancels, the hours until the start, the policy in force, and the        *)
(* percentage that the stated reason prescribes instead, if any.           *)
(***************************************************************************)
EXTENDS Quote

CONSTANT NoOverride  \* a reason, or none, that prescribes no percentage

\* Fault: the two penalties are exchanged.
DefaultPercentSwapped(actor, hours, policy) ==
    IF actor = "manager" \/ hours >= policy.freeWindowHours
       THEN 100
       ELSE 100 - RoundDiv(IF hours < policy.latePenaltyWindowHours
                              THEN policy.penaltyBps ELSE policy.latePenaltyBps, 100)

\* The percentage of the default policy. Managers refund everything; customers
\* by the time left, where the late window counts only inside the free one.
DefaultPercent(actor, hours, policy) ==
    IF actor = "manager" \/ hours >= policy.freeWindowHours
       THEN 100
       ELSE 100 - RoundDiv(IF hours < policy.latePenaltyWindowHours
                              THEN policy.latePenaltyBps ELSE policy.penaltyBps, 100)

RefundableBase(captured, refunded) == Larger(captured - refunded, 0)

SuggestedRefund(actor, hours, policy, override, captured, refunded) ==
    LET base == RefundableBase(captured, refunded)
        percent == IF override = NoOverride THEN DefaultPercent(actor, hours, policy) ELSE override
    IN Smaller(base, (base * percent) \div 100)
==============================================================================
