------------------------------- MODULE MCPricing -------------------------------
(* A small instance of Pricing: two profiles, one rule, a code of each type,   *)
(* and a fee that the table refuses.                                           *)
EXTENDS Pricing, TLC

MCTerms == {[price |-> 100, fee |-> 550, tax |-> 1800], [price |-> 80, fee |-> 10001, tax |-> 0]}

Rule(type, percent, value, priority) ==
    [id |-> Nil, profile |-> Nil, type |-> type, percent |-> percent, value |-> value,
     priority |-> priority, days |-> 0..6, passengers |-> 0, minutes |-> -1000]
MCRuleKinds == {Rule("dateRange", TRUE, -15, 0),
                [Rule("duration", FALSE, -40, 0) EXCEPT !.minutes = 90]}

MCOccasions == {[minutes |-> 95, passengers |-> 2, day |-> 1],
                [minutes |-> -30, passengers |-> 0, day |-> 6]}
MCCodeKinds == {[percent |-> TRUE, value |-> 15, cap |-> 20, minimum |-> 0],
                [percent |-> FALSE, value |-> 150, cap |-> 1000, minimum |-> 60]}
MCPolicies == {[freeWindowHours |-> 2, penaltyBps |-> 1250, latePenaltyBps |-> 10000,
                latePenaltyWindowHours |-> 1],
               [freeWindowHours |-> 1, penaltyBps |-> 0, latePenaltyBps |-> 4950,
                latePenaltyWindowHours |-> 2]}

MCSymmetry == Permutations(Edits) \cup Permutations(Profiles)
==============================================================================
