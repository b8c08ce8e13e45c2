\* Two edits and a quote at a time on two profiles.
SPECIFICATION Spec
CONSTANTS
    Profiles = {p1, p2}
    Terms <- MCTerms
    RuleIds = {k1}
    RuleKinds <- MCRuleKinds
    Occasions <- MCOccasions
    CodeKinds <- MCCodeKinds
    Policies <- MCPolicies
    Edits = {e1, e2}
    Quotes = {q1}
    Nil = Nil
    NoOverride = NoOverride
INVARIANTS DefaultKept PriceWasInForce DiscountLowersTotal LaterRefundsLess
SYMMETRY MCSymmetry
