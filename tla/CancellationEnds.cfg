\* Two cancellation requests, an execution that may be repeated, and an operator, for a
\* payment that is reported as paid and as failed and may be refunded in part by hand.
SPECIFICATION FairSpec
CONSTANTS
    Requesters = {q1, q2}
    Workers = {w1}
    Operators = {o1}
    Payments = {p1}
    Price <- TwoEach
    Reports <- PaidAndFailed
    NoPayment = NoPayment
    MaxRefunds = 1
    KeyExpires = FALSE
INVARIANTS TypeOK
PROPERTIES EveryExecutionEnds
\* Once the request is applied and every handler has returned, nothing is left to do.
CHECK_DEADLOCK FALSE
