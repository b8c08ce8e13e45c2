\* Two workflow executions for a booking that may be paid twice. The provider may forget
\* the idempotency key and refund twice, or by hand.
SPECIFICATION Spec
CONSTANTS
    Requesters = {q1}
    Workers = {w1, w2}
    Operators = {}
    Payments = {p1, p2}
    Price <- OneEach
    Reports <- Paid
    NoPayment = NoPayment
    MaxRefunds = 2
    KeyExpires = TRUE
SYMMETRY MCSymmetry
INVARIANTS BooksAreBacked AnnouncedIsApplied
PROPERTIES KeepsContract
\* Once the request is applied and every handler has returned, nothing is left to do.
CHECK_DEADLOCK FALSE
