\* Three bookings by two customers claim a code that an admin edits meanwhile.
SPECIFICATION FairUsageSpec
CONSTANTS
    Codes = {c1}
    Names = {n1}
    Customers = {u1, u2}
    Claims = {x1, x2, x3}
    Limits = {1, 2, NoLimit}
    NoLimit = NoLimit
    None = None
    MayRename = FALSE
    MaxEdits = 2
INVARIANTS UsageTypeOK CountsAreExact
PROPERTIES UsageWithinLimits ClaimsEnd
\* Once every transaction is over and no edit is left, nothing happens.
CHECK_DEADLOCK FALSE
