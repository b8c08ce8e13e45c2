\* Two synchronisations at a time.
SPECIFICATION FairSpec
CONSTANTS
    Events = {e1}
    Own = {e1}
    Rows = {k1, k2}
    Syncs = {s1, s2}
    Nil = Nil
    MaxRevision = 2
    MaxDisturbances = 2
INVARIANTS TokenCovers DisabledBlocksNothing RegisteredIsSynced
PROPERTIES EventuallyMirrors
\* A disabled connection whose operator does nothing more stays so.
CHECK_DEADLOCK FALSE
