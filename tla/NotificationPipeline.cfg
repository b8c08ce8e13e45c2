\* Two events in one batch or in two, one retry, one execution that outlives its jobs.
SPECIFICATION FairSpec
CONSTANTS
    e1 = e1
    e2 = e2
    Events = {e1, e2}
    TargetCount <- MCTargetCount
    Disabled <- MCDisabled
    Pushers = {p1, p2}
    Workers = {w1, w2}
    NoEvent = NoEvent
    RetryLimit = 1
    MaxTimeouts = 1
INVARIANTS DoneReachedAll SendsBounded NeverForgotten
PROPERTIES ProcessedIsFinal JobsEnd
\* Once every job is over and every call has returned, nothing happens.
CHECK_DEADLOCK FALSE
