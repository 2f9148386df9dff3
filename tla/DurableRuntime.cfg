CONSTANTS
    Workers = {w1}
    Commands = {c1, c2}
    Priorities = {1, 2}
    MaxTime = 3
    TickStep = 2
    MaxSchedules = 3
    DiscardOnError = TRUE
    None = None
SPECIFICATION FairSpec
INVARIANT EveryPositionRecoverable
PROPERTIES
    PositionMonotonic
    ImplementsScheduledWork
    EventuallyDone
