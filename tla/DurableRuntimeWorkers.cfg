CONSTANTS
    Workers = {w1, w2}
    Commands = {c1, c2}
    Priorities = {1}
    MaxTime = 1
    TickStep = 1
    MaxSchedules = 2
    DiscardOnError = FALSE
    None = None
SPECIFICATION Spec
INVARIANTS
    SequenceCountsExecutions
    NothingLostOrRepeated
