CONSTANTS
    Workers = {w1}
    Triggers = {t1, t2}
    Batches = {b1}
    Sizes = {2}
    Controls = {}
    HasWarehouse = TRUE
    MaxTicks = 4
    MaxRevision = 1
    None = None
CHECK_DEADLOCK FALSE
SPECIFICATION FairSpec
INVARIANTS
    EveryTickReconciled
PROPERTIES
    BatchCompletes
