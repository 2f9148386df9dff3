CONSTANTS
    Workers = {w1, w2}
    Triggers = {t1, t2}
    Batches = {b1}
    Sizes = {2}
    Controls = {}
    HasWarehouse = FALSE
    MaxTicks = 4
    MaxRevision = 1
    None = None
CHECK_DEADLOCK FALSE
SPECIFICATION Spec
INVARIANT MutualExclusion
