CONSTANTS
    Workers = {w1}
    Triggers = {t1, t2}
    Batches = {b1, b2}
    Sizes = {1, 2}
    Controls = {"pause", "resume", "config"}
    HasWarehouse = TRUE
    MaxTicks = 4
    MaxRevision = 2
    None = None
CHECK_DEADLOCK FALSE
SPECIFICATION Spec
INVARIANTS
    TypeOK
    BatchAdvancesExactly
    CheckpointTracksPosition
