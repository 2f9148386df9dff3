CONSTANTS
    Flushers = {f1, f2}
    Revisions = {r1, r2}
    MaxEvents = 2
    MaxAttempts = 1
    MaxCrashes = 1
    Serialized = TRUE
    None = None
SPECIFICATION FairSpec
INVARIANTS
    NeverBehind
    OneContentPerBatchId
    
PROPERTIES
    CheckpointMonotonic
    EventuallyDrained
