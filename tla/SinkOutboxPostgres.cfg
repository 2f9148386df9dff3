CONSTANTS
    Flushers = {f1, f2}
    Revisions = {r1}
    MaxEvents = 3
    MaxAttempts = 1
    MaxCrashes = 1
    Serialized = FALSE
    None = None
SPECIFICATION Spec
INVARIANT CommittedPrefixPublished
