SPECIFICATION Spec
CONSTANTS
    Workers = {w1, w2}
    NoWriter = NoWriter
    Path = Path
    MaxActions = 3
    MaxCrashes = 1
    MaxTakeovers = 0
    MaxWaits = 0
PROPERTY TriggersComplete
