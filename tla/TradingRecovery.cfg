SPECIFICATION Spec
CONSTANTS
    Workers = {w1, w2}
    NoWriter = NoWriter
    Path = Path
    MaxActions = 3
    MaxCrashes = 1
    MaxTakeovers = 1
    MaxWaits = 1
INVARIANTS Causality AcceptedIsApplied BudgetKept BookingFollowsDelivery
 
