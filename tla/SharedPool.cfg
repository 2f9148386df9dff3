CONSTANTS
    Orgs = {"a", "b"}
    Workers = {"u", "v", "w"}
    Job <- Jobs
    Recovering = {"u", "v"}
    Work <- Organizations
    Foreign <- Others
    Outages <- Failures
    Horizon = 5
    MaxPoolUse = 2
    MaxFaults = 1
SPECIFICATION Spec
CHECK_DEADLOCK FALSE
INVARIANTS
    PoolBacked
    RecordsAgree
    AdviceExact
PROPERTIES
    SourcesFinish
