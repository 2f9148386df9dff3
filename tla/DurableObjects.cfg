CONSTANTS
    ResRequests = {r1, r2, r3}
    ResPriorities = {1, 2}
    ResCapacity = 2
    ResMaxEvents = 2
    ResMaxCrashes = 1
    PreRequests = {p1, p2}
    PrePriorities = {1, 2}
    PreCapacity = 1
    PreMaxCrashes = 2
    StoreItems = {"a", "b", "c"}
    StoreGets = {"g", "h"}
    ItemPriority <- Priorities
    StoreFilters <- Filters
    StoreKinds = {"fifo", "priority", "filter"}
    StoreCapacity = 1
    StoreMaxCrashes = 1
    ContainerOps = {o1, o2, o3}
    Amounts = {1, 2}
    ContainerCapacity = 3
    InitialLevel = 1
    ContainerMaxCrashes = 1
SPECIFICATION Spec
CHECK_DEADLOCK FALSE
INVARIANTS
    TypeOK
    ReservationsBacked
    NoLostDemand
    OwnersBacked
    AcquisitionsCommit
    NothingStuck
    ServesExactlyWhatFits
PROPERTIES
    ImplementsResource
    FifoDelivery
    GetsServed
