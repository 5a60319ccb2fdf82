SPECIFICATION FairSpec
CONSTANTS
    k1 = k1
    cloud = cloud
    NoService = NoService
    Key = {k1}
    Service = {cloud}
    Worker = {w1, w2}
    Caller = {c1, c2}
    RequestSpec <- ImplicitSpecs
    ServiceLimit <- OneSlot
    MaxRequests = 2
    MaxGeneration = 1
INVARIANTS
    SlotAccounting
    ForegroundReserve
    NoLostWakeup
    NothingAbandoned
PROPERTIES
    LateResultNeverWins
    EveryFutureResolves
CHECK_DEADLOCK FALSE
