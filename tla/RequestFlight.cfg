SPECIFICATION Spec
CONSTANTS
    k1 = k1
    cloud = cloud
    NoService = NoService
    Key = {k1}
    Service = {cloud}
    Worker = {w1, w2}
    Caller = {c1}
    RequestSpec <- OrderingSpecs
    ServiceLimit <- OneSlot
    MaxRequests = 3
    MaxGeneration = 1
SYMMETRY Symmetry
INVARIANTS
    TypeOK
    SingleFlight
    PendingWorkBarrier
PROPERTIES
    KeepsPromise
CHECK_DEADLOCK FALSE
