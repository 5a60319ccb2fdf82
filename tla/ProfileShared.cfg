SPECIFICATION FairSpec
CONSTANTS
    d1 = d1
    d2 = d2
    p1 = p1
    p2 = p2
    f1 = f1
    Device = {d1, d2}
    Process = {p1, p2}
    HomeOf <- TwoDevices
    Fact = {f1}
    Origin <- OnlyFirst
    MaxTime = 0
INVARIANTS
    TypeOK
    SyncedIsStored
PROPERTIES
    EventuallyShared
CHECK_DEADLOCK FALSE
