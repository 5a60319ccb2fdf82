SPECIFICATION Spec
CONSTANTS
    d1 = d1
    d2 = d2
    p1 = p1
    p2 = p2
    f1 = f1
    Device = {d1}
    Process = {p1, p2}
    HomeOf <- OneDevice
    Fact = {f1}
    Origin <- OnlyFirst
    MaxTime = 1
INVARIANTS
    FailedIsPending
PROPERTIES
    AcknowledgedIsStored
    CloudNeverForgets
CHECK_DEADLOCK FALSE
