SPECIFICATION FairSpec
CONSTANTS
    p1 = p1
    p2 = p2
    Process = {p1, p2}
    NoProcess = NoProcess
    MaxInputs = 3
INVARIANTS
    TypeOK
    LockOutlivesWork
    ClosedIsDrained
    OnlyTheUserCloses
PROPERTIES
    CancelledNeverLaunches
    LocksEnd
    ShutdownEnds
CHECK_DEADLOCK FALSE
