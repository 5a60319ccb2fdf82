SPECIFICATION Spec
CONSTANTS
    Recovers = TRUE
    MaxUpdates = 2
    MaxSaves = 2
    MaxFailures = 1
    MaxCrashes = 2
    None = None
INVARIANTS
    TypeOK
    NothingLost
    InterruptedIsRecovered
    AllOrNothing
CHECK_DEADLOCK FALSE
