SPECIFICATION Spec
CONSTANTS
    Recovers = FALSE
    MaxUpdates = 2
    MaxSaves = 2
    MaxFailures = 1
    MaxCrashes = 2
    None = None
INVARIANTS
    InterruptedIsRecovered
CHECK_DEADLOCK FALSE
