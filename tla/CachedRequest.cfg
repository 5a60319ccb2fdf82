SPECIFICATION Spec
CONSTANTS
    t1 = t1
    t2 = t2
    Thread = {t1, t2}
    MaxCalls = 2
    MaxChanges = 1
    Generations = {0, 1}
    NoEntry = NoEntry
SYMMETRY Symmetry
INVARIANTS
    TypeOK
    InvalidatedStaysGone
    ForcedGetsNew
CHECK_DEADLOCK FALSE
