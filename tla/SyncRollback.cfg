SPECIFICATION Spec
CONSTANTS
    d1 = d1
    d2 = d2
    Device = {d1, d2}
    Unfetched = Unfetched
    Tolerance = 1
    Retained = 2
    MaxNow = 3
    MaxSurprises = 1
INVARIANT RollbackStands
