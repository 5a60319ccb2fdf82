SPECIFICATION Spec
CONSTANTS
    p1 = p1
    p2 = p2
    Process = {p1, p2}
    NoProcess = NoProcess
    MaxInputs = 3
INVARIANTS
    NeverUnderRunningGame
CHECK_DEADLOCK FALSE
