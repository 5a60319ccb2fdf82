SPECIFICATION Spec
CONSTANTS
    f1 = f1
    f2 = f2
    File = {f1, f2}
    NoFile = NoFile
    MaxWrites = 2
SYMMETRY Symmetry
INVARIANTS
    TypeOK
    Recoverable
    BackupIsSnapshot
    FailureRestores
    SuccessIsVerified
CHECK_DEADLOCK FALSE
