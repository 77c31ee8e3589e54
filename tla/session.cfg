SPECIFICATION FairSpec

CONSTANTS
    Recipients = {r1, r2}
    MaxAttempts = 2
    Bytes = 10
    Lines = 2
    Sizes = {0, 9, 11, 12}

INVARIANTS
    TypeOK
    NothingInTheClear
    SizeHonoured
    DuplicatesNeedDoubt
    FailedMeansUnsent

PROPERTIES
    ServiceSteps
    SessionSettles

CHECK_DEADLOCK FALSE
