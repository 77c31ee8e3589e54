SPECIFICATION FairSpec

CONSTANTS
    Files = {f1, f2}
    Jobs = {j1, j2}
    NoJob = NoJob
    Expiry = TRUE
    MaxCrashes = 1

INVARIANTS
    TypeOK
    DeliveredComplete

PROPERTIES
    FreshGoesWithItsReport
    LossHasACause
    SettledFilesGo
