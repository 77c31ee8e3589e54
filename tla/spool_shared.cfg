SPECIFICATION Spec

CONSTANTS
    Files = {f1}
    Jobs = {j1, j2}
    NoJob = NoJob
    Expiry = FALSE
    MaxCrashes = 0

INVARIANTS
    FilesUntilSent
