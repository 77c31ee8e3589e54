SPECIFICATION Spec

CONSTANTS
    Files = {f1, f2}
    Jobs = {j1}
    NoJob = NoJob
    Expiry = TRUE
    MaxCrashes = 0

SYMMETRY SpoolSymmetry

INVARIANTS
    FilesUntilSent
