SPECIFICATION Spec
CONSTANTS
    Parent = parent
    Deps = {d1, d2}
    LegacyApi = TRUE
INVARIANTS
    BackupIsKeptADay
CHECK_DEADLOCK FALSE
