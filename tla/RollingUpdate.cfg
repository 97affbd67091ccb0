SPECIFICATION Spec
CONSTANTS
    Parent = parent
    Deps = {d1, d2}
    LegacyApi = TRUE
INVARIANTS
    NothingIsLost
PROPERTIES
    ResultIsTruthful
    ImplementsReplacement
    UpdateEnds
CHECK_DEADLOCK FALSE
