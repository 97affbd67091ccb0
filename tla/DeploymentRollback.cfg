SPECIFICATION Spec
CONSTANTS
    Execs = {e1, e2}
    RollbackOnFailure = TRUE
    Destinations = {}
PROPERTIES
    RollbackSparesCommitted
CHECK_DEADLOCK FALSE
