SPECIFICATION Spec
CONSTANTS
    Execs = {e1, e2}
    RollbackOnFailure = TRUE
    Destinations = {"docker"}
INVARIANTS
    InProgressIsOwned
PROPERTIES
    ExecutionEnds
CHECK_DEADLOCK FALSE
