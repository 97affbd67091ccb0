SPECIFICATION Spec
CONSTANTS
    Execs = {e1, e2}
    RollbackOnFailure = TRUE
    Destinations = {}
INVARIANTS
    InProgressIsExecuting
CHECK_DEADLOCK FALSE
