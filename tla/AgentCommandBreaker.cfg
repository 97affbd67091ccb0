SPECIFICATION Spec
CONSTANTS
    Calls = {c1, c2, c3, c4}
    MaxAttempts = 1
    Replies = {"ok"}
    FailureThreshold = 2
    SuccessThreshold = 2
    FailureWindow = 1
    OpenTimeout = 1
    MaxTime = 2
SYMMETRY Symmetry
INVARIANTS
    BreakerWithinThresholds
PROPERTIES
    BreakerEdges
CHECK_DEADLOCK FALSE
