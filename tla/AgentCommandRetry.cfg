SPECIFICATION Spec
CONSTANTS
    Calls = {c1, c2}
    MaxAttempts = 2
    Replies = {"ok", "malformed"}
    FailureThreshold = 2
    SuccessThreshold = 2
    FailureWindow = 1
    OpenTimeout = 1
    MaxTime = 0
INVARIANTS
    PendingIsAwaited
    SuccessIsOwnResponse
PROPERTIES
    CallReturns
CHECK_DEADLOCK FALSE
