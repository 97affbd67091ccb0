SPECIFICATION Spec
CONSTANTS
    Requests = {r1, r2, r3}
    MaxId = 2
    None = None
INVARIANTS
    CallsOwnTheirContainer
PROPERTIES
    ResultsAreReal
    CallsEnd
CHECK_DEADLOCK FALSE
