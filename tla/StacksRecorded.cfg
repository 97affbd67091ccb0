SPECIFICATION StacksSpec
CONSTANTS
  Names = {a, b}
  N = 3
  MaxFaults = 0
  Scenarios <- MCScenarios
  MaxRequests <- MCMaxRequests
INVARIANTS
    StacksAreRecorded
CHECK_DEADLOCK FALSE
