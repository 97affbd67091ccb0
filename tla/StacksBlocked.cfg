SPECIFICATION StacksSpec
CONSTANTS
  Names = {a, b}
  N = 3
  MaxFaults = 1
  Scenarios <- MCScenarios
  MaxRequests <- MCMaxRequests
INVARIANTS
    NoNameIsBlocked
CHECK_DEADLOCK FALSE
