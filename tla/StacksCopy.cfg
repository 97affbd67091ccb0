SPECIFICATION StacksSpec
CONSTANTS
  Names = {a, b}
  N = 3
  MaxFaults = 1
  Scenarios <- MCDeployScenarios
  MaxRequests <- MCDeployMaxRequests
INVARIANTS
    NoHalfStackIsDeployed
CHECK_DEADLOCK FALSE
