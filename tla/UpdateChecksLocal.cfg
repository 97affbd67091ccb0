SPECIFICATION ChecksSpec
CONSTANTS
  ContainerIds = {1, 2, 3}
  Versions = {1, 2, 3}
  Retention = 1
  Scenarios <- MCScenarios
  MaxRequests <- MCMaxRequests
INVARIANTS
    LocalMarkIsTrue
CHECK_DEADLOCK FALSE
