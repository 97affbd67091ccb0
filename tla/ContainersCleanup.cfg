SPECIFICATION ContainersSpec
CONSTANTS
  Ids = {c1, c2}
  Tasks = {t1}
  Items = {i1}
  Target = i1
  Scenarios <- MCCleanup
  MaxRetries = 2
  FailureThreshold = 2
  SuccessThreshold = 1
  MaxRestarts = 2
  MaxPerHost = 2
  MaxRequests <- MCCleanupRequests
PROPERTY
    CleanupIsOfDeleted
CHECK_DEADLOCK FALSE
