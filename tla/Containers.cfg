SPECIFICATION ContainersSpec
CONSTANTS
  Ids = {c1, c2}
  Tasks = {t1, t2}
  Items = {i1, i2, i3}
  Target = i1
  Scenarios <- MCScenarios
  MaxRetries = 2
  FailureThreshold = 2
  SuccessThreshold = 1
  MaxRestarts = 2
  MaxPerHost = 2
  MaxRequests <- MCMaxRequests
INVARIANTS
    RestartsAreBounded
    JobIsToldTruly
PROPERTIES
    WorkIsDone
    SettingsAreKept
CHECK_DEADLOCK FALSE
