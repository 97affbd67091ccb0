SPECIFICATION Spec
CONSTANTS
  Ids = {a, b}
  MaxRequests = 2
  Polled = {a}
PROPERTY SettingsAreTransferred
CHECK_DEADLOCK FALSE
