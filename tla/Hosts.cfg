SPECIFICATION Spec
CONSTANTS
  Ids = {a, b}
  MaxRequests = 2
  Polled = {a}
INVARIANTS
    RegistrationIsOnce
    HostsAgree
PROPERTIES
    SettingsSurvive
    ReachableHostComesBack
CHECK_DEADLOCK FALSE
