SPECIFICATION Spec
CONSTANTS
    Founder = root
    Users = {root}
    OidcUsers = {}
    Admins = admins
    Groups = {admins, viewers}
    System = {admins, viewers}
    ReadOnly = viewers
    Keys = {}
    Sockets = {}
    None = None
    MaxFailedAttempts = 2
    MaxSessions = 1
    MaxRequests = 4
INVARIANT CriticalIsHeld
CHECK_DEADLOCK FALSE
