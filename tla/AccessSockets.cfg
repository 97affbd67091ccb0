SPECIFICATION Spec
CONSTANTS
    Founder = root
    Users = {root, bob}
    OidcUsers = {}
    Admins = admins
    Groups = {admins, viewers}
    System = {admins, viewers}
    ReadOnly = viewers
    Keys = {}
    Sockets = {s1, s2}
    None = None
    MaxFailedAttempts = 2
    MaxSessions = 1
    MaxRequests = 3
INVARIANTS
    OpenSocketsAreAllowed
PROPERTIES
    HiddenHostsAreDropped
CHECK_DEADLOCK FALSE
