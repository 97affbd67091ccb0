SPECIFICATION Spec
CONSTANTS
    Founder = root
    Users = {root, bob, ann}
    OidcUsers = {ann}
    Admins = admins
    Groups = {admins, viewers, team}
    System = {admins, viewers}
    ReadOnly = viewers
    Keys = {k1}
    Sockets = {s1}
    None = None
    MaxFailedAttempts = 2
    MaxSessions = 1
    MaxRequests = 3
INVARIANTS
    LiveKeyIsAnchored
    OpenSocketsAreAllowed
PROPERTIES
    NoLockout
CHECK_DEADLOCK FALSE
