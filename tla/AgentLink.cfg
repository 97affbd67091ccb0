SPECIFICATION LinkSpec
CONSTANTS
    Agents = {a1}
    Sockets = {s1, s2, s3}
    Shells = {x1}
    None = None
INVARIANTS
    RegistryFollowsSocket
    TeardownSparesLiveShells
PROPERTIES
    DeadSocketIsDropped
CHECK_DEADLOCK FALSE
