SPECIFICATION Spec
CONSTANTS
    Handlers = {h1}
    Rules <- MCRules
    MaxRetries = 2
    MaxBlackouts = 1
    None = None
INVARIANTS
    PendingIsCurrent
PROPERTIES
    OpenAlertIsNotified
    SuppressedAlertResurfaces
