SPECIFICATION Spec
CONSTANTS
    MaxIds = 2
    MaxTasks = 2
    Networked = TRUE
    HttpEnabled = TRUE
    MaxRuns = 2
    MaxRequests = 2
INVARIANTS
    IdentitiesConsistent
    DaemonConsistent
PROPERTIES
    NothingHalfDone
    DaemonProgress
