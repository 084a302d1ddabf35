SPECIFICATION HostSpec
CONSTANTS
    Joiners = {j1}
    Hosts = {1, 2}
    Creator = 2
    MaxTags = 2
    MaxPolls = 2
    MaxRetries = 1
    MaxRestarts = 1
    ReadRequests = {r1, r2}
    AdminSessions = {s1, s2}
    TtlMs = 2
    MaxClock = 4
    XsCommands = {x1, x2}
    MaxDaemonStops = 1
INVARIANTS
    AcceptancesSound
    JoinOutcome
    ReadsApproved
    StoreDiscloses
    CommandsTruthful
PROPERTIES
    OnboardingEnds
    ElevationEnds
    CommandEnds
CHECK_DEADLOCK FALSE
