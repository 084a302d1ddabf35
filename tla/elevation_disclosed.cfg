SPECIFICATION ElevationSpec
CONSTANTS
    ReadRequests = {r1, r2}
    AdminSessions = {s1, s2}
    TtlMs = 2
    MaxClock = 4
INVARIANT SealDiscloses
CHECK_DEADLOCK FALSE
