SPECIFICATION StoresSpec
CONSTANTS
    Items = {a, b, c}
    Cap = 4
    Undefined = Undefined
    KeyCallers = {k1, k2}
    MaxKeyOps = 3
    MaxKeyCrashes = 1
    RingCallers = {k1, k2}
    Identities = {i1, i2}
    MaxRingOps = 4
    MaxRingFaults = 1
    CredTtl = 1
    WalletCallers = {k1, k2}
    WalletIds = {i1, i2}
    ApiKeys = {p1}
    MaxWalletOps = 5
    MaxWalletStops = 1
    Requesters = {q1}
    VCallers = {k1, k2}
    MaxRequests = 2
    Window = 2
    MaxVOps = 4
    MaxVClock = 3
INVARIANTS
    ReadsEverything
    SecretKept
    AdminPairMatches
    ReadsLastWrite
    RingSound
    WalletsSound
    VerifierSound
PROPERTIES
    ImplementsLog
SYMMETRY StoresSymmetry
CHECK_DEADLOCK FALSE
