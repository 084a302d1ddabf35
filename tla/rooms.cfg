SPECIFICATION RoomsSpec
CONSTANTS
    DirCallers = {k1, k2}
    OperatorIds = {o1, o2}
    PolicyIds = {p1}
    InboxIds = {i1, i2}
    MaxDirOps = 5
    MaxDirStops = 1
    ChatCallers = {k1, k2}
    ChatIdentities = {o1, o2}
    Groups = {i1, i2}
    ConvIds = {1, 2, 3}
    ChatCreds = {p1}
    MaxChatOps = 3
    MaxChatFaults = 1
    AccessRequests = {k1, k2}
    AccessChats = {c1, c2}
    ScopedChats = {c1}
    MaxAccessChanges = 2
INVARIANTS
    InboxesConsistent
    ConvIdsStable
    PurgeLeavesNothing
    AccessPermitted
PROPERTIES
    RemovedStaysRemoved
SYMMETRY RoomsSymmetry
CHECK_DEADLOCK FALSE
