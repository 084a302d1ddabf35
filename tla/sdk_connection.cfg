SPECIFICATION FairSpec
CONSTANTS
  r1 = r1  r2 = r2
  Reqs <- TwoReqs
  None = None
  Enabled = TRUE  MaxAttempts = 2
  MaxSocks = 5  MaxEvents = 2
INVARIANTS SocketsConsistent StreamAndRetries
PROPERTIES AuthResolves
CHECK_DEADLOCK FALSE
