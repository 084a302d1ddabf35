SPECIFICATION Spec
CONSTANTS
  k1 = k1  k2 = k2  o1 = o1  s1 = s1
  None = None
  Ids <- TwoIds  Operators <- OneOperator  Scopes <- OneScope
  Ttls <- OneTtl
  MaxConcurrent = 1  RenewalWindow = 1  HeartbeatTimeout = 2  MaxTime = 3
INVARIANTS CredInv
PROPERTIES CredentialsOnlyShrink MutationsAnnounced
SYMMETRY Symmetric
CHECK_DEADLOCK FALSE
