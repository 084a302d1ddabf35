SPECIFICATION FairSpec
CONSTANTS
  c1 = c1  c2 = c2  k1 = k1  e1 = e1  r1 = r1  r2 = r2
  Conns <- OneConn  Creds <- OneCred  Events <- OneEvent
  Reqs <- NoReqs  ReqKinds <- NoReqs
  None = None
  Cap = 2  SoftLimit = 1  HardLimit = 2
  VisibleAt <- Narrowing
  MaxVer = 2  MaxSeq = 2  MaxQueue = 1  MaxAuth = 1
  MayBlock = FALSE  MayStop = FALSE  SlowLookups = FALSE  MayFail = TRUE
INVARIANTS SnapshotsConsistent
PROPERTIES SnapshotsSettle
CHECK_DEADLOCK FALSE
