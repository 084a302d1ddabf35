SPECIFICATION Spec
CONSTANTS
  c1 = c1  c2 = c2  k1 = k1  e1 = e1  r1 = r1  r2 = r2
  Conns <- TwoConns  Creds <- OneCred  Events <- OneEvent
  Reqs <- NoReqs  ReqKinds <- NoReqs
  None = None
  Cap = 2  SoftLimit = 1  HardLimit = 2
  VisibleAt <- AllVisible
  MaxVer = 0  MaxSeq = 4  MaxQueue = 1  MaxAuth = 1
  MayBlock = FALSE  MayStop = FALSE  SlowLookups = TRUE  MayFail = FALSE
INVARIANTS ReplayConsistent ResumeComplete
CHECK_DEADLOCK FALSE
