SPECIFICATION FairSpec
CONSTANTS
  c1 = c1  c2 = c2  k1 = k1  e1 = e1  r1 = r1  r2 = r2
  Conns <- OneConn  Creds <- OneCred  Events <- OneEvent
  Reqs <- OneReq  ReqKinds <- SomeKinds
  None = None
  Cap = 2  SoftLimit = 1  HardLimit = 2
  VisibleAt <- AllVisible
  MaxVer = 0  MaxSeq = 1  MaxQueue = 1  MaxAuth = 1
  MayBlock = TRUE  MayStop = TRUE  SlowLookups = TRUE  MayFail = TRUE
PROPERTIES ResponsesSound RequestsSettle
CHECK_DEADLOCK FALSE
