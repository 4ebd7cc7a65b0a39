SPECIFICATION FairSpec
CONSTANTS
  app = app
  app2 = app2
  r1 = r1
  r2 = r2
  w1 = w1
  w2 = w2
  hal = hal
  NoThread = NoThread
  Hal = hal
  Callers <- OneCaller
  Readers <- OneReader
  Writers <- OneWriter
  RCap = 2
  MaxRx = 1
  WCap = 1
  MaxTx = 0
  MaxRetry = 0
  MaxInit = 1
  HalCloseFails = FALSE
  HalOpenFails = FALSE
  SpawnFails = FALSE
PROPERTY StopCompletes
CHECK_DEADLOCK FALSE
