SPECIFICATION FairSpec
CONSTANTS
  app = app
  app2 = app2
  r1 = r1
  r2 = r2
  w1 = w1
  w2 = w2
  hal = hal
  NoThread = NoThread
  Hal = hal
  Callers <- OneCaller
  Readers <- TwoReaders
  Writers <- OneWriter
  RCap = 2
  MaxRx = 1
  WCap = 1
  MaxTx = 1
  MaxRetry = 0
  MaxInit = 2
  HalCloseFails = FALSE
  HalOpenFails = FALSE
  SpawnFails = TRUE
PROPERTY StopHangsOnlyByRace AsyncLeavesQueue
CHECK_DEADLOCK FALSE
