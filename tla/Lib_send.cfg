SPECIFICATION Spec
CONSTANTS
  app = app
  app2 = app2
  r1 = r1
  r2 = r2
  w1 = w1
  w2 = w2
  hal = hal
  NoThread = NoThread
  Hal = hal
  Callers <- TwoCallers
  Readers <- TwoReaders
  Writers <- TwoWriters
  RCap = 1
  MaxRx = 0
  WCap = 2
  MaxTx = 2
  MaxRetry = 1
  MaxInit = 3
  HalCloseFails = FALSE
  HalOpenFails = FALSE
  SpawnFails = TRUE
INVARIANT WrittenInOrder
PROPERTY SendKeepsBus
SYMMETRY MCSymmetry
CHECK_DEADLOCK FALSE
