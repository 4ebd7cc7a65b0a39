SPECIFICATION Spec
CONSTANTS
  app = app
  app2 = app2
  r1 = r1
  r2 = r2
  w1 = w1
  w2 = w2
  hal = hal
  NoThread = NoThread
  Hal = hal
  Callers <- OneCaller
  Readers <- TwoReaders
  Writers <- TwoWriters
  RCap = 2
  MaxRx = 2
  WCap = 1
  MaxTx = 0
  MaxRetry = 0
  MaxInit = 3
  HalCloseFails = TRUE
  HalOpenFails = TRUE
  SpawnFails = FALSE
INVARIANT TypeOK DeliveredInOrder LifecycleAgrees
PROPERTY ImplementsLibrary
SYMMETRY MCSymmetry
CHECK_DEADLOCK FALSE
