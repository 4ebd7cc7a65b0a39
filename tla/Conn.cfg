SPECIFICATION Spec
CONSTANTS
  a1 = a1
  a2 = a2
  reader = reader
  c1 = c1
  c2 = c2
  l1 = l1
  l2 = l2
  tuner = tuner
  tv = tv
  all = all
  Reader = reader
  NoFrame = NoFrame
  NoConn = NoConn
  NoListener = NoListener
  Idle = Idle
  Apps <- TwoApps
  Conns <- TwoConns
  Listeners <- TwoListeners
  Addresses <- MCAddresses
  Broadcast = all
  Source <- MCSource
  Moves <- OneMove
  MaxList = 2
INVARIANT TypeOK CalledIsRegistered DestroyedIsUnregistered HeardByAll
SYMMETRY MCSymmetry
CHECK_DEADLOCK FALSE
