SPECIFICATION FairSpec
CONSTANTS
  a = a
  b = b
  null = null
  p1 = p1
  p2 = p2
  c1 = c1
  c2 = c2
  NoThread = NoThread
  Default = null
  Elements <- MCElements
  Producers <- MCProducers
  Consumers <- MCConsumers
  Cap = 2
INVARIANT TypeOK FlagTracksEvents NoLostWakeup
PROPERTY ImplementsFifo TakenEventually
