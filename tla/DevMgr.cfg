SPECIFICATION Spec
CONSTANTS
  NoName = "empty"
  Devices <- MCDevices
  Names <- MCNames
  Setters = {}
  MaxEvents = 2
  MaxTold = 0
  MaxQueued = 3
INVARIANTS
  TypeOK
  ClaimAgrees
  PowerReportAgrees
PROPERTIES
  DiesOnlyAtStart
CHECK_DEADLOCK FALSE
