SPECIFICATION HostSpec
CONSTANTS
  D1 = D1
  N1 = "N1"
  N2 = "N2"
  S1 = S1
  S2 = S2
  NoName = "empty"
  Devices <- MCDevices
  Names <- MCNames
  Setters <- MCSetters
  MaxEvents = 2
  MaxTold = 2
CONSTRAINT OneAtATime
SYMMETRY MCSymmetry
INVARIANTS
  HostTypeOK
  PowerAgrees
  ViewAgrees
  NameWhole
