SPECIFICATION Spec
CONSTANTS
  T1 = T1
  T2 = T2
  F1 = F1
  F2 = F2
  Threads <- MCThreads
  Functions <- MCFunctions
  Exports <- MCExports
  MaxGen = 2
SYMMETRY MCSymmetry
INVARIANTS
  TypeOK
  NoStaleCall
  MarkedIsCurrent
