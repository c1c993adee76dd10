SPECIFICATION Spec
CONSTANTS
  Size = 2
  MaxFlight = 1
  PCs = 3
  Programs <- AllPrograms
  Word = 8
  INTERLEAVE = 5
  RetireWidth = 3
INVARIANT
  CountsOneEach
