SPECIFICATION SimulatorsSpec
CONSTANTS
  Size = 8
  MaxFlight = 4
  PCs = 3
  Programs <- Uninterrupted
  Word = 8
  INTERLEAVE = 5
  RetireWidth = 3
  Ahead = 26
  TickEvery = 5
  Align = 2
  MaxChunk = 4
  Cells = 16
  Seqs = 8
  Beside = 6
  Requests <- MCRequests
  Results = {7, 8}
INVARIANTS
  NeverAborts
  MappedInOrder
PROPERTIES
  EndsAlike
