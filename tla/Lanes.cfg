SPECIFICATION FairSpec
CONSTANTS
  a = a
  p1 = p1
  p2 = p2
  p3 = p3
  p4 = p4
  Log <- LogRegs
  Phys <- PhysRegs
  Depth <- Depths
  Serves <- Operations
  Window = 3
  RetireWidth = 2
  Kinds <- AllKinds
INVARIANTS
  TagsPrecise
  ReadsWritten
  CommittedReady
  LanesFreeFlowing
PROPERTIES
  KeepsRetiring
