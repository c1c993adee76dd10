SPECIFICATION Spec
CONSTANTS
  InstrPerCycle = 2
  Window = 2
  InFlight = 8
  BQSize = 4
  HistoryBits = 1
  Kinds <- BranchKinds
VIEW RingView
INVARIANTS
  PayloadInOrder
  BranchQueueInOrder
  HistoryPrecise
  StopsForYoungest
  Fetch2Clean
PROPERTIES
  SerializerRetiresAlone
