SPECIFICATION FairSpec
CONSTANTS
  t1 = t1
  Size = 3
  NumParts = 3
  NLanes = 2
  NBranches = 1
  Tags <- MCTags
  Incoming <- AllIncoming
VIEW LiveView
INVARIANTS
  AgeListConsistent
  FreeListConsistent
PROPERTIES
  ScanComplete
  SquashComplete
  ImplementsAgeQueue
  ReadyLeaves
