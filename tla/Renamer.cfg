SPECIFICATION FairSpec
CONSTANTS
  NLog = 2
  NPhys = 4
  NBranches = 2
  NActive = 2
  DispatchWidth = 2
  UopKinds <- MapKinds
VIEW LiveView
INVARIANTS
  RegistersConserved
  RenameMapPrecise
  CheckpointsPrecise
  BranchMasksPrecise
  PipeMatchesActiveList
  NoFatalExit
  SourcesPrecise
PROPERTIES
  ImplementsRegisterMapping
  CheckpointsReleased
  HeadRetires
