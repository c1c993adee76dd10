SPECIFICATION FairSpec
CONSTANTS
  FetchWidth = 1
  DispatchWidth = 2
  FQSize = 3
  Registers = 3
  Checkpoints = 2
  ALSize = 2
  IQSize = 2
  LQSize = 2
  SQSize = 2
  Kinds <- MCKinds
VIEW RelativeView
INVARIANTS
  ProgramOrder
  NoOverrun
PROPERTIES
  KeepsMoving
