SPECIFICATION Spec
CONSTANTS
  LQSize = 2
  SQSize = 2
  Window = 3
  Bytes = 2
  Sizes <- Size12
  Values = {v1, v2}
  SpecDisambig = TRUE
  OracleDisambig = FALSE
  Ops <- AllOps
VIEW LiveView
SYMMETRY ValueSymmetry
INVARIANTS
  LoadsPrecise
  QueuesMatchWindow
PROPERTIES
  CommitsReadMemory
