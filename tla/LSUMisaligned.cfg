SPECIFICATION Spec
CONSTANTS
  LQSize = 2
  SQSize = 2
  Window = 2
  Bytes = 4
  Sizes <- Size2
  Values <- TwoValues
  SpecDisambig = TRUE
  OracleDisambig = FALSE
  Ops <- PlainOps
PROPERTIES
  MisalignedLoadsTrap
