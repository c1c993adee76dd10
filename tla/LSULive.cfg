SPECIFICATION FairSpec
CONSTANTS
  LQSize = 2
  SQSize = 1
  Window = 2
  Bytes = 2
  Sizes <- Size12
  Values <- OneValue
  SpecDisambig = FALSE
  OracleDisambig = TRUE
  Ops <- StallOps
PROPERTIES
  LoadsLeave
