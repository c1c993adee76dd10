SPECIFICATION ReservationSpec
CONSTANTS
  LQSize = 2
  SQSize = 2
  Window = 3
  Bytes = 2
  Sizes <- Size1
  Values <- OneValue
  SpecDisambig = TRUE
  OracleDisambig = FALSE
  Ops <- AtomicOps
PROPERTIES
  StoreConditionalsSucceed
