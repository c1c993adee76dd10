SPECIFICATION UnitsSpec
CONSTANTS
  Lines = 3
  CodeLines = 1
  Sets <- MCSets
  Assoc <- MCAssoc
  MHSRs <- MCMHSRs
  Ports <- MCPorts
  Hit <- MCHit
  Reuse <- MCReuse
  MissLatency = 1
  MemWindow = 2
  F32 <- MCF32
  F64 <- MCF64
  Int32 = 5
  Int64 = 12
  IntGuard = 3
  Numbers <- MCNumbers
  Pairs <- MCPairs
  Triples <- MCTriples
  Integers32 <- MCIntegers32
  Integers64 <- MCIntegers64
INVARIANTS
  MHSRsPrecise
  CorrectlyRounded
PROPERTIES
  RefusedAccepted
