SPECIFICATION AlternateSpec
CONSTANTS
  Modulus = 700
  Factor = 37
  Offset = 17
  Base = 100
  WordSize = 32768
  Samples <- MCSamples
INVARIANT OperationsAgree
CHECK_DEADLOCK FALSE
