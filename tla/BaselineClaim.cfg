SPECIFICATION Spec
CONSTANTS
  AllOnes = 2100000395
  MaxIteration = 6300
INVARIANT FailsEveryFault
CHECK_DEADLOCK FALSE
