SPECIFICATION TmrSpec
CONSTANTS
  v1 = v1
  v2 = v2
  v3 = v3
  v4 = v4
  Values = {v1, v2, v3, v4}
  MaxCount = 2
SYMMETRY Symmetry
INVARIANT TmrTypeOK
PROPERTIES MasksOneFault FailureLeavesTrace
