CONSTANTS
  Count = 2
  MaxRuns = 2
  Capacity = 2
  TailLength = 1
SPECIFICATION Spec
INVARIANT ResultsAreOfTheLastRun
PROPERTY EveryRunReturns
CHECK_DEADLOCK FALSE
