CONSTANTS
  AllOnes = 2100000395
  MaxIteration = 6300
  TechniqueIterations = 2100
SPECIFICATION ImagesSpec
INVARIANT ProtectedRunIsSafe
INVARIANT EachFaultHasItsAnswer
INVARIANT FaultsComeThrough
INVARIANT CampaignsMeetTheirFaults
INVARIANT RowTellsTheTruth
CHECK_DEADLOCK FALSE
