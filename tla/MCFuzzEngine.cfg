CONSTANTS
  Records <- MCRecords
  MaxLocations = 1
  Offered = {"none", "insn-skip"}
  Trials = 2
SPECIFICATION Spec
INVARIANT ResultIsTheChilds
INVARIANT CampaignAgrees
INVARIANT VerdictIsSound
INVARIANT RowTellsTheVerdict
PROPERTY RefinesTrialAndCampaign
PROPERTY CampaignEnds
CHECK_DEADLOCK FALSE
