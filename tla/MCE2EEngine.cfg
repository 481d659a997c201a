CONSTANTS
  Count = 3
  StopCapacity = 2
  Choice <- MCChoice
  Former = 1
  FormerWords <- MCFormerWords
  Codes = {0, 1, 3, 4, 6, 99}
SPECIFICATION Spec
INVARIANT CampaignIsTheImages
INVARIANT SessionIsSound
INVARIANT TableIsTheCampaign
PROPERTY IsACampaign
PROPERTY E2EEnds
CHECK_DEADLOCK FALSE
