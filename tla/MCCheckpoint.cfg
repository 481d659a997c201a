SPECIFICATION Spec
CONSTANTS
  Word <- MCWord
  Basis = 1
  Mix <- MCMix
  Values = {1, 2}
  Tag = 1
  Low = 0
  High = 2
  Length = 2
  Capacity = 3
  MaxUpsets = 2
  Lost = Lost
INVARIANTS TypeOK CheckpointLostOnlyByUpset ReportIsTruthful
PROPERTY NeverLies
