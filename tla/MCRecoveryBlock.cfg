SPECIFICATION Spec
CONSTANTS
  Word <- MCWord
  Basis = 1
  Mix <- MCMix
  Samples = {0, 1}
  Update <- MCUpdate
  Tag = 1
  Low = 1
  High = 2
  Length = 2
  Capacity = 3
  Flip <- MCFlip
  Flips <- MCFlips
  MaxUpsets = 2
INVARIANTS TypeOK AcceptedIsExpected FailureKeepsEntry AlternateStartsFresh
PROPERTY FaultsDecideOutcome
