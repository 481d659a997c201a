CONSTANTS
  Work = 2
  Fallback = 4
  Bounds = {0, 3}
  Budgets = {0, 8, 9, 16}
  MaxSteps = 20
  MaxDiversions = 2
SPECIFICATION PluginSpec
INVARIANT RecordIsTheTrials
PROPERTY BudgetEndsTheTrial
CHECK_DEADLOCK FALSE
