SPECIFICATION Spec
CONSTANTS
  Options <- MCOptions
  MaxTokens = 1
  MaxRuns = 1
  MaxFaults = 0
INVARIANT StatisticsInvariant
CHECK_DEADLOCK FALSE
