SPECIFICATION Spec
CONSTANTS
  Options <- MCOptions
  MaxTokens = 3
  MaxRuns = 2
  MaxFaults = 1
INVARIANTS
  IInv
  LastUsableKept
  PushedIsTrue
PROPERTY NoLostUpdate
CHECK_DEADLOCK FALSE
