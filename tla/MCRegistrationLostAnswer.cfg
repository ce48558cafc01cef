SPECIFICATION Spec
CONSTANTS
  ra = ra
  rb = rb
  Refs = {ra, rb}
  Limit <- TwoOrOne
  Holders = {1}
  HealthySets <- OnlyRa
  NoRef = NoRef
  Count = 1
  Workers = 1
  MaxConsecutive = 1
  AbortOnFailure = FALSE
  CleanUp = TRUE
  Faults = {"answer"}
INVARIANTS DeletedHasNoAccount
CHECK_DEADLOCK FALSE
