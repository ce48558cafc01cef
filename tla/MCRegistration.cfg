SPECIFICATION FairSpec
CONSTANTS
  ra = ra
  rb = rb
  Refs = {ra, rb}
  Limit <- TwoOrOne
  Holders = {1, 2}
  HealthySets <- OneNode
  NoRef = NoRef
  Count = 2
  Workers = 2
  MaxConsecutive = 1
  AbortOnFailure = FALSE
  CleanUp = TRUE
  Faults <- AllFaults
INVARIANTS IInv EveryAttemptCounted NothingUnrecorded KnownAccountKeepsMailbox
PROPERTIES ManifestNeverGoesBack BatchEnds
CHECK_DEADLOCK FALSE
