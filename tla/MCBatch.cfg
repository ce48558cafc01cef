SPECIFICATION MCFairSpec
CONSTANTS
  t1 = t1
  t2 = t2
  None = None
  Attempts = {t1, t2}
  MaxIds = 3
  MaxCommands = 2
  MaxFaults = 1
INVARIANTS
  IInv
  NothingLost
  RecordsFollowJournal
  ImportedIsTrue
PROPERTY BegunCloseoutEnds
CHECK_DEADLOCK FALSE
