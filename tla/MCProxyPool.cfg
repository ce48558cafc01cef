SPECIFICATION Spec
CONSTANTS
  p1 = p1  p2 = p2
  t1 = t1  t2 = t2  t3 = t3
  ra = ra  rb = rb  rc = rc
  Refs = {ra, rb, rc}
  Rank <- RankValue
  Limit <- LimitValue
  Procs = {p1, p2}
  Threads = {t1, t2, t3}
  ProcOf <- ProcValue
  HealthySets <- SomeNodes
  Persistent = TRUE
  NoRef = NoRef
  NoThread = NoThread
INVARIANTS RotationInv WithinLimit
PROPERTIES PoolKeepsPromise TurnsFollow
