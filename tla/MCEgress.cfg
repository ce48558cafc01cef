SPECIFICATION MCSpec
CONSTANTS
  Accounts = {1, 2, 3}
  Proxies = {11, 12}
  MaxPlans = 2
  MaxApplies = 2
  MaxFaults = 1
INVARIANTS
  PlanBalanced
  OutcomeIsTrue
  FailedIsRestored
  StoppedIsReported
PROPERTY BindingsKept
CHECK_DEADLOCK FALSE
