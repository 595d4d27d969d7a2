SPECIFICATION FairSpec
CONSTANTS
  o1 = o1
  o2 = o2
  once = once
  hourly = hourly
  None = None
  Jobs = {job}
  Convs = {ca}
  Ops = {o1, o2}
  OneShot = {once}
  Repeating = {hourly}
  MaxRetries = 1
  Budgets <- Pairs
CHECK_DEADLOCK FALSE
INVARIANTS BusyIsBacked EnabledIsArmed
PROPERTY RemovedIsForgotten
