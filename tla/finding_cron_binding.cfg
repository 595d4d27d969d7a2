SPECIFICATION Spec
CONSTANTS
  o1 = o1
  o2 = o2
  once = once
  hourly = hourly
  None = None
  Jobs = {job}
  Convs = {ca, cb}
  Ops = {o1, o2}
  OneShot = {once}
  Repeating = {hourly}
  MaxRetries = 1
  Budgets <- Presses
CHECK_DEADLOCK FALSE
PROPERTY BindingIsStable
