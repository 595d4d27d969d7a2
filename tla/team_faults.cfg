SPECIFICATION Spec
CONSTANTS
  ld = ld
  ta = ta
  tb = tb
  Agents = {ld, ta}
  Lead = ld
  User = user
  Founders = {ld, ta}
  Added = {}
  Spawned = {}
  Removable = {}
  MaxLoops = 1
  Budgets <- Faults
CHECK_DEADLOCK FALSE
INVARIANTS RowsInHand RepeatsAreExcused RunningIsReleased
PROPERTY MailboxSpec
