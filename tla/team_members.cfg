SPECIFICATION Spec
CONSTANTS
  ld = ld
  ta = ta
  tb = tb
  Agents = {ld, ta}
  Lead = ld
  User = user
  Founders = {ld}
  Added = {ta}
  Spawned = {ta}
  Removable = {ta}
  MaxLoops = 2
  Budgets <- Members
CHECK_DEADLOCK FALSE
INVARIANT LiveHasLoop
