SPECIFICATION Spec
CONSTANTS
  ld = ld
  ta = ta
  tb = tb
  Agents = {ld, ta, tb}
  Lead = ld
  User = user
  Founders = {ld, ta, tb}
  Added = {}
  Spawned = {}
  Removable = {}
  MaxLoops = 1
  Budgets <- Calm
CHECK_DEADLOCK FALSE
SYMMETRY Teammates
INVARIANTS LeaderNotForgotten WorkingIsBacked NoStrandedMail
