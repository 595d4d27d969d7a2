SPECIFICATION FairSpec
CONSTANTS
  ld = ld
  ta = ta
  tb = tb
  Agents = {ld, ta}
  Lead = ld
  User = user
  Founders = {ld, ta}
  Added = {}
  Spawned = {}
  Removable = {}
  MaxLoops = 1
  Budgets <- CrashOnce
CHECK_DEADLOCK FALSE
PROPERTY MailDrained
