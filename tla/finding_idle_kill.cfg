SPECIFICATION Spec
CONSTANTS
  c1 = c1
  c2 = c2
  Calls = {c1, c2}
  MaxRounds = 2
  MaxSlots = 2
  Budgets <- TwoSends
CHECK_DEADLOCK FALSE
PROPERTY IdleKillSparesTurns
