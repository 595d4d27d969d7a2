SPECIFICATION FairSpec
CONSTANTS
  c1 = c1
  c2 = c2
  Calls = {c1, c2}
  MaxRounds = 2
  MaxSlots = 2
  Budgets <- Mixed
CHECK_DEADLOCK FALSE
INVARIANTS RunningIsBacked ClaimIsHeld RelayIsOwed DeleteTearsDown
PROPERTY TurnIsReleased
