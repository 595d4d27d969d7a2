SPECIFICATION Spec
CONSTANTS
  t1 = t1
  t2 = t2
  t3 = t3
  c1 = c1
  c2 = c2
  None = None
  Tasks = {t1, t2, t3}
  Calls = {c1, c2}
  Budgets <- Mixed
SYMMETRY Symmetry
CHECK_DEADLOCK FALSE
INVARIANTS DependencyIsMutual CompletedBlocksNobody
