SPECIFICATION Spec
CONSTANTS
  s1 = s1
  s2 = s2
  l1 = l1
  l2 = l2
  None = None
  Patrol = Patrol
  Settlements = {s1, s2}
  Losers = {l1, l2}
  CostOf <- Costs
  LoserCost <- LoserCosts
  Total <- Totals
  MaxAttempts = 2
INVARIANTS
  GapsAreListed
\* Every writer has ended and the row is final.
CHECK_DEADLOCK FALSE
