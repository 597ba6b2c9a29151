SPECIFICATION Spec
CONSTANTS
  Requests = {r1, r2}
  Revisions = {1, 2}
  MaxCapacity = 3
  MaxCredit = 3
  Scale = 5
  TickLength = 2
  Skew = 1
  MaxTime = 8
  Capacity <- MCCapacity
  Credit <- MCCredit
INVARIANTS
  RateKept
  RefreshIsExact
  TransitionNeverOverCredits
SYMMETRY Symmetry
CHECK_DEADLOCK FALSE
