SPECIFICATION LiveSpec
CONSTANTS
  Workers = {w1, w2}
  Types = {periodic}
  Schedules = {}
  TypeCount = 1
  MaxTime = 1
  Tries = 2
  retried = retried
  daily = daily
  DayLength = 2
  MaxCost = 2
  DailyLimit = 3
  Nobody = Nobody
  Interval <- MCInterval
  MaxTries <- MCMaxTries
INVARIANTS
  ClaimsAreExclusive
  TriesLeft
PROPERTIES
  ConcludedIsFinal
  EventuallyConcluded
CHECK_DEADLOCK FALSE
