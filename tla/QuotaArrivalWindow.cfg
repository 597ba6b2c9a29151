SPECIFICATION AllSpec
CONSTANTS
  rq = rq
  at = at
  us = us
  cc = cc
  fb = fb
  q1 = q1
  None = None
  Requests = {r1}
  Limits = {rq}
  InitialOnly = {}
  Revisions = {1}
  MaxAttempts = 1
  Reports = {1}
  Windows = {1, 2}
  TTL = 2
  StaleAge = 1
  MaxTime = 3
  Boundary = 1
  Metric <- MCMetric
  Units <- MCUnits
  Maximum <- MCMaximum
  PlanLimits <- MCPlanLimits
  WindowKey <- MCWindowKey
INVARIANTS
  ArrivalWindow
CHECK_DEADLOCK FALSE
