SPECIFICATION AllSpec
CONSTANTS
    rq = rq
    at = at
    us = us
    cc = cc
    fb = fb
    q1 = q1
    None = None
    Requests = {x1, x2}
    Limits = {rq, at, us, cc, fb}
    InitialOnly = {}
    Revisions = {1}
    MaxAttempts = 2
    Reports = {0, 2}
    Windows = {1}
    TTL = 2
    StaleAge = 1
    MaxTime = 2
    Boundary = 3
    Metric <- MCMetric
    Units <- MCUnits
    Maximum <- MCMaximum
    PlanLimits <- MCPlanLimits
    WindowKey <- MCWindowKey
SYMMETRY Symmetry
INVARIANTS
    TypeOK
    NoOverspend
    LedgerExact
    LaterCallsAccepted
    WalkIsExact
    
PROPERTIES
    ClosedIsFinal
CHECK_DEADLOCK FALSE
