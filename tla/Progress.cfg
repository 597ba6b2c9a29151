SPECIFICATION AllSpec
CONSTANTS
    x1 = x1
    x2 = x2
    Admin = Admin
    k1 = k1
    k2 = k2
    k3 = k3
    us = us
    fb = fb
    Requests = {x1, x2}
    Limits = {us, fb}
    InitialOnly = {us}
    Revisions = {1}
    MaxAttempts = 2
    Reports = {1}
    Windows = {1}
    TTL = 1
    StaleAge = 1
    MaxTime = 1
    Metric <- SomeMetric
    Units <- SomeUnits
    Maximum <- SomeMaximum
    PlanLimits <- SomePlan
    WindowKey <- OneWindow
PROPERTIES
    EverythingEnds
CHECK_DEADLOCK FALSE
