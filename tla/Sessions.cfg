SPECIFICATION AllSpec
CONSTANTS
    x1 = x1
    x2 = x2
    p1 = p1
    p2 = p2
    q1 = q1
    None = None
    Callers = {x1, x2}
    TrustLevels = {2}
    ChallengeTTL = 1
    AccessLifetime = 1
    RefreshLifetime = 2
    AttestationLifetime = 2
    DelegationLifetime = 3
    Retention = 0
    MaxChallenges = 1
    MaxSessions = 2
    MaxKeys = 1
    MaxRevision = 2
    MaxEra = 1
    MaxTime = 1
SYMMETRY AllSymmetry
INVARIANTS
    SessionsAreExclusive
    CredentialsHold
    OperationsReachEverything
PROPERTIES
    DecidedAsItStands
CHECK_DEADLOCK FALSE
