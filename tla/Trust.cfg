SPECIFICATION AllSpec
CONSTANTS
    x1 = x1
    x2 = x2
    y1 = y1
    y2 = y2
    b1 = b1
    b2 = b2
    b3 = b3
    p1 = p1
    None = None
    Callers = {x1, x2}
    Admin = Admin
    Grace = 1
    Lifetime = 2
    AccessLifetime = 1
    MaxTokens = 3
    MaxTime = 2
SYMMETRY AllSymmetry
INVARIANTS
    RefreshIsSafe
    EvidenceIsEarned
PROPERTIES
    Implements
    KeysFollowProvider
CHECK_DEADLOCK FALSE
