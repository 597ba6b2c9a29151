SPECIFICATION Spec
CONSTANTS
    x1 = x1
    x2 = x2
    y1 = y1
    y2 = y2
    z1 = z1
    z2 = z2
    h1 = h1
    w1 = w1
    k1 = k1
    m1 = m1
    nil = nil
SYMMETRY Symmetry
INVARIANTS
    SignInIsEarned
    EntryIsOnce
PROPERTIES
    DecidedForGood
CHECK_DEADLOCK FALSE
