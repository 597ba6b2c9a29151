SPECIFICATION AllSpec
CONSTANTS
    x1 = x1
    x2 = x2
    y1 = y1
    y2 = y2
    u1 = u1
    u2 = u2
    o1 = o1
    o2 = o2
    t1 = t1
    s1 = s1
    s2 = s2
    i1 = i1
    i2 = i2
    b1 = b1
    b2 = b2
    NoRow = NoRow
    Orgs = {o1, o2}
    Users = {u1, u2}
    Founders = {u1, u2}
    Calls = {x1, x2}
    Sessions = {y1, y2}
    Tokens = {}
    Operations <- OwningOps
    Overlap = TRUE
    MaxPassword = 1
    Nobody = NoRow
SYMMETRY AllSymmetry
INVARIANTS
    AccountsHold
    
PROPERTIES
    SwitchKeepsOne
CHECK_DEADLOCK FALSE
