SPECIFICATION AllSpec
CONSTANTS
    x1 = x1
    x2 = x2
    p1 = p1
    p2 = p2
    s1 = s1
    u1 = u1
    k1 = k1
    k2 = k2
    None = None
    Admins = {x1, x2}
    Environments = {"production"}
    Plans = {p1, p2}
    Secrets = {s1}
    Users = {}
    Documents <- SomeDocuments
    MaxRevisions = 2
    MaxEdits = 2
    MaxVersions = 1
SYMMETRY Symmetry
INVARIANTS
    ActiveIsSound
    ActivatedIsRead
    AcceptedServes
PROPERTIES
    ActivatedImmutable
CHECK_DEADLOCK FALSE
