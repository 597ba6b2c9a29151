SPECIFICATION AllSpec
CONSTANTS
    x1 = x1
    x2 = x2
    x3 = x3
    k1 = k1
    k2 = k2
    k3 = k3
    None = None
    Plans <- SomePlans
    Conditions <- Kinds
    Bound = 2
    MaxLogical = 4
INVARIANTS
    EveryTripAccounted
    TransportsAreFaithful
    ExplainedAsServed
PROPERTIES
    NothingReplayed
    LatestOutcomeCounts
CHECK_DEADLOCK FALSE
