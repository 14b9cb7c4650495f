SPECIFICATION Spec
CONSTANTS
    Holder <- MCHolder
    Object = {11}
    Right = {"r"}
    MaxCapabilities = 3
    MaxDepth = 2
    MaxId = 5
INVARIANTS
    DerivationIsSound
    SweepReachesEveryDescendant
PROPERTY
    StaleIdsStayDead
