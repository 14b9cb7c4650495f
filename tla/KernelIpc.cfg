SPECIFICATION FairSpec
CONSTANTS
    ThreadId = {1, 2, 3}
    Priority = {1}
    MaxThreads = 3
    Server = {1, 2}
    Mortal = {}
    Retirable = FALSE
    Bounded = {TRUE, FALSE}
    MaxEndpoints = 2
    MaxGeneration = 1
INVARIANT CallsAreWhole
PROPERTIES ImplementsCallProtocol CallsAreCompleted
CHECK_DEADLOCK FALSE
