SPECIFICATION KSpec
CONSTANTS
    ThreadId = {1, 2, 3}
    Priority = {1}
    MaxThreads = 3
    Server = {1}
    Mortal = {}
    Retirable = FALSE
    Bounded = {TRUE, FALSE}
    MaxEndpoints = 1
    MaxGeneration = 1
INVARIANT WaitingEndpointHasReceiver
CHECK_DEADLOCK FALSE
