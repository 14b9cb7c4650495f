SPECIFICATION KSpec
CONSTANTS
    ThreadId = {1, 2, 3}
    Priority = {1, 2}
    MaxThreads = 3
    Server = {1, 2}
    Mortal = {1, 3}
    Retirable = TRUE
    Bounded = {FALSE}
    MaxEndpoints = 1
    MaxGeneration = 2
INVARIANTS
    TablesAgree
    CallerPriorityIsLent
CHECK_DEADLOCK FALSE
