SPECIFICATION FairOSpec
CONSTANTS
    Thread = {1, 2, 3}
    Priority = {1, 2}
    default_priority = 1
    Slice = 2
    MaxThreads = 3
    waiter = 2
INVARIANT OneSliceAhead
PROPERTIES NeverRefunded PeersTakeTurns
