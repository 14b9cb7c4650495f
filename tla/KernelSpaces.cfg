SPECIFICATION KernelSpacesSpec
CONSTANTS
    ThreadId = {1, 2, 3}
    Priority = {1, 2}
    MaxThreads = 3
    Space = {0, 1}
    Pool = {1}
    Frame = {1, 2, 3, 4, 5, 6, 7, 8, 9}
    VPage = {1, 2, 3}
    MaxMaps = 4
    MaxLedger = 5
    MaxReservations = 8
    Thread = {1, 2}
    EpochSlot = {1, 2}
    GrantSlot = {1, 2}
    MaxGeneration = 2
    MaxCapabilities = 7
    MaxIssued = 2
    KernelFrame = 1
    KernelPage = 3
    BootFrames = {2, 3, 4, 5, 6}
    ProgramFrames = {5, 6}
    DonateFrame = 7
    MapFrame = 8
INVARIANTS
    NoOrphanWait
    CodeIsFixed
    FramesAreAccounted
PROPERTY
    WakesExplained
CHECK_DEADLOCK FALSE
