SPECIFICATION StoresSpec
CONSTANTS
    KeyOwner = {"a", "b"}
    KeyId = {"k1", "k2"}
    MaxVersions = 2
    MaxKeys = 2
    MaxObjects = 2
    MaxRoots = 1
    MaxMaterial = 3
    MaxInDoubt = 2
    PackageId = {"p", "q"}
    Signer = {"s", "t"}
    Content = {"x"}
    MaxGeneration = 2
    PackageCapacity = 2
    GenerationCapacity = 2
    Key = {"u", "v", "w"}
    PrincipalCapacity = 2
    MaxPrincipal = 3
    Tenant = {1, 2}
    RootEntry = {1}
    ObjectSlot = {1, 2, 3}
    PerPrincipal = 2
    Name = {"x"}
    MaxPath = 2
    Node = {1, 2, 3, 4}
    User = {"u", "v"}
    ObjectPath = {"p"}
    ObjectId = {1}
    MaxEntries = 2
    MaxObjectGeneration = 3
    MaxAttempt = 3
    MaxSequence = 3
    Tags = {1, 2}
    MaxTime = 4
    Uniform = 1
    Window = 1
    IterationLock = 2
    BackoffAfter = 1
    InitialBackoff = 1
    MaxBackoff = 3
    Thresholds = {2, 3}
    DefaultThreshold = 3
    MaxCounted = 3
    MaxRestarts = 1
    Alphabet = {1, 2, 3}
    Longest = 3
    Shortest = 1
    Separation = 3
INVARIANTS
    KeysAreKept
    RegistriesAreKept
    HandlesAreConfined
    NamesAreRecoverable
    UnlockIsDeniable
PROPERTY
    DestructionIsDeliberate
CHECK_DEADLOCK FALSE
