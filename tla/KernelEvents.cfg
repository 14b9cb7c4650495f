SPECIFICATION ESpec
CONSTANTS
    Thread = {1, 2, 3}
    pager = 2
    Paged = {11, 12}
    Sealed = {13}
    Backing = {"backed_shared", "backed_private"}
    Calls = TRUE
    Source = {1, 2, 3}
    Driver = {1, 2, 3}
    Authority <- MCAuthority
    Late = {1, 2}
    Eager = {1, 2}
    MaxSources = 2
    Ceiling = 2
    MaxAssertions = 4
CHECK_DEADLOCK FALSE
INVARIANTS
    QuestionsAreKept LinesAreHonest
PROPERTIES
    FaultIsAnswered LineComesBack
