SPECIFICATION PSpec
CONSTANTS
    Thread = {1, 2, 3}
    pager = 2
    Paged = {11, 12}
    Sealed = {13}
    Backing = {"backed_shared", "backed_private"}
    Calls = FALSE
CHECK_DEADLOCK FALSE
INVARIANT WaiterIsBlocked
