SPECIFICATION FairSpec
CONSTANTS
    Ids = {"co", "t0"}
    Inittab <- MCInittab
    States = {1, 2}
    Copies = 5
    MaxRequests = 3
    MaxFailures = 1
INVARIANTS Tracked TableOfState
PROPERTIES ActsOnChange Respawned
CHECK_DEADLOCK FALSE
