CONSTANTS
    MaxPid = 3
    Roles <- MCRoles
    Expected <- MCExpected
    Addresses = {"a", "b"}
    MaxInodes = 2
    MaxReuses = 1
SPECIFICATION Spec
INVARIANTS Inv
PROPERTIES ReadyWasTrue CleanupEnds
CHECK_DEADLOCK FALSE
