SPECIFICATION Spec
CONSTANTS
    p1 = p1
    p2 = p2
    p3 = p3
    Sessions = {p1, p2, p3}
    Commands <- MCCommands
    Nobody = Nobody
    MaxWaits = 2
    MaxCrashes = 1
INVARIANT TypeOK
INVARIANT EntryHolds
PROPERTY LockedReadersKeepSettings
PROPERTY Progress
CHECK_DEADLOCK FALSE
