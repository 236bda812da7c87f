SPECIFICATION SyncSpec
CONSTANTS
    Targets = {"d", "r"}
    Rank <- MCRank
    Rendered <- MCRendered
    Foreign = {"mine"}
    OpenAtStart = {"d"}
    NoJob = "nobody"
    Hook = "hook"
    MaxGen = 2
    MaxTries = 2
    MaxEdits = 1
    MaxFaults = 1
INVARIANT Inv
PROPERTY RecordsWhatRuns
PROPERTY ReloadsFollowed
CHECK_DEADLOCK FALSE
