SPECIFICATION Spec
CONSTANTS
    Files = {"cfg", "page", "unit", "state"}
    Dirs = {"www", "site"}
    Above <- MCAbove
    Generated = {"cfg", "page"}
    Removals = {"unit"}
    DirTargets = {"site"}
    StateFile = "state"
    Vals <- MCVals
    Links = {"link"}
    Odd = "odd"
    Digest <- MCDigest
    New <- MCNew
    Installed <- MCInstalled
    DirMode = "old"
    Starts <- MCStarts
    Rank <- MCRank
    MaxEdits = 1
    Absent = "absent"
    None = "none"
INVARIANT TypeOK
INVARIANT Restored
INVARIANT Outcome
PROPERTY Terminates
PROPERTY ForeignEditsKept
