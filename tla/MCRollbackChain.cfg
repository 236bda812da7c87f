SPECIFICATION Spec
CONSTANTS
    Files = {"cfg", "dns", "unit", "page"}
    Pages = {"page"}
    DnsFile = "dns"
    Cells = {"domain", "path"}
    Vals = {"0", "1", "2", "3", "dns", "mine"}
    Absent = "absent"
    DnsVal = "dns"
    StateFile = "state"
    Rank <- MCRank
    Plans <- MCPlans
    Starts <- MCStarts
    EditPaths = {"cfg", "dns", "unit", "page", "domain", "path"}
    EditVals = {"mine", "absent"}
    MaxEdits = 1
    MaxFaults = 1
INVARIANT Inv
PROPERTY RefusedOnlyAfterEdits
PROPERTY KeepsSavePoints
CHECK_DEADLOCK FALSE
