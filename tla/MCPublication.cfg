SPECIFICATION Spec
CONSTANTS
    Keys = {"webDomain", "subURI"}
    Inbounds = {"n", "v"}
    Hosts = {1, 2, 3}
    Names = {"name"}
    Certs = {"cert"}
    Paths = {"/old", "/new"}
    Values <- MCValues
    Blank = ""
    Absent = "absent"
    Plans <- MCPlans
    Starts <- MCStarts
    PanelWrites <- MCPanelWrites
    Resaves <- MCResaves
    MaxEdits = 2
INVARIANT Inv
INVARIANT RestoredExactly
PROPERTY RefusedOnlyAfterEdits
PROPERTY UndoKeepsPanelWrites
