SPECIFICATION Spec
CONSTANTS
    Components = {"nginx", "haproxy", "naive", "firewall", "sidecar", "trusttunnel"}
    Plans <- MCPlans
    Starts = {{}, {"haproxy"}}
    MaxRenewals = 1
    MaxEdits = 1
    MaxFaults = 1
INVARIANT Inv
PROPERTY RenewalsKept
PROPERTY EveryRenewalServed
CHECK_DEADLOCK FALSE
