CONSTANTS
    MaxDrifts = 1
    MaxTampers = 2
    MaxFaults = 1
    MaxEvents = 3
SPECIFICATION Spec
INVARIANTS Inv CommittedIsTested GroupGoneBeforeRemoval
PROPERTY RetryCompletes
CHECK_DEADLOCK FALSE
