CONSTANTS
    Requests = {r1, r2}
    Slots = 1
    Databases <- MCDatabases
    Questions <- MCQuestions
    Configurations <- MCConfigurations
    MaxFaults = 1
SPECIFICATION Spec
INVARIANTS Inv Delivered OwnEndpoint
PROPERTY EveryoneServed
CHECK_DEADLOCK FALSE
