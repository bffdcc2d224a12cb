SPECIFICATION Spec
CONSTANTS
    Jobs = {j1}
    Owners = {w1, w2}
    None = None
    MaxRetries = 1
    MaxInFlight = 1
    LeasedPool = TRUE
    AccurateDetection = TRUE
    Faults = {"lost"}
    MaxFaults = 1
    MaxClaims = 4
CHECK_DEADLOCK FALSE
INVARIANT ExclusiveExecution
