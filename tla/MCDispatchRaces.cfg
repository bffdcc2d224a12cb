SPECIFICATION Spec
CONSTANTS
    Jobs = {j1}
    Owners = {w1, w2}
    None = None
    MaxRetries = 1
    MaxInFlight = 1
    LeasedPool = TRUE
    AccurateDetection = FALSE
    Faults = {"crash", "pause", "requeue", "close", "full", "claim", "unclaim", "fence", "settle", "purge", "lost", "defer", "shed", "budget"}
    MaxFaults = 2
    MaxClaims = 2
CHECK_DEADLOCK FALSE
INVARIANT
    EpochNamesOneDispatch
SYMMETRY Symmetry
