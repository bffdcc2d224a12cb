SPECIFICATION FairSpec
CONSTANTS
    Jobs = {j1}
    Owners = {w1, w2}
    None = None
    MaxRetries = 1
    MaxInFlight = 1
    LeasedPool = TRUE
    AccurateDetection = TRUE
    Faults = {"crash", "defer", "shed", "claim", "close", "full", "fence", "purge", "budget"}
    MaxFaults = 3
    MaxClaims = 9
CHECK_DEADLOCK FALSE
INVARIANTS
    ExclusiveExecution
    RetriesWithinBudget
    BookAgrees
PROPERTIES
    SettlesOwnDispatch
    SlotsFreed
    SettledUnlessWedged
