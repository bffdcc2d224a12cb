SPECIFICATION GatesSpec
CONSTANTS
    Callers = {c1, c2}
    Threshold = 2
    Window = 1
    Cooldown = 2
    MaxProbes = 2
    RateNum = 1
    RateDen = 2
    MaxRunning = 3
    DebounceIds = {1, 2}
    Options <- DebounceOptions
    Ceiling = 3
    MaxLag = 1
    Backoff = 2
    MaxPending = 2
    DbSchedulers = 2
    DepCount = 3
    MaxCascades = 1
    Retention = TRUE
CHECK_DEADLOCK FALSE
INVARIANTS
    SamplesPending
    NeverPutOffPastCeiling
    CallServedLater
    RunsAfterDependencies
    StrandedOnlyByFault
PROPERTIES
    TripStandsAlone
    NothingHeldForGood
