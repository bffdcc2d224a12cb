SPECIFICATION Spec
CONSTANTS
    Owners = {w1, w2}
    NoOne = NoOne
    Codes <- AllVersions
    Nap = 1
    MaxSteps = 3
    MaxRetries = 1
    EpochFenced = FALSE
    MaxDispatches = 2
    Events = {"purge", "requeue", "overlap", "again", "crash"}
    MaxEvents = 2
SYMMETRY Symmetry
CHECK_DEADLOCK FALSE
INVARIANT
    NoEarlyWake
PROPERTY
    OneHistory
