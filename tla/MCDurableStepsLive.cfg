SPECIFICATION FairSpec
CONSTANTS
    Owners = {w1}
    NoOne = NoOne
    Codes <- LoopCode
    Nap = 1
    MaxSteps = 2
    MaxRetries = 4
    EpochFenced = TRUE
    MaxDispatches = 7
    Events = {"crash", "purge", "again", "overlap"}
    MaxEvents = 2
CHECK_DEADLOCK FALSE
INVARIANT CommittedNotRerun
PROPERTY Completes
