SPECIFICATION ContentionSpec
CONSTANTS
    Owners = {o1, o2}
    NoOne = NoOne
    Ttl = 2
    MaxSkew = 1
    MaxTime = 5
    UniqueMax = 5
    Callers = {c1, c2}
    NoJob = NoJob
    MaxAttempts = 3
    LineMax = 4
    AutoRetriers = {a1, a2}
    Operators = {h1}
    AutoMax = 2
    Firers = {s1, s2}
    Crons = {1, 2}
    MaxNow = 3
    CapJobs = {"first", "second", "other"}
    Dispatchers = {d1, d2}
    ScopesOf <- JobScopes
    Limit <- ScopeLimits
    MaxInFlight = 2
    BatchSize = 2
    MaxTaken = 1
    Unread = Unread
CHECK_DEADLOCK FALSE
INVARIANTS
    MutualExclusion
    AnswersAreTrue
    OneLife
    LimitsHold
PROPERTIES
    FreedAfterCrash
    NoSlotSkipped
