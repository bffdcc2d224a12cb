SPECIFICATION PoolsSpec
CONSTANTS
    MaxDispatches = 1
    JobTimeout = 1
    Extension = 1
    MaxTime = 5
    Events = {"requeue", "extend", "recordError", "claimError"}
    Conns = {1, 2}
    ExecIds = {"e", "f"}
    Slots = 1
    PoolJobs = {"a"}
    MaxHand = 2
    PoolModes = {{}, {"sleep", "lose"}, {"reap", "detach"}, {"requeue", "lose"}, {"stall", "requeue"}, {"snapshot", "drain"}, {"detach", "late"}, {"beat", "detach"}}
CHECK_DEADLOCK FALSE
INVARIANTS AnsweredOnce NothingStranded
PROPERTY EveryDispatchEnds
