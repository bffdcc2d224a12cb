\* The smallest pool in which a heartbeat is overtaken by a result.
SPECIFICATION PoolSpec
CHECK_DEADLOCK FALSE
CONSTANTS
    Conns = {1, 2}
    ExecIds = {"e"}
    Slots = 1
    PoolJobs = {"a"}
    MaxHand = 1
    PoolModes = {{"beat"}}
INVARIANT FreeIsExact
