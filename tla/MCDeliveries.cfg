SPECIFICATION DeliveriesSpec
CONSTANTS
    MaxDispatches = 2
    JobTimeout = 1
    Extension = 1
    MaxTime = 5
    Events = {"cancel", "drain"}
    Publishers = {p1, p2}
    CursorSubs = {c1, c2}
    LeaseSubs = {l1, l2}
    Rosters = {{c1, c2}, {c1, l1}, {l1, l2}}
    Leavers = {c1, l1}
    MaxMsgs = 2
INVARIANTS DecidedOnce FencedMeansDecided NothingSkipped CompactedOnlyIfDone
SYMMETRY Symmetric
CHECK_DEADLOCK FALSE
