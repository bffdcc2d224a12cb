SPECIFICATION WorkflowsSpec
CONSTANTS
    WfCount = 2
    WfRetries <- Budget
    FaultModes = {{"crash", "refuse"}, {"cancel", "refuse"}, {"meddle"}}
    MaxKids = 3
INVARIANTS
    CompletedMeansDone
    NodesTellTheTruth
    
PROPERTIES
    NothingStartsAfterEnd
    EveryRunSettles
CHECK_DEADLOCK FALSE
