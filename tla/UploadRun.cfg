SPECIFICATION FairSpec
CONSTANTS
    Handlers = {h1}
    Workers = {w1, w2}
    Nothing = Nothing
    MaxStrategies = 2
    MaxBatches = 1
    MaxOverlaps = 0
    MaxCrashes = 1
INVARIANTS
    ReportCoversAttempts
    CancelStopsWork
    FinishedRunIsReclaimed
PROPERTIES
    EventuallySettles
CHECK_DEADLOCK FALSE
