SPECIFICATION Spec
CONSTANTS
    Handlers = {h1}
    Workers = {w1, w2}
    Nothing = Nothing
    MaxStrategies = 2
    MaxBatches = 1
    MaxOverlaps = 0
    MaxCrashes = 1
INVARIANTS
    TypeOK
    OneTaskAtATime
    AwaitingIsReady
    CancelStopsWork
    RepairedRunIsReclaimed
PROPERTIES
    ProgressOnlyGrows
    ImplementsVerdict
CHECK_DEADLOCK FALSE
