SPECIFICATION Spec
CONSTANTS
    Handlers = {h1}
    Workers = {w1, w2}
    Nothing = Nothing
    MaxStrategies = 1
    MaxBatches = 1
    MaxOverlaps = 0
    MaxCrashes = 0
SYMMETRY Interchangeable
INVARIANTS
    CancelledLeavesNothing
CHECK_DEADLOCK FALSE
