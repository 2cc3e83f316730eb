SPECIFICATION Spec
CONSTANTS
    Handlers = {h1, h2}
    Workers = {w1, w2}
    Nothing = Nothing
    MaxStrategies = 1
    MaxBatches = 1
    MaxOverlaps = 1
    MaxCrashes = 0
SYMMETRY Interchangeable
INVARIANTS
    StartedOnce
CHECK_DEADLOCK FALSE
