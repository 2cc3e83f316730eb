SPECIFICATION Spec
CONSTANTS
    Handlers = {h1}
    Workers = {w1, w2}
    Nothing = Nothing
    MaxStrategies = 1
    MaxBatches = 1
    MaxOverlaps = 0
    MaxCrashes = 0
SYMMETRY Interchangeable
PROPERTIES
    CancelIsFinal
CHECK_DEADLOCK FALSE
