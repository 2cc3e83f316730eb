SPECIFICATION Spec
CONSTANTS
    Handlers = {h1, h2}
    Workers = {w1, w2}
    Nothing = Nothing
    MaxStrategies = 1
    MaxBatches = 2
    MaxOverlaps = 1
    MaxCrashes = 0
SYMMETRY Interchangeable
INVARIANTS
    CompletedHasReport
    RunningIsOwned
PROPERTIES
    NeverRequeued
CHECK_DEADLOCK FALSE
VIEW Live
