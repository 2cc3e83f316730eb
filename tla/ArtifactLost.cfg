SPECIFICATION Spec
CONSTANTS
    Uploads = {u1, u2}
    Runs = {r1}
    Creators = {c1}
    Nothing = Nothing
    MaxRaces = 1
    MaxCrashes = 0
SYMMETRY Interchangeable
INVARIANTS
    ActiveRunKeepsSource
CHECK_DEADLOCK FALSE
