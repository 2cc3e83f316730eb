SPECIFICATION Spec
CONSTANTS
    Uploads = {u1, u2, u3}
    Runs = {r1, r2}
    Creators = {c1, c2}
    Nothing = Nothing
    MaxRaces = 2
    MaxCrashes = 2
SYMMETRY Interchangeable
INVARIANTS
    TypeOK
    ClaimedOnce
    AvailableHasSource
    DeletedHasNoSource
    NoOrphanWithoutCrash
    SourceKeptWithoutRace
CHECK_DEADLOCK FALSE
