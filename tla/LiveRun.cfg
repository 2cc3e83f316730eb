SPECIFICATION FairSpec
CONSTANTS
    Runs = {r1, r2}
    Modes = {"upload"}
    Nothing = Nothing
    MaxTransientFailures = 2
    MaxFaults = 2
    MaxCommands = 1
    MaxResets = 1
INVARIANTS
    TypeOK
    ShownIsCurrent
    ReportIsFinal
    PendingIsBusy
    IdleIsExplained
    
CONSTRAINT AnyThree
PROPERTIES
    ComesToRest
CHECK_DEADLOCK FALSE
