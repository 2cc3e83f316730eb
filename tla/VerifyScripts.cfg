SPECIFICATION Spec
CONSTANTS
    MaxScripts = 2
INVARIANTS
    TypeOK
    RemovedRootIsUnused
    PassedLeavesNothing
    AnsweredByItsOwn
CHECK_DEADLOCK FALSE
