SPECIFICATION AppSpec
CONSTANTS
    Runs = {r1, r2}
    Modes = {"benchmark", "custom_prompt", "upload"}
    Nothing = Nothing
    MaxTransientFailures = 2
    MaxFaults = 2
    MaxCommands = 1
    MaxResets = 1
    MaxStrategies = 1
    Typed = {"short", "long", "padded"}
INVARIANTS
    AppTypeOK
    RunIsOfThisWorkflow
    NoDeadScreen
    RepairsFollowBaseline
    ResultsAreFinal
    WaitingScreenWaits
PROPERTIES
    RefreshKeepsPlace
VIEW Live
CONSTRAINT AnyTwo
CHECK_DEADLOCK FALSE
