SPECIFICATION Spec
CONSTANTS
    A = A
    P = P
    Objective = {A, P}
    BuildPrompt = P
    Clarified = Clarified
    NoTask = NoTask
    Messages <- MCMessages
    Goals = 1
    MaxRounds = 2
    MaxTurns = 2
    Defect = {d}
    NoDefect = NoDefect
    MaxSteps = 3
    MonitorEvery = 2
    NoProgressLimit = 1
    MaxSameRepair = 2
    MaxTotalRepair = 2
    KeptResults = 2
INVARIANT FreshPlanAwaitsBuild
CHECK_DEADLOCK FALSE
