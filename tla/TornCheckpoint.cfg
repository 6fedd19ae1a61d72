SPECIFICATION Spec
CONSTANTS
    TotalSteps = 2
    StepsPerEpoch = 2
    NumMb = 1
    OverFireMb = 2
    RbMultiplier = 1
    MaxStale = 0
    SaveInterval = 1
    Reuse = TRUE
    NumAgents = 1
    Turns = 1
    MaxFailures = 0
    MaxRestarts = 1
PROPERTY RestartFindsSnapshot
