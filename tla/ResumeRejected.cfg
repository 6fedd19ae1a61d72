SPECIFICATION Spec
CONSTANTS
    TotalSteps = 3
    StepsPerEpoch = 1
    MaxStale = 1
    SaveInterval = 1
    NumMb = 2
    RbMultiplier = 1
    EpochLen = 3
    Orders = {TRUE}
    Sources = {"resumable"}
    MaxFailures = 0
    MaxRestarts = 1
PROPERTY ResumeAccepted
