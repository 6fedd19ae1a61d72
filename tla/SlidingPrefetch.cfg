SPECIFICATION Spec
CONSTANTS
    TotalSteps = 4
    StepsPerEpoch = 2
    MaxStale = 1
    SaveInterval = 1
    NumMb = 2
    RbMultiplier = 2
    EpochLen = 4
    Orders = {TRUE, FALSE}
    Sources = {"plain", "resumable"}
    MaxFailures = 1
    MaxRestarts = 1
INVARIANTS TypeOK OrderedTraining GroupsWhole EachPromptOnce StalenessBounded FailsForCause NothingLeft
PROPERTY EventuallyStops
