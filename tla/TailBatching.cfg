SPECIFICATION Spec
CONSTANTS
    TotalSteps = 3
    StepsPerEpoch = 2
    NumMb = 1
    OverFireMb = 2
    RbMultiplier = 1
    MaxStale = 1
    SaveInterval = 2
    Reuse = TRUE
    NumAgents = 2
    Turns = 2
    MaxFailures = 1
    MaxRestarts = 1
INVARIANTS TypeOK AttrCacheExact WindowExact FailsForCause OutstandingBounded FinalStepSaved StalenessBounded
PROPERTIES IdleAtUpdate AbortsOnlyExcess KeepsLedger EventuallyStops
