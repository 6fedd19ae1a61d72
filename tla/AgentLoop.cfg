SPECIFICATION Spec
CONSTANTS
    TotalSteps = 2
    SaveInterval = 3
    NumMb = 3
    NumAgents = 2
    Ranks = {k1, k2}
    Rms = {rm1, rm2}
    Configs <- Config
    MaxFailures = 1
INVARIANTS TypeOK MemoryExclusive UsesAwakeEngines NoRewardOutlives BatchComplete
PROPERTY EndsRight
CHECK_DEADLOCK FALSE
