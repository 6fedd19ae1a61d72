SPECIFICATION Spec
CONSTANTS
    EpochLen = 3
    NumMb = 2
    OverFireMb = 3
    MaxStep = 4
    MaxRestarts = 1
INVARIANT EpochsAdvance
