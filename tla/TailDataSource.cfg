SPECIFICATION Spec
CONSTANTS
    EpochLen = 4
    NumMb = 2
    OverFireMb = 3
    MaxStep = 7
    MaxRestarts = 2
INVARIANTS TypeOK StreamExact NothingLost
