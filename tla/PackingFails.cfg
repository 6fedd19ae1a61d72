SPECIFICATION BatchSpec
CONSTANTS
    DpSize = 2
    Local = 17
    Lengths = {7, 9, 10, 11, 12, 13, 14, 15, 16, 17, 21, 22, 23, 24, 25, 27, 28, 29, 30}
    Pad = 1
    CpSizes = {1}
    Budget = 45
INVARIANT AlignedInLockStep
