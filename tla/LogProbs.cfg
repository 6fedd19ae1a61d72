SPECIFICATION EitherSpec
CONSTANTS
    DpSize = 3
    Local = 3
    Lengths = {1, 5}
    Pad = 2
    CpSizes = {1, 2}
    Budget = 10
    Dp = 2
    Cp = 2
    Originals = {3, 9}
    NumSamples = 4
    Counts = {1, 3}
    SmartCounts = {2, 6}
    Budgets = {8, 12}
    MaxMbs = 2
    Passes = 2
INVARIANTS TypeOK EvenWork RestoredInPlace CollectivesMatch RanksMeet OwnersGetTheirs EachTokenOnce
CHECK_DEADLOCK FALSE
