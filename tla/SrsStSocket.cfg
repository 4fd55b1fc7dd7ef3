SPECIFICATION FairSpec
CONSTANTS
    Sizes = {0, 1, 3}
    SendBuffer = 2
    MaxBytes = 3
    MaxCalls = 3
INVARIANTS TypeOK StatisticsExact EndTold
PROPERTY CallEnds
CHECK_DEADLOCK FALSE
