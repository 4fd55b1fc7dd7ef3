SPECIFICATION FairSpec
CONSTANTS
    l1 = l1
    c1 = c1
    c2 = c2
    Threads <- MCThreads
    Joinable <- MCJoinable
    FirstId = 1
    MaxInt = 3
PROPERTY StartReturns
CHECK_DEADLOCK FALSE
