SPECIFICATION Spec
CONSTANTS
    l1 = l1
    l2 = l2
    l3 = l3
    i1 = i1
    i2 = i2
    i3 = i3
    None = None
    Launches <- MCLaunches
    Inodes <- MCInodes
    Files <- MCFiles
SYMMETRY MCSymmetry
INVARIANTS TypeOK LockExclusive PidFileNamesServerUncleaned
CHECK_DEADLOCK FALSE
