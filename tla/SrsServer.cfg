SPECIFICATION FairSpec
CONSTANTS
    c1 = c1
    c2 = c2
    c3 = c3
    None = None
    Conns <- MCConns
    MaxConnections = 2
    StackLimits = {4, 5}
    Backlog = 2
INVARIANTS TypeOK ManagerExact StartNotDangling StacksSuffice
PROPERTIES NoAdmitAfterClose QueueDrains DestroyEnds ImplementsPool
CHECK_DEADLOCK FALSE
