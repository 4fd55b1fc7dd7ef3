SPECIFICATION Spec
CONSTANTS
    c1 = c1
    c2 = c2
    c3 = c3
    None = None
    Conns <- MCConns
    MaxConnections = 2
    StackLimits = {6}
    Backlog = 2
INVARIANT NoCrash
CHECK_DEADLOCK FALSE
