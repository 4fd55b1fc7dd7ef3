SPECIFICATION Spec
CONSTANTS
    c1 = c1
    c2 = c2
    c3 = c3
    None = None
    Conns <- MCConns
    MaxConnections = 3
    StackLimits = {4}
    Backlog = 2
INVARIANT ManagedHasThread
CHECK_DEADLOCK FALSE
