SPECIFICATION Spec
CONSTANTS
    c1 = c1
    c2 = c2
    s1 = s1
    s2 = s2
    Conns <- MCConns
    Sessions <- MCSessions
    Windows = {1}
    RateLimit = 16
    MaxWire = 1
    MaxClock = 3
SYMMETRY MCSymmetry
INVARIANTS TypeOK ServerTotalExact CountedOnce RatesSane
PROPERTIES TotalsMonotone
