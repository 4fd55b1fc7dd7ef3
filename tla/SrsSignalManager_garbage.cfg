SPECIFICATION Spec
CONSTANTS
    PipeCap = 2
    MaxSignals = 2
INVARIANT SignoGenuine
CHECK_DEADLOCK FALSE
