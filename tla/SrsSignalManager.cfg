SPECIFICATION FairSpec
CONSTANTS
    PipeCap = 2
    MaxSignals = 3
INVARIANTS TypeOK CaughtInOrder EndRequested
PROPERTIES RequestEnds HupReported
CHECK_DEADLOCK FALSE
