SPECIFICATION Spec
CONSTANTS
    LogMax = 3
    Files <- MCFiles
    MaxPart = 2
    MaxClients = 1
    Descriptors = 9
INVARIANTS TypeOK LogFileCurrent ClientsKept OneLogFile LineFits
PROPERTY LinesReachLog
