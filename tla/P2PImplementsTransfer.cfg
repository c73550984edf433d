SPECIFICATION NormalSpec
CONSTANTS
    FileSize = 5
    Threads = 3
    Servers = 2
    Block = 2
    Radix = 2
    MaxRuns = 2
    MaxFailures = 0
PROPERTIES ImplementsTransfer
CHECK_DEADLOCK FALSE
