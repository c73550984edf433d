SPECIFICATION Spec
CONSTANTS
    FileSize = 4
    Threads = 2
    Servers = 1
    Block = 2
    Radix = 3
    MaxRuns = 1
    MaxFailures = 0
INVARIANTS FlagMeansComplete
CHECK_DEADLOCK FALSE
