SPECIFICATION FairSpec
CONSTANTS
    FileSize = 4
    Threads = 2
    Servers = 1
    Block = 2
    Radix = 2
    MaxRuns = 2
    MaxFailures = 1
INVARIANTS PartsArePrefixes DoneMeansWhole RateNeverOverstates RateExactInStart NobodyWaitsInVain
PROPERTIES ContinueKeepsDisk Completes
CHECK_DEADLOCK FALSE
