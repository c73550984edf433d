SPECIFICATION Spec
CONSTANTS
    FileSize = 3
    Threads = 2
    Block = 2
    MaxRuns = 2
    MaxFailures = 1
INVARIANTS PartsArePrefixes ShownNeverOverstates DoneMeansWhole WaitsOnlyForBytes
PROPERTIES ImplementsTransfer
CHECK_DEADLOCK FALSE
