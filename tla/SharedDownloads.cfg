SPECIFICATION Spec
CONSTANTS
    FileSize = 3
    Threads = 2
    Block = 2
    MaxRuns = 3
    MaxTogether = 2
INVARIANTS StartsWriteRight StartsLeaveWholeParts LoneStartDelivers
PROPERTIES ContinuesKeepDisk
CHECK_DEADLOCK FALSE
