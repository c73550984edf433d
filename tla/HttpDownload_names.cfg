SPECIFICATION Spec
CONSTANTS
    FileSize = 3
    Threads = 2
    Block = 2
    MaxRuns = 1
    MaxFailures = 0
INVARIANTS PiecesHaveFilesOfTheirOwn
CHECK_DEADLOCK FALSE
