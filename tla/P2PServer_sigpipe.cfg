SPECIFICATION Spec
CONSTANTS
    FileSize = 3
    Block = 2
    MaxFds = 4
    Requests = 1
INVARIANTS FailedSendIsHandled
CHECK_DEADLOCK FALSE
