SPECIFICATION Spec
CONSTANTS
    MaxConns = 2
    MaxMessages = 3
PROPERTIES StopPausesOwn
CHECK_DEADLOCK FALSE
