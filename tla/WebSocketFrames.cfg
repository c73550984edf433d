SPECIFICATION Spec
CONSTANTS
    Buffer = 20
    Medium = 5
    Base = 8
    Digest = 2
    ReqLens = {10, 22}
    KeyEnd = 8
    OpLens = {3, 5, 14}
    MsgLens = {4, 5, 24, 63}
    MaxFrames = 2
    MaxOut = 3
INVARIANTS FirstOfRecvUnderstood ClosedOnlyWhenAsked DiesOnlyOverCut NothingLeftBehind OnlyShortReadBack
CHECK_DEADLOCK FALSE
