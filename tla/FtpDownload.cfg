SPECIFICATION FairSpec
CONSTANTS
    FileSize = 3
    Threads = 2
    Block = 2
    AnswerLens = {2}
    MaxRuns = 2
    MaxFailures = 1
    MaxMeetings = 1
INVARIANTS PartsFit PartsArePrefixes ProgressExact DoneMeansWhole
PROPERTIES KeepsDisk ImplementsTransfer Completes
CHECK_DEADLOCK FALSE
