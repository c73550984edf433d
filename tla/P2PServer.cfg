SPECIFICATION FairSpec
CONSTANTS
    FileSize = 3
    Block = 2
    MaxFds = 3
    Requests = 2
INVARIANTS SendsWhatIsAsked DescriptorsCount DiesOnlyBecause
PROPERTIES ServesWhoStays
CHECK_DEADLOCK FALSE
