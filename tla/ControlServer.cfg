SPECIFICATION FairSpec
CONSTANTS
    MaxConns = 2
    MaxMessages = 2
INVARIANTS EventsAreArrivals PidsOfEarlier SoleDownloaderStopsNewest StaysWatched GivesUpOnlyAfterStart
PROPERTIES MessagesReceived EndedAreWaitedFor
CHECK_DEADLOCK FALSE
