SPECIFICATION FairSpec
CONSTANTS
    Chats = {"a", "b"}
    Past <- MCLongPast
    Parts = 1
    TailDefault = 2
    HistoryPage = 2
    MaxRevs = 0
    MaxMoves = 1
    MaxPages = 1
    MaxFaults = 0
INVARIANT FirstSeqIsOldest
CHECK_DEADLOCK FALSE
