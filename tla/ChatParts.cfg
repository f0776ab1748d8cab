SPECIFICATION FairSpec
CONSTANTS
    Chats = {"a", "b"}
    Past <- MCLongPast
    Parts = 2
    TailDefault = 4
    HistoryPage = 1
    MaxRevs = 0
    MaxMoves = 3
    MaxPages = 0
    MaxFaults = 0
PROPERTY TailShown
CHECK_DEADLOCK FALSE
