SPECIFICATION MCSpec
CONSTANTS
    Chats = {"a", "b"}
    Past <- MCPast
    Parts = 1
    TailDefault = 2
    HistoryPage = 2
    MaxRevs = 1
    MaxMoves = 2
    MaxPages = 1
    MaxFaults = 1
    Tabs = {"t", "u"}
    MaxLogs = 2
    QueueMax = 1
    MemoryMax = 1
    Batch = 2
    ServerBatch = 2
    MaxMishaps = 2
    LastRow = 5
    Tools = {3, 4}
    LongRows = {2}
    Height <- MCHeight
    Estimate = 2
    Unfolded = 2
    Label = 1
    Screen = 3
    Overscan = 1
    Edge = 2
    OlderPage = 1
    OpenedWith <- MCOpenedWith
    SavedHeights <- MCSavedHeights
    MaxGestures = 2
INVARIANTS ShowsWhatIsOpen ScreenCovered
PROPERTIES StaysPut TailShown LogsArrive
CHECK_DEADLOCK FALSE
