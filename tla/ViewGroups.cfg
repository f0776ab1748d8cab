SPECIFICATION ViewSpec
CONSTANTS
    LastRow = 6
    Tools = {4, 5}
    LongRows = {3}
    Height <- MCHeight
    Estimate = 2
    Unfolded = 2
    Label = 1
    Screen = 3
    Overscan = 1
    Edge = 2
    OlderPage = 1
    OpenedWith <- MCOpenedWith
    SavedHeights <- MCSavedHeights
    MaxGestures = 2
INVARIANT GroupsStayOpen
CHECK_DEADLOCK FALSE
