SPECIFICATION MCSpec
CONSTANTS
    f1 = f1
    Files = {f1}
    Edits = {"rotate", "rewrite", "delete"}
    ReusesInodes = TRUE
    LosesState = TRUE
    MaxLines = 2
    MaxIncs = 2
    MaxFaults = 1
    MaxAttempts = 2
    m1 = m1
    m2 = m2
    Sources = {m1, m2}
    Old = {1}
    OldChats = {1}
    PageSize = 2
    MetaPage = 1
    MaxBatches = 2
    Windows = {1}
    MaxRev = 2
    MaxMeta = 3
    MaxSettings = 2
    MaxFeedMishaps = 1
    Bytes = {"x", "n"}
    MaxSize = 5
    MaxChanges = 6
    ReadMax = 4
    MaxBytes = 3
    MaxRecords = 2
    TailBytes = 2
    Cases <- MCCases
    HomeDir <- MCHomeDir
    Lines <- MCLines
    Notices <- MCNotices
    MaxLog = 3
    w1 = w1
    w2 = w2
    Clients = {w1, w2}
    MaxDrops = 2
    MaxStops = 2
    MaxLinkFaults = 1
INVARIANTS CursorNeverAhead ShellUpToCursor NoEventSkipped CacheHitIsWhole RecordsAreLines PolicyAsWritten ShownAlike OldLinesRepaired NoMessageVanishes NeverStranded AlwaysReconnects
PROPERTIES ImplementsAckedLog
SYMMETRY Symmetry
CHECK_DEADLOCK FALSE
