SPECIFICATION MCSpec
CONSTANTS
    a = a
    junk = junk
    Events <- MCEvents
    Bodies <- MCBodies
    Batch = 1
    MaxRevs = 2
    MaxFills = 1
    MaxFaults = 2
    PartContents = {a, junk}
    Audio = {a}
    Concurrency = 1
    ResumeLimit = 1
    FillLimit = 1
    Parts <- MCParts
    MaxUploads = 2
    MaxJobs = 2
    MaxImportMishaps = 1
    Panels = {"p", "q"}
    MaxRecords = 1
    MaxChunks = 1
    MaxOutboxMishaps = 1
    Browsers = {"p", "q"}
    Writers = {"p"}
    FlushLimit = 1
    MaxEdits = 1
    MaxOpens = 2
    Scenes <- MCScenes
    MaxDraftMishaps = 1
INVARIANTS RowsReflectEvent Playable NothingLost KeptUntilStored
PROPERTIES ServerOnlyGrows EveryJobEnds FinishedIsTried EditsReachServer
CHECK_DEADLOCK FALSE
