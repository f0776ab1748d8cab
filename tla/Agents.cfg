SPECIFICATION MCSpec
CONSTANTS
    f1 = f1
    Files = {f1}
    Edits = {"rotate"}
    ReusesInodes = FALSE
    LosesState = FALSE
    MaxLines = 2
    MaxIncs = 2
    MaxFaults = 1
    MaxAttempts = 2
    Builds <- MCBuilds
    Launchers = {"svc", "hand"}
    MaxDeploys = 2
    MaxHands = 1
    MaxUpdateMishaps = 1
    Paths <- MCPaths
    Blank = {2}
    Long = {3}
    LinesPerRead = 2
    MaxPathLines <- MCPathLines
    MaxContents <- MCContents
    MaxLegacyMishaps = 1
INVARIANTS VisibleIsFile OneRunner PositionNeverAhead
PROPERTIES EventuallyShown ServedRuns FilesFollowed
