SPECIFICATION FairSpec
CONSTANTS
    f1 = f1
    Files = {f1}
    Edits = {"delete"}
    ReusesInodes = FALSE
    LosesState = FALSE
    MaxLines = 1
    MaxIncs = 2
    MaxFaults = 0
    MaxAttempts = 2
PROPERTIES
    EventuallyShown
