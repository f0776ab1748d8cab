SPECIFICATION MCSpec
CONSTANTS
    main = main
    other = other
    Files = {main}
    Chat = main
    Scopes = {"chat"}
    Appenders = {main}
    Externals = {}
    FilesLimit = 1
    MaxRows = 1
    MaxOpen = 1
    MaxDrops = 1
    MaxFaults = 0
    MaxMishaps = 1
    Chats = {main, other}
    Start <- MCStart
    Initial = 2
    Page = 1
    WindowMax = 3
    FullMax = 2
    MaxTurns = 1
INVARIANTS RestsCaughtUp ChosenStaysOpen WindowWhole
PROPERTIES ReconnectRepairs OpenChatFollows
