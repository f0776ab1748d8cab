SPECIFICATION MCSpec
CONSTANTS
    main = main
    Files = {main}
    Chat = main
    Scopes = {"sidebar"}
    Appenders = {}
    Externals = {main}
    FilesLimit = 1
    MaxRows = 2
    MaxOpen = 1
    MaxDrops = 1
    MaxFaults = 1
    MaxMishaps = 1
PROPERTY SidebarCatchesUp
