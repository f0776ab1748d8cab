SPECIFICATION LinkFairSpec
CONSTANTS
    c = c
    d = d
    Clients = {c}
    MaxDrops = 1
    MaxStops = 0
    MaxLinkFaults = 0
PROPERTY WatchdogReconnects
CHECK_DEADLOCK FALSE
