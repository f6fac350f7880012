SPECIFICATION LiveSpec
CONSTANTS
    c1 = c1
    c2 = c2
    c3 = c3
    Clients <- MCClients2
    MaxEntries = 1
    Refusals = FALSE
PROPERTIES
    StopReachesRelease
CHECK_DEADLOCK FALSE
