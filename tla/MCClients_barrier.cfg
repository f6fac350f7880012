SPECIFICATION LiveSpec
CONSTANTS
    c1 = c1
    c2 = c2
    c3 = c3
    Clients <- MCClients3
    MaxEntries = 2
    Refusals = TRUE
INVARIANTS
    TypeOK
    NoLostWakeup
    OpenedIsListed
PROPERTIES
    BarrierHolds
    StopDrains
CHECK_DEADLOCK FALSE
