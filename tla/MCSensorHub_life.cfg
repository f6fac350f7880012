SPECIFICATION Spec
CONSTANTS
    Layouts <- MCLayouts
    Readings <- MCReadings
    MaxLost = 1
INVARIANTS
    TypeOK
    ReportsWhenAwake
    PanicsOnly
    PictureFollows
    OppositeTilt
CHECK_DEADLOCK FALSE
