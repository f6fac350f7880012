SPECIFICATION PrecisionSpec
CONSTANTS
    Descriptors <- MCDescriptors
    MaxTouching = 2
    InputModeReports <- MCInputModeReports
    MaxLost = 1
INVARIANTS
    TouchpadMode
PROPERTIES
    ImplementsFrames
CHECK_DEADLOCK FALSE
