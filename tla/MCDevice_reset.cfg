SPECIFICATION Spec
CONSTANTS
    DeviceIds <- MCOrdinary
    Buses <- MCSoundBus
INVARIANTS
    ResetReturnIsTrue
CHECK_DEADLOCK FALSE
