SPECIFICATION LiveSpec
CONSTANTS
    DeviceIds <- MCDeviceIds
    Buses <- MCBuses
INVARIANTS
    TypeOK
    AckNotLost
    AwakeMeansListening
    NoIOAfterRelease
    PanicOnlyInTeardown
    AckedResetIsReal
    PowerAgreement
PROPERTIES
    PowerChangeCompletes
    InputIsDelivered
CHECK_DEADLOCK FALSE
