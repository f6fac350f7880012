SPECIFICATION Spec
CONSTANTS
    UsbDevices <- MCUsb
    BluetoothDevices <- MCBluetooth
    Pointers <- MCCounted
    Listens <- MCListens
INVARIANTS
    TypeOK
    HandlersAreSafe
    IgnoredForAReason
    CountedAreThere
PROPERTIES
    GoneIsNoticed
CHECK_DEADLOCK FALSE
