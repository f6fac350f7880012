SPECIFICATION Spec
CONSTANTS
    Descriptors <- MCDescriptors
    MaxTouching = 2
INVARIANTS
    TypeOK
    OncePerFrame
    WholeFrame
    NoPhantom
CHECK_DEADLOCK FALSE
