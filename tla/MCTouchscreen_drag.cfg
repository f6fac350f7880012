SPECIFICATION LiveSpec
CONSTANTS
    Places <- MCPlaces
    MaxContacts = 2
    FINGER_LIFT_DELAY = 1
    DRAG_START_DELAY = 1
    RIGHT_CLICK_TIME = 3
    DOUBLE_CLICK_TIME = 2
    MULTITOUCH_TIMEOUT = 2
    OrderedTimers = TRUE
INVARIANTS
    DragNeedsFinger
PROPERTIES
    PointerIsReleased
CHECK_DEADLOCK FALSE
