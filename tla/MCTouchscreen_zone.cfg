SPECIFICATION Spec
CONSTANTS
    Places <- MCFarPlaces
    MaxContacts = 3
    FINGER_LIFT_DELAY = 1
    DRAG_START_DELAY = 1
    RIGHT_CLICK_TIME = 10
    DOUBLE_CLICK_TIME = 9
    MULTITOUCH_TIMEOUT = 5
    OrderedTimers = FALSE
INVARIANTS
    StillMeansInZone
CHECK_DEADLOCK FALSE
