----------------- MODULE VoodooI2CTouchscreenHIDEventDriver -----------------
(***************************************************************************)
(* How a touchscreen becomes a pointer: the frames that forwardReport gets *)
(* and the three timers it arms (fingerLift, dragStart, resetScroll), all  *)
(* run one at a time by the driver's work loop.                            *)
(*                                                                         *)
(* Time passes in ticks of 50ms.  A time stamp is kept as its age, which   *)
(* stops counting where no comparison can tell the difference any more.    *)
(* A place on the screen is a pair of coordinates, scaled and turned with  *)
(* the display.                                                            *)
(* External: the pointer, which takes what is dispatched, the fingers and  *)
(* the stylus, and the multitouch interface.                               *)
(***************************************************************************)
EXTENDS Integers, Sequences

CONSTANTS
    Places,                          \* bound: where the screen is touched
    MaxContacts,                               \* bound: contacts in a frame
    FINGER_LIFT_DELAY, DRAG_START_DELAY,       \* in ticks, as in the header
    RIGHT_CLICK_TIME, DOUBLE_CLICK_TIME, MULTITOUCH_TIMEOUT,
    OrderedTimers    \* whether timers due in one tick fire in deadline order

Origin == [x |-> 0, y |-> 0]

ASSUME PlacesAssumption ==
    /\ Places \subseteq [x : Nat, y : Nat]
    /\ \A p \in Places : p.x < 65536 /\ p.y < 65536
ASSUME OriginAssumption == Origin \in Places
ASSUME TimesAssumption ==
    /\ FINGER_LIFT_DELAY \in Nat \ {0} /\ DRAG_START_DELAY \in Nat \ {0}
    /\ RIGHT_CLICK_TIME \in Nat /\ DOUBLE_CLICK_TIME \in Nat
    /\ MULTITOUCH_TIMEOUT \in Nat
ASSUME BoundsAssumption == MaxContacts \in Nat /\ OrderedTimers \in BOOLEAN

VARIABLES
    phase,           \* "init", "started", "failed" or "stopped"
    timers,          \* the timer event sources that exist
    lift, drag, scroll,      \* ticks until each fires; Off when not armed
    is_finger_down, is_right_clicking, moved_during_right_click,
    is_dragging, drag_start_requested, is_scrolling,
    last, last_click, touch_start,                    \* coordinates
    multitouch_age, touch_age, click_age,             \* of the three times
    pointer,         \* the button held, and by what
    dispatched,      \* the events the last step dispatched
    quiet            \* the screen is not touched any more

timer_vars == <<lift, drag, scroll>>
touch_vars == <<is_finger_down, is_right_clicking, moved_during_right_click,
                is_dragging, drag_start_requested>>
place_vars == <<last, last_click, touch_start>>
age_vars   == <<multitouch_age, touch_age, click_age>>
out_vars   == <<pointer, dispatched>>
vars == <<phase, timers, timer_vars, touch_vars, is_scrolling, place_vars,
          age_vars, out_vars, quiet>>

Off     == -1
Buttons == {"HOVER", "LEFT_CLICK", "RIGHT_CLICK", "ERASE"}
Timers  == {"lift", "drag", "scroll"}

FAT_FINGER_ZONE == 2250000   \* 1500^2

Distance(a, b) == IF a < b THEN b - a ELSE a - b

\* d * d as high * 2^16 + low, for d in 0..65535.
Square(d) ==
    LET a == d \div 256
        b == d % 256
        middle == 512 * a * b + b * b
    IN [high |-> a * a + middle \div 65536, low |-> middle % 65536]

\* dx * dx + dy * dy.
SquareSum(p, q) ==
    LET dx  == Square(Distance(p.x, q.x))
        dy  == Square(Distance(p.y, q.y))
        low == dx.low + dy.low
    IN [high |-> dx.high + dy.high + low \div 65536, low |-> low % 65536]

\* Its lower 32 bits.
SquaredDistance(p, q) ==
    LET sum == SquareSum(p, q) IN [high |-> sum.high % 65536, low |-> sum.low]

\* Mutant: the edge of the zone belongs to it.
isCloseTo_Inclusive(p, q) ==
    LET square == SquaredDistance(p, q) IN
    \/ square.high >= 32768
    \/ square.high * 65536 + square.low <= FAT_FINGER_ZONE

\* An SInt32 with its upper bit set is negative.
isCloseTo(p, q) ==
    LET square == SquaredDistance(p, q) IN
    \/ square.high >= 32768
    \/ square.high * 65536 + square.low < FAT_FINGER_ZONE

Init ==
    /\ phase = "init" /\ timers = {}
    /\ lift = Off /\ drag = Off /\ scroll = Off
    /\ is_finger_down = FALSE /\ is_right_clicking = FALSE
    /\ moved_during_right_click = FALSE
    /\ is_dragging = FALSE /\ drag_start_requested = FALSE
    /\ is_scrolling = FALSE
    /\ last = Origin /\ last_click = Origin /\ touch_start = Origin
    /\ multitouch_age = MULTITOUCH_TIMEOUT
    /\ touch_age = 0 /\ click_age = DOUBLE_CLICK_TIME + 1
    /\ pointer = [button |-> "HOVER", by |-> "finger"]
    /\ dispatched = <<>> /\ quiet = FALSE

-----------------------------------------------------------------------------
(* Helpers                                                                 *)

\* The events of one step, in order; the pointer is left with the last one.
Dispatch(by, buttons) ==
    /\ dispatched' = [i \in DOMAIN buttons |-> [button |-> buttons[i], by |-> by]]
    /\ pointer' = IF buttons = <<>> THEN pointer
                  ELSE [button |-> buttons[Len(buttons)], by |-> by]

resetTouch ==
    /\ is_finger_down' = FALSE /\ is_right_clicking' = FALSE
    /\ moved_during_right_click' = FALSE
    /\ is_dragging' = FALSE /\ drag_start_requested' = FALSE

\* A frame comes in while the screen is touched and the driver runs.
Frame == phase = "started" /\ ~quiet /\ UNCHANGED <<phase, timers, quiet>>

-----------------------------------------------------------------------------
(* forwardReport with one contact: checkFingerTouch and checkStylus        *)

\* Too soon after the last multitouch frame, or without a finger that touches:
\* the frame goes to the multitouch interface and nothing else happens.
TooSoon == multitouch_age < MULTITOUCH_TIMEOUT

\* Where the pointer is put: a touch near the last click repeats its place.
Snapped(p) ==
    IF isCloseTo(p, last_click) /\ click_age <= DOUBLE_CLICK_TIME
    THEN last_click ELSE p

\* The end of checkFingerTouch: what is held follows is_dragging.
finger_interaction == IF is_dragging THEN "LEFT_CLICK" ELSE "HOVER"

\* Mutant: the delay is taken in another unit.
scheduleClick_WrongUnit == lift' = 10 * FINGER_LIFT_DELAY

scheduleClick == lift' = FINGER_LIFT_DELAY

scheduleDragStart == drag' = DRAG_START_DELAY

TouchBegins(p) ==
    /\ Frame /\ ~TooSoon /\ ~is_finger_down
    /\ is_finger_down' = TRUE
    /\ touch_age' = 0 /\ touch_start' = Snapped(p) /\ last' = Snapped(p)
    /\ Dispatch("finger", <<finger_interaction>>)
    /\ scheduleClick
    /\ UNCHANGED <<drag, scroll, is_right_clicking, moved_during_right_click,
                   is_dragging, drag_start_requested, is_scrolling, last_click,
                   multitouch_age, click_age>>

TouchDrags(p) ==
    /\ Frame /\ ~TooSoon /\ is_finger_down /\ is_dragging
    /\ last' = Snapped(p)
    /\ Dispatch("finger", <<finger_interaction>>)
    /\ scheduleClick
    /\ UNCHANGED <<drag, scroll, touch_vars, is_scrolling, last_click,
                   touch_start, age_vars>>

\* A finger that stays near where it touched becomes a right click; until then,
\* one that moves away asks for a drag.
TouchHolds(p) ==
    LET near   == isCloseTo(Snapped(p), touch_start)
        starts == ~is_right_clicking /\ near /\ touch_age >= RIGHT_CLICK_TIME
        right  == is_right_clicking \/ starts
        drags  == ~right /\ ~drag_start_requested /\ ~near
    IN
    /\ Frame /\ ~TooSoon /\ is_finger_down /\ ~is_dragging
    /\ is_right_clicking' = right
    /\ moved_during_right_click' = (moved_during_right_click \/ (right /\ ~near))
    /\ drag_start_requested' = (drag_start_requested \/ drags)
    /\ IF drags THEN scheduleDragStart ELSE UNCHANGED drag
    /\ last' = IF right /\ near THEN touch_start ELSE Snapped(p)
    /\ Dispatch("finger", IF starts THEN <<"RIGHT_CLICK", "HOVER", "HOVER">>
                          ELSE <<"HOVER">>)
    /\ scheduleClick
    /\ UNCHANGED <<scroll, is_finger_down, is_dragging, is_scrolling, last_click,
                   touch_start, age_vars>>

\* A stylus in range is looked for first, and whatever a finger began is left as
\* it is.
checkStylus(button) ==
    /\ Frame
    /\ Dispatch("stylus", <<button>>)
    /\ UNCHANGED <<timer_vars, touch_vars, is_scrolling, place_vars, age_vars>>

-----------------------------------------------------------------------------
(* forwardReport with more contacts                                        *)

\* Mutant: only the click is cancelled, a drag that was asked for is not.
Cancelled_LiftOnly == lift' = Off /\ UNCHANGED drag

Cancelled == lift' = Off /\ drag' = Off

\* The pointer is taken along when a scroll begins.
scrollPosition(p) ==
    /\ Dispatch("finger", <<"HOVER">>)
    /\ last' = p /\ is_scrolling' = TRUE

scheduleScrollEnd == scroll' = FINGER_LIFT_DELAY

Multitouch(contacts, p) ==
    /\ Frame /\ contacts >= 2
    /\ Cancelled /\ resetTouch
    /\ multitouch_age' = 0
    /\ IF contacts = 2 /\ ~is_scrolling THEN scrollPosition(p)
       ELSE Dispatch("finger", <<>>) /\ UNCHANGED <<last, is_scrolling>>
    /\ IF contacts = 2 THEN scheduleScrollEnd ELSE UNCHANGED scroll
    /\ UNCHANGED <<last_click, touch_start, touch_age, click_age>>

-----------------------------------------------------------------------------
(* The timers                                                              *)

Due(t) == t = 0

\* The drag timer is armed before the lift timer in the same call, for as long.
LiftMayFire == Due(lift) /\ (OrderedTimers => ~Due(drag))

\* Mutant: the flags of the touch survive it.
fingerLift_KeepsTouch ==
    /\ LiftMayFire /\ lift' = Off
    /\ Dispatch("finger", <<"LEFT_CLICK", "HOVER">>)
    /\ last_click' = last /\ click_age' = 0
    /\ is_scrolling' = FALSE
    /\ UNCHANGED <<phase, timers, drag, scroll, touch_vars, last, touch_start,
                   multitouch_age, touch_age, quiet>>

\* Mutant: a drag is ended without releasing the pointer.
fingerLift_NoRelease ==
    /\ LiftMayFire /\ lift' = Off
    /\ Dispatch("finger", IF is_dragging THEN <<>> ELSE <<"LEFT_CLICK", "HOVER">>)
    /\ last_click' = last /\ click_age' = 0
    /\ resetTouch /\ is_scrolling' = FALSE
    /\ UNCHANGED <<phase, timers, drag, scroll, last, touch_start,
                   multitouch_age, touch_age, quiet>>

\* Ends the touch: a click unless it was a drag or a right click, and the release.
fingerLift ==
    LET clicks == ~is_dragging /\ (is_right_clicking => moved_during_right_click)
    IN
    /\ LiftMayFire /\ lift' = Off
    /\ Dispatch("finger", IF clicks THEN <<"LEFT_CLICK", "HOVER">> ELSE <<"HOVER">>)
    /\ last_click' = last /\ click_age' = 0
    /\ resetTouch /\ is_scrolling' = FALSE
    /\ UNCHANGED <<phase, timers, drag, scroll, last, touch_start,
                   multitouch_age, touch_age, quiet>>

dragStart ==
    /\ Due(drag) /\ drag' = Off
    /\ Dispatch("finger", <<"LEFT_CLICK">>)
    /\ is_dragging' = TRUE
    /\ UNCHANGED <<phase, timers, lift, scroll, is_finger_down, is_right_clicking,
                   moved_during_right_click, drag_start_requested, is_scrolling,
                   place_vars, age_vars, quiet>>

resetScroll ==
    /\ Due(scroll) /\ scroll' = Off
    /\ is_scrolling' = FALSE
    /\ Dispatch("finger", <<>>)
    /\ UNCHANGED <<phase, timers, lift, drag, touch_vars, place_vars, age_vars,
                   quiet>>

\* 50ms pass; a timer that is due is served first.
Tick ==
    LET Down(t) == IF t = Off THEN Off ELSE t - 1
        Up(age, cap) == IF age < cap THEN age + 1 ELSE age
    IN
    /\ ~Due(lift) /\ ~Due(drag) /\ ~Due(scroll)
    /\ lift' = Down(lift) /\ drag' = Down(drag) /\ scroll' = Down(scroll)
    /\ multitouch_age' = Up(multitouch_age, MULTITOUCH_TIMEOUT)
    /\ touch_age' = Up(touch_age, RIGHT_CLICK_TIME)
    /\ click_age' = Up(click_age, DOUBLE_CLICK_TIME + 1)
    /\ Dispatch("finger", <<>>)
    /\ UNCHANGED <<phase, timers, touch_vars, is_scrolling, place_vars, quiet>>

-----------------------------------------------------------------------------
(* handleStart and handleStop                                              *)

\* The timers are created in turn; what exists when one fails stays behind.
handleStart ==
    /\ phase = "init"
    /\ \/ timers' = Timers /\ phase' = "started"
       \/ timers' \in {{}, {"lift"}, {"lift", "drag"}} /\ phase' = "failed"
    /\ UNCHANGED <<timer_vars, touch_vars, is_scrolling, place_vars, age_vars,
                   out_vars, quiet>>

handleStop ==
    /\ phase = "started"
    /\ phase' = "stopped"
    /\ timers' = timers \ {"lift"} /\ lift' = Off
    /\ UNCHANGED <<drag, scroll, touch_vars, is_scrolling, place_vars, age_vars,
                   out_vars, quiet>>

\* The last finger and the stylus leave for good.
Quiet ==
    /\ ~quiet /\ quiet' = TRUE
    /\ UNCHANGED <<phase, timers, timer_vars, touch_vars, is_scrolling,
                   place_vars, age_vars, out_vars>>

-----------------------------------------------------------------------------

checkFingerTouch(p) == TouchBegins(p) \/ TouchDrags(p) \/ TouchHolds(p)

forwardReport ==
    \/ \E p \in Places : checkFingerTouch(p)
    \/ \E button \in Buttons : checkStylus(button)
    \/ \E contacts \in 2..MaxContacts, p \in Places : Multitouch(contacts, p)

TimerFires == fingerLift \/ dragStart \/ resetScroll

Next ==
    forwardReport \/ TimerFires \/ Tick \/ handleStart \/ handleStop \/ Quiet

Spec == Init /\ [][Next]_vars

\* Time goes on and a timer that is due fires; nobody has to touch the screen.
Fairness == WF_vars(Tick) /\ WF_vars(TimerFires)

LiveSpec == Spec /\ Fairness

-----------------------------------------------------------------------------
(* Properties                                                              *)

\* Every variable keeps to its type.
TypeOK ==
    /\ phase \in {"init", "started", "failed", "stopped"}
    /\ timers \subseteq Timers
    /\ lift \in Off..FINGER_LIFT_DELAY /\ drag \in Off..DRAG_START_DELAY
    /\ scroll \in Off..FINGER_LIFT_DELAY
    /\ is_finger_down \in BOOLEAN /\ is_right_clicking \in BOOLEAN
    /\ moved_during_right_click \in BOOLEAN
    /\ is_dragging \in BOOLEAN /\ drag_start_requested \in BOOLEAN
    /\ is_scrolling \in BOOLEAN
    /\ last \in Places /\ last_click \in Places /\ touch_start \in Places
    /\ multitouch_age \in 0..MULTITOUCH_TIMEOUT
    /\ touch_age \in 0..RIGHT_CLICK_TIME
    /\ click_age \in 0..(DOUBLE_CLICK_TIME + 1)
    /\ pointer \in [button : Buttons, by : {"finger", "stylus"}]
    /\ Len(dispatched) <= 3 /\ quiet \in BOOLEAN

\* While a finger counts as down, or a scroll as going on, the timer that ends it
\* runs: no touch is forgotten, however frames and timers interleave.
Watched ==
    phase = "started" =>
        /\ is_finger_down => lift # Off
        /\ is_scrolling => scroll # Off \/ lift # Off

Pressed(by) == pointer.by = by /\ pointer.button # "HOVER"

\* No finger clicks or presses within the timeout after a multitouch frame.
NoPhantomClick ==
    \A i \in DOMAIN dispatched :
        dispatched[i].by = "finger" /\ dispatched[i].button # "HOVER"
            => multitouch_age >= MULTITOUCH_TIMEOUT

\* A drag goes on only while its finger counts as down, if timers keep order.
DragNeedsFinger ==
    OrderedTimers /\ phase = "started" => (is_dragging => is_finger_down)

\* A press that a finger holds is taken back once the screen is left alone.
PointerIsReleased ==
    (quiet /\ phase = "started" /\ Pressed("finger"))
        ~> (~Pressed("finger") \/ phase = "stopped")

\* The zone as it is meant; farther than 2^15 apart is outside.
InZone(p, q) ==
    LET dx == Distance(p.x, q.x)
        dy == Distance(p.y, q.y)
    IN dx < 32768 /\ dy < 32768 /\ dx * dx + dy * dy < FAT_FINGER_ZONE

\* The square of the distance does not fit an SInt32.
Overflows(p, q) == SquareSum(p, q).high >= 32768

\* A finger that is down and has neither asked for a drag nor moved during its
\* right click.
Still ==
    is_finger_down /\ ~is_dragging /\ ~drag_start_requested /\ ~moved_during_right_click

\* A still finger is within fat finger distance of where it touched, or the square
\* of the distance has overflowed (checkFingerTouch, isCloseTo).
StillIsNear ==
    Still => InZone(last, touch_start) \/ Overflows(last, touch_start)

-----------------------------------------------------------------------------
(* What a comment of the code says and the code does not keep              *)

\* "Check if the first set of coordinates is within fat finger distance of the
\* second set" (VoodooI2CTouchscreenHIDEventDriver.cpp:13): a still finger is within
\* that distance of where it touched, wherever on the screen that is.
StillMeansInZone == Still => InZone(last, touch_start)
=============================================================================
