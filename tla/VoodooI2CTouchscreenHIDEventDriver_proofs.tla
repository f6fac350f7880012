-------------- MODULE VoodooI2CTouchscreenHIDEventDriver_proofs --------------
(***************************************************************************)
(* Proofs about VoodooI2CTouchscreenHIDEventDriver for any places, delays  *)
(* and numbers of contacts.                                                *)
(***************************************************************************)
EXTENDS VoodooI2CTouchscreenHIDEventDriver, TLAPS

\* A timer is off or has at most its delay left.
TimersOK ==
    /\ lift \in Int /\ -1 <= lift /\ lift <= FINGER_LIFT_DELAY
    /\ drag \in Int /\ -1 <= drag /\ drag <= DRAG_START_DELAY
    /\ scroll \in Int /\ -1 <= scroll /\ scroll <= FINGER_LIFT_DELAY

FlagsOK ==
    /\ {is_finger_down, is_right_clicking, moved_during_right_click} \subseteq BOOLEAN
    /\ {is_dragging, drag_start_requested, is_scrolling, quiet} \subseteq BOOLEAN

PlacesOK == last \in Places /\ last_click \in Places /\ touch_start \in Places

AgesOK ==
    /\ multitouch_age \in 0..MULTITOUCH_TIMEOUT
    /\ touch_age \in 0..RIGHT_CLICK_TIME
    /\ click_age \in 0..(DOUBLE_CLICK_TIME + 1)

PhaseOK ==
    phase \in {"init", "started", "failed", "stopped"} /\ timers \subseteq Timers

\* A scroll is ended by its own timer, which nothing but its end disarms.
ScrollWatched == is_scrolling => scroll # Off

\* Until stop, the timer of a finger that is down is only disarmed with its touch.
FingerWatched == phase # "stopped" /\ is_finger_down => lift # Off

\* What is dispatched is a click at most, and leaves the pointer with a button.
OutOK ==
    /\ pointer \in [button : Buttons, by : {"finger", "stylus"}]
    /\ Len(dispatched) <= 3

\* A click or a drag is only under way when the last multitouch frame is long ago:
\* such a frame disarms both timers.
ArmedLate ==
    lift # Off \/ drag # Off => multitouch_age = MULTITOUCH_TIMEOUT

\* A drag that was asked for begins before its finger lifts.
DragFirst ==
    OrderedTimers /\ phase # "stopped" =>
        /\ drag # Off => is_finger_down /\ drag <= lift
        /\ is_dragging => is_finger_down

IInv ==
    /\ PhaseOK /\ TimersOK /\ FlagsOK /\ PlacesOK /\ AgesOK
    /\ ScrollWatched /\ FingerWatched /\ ArmedLate /\ NoPhantomClick

\* A drag starts no later than a finger lifts: the header has 50ms for both.
DelaysFit == DRAG_START_DELAY <= FINGER_LIFT_DELAY

-----------------------------------------------------------------------------

USE TimesAssumption, OriginAssumption DEF Off

LEMMA InitInv == Init => IInv
  <1> SUFFICES ASSUME Init PROVE IInv
    OBVIOUS
  <1>0. PhaseOK
    BY DEF Init, PhaseOK
  <1>1. TimersOK
    BY DEF Init, TimersOK
  <1>4. FlagsOK
    BY Zenon DEF Init, FlagsOK
  <1>2. PlacesOK /\ AgesOK
    BY DEF Init, PlacesOK, AgesOK
  <1>3. ScrollWatched /\ FingerWatched /\ ArmedLate /\ NoPhantomClick
    BY DEF Init, ScrollWatched, FingerWatched, ArmedLate, NoPhantomClick
  <1>. QED BY <1>0, <1>1, <1>2, <1>3, <1>4 DEF IInv

-----------------------------------------------------------------------------
(* Frames                                                                  *)

LEMMA SnappedPlace ==
  ASSUME PlacesOK, NEW p \in Places PROVE Snapped(p) \in Places
  BY DEF Snapped, PlacesOK

LEMMA TouchStep ==
  ASSUME IInv, NEW p \in Places, checkFingerTouch(p) PROVE IInv'
  <1> USE DEF checkFingerTouch, TouchBegins, TouchDrags, TouchHolds, Frame
  <1>1. PhaseOK'
    BY DEF IInv, PhaseOK
  <1>2. lift' = FINGER_LIFT_DELAY /\ drag' \in {drag, DRAG_START_DELAY} /\ scroll' = scroll
    BY DEF scheduleClick, scheduleDragStart
  <1>3. TimersOK'
    BY <1>2 DEF IInv, TimersOK
  <1>4. FlagsOK'
    BY DEF IInv, FlagsOK, touch_vars
  <1>5. PlacesOK'
    BY SnappedPlace DEF IInv, PlacesOK, place_vars
  <1>6. AgesOK' /\ multitouch_age' = multitouch_age
    BY DEF IInv, AgesOK, age_vars
  <1>7. multitouch_age = MULTITOUCH_TIMEOUT
    BY DEF IInv, AgesOK, TooSoon
  <1>8. ScrollWatched' /\ FingerWatched' /\ ArmedLate'
    BY <1>2, <1>6, <1>7 DEF IInv, ScrollWatched, FingerWatched, ArmedLate
  <1>9. NoPhantomClick'
    BY <1>6, <1>7 DEF NoPhantomClick
  <1>. QED BY <1>1, <1>3, <1>4, <1>5, <1>6, <1>8, <1>9 DEF IInv

LEMMA StylusStep ==
  ASSUME IInv, NEW button \in Buttons, checkStylus(button) PROVE IInv'
  <1> USE DEF checkStylus, Frame, timer_vars, touch_vars, place_vars, age_vars
  <1>1. PhaseOK' /\ TimersOK' /\ FlagsOK' /\ PlacesOK' /\ AgesOK'
    BY DEF IInv, PhaseOK, TimersOK, FlagsOK, PlacesOK, AgesOK
  <1>2. ScrollWatched' /\ FingerWatched' /\ ArmedLate'
    BY DEF IInv, ScrollWatched, FingerWatched, ArmedLate
  <1>3. NoPhantomClick'
    BY DEF Dispatch, NoPhantomClick
  <1>. QED BY <1>1, <1>2, <1>3 DEF IInv

LEMMA MultitouchStep ==
  ASSUME IInv, NEW contacts \in 2..MaxContacts, NEW p \in Places, Multitouch(contacts, p)
  PROVE  IInv'
  <1> USE DEF Multitouch, Frame, Cancelled, resetTouch, scrollPosition, scheduleScrollEnd
  <1>1. PhaseOK' /\ FlagsOK' /\ PlacesOK'
    BY DEF IInv, PhaseOK, FlagsOK, PlacesOK
  <1>2. lift' = Off /\ drag' = Off /\ scroll' \in {scroll, FINGER_LIFT_DELAY}
    OBVIOUS
  <1>3. TimersOK'
    BY <1>2 DEF IInv, TimersOK
  <1>4. AgesOK'
    BY DEF IInv, AgesOK
  <1>5. ScrollWatched'
    <2>1. FINGER_LIFT_DELAY # Off
      OBVIOUS
    <2>2. CASE contacts = 2
      BY <2>1, <2>2 DEF ScrollWatched
    <2>3. CASE contacts # 2
      BY <2>3 DEF IInv, ScrollWatched
    <2>. QED BY <2>2, <2>3
  <1>6. FingerWatched' /\ ArmedLate'
    BY <1>2 DEF FingerWatched, ArmedLate
  <1>7. NoPhantomClick'
    BY DEF Dispatch, NoPhantomClick
  <1>. QED BY <1>1, <1>3, <1>4, <1>5, <1>6, <1>7 DEF IInv

-----------------------------------------------------------------------------
(* Timers and time                                                         *)

LEMMA LiftStep == IInv /\ fingerLift => IInv'
  <1> SUFFICES ASSUME IInv, fingerLift PROVE IInv'
    OBVIOUS
  <1> USE DEF fingerLift, resetTouch
  <1>1. PhaseOK' /\ FlagsOK' /\ PlacesOK'
    BY DEF IInv, PhaseOK, FlagsOK, PlacesOK
  <1>2. TimersOK' /\ AgesOK'
    BY DEF IInv, TimersOK, AgesOK
  <1>3. multitouch_age = MULTITOUCH_TIMEOUT /\ multitouch_age' = multitouch_age
    BY DEF IInv, ArmedLate, LiftMayFire, Due
  <1>4. ScrollWatched' /\ FingerWatched' /\ ArmedLate' /\ NoPhantomClick'
    BY <1>3 DEF ScrollWatched, FingerWatched, ArmedLate, NoPhantomClick
  <1>. QED BY <1>1, <1>2, <1>4 DEF IInv

LEMMA DragStep == IInv /\ dragStart => IInv'
  <1> SUFFICES ASSUME IInv, dragStart PROVE IInv'
    OBVIOUS
  <1> USE DEF dragStart, place_vars, age_vars
  <1>1. PhaseOK' /\ FlagsOK' /\ PlacesOK'
    BY DEF IInv, PhaseOK, FlagsOK, PlacesOK
  <1>2. TimersOK' /\ AgesOK'
    BY DEF IInv, TimersOK, AgesOK
  <1>3. multitouch_age = MULTITOUCH_TIMEOUT /\ multitouch_age' = multitouch_age
    BY DEF IInv, ArmedLate, Due
  <1>4. ScrollWatched' /\ FingerWatched' /\ ArmedLate' /\ NoPhantomClick'
    BY <1>3 DEF IInv, ScrollWatched, FingerWatched, ArmedLate, NoPhantomClick
  <1>. QED BY <1>1, <1>2, <1>4 DEF IInv

LEMMA ScrollStep == IInv /\ resetScroll => IInv'
  <1> SUFFICES ASSUME IInv, resetScroll PROVE IInv'
    OBVIOUS
  <1> USE DEF resetScroll, touch_vars, place_vars, age_vars
  <1>1. PhaseOK' /\ FlagsOK' /\ PlacesOK'
    BY DEF IInv, PhaseOK, FlagsOK, PlacesOK
  <1>2. TimersOK' /\ AgesOK'
    BY DEF IInv, TimersOK, AgesOK
  <1>3. ScrollWatched' /\ FingerWatched' /\ ArmedLate'
    BY DEF IInv, ScrollWatched, FingerWatched, ArmedLate
  <1>4. NoPhantomClick'
    BY DEF Dispatch, NoPhantomClick
  <1>. QED BY <1>1, <1>2, <1>3, <1>4 DEF IInv

LEMMA TickStep == IInv /\ Tick => IInv'
  <1> SUFFICES ASSUME IInv, Tick PROVE IInv'
    OBVIOUS
  <1> USE DEF Tick, touch_vars, place_vars
  <1>1. PhaseOK' /\ FlagsOK' /\ PlacesOK'
    BY DEF IInv, PhaseOK, FlagsOK, PlacesOK
  <1>2. TimersOK'
    BY DEF IInv, TimersOK, Due
  <1>3. AgesOK'
    BY DEF IInv, AgesOK
  <1>4. /\ lift # Off <=> lift' # Off
        /\ drag # Off <=> drag' # Off
        /\ scroll # Off <=> scroll' # Off
    BY DEF IInv, TimersOK, Due
  <1>5. ScrollWatched' /\ FingerWatched'
    BY <1>4 DEF IInv, ScrollWatched, FingerWatched
  <1>6. ArmedLate'
    BY <1>4 DEF IInv, ArmedLate, AgesOK
  <1>7. NoPhantomClick'
    BY DEF Dispatch, NoPhantomClick
  <1>. QED BY <1>1, <1>2, <1>3, <1>5, <1>6, <1>7 DEF IInv

-----------------------------------------------------------------------------
(* Start, stop and everything                                              *)

LEMMA LifeStep ==
  ASSUME IInv, handleStart \/ handleStop \/ Quiet \/ UNCHANGED vars
  PROVE  IInv'
  <1> USE DEF handleStart, handleStop, Quiet, vars, timer_vars, touch_vars, place_vars,
              age_vars, out_vars
  <1>1. PhaseOK' /\ FlagsOK' /\ PlacesOK' /\ AgesOK'
    BY DEF IInv, PhaseOK, FlagsOK, PlacesOK, AgesOK, Timers
  <1>2. TimersOK'
    BY DEF IInv, TimersOK
  <1>3. ScrollWatched' /\ FingerWatched' /\ ArmedLate' /\ NoPhantomClick'
    BY DEF IInv, ScrollWatched, FingerWatched, ArmedLate, NoPhantomClick
  <1>. QED BY <1>1, <1>2, <1>3 DEF IInv

\* Every step of the driver keeps the invariant.
LEMMA NextStep == IInv /\ [Next]_vars => IInv'
  <1> SUFFICES ASSUME IInv, [Next]_vars PROVE IInv'
    OBVIOUS
  <1>1. CASE forwardReport
    BY <1>1, TouchStep, StylusStep, MultitouchStep DEF forwardReport
  <1>2. CASE TimerFires
    BY <1>2, LiftStep, DragStep, ScrollStep DEF TimerFires
  <1>3. CASE Tick
    BY <1>3, TickStep
  <1>4. CASE handleStart \/ handleStop \/ Quiet \/ UNCHANGED vars
    BY <1>4, LifeStep
  <1>. QED BY <1>1, <1>2, <1>3, <1>4 DEF Next

LEMMA Invariance == Spec => []IInv
  BY InitInv, NextStep, PTL DEF Spec

\* A finger that counts as down has its lift timer running and a scroll its end,
\* in any order of frames, timers and stop: no touch is forgotten.
THEOREM TouchesAreWatched == Spec => []Watched
  <1>1. IInv => Watched
    BY DEF IInv, FingerWatched, ScrollWatched, Watched
  <1>. QED BY <1>1, Invariance, PTL

\* No finger clicks or presses within the timeout after a multitouch frame.
THEOREM NoClickAfterMultitouch == Spec => []NoPhantomClick
  <1>1. IInv => NoPhantomClick
    BY DEF IInv
  <1>. QED BY <1>1, Invariance, PTL

-----------------------------------------------------------------------------
(* What is dispatched                                                      *)

LEMMA DispatchTyped ==
  ASSUME NEW by \in {"finger", "stylus"}, NEW buttons \in Seq(Buttons),
         Len(buttons) <= 3, OutOK, Dispatch(by, buttons)
  PROVE  OutOK'
  <1>1. DOMAIN buttons = 1..Len(buttons) /\ Len(buttons) \in Nat
    OBVIOUS
  <1>2. Len(dispatched') = Len(buttons)
    BY <1>1 DEF Dispatch
  <1>3. CASE buttons = <<>>
    BY <1>2, <1>3 DEF Dispatch, OutOK
  <1>4. CASE buttons # <<>>
    <2>1. buttons[Len(buttons)] \in Buttons
      BY <1>4
    <2>. QED BY <2>1, <1>2, <1>4 DEF Dispatch, OutOK
  <1>. QED BY <1>3, <1>4

LEMMA OutStep == OutOK /\ [Next]_vars => OutOK'
  <1> SUFFICES ASSUME OutOK, [Next]_vars PROVE OutOK'
    OBVIOUS
  <1> DEFINE Short == {<<>>} \cup {<<a>> : a \in Buttons} \cup
                      {<<"LEFT_CLICK", "HOVER">>, <<"RIGHT_CLICK", "HOVER", "HOVER">>}
  <1>b. {"HOVER", "LEFT_CLICK"} \subseteq Buttons
    BY DEF Buttons
  <1>0. \A by \in {"finger", "stylus"}, buttons \in Short : Dispatch(by, buttons) => OutOK'
    <2> SUFFICES ASSUME NEW by \in {"finger", "stylus"}, NEW buttons \in Short,
                        Dispatch(by, buttons)
                 PROVE  OutOK'
      OBVIOUS
    <2>1. buttons \in Seq(Buttons) /\ Len(buttons) <= 3
      <3>1. CASE buttons = <<>>
        BY <3>1
      <3>2. ASSUME NEW a \in Buttons, buttons = <<a>>
            PROVE  buttons \in Seq(Buttons) /\ Len(buttons) <= 3
        BY <3>2
      <3>3. CASE buttons = <<"LEFT_CLICK", "HOVER">>
        BY <3>3, <1>b
      <3>4. CASE buttons = <<"RIGHT_CLICK", "HOVER", "HOVER">>
        BY <3>4 DEF Buttons
      <3>. QED BY <3>1, <3>2, <3>3, <3>4
    <2>. QED BY <2>1, DispatchTyped
  <1>a. \A a \in Buttons : <<a>> \in Short
    OBVIOUS
  <1>c. {<<>>, <<"HOVER">>, <<"LEFT_CLICK">>, <<"LEFT_CLICK", "HOVER">>,
         <<"RIGHT_CLICK", "HOVER", "HOVER">>} \subseteq Short
    BY <1>a, <1>b
  <1> HIDE DEF Short
  <1>1. ASSUME NEW p \in Places, checkFingerTouch(p) PROVE OutOK'
    <2>1. \E buttons \in Short : Dispatch("finger", buttons)
      <3>1. CASE TouchBegins(p) \/ TouchDrags(p)
        BY <3>1, <1>a, <1>b DEF TouchBegins, TouchDrags, finger_interaction
      <3>2. CASE TouchHolds(p)
        BY <3>2, <1>c DEF TouchHolds
      <3>. QED BY <1>1, <3>1, <3>2 DEF checkFingerTouch
    <2>. QED BY <2>1, <1>0
  <1>2. ASSUME NEW button \in Buttons, checkStylus(button) PROVE OutOK'
    BY <1>2, <1>0, <1>a DEF checkStylus
  <1>3. ASSUME NEW contacts \in 2..MaxContacts, NEW p \in Places, Multitouch(contacts, p)
        PROVE  OutOK'
    BY <1>3, <1>0, <1>c DEF Multitouch, scrollPosition
  <1>4. CASE TimerFires
    <2>1. \E buttons \in Short : Dispatch("finger", buttons)
      BY <1>4, <1>c DEF TimerFires, fingerLift, dragStart, resetScroll
    <2>. QED BY <2>1, <1>0
  <1>5. CASE Tick
    BY <1>5, <1>0, <1>c DEF Tick
  <1>6. CASE handleStart \/ handleStop \/ Quiet \/ UNCHANGED vars
    BY <1>6 DEF handleStart, handleStop, Quiet, vars, out_vars, OutOK
  <1>. QED BY <1>1, <1>2, <1>3, <1>4, <1>5, <1>6 DEF Next, forwardReport

\* Every variable keeps to its type: timers within their delays, places among
\* those touched, and three events at most in a step.
THEOREM TypeCorrect == Spec => []TypeOK
  <1>1. Init => OutOK
    BY DEF Init, OutOK, Buttons
  <1>2. IInv /\ OutOK => TypeOK
    BY DEF IInv, OutOK, PhaseOK, TimersOK, FlagsOK, PlacesOK, AgesOK, TypeOK
  <1>. QED BY <1>1, <1>2, OutStep, Invariance, PTL DEF Spec

-----------------------------------------------------------------------------
(* Drags                                                                   *)

LEMMA DragFirstStep ==
  ASSUME DelaysFit, IInv, DragFirst, [Next]_vars PROVE DragFirst'
  <1> USE DEF DelaysFit, DragFirst
  <1>0. TimersOK /\ FlagsOK /\ FingerWatched
    BY DEF IInv
  <1>1. ASSUME NEW p \in Places, checkFingerTouch(p) PROVE DragFirst'
    <2>1. /\ phase' = phase /\ lift' = FINGER_LIFT_DELAY /\ is_finger_down'
          /\ drag' \in {drag, DRAG_START_DELAY}
      BY <1>1 DEF checkFingerTouch, TouchBegins, TouchDrags, TouchHolds, Frame,
                  scheduleClick, scheduleDragStart, touch_vars
    <2>. QED BY <1>0, <2>1 DEF TimersOK
  <1>2. ASSUME NEW button \in Buttons, checkStylus(button) PROVE DragFirst'
    BY <1>2 DEF checkStylus, Frame, timer_vars, touch_vars
  <1>3. ASSUME NEW contacts \in 2..MaxContacts, NEW p \in Places, Multitouch(contacts, p)
        PROVE  DragFirst'
    BY <1>3 DEF Multitouch, Frame, Cancelled, resetTouch
  <1>4. CASE fingerLift
    BY <1>0, <1>4 DEF fingerLift, LiftMayFire, Due, resetTouch, TimersOK
  <1>5. CASE dragStart
    BY <1>5 DEF dragStart, Due
  <1>6. CASE resetScroll
    BY <1>6 DEF resetScroll, touch_vars
  <1>7. CASE Tick
    BY <1>0, <1>7 DEF Tick, Due, TimersOK, touch_vars
  <1>8. CASE handleStart \/ handleStop \/ Quiet \/ UNCHANGED vars
    BY <1>8 DEF handleStart, handleStop, Quiet, vars, timer_vars, touch_vars
  <1>. QED
    BY <1>1, <1>2, <1>3, <1>4, <1>5, <1>6, <1>7, <1>8 DEF Next, forwardReport, TimerFires

\* A drag goes on only while its finger counts as down, provided that the timers
\* keep order and that a drag starts no later than a finger lifts.
THEOREM DragsNeedFingers == DelaysFit => (Spec => []DragNeedsFinger)
  <1> SUFFICES ASSUME DelaysFit PROVE Spec => []DragNeedsFinger
    OBVIOUS
  <1>1. Init => DragFirst
    BY DEF Init, DragFirst
  <1>2. IInv /\ DragFirst /\ [Next]_vars => DragFirst'
    BY DragFirstStep
  <1>3. DragFirst => DragNeedsFinger
    BY DEF DragFirst, DragNeedsFinger
  <1>. QED BY <1>1, <1>2, <1>3, Invariance, PTL DEF Spec

-----------------------------------------------------------------------------
(* Fat finger distance                                                     *)

\* A number is its quotient and its remainder.
LEMMA Parts ==
  ASSUME NEW m \in Nat, NEW n \in Nat \ {0}
  PROVE  /\ m \div n \in Nat /\ m % n \in Nat /\ m % n < n
         /\ m = (n * (m \div n)) + (m % n)
  OBVIOUS

\* The two halves of a square are the square, whatever the number.
LEMMA SquareIsSquare ==
  ASSUME NEW d \in Nat
  PROVE  /\ Square(d).high \in Nat /\ Square(d).low \in Nat
         /\ Square(d).low < 65536
         /\ Square(d).high * 65536 + Square(d).low = d * d
  <1> DEFINE a == d \div 256
             b == d % 256
             m == 512 * a * b + b * b
             q == m \div 65536
             r == m % 65536
  <1>1. a \in Nat /\ b \in Nat /\ d = 256 * a + b
    BY Parts
  <1>2. m \in Nat
    BY <1>1
  <1>3. Square(d) = [high |-> a * a + q, low |-> r]
    BY DEF Square
  <1> HIDE DEF a, b
  <1>4. d * d = 65536 * (a * a) + m
    BY <1>1
  <1> HIDE DEF m
  <1>5. q \in Nat /\ r \in Nat /\ r < 65536 /\ m = 65536 * q + r
    BY <1>2, Parts
  <1> HIDE DEF q, r
  <1>6. a * a \in Nat
    BY <1>1
  <1> DEFINE s == a * a
  <1> HIDE DEF s
  <1>7. s \in Nat /\ Square(d) = [high |-> s + q, low |-> r] /\ d * d = 65536 * s + m
    BY <1>3, <1>4, <1>6 DEF s
  <1>. QED BY <1>5, <1>7, <1>2

\* A distance of which the square is in the zone is short.
LEMMA SmallRoot ==
  ASSUME NEW d \in Nat, NEW e \in Nat, d * d + e < FAT_FINGER_ZONE PROVE d < 32768
  <1> SUFFICES ASSUME d >= 32768 PROVE FALSE
    OBVIOUS
  <1>1. d * d >= 32768 * 32768
    OBVIOUS
  <1>. QED BY <1>1 DEF FAT_FINGER_ZONE

\* Unless the square overflows, close to means within fat finger distance.
LEMMA CloseMeansInZone ==
  ASSUME NEW p, NEW q, p.x \in Int, p.y \in Int, q.x \in Int, q.y \in Int,
         ~Overflows(p, q), isCloseTo(p, q)
  PROVE  InZone(p, q)
  <1> DEFINE dx == Distance(p.x, q.x)
             dy == Distance(p.y, q.y)
             xx == dx * dx
             yy == dy * dy
             xhigh == Square(dx).high
             xlow  == Square(dx).low
             yhigh == Square(dy).high
             ylow  == Square(dy).low
             carry == (xlow + ylow) \div 65536
             rest  == (xlow + ylow) % 65536
             high  == xhigh + yhigh + carry
  <1>1. dx \in Nat /\ dy \in Nat
    BY DEF Distance
  <1>2. SquareSum(p, q) = [high |-> high, low |-> rest]
    BY DEF SquareSum
  <1>3. SquaredDistance(p, q) = [high |-> high % 65536, low |-> rest]
    BY <1>2 DEF SquaredDistance
  <1> HIDE DEF dx, dy
  <1>4. /\ xhigh \in Nat /\ xlow \in Nat /\ xhigh * 65536 + xlow = xx
        /\ yhigh \in Nat /\ ylow \in Nat /\ yhigh * 65536 + ylow = yy
    BY <1>1, SquareIsSquare
  <1>5. xx \in Nat /\ yy \in Nat
    BY <1>1
  <1> HIDE DEF xhigh, xlow, yhigh, ylow
  <1> HIDE DEF xx, yy
  <1>6. xlow + ylow \in Nat
    BY <1>4
  <1>7. carry \in Nat /\ rest \in Nat /\ xlow + ylow = (65536 * carry) + rest
    BY <1>6, Parts
  <1> HIDE DEF carry, rest
  <1>8. high \in Nat /\ high * 65536 + rest = xx + yy
    BY <1>4, <1>7
  <1> HIDE DEF high
  <1>9. high < 32768
    BY <1>2, <1>8 DEF Overflows
  <1>10. high % 65536 = high
    BY <1>8, <1>9
  <1>11. xx + yy < FAT_FINGER_ZONE
    BY <1>3, <1>8, <1>9, <1>10 DEF isCloseTo
  <1>12. dx < 32768 /\ dy < 32768
    BY <1>1, <1>5, <1>11, SmallRoot DEF xx, yy
  <1>. QED BY <1>11, <1>12 DEF InZone, xx, yy, dx, dy

LEMMA PlacesAreNumbers == \A p \in Places : p.x \in Nat /\ p.y \in Nat
  <1>1. Places \subseteq [x : Nat, y : Nat]
    BY PlacesAssumption
  <1>. QED BY <1>1

LEMMA InItsOwnZone ==
  ASSUME NEW p \in Places PROVE InZone(p, p)
  <1>1. Distance(p.x, p.x) = 0 /\ Distance(p.y, p.y) = 0
    BY PlacesAreNumbers DEF Distance
  <1>. QED BY <1>1 DEF InZone, FAT_FINGER_ZONE

LEMMA CloseOrOverflows ==
  ASSUME NEW p \in Places, NEW q \in Places, isCloseTo(p, q)
  PROVE  InZone(p, q) \/ Overflows(p, q)
  BY PlacesAreNumbers, CloseMeansInZone

LEMMA StillStep == IInv /\ StillIsNear /\ [Next]_vars => StillIsNear'
  <1> SUFFICES ASSUME IInv, StillIsNear, [Next]_vars PROVE StillIsNear'
    OBVIOUS
  <1> USE DEF StillIsNear, Still
  <1>0. PlacesOK /\ PlacesOK'
    BY NextStep DEF IInv
  <1>1. ASSUME last' = touch_start' PROVE StillIsNear'
    BY <1>0, <1>1, InItsOwnZone DEF PlacesOK
  <1>2. ASSUME NEW p \in Places, TouchBegins(p) PROVE StillIsNear'
    BY <1>1, <1>2 DEF TouchBegins
  <1>3. ASSUME NEW p \in Places, TouchDrags(p) PROVE StillIsNear'
    BY <1>3 DEF TouchDrags, touch_vars
  <1>4. ASSUME NEW p \in Places, TouchHolds(p) PROVE StillIsNear'
    <2> DEFINE near == isCloseTo(Snapped(p), touch_start)
    <2>1. touch_start' = touch_start /\ last' \in {touch_start, Snapped(p)}
      BY <1>4 DEF TouchHolds
    <2>2. CASE near
      <3>1. InZone(Snapped(p), touch_start) \/ Overflows(Snapped(p), touch_start)
        BY <1>0, <2>2, SnappedPlace, CloseOrOverflows DEF PlacesOK
      <3>. QED BY <1>1, <2>1, <3>1
    <2>3. CASE ~near
      <3>1. drag_start_requested' \/ moved_during_right_click'
        BY <1>4, <2>3 DEF TouchHolds
      <3>. QED BY <3>1
    <2>. QED BY <2>2, <2>3
  <1>5. ASSUME NEW button \in Buttons, checkStylus(button) PROVE StillIsNear'
    BY <1>5 DEF checkStylus, touch_vars, place_vars
  <1>6. ASSUME NEW contacts \in 2..MaxContacts, NEW p \in Places, Multitouch(contacts, p)
        PROVE  StillIsNear'
    BY <1>6 DEF Multitouch, resetTouch
  <1>7. CASE TimerFires
    BY <1>7 DEF TimerFires, fingerLift, dragStart, resetScroll, resetTouch, touch_vars,
                place_vars
  <1>8. CASE Tick
    BY <1>8 DEF Tick, touch_vars, place_vars
  <1>9. CASE handleStart \/ handleStop \/ Quiet \/ UNCHANGED vars
    BY <1>9 DEF handleStart, handleStop, Quiet, vars, touch_vars, place_vars
  <1>. QED
    BY <1>2, <1>3, <1>4, <1>5, <1>6, <1>7, <1>8, <1>9
    DEF Next, forwardReport, checkFingerTouch

\* For any places on the screen, a still finger is within fat finger distance of
\* where it touched, or the square of the distance has overflowed (isCloseTo).
THEOREM StillOrOverflow == Spec => []StillIsNear
  <1>1. Init => StillIsNear
    BY DEF Init, StillIsNear, Still
  <1>. QED BY <1>1, StillStep, Invariance, PTL DEF Spec
=============================================================================
