---------------- MODULE VoodooI2CSensorHubEventDriver_proofs ----------------
(***************************************************************************)
(* Proofs about VoodooI2CSensorHubEventDriver for any report descriptors   *)
(* and any readings of 16 bits.                                            *)
(***************************************************************************)
EXTENDS VoodooI2CSensorHubEventDriver, TLAPS

Rotations == {"Rotate0", "Rotate90", "Rotate180", "Rotate270"}

Reading16 == [x : SInt16, y : SInt16, z : SInt16]

\* The sensor asks for its reporting state only if one of the two is declared.
PowerComesFirst == sensor = "reporting" => layout.states # {}

\* The hub opens its interface once the sensor's start is over.
HubComesLast == hub # "starting" => sensor \in {"running", "failed"}

\* What handleStop leaves in the tree failed earlier.
OnlyFailedStay == hub = "stopped" /\ inPMTree => sensor = "failed"

\* The driver remembers what it has shown, or asked for in vain.
RemembersScreen == ~refused => current_rotation = screen

\* Readings are handled by a running sensor only.
ReadsWhenRunning == reading # NoReading => sensor = "running"

IInv ==
    /\ TypeOK /\ PowerComesFirst /\ HubComesLast /\ OnlyFailedStay
    /\ RemembersScreen /\ ReadsWhenRunning
    /\ PanicsOnly /\ PictureFollows

-----------------------------------------------------------------------------

\* A position is one of 8 bits, whatever the children are.
LEMMA IndexType ==
    ASSUME NEW children, NEW usage PROVE findPropertyIndex(children, usage) \in 0..255
  <1>1. CASE Positions(children, usage) = {}
    BY <1>1 DEF findPropertyIndex
  <1>2. CASE Positions(children, usage) # {}
    <2>. DEFINE i == CHOOSE i \in Positions(children, usage) : TRUE
    <2>1. i \in 0..255
      BY <1>2 DEF Positions
    <2>2. \A k \in 0..255 : (k - 1) % 256 \in 0..255
      OBVIOUS
    <2>3. (i - 1) % 256 \in 0..255
      <3> HIDE DEF i
      <3>. QED BY <2>1, <2>2
    <2>. QED BY <1>2, <2>3 DEF findPropertyIndex
  <1>. QED BY <1>1, <1>2

\* A reading turns the picture one of four ways, or none.
LEMMA RotationType == ASSUME NEW r PROVE RotationOf(r) \in Rotations \cup {"Flat"}
  BY DEF RotationOf, Rotations

\* The thresholds are symmetric: what is not measured as nothing at all turns the
\* picture the opposite way when it is negated.
LEMMA OppositeReading ==
    ASSUME NEW r \in Reading16, ~Weightless(r)
    PROVE  RotationOf(Negated(r)) = Opposite[RotationOf(r)]
  <1>. DEFINE n == Negated(r)
  <1>0. SUFFICES RotationOf(n) = Opposite[RotationOf(r)]
    OBVIOUS
  <1>a. r.x \in Int /\ r.y \in Int /\ r.z \in Int
    <2>1. SInt16 \subseteq Int
      BY DEF SInt16
    <2>. QED BY <2>1 DEF Reading16
  <1>b. n.x = -r.x /\ n.y = -r.y /\ n.z = -r.z
    BY DEF Negated
  <1>1. /\ r.x \in Int /\ r.y \in Int /\ r.z \in Int
        /\ n.x = -r.x /\ n.y = -r.y /\ n.z = -r.z
    BY <1>a, <1>b
  <1> HIDE DEF n
  <1>2. Abs(n.x) = Abs(r.x) /\ Abs(n.y) = Abs(r.y) /\ Abs(n.z) = Abs(r.z)
    BY <1>1 DEF Abs
  <1>3. IsFlat(n) <=> IsFlat(r)
    BY <1>2 DEF IsFlat
  <1>4. CASE IsFlat(r)
    BY <1>3, <1>4 DEF RotationOf, Opposite
  <1>5. CASE ~IsFlat(r) /\ 3 * Abs(r.y) > 2 * Abs(r.x)
    <2>1. r.y # 0 /\ (n.y > 0 <=> ~(r.y > 0))
      BY <1>1, <1>5 DEF Abs
    <2>. QED BY <1>2, <1>3, <1>5, <2>1 DEF RotationOf, Opposite
  <1>6. CASE ~IsFlat(r) /\ ~(3 * Abs(r.y) > 2 * Abs(r.x))
    <2>1. r.x # 0 /\ (n.x > 0 <=> ~(r.x > 0))
      BY <1>1, <1>6 DEF Abs, IsFlat, Weightless
    <2>. QED BY <1>2, <1>3, <1>6, <2>1 DEF RotationOf, Opposite
  <1>. QED BY <1>4, <1>5, <1>6

-----------------------------------------------------------------------------

\* The invariant holds of a hub that starts.
LEMMA InitInv == Init => IInv
  <1> SUFFICES ASSUME Init PROVE IInv
    OBVIOUS
  <1>1. losses \in 0..MaxLost
    BY LostAssumption DEF Init
  <1>2. {inPMTree, awake, lost, display, active_framebuffer, refused} \subseteq BOOLEAN
    BY DEF Init
  <1>3. /\ current \in [power : {"none", D0_FullPower}, reporting : {"none", ThresholdEvents}]
        /\ device \in [power : 0..255, reporting : 0..255]
    BY DEF Init
  <1>4. /\ hub \in {"starting", "open", "refused", "terminating", "stopped"}
        /\ sensor \in {"power", "reporting", "accelerometer", "running", "failed"}
        /\ pm \in {"on", "driver_off", "off", "device_on"}
        /\ panicked \in {"no", "findPropertyIndex", "setReport"}
        /\ {current_rotation, screen} \subseteq {"Rotate0", "Rotate90", "Rotate180", "Rotate270"}
        /\ layout \in Layouts /\ reading \in Readings \cup {NoReading}
    BY DEF Init
  <1>5. TypeOK
    BY <1>1, <1>2, <1>3, <1>4 DEF TypeOK
  <1>. QED BY <1>5 DEF Init, IInv, PowerComesFirst, HubComesLast, OnlyFailedStay,
         RemembersScreen, ReadsWhenRunning, PanicsOnly, PictureFollows

\* A write leaves positions in the device and counts what it loses.
LEMMA WriteType ==
    ASSUME NEW feature \in [power : 0..255, reporting : 0..255], Write(feature),
           TypeOK
    PROVE  /\ device' \in [power : 0..255, reporting : 0..255]
           /\ lost' \in BOOLEAN /\ losses' \in 0..MaxLost
  <1>1. device \in [power : 0..255, reporting : 0..255] /\ losses \in 0..MaxLost
    BY DEF TypeOK
  <1>2. CASE device' = feature /\ lost' = FALSE /\ UNCHANGED losses
    BY <1>1, <1>2
  <1>3. CASE losses < MaxLost /\ lost' = TRUE /\ losses' = losses + 1 /\ UNCHANGED device
    <2>1. losses' \in 0..MaxLost
      BY <1>1, <1>3, LostAssumption
    <2>. QED BY <1>1, <1>3, <2>1
  <1>. QED BY <1>2, <1>3 DEF Write

LEMMA SetElementType ==
    ASSUME setElementValue, TypeOK
    PROVE  /\ device' \in [power : 0..255, reporting : 0..255]
           /\ lost' \in BOOLEAN /\ losses' \in 0..MaxLost
  BY WriteType, IndexType DEF setElementValue

\* Both calls of changeState keep the types of what they change.
LEMMA ChangeStateType ==
    ASSUME NEW state \in {"power", "reporting"}, NEW usage, NEW next,
           changeState(state, usage, next), TypeOK
    PROVE  /\ device' \in [power : 0..255, reporting : 0..255]
           /\ lost' \in BOOLEAN /\ losses' \in 0..MaxLost
           /\ panicked' \in {"no", "findPropertyIndex", "setReport"}
           /\ sensor' \in {sensor, "failed", next}
           /\ current' \in {current, [current EXCEPT ![state] = usage]}
  <1>. DEFINE index == findPropertyIndex(layout[state], usage)
  <1>1. index \in 0..255
    BY IndexType
  <1>2. CASE ~(HasChildren(state) /\ index # 0)
    BY <1>2 DEF changeState, TypeOK, feature_vars
  <1>3. CASE HasChildren(state) /\ index # 0
    <2>1. [device EXCEPT ![state] = index] \in [power : 0..255, reporting : 0..255]
      BY <1>1 DEF TypeOK
    <2>2. Write([device EXCEPT ![state] = index])
      BY <1>3 DEF changeState
    <2>3. /\ device' \in [power : 0..255, reporting : 0..255]
          /\ lost' \in BOOLEAN /\ losses' \in 0..MaxLost
      BY <2>1, <2>2, WriteType
    <2>. QED BY <1>3, <2>3 DEF changeState, TypeOK
  <1>. QED BY <1>2, <1>3
-----------------------------------------------------------------------------

\* Every step keeps the types.
LEMMA TypeStep == TypeOK /\ [Next]_vars => TypeOK'
  <1> SUFFICES ASSUME TypeOK, [Next]_vars PROVE TypeOK'
    OBVIOUS
  <1> USE DEF TypeOK, getFramebuffer
  <1> USE DEF vars, start_vars, feature_vars, power_vars, rotation_vars
  <1>1. CASE StartPower
    <2>1. CASE layout.states = {}
      BY <1>1, <2>1 DEF StartPower
    <2>2. CASE changeState("power", D0_FullPower, "reporting")
      <3>1. current' \in [power : {"none", D0_FullPower}, reporting : {"none", ThresholdEvents}]
        BY <2>2, ChangeStateType
      <3>2. /\ device' \in [power : 0..255, reporting : 0..255]
            /\ lost' \in BOOLEAN /\ losses' \in 0..MaxLost
            /\ panicked' \in {"no", "findPropertyIndex", "setReport"}
            /\ sensor' \in {sensor, "failed", "reporting"}
        BY <2>2, ChangeStateType
      <3>. QED BY <1>1, <3>1, <3>2 DEF StartPower
    <2>. QED BY <1>1, <2>1, <2>2 DEF StartPower
  <1>2. CASE StartReporting
    <2>0. changeState("reporting", ThresholdEvents, "accelerometer")
      BY <1>2 DEF StartReporting
    <2>1. current' \in [power : {"none", D0_FullPower}, reporting : {"none", ThresholdEvents}]
      BY <2>0, ChangeStateType
    <2>2. /\ device' \in [power : 0..255, reporting : 0..255]
          /\ lost' \in BOOLEAN /\ losses' \in 0..MaxLost
          /\ panicked' \in {"no", "findPropertyIndex", "setReport"}
          /\ sensor' \in {sensor, "failed", "accelerometer"}
      BY <2>0, ChangeStateType
    <2>. QED BY <1>2, <2>1, <2>2 DEF StartReporting
  <1>3. CASE StartAccelerometer
    <2>1. /\ device' \in [power : 0..255, reporting : 0..255]
          /\ lost' \in BOOLEAN /\ losses' \in 0..MaxLost
      BY <1>3, SetElementType DEF StartAccelerometer
    <2>. QED BY <1>3, <2>1 DEF StartAccelerometer
  <1>4. ASSUME NEW r \in Readings, handleInterruptReport(r) PROVE TypeOK'
    <2>1. RotationOf(r) \in Rotations \cup {"Flat"}
      BY RotationType
    <2>2. {current_rotation', screen'} \subseteq Rotations /\ refused' \in BOOLEAN
      BY <1>4, <2>1 DEF handleInterruptReport, rotateDevice, requestProbe, Rotations
    <2>. QED BY <1>4, <2>2 DEF handleInterruptReport, Rotations
  <1>5. CASE Sleep
    BY <1>5 DEF Sleep
  <1>6. CASE SleepDevice
    BY <1>6 DEF SleepDevice
  <1>7. CASE WakeDevice
    BY <1>7 DEF WakeDevice
  <1>8. CASE setPowerState
    <2>1. /\ device' \in [power : 0..255, reporting : 0..255]
          /\ lost' \in BOOLEAN /\ losses' \in 0..MaxLost
      BY <1>8, SetElementType DEF setPowerState
    <2>2. panicked' \in {"no", "findPropertyIndex", "setReport"}
      BY <1>8 DEF setPowerState
    <2>. QED BY <1>8, <2>1, <2>2 DEF setPowerState
  <1>9. CASE handleStart
    BY <1>9 DEF handleStart
  <1>10. CASE willTerminate
    BY <1>10 DEF willTerminate
  <1>11. CASE handleStop
    BY <1>11 DEF handleStop, StaysInTree
  <1>12. CASE DisplayChanges
    BY <1>12 DEF DisplayChanges
  <1>13. CASE UNCHANGED vars
    BY <1>13
  <1>. QED BY <1>1, <1>2, <1>3, <1>4, <1>5, <1>6, <1>7, <1>8, <1>9, <1>10, <1>11, <1>12,
              <1>13 DEF Next

\* Every step keeps the order of the start and what is left in the tree.
LEMMA OrderStep ==
    IInv /\ [Next]_vars => (PowerComesFirst /\ HubComesLast /\ OnlyFailedStay)'
  <1> SUFFICES ASSUME IInv, [Next]_vars
               PROVE  (PowerComesFirst /\ HubComesLast /\ OnlyFailedStay)'
    OBVIOUS
  <1> USE DEF IInv, PowerComesFirst, HubComesLast, OnlyFailedStay
  <1> USE DEF vars, start_vars
  <1>1. CASE StartPower
    BY <1>1 DEF StartPower, changeState
  <1>2. CASE StartReporting
    BY <1>2 DEF StartReporting, changeState
  <1>3. CASE StartAccelerometer
    BY <1>3 DEF StartAccelerometer
  <1>4. CASE handleStart
    BY <1>4 DEF handleStart
  <1>5. CASE willTerminate
    BY <1>5 DEF willTerminate
  <1>6. CASE handleStop
    BY <1>6 DEF handleStop, StaysInTree
  <1>7. CASE UNCHANGED <<layout, hub, sensor, inPMTree>>
    BY <1>7
  <1>8. \/ Sleep \/ SleepDevice \/ WakeDevice \/ setPowerState \/ DisplayChanges
        \/ UNCHANGED vars \/ \E r \in Readings : handleInterruptReport(r)
        => UNCHANGED <<layout, hub, sensor, inPMTree>>
    BY DEF Sleep, SleepDevice, WakeDevice, setPowerState, DisplayChanges,
           handleInterruptReport
  <1>. QED BY <1>1, <1>2, <1>3, <1>4, <1>5, <1>6, <1>7, <1>8 DEF Next

\* A panic is met as PanicsOnly says, and nothing comes after it.
LEMMA PanicStep == IInv /\ [Next]_vars => PanicsOnly'
  <1> SUFFICES ASSUME IInv, [Next]_vars PROVE PanicsOnly'
    OBVIOUS
  <1> USE DEF IInv, PanicsOnly, HasChildren, vars, start_vars
  <1>1. CASE StartPower
    BY <1>1 DEF StartPower, changeState, Running
  <1>2. CASE StartReporting
    BY <1>2 DEF StartReporting, changeState, Running, PowerComesFirst
  <1>3. CASE setPowerState
    <2>1. CASE panicked' = panicked
      BY <1>3, <2>1 DEF setPowerState
    <2>2. CASE panicked' # panicked
      <3>1. panicked' = "setReport" /\ hub \in {"terminating", "stopped"} /\ inPMTree
        BY <1>3, <2>2 DEF setPowerState, TypeOK
      <3>. QED BY <1>3, <3>1 DEF setPowerState, OnlyFailedStay
    <2>. QED BY <2>1, <2>2
  <1>4. CASE Running /\ UNCHANGED panicked
    BY <1>4 DEF Running
  <1>5. CASE UNCHANGED vars
    BY <1>5
  <1>. QED BY <1>1, <1>2, <1>3, <1>4, <1>5
         DEF Next, StartAccelerometer, handleInterruptReport, Sleep, SleepDevice,
             WakeDevice, handleStart, willTerminate, handleStop, DisplayChanges

\* The driver and the screen agree, and the picture follows.
LEMMA PictureStep ==
    IInv /\ [Next]_vars => (RemembersScreen /\ ReadsWhenRunning /\ PictureFollows)'
  <1> SUFFICES ASSUME IInv, [Next]_vars
               PROVE  (RemembersScreen /\ ReadsWhenRunning /\ PictureFollows)'
    OBVIOUS
  <1> USE DEF IInv, RemembersScreen, ReadsWhenRunning, PictureFollows
  <1> USE DEF vars, start_vars, rotation_vars
  <1>1. CASE StartPower
    BY <1>1 DEF StartPower, changeState
  <1>2. CASE StartReporting
    BY <1>2 DEF StartReporting, changeState
  <1>3. CASE StartAccelerometer
    BY <1>3 DEF StartAccelerometer
  <1>4. ASSUME NEW r \in Readings, handleInterruptReport(r)
        PROVE (RemembersScreen /\ ReadsWhenRunning /\ PictureFollows)'
    BY <1>4 DEF handleInterruptReport, rotateDevice, requestProbe
  <1>5. CASE UNCHANGED <<rotation_vars, sensor>>
    BY <1>5
  <1>6. CASE DisplayChanges
    BY <1>6 DEF DisplayChanges
  <1>. QED BY <1>1, <1>2, <1>3, <1>4, <1>5, <1>6
         DEF Next, Sleep, SleepDevice, WakeDevice, setPowerState, handleStart,
             willTerminate, handleStop

-----------------------------------------------------------------------------

\* The inductive invariant of the hub: the order in which hub and sensor start
\* and what each leaves behind, what NULL pointers are met, and that the driver
\* remembers what the screen shows (start, handleStop, rotateDevice).
THEOREM Invariance == Spec => []IInv
  <1>1. IInv /\ [Next]_vars => IInv'
    BY TypeStep, OrderStep, PanicStep, PictureStep DEF IInv
  <1>. QED BY InitInv, <1>1, PTL DEF Spec

\* Every variable keeps to its type for any descriptors and readings.
THEOREM TypeCorrect == Spec => []TypeOK
  <1>1. IInv => TypeOK
    BY DEF IInv
  <1>. QED BY Invariance, <1>1, PTL

\* Whatever states a report descriptor declares and whatever they list, and however
\* start, sleep, wake and termination fall, findPropertyIndex and setReport meet
\* NULL under the conditions PanicsOnly names only.
THEOREM PanicsConfined == Spec => []PanicsOnly
  <1>1. IInv => PanicsOnly
    BY DEF IInv
  <1>. QED BY Invariance, <1>1, PTL

-----------------------------------------------------------------------------
(* Reporting                                                               *)

\* What the start has found and set, once it is past a state.
StatesAreSet ==
    /\ sensor \in {"reporting", "accelerometer", "running"} =>
           /\ findPropertyIndex(layout.power, D0_FullPower) # 0
           /\ current.power = D0_FullPower
    /\ sensor \in {"accelerometer", "running"} =>
           /\ findPropertyIndex(layout.reporting, ThresholdEvents) # 0
           /\ current.reporting = ThresholdEvents
           /\ hub # "stopped" => inPMTree

\* A sensor in the tree is awake between power changes only, and only in the tree.
AwakeInTree ==
    /\ sensor \in {"power", "reporting"} => ~inPMTree
    /\ awake /\ hub # "stopped" => inPMTree
    /\ pm # "on" /\ inPMTree => ~awake

\* As ReportsWhenAwake says, from the start of the sensor on.
ReportsFromStart ==
    /\ sensor = "running" /\ pm = "on" /\ ~lost /\ hub \in {"starting", "open"}
    /\ layout.change_sensitivity
    /\ layout.power[1] # D0_FullPower /\ layout.reporting[1] # ThresholdEvents
    => Reports

ReportInv == StatesAreSet /\ AwakeInTree /\ ReportsFromStart

\* A usage that is found, and not first, is where the device looks for it.
LEMMA FoundWhereItIs ==
    ASSUME NEW children, NEW usage, children[1] # usage,
           findPropertyIndex(children, usage) # 0
    PROVE  UsageAt(children, findPropertyIndex(children, usage)) = usage
  <1>. DEFINE p == CHOOSE i \in Positions(children, usage) : TRUE
  <1>1. Positions(children, usage) # {} /\ findPropertyIndex(children, usage) = (p - 1) % 256
    BY DEF findPropertyIndex
  <1>2. p \in 0..255 /\ p + 1 \in DOMAIN children /\ children[p + 1] = usage
    BY <1>1 DEF Positions, IsAt
  <1> HIDE DEF p
  <1>3. p \in 1..255
    BY <1>2
  <1>4. (p - 1) % 256 = p - 1
    BY <1>3
  <1>5. (p - 1) + 2 = p + 1
    BY <1>3
  <1>. QED BY <1>1, <1>2, <1>4, <1>5 DEF UsageAt

\* A sensor that writes what it believes, and is heard, reports.
LEMMA WriteReports ==
    ASSUME StatesAreSet, sensor \in {"accelerometer", "running"}, setElementValue, ~lost',
           layout.power[1] # D0_FullPower, layout.reporting[1] # ThresholdEvents,
           layout' = layout
    PROVE  Reports'
  <1>1. device' = [power     |-> findPropertyIndex(layout.power, D0_FullPower),
                   reporting |-> findPropertyIndex(layout.reporting, ThresholdEvents)]
    BY DEF StatesAreSet, setElementValue, Write
  <1>2. /\ UsageAt(layout.power, device'.power) = D0_FullPower
        /\ UsageAt(layout.reporting, device'.reporting) = ThresholdEvents
    BY <1>1, FoundWhereItIs DEF StatesAreSet
  <1>. QED BY <1>2 DEF Reports, UsageAt

LEMMA ReportStep == IInv /\ ReportInv /\ [Next]_vars => ReportInv'
  <1> SUFFICES ASSUME IInv, ReportInv, [Next]_vars PROVE ReportInv'
    OBVIOUS
  <1> USE DEF ReportInv, start_vars, feature_vars, power_vars, rotation_vars
  <1>0. HubComesLast /\ current \in [power : {"none", D0_FullPower},
                                     reporting : {"none", ThresholdEvents}]
    BY DEF IInv, TypeOK
  <1>1. CASE StartPower
    <2>1. hub = "starting" /\ UNCHANGED <<layout, hub, inPMTree, awake, pm>>
      BY <1>0, <1>1 DEF StartPower, HubComesLast
    <2>2. sensor' \in {"power", "failed", "reporting"}
      BY <1>1 DEF StartPower, changeState
    <2>3. sensor' = "reporting" => /\ findPropertyIndex(layout.power, D0_FullPower) # 0
                                   /\ current'.power = D0_FullPower
      BY <1>0, <1>1 DEF StartPower, changeState
    <2>4. StatesAreSet'
      BY <2>1, <2>2, <2>3 DEF StatesAreSet
    <2>5. AwakeInTree'
      BY <1>1, <2>1, <2>2 DEF StartPower, AwakeInTree
    <2>. QED BY <2>2, <2>4, <2>5 DEF ReportsFromStart
  <1>2. CASE StartReporting
    <2>1. hub = "starting" /\ UNCHANGED <<layout, hub, awake, pm>>
      BY <1>0, <1>2 DEF StartReporting, HubComesLast
    <2>2. sensor' \in {"reporting", "failed", "accelerometer"}
      BY <1>2 DEF StartReporting, changeState
    <2>3. sensor' # "failed" => current'.power = D0_FullPower
      BY <1>0, <1>2 DEF StartReporting, changeState, StatesAreSet
    <2>4. sensor' = "accelerometer" =>
              /\ findPropertyIndex(layout.reporting, ThresholdEvents) # 0
              /\ current'.reporting = ThresholdEvents /\ inPMTree'
      BY <1>0, <1>2 DEF StartReporting, changeState
    <2>5. findPropertyIndex(layout.power, D0_FullPower) # 0
      BY <1>2 DEF StartReporting, StatesAreSet
    <2>6. ~awake
      BY <1>2, <2>1 DEF StartReporting, AwakeInTree
    <2>7. inPMTree' <=> sensor' = "accelerometer"
      BY <1>2 DEF StartReporting
    <2>. QED BY <2>1, <2>2, <2>3, <2>4, <2>5, <2>6, <2>7 DEF StatesAreSet, AwakeInTree, ReportsFromStart
  <1>3. CASE StartAccelerometer
    <2>1. StatesAreSet' /\ AwakeInTree'
      BY <1>3 DEF StartAccelerometer, StatesAreSet, AwakeInTree
    <2>2. ReportsFromStart'
      <3>1. CASE sensor' = "failed"
        BY <3>1 DEF ReportsFromStart
      <3>2. CASE ~layout.change_sensitivity
        BY <1>3, <3>2 DEF StartAccelerometer, ReportsFromStart
      <3>3. CASE sensor' = "running" /\ layout.change_sensitivity
        <4>1. setElementValue /\ sensor = "accelerometer"
          BY <1>3, <3>3 DEF StartAccelerometer
        <4>2. UNCHANGED <<layout, current>>
          BY <1>3 DEF StartAccelerometer
        <4>. QED BY <4>1, <4>2, WriteReports DEF ReportsFromStart
      <3>. QED BY <1>3, <3>1, <3>2, <3>3 DEF StartAccelerometer
    <2>. QED BY <2>1, <2>2
  <1>4. CASE setPowerState
    <2>1. StatesAreSet' /\ AwakeInTree'
      BY <1>4 DEF setPowerState, StatesAreSet, AwakeInTree
    <2>2. ReportsFromStart'
      <3> SUFFICES ASSUME sensor = "running", hub \in {"starting", "open"}, ~lost',
                          layout.change_sensitivity, layout.power[1] # D0_FullPower,
                          layout.reporting[1] # ThresholdEvents
                   PROVE  Reports'
        BY <1>4 DEF setPowerState, ReportsFromStart
      <3>1. inPMTree /\ ~awake
        BY <1>4 DEF setPowerState, StatesAreSet, AwakeInTree
      <3>2. setElementValue
        BY <1>4, <3>1 DEF setPowerState, KnowsSensitivity
      <3>. QED BY <1>4, <3>2, WriteReports DEF setPowerState
    <2>. QED BY <2>1, <2>2
  <1>5. CASE Sleep \/ SleepDevice \/ WakeDevice
    <2>1. pm' # "on" /\ UNCHANGED <<layout, hub, sensor, inPMTree, current>>
      BY <1>5 DEF Sleep, SleepDevice, WakeDevice
    <2>2. awake' => awake /\ (pm = "on" => ~inPMTree)
      BY <1>5 DEF Sleep, SleepDevice, WakeDevice
    <2>. QED BY <2>1, <2>2 DEF StatesAreSet, AwakeInTree, ReportsFromStart
  <1>6. CASE handleStart \/ willTerminate \/ handleStop
    <2>0. UNCHANGED <<layout, sensor, device, lost, awake, pm, current>>
      BY <1>6 DEF handleStart, willTerminate, handleStop
    <2>1. /\ hub' \in {"open", "refused", "terminating", "stopped"}
          /\ hub' = "open" => hub = "starting"
          /\ hub' # "stopped" => hub # "stopped"
      BY <1>6 DEF handleStart, willTerminate, handleStop
    <2>3. hub' # "stopped" => inPMTree' = inPMTree
      <3>1. CASE handleStart
        BY <3>1 DEF handleStart
      <3>2. CASE willTerminate
        BY <3>2 DEF willTerminate
      <3>3. CASE handleStop
        BY <3>3 DEF handleStop
      <3>. QED BY <1>6, <3>1, <3>2, <3>3
    <2>4. inPMTree' => inPMTree
      <3>1. CASE handleStart \/ willTerminate
        BY <3>1 DEF handleStart, willTerminate
      <3>2. CASE handleStop
        BY <3>2 DEF handleStop, StaysInTree
      <3>. QED BY <1>6, <3>1, <3>2
    <2>2. Reports' = Reports
      BY <2>0 DEF Reports, UsageAt
    <2>. QED BY <2>0, <2>1, <2>2, <2>3, <2>4 DEF StatesAreSet, AwakeInTree, ReportsFromStart
  <1>7. CASE DisplayChanges \/ UNCHANGED vars \/ \E r \in Readings : handleInterruptReport(r)
    <2>1. UNCHANGED <<layout, hub, sensor, inPMTree, device, lost, awake, pm, current>>
      BY <1>7 DEF DisplayChanges, vars, handleInterruptReport
    <2>2. Reports' = Reports
      BY <2>1 DEF Reports, UsageAt
    <2>. QED BY <2>1, <2>2 DEF StatesAreSet, AwakeInTree, ReportsFromStart
  <1>. QED BY <1>1, <1>2, <1>3, <1>4, <1>5, <1>6, <1>7 DEF Next

\* Whatever the report descriptor lists, a running sensor whose sensitivity can be
\* set reports between power changes unless its last write was lost: a wake writes
\* what the start has set, and in the tree it misses no wake (setPowerState,
\* setElementValue).
THEOREM ReportsAfterEveryWake == Spec => []ReportsWhenAwake
  <1>1. Init => ReportInv
    BY DEF Init, ReportInv, StatesAreSet, AwakeInTree, ReportsFromStart
  <1>2. ReportInv => ReportsWhenAwake
    BY DEF ReportInv, ReportsFromStart, ReportsWhenAwake
  <1>. QED BY <1>1, <1>2, ReportStep, Invariance, PTL DEF Spec

\* The picture follows the last reading (handleInterruptReport, rotateDevice).
THEOREM PictureFollowsReading == Spec => []PictureFollows
  <1>1. IInv => PictureFollows
    BY DEF IInv
  <1>. QED BY Invariance, <1>1, PTL

\* For every reading of 16 bits, not only those of a run, the thresholds are
\* symmetric (handleInterruptReport).
THEOREM TiltIsSymmetric == Spec => []OppositeTilt
  <1>1. NoReading \in Reading16
    BY DEF NoReading, Reading16, SInt16
  <1>2. IInv => OppositeTilt
    <2>1. IInv => reading \in Reading16
      BY <1>1, ReadingsAssumption DEF IInv, TypeOK, Reading16
    <2>. QED BY <2>1, OppositeReading DEF OppositeTilt
  <1>. QED BY Invariance, <1>2, PTL
=============================================================================
