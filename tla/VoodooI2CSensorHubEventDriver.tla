-------------------- MODULE VoodooI2CSensorHubEventDriver --------------------
(***************************************************************************)
(* A sensor hub (VoodooI2CSensorHubEventDriver) with one accelerometer     *)
(* (VoodooI2CSensor, VoodooI2CAccelerometerSensor): the start that brings  *)
(* the sensor into its reporting state, sleep and wake, the termination of *)
(* the hub, and the picture that turns with the device.                    *)
(*                                                                         *)
(* A feature report holds the sensor's power and reporting states, as      *)
(* positions among the children of the elements that list them.            *)
(* External: the report descriptor, which lists at most 255 states; the    *)
(* device, which counts its states from the second child, ignores          *)
(* positions it does not have, and may be reset when it wakes; the bus, on *)
(* which nobody notices that a write was lost; the order of power changes; *)
(* the displays, and whether a framebuffer turns its picture when asked.   *)
(***************************************************************************)
EXTENDS Integers, Sequences

CONSTANTS
    Layouts,         \* bound: the accelerometers report descriptors declare
    Readings,        \* bound: what an accelerometer measures
    MaxLost          \* bound: how many writes are lost

SInt16 == -32768..32767

ASSUME ReadingsAssumption == Readings \subseteq [x : SInt16, y : SInt16, z : SInt16]

ASSUME LostAssumption == MaxLost \in Nat

VARIABLES
    layout,
    hub,             \* "starting", "open", "terminating", "stopped"; or "refused"
    sensor,          \* where its start is: "power", "reporting", "accelerometer",
                     \* "running"; or "failed"
    inPMTree, awake,
    current,         \* current_power_state, current_reporting_state
    pm,              \* "on", "driver_off", "off", "device_on": who has been told
    device,          \* the positions the device has its states at
    lost, losses,    \* the last write did not arrive; how many did not
    panicked,        \* "no", or what dereferenced NULL
    display,         \* there is a display, with a framebuffer
    active_framebuffer, current_rotation,
    screen,          \* how the picture stands
    refused,         \* the framebuffer did not turn it when last asked
    reading          \* the last one that was handled

start_vars    == <<layout, hub, sensor, inPMTree, panicked>>
feature_vars  == <<device, lost, losses>>
power_vars    == <<awake, pm>>
rotation_vars == <<display, active_framebuffer, current_rotation, screen, refused,
                   reading>>
vars == <<start_vars, feature_vars, power_vars, current, rotation_vars>>

Running == panicked = "no"

-----------------------------------------------------------------------------
(* VoodooI2CSensor                                                         *)

D0_FullPower    == "D0"
ThresholdEvents == "Threshold"

\* Where, from 0, the first child with the usage is.
IsAt(children, usage, i) ==
    /\ i + 1 \in DOMAIN children /\ children[i + 1] = usage
    /\ \A j \in 1..i : children[j] # usage

Positions(children, usage) == {i \in 0..255 : IsAt(children, usage, i)}

\* Mutant: the position as it is.
findPropertyIndex_Whole(children, usage) ==
    IF Positions(children, usage) = {} THEN 0
    ELSE CHOOSE i \in Positions(children, usage) : TRUE

\* Mutant: more than 8 bits.
findPropertyIndex_Wide(children, usage) ==
    IF Positions(children, usage) = {} THEN 0
    ELSE (CHOOSE i \in Positions(children, usage) : TRUE) - 1

\* One before that, in 8 bits; 0 if there is none.  The list must not be empty:
\* an element without children has no list, and its NULL is dereferenced.
findPropertyIndex(children, usage) ==
    IF Positions(children, usage) = {} THEN 0
    ELSE ((CHOOSE i \in Positions(children, usage) : TRUE) - 1) % 256

\* What a position means to the device (external).
UsageAt(children, index) == IF index + 2 \in DOMAIN children THEN children[index + 2] ELSE "none"

Reports == /\ UsageAt(layout.power, device.power) = D0_FullPower
           /\ UsageAt(layout.reporting, device.reporting) = ThresholdEvents

\* A write of the feature report, which may be lost.
Write(feature) ==
    \/ device' = feature /\ lost' = FALSE /\ UNCHANGED losses
    \/ losses < MaxLost /\ lost' = TRUE /\ losses' = losses + 1 /\ UNCHANGED device

\* setElementValue writes the whole report: the states it believes in, the new
\* sensitivity, and zeros for the rest.
setElementValue ==
    Write([power     |-> findPropertyIndex(layout.power, current.power),
           reporting |-> findPropertyIndex(layout.reporting, current.reporting)])

\* The state is declared, and lists its values.
HasChildren(state) == state \in layout.states /\ layout[state] # <<>>

\* changeState for one of the states, which start does not look for together.
changeState(state, usage, next) ==
    LET index == findPropertyIndex(layout[state], usage) IN
    \/ /\ ~HasChildren(state)
       /\ panicked' = "findPropertyIndex" /\ UNCHANGED <<sensor, feature_vars, current>>
    \/ /\ HasChildren(state) /\ index = 0
       /\ sensor' = "failed" /\ UNCHANGED <<panicked, feature_vars, current>>
    \/ /\ HasChildren(state) /\ index # 0
       /\ Write([device EXCEPT ![state] = index])
       /\ sensor' = next /\ current' = [current EXCEPT ![state] = usage]
       /\ UNCHANGED panicked

StartPower ==
    /\ Running /\ sensor = "power"
    /\ IF layout.states = {}
       THEN sensor' = "failed" /\ UNCHANGED <<panicked, feature_vars, current>>
       ELSE changeState("power", D0_FullPower, "reporting")
    /\ UNCHANGED <<layout, hub, inPMTree, power_vars, rotation_vars>>

\* Once both states are set, the sensor joins the power management tree.
StartReporting ==
    /\ Running /\ sensor = "reporting"
    /\ changeState("reporting", ThresholdEvents, "accelerometer")
    /\ inPMTree' = (sensor' = "accelerometer")
    /\ UNCHANGED <<layout, hub, power_vars, rotation_vars>>

-----------------------------------------------------------------------------
(* VoodooI2CAccelerometerSensor                                            *)

\* The framebuffer of a display, if one is there.
getFramebuffer == display

\* The rest of start: one without axes fails, and stays in the tree.
StartAccelerometer ==
    /\ Running /\ sensor = "accelerometer"
    /\ IF layout.axes
       THEN /\ sensor' = "running" /\ active_framebuffer' = getFramebuffer
            /\ IF layout.change_sensitivity THEN setElementValue ELSE UNCHANGED feature_vars
       ELSE sensor' = "failed" /\ UNCHANGED <<active_framebuffer, feature_vars>>
    /\ UNCHANGED <<layout, hub, inPMTree, panicked, current, power_vars, display,
                   current_rotation, screen, refused, reading>>

Abs(n) == IF n < 0 THEN -n ELSE n

IsFlat(r) == Abs(r.z) > 4 * Abs(r.x) /\ Abs(r.z) > 4 * Abs(r.y)

\* Mutant: the sign of y is lost.
RotationOf_Absolute(r) ==
    IF IsFlat(r) THEN "Flat"
    ELSE IF 3 * Abs(r.y) > 2 * Abs(r.x)
         THEN IF Abs(r.y) > 0 THEN "Rotate180" ELSE "Rotate0"
         ELSE IF r.x > 0 THEN "Rotate90" ELSE "Rotate270"

RotationOf(r) ==
    IF IsFlat(r) THEN "Flat"
    ELSE IF 3 * Abs(r.y) > 2 * Abs(r.x)
         THEN IF r.y > 0 THEN "Rotate180" ELSE "Rotate0"
         ELSE IF r.x > 0 THEN "Rotate90" ELSE "Rotate270"

\* requestProbe, which may be refused (external).
requestProbe(rotation) ==
    \/ screen' = rotation /\ refused' = FALSE
    \/ refused' = TRUE /\ UNCHANGED screen

\* Mutant: a rotation nobody was asked to show is remembered.
rotateDevice_Remembers(rotation) ==
    IF rotation = "Flat" THEN UNCHANGED <<screen, refused, current_rotation>>
    ELSE /\ current_rotation' = rotation
         /\ IF active_framebuffer' THEN requestProbe(rotation)
            ELSE UNCHANGED <<screen, refused>>

\* The rotation is remembered, whether or not the framebuffer complied.
rotateDevice(rotation) ==
    IF active_framebuffer' /\ rotation # "Flat"
    THEN requestProbe(rotation) /\ current_rotation' = rotation
    ELSE UNCHANGED <<screen, refused, current_rotation>>

\* A report of the accelerometer's id, through the hub's handler.
handleInterruptReport(r) ==
    /\ Running /\ hub = "open" /\ sensor = "running" /\ Reports /\ pm # "off"
    /\ reading' = r
    /\ active_framebuffer' = (active_framebuffer \/ getFramebuffer)
    /\ IF current_rotation # RotationOf(r) THEN rotateDevice(RotationOf(r))
       ELSE UNCHANGED <<screen, refused, current_rotation>>
    /\ UNCHANGED <<start_vars, feature_vars, power_vars, current, display>>

-----------------------------------------------------------------------------
(* Power                                                                   *)

\* setPowerState(0), if the sensor is in the tree.
Sleep ==
    /\ Running /\ pm = "on" /\ pm' = "driver_off"
    /\ awake' = (awake /\ ~inPMTree)
    /\ UNCHANGED <<start_vars, feature_vars, current, rotation_vars>>

SleepDevice ==
    /\ Running /\ pm = "driver_off" /\ pm' = "off"
    /\ UNCHANGED <<start_vars, feature_vars, awake, current, rotation_vars>>

\* The device wakes up, with a reset if it has I2C_HID_QUIRK_RESET_ON_RESUME.
WakeDevice ==
    /\ Running /\ pm = "off" /\ pm' = "device_on"
    /\ device' \in {device, [power |-> 0, reporting |-> 0]}
    /\ UNCHANGED <<start_vars, lost, losses, awake, current, rotation_vars>>

KnowsSensitivity == sensor = "running" \/ (sensor = "failed" /\ inPMTree)

\* setPowerState(1).  The write goes through the hub's hid_interface.
setPowerState ==
    /\ Running /\ pm = "device_on" /\ pm' = "on"
    /\ awake' = (awake \/ inPMTree)
    /\ IF inPMTree /\ ~awake /\ layout.change_sensitivity /\ KnowsSensitivity
       THEN \/ hub \notin {"terminating", "stopped"}
               /\ setElementValue /\ UNCHANGED panicked
            \/ hub \in {"terminating", "stopped"}
               /\ panicked' = "setReport" /\ UNCHANGED feature_vars
       ELSE UNCHANGED <<panicked, feature_vars>>
    /\ UNCHANGED <<layout, hub, sensor, inPMTree, current, rotation_vars>>

-----------------------------------------------------------------------------
(* The hub                                                                 *)

\* handleStart, once the sensor has started or failed.  A hub that may not open
\* its interface gives up, and its sensor stays in the tree.
handleStart ==
    /\ Running /\ hub = "starting" /\ sensor \in {"running", "failed"}
    /\ hub' \in {"open", "refused"}
    /\ UNCHANGED <<layout, sensor, inPMTree, panicked, feature_vars, power_vars, current,
                   rotation_vars>>

\* The interface is closed and forgotten; the sensors are not told.
willTerminate ==
    /\ Running /\ hub = "open" /\ hub' = "terminating"
    /\ UNCHANGED <<layout, sensor, inPMTree, panicked, feature_vars, power_vars, current,
                   rotation_vars>>

\* Mutant: VoodooI2CSensor::stop without PMstop.
StaysInTree_Always == inPMTree

\* The sensors in the array are stopped: a failed one never got there.
StaysInTree == inPMTree /\ sensor = "failed"

handleStop ==
    /\ Running /\ hub = "terminating" /\ hub' = "stopped"
    /\ inPMTree' = StaysInTree
    /\ UNCHANGED <<layout, sensor, panicked, feature_vars, power_vars, current,
                   rotation_vars>>

\* A display comes or goes (external); the framebuffer that was found stays.
DisplayChanges ==
    /\ Running /\ display' = ~display
    /\ UNCHANGED <<start_vars, feature_vars, power_vars, current, active_framebuffer,
                   current_rotation, screen, refused, reading>>

-----------------------------------------------------------------------------

NoReading == [x |-> 0, y |-> 0, z |-> 1]

Init ==
    /\ layout \in Layouts
    /\ hub = "starting" /\ sensor = "power" /\ inPMTree = FALSE /\ awake = FALSE
    /\ current = [power |-> "none", reporting |-> "none"] /\ pm = "on"
    /\ device = [power |-> 0, reporting |-> 0] /\ lost = FALSE /\ losses = 0
    /\ panicked = "no"
    /\ display \in BOOLEAN /\ active_framebuffer = FALSE
    /\ current_rotation = "Rotate0" /\ screen = "Rotate0" /\ refused = FALSE
    /\ reading = NoReading

Next ==
    \/ StartPower \/ StartReporting \/ StartAccelerometer
    \/ \E r \in Readings : handleInterruptReport(r)
    \/ Sleep \/ SleepDevice \/ WakeDevice \/ setPowerState
    \/ handleStart \/ willTerminate \/ handleStop
    \/ DisplayChanges

Spec == Init /\ [][Next]_vars

-----------------------------------------------------------------------------
(* Properties                                                              *)

\* Every variable keeps to its type; a position in the device is one of a state
\* that was looked up.
TypeOK ==
    /\ layout \in Layouts
    /\ hub \in {"starting", "open", "refused", "terminating", "stopped"}
    /\ sensor \in {"power", "reporting", "accelerometer", "running", "failed"}
    /\ {inPMTree, awake, lost, display, active_framebuffer, refused} \subseteq BOOLEAN
    /\ current \in [power : {"none", D0_FullPower}, reporting : {"none", ThresholdEvents}]
    /\ pm \in {"on", "driver_off", "off", "device_on"}
    /\ device \in [power : 0..255, reporting : 0..255]
    /\ losses \in 0..MaxLost
    /\ panicked \in {"no", "findPropertyIndex", "setReport"}
    /\ {current_rotation, screen} \subseteq {"Rotate0", "Rotate90", "Rotate180", "Rotate270"}
    /\ reading \in Readings \cup {NoReading}

\* A running sensor whose sensitivity can be set reports between power changes,
\* wherever sleep, reset and wake fell into its start, unless its last write was
\* lost (setElementValue, setPowerState).  Its states must be listed after the
\* array itself, for the first child is written as 255.
ReportsWhenAwake ==
    /\ sensor = "running" /\ pm = "on" /\ ~lost /\ hub = "open"
    /\ layout.change_sensitivity
    /\ layout.power[1] # D0_FullPower /\ layout.reporting[1] # ThresholdEvents
    => Reports

\* start meets NULL only when one of the states is declared and one of them has
\* no values to list (findPropertyIndex); setReport only while the hub terminates,
\* or later for a sensor that failed after it had joined the power management tree.
\* Neither a refused hub nor a sensor that was stopped meets it.
PanicsOnly ==
    /\ panicked = "findPropertyIndex" =>
           layout.states # {} /\ \E state \in {"power", "reporting"} : ~HasChildren(state)
    /\ panicked = "setReport" => hub = "terminating" \/ (sensor = "failed" /\ inPMTree)

\* The picture stands as the last reading says, however late its framebuffer came,
\* unless the framebuffer refused to turn it (handleInterruptReport, rotateDevice).
PictureFollows ==
    /\ active_framebuffer /\ ~refused
    /\ reading # NoReading /\ RotationOf(reading) # "Flat"
    => screen = RotationOf(reading)

Opposite == [Flat |-> "Flat", Rotate0 |-> "Rotate180", Rotate180 |-> "Rotate0",
             Rotate90 |-> "Rotate270", Rotate270 |-> "Rotate90"]

Negated(r) == [x |-> -r.x, y |-> -r.y, z |-> -r.z]

Weightless(r) == r.x = 0 /\ r.y = 0 /\ r.z = 0

\* A device that is turned over shows the opposite picture: the thresholds do not
\* prefer a side, nor lose -32768, of which the opposite has no 16 bits, except when
\* nothing is measured at all (handleInterruptReport).
OppositeTilt ==
    ~Weightless(reading) => RotationOf(Negated(reading)) = Opposite[RotationOf(reading)]
=============================================================================
