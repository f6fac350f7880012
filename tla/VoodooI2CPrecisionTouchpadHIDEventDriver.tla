-------------- MODULE VoodooI2CPrecisionTouchpadHIDEventDriver --------------
(***************************************************************************)
(* VoodooI2CPrecisionTouchpadHIDEventDriver: the multitouch driver for a   *)
(* touchpad that behaves as a mouse until it is told to be a touchpad, and *)
(* forgets that when it is reset.  Composes the frames of the multitouch   *)
(* driver, the framing of set report and the order in which the kernel     *)
(* changes the power of the driver and of the device it sits on.           *)
(*                                                                         *)
(* External: power management, which puts the driver to sleep before the   *)
(* device and wakes the device, with its reset, before the driver; the     *)
(* bus, on which a write may be lost: nobody looks at its result.          *)
(***************************************************************************)
EXTENDS VoodooI2CMultitouchFrames, VoodooI2CHIDDeviceReports

CONSTANTS
    InputModeReports,   \* bound: the ids the report of the input mode may have
    MaxLost             \* bound: how many writes of the mode are lost

ASSUME InputModeReportsAssumption == InputModeReports \subseteq Byte
ASSUME MaxLostAssumption == MaxLost \in Nat

VARIABLES
    ready, awake,
    input_mode,      \* the element: the value the host believes it has
    has_input_mode,  \* the report descriptor declares it (digitiser.input_mode)
    input_mode_id,   \* the report it is in
    life,            \* where handleStart is: "starting", "opened", "started", "failed";
                     \* or "panicked", once NULL was dereferenced
    pm,              \* "on", "driver_off", "off", "device_on": who has been told
    mode,            \* the device's own input mode
    lost,            \* the last write of the mode did not arrive
    losses

mode_vars == <<ready, input_mode, mode, lost, losses>>
pm_vars   == <<awake, pm>>
descriptor_vars == <<has_input_mode, input_mode_id>>
vars      == <<frame_vars, mode_vars, pm_vars, life, descriptor_vars>>

INPUT_MODE_MOUSE    == 0
INPUT_MODE_TOUCHPAD == 3

-----------------------------------------------------------------------------
(* enterPrecisionTouchpadMode                                              *)

\* Mutant: setValue, which drops a write of the value the element has.
Writes_Changes == input_mode # INPUT_MODE_TOUCHPAD

\* setDataValue writes whatever the element's value was.
Writes == TRUE

\* A device takes a report that arrives whole under the id it knows; under the
\* short form of its id it may or may not (external).
Takes(data) ==
    LET report == ReportOf(input_mode_id, <<INPUT_MODE_TOUCHPAD>>) IN
    IF data = report THEN {TRUE}
    ELSE IF data # <<>> /\ Tail(data) = <<INPUT_MODE_TOUCHPAD>> THEN BOOLEAN ELSE {FALSE}

WriteMode ==
    LET report == ReportOf(input_mode_id, <<INPUT_MODE_TOUCHPAD>>)
        taken  == Takes(Received(setReport(report, "feature", input_mode_id)))
    IN
    \/ /\ Writes /\ lost' = FALSE /\ UNCHANGED losses
       /\ \/ TRUE \in taken /\ mode' = INPUT_MODE_TOUCHPAD
          \/ FALSE \in taken /\ UNCHANGED mode
    \/ /\ Writes /\ losses < MaxLost
       /\ lost' = TRUE /\ losses' = losses + 1 /\ UNCHANGED mode
    \/ ~Writes /\ UNCHANGED <<mode, lost, losses>>

\* Mutant: what has arrived of a frame is forgotten.
enterPrecisionTouchpadMode_Restarts ==
    /\ WriteMode
    /\ ready' = TRUE /\ input_mode' = INPUT_MODE_TOUCHPAD
    /\ digitiser' = [digitiser EXCEPT !.current_report = 1]
    /\ UNCHANGED <<descriptor, ignore_vars, transducers, external_buttons, event,
                   device_vars, history_vars>>

enterPrecisionTouchpadMode ==
    /\ WriteMode
    /\ ready' = TRUE /\ input_mode' = INPUT_MODE_TOUCHPAD
    /\ UNCHANGED frame_vars

-----------------------------------------------------------------------------
(* handleStart                                                             *)

\* super::handleStart: the interface is open and the power driver registered.
handleStart ==
    /\ life = "starting" /\ life' = "opened"
    /\ UNCHANGED <<frame_vars, mode_vars, pm_vars, descriptor_vars>>

\* The rest of handleStart, when its interface is open already.  Without an input
\* mode it fails, and leaves the interface open and the power driver registered.
StartsMode ==
    /\ life = "opened"
    /\ \/ has_input_mode /\ enterPrecisionTouchpadMode /\ life' = "started"
       \/ ~has_input_mode /\ UNCHANGED <<frame_vars, mode_vars>> /\ life' = "failed"
    /\ UNCHANGED <<pm_vars, descriptor_vars>>

ReadyForReports ==
    /\ life = "started" /\ Started
    /\ UNCHANGED <<mode_vars, pm_vars, life, descriptor_vars>>

-----------------------------------------------------------------------------
(* Power                                                                   *)

\* setPowerState(0) of the driver, which its power driver hears from then on.
Sleep ==
    /\ life # "starting" /\ pm = "on" /\ pm' = "driver_off"
    /\ awake' = FALSE
    /\ UNCHANGED <<frame_vars, mode_vars, life, descriptor_vars>>

SleepDevice ==
    /\ pm = "driver_off" /\ pm' = "off"
    /\ UNCHANGED <<frame_vars, mode_vars, awake, life, descriptor_vars>>

\* The device wakes up; one with I2C_HID_QUIRK_RESET_ON_RESUME is reset.
WakeDevice ==
    /\ pm = "off" /\ pm' = "device_on"
    /\ \/ DeviceReset /\ mode' = INPUT_MODE_MOUSE
       \/ UNCHANGED <<frame_vars, mode>>
    /\ UNCHANGED <<ready, input_mode, lost, losses, awake, life, descriptor_vars>>

\* setPowerState(1) of the driver, after IOSleep(10).  Whether there is an input
\* mode is not looked at.
Wake ==
    /\ pm = "device_on" /\ pm' = "on"
    /\ awake' = (awake \/ has_input_mode)
    /\ \/ ~awake /\ has_input_mode /\ enterPrecisionTouchpadMode /\ UNCHANGED life
       \/ ~awake /\ ~has_input_mode
          /\ life' = "panicked" /\ UNCHANGED <<frame_vars, mode_vars>>
       \/ awake /\ UNCHANGED <<frame_vars, mode_vars, life>>
    /\ UNCHANGED descriptor_vars

-----------------------------------------------------------------------------
(* handleInterruptReport                                                   *)

\* A touchpad sends frames, a mouse the reports of another collection.
handlePrecisionReport ==
    /\ life # "starting" /\ pm # "off"
    /\ \/ mode = INPUT_MODE_TOUCHPAD /\ Report(Taken /\ ready)
       \/ mode = INPUT_MODE_MOUSE /\ ForeignReport(Taken /\ ready)
    /\ UNCHANGED <<mode_vars, pm_vars, life, descriptor_vars>>

Ignored == Ignore /\ UNCHANGED <<mode_vars, pm_vars, life, descriptor_vars>>

-----------------------------------------------------------------------------

PrecisionInit ==
    /\ Init
    /\ ready = FALSE /\ awake = TRUE
    /\ has_input_mode \in BOOLEAN /\ input_mode_id \in InputModeReports
    /\ input_mode = INPUT_MODE_MOUSE
    /\ life = "starting" /\ pm = "on"
    /\ mode = INPUT_MODE_MOUSE /\ lost = FALSE /\ losses = 0

PrecisionNext ==
    /\ life # "panicked"
    /\ \/ handleStart \/ StartsMode \/ ReadyForReports
       \/ Sleep \/ SleepDevice \/ WakeDevice \/ Wake
       \/ handlePrecisionReport \/ Ignored

PrecisionSpec == PrecisionInit /\ [][PrecisionNext]_vars

-----------------------------------------------------------------------------
(* Properties                                                              *)

\* Between power changes a started touchpad is one, however sleep, reset and wake
\* fell in with its start, unless the last write was lost or the report has an id
\* that needs the third byte, in whose place set report sends 15
\* (enterPrecisionTouchpadMode, setPowerState, setReport).
TouchpadMode ==
    life = "started" /\ pm = "on" /\ ~lost /\ input_mode_id < 15 =>
        mode = INPUT_MODE_TOUCHPAD

\* Whatever the driver adds, its frames are the multitouch driver's, across sleep
\* and reset: reports are dropped for one reason more (handleInterruptReport).
Frames == INSTANCE VoodooI2CMultitouchFrames WITH ignoring <- (ignoring \/ ~ready)
ImplementsFrames == Frames!Spec
=============================================================================
