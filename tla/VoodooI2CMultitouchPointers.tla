--------------------- MODULE VoodooI2CMultitouchPointers ---------------------
(***************************************************************************)
(* When VoodooI2CMultitouchHIDEventDriver ignores the trackpad: a USB or   *)
(* Bluetooth pointer is attached and the user wants that                   *)
(* (USBMouseStopsTrackpad), or the keyboard driver says so.  Three kinds   *)
(* of threads meet: notifications, which take the command gate;            *)
(* setProperties and message, which do not; and start and handleStop.      *)
(*                                                                         *)
(* External: IOService, which installs a notifier before                   *)
(* addMatchingNotification returns it, notifies of one device in order,    *)
(* and lets remove() wait for the handlers it has called; and the          *)
(* IORegistry, in which an interface may or may not have its child yet.    *)
(***************************************************************************)
EXTENDS Integers, Sequences

CONSTANTS
    UsbDevices, BluetoothDevices,   \* bound: what comes and goes
    Pointers,                       \* those that pass the handler's filters
    Listens                         \* Process...MouseStopsTrackpad of Info.plist

ASSUME PointersAssumption ==
    /\ UsbDevices \cap BluetoothDevices = {}
    /\ Pointers \subseteq UsbDevices \cup BluetoothDevices
    /\ Listens \subseteq {"usb", "bluetooth"}

VARIABLES
    life,           \* "new", "visible", "gated", "counting", "started",
                    \* "stopping", "released", "stopped"
    registered,     \* how many notifiers are known to the driver,
    installing,     \* whether IOService has the next one already,
    removed,        \* and how many are gone again
    attached_hid_pointer_devices,
    ignore_mouse, ignore_all,
    setter,         \* where setProperties is: "idle", "count", "write"
    present,        \* the devices on the bus
    calls,          \* of the handlers: a device and a notifier
    panicked,       \* "no", or whose NULL pointer it was
    cause,          \* history: why ignore_all was last set
    unheard         \* history: counted devices that left without a notification

driver_vars   == <<attached_hid_pointer_devices, ignore_mouse, ignore_all>>
notifier_vars == <<registered, installing, removed>>
bus_vars      == <<present, calls>>
ghost_vars    == <<cause, unheard>>
vars == <<life, notifier_vars, driver_vars, setter, bus_vars, panicked, ghost_vars>>

Devices == UsbDevices \cup BluetoothDevices

Bus(d) == IF d \in UsbDevices THEN "usb" ELSE "bluetooth"

-----------------------------------------------------------------------------
(* The four notifiers                                                      *)

OfBus(bus) == IF bus \in Listens THEN << <<bus, "publish">>, <<bus, "terminate">> >>
              ELSE << >>

Notifiers == OfBus("usb") \o OfBus("bluetooth")

\* Known: its member is set.  Installed: IOService calls the handler for it.
Known(n) == \E i \in (removed + 1)..registered : Notifiers[i] = n
Installed(n) ==
    \E i \in (removed + 1)..(registered + IF installing THEN 1 ELSE 0) : Notifiers[i] = n

Running == panicked = "no"

HasGate == life \in {"gated", "counting", "started", "stopping", "released"}
HasSet  == life \in {"counting", "started", "stopping"}

-----------------------------------------------------------------------------
(* start                                                                   *)

Proceed(from, to) ==
    /\ Running /\ life = from /\ life' = to
    /\ UNCHANGED <<notifier_vars, driver_vars, setter, bus_vars, panicked, ghost_vars>>

\* super::start: the service is registered, and so visible.
SuperStart  == Proceed("new", "visible")
CreateGate  == Proceed("visible", "gated")
CreateSet   == Proceed("gated", "counting")
StartReturns == registered = Len(Notifiers) /\ Proceed("counting", "started")

\* addMatchingNotification calls the handler for devices that are there already,
\* with a notifier the driver does not know yet: they are never counted.
Install ==
    /\ Running /\ life = "counting" /\ ~installing /\ registered < Len(Notifiers)
    /\ installing' = TRUE
    /\ UNCHANGED <<life, registered, removed, driver_vars, setter, bus_vars, panicked,
                   ghost_vars>>

registerHIDPointerNotifications ==
    /\ Running /\ installing
    /\ installing' = FALSE /\ registered' = registered + 1
    /\ UNCHANGED <<life, removed, driver_vars, setter, bus_vars, panicked, ghost_vars>>

-----------------------------------------------------------------------------
(* handleStop                                                              *)

HandleStop == Proceed("started", "stopping")

unregisterHIDPointerNotifications ==
    /\ Running /\ life = "stopping" /\ removed < registered
    /\ \A c \in calls : c.notifier # Notifiers[removed + 1]
    /\ removed' = removed + 1
    /\ UNCHANGED <<life, registered, installing, driver_vars, setter, bus_vars, panicked,
                   ghost_vars>>

\* Mutant: the set is released before the notifiers.
SetCanGo_First == TRUE

SetCanGo == removed = registered

ReleaseSet  == SetCanGo /\ Proceed("stopping", "released")
ReleaseGate == Proceed("released", "stopped")

-----------------------------------------------------------------------------
(* Devices come and go (external)                                          *)

Notify(d, event) ==
    calls' = IF Installed(<<Bus(d), event>>)
             THEN calls \cup {[device |-> d, notifier |-> <<Bus(d), event>>]} ELSE calls

InOrder(d) == \A c \in calls : c.device # d

Publish(d) ==
    /\ Running /\ d \notin present /\ InOrder(d)
    /\ present' = present \cup {d} /\ unheard' = unheard \ {d}
    /\ Notify(d, "publish")
    /\ UNCHANGED <<life, notifier_vars, driver_vars, setter, panicked, cause>>

Terminate(d) ==
    /\ Running /\ d \in present /\ InOrder(d)
    /\ present' = present \ {d} /\ Notify(d, "terminate")
    /\ unheard' = IF calls' = calls THEN unheard \cup {d} ELSE unheard
    /\ UNCHANGED <<life, notifier_vars, driver_vars, setter, panicked, cause>>

-----------------------------------------------------------------------------
(* notificationHIDAttachedHandlerGated                                     *)

\* Mutant: ignore_all is decided before the device is taken out.
Remaining_Before(d) == attached_hid_pointer_devices

\* The pointers that are left when ignore_all is decided.
Remaining(d) == attached_hid_pointer_devices \ {d}

\* Mutant: devices are only ever put in.
Removes_Nothing(d) == attached_hid_pointer_devices

Removes(d) == attached_hid_pointer_devices \ {d}

\* Mutant: touchscreens are not filtered.
Counts_All(d) == {d}

\* What of a device goes into the set: touchscreens and other classes do not.
Counts(d) == {d} \cap Pointers

Published(d) ==
    /\ attached_hid_pointer_devices' = attached_hid_pointer_devices \cup Counts(d)
    /\ IF ignore_mouse /\ attached_hid_pointer_devices' # {}
       THEN ignore_all' = TRUE /\ cause' = "pointer"
       ELSE UNCHANGED <<ignore_all, cause>>
    /\ UNCHANGED unheard

Terminated(d) ==
    /\ attached_hid_pointer_devices' = Removes(d)
    /\ IF ignore_mouse /\ Remaining(d) = {}
       THEN ignore_all' = FALSE /\ cause' = "none"
       ELSE /\ UNCHANGED ignore_all
            /\ cause' = IF setter # "idle" /\ Remaining(d) = {} THEN "race" ELSE cause
    /\ UNCHANGED unheard

\* A USB interface without its child is left at once; a notifier that is none of
\* the driver's own members matches nothing.
Unmatched(c) ==
    /\ \/ c.notifier = <<"usb", "publish">>
       \/ ~Known(c.notifier)
    /\ unheard' = IF c.notifier[2] = "terminate" THEN unheard \cup {c.device} ELSE unheard
    /\ UNCHANGED <<attached_hid_pointer_devices, ignore_all, cause>>

notificationHIDAttachedHandler(c) ==
    /\ Running /\ c \in calls /\ calls' = calls \ {c}
    /\ IF HasGate /\ HasSet
       THEN /\ \/ Known(c.notifier) /\ c.notifier[2] = "publish" /\ Published(c.device)
               \/ Known(c.notifier) /\ c.notifier[2] = "terminate" /\ Terminated(c.device)
               \/ Unmatched(c)
            /\ UNCHANGED panicked
       ELSE panicked' = "handler" /\ UNCHANGED <<driver_vars, ghost_vars>>
    /\ UNCHANGED <<life, notifier_vars, ignore_mouse, setter, present>>

-----------------------------------------------------------------------------
(* setProperties and message, outside of the gate                          *)

setProperties(value) ==
    /\ Running /\ life # "new" /\ setter = "idle"
    /\ ignore_mouse' = value /\ setter' = "count"
    /\ UNCHANGED <<life, notifier_vars, attached_hid_pointer_devices, ignore_all,
                   bus_vars, panicked, ghost_vars>>

SetterCounts ==
    /\ Running /\ setter = "count"
    /\ IF HasSet
       THEN /\ setter' = IF attached_hid_pointer_devices # {} THEN "write" ELSE "idle"
            /\ UNCHANGED panicked
       ELSE panicked' = "setProperties" /\ UNCHANGED setter
    /\ UNCHANGED <<life, notifier_vars, driver_vars, bus_vars, ghost_vars>>

SetterWrites ==
    /\ Running /\ setter = "write" /\ setter' = "idle"
    /\ ignore_all' = ignore_mouse
    /\ cause' = IF ~ignore_mouse THEN "none"
                ELSE IF attached_hid_pointer_devices = {} THEN "race" ELSE "pointer"
    /\ UNCHANGED <<life, notifier_vars, attached_hid_pointer_devices, ignore_mouse,
                   bus_vars, panicked, unheard>>

\* kKeyboardSetTouchStatus.
message(enable) ==
    /\ Running /\ life # "new"
    /\ enable = ignore_all
    /\ ignore_all' = ~enable
    /\ cause' = IF enable THEN "none" ELSE "keyboard"
    /\ UNCHANGED <<life, notifier_vars, attached_hid_pointer_devices, ignore_mouse,
                   setter, bus_vars, panicked, unheard>>

-----------------------------------------------------------------------------

\* Some devices are there before the driver.
Init ==
    /\ life = "new" /\ registered = 0 /\ installing = FALSE /\ removed = 0
    /\ attached_hid_pointer_devices = {} /\ ignore_mouse = FALSE /\ ignore_all = FALSE
    /\ setter = "idle" /\ present \in SUBSET Devices /\ calls = {}
    /\ panicked = "no" /\ cause = "none" /\ unheard = {}

Handle(d) == \E c \in calls : c.device = d /\ notificationHIDAttachedHandler(c)

Next ==
    \/ SuperStart \/ CreateGate \/ CreateSet \/ Install
    \/ registerHIDPointerNotifications \/ StartReturns
    \/ HandleStop \/ unregisterHIDPointerNotifications \/ ReleaseSet \/ ReleaseGate
    \/ \E d \in Devices : Publish(d) \/ Terminate(d) \/ Handle(d)
    \/ \E b \in BOOLEAN : setProperties(b) \/ message(b)
    \/ SetterCounts \/ SetterWrites

\* Handlers that were called run: the command gate is never held for long.
Spec == Init /\ [][Next]_vars /\ \A d \in Devices : WF_vars(Handle(d))

-----------------------------------------------------------------------------
(* Properties                                                              *)

\* Every variable keeps to its type; notifiers go in the order they came, and a
\* handler has been called only for one that IOService still has.
TypeOK ==
    /\ life \in {"new", "visible", "gated", "counting", "started", "stopping",
                 "released", "stopped"}
    /\ removed <= registered /\ registered <= Len(Notifiers) /\ installing \in BOOLEAN
    /\ attached_hid_pointer_devices \subseteq Pointers
    /\ <<ignore_mouse, ignore_all>> \in BOOLEAN \X BOOLEAN
    /\ setter \in {"idle", "count", "write"}
    /\ present \subseteq Devices
    /\ \A c \in calls : c.device \in Devices /\ Installed(c.notifier)
    /\ panicked \in {"no", "handler", "setProperties"}
    /\ cause \in {"none", "pointer", "keyboard", "race"} /\ unheard \subseteq Devices

\* No handler finds the gate or the set of pointers missing, however start and
\* handleStop interleave with devices; setProperties does, but only outside of
\* the time between CreateSet and the end of handleStop.
HandlersAreSafe ==
    /\ panicked # "handler"
    /\ panicked = "setProperties" => ~HasSet

\* A trackpad that was switched off because of a pointer stays off only as long
\* as one is counted, unless setProperties overlapped the handler (cause = "race").
IgnoredForAReason ==
    HasSet /\ ignore_all /\ cause = "pointer" => attached_hid_pointer_devices # {}

\* What is counted is there, or a call of the handler is on its way to take it
\* out, or it left before the notifier that tells of it was known or after it was
\* removed (registerHIDPointerNotifications).
CountedAreThere ==
    \A d \in attached_hid_pointer_devices :
        \/ d \in present \/ d \in unheard
        \/ [device |-> d, notifier |-> <<Bus(d), "terminate">>] \in calls

\* A counted pointer that leaves is taken out of the set, or is back, unless its
\* notifier was not known yet (notificationHIDAttachedHandler).
GoneIsNoticed ==
    \A d \in Pointers :
        (d \in attached_hid_pointer_devices \ (present \cup unheard)) ~>
            \/ d \notin attached_hid_pointer_devices
            \/ d \in present \/ d \in unheard \/ ~Running
=============================================================================
