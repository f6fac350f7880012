# VoodooI2CHID in TLA+

VoodooI2CHID is a macOS kernel extension: an I2C-HID transport driver and the
HID event drivers for touchpads, touchscreens, styluses and sensor hubs that sit
on it. This directory holds a formal model of its control logic, written from
the source in `src/VoodooI2CHID`, the TLC runs that check it on small instances,
and TLAPS proofs about it. `PROJECT.json` maps every definition to the lines it
stands for.

## 1. Inventory

| Part | State it keeps | Operations | What is hard | What makes it correct |
|---|---|---|---|---|
| **VoodooI2CHIDDevice** (transport) | power (`awake`), readiness, event source and its flag, command gate, API reference, quirks | `handleStart`, `start`, `stop`, `releaseResources`, `resetHIDDevice`, `getInputReport` by interrupt or by polling timer, `setPowerState`, `lookupQuirks`, get/set report, descriptors | three kernel threads; a reset sleeps inside the work loop's gate and is woken by the input path; lost writes; teardown beside live callers; lengths in 8 and 16 bits | no answer is lost; power and listening follow `awake`; every power change ends; no I/O after release |
| **Clients of the device** | `clients`, `client_lock` | `open`, `close`, the loop in `stop`, `init`, `free` | clients close while `stop` sleeps; refused opens | `stop` passes exactly when nobody holds the device; no lost wakeup |
| **Multitouch event driver: frames** | the digitiser's wrappers and their transducers, `report_count`, `current_report`, `current_contact_count` | `parseElements`, `handleInterruptReport`, `handleDigitizerReport`, `forwardReport` | a frame spread over reports, some dropped; reports of other collections in between; arithmetic in 8 bits | a frame is forwarded once and whole; nobody touches who has lifted |
| **Multitouch event driver: pointers** | `ignore_all`, `ignore_mouse`, the set of attached pointers, four notifiers | notifications, `setProperties`, `message`, `start`, `handleStop` | three kinds of threads write `ignore_all`, two of them outside the gate; devices come and go during start and stop | the trackpad is ignored for a reason; handlers never find their set gone |
| **Precision touchpad driver** | `ready`, `awake` | `enterPrecisionTouchpadMode`, `handleStart`, `setPowerState`, reports | the mode must be entered again after a reset; nobody notices a lost write; driver and device change power one after the other | a touchpad between power changes; frames are still frames |
| **Touchscreen event driver** | the touch (down, right click, drag), scroll, four time stamps, three timers | `forwardReport`, `checkFingerTouch`, `checkStylus`, `scrollPosition`, `fingerLift`, `dragStart`, `resetScroll`, `handleStart`, `handleStop` | frames and timers interleave; a lift is only noticed by a timer; 32 bit geometry | no phantom click after a scroll; every press is released; no touch is forgotten |
| **Sensor hub, accelerometer** | power and reporting state of a sensor, rotation, framebuffer | start, `changeState`, `setElementValue`, `setPowerState`, `handleInterruptReport`, termination | positions in 8 bits, layouts nobody tried, failing starts that stay in the power tree | reports after every wake; the picture follows the device |
| **Stylus event driver** | none of its own | `checkStylus`, `forwardReport` | - | - |
| **Transducer wrapper** | an array, `first_identifier` | `init`, `free`, `wrapper` | - | - |
| **Device overrides** | constants | `getHIDDescriptor` and the report descriptor | - | - |
| **Info.plist, Xcode project** | matching data | read by IOKit and Xcode | - | - |

How they interact: IOKit calls `probe`, `handleStart`, `start` and `stop` from one
thread, power management calls `setPowerState` from another, and the work loop
thread runs interrupts and timers. The device hands input reports to IOHIDFamily
(`handleReport`), which calls `handleInterruptReport` of the event driver; that
one fills the transducers and calls `forwardReport`, which the touchscreen, the
stylus and the precision drivers override and which ends at the multitouch
interface (another kernel extension). Event drivers are clients of the device:
they `open` it, and `stop` waits for their `close`.

## 2. Modules

| Module | Models | Source |
|---|---|---|
| `VoodooI2CHIDDevice` | life, reset, input and power of one device | `VoodooI2CHIDDevice.cpp`, the quirk table of the header |
| `VoodooI2CHIDDeviceReports` | operators: the framing of set report | `VoodooI2CHIDDevice.cpp` |
| `ClientBarrier` | abstract: hold, leave, shut, pass | |
| `VoodooI2CHIDDeviceClients` | `init`, `open`, `close`, `stop`'s loop, `free`; implements `ClientBarrier` | `VoodooI2CHIDDevice.cpp` |
| `VoodooI2CMultitouchFrames` | frames from reports | `VoodooI2CMultitouchHIDEventDriver.cpp`, the wrapper class |
| `VoodooI2CMultitouchPointers` | when the trackpad is ignored | `VoodooI2CMultitouchHIDEventDriver.cpp` |
| `VoodooI2CPrecisionTouchpadHIDEventDriver` | the input mode; extends the frames and the framing, implements the frames | `VoodooI2CPrecisionTouchpadHIDEventDriver.cpp` |
| `VoodooI2CTouchscreenHIDEventDriver` | frames, timers, geometry | `VoodooI2CTouchscreenHIDEventDriver.cpp` |
| `VoodooI2CSensorHubEventDriver` | a hub and its accelerometer | `Sensors/*.cpp` |

A module `X_proofs` holds the theorems about `X`, and `MC...` the instances for
TLC. A definition whose comment begins with *Mutant* is a bug the code does not
have; it takes the place of the definition after it to show that a property
would notice.

### VoodooI2CHIDDevice

Three threads: `life` (IOKit), `pm` (power management) and `wl` (work loop).
`pc` says where each is, `gate` who is inside the work loop's lock. An action is
the code between two points at which another thread can tell the difference, and
carries the name of the function it is part of:

| Code | Actions |
|---|---|
| `handleStart` | `handleStart` (up to the reset), then the reset, then `RegisterPower` |
| `resetHIDDevice`, `resetHIDDeviceGated` | `resetHIDDevice(t)` enters the gate (`runAction`), waits for it to be enabled, or meets a NULL gate; `resetHIDDeviceGated(t)` writes; `ResetSleeps(t)` is `commandSleep`; `ResetDeadline(t)` its 12 seconds; `ResetReturns(t)`; `ResetAborted(t)` when the gate is removed |
| `start`, `stop`, `releaseResources` | `start`, `stop`, `DisableCommandGate`, `RemoveCommandGate`, `ReleaseInterrupt`, `RemoveEventSource`, `ReleaseApi`, `PMstop` |
| `setPowerState` | `SleepCalled`, `PowerCommand`, `SleepDone`, `WakeCalled`, and the reset |
| `interruptOccured`, `simulateInterrupt`, `getInputReport` | the same names; the first two enter, the third reads, wakes and leaves |
| the device (external) | `DeviceResetDone`, `DeviceInput` |

What is folded into one step, and why nothing is lost:

- `setHIDPowerState`'s retries are taken at the last write. The failed ones do
  nothing to the device, and the sleep between them only lasts longer.
- the power command and the reset command of `resetHIDDeviceGated` are one step:
  the gate is held from before the first to the sleep.
- `startInterrupt` and `lookupQuirks` of `handleStart` belong to its success;
  no other thread knows the object before the reset is called.
- `stopInterrupt` with `awake = false`, and `awake = true` with `startInterrupt`,
  are one step each: nothing but the work loop looks at them, and an interrupt
  between the two is refused by either.
- the 100ms of the quirk `NO_IRQ_AFTER_RESET` are not a step: the gate is held.
- `report[0] | report[1] << 8` is one of five values: nothing to read and the
  answer to a reset (both of length 0), a report, a length beyond
  `wMaxInputLength`, and a length of 1. A failed read yields what `IOMalloc` returned: any of them.
- The failure of `IOHIDDevice::start` after `handleStart` is IOKit's and not
  modelled.

The interrupt line is level triggered: `interruptOccured` is enabled as long as
the device has output. The device is on or asleep, may be resetting, and has one
output slot, which a reset clears.

`Crash` (`panic`) is the dereference of a NULL pointer; the kernel stops there.

### VoodooI2CHIDDeviceReports

`setReport` composes the command in the code's widths: the id in four bits with
a third byte from 15 on, the size in 16 bits, the length written in 8. `Body`
takes the id off the report, `Data` puts it back in its short form. What
IOHIDDevice hands over (`ReportOf`) and what a device makes of it (`Received`)
are external.

### VoodooI2CHIDDeviceClients and ClientBarrier

`clients` is an `OSArray` that may hold a client more than once (`setObject`
appends), so the model counts `entries` of each. `open` and `close` are split
where they leave `client_lock`; the loop in `stop` at the sleep. `IOLockSleep`
leaves the lock and sleeps in one step. `super::open` is external: it refuses
when termination has begun and, with `Refusals`, whenever it likes.

`ClientBarrier` says what the three promise together: a holder is somebody whose
`open` succeeded and whose `close` has not begun, nobody becomes one after the
device is shut, and `stop` passes only when there is none. The refinement maps
`holders` to the clients at `"opened"` and `phase` to `inactive` and the owner's
position.

### VoodooI2CMultitouchFrames

A digitiser is what `parseElements` reads of it: the number of finger
collections, the contact maximum, whether there is a stylus, which external
buttons. `fingers` is the loop that removes collections until they divide the
maximum, `wrapper_count` the number of `VoodooI2CHIDTransducerWrapper`s.

| Code | Definitions |
|---|---|
| `handleInterruptReport` | `Taken` (its early returns), `FrameStarts` (a report with a contact count), `handleInterruptReport` (the rest), `AfterFrame` |
| `handleDigitizerReport` | `WrapperOf`, `handleDigitizerReport`; the buttons |
| `handleDigitizerTransducerReport` | the same name: contact by contact |
| `ignore_all`, the quiet time after a key, `readyForReports` | `Ignore`, `Started` |
| the device (external) | `Frame`, `NextReport`, `ForeignReport`, `DeviceReset` |

A contact is its identifier and its tip: the other elements are copied the same
way. Element values are kept by IOHIDDevice whether the driver takes the report
or not, and another collection's report makes the driver read them again; that is
`ForeignReport`. `disturbed`, `forwards` and `missed` are history: what came
between the reports of this frame, how often it was forwarded, and whose lift the
driver could not have known of.

What is assumed of the device: at least one finger collection, contacts that
carry identifiers below the contact maximum, ordered by identifier, and those who
lifted reported once more without their tip.

### VoodooI2CMultitouchPointers

`life` is where the thread of `start` and `handleStop` is, up to the next place
where a notification or a setter can tell; `setter` where `setProperties` is,
which reads and writes outside of the gate and is split at each access.
Notifications run in the gate, one step each. IOService (external) has a notifier
before `addMatchingNotification` returns it: `Install` and
`registerHIDPointerNotifications` are the two ends of that. A handler called in
between gets a notifier that is none of the driver's members and does nothing.

| Code | Actions |
|---|---|
| `start` | `SuperStart`, `CreateGate`, `CreateSet`, `Install`, `registerHIDPointerNotifications`, `StartReturns` |
| `notificationHIDAttachedHandler`, `...Gated` | `notificationHIDAttachedHandler(c)`: `Published`, `Terminated`, `Unmatched` |
| `setProperties`, `message` | `setProperties`, `SetterCounts`, `SetterWrites`; `message` |
| `handleStop` | `HandleStop`, `unregisterHIDPointerNotifications`, `ReleaseSet`, `ReleaseGate` |
| devices (external) | `Publish`, `Terminate` |

`cause` records why `ignore_all` was last set, `unheard` which counted devices
left while no notifier of the driver's could tell.

### VoodooI2CPrecisionTouchpadHIDEventDriver

Extends the frames with `ready`, the input mode (which a descriptor may lack:
`has_input_mode`) and the order of power changes:
the driver is put to sleep before the device, and the device wakes, with or
without a reset, before the driver. `mode` is the device's own, `input_mode` the
element's value at the host; `enterPrecisionTouchpadMode` writes it as
`setReport` frames it, and the write may be lost. While the device is a mouse, its
reports are `ForeignReport`s of the frames. `Frames` is the module of the frames
again with `ignoring <- (ignoring \/ ~ready)`: the driver's own reason to drop
reports is one more way to ignore them, and nothing else about frames changes.

### VoodooI2CTouchscreenHIDEventDriver

One action per branch of `forwardReport` (`TouchBegins`, `TouchDrags`,
`TouchHolds`, `checkStylus`, `Multitouch`), one per timer, and `Tick`, which
lets 50ms pass. All run on the work loop, one at a time. Time stamps are ages
that stop counting where no comparison can tell. A frame that is too soon after
a multitouch frame, or without a finger that touches, only goes to the
multitouch interface: it changes nothing here and is left out.
`isCloseTo` is computed as the code computes it, in 32 signed bits; TLC's own
integers have as many, so the square is kept in two halves. (The overflow is
undefined in C++; what x86 and ARM compilers generate wraps, which is what is
modelled.) `dispatched` holds the events of the last step, `pointer` what the
last of them left pressed. Which transducer and which stylus button a frame
carries, `checkRotation` and the framebuffer's lookup are data, and abstracted.

`OrderedTimers` says whether timers due in the same tick fire in the order of
their deadlines. `touchscreen_safety` does not assume it.

### VoodooI2CSensorHubEventDriver

One hub with one accelerometer; sensors share nothing but the hub's interface. A
`layout` is what the report descriptor declares: the children of the elements for
the power and the reporting state (a list of usages, the array itself first), which of the
two elements exist (with children or without), whether the sensitivity can be set and whether there are
axes. `sensor` is where its `start` is: the two `changeState`, the accelerometer's
own start, then running or failed. `findPropertyIndex` is the code's, in 8 bits;
`UsageAt` what the position means to the device (external). `setElementValue`
writes the whole feature report, and with it the states that the sensor believes
in: that is how a sensor reports again after a reset. `screen` is how the picture
stands, `current_rotation` what the driver remembers of it.

## 3. Runs

| Run | Checks | Bounds |
|---|---|---|
| `device_life` | `TypeOK`, `AckNotLost`, `AwakeMeansListening`, `NoIOAfterRelease`, `PanicOnlyInTeardown`, `AckedResetIsReal`, `PowerAgreement`, `PowerChangeCompletes`, `InputIsDelivered` | 3 kinds of device (one per row kind of the quirk table, one without) on 4 buses: 5 or 6 failing writes, reads that succeed or may fail |
| `device_reset` (violation) | `ResetReturnIsTrue` | an ordinary device, no faults |
| `clients_barrier` | `TypeOK`, `NoLostWakeup`, `OpenedIsListed`, `BarrierHolds`, `StopDrains` | 3 clients, 2 entries each, refusals |
| `clients_stop` (violation) | `StopReachesRelease` | 2 clients, 1 entry each |
| `frames_whole` | `TypeOK`, `OncePerFrame`, `WholeFrame`, `NoPhantom` | 4 digitisers (collections x contact maximum: 1x3; 2x2 with a stylus and a button; 3x2 with two buttons; 2x4), at most 2 contacts touching |
| `precision_mode` | `TouchpadMode`, `ImplementsFrames` | 1 collection, 2 contacts; an input mode under the ids 0, 1, 3, 14, 15, 255, or none; 1 lost write |
| `pointers_life` | `TypeOK`, `HandlersAreSafe`, `IgnoredForAReason`, `CountedAreThere`, `GoneIsNoticed` | a mouse and a touchscreen on USB, a pointer on Bluetooth, both listened to |
| `sensorhub_life` | `TypeOK`, `ReportsWhenAwake`, `PanicsOnly`, `PictureFollows`, `OppositeTilt` | 11 layouts, 72 readings around the thresholds and at the ends of 16 bits, 1 lost write |
| `touchscreen_safety` | `TypeOK`, `Watched`, `NoPhantomClick`, `StillIsNear` | the header's delays (50, 50, 500, 450, 250ms) in ticks of 50ms, 3 places on both sides of the zone's edge and 2 so far away that 32 bits overflow, 3 contacts, timers in any order |
| `touchscreen_zone` (violation) | `StillMeansInZone` | the same |
| `touchscreen_drag` | `DragNeedsFinger`, `PointerIsReleased` | shorter delays, 2 contacts, timers in order |
| `touchscreen_release` (violation) | `PointerIsReleased` | 3 contacts |

Why the bounds are enough.

- Device: it has one life, and every thread's program is finite, so no depth is
  cut; each behaviour has a bus of `Buses` for its life, whose faults are counted per
  command: six is the first number that `--attempts >= 0` does not bear while five is
  the last it does. `PowerAgreement` speaks of the buses that bear it, `AckedResetIsReal`
  and `InputIsDelivered` of those whose reads succeed, the other properties of all. One device of
  each quirk and one without tell apart every branch on `quirks`.
- Clients: three give a sleeper, a closer and one more that stays; two entries
  show a repeated open.
- Frames: the four digitisers are one contact to a report, all in one, more
  collections than contacts (so that some are removed), and several of each, with
  a last report that is full or not. Two who touch and others who lift fill up to
  four contacts, so frames have one, two or three reports. Counters of 8 bits
  overflow only beyond 255 contacts, which the element cannot hold.
- Precision: frames of one and of two reports show a cut at sleep and at reset.
  The ids are those between which `setReport` branches, and 3, which equals the
  mode's own value. One loss shows that the next write mends it.
- Pointers: two devices of a bus, of which one is filtered, and one of the other
  bus, so that one pointer can leave while another stays. Each may come and go any
  number of times.
- Sensors: the layouts are every combination of states that are there, one that is
  there without children, and D0 first, second, third or nowhere. The readings are on both sides of
  `3|y| > 2|x|` (133, 134 against 200) and of `|z| > 4|x|` (800, 801), and at the
  ends of 16 bits, -32768 among them.
- Touchscreen: one far place makes the square of the distance negative, the other
  makes it pass 2^32 and come back small. The delays are the code's; in the run with liveness they are
  shortened but keep their order (lift = drag < multitouch, double click < right
  click). Three contacts are the first number for which `forwardReport` neither
  scrolls nor dispatches.

`CHECK_DEADLOCK FALSE` everywhere: a stopped or crashed driver has no next step.

### Fairness

- Device: each kernel thread that can run does (weak fairness of its steps), and
  one that competes for the gate gets it in the end (strong fairness of the
  steps that enter it), because the holder of the gate leaves it after every
  report and every reset. `ResetDeadline` is fair: the deadline of 12 seconds is
  a timer. Nothing is assumed of the device at the other end (it may never
  answer), of calls of `setPowerState`, or of `stop`.
- Clients: a call that has begun goes on; a client told of the termination
  closes the device (IOKit's protocol for clients). Nobody has to open.
- Pointers: a handler that IOService has called for a device runs in the end
  (weak fairness for each device): the gate is never held for long. Nobody has to
  plug in or unplug, nor `start`, `handleStop` or `setProperties` to go on.
- Touchscreen: time goes on and due timers fire. Nobody has to touch or leave.
- Frames, precision touchpad and sensor hub state safety only and assume nothing.

### What the violations show

1. `device_reset`: with polling, a read of a silent device has length 0 and is
   taken for the end of the reset. `resetHIDDevice` returns success although its
   header says *kIOReturnTimeout* otherwise.
2. `clients_stop`: a refused `open` leaves its entry, and `stop` sleeps for ever.
3. `touchscreen_release`: three contacts while dragging leave the button down.
4. `touchscreen_zone`: `isCloseTo` overflows in 32 bits and takes opposite ends of
   the screen for near, against the comment above it
   (`VoodooI2CTouchscreenHIDEventDriver.cpp:13`): a finger that has crossed the screen
   between two frames counts as still, begins no drag, and clicks when it lifts.

Several properties are the other side of such a case, and say that outside of it
the code is right: `PanicOnlyInTeardown`, `StopDrains`, `IgnoredForAReason`,
`CountedAreThere`, `TouchpadMode`, `ReportsWhenAwake`, `StillIsNear`, `PanicsOnly`,
`PictureFollows`, `OncePerFrame`, `WholeFrame`. What each leaves out is a premise of its
own, with a name, and listed below or above: they do not say that the code is right
there.

### Observed, and not run

Device and clients:

- `releaseResources` drops `api` and `acpi_device`, which `probe` set and nobody
  retained, when `handleStart` fails early (`VoodooI2CHIDDevice.cpp:279`).
- `command_gate` is NULL before the interrupts stop and `api` before power
  management does, so `stop` may never finish (`:253`).
- `setPowerState` acknowledges a change whose command was lost (`PowerAgreement`
  holds up to five lost writes and not for six).
- A read that fails, or one of length 1, is looked at like any other
  (`:127`, `:145`): the length is what the buffer held; of 1, `return_size - 2` is taken,
  which wraps, and only the memory descriptor's own length stops it.
- `free` does not release `clients` when `stop` was never called.
- From id 15 on, `setReport` puts 15 instead of the id in front of the data
  (`:376`), which a device may refuse; a body whose first byte equals the id loses
  that byte when IOHIDDevice has not put the id there.

Multitouch driver:

- A report of another collection that arrives between two reports of a frame is
  counted as one of that frame (`VoodooI2CMultitouchHIDEventDriver.cpp:118`), so the
  frame is forwarded before its last report has come; a frame whose first report is
  dropped is counted into the frame before (`:107`). `disturbed` excludes both.
- A digitiser whose contacts do not fit into reports evenly (2 collections, 4
  contacts, of which 0 and 2 and then 2 and 3 are sent together) may leave a contact
  touching in two wrappers at once: the wrapper is chosen by the first identifier of
  the report. `NoPhantom` is stated for the digitisers that cannot do that.
- Where the collections do not divide the contact maximum, the last contacts have no
  wrapper and are lost (`VoodooI2CMultitouchHIDEventDriver.cpp:675`).
- With no finger collection, the contact maximum is divided by zero; when its
  feature report cannot be read, no wrapper is made and nothing is forwarded.
- The trackpad may stay ignored with no pointer left: `setProperties` writes after
  the handler has taken the last one out (`cause = "race"`), or a device leaves
  after the notifier for its coming is known and before the one for its leaving is
  (`unheard`). A device that was there before the driver is never counted.
- `setProperties` before the set exists or after it is released uses NULL.

Precision touchpad: between the device's wake and the driver's, `ready` is still
true, and reports of a device that is a mouse again are read as frames with the
old element values. A touchpad without an input mode makes `handleStart` fail
(`VoodooI2CPrecisionTouchpadHIDEventDriver.cpp:35`) after the interface was opened and
the driver has joined the power management tree; its next wake uses NULL (`:58`), which
the model has as `life = "panicked"`.

Sensors:

- With one of the two states only, `findPropertyIndex` uses a NULL element
  (`VoodooI2CSensor.cpp:35`, called after `:160` let it pass); with a state element that
  has no children, a NULL list (`:38`), which `setElementValue` and `start` do test for
  (`:86`, `:141`). With more than 255 children that do not match, its 8-bit counter
  never ends; the model's lists are shorter.
- A sensor whose sensitivity cannot be set writes nothing when it wakes, and stays
  silent after a reset. `ReportsWhenAwake` is about the others.
- The result of `requestProbe` is not looked at (`VoodooI2CAccelerometerSensor.cpp:87`):
  a rotation that the framebuffer refused is remembered and not asked for again.
- A hub that may not open its interface leaves its sensors in the power management
  tree (`VoodooI2CSensorHubEventDriver.cpp:87`).
- An accelerometer without axes fails after it has joined the power management
  tree, stays there, and writes through `hid_interface` after the hub has stopped.
- D0 as the first child is written as 255, as the second is taken for missing.
- A reading of nothing but zeros turns the picture by 270 degrees.

- The accelerometer does not retain its `active_framebuffer` (the touchscreen driver
  does retain its own).

Touchscreen: `handleStop` leaves two of its three timers in the work loop.

## 4. Proofs

Checked by TLAPS for every value of the constants. Each module of proofs has an
inductive invariant `IInv`, a lemma for each group of actions that keeps it, and
theorems that follow from it.

**Device.** None of the safety properties is inductive: that `AckNotLost` survives a
read needs to know who holds the gate (`GateInv`) and that a waiting thread waits
for a device that answers (`AnswerInv`); `PowerAgreement` needs the device's
power at every position of its two commanders (`PowerInv`), that those two never
command at once (`OneResetter`), and what `awake` is meanwhile (`AwakeInv`);
`PanicOnlyInTeardown` needs the existence of each object at each position of
`life` (`ObjectsInv`). The proof has one lemma per group of actions
(`StartStep`, `ReleaseStep`, `ResetStep`, `PMStep`, `WorkLoopStep`,
`DeviceStep`), and under it one step per part of `IInv`. The only assumption is
`BusesAssumption`.

**Clients.** `TypeCorrect`, `NoWakeupIsLost` and `CloseFindsItsEntry`, and
`ImplementsBarrier`: `Spec => BarrierHolds`, for any set of clients: the initial
state maps to the barrier's, a step of a client joins, leaves or stutters, a step
of the owner shuts, passes or stutters.

**Frames.** For every set of digitisers and any number of contacts, with no bound
on what touches. The invariant comes in three layers, each of them inductive on
top of the one before.

- `IInv`: `Typed` (what the counters, the frame and the transducers are),
  `WholeUnlessReset` (the contacts of an unfinished frame are the ones on the
  surface) and `InStep`: of an undisturbed frame, driver and device count the same
  reports, at every report of it, where `OncePerFrame` only speaks of `forwards`.
  `TypeCorrect` and `FrameOnce` follow. The arithmetic is in `CeilFacts`, `Geometry` and
  `TotalFacts`: the driver divides in 8 bits by its fingers, the device by its
  collections, and for at most 255 contacts both come to the same number, also
  where collections were removed.
- `WInv` adds `Divided`, `StoredSoFar` (each report sent so far is, contact by
  contact, in the wrapper of its first contact) and `EventIsLast`. `FrameIsWhole`
  follows. The step needs that two reports of one frame never share a wrapper
  (`WrappersDiffer`): identifiers rise with the rank, so first contacts `fingers`
  ranks apart have identifiers at least `fingers` apart. Ranks are cardinalities
  (`RankFacts`, `BelowOf`).
- `PInv` adds whose tips are believed: `TipsAreTold` for the frame, `OneWrapper`
  when there is one wrapper, `WrapperEach` when each contact has its own, where a
  wrapper may also wait for a report that is still to come (`Unsent`). `NoTipStays`
  follows.

`FrameIsWhole` and `NoTipStays` have the premise `Divides`: where a digitiser has no more
collections than contacts, they divide its maximum. Without it both are false: with
2 collections and 3 contacts there is one wrapper, and the third contact has none.
The code says *Unknown digitiser type* there. `TypeCorrect` and `FrameOnce` hold without it.

**Pointers.** `TypeCorrect`, for any devices. `HandlersFindTheirSet` needs that notifiers come with the set and go
before it, and that a call is only under way for a notifier that is installed,
which is why `remove()` waiting for its handlers matters. `PointersAreTheReason`
needs that the user wants it so whenever `setProperties` is through (`WantedSo`) and
that nothing is counted or decided before the set exists (`NothingBefore`).
`CountedIsThere` needs that calls for one device stay
in order. For any devices and any of the four combinations of buses.

**Precision touchpad.** `ReportArrives` is about the framing: under every id below
15 the device receives the report as it was meant, in the widths of the code.
`StaysTouchpad` then carries the mode through power changes, for every digitiser,
set of ids and number of losses. It says nothing of frames, so it needs no induction over
them. `FramesAreMultitouch` is the refinement `PrecisionSpec => ImplementsFrames`, with
`ignoring <- (ignoring \/ ~ready)`: `SameOperators` and `SameReports` say that the
instance's operators are this module's, and `FramesStep` that a report to a driver that
is not ready is a dropped one, that sleep, wake and mode changes are the frames'
changes of `ignoring` or stutter, and that a reset is a `DeviceReset`. It needs that a
driver that is not ready has forwarded nothing (`QuietUntilReady`).

**Sensor hub.** `PanicsConfined` says, for every layout, which one can make
`findPropertyIndex` meet NULL, and which sensors `setReport`; it needs which part of
`start` a sensor has passed, and what that says of its layout. `PictureFollowsReading`
needs that `current_rotation` and `screen` agree unless the framebuffer refused.
`ReportsAfterEveryWake` needs that a usage which is found, and is not the first child,
is where the device looks for the position written in 8 bits (`FoundWhereItIs`), what
`start` has set by when (`StatesAreSet`), and that a sensor in the power management tree
misses no wake (`AwakeInTree`). `TiltIsSymmetric` is arithmetic over all readings of
16 bits (`ReadingsAssumption`).

**Touchscreen.** `TouchesAreWatched` and `NoClickAfterMultitouch` need that an
armed lift or drag timer means that the last multitouch frame is old (`ArmedLate`):
such a frame disarms both, and no touch begins before its timeout.
`DragsNeedFingers` has the premise `DelaysFit`, a drag starts no later than a finger
lifts, which the header's 50ms and 50ms satisfy: a drag that was asked for is then
begun before the lift that would forget it (`DragFirst`). `TypeCorrect` bounds what one step
dispatches. `StillOrOverflow` is about `isCloseTo`, with its halves of squares: for any places of
16 bits, a still finger is in the zone around its start, or the sum of the squares does not
fit an SInt32 (`SquareIsSquare`, `CloseMeansInZone`, `CloseOrOverflows`). That the second
happens on a screen is the violation of `StillMeansInZone`.

Only model-checked:

- the liveness properties (`PowerChangeCompletes`, `InputIsDelivered`,
  `StopDrains`, `GoneIsNoticed`, `PointerIsReleased`) and the violations: liveness
  under fairness is out of the prover's reach.

Every invariant and both refinements that passing runs check are theorems.

## 5. Plan

What is left, in the order in which it would add most:

1. the life of the multitouch interface: published, retained and closed by the
   event drivers.
2. a digitiser that is not `Divides` and one with several wrappers of several contacts:
   a weaker `NoPhantom` that holds there too.
3. the device composed with its clients: what an event driver does between
   `open` and `close` while the device resets.
4. get report, and the fetch of the two descriptors.
5. the transducers' units and the logical and physical ranges of the axes.

### Not modelled

- `VoodooI2CStylusHIDEventDriver`: each report is a frame of its own and goes to
  the same `checkStylus` as the touchscreen's; nothing is kept between reports.
- the device overrides: constant descriptors.
- the matching dictionaries and the build files: data.
- the sensor hub enabler, which evaluates one ACPI method, and the orientation
  sensor, which looks for its element and does nothing with a reading; neither keeps
  state.
- `VoodooI2CSensor::setPowerState`: overridden and not reached.
- debug and property strings, `VoodooI2CDeviceNub` and the multitouch interface
  beyond the calls made on them.
