------------------------- MODULE VoodooI2CHIDDevice -------------------------
(***************************************************************************)
(* The life of one VoodooI2CHIDDevice: start, host-initiated reset, input  *)
(* interrupts (or the timer that simulates them), power changes and        *)
(* teardown, as three threads of the kernel run them:                      *)
(*                                                                         *)
(*   "life"  the IOKit thread that calls handleStart, start and stop,      *)
(*   "pm"    the power management thread that calls setPowerState,         *)
(*   "wl"    the work loop thread that runs interruptOccured or            *)
(*           simulateInterrupt.                                            *)
(*                                                                         *)
(* "gate" is the work loop's lock.  The device at the other end of the bus *)
(* is external: a power state, a reset in progress and one output slot.    *)
(* Steps with no effect another thread can see are folded into the next    *)
(* step of their thread; README.md lists them.                             *)
(***************************************************************************)
EXTENDS Integers

CONSTANTS
    DeviceIds,        \* the [vendor, product] pairs a descriptor may carry
    Buses             \* bound: the buses a device may sit on, each with how many
                      \* writes of one command may fail in a row, and whether an
                      \* I2C read may fail

ASSUME BusesAssumption == Buses \subseteq [write_faults : Nat, read_faults : BOOLEAN]

VARIABLES
    hid_descriptor,        \* the identity the descriptor reports
    bus,                   \* what may fail on it
    pc,                    \* thread -> where it is
    gate,                  \* the thread inside the work loop's gate, or "free"
    command_gate,          \* "null", "enabled" or "disabled"
    source,                \* the event source: kind, enabled, armed (timer)
    is_interrupt_started,
    api, refs,             \* "null" or "valid"; references this driver owns
    awake, ready_for_input, quirks, pm_registered,
    reset_written,         \* the write of the last reset command succeeded
    reset_result,          \* what the last resetHIDDevice returned
    dev,                   \* the device: power, resetting, output, handled
    panic                  \* a NULL pointer was dereferenced

interrupt_vars == <<source, is_interrupt_started>>
object_vars    == <<command_gate, api, refs>>
flag_vars      == <<awake, ready_for_input, quirks, pm_registered>>
reset_vars     == <<reset_written, reset_result>>
live_vars      == <<hid_descriptor, bus, pc, gate, interrupt_vars, object_vars,
                    flag_vars, reset_vars, dev>>
vars           == <<live_vars, panic>>

Threads   == {"life", "pm", "wl"}
Resetters == {"life", "pm"}

ResetLabels == {"rst:call", "rst:blocked", "rst:gated", "rst:sleep",
                "sleeping", "woken", "expired"}

LifeLabels == ResetLabels \cup
    {"handleStart", "register", "finish", "running", "failed", "rel:gate",
     "rel:remove", "rel:irq", "rel:source", "rel:api", "pmstop", "stopped"}
PmLabels == ResetLabels \cup {"idle", "off:power", "off:irq", "on:power"}
WlLabels == {"idle", "read"}

\* Mutant: one attempt fewer.
Attempts_OneFewer == 4

\* int attempts = 5 of setHIDPowerState.
Attempts == 5

\* What a read of the device yields: nothing, or a length of 0 (the first two), a
\* report, one that declares more than wMaxInputLength, or a length of 1 that does
\* not even count itself.
Outputs == {"none", "ack", "report", "oversize", "short"}
Empty   == {"none", "ack"}

i2c_hid_quirks == <<
    [idVendor |-> "HANTICK",   idProduct |-> "5288",
     quirks |-> {"NO_IRQ_AFTER_RESET"}],
    [idVendor |-> "RAYDIUM",   idProduct |-> "3118",
     quirks |-> {"NO_IRQ_AFTER_RESET"}],
    [idVendor |-> "ALPS_JP",   idProduct |-> "ANY",
     quirks |-> {"RESET_ON_RESUME"}],
    [idVendor |-> "SYNAPTICS", idProduct |-> "SYNA2393",
     quirks |-> {"RESET_ON_RESUME"}] >>

\* The last row that matches wins.
lookupQuirks(id) ==
    LET hits == {n \in 1..4 :
                    /\ i2c_hid_quirks[n].idVendor = id.vendor
                    /\ i2c_hid_quirks[n].idProduct \in {"ANY", id.product}}
    IN UNION {i2c_hid_quirks[n].quirks :
                n \in {h \in hits : \A m \in hits : m <= h}}

Init ==
    /\ hid_descriptor \in DeviceIds /\ bus \in Buses
    /\ pc = [t \in Threads |-> IF t = "life" THEN "handleStart" ELSE "idle"]
    /\ gate = "free"
    /\ command_gate = "null" /\ api = "valid" /\ refs = 0
    /\ source = [kind |-> "null", enabled |-> FALSE, armed |-> FALSE]
    /\ is_interrupt_started = FALSE
    /\ awake = TRUE /\ ready_for_input = FALSE
    /\ quirks = {} /\ pm_registered = FALSE
    /\ reset_written = FALSE /\ reset_result = "none"
    /\ dev = [power |-> "on", resetting |-> FALSE, output |-> "none",
              handled |-> TRUE]
    /\ panic = FALSE

-----------------------------------------------------------------------------
(* Helpers                                                                 *)

At(t, label) == pc[t] = label

Goto(t, label) ==
    pc' = [pc EXCEPT ![t] = label] /\ UNCHANGED <<hid_descriptor, bus, panic>>

\* A NULL pointer is dereferenced: the kernel stops.
Crash == panic' = TRUE /\ UNCHANGED live_vars

startInterrupt ==
    /\ is_interrupt_started' = TRUE
    /\ source' = IF is_interrupt_started THEN source
                 ELSE [source EXCEPT !.enabled = (source.kind # "null"),
                                     !.armed = (source.kind = "simulator")]

\* Mutant: the early return's flag is not cleared.
stopInterrupt_KeepsFlag ==
    /\ source' = IF is_interrupt_started THEN [source EXCEPT !.enabled = FALSE]
                 ELSE source
    /\ UNCHANGED is_interrupt_started

stopInterrupt ==
    /\ is_interrupt_started' = FALSE
    /\ source' = IF is_interrupt_started THEN [source EXCEPT !.enabled = FALSE]
                 ELSE source

\* The retry loop, taken at its last write: the ones that fail do nothing.
\* The command is lost when the first write and all the retries fail.
setHIDPowerState(state, power) ==
    \E failed \in 0..bus.write_faults :
       /\ failed <= Attempts + 1
       /\ power = IF failed <= Attempts THEN state ELSE dev.power

-----------------------------------------------------------------------------
(* resetHIDDevice, called by handleStart ("life") and setPowerState ("pm") *)

AfterReset(t) == IF t = "life" THEN "register" ELSE "idle"

\* Mutant: resetHIDDeviceGated is called directly, outside the gate.
EnterGate_Ungated(t) == command_gate = "enabled" /\ UNCHANGED gate

EnterGate(t) == command_gate = "enabled" /\ gate = "free" /\ gate' = t

\* command_gate->runAction enters the gate, or waits for the gate to be enabled.
resetHIDDevice(t) ==
    /\ At(t, "rst:call")
    /\ \/ command_gate = "null" /\ Crash
       \/ /\ \/ EnterGate(t) /\ Goto(t, "rst:gated")
             \/ /\ command_gate = "disabled"
                /\ Goto(t, "rst:blocked") /\ UNCHANGED gate
          /\ UNCHANGED <<interrupt_vars, object_vars, flag_vars, reset_vars, dev>>

\* Removing the command gate aborts the action that waits for it.
ResetAborted(t) ==
    /\ At(t, "rst:blocked") /\ command_gate = "null"
    /\ reset_result' = "aborted" /\ Goto(t, AfterReset(t))
    /\ UNCHANGED <<gate, interrupt_vars, object_vars, flag_vars, reset_written, dev>>

\* The power command with its retries, then the reset command, written once
\* and its result not looked at.  A device that signals the end of a reset is
\* then waited for; one with the quirk gets 100ms, with the gate held.
resetHIDDeviceGated(t) ==
    /\ At(t, "rst:gated")
    /\ \E power \in {"on", "sleep"}, ok \in BOOLEAN :
         /\ setHIDPowerState("on", power)
         /\ ok \/ bus.write_faults > 0
         /\ reset_written' = ok
         /\ dev' = IF ok THEN [power |-> "on", resetting |-> TRUE,
                               output |-> "none", handled |-> TRUE]
                   ELSE [dev EXCEPT !.power = power]
    /\ IF "NO_IRQ_AFTER_RESET" \in quirks
       THEN Goto(t, AfterReset(t)) /\ gate' = "free" /\ reset_result' = "success"
       ELSE Goto(t, "rst:sleep") /\ UNCHANGED <<gate, reset_result>>
    /\ UNCHANGED <<interrupt_vars, object_vars, flag_vars>>

\* commandSleep(&reset_event): leaves the gate and sleeps in one step.
ResetSleeps(t) ==
    /\ At(t, "rst:sleep")
    /\ gate' = "free" /\ Goto(t, "sleeping")
    /\ UNCHANGED <<interrupt_vars, object_vars, flag_vars, reset_vars, dev>>

\* Mutant: the sleep has no deadline.
ResetDeadline_None(t) == FALSE /\ UNCHANGED vars

\* 12 seconds have passed.
ResetDeadline(t) ==
    /\ At(t, "sleeping") /\ Goto(t, "expired")
    /\ UNCHANGED <<gate, interrupt_vars, object_vars, flag_vars, reset_vars, dev>>

\* commandSleep takes the gate back and runAction leaves it again.
ResetReturns(t) ==
    /\ pc[t] \in {"woken", "expired"} /\ gate = "free"
    /\ reset_result' = IF At(t, "woken") THEN "success" ELSE "timeout"
    /\ Goto(t, AfterReset(t))
    /\ UNCHANGED <<gate, interrupt_vars, object_vars, flag_vars, reset_written, dev>>

-----------------------------------------------------------------------------
(* "life": handleStart, start, stop and releaseResources                   *)

\* handleStart up to the call of resetHIDDevice.  It gives up before anything
\* exists, without a work loop or command gate, or with the API retained but
\* not opened or no way to hear from the device; or it goes on with one of
\* the two event sources.
handleStart ==
    /\ At("life", "handleStart")
    /\ \/ Goto("life", "failed")
          /\ UNCHANGED <<interrupt_vars, command_gate, refs, quirks>>
       \/ Goto("life", "rel:gate") /\ command_gate' \in {"null", "enabled"}
          /\ UNCHANGED <<interrupt_vars, refs, quirks>>
       \/ Goto("life", "rel:gate") /\ command_gate' = "enabled"
          /\ refs' = refs + 1 /\ UNCHANGED <<interrupt_vars, quirks>>
       \/ Goto("life", "rst:call") /\ command_gate' = "enabled"
          /\ refs' = refs + 1
          /\ \E kind \in {"interrupt", "simulator"} :
               source' = [kind |-> kind, enabled |-> TRUE,
                          armed |-> kind = "simulator"]
          /\ is_interrupt_started' = TRUE
          /\ quirks' = lookupQuirks(hid_descriptor)
    /\ UNCHANGED <<gate, api, awake, ready_for_input, pm_registered,
                   reset_vars, dev>>

\* PMinit, joinPMtree, registerPowerDriver, whatever the reset returned.
RegisterPower ==
    /\ At("life", "register")
    /\ pm_registered' = TRUE /\ Goto("life", "finish")
    /\ UNCHANGED <<gate, interrupt_vars, object_vars, awake, ready_for_input,
                   quirks, reset_vars, dev>>

\* start(), once IOHIDDevice::start has returned.
start ==
    /\ At("life", "finish")
    /\ ready_for_input' = TRUE /\ Goto("life", "running")
    /\ UNCHANGED <<gate, interrupt_vars, object_vars, awake, quirks,
                   pm_registered, reset_vars, dev>>

\* stop(), past the loop that drains the clients: releaseResources is called.
stop ==
    /\ At("life", "running") /\ Goto("life", "rel:gate")
    /\ UNCHANGED <<gate, interrupt_vars, object_vars, flag_vars, reset_vars, dev>>

DisableCommandGate ==
    /\ At("life", "rel:gate")
    /\ IF command_gate = "null"
       THEN Goto("life", "rel:irq") /\ UNCHANGED command_gate
       ELSE Goto("life", "rel:remove") /\ command_gate' = "disabled"
    /\ UNCHANGED <<gate, interrupt_vars, api, refs, flag_vars, reset_vars, dev>>

\* removeEventSource runs inside the gate.
RemoveCommandGate ==
    /\ At("life", "rel:remove") /\ gate = "free"
    /\ command_gate' = "null" /\ Goto("life", "rel:irq")
    /\ UNCHANGED <<gate, interrupt_vars, api, refs, flag_vars, reset_vars, dev>>

ReleaseInterrupt ==
    /\ At("life", "rel:irq")
    /\ stopInterrupt /\ Goto("life", "rel:source")
    /\ UNCHANGED <<gate, object_vars, flag_vars, reset_vars, dev>>

\* Mutant: the source is dropped without going through the work loop.
SourceCanGo_Always == TRUE

\* removeEventSource, when there is a source, runs inside the gate.
SourceCanGo == source.kind # "null" => gate = "free"

RemoveEventSource ==
    /\ At("life", "rel:source")
    /\ SourceCanGo
    /\ source' = [kind |-> "null", enabled |-> FALSE, armed |-> FALSE]
    /\ Goto("life", "rel:api")
    /\ UNCHANGED <<gate, is_interrupt_started, object_vars, flag_vars,
                   reset_vars, dev>>

\* Mutant: the pointer is not cleared and releaseResources runs again.
ReleaseApi_Twice ==
    /\ At("life", "rel:api")
    /\ refs' = refs - 1
    /\ Goto("life", "rel:gate")
    /\ UNCHANGED <<gate, interrupt_vars, command_gate, api, flag_vars, reset_vars,
                   dev>>

\* api is closed and released whether or not handleStart had retained it.
ReleaseApi ==
    /\ At("life", "rel:api")
    /\ api' = "null" /\ refs' = refs - 1
    /\ Goto("life", IF pm_registered THEN "pmstop" ELSE "failed")
    /\ UNCHANGED <<gate, interrupt_vars, command_gate, flag_vars, reset_vars, dev>>

\* Mutant: power management is left without waiting for its last call.
PMstop_NotWaiting ==
    /\ At("life", "pmstop")
    /\ pm_registered' = FALSE /\ Goto("life", "stopped")
    /\ UNCHANGED <<gate, interrupt_vars, object_vars, awake, ready_for_input,
                   quirks, reset_vars, dev>>

\* PMstop refuses later power changes and waits for the one under way.
PMstop ==
    /\ At("life", "pmstop") /\ At("pm", "idle")
    /\ pm_registered' = FALSE /\ Goto("life", "stopped")
    /\ UNCHANGED <<gate, interrupt_vars, object_vars, awake, ready_for_input,
                   quirks, reset_vars, dev>>

-----------------------------------------------------------------------------
(* "pm": setPowerState                                                     *)

SleepCalled ==
    /\ At("pm", "idle") /\ pm_registered /\ awake
    /\ Goto("pm", "off:power")
    /\ UNCHANGED <<gate, interrupt_vars, object_vars, flag_vars, reset_vars, dev>>

\* The power command that ends a call of setPowerState or begins one.
PowerCommand ==
    /\ pc["pm"] \in {"off:power", "on:power"}
    /\ \/ api = "null" /\ Crash
       \/ /\ api # "null"
          /\ \E power \in {"on", "sleep"} :
               /\ setHIDPowerState(IF At("pm", "on:power") THEN "on" ELSE "sleep",
                                   power)
               /\ dev' = [dev EXCEPT !.power = power]
          /\ Goto("pm", IF At("pm", "on:power") THEN "idle" ELSE "off:irq")
          /\ UNCHANGED <<gate, interrupt_vars, object_vars, flag_vars, reset_vars>>

SleepDone ==
    /\ At("pm", "off:irq")
    /\ stopInterrupt /\ awake' = FALSE /\ Goto("pm", "idle")
    /\ UNCHANGED <<gate, object_vars, ready_for_input, quirks, pm_registered,
                   reset_vars, dev>>

WakeCalled ==
    /\ At("pm", "idle") /\ pm_registered /\ ~awake
    /\ startInterrupt /\ awake' = TRUE
    /\ Goto("pm", IF "RESET_ON_RESUME" \in quirks THEN "rst:call" ELSE "on:power")
    /\ UNCHANGED <<gate, object_vars, ready_for_input, quirks, pm_registered,
                   reset_vars, dev>>

-----------------------------------------------------------------------------
(* "wl": the work loop                                                     *)

\* The line is level triggered: it calls as long as there is output to read.
\* The attempt is refused when the command gate is disabled.
interruptOccured ==
    /\ At("wl", "idle") /\ gate = "free"
    /\ source.kind = "interrupt" /\ source.enabled /\ dev.output # "none"
    /\ awake
    /\ \/ command_gate = "null" /\ Crash
       \/ /\ command_gate = "enabled"
          /\ gate' = "wl" /\ Goto("wl", "read")
          /\ UNCHANGED <<interrupt_vars, object_vars, flag_vars, reset_vars, dev>>

\* The timer calls getInputReport itself, without the command gate.
simulateInterrupt ==
    /\ At("wl", "idle") /\ gate = "free"
    /\ source.kind = "simulator" /\ source.enabled /\ source.armed
    /\ awake
    /\ source' = [source EXCEPT !.armed = FALSE]
    /\ gate' = "wl" /\ Goto("wl", "read")
    /\ UNCHANGED <<is_interrupt_started, object_vars, flag_vars, reset_vars, dev>>

\* The read yields the device's output, or leaves in the buffer what IOMalloc
\* returned: the result of readI2C is not looked at.
readI2C(report, taken) ==
    \/ report = dev.output /\ taken
    \/ bus.read_faults /\ report # "ack" /\ ~taken

\* Mutant: nothing is looked at before the driver is ready.
Wakes_WhenReady(report) == report \in Empty /\ ready_for_input

\* A length of 0 is acted on before ready_for_input is looked at.
Wakes(report) == report \in Empty

\* commandWakeup(&reset_event): whoever sleeps is resumed, or nobody.
Wakeup(p) == [t \in Threads |-> IF p[t] = "sleeping" THEN "woken" ELSE p[t]]

\* Mutant: the timer is not armed again.
Rearm_Never == source

\* simulateInterrupt arms the timer again whatever it read.
Rearm == [source EXCEPT !.armed = (source.kind = "simulator")]

\* What getInputReport does with what it read.  Only a report that was taken from
\* the device is handled.  Of a short one return_size - 2 underflows to a count that
\* the memory descriptor cuts down to its one byte (external): handleReport is
\* called with a byte nobody sent, as it is with what a failed read left.
getInputReport ==
    /\ At("wl", "read")
    /\ \E report \in Outputs, taken \in BOOLEAN :
         /\ readI2C(report, taken)
         /\ \/ Wakes(report) /\ command_gate = "null" /\ Crash
            \/ /\ Wakes(report) => command_gate # "null"
               /\ pc' = [IF Wakes(report) THEN Wakeup(pc) ELSE pc
                         EXCEPT !["wl"] = "idle"]
               /\ dev' = [dev EXCEPT
                           !.output = IF taken THEN "none" ELSE @,
                           !.handled = @ \/ (taken /\ report = "report"
                                                   /\ ready_for_input)]
               /\ gate' = "free" /\ source' = Rearm
               /\ UNCHANGED <<hid_descriptor, bus, is_interrupt_started,
                              object_vars, flag_vars, reset_vars, panic>>

-----------------------------------------------------------------------------
(* The device (external)                                                   *)

\* A reset ends with a zero length report, or silently with the quirk.
DeviceResetDone ==
    /\ dev.resetting
    /\ dev' = [dev EXCEPT !.resetting = FALSE,
                 !.output = IF "NO_IRQ_AFTER_RESET" \in quirks THEN @ ELSE "ack"]
    /\ UNCHANGED <<hid_descriptor, bus, pc, gate, interrupt_vars,
                   object_vars, flag_vars, reset_vars, panic>>

DeviceInput ==
    /\ dev.power = "on" /\ ~dev.resetting /\ dev.output = "none"
    /\ \E report \in {"report", "oversize", "short"} :
         dev' = [dev EXCEPT !.output = report, !.handled = (report # "report")]
    /\ UNCHANGED <<hid_descriptor, bus, pc, gate, interrupt_vars,
                   object_vars, flag_vars, reset_vars, panic>>

-----------------------------------------------------------------------------

Reset(t) ==
    \/ resetHIDDevice(t) \/ ResetAborted(t) \/ resetHIDDeviceGated(t)
    \/ ResetSleeps(t) \/ ResetDeadline(t) \/ ResetReturns(t)

Release ==
    \/ DisableCommandGate \/ RemoveCommandGate \/ ReleaseInterrupt
    \/ RemoveEventSource \/ ReleaseApi \/ PMstop

Life     == handleStart \/ RegisterPower \/ start \/ stop \/ Release
PM       == SleepCalled \/ PowerCommand \/ SleepDone \/ WakeCalled
WorkLoop == interruptOccured \/ simulateInterrupt \/ getInputReport
Device   == DeviceResetDone \/ DeviceInput

Next ==
    /\ ~panic
    /\ Life \/ PM \/ (\E t \in Resetters : Reset(t)) \/ WorkLoop \/ Device

Spec == Init /\ [][Next]_vars

\* Threads that can run do, and one that waits for the gate gets it in the end,
\* because its holder leaves it after every report and every reset.  Nothing is
\* assumed of the device, of stop or of the calls of setPowerState.
Fairness ==
    /\ WF_vars(~panic /\ (handleStart \/ RegisterPower \/ start))
    /\ SF_vars(~panic /\ Release)
    /\ WF_vars(~panic /\ (PowerCommand \/ SleepDone))
    /\ \A t \in Resetters : SF_vars(~panic /\ Reset(t))
    /\ WF_vars(~panic /\ getInputReport)
    /\ SF_vars(~panic /\ (interruptOccured \/ simulateInterrupt))

LiveSpec == Spec /\ Fairness

-----------------------------------------------------------------------------
(* Properties                                                              *)

Running == At("life", "running")

\* Every variable keeps to its type; the driver owns one reference at most.
TypeOK ==
    /\ hid_descriptor \in DeviceIds /\ bus \in Buses
    /\ pc \in [Threads -> LifeLabels \cup PmLabels \cup WlLabels]
    /\ pc["life"] \in LifeLabels /\ pc["pm"] \in PmLabels /\ pc["wl"] \in WlLabels
    /\ gate \in Threads \cup {"free"}
    /\ command_gate \in {"null", "enabled", "disabled"}
    /\ source \in [kind : {"null", "interrupt", "simulator"},
                   enabled : BOOLEAN, armed : BOOLEAN]
    /\ is_interrupt_started \in BOOLEAN
    /\ api \in {"null", "valid"} /\ refs \in -1..1
    /\ awake \in BOOLEAN /\ ready_for_input \in BOOLEAN
    /\ pm_registered \in BOOLEAN
    /\ quirks \subseteq {"NO_IRQ_AFTER_RESET", "RESET_ON_RESUME"}
    /\ reset_written \in BOOLEAN
    /\ reset_result \in {"none", "success", "timeout", "aborted"}
    /\ dev \in [power : {"on", "sleep"}, resetting : BOOLEAN, output : Outputs,
                handled : BOOLEAN]
    /\ panic \in BOOLEAN

\* While a thread waits for a reset that the device has finished, the device's
\* answer is still to be read: no interrupt consumes it without a wakeup.
AckNotLost ==
    \A t \in Resetters :
        /\ pc[t] \in {"rst:sleep", "sleeping"} /\ reset_written /\ ~dev.resetting
        => dev.output = "ack"

\* With a device that raises interrupts and reads that do not fail, a reset
\* whose command got through is never reported done while it is under way.
AckedResetIsReal ==
    \A t \in Resetters :
        /\ At(t, "woken") /\ reset_written
        /\ source.kind = "interrupt" /\ ~bus.read_faults
        => ~dev.resetting

\* Between two calls of setPowerState the device's power follows awake, as long
\* as no command fails more often than it is retried.
PowerAgreement ==
    /\ Running /\ At("pm", "idle") /\ bus.write_faults <= 5
    => (awake <=> dev.power = "on")

\* Between two calls of setPowerState the event source is enabled exactly when
\* the driver is awake, and the flag that guards it says so.
AwakeMeansListening ==
    /\ Running /\ At("pm", "idle")
    => /\ awake <=> source.enabled
       /\ awake <=> is_interrupt_started

\* No report is being read, and no reset is being commanded, once the API or
\* the event source is gone.
NoIOAfterRelease ==
    /\ At("wl", "read") => api = "valid" /\ source.kind # "null"
    /\ \A t \in Resetters : At(t, "rst:gated") => api = "valid"

\* A NULL pointer is dereferenced at most between the release of the command
\* gate and the end of PMstop, where releaseResources runs against live callers.
PanicOnlyInTeardown ==
    panic => pc["life"] \in {"rel:irq", "rel:source", "rel:api", "pmstop"}

\* A call of setPowerState that has begun ends, or the kernel has stopped.
PowerChangeCompletes == ~At("pm", "idle") ~> (At("pm", "idle") \/ panic)

\* A report the device holds out to a driver that is ready reaches handleReport,
\* if reads succeed, unless the driver is put to sleep or stopped first.
InputIsDelivered ==
    (dev.output = "report" /\ ready_for_input /\ ~bus.read_faults)
        ~> (dev.handled \/ ~awake \/ ~Running \/ panic)

-----------------------------------------------------------------------------
(* What the documentation of the code says and the code does not keep      *)

\* "@return *kIOReturnSuccess* on successful reset, *kIOReturnTimeout*
\* otherwise" (VoodooI2CHIDDevice.hpp:244): success means that the device was
\* told to reset and has finished.
ResetReturnIsTrue ==
    At("life", "register") /\ reset_result = "success"
        => reset_written /\ ~dev.resetting
=============================================================================
