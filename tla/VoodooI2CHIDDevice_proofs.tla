---------------------- MODULE VoodooI2CHIDDevice_proofs ----------------------
(***************************************************************************)
(* Proofs about VoodooI2CHIDDevice for every set of devices and of buses:  *)
(* any number of write faults, with or without read faults.                *)
(***************************************************************************)
EXTENDS VoodooI2CHIDDevice, TLAPS

\* lookupQuirks returns quirks the driver knows, whatever it is asked for.
LEMMA QuirkTable ==
  ASSUME NEW id
  PROVE  lookupQuirks(id) \subseteq {"NO_IRQ_AFTER_RESET", "RESET_ON_RESUME"}
  BY DEF lookupQuirks, i2c_hid_quirks

USE DEF Threads, Resetters, ResetLabels, LifeLabels, PmLabels, WlLabels,
        Outputs, Empty, At

\* What is stored about the event source and the device.
Sources == [kind : {"null", "interrupt", "simulator"},
            enabled : BOOLEAN, armed : BOOLEAN]
Devices == [power : {"on", "sleep"}, resetting : BOOLEAN, output : Outputs,
            handled : BOOLEAN]

\* TypeOK in the groups in which the actions change it.
PcOK ==
    /\ pc \in [Threads -> LifeLabels \cup PmLabels \cup WlLabels]
    /\ pc["life"] \in LifeLabels /\ pc["pm"] \in PmLabels /\ pc["wl"] \in WlLabels
ObjectsOK ==
    /\ hid_descriptor \in DeviceIds /\ bus \in Buses
    /\ gate \in Threads \cup {"free"}
    /\ command_gate \in {"null", "enabled", "disabled"}
    /\ api \in {"null", "valid"}
    /\ quirks \subseteq {"NO_IRQ_AFTER_RESET", "RESET_ON_RESUME"}
    /\ reset_result \in {"none", "success", "timeout", "aborted"}
FlagsOK ==
    /\ is_interrupt_started \in BOOLEAN
    /\ awake \in BOOLEAN /\ ready_for_input \in BOOLEAN
    /\ pm_registered \in BOOLEAN
    /\ reset_written \in BOOLEAN
    /\ panic \in BOOLEAN

StoredOK == source \in Sources /\ dev \in Devices /\ refs \in -1..1

\* The groups together say what TypeOK says.
LEMMA TypeGroups == TypeOK <=> PcOK /\ ObjectsOK /\ FlagsOK /\ StoredOK
  BY DEF TypeOK, PcOK, ObjectsOK, FlagsOK, StoredOK, Sources, Devices

\* A fresh object is well typed.
LEMMA InitType == Init => PcOK /\ ObjectsOK /\ FlagsOK /\ StoredOK
  <1> SUFFICES ASSUME Init PROVE PcOK /\ ObjectsOK /\ FlagsOK /\ StoredOK
    OBVIOUS
  <1>1. PcOK
    BY DEF Init, PcOK
  <1>2. ObjectsOK /\ FlagsOK
    BY DEF Init, ObjectsOK, FlagsOK
  <1>3. StoredOK
    BY DEF Init, StoredOK, Sources, Devices
  <1>. QED BY <1>1, <1>2, <1>3

\* A step of resetHIDDevice, by either caller, keeps every variable in its type.
LEMMA ResetType ==
  ASSUME PcOK, ObjectsOK, FlagsOK, StoredOK, NEW t \in Resetters, Reset(t)
  PROVE  (PcOK /\ ObjectsOK /\ FlagsOK /\ StoredOK)'
  <1> USE DEF Reset, resetHIDDevice, ResetAborted, resetHIDDeviceGated, ResetSleeps,
              ResetDeadline, ResetReturns, AfterReset, EnterGate, Goto, Crash,
              live_vars, interrupt_vars, object_vars, flag_vars, reset_vars
  <1>1. PcOK'
    BY DEF PcOK
  <1>2. ObjectsOK'
    BY DEF ObjectsOK
  <1>3. FlagsOK'
    BY DEF FlagsOK
  <1>4. StoredOK'
    <2>1. CASE resetHIDDeviceGated(t)
      <3>1. PICK power \in {"on", "sleep"}, ok \in BOOLEAN :
              dev' = IF ok THEN [power |-> "on", resetting |-> TRUE,
                                 output |-> "none", handled |-> TRUE]
                     ELSE [dev EXCEPT !.power = power]
        BY <2>1
      <3>. QED BY <2>1, <3>1 DEF StoredOK, Sources, Devices
    <2>2. CASE ~resetHIDDeviceGated(t)
      BY <2>2 DEF StoredOK
    <2>. QED BY <2>1, <2>2
  <1>. QED BY <1>1, <1>2, <1>3, <1>4

\* So does a step of releaseResources, if it drops the reference at most once.
LEMMA ReleaseType ==
  ASSUME PcOK, ObjectsOK, FlagsOK, StoredOK, Release,
         At("life", "rel:api") => refs \in {0, 1}
  PROVE  (PcOK /\ ObjectsOK /\ FlagsOK /\ StoredOK)'
  <1> USE DEF Release, DisableCommandGate, RemoveCommandGate, ReleaseInterrupt,
              RemoveEventSource, ReleaseApi, PMstop, stopInterrupt, Goto,
              interrupt_vars, object_vars, flag_vars, reset_vars
  <1>1. PcOK'
    BY DEF PcOK
  <1>2. ObjectsOK'
    BY DEF ObjectsOK
  <1>3. FlagsOK'
    BY DEF FlagsOK
  <1>4. StoredOK'
    <2>1. source' \in Sources
      <3>1. CASE RemoveEventSource
        BY <3>1 DEF Sources
      <3>2. CASE source' = [source EXCEPT !.enabled = FALSE]
        BY <3>2 DEF StoredOK, Sources
      <3>. QED BY <3>1, <3>2 DEF StoredOK
    <2>2. dev' \in Devices
      BY DEF StoredOK
    <2>3. refs' \in -1..1
      BY DEF StoredOK
    <2>. QED BY <2>1, <2>2, <2>3 DEF StoredOK
  <1>. QED BY <1>1, <1>2, <1>3, <1>4

\* So does a step of handleStart, start or stop.
LEMMA StartType ==
  ASSUME PcOK, ObjectsOK, FlagsOK, StoredOK,
         handleStart \/ RegisterPower \/ start \/ stop,
         At("life", "handleStart") => refs = 0
  PROVE  (PcOK /\ ObjectsOK /\ FlagsOK /\ StoredOK)'
  <1> USE DEF handleStart, RegisterPower, start, stop, Goto,
              interrupt_vars, object_vars, flag_vars, reset_vars
  <1>1. PcOK'
    BY DEF PcOK
  <1>2. ObjectsOK'
    BY QuirkTable DEF ObjectsOK
  <1>3. FlagsOK'
    BY DEF FlagsOK
  <1>4. StoredOK'
    <2>1. source' \in Sources
      <3>1. CASE \E kind \in {"interrupt", "simulator"} :
                   source' = [kind |-> kind, enabled |-> TRUE,
                              armed |-> kind = "simulator"]
        BY <3>1 DEF Sources
      <3>2. CASE source' = source
        BY <3>2 DEF StoredOK
      <3>. QED BY <3>1, <3>2
    <2>2. dev' \in Devices /\ refs' \in -1..1
      BY DEF StoredOK
    <2>. QED BY <2>1, <2>2 DEF StoredOK
  <1>. QED BY <1>1, <1>2, <1>3, <1>4

\* So does a step of setPowerState.
LEMMA PMType ==
  ASSUME PcOK, ObjectsOK, FlagsOK, StoredOK, PM
  PROVE  (PcOK /\ ObjectsOK /\ FlagsOK /\ StoredOK)'
  <1> USE DEF PM, SleepCalled, PowerCommand, SleepDone, WakeCalled, startInterrupt,
              stopInterrupt, Goto, Crash, live_vars,
              interrupt_vars, object_vars, flag_vars, reset_vars
  <1>1. PcOK'
    BY DEF PcOK
  <1>2. ObjectsOK'
    BY DEF ObjectsOK
  <1>3. FlagsOK'
    BY DEF FlagsOK
  <1>4. StoredOK'
    BY ZenonT(60) DEF StoredOK, Sources, Devices
  <1>. QED BY <1>1, <1>2, <1>3, <1>4

\* commandWakeup leaves pc well typed, whoever it resumes.
LEMMA WakeupType ==
  ASSUME PcOK
  PROVE  /\ Wakeup(pc) \in [Threads -> LifeLabels \cup PmLabels \cup WlLabels]
         /\ Wakeup(pc)["life"] \in LifeLabels /\ Wakeup(pc)["pm"] \in PmLabels
  BY DEF PcOK, Wakeup

\* What getInputReport does to pc.
LEMMA ReadPc ==
  ASSUME getInputReport
  PROVE  \/ pc' = [pc EXCEPT !["wl"] = "idle"]
         \/ pc' = [Wakeup(pc) EXCEPT !["wl"] = "idle"]
         \/ pc' = pc
  <1> HIDE DEF Threads, LifeLabels, PmLabels, WlLabels
  <1>. QED BY DEF getInputReport, Crash, live_vars

\* So does a step of the interrupt handler or of its timer.
LEMMA WorkLoopType ==
  ASSUME PcOK, ObjectsOK, FlagsOK, StoredOK, WorkLoop
  PROVE  (PcOK /\ ObjectsOK /\ FlagsOK /\ StoredOK)'
  <1>1. PcOK'
    <2>1. CASE getInputReport
      <3>1. CASE pc' = [pc EXCEPT !["wl"] = "idle"] \/ pc' = pc
        BY <3>1 DEF PcOK
      <3>2. CASE pc' = [Wakeup(pc) EXCEPT !["wl"] = "idle"]
        BY <3>2, WakeupType DEF PcOK
      <3>. QED BY <2>1, <3>1, <3>2, ReadPc
    <2>2. CASE interruptOccured \/ simulateInterrupt
      BY <2>2 DEF PcOK, interruptOccured, simulateInterrupt, Goto, Crash, live_vars
    <2>. QED BY <2>1, <2>2 DEF WorkLoop
  <1> USE DEF WorkLoop, interruptOccured, simulateInterrupt, getInputReport,
              Rearm, Goto, Crash, live_vars,
              interrupt_vars, object_vars, flag_vars, reset_vars
  <1>2. ObjectsOK'
    BY ZenonT(40) DEF ObjectsOK
  <1>3. FlagsOK'
    BY ZenonT(40) DEF FlagsOK
  <1>4. StoredOK'
    BY ZenonT(40) DEF StoredOK, Sources, Devices
  <1>. QED BY <1>1, <1>2, <1>3, <1>4

\* So does a step of the device.
LEMMA DeviceType ==
  ASSUME PcOK, ObjectsOK, FlagsOK, StoredOK, Device
  PROVE  (PcOK /\ ObjectsOK /\ FlagsOK /\ StoredOK)'
  <1> USE DEF Device, DeviceResetDone, DeviceInput, interrupt_vars, object_vars,
              flag_vars, reset_vars
  <1>1. PcOK' /\ ObjectsOK' /\ FlagsOK'
    BY DEF PcOK, ObjectsOK, FlagsOK
  <1>2. dev' \in Devices
    <2>1. CASE DeviceResetDone
      BY <2>1 DEF StoredOK, Devices
    <2>2. CASE DeviceInput
      BY <2>2 DEF StoredOK, Devices
    <2>. QED BY <2>1, <2>2
  <1>3. StoredOK'
    BY <1>2 DEF StoredOK
  <1>. QED BY <1>1, <1>3

-----------------------------------------------------------------------------
(* The inductive invariant                                                 *)

Waiting == {"rst:sleep", "sleeping"}
Gated   == {"rst:gated", "rst:sleep"}

\* From a handleStart that succeeds to stop.
Up == ResetLabels \cup {"register", "finish", "running"}

\* "life" resets before power management is joined and never again; what "pm"
\* does, it does while it is registered.
OneResetter ==
    /\ pm_registered =>
          pc["life"] \in {"finish", "running", "rel:gate", "rel:remove", "rel:irq",
                         "rel:source", "rel:api", "pmstop"}
    /\ pc["pm"] # "idle" => pm_registered
    /\ pc["life"] \in {"finish", "running", "pmstop"} => pm_registered

\* The gate is held by the thread that is at a position inside of it.
GateInv ==
    /\ gate = "life" <=> pc["life"] \in Gated
    /\ gate = "pm"   <=> pc["pm"] \in Gated
    /\ gate = "wl"   <=> pc["wl"] = "read"

\* The objects exist from handleStart to their own step of releaseResources.
ObjectsInv ==
    /\ pc["life"] \in Up => command_gate = "enabled" /\ source.kind # "null"
    /\ command_gate = "null" /\ pc["life"] = "rel:gate" =>
          ~pm_registered /\ source.kind = "null"
    /\ pc["life"] \in {"handleStart", "failed", "rel:api", "pmstop", "stopped"}
          => source.kind = "null"
    /\ pc["life"] = "rel:remove" => command_gate # "null"
    /\ pc["life"] \in {"rel:irq", "rel:source", "rel:api", "pmstop", "stopped"}
          => command_gate = "null"
    /\ pc["pm"] \in Gated => command_gate # "null"
    /\ pc["wl"] = "read" => source.kind # "null"
    /\ source.kind = "null" => ~source.enabled
    /\ api = "null" => pc["life"] \in {"failed", "pmstop", "stopped"}

\* The reference is dropped once, and only by releaseResources.
RefsInv ==
    /\ pc["life"] = "handleStart" => refs = 0
    /\ pc["life"] \notin {"failed", "pmstop", "stopped"} => refs \in 0..1

\* A thread that waits for a reset waits for a device that answers one, and the
\* answer means that the reset is over.
AnswerInv ==
    /\ \A t \in Resetters : pc[t] \in Waiting => "NO_IRQ_AFTER_RESET" \notin quirks
    /\ dev.output = "ack" => ~dev.resetting
    /\ pc["wl"] = "read" /\ source.kind = "interrupt" /\ ~bus.read_faults
         => dev.output # "none"

\* The event source and its flag follow awake while the device is up.
ListeningInv ==
    pc["life"] \in Up =>
        (awake <=> source.enabled) /\ (awake <=> is_interrupt_started)

\* awake, as the positions of "pm" and "life" imply it.
AwakeInv ==
    /\ pc["pm"] # "idle" => awake
    /\ ~pm_registered /\ pc["life"] # "stopped" => awake

\* The power the device has been given, at every position of its two commanders.
PowerInv ==
    bus.write_faults <= 5 /\ pc["life"] \in Up =>
      /\ pc["life"] \in {"rst:sleep", "sleeping", "woken", "expired", "register"}
           => dev.power = "on"
      /\ pc["pm"] \in {"rst:sleep", "sleeping", "woken", "expired", "off:power"}
           => dev.power = "on"
      /\ pc["pm"] = "off:irq" => dev.power = "sleep"
      /\ pc["life"] \in {"finish", "running"} /\ pc["pm"] = "idle"
           => (awake <=> dev.power = "on")

\* The inductive invariant: types, the position of every thread, and the properties.
IInv ==
    /\ PcOK /\ ObjectsOK /\ FlagsOK /\ StoredOK
    /\ OneResetter /\ GateInv /\ ObjectsInv /\ RefsInv
    /\ AnswerInv /\ ListeningInv /\ AwakeInv /\ PowerInv
    /\ AckNotLost /\ AckedResetIsReal /\ PanicOnlyInTeardown

USE DEF Waiting, Gated, Up

\* No step changes what may fail on the bus.
LEMMA BusStays ==
  ASSUME Life \/ PM \/ (\E t \in Resetters : Reset(t)) \/ WorkLoop \/ Device
  PROVE  bus' = bus
  <1> USE DEF Goto, Crash, live_vars
  <1>1. CASE Life
    <2>1. CASE handleStart \/ RegisterPower \/ start \/ stop
      BY <2>1 DEF handleStart, RegisterPower, start, stop
    <2>2. CASE Release
      BY <2>2 DEF Release, DisableCommandGate, RemoveCommandGate, ReleaseInterrupt,
                  RemoveEventSource, ReleaseApi, PMstop
    <2>. QED BY <1>1, <2>1, <2>2 DEF Life
  <1>2. CASE PM
    BY <1>2 DEF PM, SleepCalled, PowerCommand, SleepDone, WakeCalled
  <1>3. CASE \E t \in Resetters : Reset(t)
    <2> PICK t \in Resetters : Reset(t)
      BY <1>3
    <2>1. CASE resetHIDDevice(t) \/ ResetAborted(t)
      BY <2>1 DEF resetHIDDevice, ResetAborted
    <2>2. CASE resetHIDDeviceGated(t)
      BY <2>2 DEF resetHIDDeviceGated
    <2>3. CASE ResetSleeps(t) \/ ResetDeadline(t) \/ ResetReturns(t)
      BY <2>3 DEF ResetSleeps, ResetDeadline, ResetReturns
    <2>. QED BY <2>1, <2>2, <2>3 DEF Reset
  <1>4. CASE WorkLoop
    <2>1. CASE interruptOccured
      BY <2>1 DEF interruptOccured
    <2>2. CASE simulateInterrupt
      BY <2>2 DEF simulateInterrupt
    <2>3. CASE getInputReport
      BY <2>3, Zenon DEF getInputReport
    <2>. QED BY <1>4, <2>1, <2>2, <2>3 DEF WorkLoop
  <1>5. CASE Device
    BY <1>5 DEF Device, DeviceResetDone, DeviceInput
  <1>. QED BY <1>1, <1>2, <1>3, <1>4, <1>5

\* The invariant holds of a fresh object.
LEMMA InitInv == Init => IInv
  <1> SUFFICES ASSUME Init PROVE IInv
    OBVIOUS
  <1>1. PcOK /\ ObjectsOK /\ FlagsOK /\ StoredOK
    BY InitType
  <1>2. OneResetter /\ GateInv /\ ObjectsInv /\ RefsInv
    BY DEF Init, OneResetter, GateInv, ObjectsInv, RefsInv
  <1>3. AnswerInv /\ ListeningInv /\ AwakeInv /\ PowerInv
    BY DEF Init, AnswerInv, ListeningInv, AwakeInv, PowerInv
  <1>4. AckNotLost /\ AckedResetIsReal /\ PanicOnlyInTeardown
    BY DEF Init, AckNotLost, AckedResetIsReal, PanicOnlyInTeardown
  <1>. QED BY <1>1, <1>2, <1>3, <1>4 DEF IInv

\* handleStart, start and stop keep the invariant.
LEMMA StartStep ==
  ASSUME IInv, ~panic, handleStart \/ RegisterPower \/ start \/ stop PROVE IInv'
  <1> USE BusesAssumption DEF IInv, interrupt_vars, object_vars, flag_vars,
                               reset_vars
  <1>1. (PcOK /\ ObjectsOK /\ FlagsOK /\ StoredOK)'
    BY StartType DEF RefsInv
  <1> USE DEF PcOK, ObjectsOK, FlagsOK
  <1>2. /\ source.enabled \in BOOLEAN
        /\ source.kind \in {"null", "interrupt", "simulator"}
        /\ dev.resetting \in BOOLEAN /\ dev.output \in Outputs
        /\ dev.power \in {"on", "sleep"} /\ refs \in -1..1
        /\ bus' = bus /\ bus.write_faults \in Nat /\ bus.read_faults \in BOOLEAN
    BY BusStays DEF StoredOK, Sources, Devices, Life
  <1>3. CASE handleStart
    <2>1. /\ pc["life"] = "handleStart"
          /\ pc'["pm"] = pc["pm"]
          /\ pc'["wl"] = pc["wl"]
          /\ pc'["life"] \in {"failed", "rel:gate", "rst:call"}
          /\ pc'["life"] = "failed" => UNCHANGED <<source, is_interrupt_started,
                                                   command_gate, refs, quirks>>
          /\ pc'["life"] = "rel:gate" => /\ UNCHANGED <<source,
                                                        is_interrupt_started,
                                                        quirks>>
                                   /\ refs' \in {refs, refs + 1}
          /\ pc'["life"] = "rst:call" => /\ command_gate' = "enabled" /\ refs' = refs + 1
                                   /\ source'.kind # "null" /\ source'.enabled
                                   /\ is_interrupt_started'
          /\ UNCHANGED <<gate, api, awake, pm_registered, reset_written, dev,
                         panic>>
      BY <1>3 DEF handleStart, Goto, StoredOK, Sources, Devices
    <2>2. OneResetter' /\ GateInv' /\ RefsInv' /\ AwakeInv'
      BY <1>2, <2>1 DEF OneResetter, GateInv, RefsInv, AwakeInv
    <2>3. ObjectsInv' /\ PanicOnlyInTeardown'
      BY <1>2, <2>1 DEF ObjectsInv, PanicOnlyInTeardown, OneResetter, GateInv
    <2>4. AnswerInv' /\ AckNotLost' /\ AckedResetIsReal'
      BY <1>2, <2>1 DEF AnswerInv, AckNotLost, AckedResetIsReal, OneResetter,
                        GateInv, ObjectsInv
    <2>5. ListeningInv' /\ PowerInv'
      BY <1>2, <2>1 DEF ListeningInv, PowerInv, OneResetter, AwakeInv, ObjectsInv
    <2>. QED BY <1>1, <2>2, <2>3, <2>4, <2>5
  <1>4. CASE RegisterPower
    <2>1. /\ pc["life"] = "register"
          /\ pc'["life"] = "finish"
          /\ pc'["pm"] = pc["pm"]
          /\ pc'["wl"] = pc["wl"]
          /\ pm_registered'
          /\ UNCHANGED <<gate, source, is_interrupt_started, command_gate, api,
                         refs, awake, quirks, reset_written, dev, panic>>
      BY <1>4 DEF RegisterPower, Goto, StoredOK, Sources, Devices
    <2>2. OneResetter' /\ GateInv' /\ RefsInv' /\ AwakeInv'
      BY <1>2, <2>1 DEF OneResetter, GateInv, RefsInv, AwakeInv
    <2>3. ObjectsInv' /\ PanicOnlyInTeardown'
      BY <1>2, <2>1 DEF ObjectsInv, PanicOnlyInTeardown, OneResetter, GateInv
    <2>4. AnswerInv' /\ AckNotLost' /\ AckedResetIsReal'
      BY <1>2, <2>1 DEF AnswerInv, AckNotLost, AckedResetIsReal, OneResetter,
                        GateInv, ObjectsInv
    <2>5. ListeningInv' /\ PowerInv'
      BY <1>2, <2>1 DEF ListeningInv, PowerInv, OneResetter, AwakeInv, ObjectsInv
    <2>. QED BY <1>1, <2>2, <2>3, <2>4, <2>5
  <1>5. CASE start
    <2>1. /\ pc["life"] = "finish"
          /\ pc'["life"] = "running"
          /\ pc'["pm"] = pc["pm"]
          /\ pc'["wl"] = pc["wl"]
          /\ UNCHANGED <<gate, source, is_interrupt_started, command_gate, api,
                         refs, awake, quirks, pm_registered, reset_written, dev,
                         panic>>
      BY <1>5 DEF start, Goto, StoredOK, Sources, Devices
    <2>2. OneResetter' /\ GateInv' /\ RefsInv' /\ AwakeInv'
      BY <1>2, <2>1 DEF OneResetter, GateInv, RefsInv, AwakeInv
    <2>3. ObjectsInv' /\ PanicOnlyInTeardown'
      BY <1>2, <2>1 DEF ObjectsInv, PanicOnlyInTeardown, OneResetter, GateInv
    <2>4. AnswerInv' /\ AckNotLost' /\ AckedResetIsReal'
      BY <1>2, <2>1 DEF AnswerInv, AckNotLost, AckedResetIsReal, OneResetter,
                        GateInv, ObjectsInv
    <2>5. ListeningInv' /\ PowerInv'
      BY <1>2, <2>1 DEF ListeningInv, PowerInv, OneResetter, AwakeInv, ObjectsInv
    <2>. QED BY <1>1, <2>2, <2>3, <2>4, <2>5
  <1>6. CASE stop
    <2>1. /\ pc["life"] = "running"
          /\ pc'["life"] = "rel:gate"
          /\ pc'["pm"] = pc["pm"]
          /\ pc'["wl"] = pc["wl"]
          /\ UNCHANGED <<gate, source, is_interrupt_started, command_gate, api,
                         refs, awake, quirks, pm_registered, reset_written, dev,
                         panic>>
      BY <1>6 DEF stop, Goto, StoredOK, Sources, Devices
    <2>2. OneResetter' /\ GateInv' /\ RefsInv' /\ AwakeInv'
      BY <1>2, <2>1 DEF OneResetter, GateInv, RefsInv, AwakeInv
    <2>3. ObjectsInv' /\ PanicOnlyInTeardown'
      BY <1>2, <2>1 DEF ObjectsInv, PanicOnlyInTeardown, OneResetter, GateInv
    <2>4. AnswerInv' /\ AckNotLost' /\ AckedResetIsReal'
      BY <1>2, <2>1 DEF AnswerInv, AckNotLost, AckedResetIsReal, OneResetter,
                        GateInv, ObjectsInv
    <2>5. ListeningInv' /\ PowerInv'
      BY <1>2, <2>1 DEF ListeningInv, PowerInv, OneResetter, AwakeInv, ObjectsInv
    <2>. QED BY <1>1, <2>2, <2>3, <2>4, <2>5
  <1>. QED BY <1>3, <1>4, <1>5, <1>6

\* releaseResources and PMstop keep the invariant.
LEMMA ReleaseStep ==
  ASSUME IInv, ~panic, Release PROVE IInv'
  <1> USE BusesAssumption DEF IInv, interrupt_vars, object_vars, flag_vars,
                               reset_vars
  <1>1. (PcOK /\ ObjectsOK /\ FlagsOK /\ StoredOK)'
    BY ReleaseType DEF RefsInv
  <1> USE DEF PcOK, ObjectsOK, FlagsOK
  <1>2. /\ source.enabled \in BOOLEAN
        /\ source.kind \in {"null", "interrupt", "simulator"}
        /\ dev.resetting \in BOOLEAN /\ dev.output \in Outputs
        /\ dev.power \in {"on", "sleep"} /\ refs \in -1..1
        /\ bus' = bus /\ bus.write_faults \in Nat /\ bus.read_faults \in BOOLEAN
    BY BusStays DEF StoredOK, Sources, Devices, Life
  <1>3. CASE DisableCommandGate
    <2>1. /\ pc["life"] = "rel:gate"
          /\ pc'["pm"] = pc["pm"]
          /\ pc'["wl"] = pc["wl"]
          /\ \/ command_gate = "null" /\ command_gate' = "null" /\ pc'["life"] = "rel:irq"
             \/ command_gate # "null" /\ command_gate' = "disabled" /\ pc'["life"] = "rel:remove"
          /\ UNCHANGED <<gate, source, is_interrupt_started, api, refs, awake,
                         quirks, pm_registered, reset_written, dev, panic>>
      BY <1>3 DEF DisableCommandGate, Goto, StoredOK, Sources, Devices
    <2>2. OneResetter' /\ GateInv' /\ RefsInv' /\ AwakeInv'
      BY <1>2, <2>1 DEF OneResetter, GateInv, RefsInv, AwakeInv
    <2>3. ObjectsInv' /\ PanicOnlyInTeardown'
      BY <1>2, <2>1 DEF ObjectsInv, PanicOnlyInTeardown, OneResetter, GateInv
    <2>4. AnswerInv' /\ AckNotLost' /\ AckedResetIsReal'
      BY <1>2, <2>1 DEF AnswerInv, AckNotLost, AckedResetIsReal, OneResetter,
                        GateInv, ObjectsInv
    <2>5. ListeningInv' /\ PowerInv'
      BY <1>2, <2>1 DEF ListeningInv, PowerInv, OneResetter, AwakeInv, ObjectsInv
    <2>. QED BY <1>1, <2>2, <2>3, <2>4, <2>5
  <1>4. CASE RemoveCommandGate
    <2>1. /\ pc["life"] = "rel:remove"
          /\ pc'["life"] = "rel:irq"
          /\ pc'["pm"] = pc["pm"]
          /\ pc'["wl"] = pc["wl"]
          /\ gate = "free"
          /\ command_gate' = "null"
          /\ UNCHANGED <<gate, source, is_interrupt_started, api, refs, awake,
                         quirks, pm_registered, reset_written, dev, panic>>
      BY <1>4 DEF RemoveCommandGate, Goto, StoredOK, Sources, Devices
    <2>2. OneResetter' /\ GateInv' /\ RefsInv' /\ AwakeInv'
      BY <1>2, <2>1 DEF OneResetter, GateInv, RefsInv, AwakeInv
    <2>3. ObjectsInv' /\ PanicOnlyInTeardown'
      BY <1>2, <2>1 DEF ObjectsInv, PanicOnlyInTeardown, OneResetter, GateInv
    <2>4. AnswerInv' /\ AckNotLost' /\ AckedResetIsReal'
      BY <1>2, <2>1 DEF AnswerInv, AckNotLost, AckedResetIsReal, OneResetter,
                        GateInv, ObjectsInv
    <2>5. ListeningInv' /\ PowerInv'
      BY <1>2, <2>1 DEF ListeningInv, PowerInv, OneResetter, AwakeInv, ObjectsInv
    <2>. QED BY <1>1, <2>2, <2>3, <2>4, <2>5
  <1>5. CASE ReleaseInterrupt
    <2>1. /\ pc["life"] = "rel:irq"
          /\ pc'["life"] = "rel:source"
          /\ pc'["pm"] = pc["pm"]
          /\ pc'["wl"] = pc["wl"]
          /\ source'.kind = source.kind
          /\ source.kind = "null" => source'.enabled = FALSE \/ source' = source
          /\ UNCHANGED <<gate, command_gate, api, refs, awake, quirks,
                         pm_registered, reset_written, dev, panic>>
      BY <1>5 DEF ReleaseInterrupt, stopInterrupt, Goto, StoredOK, Sources, Devices
    <2>2. OneResetter' /\ GateInv' /\ RefsInv' /\ AwakeInv'
      BY <1>2, <2>1 DEF OneResetter, GateInv, RefsInv, AwakeInv
    <2>3. ObjectsInv' /\ PanicOnlyInTeardown'
      BY <1>2, <2>1 DEF ObjectsInv, PanicOnlyInTeardown, OneResetter, GateInv
    <2>4. AnswerInv' /\ AckNotLost' /\ AckedResetIsReal'
      BY <1>2, <2>1 DEF AnswerInv, AckNotLost, AckedResetIsReal, OneResetter,
                        GateInv, ObjectsInv
    <2>5. ListeningInv' /\ PowerInv'
      BY <1>2, <2>1 DEF ListeningInv, PowerInv, OneResetter, AwakeInv, ObjectsInv
    <2>. QED BY <1>1, <2>2, <2>3, <2>4, <2>5
  <1>6. CASE RemoveEventSource
    <2>1. /\ pc["life"] = "rel:source"
          /\ pc'["life"] = "rel:api"
          /\ pc'["pm"] = pc["pm"]
          /\ pc'["wl"] = pc["wl"]
          /\ source.kind # "null" => gate = "free"
          /\ source'.kind = "null" /\ ~source'.enabled
          /\ UNCHANGED <<gate, is_interrupt_started, command_gate, api, refs, awake,
                         quirks, pm_registered, reset_written, dev, panic>>
      BY <1>6 DEF RemoveEventSource, SourceCanGo, Goto, StoredOK, Sources, Devices
    <2>2. OneResetter' /\ GateInv' /\ RefsInv' /\ AwakeInv'
      BY <1>2, <2>1 DEF OneResetter, GateInv, RefsInv, AwakeInv
    <2>3. ObjectsInv' /\ PanicOnlyInTeardown'
      BY <1>2, <2>1 DEF ObjectsInv, PanicOnlyInTeardown, OneResetter, GateInv
    <2>4. AnswerInv' /\ AckNotLost' /\ AckedResetIsReal'
      BY <1>2, <2>1 DEF AnswerInv, AckNotLost, AckedResetIsReal, OneResetter,
                        GateInv, ObjectsInv
    <2>5. ListeningInv' /\ PowerInv'
      BY <1>2, <2>1 DEF ListeningInv, PowerInv, OneResetter, AwakeInv, ObjectsInv
    <2>. QED BY <1>1, <2>2, <2>3, <2>4, <2>5
  <1>7. CASE ReleaseApi
    <2>1. /\ pc["life"] = "rel:api"
          /\ pc'["life"] = IF pm_registered THEN "pmstop" ELSE "failed"
          /\ pc'["pm"] = pc["pm"]
          /\ pc'["wl"] = pc["wl"]
          /\ api' = "null"
          /\ UNCHANGED <<gate, source, is_interrupt_started, command_gate, awake,
                         quirks, pm_registered, reset_written, dev, panic>>
      BY <1>7 DEF ReleaseApi, Goto, StoredOK, Sources, Devices
    <2>2. OneResetter' /\ GateInv' /\ RefsInv' /\ AwakeInv'
      BY <1>2, <2>1 DEF OneResetter, GateInv, RefsInv, AwakeInv
    <2>3. ObjectsInv' /\ PanicOnlyInTeardown'
      BY <1>2, <2>1 DEF ObjectsInv, PanicOnlyInTeardown, OneResetter, GateInv
    <2>4. AnswerInv' /\ AckNotLost' /\ AckedResetIsReal'
      BY <1>2, <2>1 DEF AnswerInv, AckNotLost, AckedResetIsReal, OneResetter,
                        GateInv, ObjectsInv
    <2>5. ListeningInv' /\ PowerInv'
      BY <1>2, <2>1 DEF ListeningInv, PowerInv, OneResetter, AwakeInv, ObjectsInv
    <2>. QED BY <1>1, <2>2, <2>3, <2>4, <2>5
  <1>8. CASE PMstop
    <2>1. /\ pc["life"] = "pmstop"
          /\ pc["pm"] = "idle"
          /\ pc'["life"] = "stopped"
          /\ pc'["pm"] = pc["pm"]
          /\ pc'["wl"] = pc["wl"]
          /\ ~pm_registered'
          /\ UNCHANGED <<gate, source, is_interrupt_started, command_gate, api,
                         refs, awake, quirks, reset_written, dev, panic>>
      BY <1>8 DEF PMstop, Goto, StoredOK, Sources, Devices
    <2>2. OneResetter' /\ GateInv' /\ RefsInv' /\ AwakeInv'
      BY <1>2, <2>1 DEF OneResetter, GateInv, RefsInv, AwakeInv
    <2>3. ObjectsInv' /\ PanicOnlyInTeardown'
      BY <1>2, <2>1 DEF ObjectsInv, PanicOnlyInTeardown, OneResetter, GateInv
    <2>4. AnswerInv' /\ AckNotLost' /\ AckedResetIsReal'
      BY <1>2, <2>1 DEF AnswerInv, AckNotLost, AckedResetIsReal, OneResetter,
                        GateInv, ObjectsInv
    <2>5. ListeningInv' /\ PowerInv'
      BY <1>2, <2>1 DEF ListeningInv, PowerInv, OneResetter, AwakeInv, ObjectsInv
    <2>. QED BY <1>1, <2>2, <2>3, <2>4, <2>5
  <1>. QED BY <1>3, <1>4, <1>5, <1>6, <1>7, <1>8 DEF Release

\* setPowerState keeps the invariant.
LEMMA PMStep ==
  ASSUME IInv, ~panic, PM PROVE IInv'
  <1> USE BusesAssumption DEF IInv, interrupt_vars, object_vars, flag_vars,
                               reset_vars
  <1>1. (PcOK /\ ObjectsOK /\ FlagsOK /\ StoredOK)'
    BY PMType DEF RefsInv
  <1> USE DEF PcOK, ObjectsOK, FlagsOK
  <1>2. /\ source.enabled \in BOOLEAN
        /\ source.kind \in {"null", "interrupt", "simulator"}
        /\ dev.resetting \in BOOLEAN /\ dev.output \in Outputs
        /\ dev.power \in {"on", "sleep"} /\ refs \in -1..1
        /\ bus' = bus /\ bus.write_faults \in Nat /\ bus.read_faults \in BOOLEAN
    BY BusStays DEF StoredOK, Sources, Devices
  <1>3. CASE SleepCalled
    <2>1. /\ pc["pm"] = "idle"
          /\ pm_registered
          /\ awake
          /\ pc'["life"] = pc["life"]
          /\ pc'["pm"] = "off:power"
          /\ pc'["wl"] = pc["wl"]
          /\ UNCHANGED <<gate, source, is_interrupt_started, command_gate, api,
                         refs, awake, quirks, pm_registered, reset_written, dev,
                         panic>>
      BY <1>3 DEF SleepCalled, Goto, StoredOK, Sources, Devices
    <2>2. OneResetter' /\ GateInv' /\ RefsInv' /\ AwakeInv'
      BY <1>2, <2>1 DEF OneResetter, GateInv, RefsInv, AwakeInv
    <2>3. ObjectsInv' /\ PanicOnlyInTeardown'
      BY <1>2, <2>1 DEF ObjectsInv, PanicOnlyInTeardown, OneResetter, GateInv
    <2>4. AnswerInv' /\ AckNotLost' /\ AckedResetIsReal'
      BY <1>2, <2>1 DEF AnswerInv, AckNotLost, AckedResetIsReal, OneResetter,
                        GateInv, ObjectsInv
    <2>5. ListeningInv' /\ PowerInv'
      BY <1>2, <2>1 DEF ListeningInv, PowerInv, OneResetter, AwakeInv, ObjectsInv
    <2>. QED BY <1>1, <2>2, <2>3, <2>4, <2>5
  <1>4. CASE PowerCommand /\ ~panic'
    <2>1. /\ pc["pm"] \in {"off:power", "on:power"}
          /\ pc'["life"] = pc["life"]
          /\ pc'["pm"] = IF pc["pm"] = "on:power" THEN "idle" ELSE "off:irq"
          /\ pc'["wl"] = pc["wl"]
          /\ dev'.output = dev.output /\ dev'.resetting = dev.resetting
          /\ bus.write_faults <= 5 =>
               dev'.power = IF pc["pm"] = "on:power" THEN "on" ELSE "sleep"
          /\ UNCHANGED <<gate, source, is_interrupt_started, command_gate, api,
                         refs, awake, quirks, pm_registered, reset_written, panic>>
      BY <1>4 DEF PowerCommand, setHIDPowerState, Attempts, Goto, Crash, StoredOK,
                  Sources, Devices
    <2>2. OneResetter' /\ GateInv' /\ RefsInv' /\ AwakeInv'
      BY <1>2, <2>1 DEF OneResetter, GateInv, RefsInv, AwakeInv
    <2>3. ObjectsInv' /\ PanicOnlyInTeardown'
      BY <1>2, <2>1 DEF ObjectsInv, PanicOnlyInTeardown, OneResetter, GateInv
    <2>4. AnswerInv' /\ AckNotLost' /\ AckedResetIsReal'
      BY <1>2, <2>1 DEF AnswerInv, AckNotLost, AckedResetIsReal, OneResetter,
                        GateInv, ObjectsInv
    <2>5. ListeningInv' /\ PowerInv'
      BY <1>2, <2>1 DEF ListeningInv, PowerInv, OneResetter, AwakeInv, ObjectsInv
    <2>. QED BY <1>1, <2>2, <2>3, <2>4, <2>5
  <1>5. CASE PowerCommand /\ panic'
    <2>1. /\ pc["pm"] # "idle"
          /\ api = "null"
          /\ UNCHANGED pc
          /\ panic'
          /\ UNCHANGED <<gate, source, is_interrupt_started, command_gate, api,
                         refs, awake, quirks, pm_registered, reset_written, dev>>
      BY <1>5 DEF PowerCommand, Goto, Crash, live_vars, StoredOK, Sources, Devices
    <2>2. OneResetter' /\ GateInv' /\ RefsInv' /\ AwakeInv'
      BY <1>2, <2>1 DEF OneResetter, GateInv, RefsInv, AwakeInv
    <2>3. ObjectsInv' /\ PanicOnlyInTeardown'
      BY <1>2, <2>1 DEF ObjectsInv, PanicOnlyInTeardown, OneResetter, GateInv
    <2>4. AnswerInv' /\ AckNotLost' /\ AckedResetIsReal'
      BY <1>2, <2>1 DEF AnswerInv, AckNotLost, AckedResetIsReal, OneResetter,
                        GateInv, ObjectsInv
    <2>5. ListeningInv' /\ PowerInv'
      BY <1>2, <2>1 DEF ListeningInv, PowerInv, OneResetter, AwakeInv, ObjectsInv
    <2>. QED BY <1>1, <2>2, <2>3, <2>4, <2>5
  <1>6. CASE SleepDone
    <2>1. /\ pc["pm"] = "off:irq"
          /\ pc'["life"] = pc["life"]
          /\ pc'["pm"] = "idle"
          /\ pc'["wl"] = pc["wl"]
          /\ ~awake' /\ ~is_interrupt_started'
          /\ source'.kind = source.kind
          /\ source'.enabled = (source.enabled /\ ~is_interrupt_started)
          /\ UNCHANGED <<gate, command_gate, api, refs, quirks, pm_registered,
                         reset_written, dev, panic>>
      BY <1>6 DEF SleepDone, stopInterrupt, Goto, StoredOK, Sources, Devices
    <2>2. OneResetter' /\ GateInv' /\ RefsInv' /\ AwakeInv'
      BY <1>2, <2>1 DEF OneResetter, GateInv, RefsInv, AwakeInv
    <2>3. ObjectsInv' /\ PanicOnlyInTeardown'
      BY <1>2, <2>1 DEF ObjectsInv, PanicOnlyInTeardown, OneResetter, GateInv
    <2>4. AnswerInv' /\ AckNotLost' /\ AckedResetIsReal'
      BY <1>2, <2>1 DEF AnswerInv, AckNotLost, AckedResetIsReal, OneResetter,
                        GateInv, ObjectsInv
    <2>5. ListeningInv' /\ PowerInv'
      BY <1>2, <2>1 DEF ListeningInv, PowerInv, OneResetter, AwakeInv, ObjectsInv
    <2>. QED BY <1>1, <2>2, <2>3, <2>4, <2>5
  <1>7. CASE WakeCalled
    <2>1. /\ pc["pm"] = "idle"
          /\ pm_registered
          /\ ~awake
          /\ pc'["life"] = pc["life"]
          /\ pc'["pm"] = IF "RESET_ON_RESUME" \in quirks THEN "rst:call" ELSE "on:power"
          /\ pc'["wl"] = pc["wl"]
          /\ awake' /\ is_interrupt_started'
          /\ source'.kind = source.kind
          /\ source'.enabled = IF is_interrupt_started THEN source.enabled
                               ELSE source.kind # "null"
          /\ UNCHANGED <<gate, command_gate, api, refs, quirks, pm_registered,
                         reset_written, dev, panic>>
      BY <1>7 DEF WakeCalled, startInterrupt, Goto, StoredOK, Sources, Devices
    <2>2. OneResetter' /\ GateInv' /\ RefsInv' /\ AwakeInv'
      BY <1>2, <2>1 DEF OneResetter, GateInv, RefsInv, AwakeInv
    <2>3. ObjectsInv' /\ PanicOnlyInTeardown'
      BY <1>2, <2>1 DEF ObjectsInv, PanicOnlyInTeardown, OneResetter, GateInv
    <2>4. AnswerInv' /\ AckNotLost' /\ AckedResetIsReal'
      BY <1>2, <2>1 DEF AnswerInv, AckNotLost, AckedResetIsReal, OneResetter,
                        GateInv, ObjectsInv
    <2>5. ListeningInv' /\ PowerInv'
      BY <1>2, <2>1 DEF ListeningInv, PowerInv, OneResetter, AwakeInv, ObjectsInv
    <2>. QED BY <1>1, <2>2, <2>3, <2>4, <2>5
  <1>. QED BY <1>3, <1>4, <1>5, <1>6, <1>7 DEF PM

\* The device keeps the invariant.
LEMMA DeviceStep ==
  ASSUME IInv, ~panic, Device PROVE IInv'
  <1> USE BusesAssumption DEF IInv, interrupt_vars, object_vars, flag_vars,
                               reset_vars
  <1>1. (PcOK /\ ObjectsOK /\ FlagsOK /\ StoredOK)'
    BY DeviceType DEF RefsInv
  <1> USE DEF PcOK, ObjectsOK, FlagsOK
  <1>2. /\ source.enabled \in BOOLEAN
        /\ source.kind \in {"null", "interrupt", "simulator"}
        /\ dev.resetting \in BOOLEAN /\ dev.output \in Outputs
        /\ dev.power \in {"on", "sleep"} /\ refs \in -1..1
        /\ bus' = bus /\ bus.write_faults \in Nat /\ bus.read_faults \in BOOLEAN
    BY BusStays DEF StoredOK, Sources, Devices
  <1>3. CASE DeviceResetDone
    <2>1. /\ dev.resetting
          /\ UNCHANGED pc
          /\ dev'.power = dev.power /\ ~dev'.resetting
          /\ dev'.output = IF "NO_IRQ_AFTER_RESET" \in quirks THEN dev.output ELSE "ack"
          /\ UNCHANGED <<gate, source, is_interrupt_started, command_gate, api,
                         refs, awake, quirks, pm_registered, reset_written, panic>>
      BY <1>3 DEF DeviceResetDone, StoredOK, Sources, Devices
    <2>2. OneResetter' /\ GateInv' /\ RefsInv' /\ AwakeInv'
      BY <1>2, <2>1 DEF OneResetter, GateInv, RefsInv, AwakeInv
    <2>3. ObjectsInv' /\ PanicOnlyInTeardown'
      BY <1>2, <2>1 DEF ObjectsInv, PanicOnlyInTeardown, OneResetter, GateInv
    <2>4. AnswerInv' /\ AckNotLost' /\ AckedResetIsReal'
      BY <1>2, <2>1 DEF AnswerInv, AckNotLost, AckedResetIsReal, OneResetter,
                        GateInv, ObjectsInv
    <2>5. ListeningInv' /\ PowerInv'
      BY <1>2, <2>1 DEF ListeningInv, PowerInv, OneResetter, AwakeInv, ObjectsInv
    <2>. QED BY <1>1, <2>2, <2>3, <2>4, <2>5
  <1>4. CASE DeviceInput
    <2>1. /\ UNCHANGED pc
          /\ ~dev.resetting /\ dev.output = "none"
          /\ dev'.power = dev.power /\ dev'.resetting = dev.resetting
          /\ dev'.output \in {"report", "oversize", "short"}
          /\ UNCHANGED <<gate, source, is_interrupt_started, command_gate, api,
                         refs, awake, quirks, pm_registered, reset_written, panic>>
      BY <1>4 DEF DeviceInput, StoredOK, Sources, Devices
    <2>2. OneResetter' /\ GateInv' /\ RefsInv' /\ AwakeInv'
      BY <1>2, <2>1 DEF OneResetter, GateInv, RefsInv, AwakeInv
    <2>3. ObjectsInv' /\ PanicOnlyInTeardown'
      BY <1>2, <2>1 DEF ObjectsInv, PanicOnlyInTeardown, OneResetter, GateInv
    <2>4. AnswerInv' /\ AckNotLost' /\ AckedResetIsReal'
      BY <1>2, <2>1 DEF AnswerInv, AckNotLost, AckedResetIsReal, OneResetter,
                        GateInv, ObjectsInv
    <2>5. ListeningInv' /\ PowerInv'
      BY <1>2, <2>1 DEF ListeningInv, PowerInv, OneResetter, AwakeInv, ObjectsInv
    <2>. QED BY <1>1, <2>2, <2>3, <2>4, <2>5
  <1>. QED BY <1>3, <1>4 DEF Device

\* resetHIDDevice keeps the invariant, whichever thread calls it.
LEMMA ResetStep ==
  ASSUME IInv, ~panic, NEW t \in Resetters, Reset(t) PROVE IInv'
  <1> USE BusesAssumption DEF IInv, interrupt_vars, object_vars, flag_vars,
                               reset_vars
  <1>1. (PcOK /\ ObjectsOK /\ FlagsOK /\ StoredOK)'
    BY ResetType DEF RefsInv
  <1> USE DEF PcOK, ObjectsOK, FlagsOK
  <1>2. /\ source.enabled \in BOOLEAN
        /\ source.kind \in {"null", "interrupt", "simulator"}
        /\ dev.resetting \in BOOLEAN /\ dev.output \in Outputs
        /\ dev.power \in {"on", "sleep"} /\ refs \in -1..1
        /\ bus' = bus /\ bus.write_faults \in Nat /\ bus.read_faults \in BOOLEAN
    BY BusStays DEF StoredOK, Sources, Devices
  <1>3. CASE resetHIDDevice(t) /\ panic'
    <2>1. /\ pc[t] = "rst:call"
          /\ command_gate = "null"
          /\ UNCHANGED pc
          /\ panic'
          /\ UNCHANGED <<gate, source, is_interrupt_started, command_gate, api,
                         refs, awake, quirks, pm_registered, reset_written, dev>>
      BY <1>3 DEF resetHIDDevice, Goto, Crash, live_vars, StoredOK, Sources, Devices
    <2>2. OneResetter' /\ GateInv' /\ RefsInv' /\ AwakeInv'
      BY <1>2, <2>1 DEF OneResetter, GateInv, RefsInv, AwakeInv
    <2>3. ObjectsInv' /\ PanicOnlyInTeardown'
      BY <1>2, <2>1 DEF ObjectsInv, PanicOnlyInTeardown, OneResetter, GateInv
    <2>4. AnswerInv' /\ AckNotLost' /\ AckedResetIsReal'
      BY <1>2, <2>1 DEF AnswerInv, AckNotLost, AckedResetIsReal, OneResetter,
                        GateInv, ObjectsInv
    <2>5. ListeningInv' /\ PowerInv'
      BY <1>2, <2>1 DEF ListeningInv, PowerInv, OneResetter, AwakeInv, ObjectsInv
    <2>. QED BY <1>1, <2>2, <2>3, <2>4, <2>5
  <1>4. CASE resetHIDDevice(t) /\ ~panic'
    <2>1. /\ pc[t] = "rst:call"
          /\ pc'["wl"] = pc["wl"]
          /\ \/ /\ command_gate = "enabled" /\ gate = "free" /\ gate' = t
                /\ pc'["life"] = IF t = "life" THEN "rst:gated" ELSE pc["life"]
                /\ pc'["pm"] = IF t = "pm" THEN "rst:gated" ELSE pc["pm"]
             \/ /\ command_gate = "disabled" /\ gate' = gate
                /\ pc'["life"] = IF t = "life" THEN "rst:blocked" ELSE pc["life"]
                /\ pc'["pm"] = IF t = "pm" THEN "rst:blocked" ELSE pc["pm"]
          /\ UNCHANGED <<source, is_interrupt_started, command_gate, api, refs,
                         awake, quirks, pm_registered, reset_written, dev, panic>>
      BY <1>4 DEF resetHIDDevice, EnterGate, Goto, Crash, StoredOK, Sources, Devices
    <2>2. OneResetter' /\ GateInv' /\ RefsInv' /\ AwakeInv'
      BY <1>2, <2>1 DEF OneResetter, GateInv, RefsInv, AwakeInv
    <2>3. ObjectsInv' /\ PanicOnlyInTeardown'
      BY <1>2, <2>1 DEF ObjectsInv, PanicOnlyInTeardown, OneResetter, GateInv
    <2>4. AnswerInv' /\ AckNotLost' /\ AckedResetIsReal'
      BY <1>2, <2>1 DEF AnswerInv, AckNotLost, AckedResetIsReal, OneResetter,
                        GateInv, ObjectsInv
    <2>5. ListeningInv' /\ PowerInv'
      BY <1>2, <2>1 DEF ListeningInv, PowerInv, OneResetter, AwakeInv, ObjectsInv
    <2>. QED BY <1>1, <2>2, <2>3, <2>4, <2>5
  <1>5. CASE ResetAborted(t)
    <2>1. /\ pc[t] = "rst:blocked"
          /\ pc'["wl"] = pc["wl"]
          /\ pc'["life"] = IF t = "life" THEN "register" ELSE pc["life"]
          /\ pc'["pm"] = IF t = "pm" THEN "idle" ELSE pc["pm"]
          /\ command_gate = "null"
          /\ UNCHANGED <<gate, source, is_interrupt_started, command_gate, api,
                         refs, awake, quirks, pm_registered, reset_written, dev,
                         panic>>
      BY <1>5 DEF ResetAborted, AfterReset, Goto, StoredOK, Sources, Devices
    <2>2. OneResetter' /\ GateInv' /\ RefsInv' /\ AwakeInv'
      BY <1>2, <2>1 DEF OneResetter, GateInv, RefsInv, AwakeInv
    <2>3. ObjectsInv' /\ PanicOnlyInTeardown'
      BY <1>2, <2>1 DEF ObjectsInv, PanicOnlyInTeardown, OneResetter, GateInv
    <2>4. AnswerInv' /\ AckNotLost' /\ AckedResetIsReal'
      BY <1>2, <2>1 DEF AnswerInv, AckNotLost, AckedResetIsReal, OneResetter,
                        GateInv, ObjectsInv
    <2>5. ListeningInv' /\ PowerInv'
      BY <1>2, <2>1 DEF ListeningInv, PowerInv, OneResetter, AwakeInv, ObjectsInv
    <2>. QED BY <1>1, <2>2, <2>3, <2>4, <2>5
  <1>6. CASE resetHIDDeviceGated(t)
    <2>1. /\ pc[t] = "rst:gated"
          /\ pc'["wl"] = pc["wl"]
          /\ t = "life" =>
               pc'["life"] = IF "NO_IRQ_AFTER_RESET" \in quirks THEN "register"
                             ELSE "rst:sleep"
          /\ t # "life" => pc'["life"] = pc["life"]
          /\ t = "pm" =>
               pc'["pm"] = IF "NO_IRQ_AFTER_RESET" \in quirks THEN "idle"
                           ELSE "rst:sleep"
          /\ t # "pm" => pc'["pm"] = pc["pm"]
          /\ gate' = IF "NO_IRQ_AFTER_RESET" \in quirks THEN "free" ELSE gate
          /\ bus.write_faults <= 5 => dev'.power = "on"
          /\ reset_written' => dev'.resetting /\ dev'.output = "none"
          /\ ~reset_written' => dev'.resetting = dev.resetting /\ dev'.output = dev.output
          /\ UNCHANGED <<source, is_interrupt_started, command_gate, api, refs,
                         awake, quirks, pm_registered, panic>>
      <3>1. PICK power \in {"on", "sleep"}, ok \in BOOLEAN :
              /\ setHIDPowerState("on", power)
              /\ reset_written' = ok
              /\ dev' = IF ok THEN [power |-> "on", resetting |-> TRUE,
                                    output |-> "none", handled |-> TRUE]
                        ELSE [dev EXCEPT !.power = power]
        BY <1>6 DEF resetHIDDeviceGated
      <3>2. bus.write_faults <= 5 => power = "on"
        BY <3>1 DEF setHIDPowerState, Attempts
      <3>3. /\ bus.write_faults <= 5 => dev'.power = "on"
            /\ reset_written' => dev'.resetting /\ dev'.output = "none"
            /\ ~reset_written' => dev'.resetting = dev.resetting
                                 /\ dev'.output = dev.output
        BY <3>1, <3>2 DEF StoredOK, Devices
      <3>. QED BY <1>6, <3>3 DEF resetHIDDeviceGated, AfterReset, Goto
    <2>2. OneResetter' /\ GateInv' /\ RefsInv' /\ AwakeInv'
      BY <1>2, <2>1 DEF OneResetter, GateInv, RefsInv, AwakeInv
    <2>3. ObjectsInv' /\ PanicOnlyInTeardown'
      BY <1>2, <2>1 DEF ObjectsInv, PanicOnlyInTeardown, OneResetter, GateInv
    <2>4. AnswerInv' /\ AckNotLost' /\ AckedResetIsReal'
      BY <1>2, <2>1 DEF AnswerInv, AckNotLost, AckedResetIsReal, OneResetter,
                        GateInv, ObjectsInv
    <2>5. ListeningInv' /\ PowerInv'
      BY <1>2, <2>1 DEF ListeningInv, PowerInv, OneResetter, AwakeInv, ObjectsInv
    <2>. QED BY <1>1, <2>2, <2>3, <2>4, <2>5
  <1>7. CASE ResetSleeps(t)
    <2>1. /\ pc[t] = "rst:sleep"
          /\ pc'["wl"] = pc["wl"]
          /\ pc'["life"] = IF t = "life" THEN "sleeping" ELSE pc["life"]
          /\ pc'["pm"] = IF t = "pm" THEN "sleeping" ELSE pc["pm"]
          /\ gate' = "free"
          /\ UNCHANGED <<source, is_interrupt_started, command_gate, api, refs,
                         awake, quirks, pm_registered, reset_written, dev, panic>>
      BY <1>7 DEF ResetSleeps, Goto, StoredOK, Sources, Devices
    <2>2. OneResetter' /\ GateInv' /\ RefsInv' /\ AwakeInv'
      BY <1>2, <2>1 DEF OneResetter, GateInv, RefsInv, AwakeInv
    <2>3. ObjectsInv' /\ PanicOnlyInTeardown'
      BY <1>2, <2>1 DEF ObjectsInv, PanicOnlyInTeardown, OneResetter, GateInv
    <2>4. AnswerInv' /\ AckNotLost' /\ AckedResetIsReal'
      BY <1>2, <2>1 DEF AnswerInv, AckNotLost, AckedResetIsReal, OneResetter,
                        GateInv, ObjectsInv
    <2>5. ListeningInv' /\ PowerInv'
      BY <1>2, <2>1 DEF ListeningInv, PowerInv, OneResetter, AwakeInv, ObjectsInv
    <2>. QED BY <1>1, <2>2, <2>3, <2>4, <2>5
  <1>8. CASE ResetDeadline(t)
    <2>1. /\ pc[t] = "sleeping"
          /\ pc'["wl"] = pc["wl"]
          /\ pc'["life"] = IF t = "life" THEN "expired" ELSE pc["life"]
          /\ pc'["pm"] = IF t = "pm" THEN "expired" ELSE pc["pm"]
          /\ UNCHANGED <<gate, source, is_interrupt_started, command_gate, api,
                         refs, awake, quirks, pm_registered, reset_written, dev,
                         panic>>
      BY <1>8 DEF ResetDeadline, Goto, StoredOK, Sources, Devices
    <2>2. OneResetter' /\ GateInv' /\ RefsInv' /\ AwakeInv'
      BY <1>2, <2>1 DEF OneResetter, GateInv, RefsInv, AwakeInv
    <2>3. ObjectsInv' /\ PanicOnlyInTeardown'
      BY <1>2, <2>1 DEF ObjectsInv, PanicOnlyInTeardown, OneResetter, GateInv
    <2>4. AnswerInv' /\ AckNotLost' /\ AckedResetIsReal'
      BY <1>2, <2>1 DEF AnswerInv, AckNotLost, AckedResetIsReal, OneResetter,
                        GateInv, ObjectsInv
    <2>5. ListeningInv' /\ PowerInv'
      BY <1>2, <2>1 DEF ListeningInv, PowerInv, OneResetter, AwakeInv, ObjectsInv
    <2>. QED BY <1>1, <2>2, <2>3, <2>4, <2>5
  <1>9. CASE ResetReturns(t)
    <2>1. /\ pc[t] \in {"woken", "expired"}
          /\ pc'["wl"] = pc["wl"]
          /\ pc'["life"] = IF t = "life" THEN "register" ELSE pc["life"]
          /\ pc'["pm"] = IF t = "pm" THEN "idle" ELSE pc["pm"]
          /\ UNCHANGED <<gate, source, is_interrupt_started, command_gate, api,
                         refs, awake, quirks, pm_registered, reset_written, dev,
                         panic>>
      BY <1>9 DEF ResetReturns, AfterReset, Goto, StoredOK, Sources, Devices
    <2>2. OneResetter' /\ GateInv' /\ RefsInv' /\ AwakeInv'
      BY <1>2, <2>1 DEF OneResetter, GateInv, RefsInv, AwakeInv
    <2>3. ObjectsInv' /\ PanicOnlyInTeardown'
      BY <1>2, <2>1 DEF ObjectsInv, PanicOnlyInTeardown, OneResetter, GateInv
    <2>4. AnswerInv' /\ AckNotLost' /\ AckedResetIsReal'
      BY <1>2, <2>1 DEF AnswerInv, AckNotLost, AckedResetIsReal, OneResetter,
                        GateInv, ObjectsInv
    <2>5. ListeningInv' /\ PowerInv'
      BY <1>2, <2>1 DEF ListeningInv, PowerInv, OneResetter, AwakeInv, ObjectsInv
    <2>. QED BY <1>1, <2>2, <2>3, <2>4, <2>5
  <1>. QED BY <1>3, <1>4, <1>5, <1>6, <1>7, <1>8, <1>9 DEF Reset

\* What a read does to the threads that may sleep in a reset.
WakesNone == pc'["life"] = pc["life"] /\ pc'["pm"] = pc["pm"]
WakesBoth ==
    /\ pc'["life"] = IF pc["life"] = "sleeping" THEN "woken" ELSE pc["life"]
    /\ pc'["pm"] = IF pc["pm"] = "sleeping" THEN "woken" ELSE pc["pm"]

\* interruptOccured, simulateInterrupt and getInputReport keep the invariant.
LEMMA WorkLoopStep ==
  ASSUME IInv, ~panic, WorkLoop PROVE IInv'
  <1> USE BusesAssumption DEF IInv, interrupt_vars, object_vars, flag_vars,
                               reset_vars
  <1>1. (PcOK /\ ObjectsOK /\ FlagsOK /\ StoredOK)'
    BY WorkLoopType DEF RefsInv
  <1> USE DEF PcOK, ObjectsOK, FlagsOK
  <1>2. /\ source.enabled \in BOOLEAN
        /\ source.kind \in {"null", "interrupt", "simulator"}
        /\ dev.resetting \in BOOLEAN /\ dev.output \in Outputs
        /\ dev.power \in {"on", "sleep"} /\ refs \in -1..1
        /\ bus' = bus /\ bus.write_faults \in Nat /\ bus.read_faults \in BOOLEAN
    BY BusStays DEF StoredOK, Sources, Devices
  <1>3. CASE interruptOccured /\ panic'
    <2>1. /\ UNCHANGED pc
          /\ source.kind = "interrupt" /\ source.enabled
          /\ command_gate = "null"
          /\ panic'
          /\ UNCHANGED <<gate, source, is_interrupt_started, command_gate, api,
                         refs, awake, quirks, pm_registered, reset_written, dev>>
      BY <1>3 DEF interruptOccured, Goto, Crash, live_vars, StoredOK, Sources,
                  Devices
    <2>2. OneResetter' /\ GateInv' /\ RefsInv' /\ AwakeInv'
      BY <1>2, <2>1 DEF OneResetter, GateInv, RefsInv, AwakeInv
    <2>3. ObjectsInv' /\ PanicOnlyInTeardown'
      BY <1>2, <2>1 DEF ObjectsInv, PanicOnlyInTeardown, OneResetter, GateInv
    <2>4. AnswerInv' /\ AckNotLost' /\ AckedResetIsReal'
      BY <1>2, <2>1 DEF AnswerInv, AckNotLost, AckedResetIsReal, OneResetter,
                        GateInv, ObjectsInv
    <2>5. ListeningInv' /\ PowerInv'
      BY <1>2, <2>1 DEF ListeningInv, PowerInv, OneResetter, AwakeInv, ObjectsInv
    <2>. QED BY <1>1, <2>2, <2>3, <2>4, <2>5
  <1>4. CASE interruptOccured /\ ~panic'
    <2>1. /\ pc["wl"] = "idle"
          /\ pc'["life"] = pc["life"]
          /\ pc'["pm"] = pc["pm"]
          /\ pc'["wl"] = "read"
          /\ source.kind = "interrupt" /\ source.enabled /\ dev.output # "none"
          /\ gate = "free"
          /\ gate' = "wl"
          /\ UNCHANGED <<source, is_interrupt_started, command_gate, api, refs,
                         awake, quirks, pm_registered, reset_written, dev, panic>>
      BY <1>4 DEF interruptOccured, Goto, Crash, StoredOK, Sources, Devices
    <2>2. OneResetter' /\ GateInv' /\ RefsInv' /\ AwakeInv'
      BY <1>2, <2>1 DEF OneResetter, GateInv, RefsInv, AwakeInv
    <2>3. ObjectsInv' /\ PanicOnlyInTeardown'
      BY <1>2, <2>1 DEF ObjectsInv, PanicOnlyInTeardown, OneResetter, GateInv
    <2>4. AnswerInv' /\ AckNotLost' /\ AckedResetIsReal'
      BY <1>2, <2>1 DEF AnswerInv, AckNotLost, AckedResetIsReal, OneResetter,
                        GateInv, ObjectsInv
    <2>5. ListeningInv' /\ PowerInv'
      BY <1>2, <2>1 DEF ListeningInv, PowerInv, OneResetter, AwakeInv, ObjectsInv
    <2>. QED BY <1>1, <2>2, <2>3, <2>4, <2>5
  <1>5. CASE simulateInterrupt
    <2>1. /\ pc["wl"] = "idle"
          /\ pc'["life"] = pc["life"]
          /\ pc'["pm"] = pc["pm"]
          /\ pc'["wl"] = "read"
          /\ source.kind = "simulator"
          /\ gate = "free"
          /\ gate' = "wl"
          /\ source'.kind = source.kind /\ source'.enabled = source.enabled
          /\ UNCHANGED <<is_interrupt_started, command_gate, api, refs, awake,
                         quirks, pm_registered, reset_written, dev, panic>>
      BY <1>5 DEF simulateInterrupt, Goto, StoredOK, Sources, Devices
    <2>2. OneResetter' /\ GateInv' /\ RefsInv' /\ AwakeInv'
      BY <1>2, <2>1 DEF OneResetter, GateInv, RefsInv, AwakeInv
    <2>3. ObjectsInv' /\ PanicOnlyInTeardown'
      BY <1>2, <2>1 DEF ObjectsInv, PanicOnlyInTeardown, OneResetter, GateInv
    <2>4. AnswerInv' /\ AckNotLost' /\ AckedResetIsReal'
      BY <1>2, <2>1 DEF AnswerInv, AckNotLost, AckedResetIsReal, OneResetter,
                        GateInv, ObjectsInv
    <2>5. ListeningInv' /\ PowerInv'
      BY <1>2, <2>1 DEF ListeningInv, PowerInv, OneResetter, AwakeInv, ObjectsInv
    <2>. QED BY <1>1, <2>2, <2>3, <2>4, <2>5
  <1>6. CASE getInputReport /\ panic'
    <2>1. /\ pc["wl"] = "read"
          /\ UNCHANGED pc
          /\ command_gate = "null"
          /\ panic'
          /\ UNCHANGED <<gate, source, is_interrupt_started, command_gate, api,
                         refs, awake, quirks, pm_registered, reset_written, dev>>
      BY <1>6 DEF getInputReport, Crash, live_vars, StoredOK, Sources, Devices
    <2>2. OneResetter' /\ GateInv' /\ RefsInv' /\ AwakeInv'
      BY <1>2, <2>1 DEF OneResetter, GateInv, RefsInv, AwakeInv
    <2>3. ObjectsInv' /\ PanicOnlyInTeardown'
      BY <1>2, <2>1 DEF ObjectsInv, PanicOnlyInTeardown, OneResetter, GateInv
    <2>4. AnswerInv' /\ AckNotLost' /\ AckedResetIsReal'
      BY <1>2, <2>1 DEF AnswerInv, AckNotLost, AckedResetIsReal, OneResetter,
                        GateInv, ObjectsInv
    <2>5. ListeningInv' /\ PowerInv'
      BY <1>2, <2>1 DEF ListeningInv, PowerInv, OneResetter, AwakeInv, ObjectsInv
    <2>. QED BY <1>1, <2>2, <2>3, <2>4, <2>5
  <1>7. CASE getInputReport /\ ~panic'
    <2>1. /\ pc["wl"] = "read"
          /\ pc'["wl"] = "idle"
          /\ \/ WakesBoth /\ dev.output \in Empty /\ dev'.output = "none"
             \/ WakesNone /\ dev.output \notin Empty /\ dev'.output = "none"
             \/ (WakesBoth \/ WakesNone) /\ bus.read_faults /\ dev'.output = dev.output
          /\ gate' = "free"
          /\ source'.kind = source.kind /\ source'.enabled = source.enabled
          /\ dev'.power = dev.power /\ dev'.resetting = dev.resetting
          /\ UNCHANGED <<is_interrupt_started, command_gate, api, refs, awake,
                         quirks, pm_registered, reset_written, panic>>
      <3>1. PICK report \in Outputs, taken \in BOOLEAN :
              /\ readI2C(report, taken)
              /\ pc' = [IF Wakes(report) THEN Wakeup(pc) ELSE pc EXCEPT !["wl"] = "idle"]
              /\ dev' = [dev EXCEPT
                           !.output = IF taken THEN "none" ELSE @,
                           !.handled = @ \/ (taken /\ report = "report"
                                                   /\ ready_for_input)]
              /\ gate' = "free" /\ source' = Rearm
        BY <1>7, ZenonT(40) DEF getInputReport, Crash
      <3>2. dev'.output = (IF taken THEN "none" ELSE dev.output)
            /\ dev'.power = dev.power /\ dev'.resetting = dev.resetting
        BY <3>1 DEF StoredOK, Devices
      <3>3. source'.kind = source.kind /\ source'.enabled = source.enabled
        BY <3>1 DEF Rearm, StoredOK, Sources
      <3>4. pc'["wl"] = "idle" /\ (IF report \in Empty THEN WakesBoth ELSE WakesNone)
        <4>1. CASE report \in Empty
          <5>1. pc' = [Wakeup(pc) EXCEPT !["wl"] = "idle"]
            BY <3>1, <4>1 DEF Wakes
          <5>. QED BY <4>1, <5>1 DEF Wakeup, WakesBoth
        <4>2. CASE report \notin Empty
          <5>1. pc' = [pc EXCEPT !["wl"] = "idle"]
            BY <3>1, <4>2 DEF Wakes
          <5>. QED BY <4>2, <5>1 DEF WakesNone
        <4>. QED BY <4>1, <4>2
      <3>. QED BY <1>7, <3>1, <3>2, <3>3, <3>4 DEF readI2C, getInputReport, Crash
    <2>2. OneResetter' /\ GateInv' /\ RefsInv' /\ AwakeInv'
      BY <1>2, <2>1 DEF OneResetter, GateInv, RefsInv, AwakeInv, WakesBoth,
                        WakesNone
    <2>3. ObjectsInv' /\ PanicOnlyInTeardown'
      BY <1>2, <2>1 DEF ObjectsInv, PanicOnlyInTeardown, OneResetter, GateInv,
                        WakesBoth, WakesNone
    <2>4. AnswerInv' /\ AckNotLost' /\ AckedResetIsReal'
      BY <1>2, <2>1 DEF AnswerInv, AckNotLost, AckedResetIsReal, OneResetter,
                        GateInv,
                        ObjectsInv, WakesBoth, WakesNone
    <2>5. ListeningInv' /\ PowerInv'
      BY <1>2, <2>1 DEF ListeningInv, PowerInv, OneResetter, AwakeInv, ObjectsInv,
                        WakesBoth, WakesNone
    <2>. QED BY <1>1, <2>2, <2>3, <2>4, <2>5
  <1>. QED BY <1>3, <1>4, <1>5, <1>6, <1>7 DEF WorkLoop

\* Every step of the driver and of the device keeps the invariant.
LEMMA InvStep == IInv /\ [Next]_vars => IInv'
  <1> SUFFICES ASSUME IInv, [Next]_vars PROVE IInv'
    OBVIOUS
  <1>1. CASE UNCHANGED vars
    BY <1>1 DEF IInv, vars, live_vars, interrupt_vars, object_vars, flag_vars,
                reset_vars,
       PcOK, ObjectsOK, FlagsOK, StoredOK, OneResetter, GateInv, ObjectsInv, RefsInv,
       AnswerInv, ListeningInv, AwakeInv, PowerInv,
       AckNotLost, AckedResetIsReal, PanicOnlyInTeardown
  <1>2. CASE Next
    <2>1. ASSUME NEW t \in Resetters, Reset(t), ~panic PROVE IInv'
      BY <2>1, ResetStep
    <2>2. CASE Life /\ ~panic
      BY <2>2, StartStep, ReleaseStep DEF Life
    <2>. QED BY <1>2, <2>1, <2>2, PMStep, WorkLoopStep, DeviceStep DEF Next
  <1>. QED BY <1>1, <1>2

\* The invariant the safety theorems below are read off from.
THEOREM Invariance == Spec => []IInv
  BY InitInv, InvStep, PTL DEF Spec

\* Every variable keeps to its type, and the driver never owns more than one
\* reference on its API, for every set of devices and any faults.
THEOREM TypeCorrect == Spec => []TypeOK
  <1>1. IInv => TypeOK
    BY TypeGroups DEF IInv
  <1>. QED BY <1>1, Invariance, PTL

\* The answer to a finished reset is never consumed without waking the thread
\* that waits for it: getInputReport looks at the length before anything else,
\* and the gate keeps it out between the reset command and commandSleep.
THEOREM NoAckIsLost == Spec => []AckNotLost
  <1>1. IInv => AckNotLost
    BY DEF IInv
  <1>. QED BY <1>1, Invariance, PTL

\* With interrupts and reads that succeed, the thread that waits for a reset is
\* woken by the end of that reset.
THEOREM WokenByTheReset == Spec => []AckedResetIsReal
  <1>1. IInv => AckedResetIsReal
    BY DEF IInv
  <1>. QED BY <1>1, Invariance, PTL

\* While the device is up and no power change is under way, its power is the one
\* awake stands for, whatever was lost on the bus within the retries.
THEOREM PowerFollowsAwake == Spec => []PowerAgreement
  <1>1. IInv => PowerAgreement
    BY DEF IInv, PowerInv, PowerAgreement, Running
  <1>. QED BY <1>1, Invariance, PTL

\* While the device is up, its event source is enabled exactly when it is awake.
THEOREM ListensWhileAwake == Spec => []AwakeMeansListening
  <1>1. IInv => AwakeMeansListening
    BY DEF IInv, ListeningInv, AwakeMeansListening, Running
  <1>. QED BY <1>1, Invariance, PTL

\* No thread is on the bus once the API is released, or in a read once the event
\* source is gone.
THEOREM NoIOWithoutApi == Spec => []NoIOAfterRelease
  <1>1. IInv => NoIOAfterRelease
    BY DEF IInv, ObjectsOK, PcOK, OneResetter, GateInv, ObjectsInv, NoIOAfterRelease
  <1>. QED BY <1>1, Invariance, PTL

\* The NULL pointers releaseResources leaves behind can only be met between the
\* release of the command gate and the end of PMstop.
THEOREM PanicConfined == Spec => []PanicOnlyInTeardown
  <1>1. IInv => PanicOnlyInTeardown
    BY DEF IInv
  <1>. QED BY <1>1, Invariance, PTL
=============================================================================
