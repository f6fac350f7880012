----------------- MODULE VoodooI2CMultitouchPointers_proofs -----------------
(***************************************************************************)
(* Proofs about VoodooI2CMultitouchPointers for any set of devices.        *)
(***************************************************************************)
EXTENDS VoodooI2CMultitouchPointers, TLAPS

Starting == life \in {"new", "visible", "gated"}

\* Notifiers come with the set of pointers and go before it.
NotifierOrder ==
    /\ registered \in Nat /\ removed \in Nat /\ removed <= registered
    /\ installing \in BOOLEAN
    /\ installing => life = "counting" /\ registered < Len(Notifiers)
    /\ Starting => registered = 0
    /\ life \in {"released", "stopped"} => removed = registered
    /\ life \in {"new", "visible", "gated", "counting", "started", "stopping",
                 "released", "stopped"}

\* Each call is for a notifier IOService has, and a device's call of the publish
\* handler ends before the device leaves.
CallsInstalled ==
    \A c \in calls : Installed(c.notifier) /\ c.device \in Devices

CallsInOrder ==
    /\ \A c \in calls : \E event \in {"publish", "terminate"} :
           c = [device |-> c.device, notifier |-> <<Bus(c.device), event>>]
    /\ \A c \in calls : c.notifier[2] = "publish" => c.device \in present
    /\ \A c, d \in calls : c.device = d.device => c = d

\* Nothing is counted or decided before the set exists.
NothingBefore ==
    Starting => /\ attached_hid_pointer_devices = {}
                /\ cause # "pointer" /\ setter # "write"

\* Once setProperties is through, a trackpad ignored for a pointer means that the
\* user wants it so.
WantedSo == setter = "idle" /\ ~ignore_mouse => ~(ignore_all /\ cause = "pointer")

\* A panic leaves the driver where it was.
PanicKinds == panicked \in {"no", "handler", "setProperties"}

IInv ==
    /\ NotifierOrder /\ CallsInstalled /\ CallsInOrder
    /\ NothingBefore /\ WantedSo /\ PanicKinds
    /\ HandlersAreSafe /\ CountedAreThere /\ IgnoredForAReason

-----------------------------------------------------------------------------

LEMMA NotifiersAreFixed == Notifiers' = Notifiers
  BY DEF Notifiers, OfBus

LEMMA InitInv == Init => IInv
  <1> SUFFICES ASSUME Init PROVE IInv
    OBVIOUS
  <1>1. NotifierOrder
    <2>1. life = "new" /\ registered = 0 /\ removed = 0
      BY DEF Init
    <2>2. ~installing /\ installing \in BOOLEAN
      BY DEF Init
    <2>. QED BY <2>1, <2>2 DEF NotifierOrder, Starting
  <1>2. CallsInstalled /\ CallsInOrder /\ NothingBefore /\ PanicKinds
    BY DEF Init, CallsInstalled, CallsInOrder, NothingBefore, PanicKinds, Starting
  <1>3. WantedSo /\ HandlersAreSafe /\ CountedAreThere /\ IgnoredForAReason
    BY DEF Init, WantedSo, HandlersAreSafe, CountedAreThere, IgnoredForAReason, HasSet
  <1>. QED BY <1>1, <1>2, <1>3 DEF IInv

\* A call is only ever under way while gate and set exist: the handler's notifier
\* is installed after the set is created and removed before it is released.
LEMMA CallsHaveTheSet ==
  ASSUME NotifierOrder, CallsInstalled, NEW c \in calls
  PROVE  HasGate /\ HasSet
  <1>1. PICK i \in (removed + 1)..(registered + IF installing THEN 1 ELSE 0) :
            Notifiers[i] = c.notifier
    BY DEF CallsInstalled, Installed
  <1>2. installing \/ removed < registered
    BY <1>1 DEF NotifierOrder
  <1>3. life \in {"counting", "started", "stopping"}
    BY <1>2 DEF NotifierOrder, Starting
  <1>. QED BY <1>3 DEF HasGate, HasSet

-----------------------------------------------------------------------------
(* Steps of start and handleStop                                           *)

\* A step that only moves life on, in the order of the code.
LifeMoves == SuperStart \/ CreateGate \/ CreateSet \/ StartReturns \/ HandleStop
             \/ ReleaseSet \/ ReleaseGate

LEMMA LifeStep == IInv /\ LifeMoves => IInv'
  <1> SUFFICES ASSUME IInv, LifeMoves PROVE IInv'
    OBVIOUS
  <1> USE DEF LifeMoves, SuperStart, CreateGate, CreateSet, StartReturns, HandleStop,
              ReleaseSet, SetCanGo, ReleaseGate, Proceed,
              notifier_vars, driver_vars, bus_vars, ghost_vars
  <1>1. NotifierOrder'
    <2> USE NotifiersAreFixed DEF IInv, NotifierOrder, Starting
    <2>1. CASE SuperStart \/ CreateGate \/ CreateSet
      BY <2>1
    <2>2. CASE StartReturns
      <3>1. ~installing
        BY <2>2
      <3>. QED BY <2>2, <3>1
    <2>3. CASE HandleStop \/ ReleaseSet \/ ReleaseGate
      BY <2>3
    <2>. QED BY <2>1, <2>2, <2>3
  <1>2. CallsInstalled'
    BY NotifiersAreFixed DEF IInv, CallsInstalled, Installed
  <1>3. CallsInOrder'
    BY DEF IInv, CallsInOrder
  <1>4. NothingBefore' /\ WantedSo'
    BY DEF IInv, NothingBefore, WantedSo, Starting
  <1>5. PanicKinds' /\ HandlersAreSafe'
    BY DEF IInv, PanicKinds, HandlersAreSafe, Running
  <1>6. CountedAreThere'
    BY DEF IInv, CountedAreThere
  <1>7. IgnoredForAReason'
    BY DEF IInv, IgnoredForAReason, NothingBefore, Starting, HasSet
  <1>. QED BY <1>1, <1>2, <1>3, <1>4, <1>5, <1>6, <1>7 DEF IInv

LEMMA InstallStep == IInv /\ Install => IInv'
  <1> SUFFICES ASSUME IInv, Install PROVE IInv'
    OBVIOUS
  <1> USE DEF Install, driver_vars, bus_vars, ghost_vars
  <1>1. NotifierOrder'
    BY NotifiersAreFixed DEF IInv, NotifierOrder, Starting
  <1>2. CallsInstalled'
    <2>1. ASSUME NEW c \in calls PROVE Installed(c.notifier)'
      <3>1. PICK i \in (removed + 1)..(registered + IF installing THEN 1 ELSE 0) :
                Notifiers[i] = c.notifier
        BY DEF IInv, CallsInstalled, Installed
      <3>2. i \in ((removed + 1)..(registered + IF installing THEN 1 ELSE 0))'
        BY <3>1 DEF IInv, NotifierOrder
      <3>. QED BY <3>1, <3>2, NotifiersAreFixed DEF Installed
    <2>. QED BY <2>1 DEF IInv, CallsInstalled
  <1>3. CallsInOrder' /\ NothingBefore' /\ WantedSo'
    BY DEF IInv, CallsInOrder, NothingBefore, WantedSo, Starting
  <1>4. PanicKinds' /\ HandlersAreSafe' /\ CountedAreThere' /\ IgnoredForAReason'
    BY DEF IInv, PanicKinds, HandlersAreSafe, CountedAreThere, IgnoredForAReason, HasSet
  <1>. QED BY <1>1, <1>2, <1>3, <1>4 DEF IInv

LEMMA RegisterStep == IInv /\ registerHIDPointerNotifications => IInv'
  <1> SUFFICES ASSUME IInv, registerHIDPointerNotifications PROVE IInv'
    OBVIOUS
  <1> USE DEF registerHIDPointerNotifications, driver_vars, bus_vars, ghost_vars
  <1>1. NotifierOrder'
    <2>1. ~installing' /\ installing' \in BOOLEAN
      OBVIOUS
    <2>2. life = "counting" /\ registered \in Nat /\ removed \in Nat /\ removed <= registered
      BY DEF IInv, NotifierOrder
    <2>3. registered' \in Nat /\ removed' \in Nat /\ removed' <= registered'
      BY <2>2
    <2>4. life' = "counting"
      BY <2>2
    <2>. QED BY <2>1, <2>3, <2>4 DEF NotifierOrder, Starting
  <1>2. CallsInstalled'
    <2>1. ASSUME NEW c \in calls PROVE Installed(c.notifier)'
      <3>1. PICK i \in (removed + 1)..(registered + IF installing THEN 1 ELSE 0) :
                Notifiers[i] = c.notifier
        BY DEF IInv, CallsInstalled, Installed
      <3>2. i \in ((removed + 1)..(registered + IF installing THEN 1 ELSE 0))'
        BY <3>1 DEF IInv, NotifierOrder
      <3>. QED BY <3>1, <3>2, NotifiersAreFixed DEF Installed
    <2>. QED BY <2>1 DEF IInv, CallsInstalled
  <1>3. CallsInOrder' /\ NothingBefore' /\ WantedSo'
    BY DEF IInv, CallsInOrder, NothingBefore, WantedSo, Starting
  <1>4. PanicKinds' /\ HandlersAreSafe' /\ CountedAreThere' /\ IgnoredForAReason'
    BY DEF IInv, PanicKinds, HandlersAreSafe, CountedAreThere, IgnoredForAReason, HasSet
  <1>. QED BY <1>1, <1>2, <1>3, <1>4 DEF IInv

\* remove() has waited for the calls of the notifier that goes.
LEMMA UnregisterStep == IInv /\ unregisterHIDPointerNotifications => IInv'
  <1> SUFFICES ASSUME IInv, unregisterHIDPointerNotifications PROVE IInv'
    OBVIOUS
  <1> USE DEF unregisterHIDPointerNotifications, driver_vars, bus_vars, ghost_vars
  <1>1. NotifierOrder'
    BY NotifiersAreFixed DEF IInv, NotifierOrder, Starting
  <1>2. CallsInstalled'
    <2>1. ASSUME NEW c \in calls PROVE Installed(c.notifier)'
      <3>1. PICK i \in (removed + 1)..(registered + IF installing THEN 1 ELSE 0) :
                Notifiers[i] = c.notifier
        BY DEF IInv, CallsInstalled, Installed
      <3>2. i # removed + 1
        BY <3>1
      <3>3. i \in ((removed + 1)..(registered + IF installing THEN 1 ELSE 0))'
        BY <3>1, <3>2 DEF IInv, NotifierOrder
      <3>. QED BY <3>1, <3>3, NotifiersAreFixed DEF Installed
    <2>. QED BY <2>1 DEF IInv, CallsInstalled
  <1>3. CallsInOrder' /\ NothingBefore' /\ WantedSo'
    BY DEF IInv, CallsInOrder, NothingBefore, WantedSo, Starting
  <1>4. PanicKinds' /\ HandlersAreSafe' /\ CountedAreThere' /\ IgnoredForAReason'
    BY DEF IInv, PanicKinds, HandlersAreSafe, CountedAreThere, IgnoredForAReason, HasSet
  <1>. QED BY <1>1, <1>2, <1>3, <1>4 DEF IInv

-----------------------------------------------------------------------------
(* Steps of the bus                                                        *)

\* What a publication or termination leaves alone.
LEMMA BusLeaves ==
  ASSUME IInv, NEW d \in Devices, Publish(d) \/ Terminate(d)
  PROVE  NotifierOrder' /\ NothingBefore' /\ WantedSo' /\ PanicKinds'
         /\ HandlersAreSafe' /\ IgnoredForAReason'
  <1> USE DEF Publish, Terminate, notifier_vars, driver_vars
  <1>1. NotifierOrder'
    BY NotifiersAreFixed DEF IInv, NotifierOrder, Starting
  <1>. QED
    BY <1>1 DEF IInv, NothingBefore, WantedSo, PanicKinds, HandlersAreSafe,
                IgnoredForAReason, Starting, HasSet

\* The call of a handler a publication or termination adds, if any.
LEMMA NotifyCalls ==
  ASSUME IInv, NEW d \in Devices, NEW event \in {"publish", "terminate"},
         InOrder(d), Notify(d, event),
         registered' = registered /\ installing' = installing /\ removed' = removed,
         event = "publish" => d \in present',
         present \subseteq present' \cup {d}
  PROVE  CallsInstalled' /\ CallsInOrder'
  <1> DEFINE new == [device |-> d, notifier |-> <<Bus(d), event>>]
  <1>1. calls' \subseteq calls \cup {new}
    BY DEF Notify
  <1>2. new \in calls' => new \in calls \/ Installed(new.notifier)
    BY DEF Notify
  <1>3. ASSUME NEW n, Installed(n) PROVE Installed(n)'
    BY <1>3, NotifiersAreFixed DEF Installed
  <1>4. CallsInstalled'
    <2>1. ASSUME NEW c \in calls' PROVE Installed(c.notifier) /\ c.device \in Devices
      BY <1>1, <1>2 DEF IInv, CallsInstalled
    <2>. QED BY <2>1, <1>3 DEF CallsInstalled, Devices
  <1>5. ASSUME NEW c \in calls' PROVE \E e \in {"publish", "terminate"} :
            c = [device |-> c.device, notifier |-> <<Bus(c.device), e>>]
    <2>1. CASE c \in calls
      BY <2>1 DEF IInv, CallsInOrder
    <2>2. CASE c = new
      BY <2>2
    <2>. QED BY <2>1, <2>2, <1>1
  <1>6. ASSUME NEW c \in calls', c.notifier[2] = "publish" PROVE c.device \in present'
    <2>1. CASE c \in calls
      BY <2>1, <1>6 DEF IInv, CallsInOrder, InOrder
    <2>2. CASE c = new
      BY <2>2, <1>6
    <2>. QED BY <2>1, <2>2, <1>1
  <1>7. ASSUME NEW b \in calls', NEW c \in calls', b.device = c.device PROVE b = c
    BY <1>1, <1>7 DEF IInv, CallsInOrder, InOrder
  <1>8. ASSUME NEW e PROVE Bus(e)' = Bus(e)
    BY DEF Bus
  <1>. QED BY <1>4, <1>5, <1>6, <1>7, <1>8 DEF CallsInOrder

LEMMA BusStep ==
  ASSUME IInv, NEW d \in Devices, Publish(d) \/ Terminate(d)
  PROVE  IInv'
  <1>1. CallsInstalled' /\ CallsInOrder'
    <2>1. CASE Publish(d)
      BY <2>1, NotifyCalls DEF Publish, notifier_vars
    <2>2. CASE Terminate(d)
      BY <2>2, NotifyCalls DEF Terminate, notifier_vars
    <2>. QED BY <2>1, <2>2
  <1>2. CountedAreThere'
    <2> SUFFICES ASSUME NEW e \in attached_hid_pointer_devices'
                 PROVE  \/ e \in present' \/ e \in unheard'
                        \/ [device |-> e, notifier |-> <<Bus(e), "terminate">>] \in calls'
      BY DEF CountedAreThere, Bus
    <2>1. e \in attached_hid_pointer_devices /\ calls \subseteq calls'
      BY DEF Publish, Terminate, driver_vars, Notify
    <2>2. \/ e \in present \/ e \in unheard
          \/ [device |-> e, notifier |-> <<Bus(e), "terminate">>] \in calls
      BY <2>1 DEF IInv, CountedAreThere
    <2>3. CASE Publish(d)
      BY <2>1, <2>2, <2>3 DEF Publish
    <2>4. CASE Terminate(d)
      <3>1. CASE e = d
        BY <3>1, <2>1, <2>4 DEF Terminate, Notify
      <3>2. CASE e # d
        BY <3>2, <2>1, <2>2, <2>4 DEF Terminate
      <3>. QED BY <3>1, <3>2
    <2>. QED BY <2>3, <2>4
  <1>. QED BY <1>1, <1>2, BusLeaves DEF IInv

-----------------------------------------------------------------------------
(* Steps of the handler                                                    *)

\* A handler that runs finds gate and set.
LEMMA HandlerRuns ==
  ASSUME IInv, NEW c \in calls, notificationHIDAttachedHandler(c)
  PROVE  /\ HasSet /\ UNCHANGED panicked
         /\ \/ c.notifier[2] = "publish" /\ Published(c.device)
            \/ c.notifier[2] = "terminate" /\ Terminated(c.device)
            \/ Unmatched(c)
  <1>1. HasGate /\ HasSet
    BY CallsHaveTheSet DEF IInv
  <1>. QED BY <1>1 DEF notificationHIDAttachedHandler

LEMMA HandlerStep ==
  ASSUME IInv, NEW c \in calls, notificationHIDAttachedHandler(c)
  PROVE  IInv'
  <1> /\ calls' = calls \ {c}
      /\ UNCHANGED <<life, registered, installing, removed, ignore_mouse, setter, present>>
    BY DEF notificationHIDAttachedHandler, notifier_vars
  <1>1. NotifierOrder' /\ CallsInstalled' /\ CallsInOrder'
    <2>1. NotifierOrder'
      BY NotifiersAreFixed DEF IInv, NotifierOrder, Starting
    <2>2. CallsInstalled'
      BY NotifiersAreFixed DEF IInv, CallsInstalled, Installed
    <2>3. CallsInOrder'
      BY DEF IInv, CallsInOrder, Bus
    <2>. QED BY <2>1, <2>2, <2>3
  <1>2. NothingBefore' /\ PanicKinds' /\ HandlersAreSafe'
    BY HandlerRuns DEF IInv, NothingBefore, PanicKinds, HandlersAreSafe, HasSet, Starting
  <1>3. PICK event \in {"publish", "terminate"} :
            c = [device |-> c.device, notifier |-> <<Bus(c.device), event>>]
    BY DEF IInv, CallsInOrder
  <1>4. WantedSo' /\ IgnoredForAReason'
    BY HandlerRuns DEF IInv, WantedSo, IgnoredForAReason, Published, Terminated, Unmatched,
                       Removes, Remaining, HasSet
  <1>5. CountedAreThere'
    <2> SUFFICES ASSUME NEW e \in attached_hid_pointer_devices'
                 PROVE  \/ e \in present \/ e \in unheard'
                        \/ [device |-> e, notifier |-> <<Bus(e), "terminate">>] \in calls \ {c}
      BY DEF CountedAreThere, Bus
    <2>1. CASE c.notifier[2] = "publish" /\ Published(c.device)
      <3>1. [device |-> e, notifier |-> <<Bus(e), "terminate">>] # c
        BY <2>1
      <3>2. e \in attached_hid_pointer_devices \/ e = c.device
        BY <2>1 DEF Published, Counts
      <3>3. c.device \in present
        BY <2>1 DEF IInv, CallsInOrder
      <3>. QED BY <3>1, <3>2, <3>3, <2>1 DEF IInv, CountedAreThere, Published
    <2>2. CASE c.notifier[2] = "terminate" /\ Terminated(c.device)
      <3>1. e \in attached_hid_pointer_devices /\ e # c.device
        BY <2>2 DEF Terminated, Removes
      <3>. QED BY <3>1, <2>2 DEF IInv, CountedAreThere, Terminated
    <2>3. CASE Unmatched(c)
      <3>1. CASE [device |-> e, notifier |-> <<Bus(e), "terminate">>] = c
        BY <3>1, <2>3 DEF Unmatched
      <3>2. CASE [device |-> e, notifier |-> <<Bus(e), "terminate">>] # c
        BY <3>2, <2>3 DEF IInv, CountedAreThere, Unmatched
      <3>. QED BY <3>1, <3>2
    <2>. QED BY <2>1, <2>2, <2>3, HandlerRuns
  <1>. QED BY <1>1, <1>2, <1>4, <1>5 DEF IInv

-----------------------------------------------------------------------------
(* Steps of setProperties and message                                      *)

SetterMoves == SetterCounts \/ SetterWrites \/ \E b \in BOOLEAN : setProperties(b) \/ message(b)

LEMMA SetterStep == IInv /\ SetterMoves => IInv'
  <1> SUFFICES ASSUME IInv, SetterMoves PROVE IInv'
    OBVIOUS
  <1> USE DEF SetterMoves, SetterCounts, SetterWrites, setProperties, message
  <1> UNCHANGED <<life, registered, installing, removed, attached_hid_pointer_devices,
                  present, calls, unheard>>
    BY DEF notifier_vars, driver_vars, bus_vars, ghost_vars
  <1>1. NotifierOrder' /\ CallsInstalled' /\ CallsInOrder'
    BY NotifiersAreFixed
       DEF IInv, NotifierOrder, CallsInstalled, CallsInOrder, Installed, Starting, Bus
  <1>2. CountedAreThere'
    BY DEF IInv, CountedAreThere, Bus
  <1>3. PanicKinds' /\ HandlersAreSafe'
    BY DEF IInv, PanicKinds, HandlersAreSafe, HasSet, Running
  <1>4. IgnoredForAReason' /\ NothingBefore'
    BY DEF IInv, IgnoredForAReason, NothingBefore, Starting, HasSet, driver_vars, ghost_vars
  <1>5. WantedSo'
    BY DEF IInv, WantedSo, IgnoredForAReason, driver_vars, ghost_vars
  <1>. QED BY <1>1, <1>2, <1>3, <1>4, <1>5 DEF IInv

-----------------------------------------------------------------------------

LEMMA NextStep == IInv /\ [Next]_vars => IInv'
  <1> SUFFICES ASSUME IInv, [Next]_vars PROVE IInv'
    OBVIOUS
  <1>1. CASE LifeMoves
    BY <1>1, LifeStep
  <1>2. CASE Install \/ registerHIDPointerNotifications \/ unregisterHIDPointerNotifications
    BY <1>2, InstallStep, RegisterStep, UnregisterStep
  <1>3. CASE \E d \in Devices : Publish(d) \/ Terminate(d) \/ Handle(d)
    BY <1>3, BusStep, HandlerStep DEF Handle
  <1>4. CASE SetterMoves
    BY <1>4, SetterStep
  <1>5. CASE UNCHANGED vars
    <2> USE <1>5 DEF vars, notifier_vars, driver_vars, bus_vars, ghost_vars
    <2>1. NotifierOrder' /\ CallsInstalled' /\ CallsInOrder'
      BY NotifiersAreFixed
         DEF IInv, NotifierOrder, CallsInstalled, CallsInOrder, Installed, Starting, Bus
    <2>2. NothingBefore' /\ WantedSo' /\ PanicKinds' /\ HandlersAreSafe'
      BY DEF IInv, NothingBefore, WantedSo, PanicKinds, HandlersAreSafe, HasSet, Starting
    <2>3. CountedAreThere' /\ IgnoredForAReason'
      BY DEF IInv, CountedAreThere, IgnoredForAReason, HasSet, Bus
    <2>. QED BY <2>1, <2>2, <2>3 DEF IInv
  <1>. QED BY <1>1, <1>2, <1>3, <1>4, <1>5 DEF Next, LifeMoves, SetterMoves

\* The inductive invariant of start, handleStop, the notifications and the setters.
THEOREM Invariance == Spec => []IInv
  BY InitInv, NextStep, PTL DEF Spec

\* No handler ever finds the command gate or the set of pointers missing, whatever
\* devices come and go during start and handleStop.
THEOREM HandlersFindTheirSet == Spec => []HandlersAreSafe
  <1>1. IInv => HandlersAreSafe
    BY DEF IInv
  <1>. QED BY <1>1, Invariance, PTL

\* While the set exists, a trackpad that is off because of a pointer has one
\* counted: notificationHIDAttachedHandlerGated and setProperties agree.
THEOREM PointersAreTheReason == Spec => []IgnoredForAReason
  <1>1. IInv => IgnoredForAReason
    BY DEF IInv
  <1>. QED BY <1>1, Invariance, PTL

\* A counted device that is gone has a notification on its way, or left while no
\* notifier could tell.
THEOREM CountedIsThere == Spec => []CountedAreThere
  <1>1. IInv => CountedAreThere
    BY DEF IInv
  <1>. QED BY <1>1, Invariance, PTL

-----------------------------------------------------------------------------
(* Types                                                                   *)

\* What the invariant leaves open of TypeOK.
TypeRest ==
    /\ registered <= Len(Notifiers)
    /\ attached_hid_pointer_devices \subseteq Pointers
    /\ {ignore_mouse, ignore_all} \subseteq BOOLEAN
    /\ setter \in {"idle", "count", "write"}
    /\ present \subseteq Devices
    /\ cause \in {"none", "pointer", "keyboard", "race"} /\ unheard \subseteq Devices

LEMMA NotifierCount == Len(Notifiers) \in 0..4
  BY DEF Notifiers, OfBus

LEMMA TypeRestStep == IInv /\ TypeRest /\ [Next]_vars => TypeRest'
  <1> SUFFICES ASSUME IInv, TypeRest, [Next]_vars PROVE TypeRest'
    OBVIOUS
  <1> USE DEF TypeRest, notifier_vars, driver_vars, bus_vars, ghost_vars
  <1>0. (Len(Notifiers))' = Len(Notifiers)
    BY NotifiersAreFixed
  <1>1. CASE LifeMoves
    BY <1>0, <1>1 DEF LifeMoves, SuperStart, CreateGate, CreateSet, StartReturns, HandleStop,
              ReleaseSet, ReleaseGate, Proceed
  <1>2. CASE Install \/ unregisterHIDPointerNotifications
    BY <1>0, <1>2 DEF Install, unregisterHIDPointerNotifications
  <1>3. CASE registerHIDPointerNotifications
    <2>1. registered < Len(Notifiers) /\ registered \in Nat
      BY <1>3 DEF registerHIDPointerNotifications, IInv, NotifierOrder
    <2>2. registered' <= Len(Notifiers)'
      BY <1>0, <1>3, <2>1, NotifierCount DEF registerHIDPointerNotifications
    <2>. QED BY <1>3, <2>2 DEF registerHIDPointerNotifications
  <1>4. ASSUME NEW d \in Devices, Publish(d) \/ Terminate(d) PROVE TypeRest'
    BY <1>0, <1>4 DEF Publish, Terminate
  <1>5. ASSUME NEW c \in calls, notificationHIDAttachedHandler(c) PROVE TypeRest'
    <2>1. c.device \in Devices
      BY DEF IInv, CallsInstalled
    <2>2. /\ attached_hid_pointer_devices' \subseteq Pointers
          /\ ignore_all' \in BOOLEAN /\ cause' \in {"none", "pointer", "keyboard", "race"}
          /\ unheard' \subseteq Devices
      BY <1>5, <2>1, HandlerRuns DEF Published, Terminated, Unmatched, Counts, Removes
    <2>. QED BY <1>0, <1>5, <2>2 DEF notificationHIDAttachedHandler
  <1>6. CASE SetterMoves
    BY <1>0, <1>6 DEF SetterMoves, SetterCounts, SetterWrites, setProperties, message
  <1>7. CASE UNCHANGED vars
    BY <1>0, <1>7 DEF vars
  <1>. QED BY <1>1, <1>2, <1>3, <1>4, <1>5, <1>6, <1>7
           DEF Next, LifeMoves, SetterMoves, Handle

\* Every variable keeps to its type for any devices: notifiers go in the order in
\* which they came, and a handler is only called for one that is there
\* (registerHIDPointerNotifications, unregisterHIDPointerNotifications).
THEOREM TypeCorrect == Spec => []TypeOK
  <1>1. Init => TypeRest
    <2> SUFFICES ASSUME Init PROVE TypeRest
      OBVIOUS
    <2>1. registered <= Len(Notifiers)
      BY NotifierCount DEF Init
    <2>2. {ignore_mouse, ignore_all} \subseteq BOOLEAN
      BY Zenon DEF Init
    <2>. QED BY <2>1, <2>2 DEF Init, TypeRest
  <1>2. IInv /\ TypeRest => TypeOK
    BY DEF IInv, TypeRest, TypeOK, NotifierOrder, CallsInstalled, PanicKinds
  <1>. QED BY <1>1, <1>2, TypeRestStep, Invariance, PTL DEF Spec
=============================================================================
