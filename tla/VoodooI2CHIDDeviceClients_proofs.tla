------------------ MODULE VoodooI2CHIDDeviceClients_proofs ------------------
(***************************************************************************)
(* Proofs about VoodooI2CHIDDeviceClients for every set of clients.        *)
(***************************************************************************)
EXTENDS VoodooI2CHIDDeviceClients, TLAPS

\* The array exists from init to its release in stop.
ArrayLives ==
    owner \in {"probe", "active", "drain:check", "drain:sleep", "asleep", "release"}
        => clients = "array"

\* stop is called on inactive devices only.
StoppedIsInactive ==
    owner \in {"drain:check", "drain:sleep", "asleep", "release", "stopped"}
        => inactive

\* Outside of attachment no client is in a call or has the device open.
QuietOutside == ~Attached => \A c \in Clients : pc[c] = "idle"

\* A call of open under way has its entry too, as long as there is an array.
Listed ==
    \A c \in Clients :
        pc[c] \in {"open:super", "opened"} /\ clients = "array" => entries[c] > 0

\* What is open keeps stop from passing its loop.
OpenBeforeRelease ==
    \A c \in Clients : pc[c] = "opened" => owner \notin PastDrain

\* stop holds the lock from its look at the array to the sleep.
LockHeld == client_lock = "owner" <=> owner = "drain:sleep"

SleepsForAReason == owner = "drain:sleep" => ~Empty

IInv ==
    /\ TypeOK /\ ArrayLives /\ StoppedIsInactive /\ QuietOutside
    /\ Listed /\ OpenBeforeRelease
    /\ LockHeld /\ SleepsForAReason /\ NoLostWakeup

USE DEF OwnerLabels, ClientLabels, PastDrain

\* The invariant holds of a fresh object.
LEMMA InitInv == Init => IInv
  <1> SUFFICES ASSUME Init PROVE IInv
    OBVIOUS
  <1>1. TypeOK
    BY DEF Init, TypeOK
  <1>2. ArrayLives /\ StoppedIsInactive /\ QuietOutside
    BY DEF Init, ArrayLives, StoppedIsInactive, QuietOutside
  <1>3. Listed /\ OpenBeforeRelease
    BY DEF Init, Listed, OpenBeforeRelease
  <1>4. LockHeld /\ SleepsForAReason /\ NoLostWakeup
    BY DEF Init, LockHeld, SleepsForAReason, NoLostWakeup
  <1>. QED BY <1>1, <1>2, <1>3, <1>4 DEF IInv

\* Type correctness is kept by every step.
LEMMA TypeStep == TypeOK /\ [Next]_vars => TypeOK'
  <1> SUFFICES ASSUME TypeOK, [Next]_vars PROVE TypeOK'
    OBVIOUS
  <1> USE DEF TypeOK
  <1>1. ASSUME NEW c \in Clients, Client(c) PROVE TypeOK'
    <2>1. CASE open(c)
      <3>1. CASE Crash
        BY <3>1 DEF Crash
      <3>2. CASE ~Crash
        <4>1. entries' = [entries EXCEPT ![c] = @ + 1] /\ entries'\in [Clients -> Nat]
          BY <2>1, <3>2 DEF open
        <4>. QED BY <2>1, <3>2, <4>1 DEF open, Goto
      <3>. QED BY <3>1, <3>2
    <2>2. CASE SuperOpen(c)
      BY <2>2 DEF SuperOpen, Goto
    <2>3. CASE close(c)
      <3>1. CASE Crash
        BY <3>1 DEF Crash
      <3>2. CASE ~Crash
        <4>1. entries' \in [Clients -> Nat]
          BY <2>3, <3>2 DEF close
        <4>. QED BY <2>3, <3>2, <4>1 DEF close, Goto
      <3>. QED BY <3>1, <3>2
    <2>4. CASE CloseWakesUp(c)
      BY <2>4 DEF CloseWakesUp, Woken, Goto
    <2>5. CASE SuperClose(c)
      BY <2>5 DEF SuperClose, Goto
    <2>. QED BY <1>1, <2>1, <2>2, <2>3, <2>4, <2>5 DEF Client
  <1>2. CASE Lifecycle
    <2>1. entries' \in [Clients -> Nat]
      BY <1>2 DEF Lifecycle, Drain, init, ProbeAndStart, Terminate, stop, DrainPasses,
                  DrainHolds, DrainSleeps, Release, Unload, free, Owner
    <2>2. /\ owner' \in OwnerLabels /\ client_lock' \in {"free", "owner"}
          /\ clients' \in {"null", "array"}
      BY <1>2 DEF Lifecycle, Drain, init, ProbeAndStart, Terminate, stop, DrainPasses,
                  DrainHolds, DrainSleeps, Release, Unload, free, Owner
    <2>3. /\ inactive' \in BOOLEAN /\ panic' \in BOOLEAN
          /\ pc' \in [Clients -> ClientLabels]
      BY <1>2 DEF Lifecycle, Drain, init, ProbeAndStart, Terminate, stop, DrainPasses,
                  DrainHolds, DrainSleeps, Release, Unload, free, Owner
    <2>. QED BY <2>1, <2>2, <2>3
  <1>3. CASE UNCHANGED vars
    BY <1>3 DEF vars
  <1>. QED BY <1>1, <1>2, <1>3 DEF Next

\* Every step of a client keeps the invariant.
LEMMA ClientStep ==
  ASSUME IInv, TypeOK', NEW c \in Clients, Client(c) PROVE IInv'
  <1> USE DEF IInv, TypeOK
  <1>1. CASE open(c)
    <2>1. CASE Crash
      BY <2>1 DEF Crash, ArrayLives, StoppedIsInactive, QuietOutside, Listed, Attached,
         OpenBeforeRelease, LockHeld, SleepsForAReason, NoLostWakeup, Empty
    <2>2. CASE ~Crash
      <3>1. /\ pc[c] = "idle" /\ Attached /\ clients = "array"
            /\ entries' = [entries EXCEPT ![c] = @ + 1]
            /\ pc' = [pc EXCEPT ![c] = "open:super"]
            /\ UNCHANGED <<clients, client_lock, inactive, owner, panic>>
        BY <1>1, <2>2 DEF open, Goto
      <3>2. ArrayLives' /\ StoppedIsInactive' /\ QuietOutside' /\ LockHeld'
        BY <3>1 DEF ArrayLives, StoppedIsInactive, QuietOutside, LockHeld, Attached
      <3>3. Listed' /\ OpenBeforeRelease'
        BY <3>1 DEF Listed, OpenBeforeRelease
      <3>4. entries'[c] > 0
        BY <3>1
      <3>5. SleepsForAReason' /\ NoLostWakeup'
        BY <3>4, <3>1 DEF SleepsForAReason, NoLostWakeup, Empty
      <3>. QED BY <3>2, <3>3, <3>5
    <2>. QED BY <2>1, <2>2
  <1>2. CASE SuperOpen(c)
    <2>1. /\ pc[c] = "open:super"
          /\ \/ ~inactive /\ pc' = [pc EXCEPT ![c] = "opened"]
             \/ pc' = [pc EXCEPT ![c] = "idle"]
          /\ UNCHANGED <<clients, entries, client_lock, inactive, owner, panic>>
      BY <1>2 DEF SuperOpen, Goto
    <2>2. ArrayLives' /\ StoppedIsInactive' /\ QuietOutside' /\ LockHeld'
      BY <2>1 DEF ArrayLives, StoppedIsInactive, QuietOutside, LockHeld, Attached
    <2>3. Listed' /\ OpenBeforeRelease'
      BY <2>1 DEF Listed, OpenBeforeRelease, StoppedIsInactive
    <2>4. SleepsForAReason' /\ NoLostWakeup'
      BY <2>1 DEF SleepsForAReason, NoLostWakeup, Empty
    <2>. QED BY <2>2, <2>3, <2>4
  <1>3. CASE close(c)
    <2>1. clients = "array"
      BY <1>3 DEF close, OpenBeforeRelease, QuietOutside, Attached, ArrayLives
    <2>2. /\ pc[c] = "opened" /\ client_lock = "free"
          /\ entries' = [entries EXCEPT ![c] = IF @ > 0 THEN @ - 1 ELSE 0]
          /\ pc' = [pc EXCEPT ![c] = "close:wakeup"]
          /\ UNCHANGED <<clients, client_lock, inactive, owner, panic>>
      BY <1>3, <2>1 DEF close, Goto
    <2>3. ArrayLives' /\ StoppedIsInactive' /\ QuietOutside' /\ LockHeld'
      BY <2>2 DEF ArrayLives, StoppedIsInactive, QuietOutside, LockHeld, Attached
    <2>4. Listed' /\ OpenBeforeRelease'
      BY <2>2 DEF Listed, OpenBeforeRelease
    <2>5. SleepsForAReason' /\ NoLostWakeup'
      BY <2>2 DEF SleepsForAReason, NoLostWakeup, LockHeld
    <2>. QED BY <2>3, <2>4, <2>5
  <1>4. CASE CloseWakesUp(c)
    <2>1. /\ pc[c] = "close:wakeup"
          /\ owner' = IF owner = "asleep" THEN "drain:check" ELSE owner
          /\ pc' = [pc EXCEPT ![c] = "close:super"]
          /\ UNCHANGED <<clients, entries, client_lock, inactive, panic>>
      BY <1>4 DEF CloseWakesUp, Woken, Goto
    <2>2. ArrayLives' /\ StoppedIsInactive' /\ QuietOutside' /\ LockHeld'
      BY <2>1 DEF ArrayLives, StoppedIsInactive, QuietOutside, LockHeld, Attached
    <2>3. Listed' /\ OpenBeforeRelease'
      BY <2>1 DEF Listed, OpenBeforeRelease
    <2>4. SleepsForAReason' /\ NoLostWakeup'
      BY <2>1 DEF SleepsForAReason, NoLostWakeup, Empty
    <2>. QED BY <2>2, <2>3, <2>4
  <1>5. CASE SuperClose(c)
    <2>1. /\ pc[c] = "close:super" /\ pc' = [pc EXCEPT ![c] = "idle"]
          /\ UNCHANGED <<clients, entries, client_lock, inactive, owner, panic>>
      BY <1>5 DEF SuperClose, Goto
    <2>2. ArrayLives' /\ StoppedIsInactive' /\ QuietOutside' /\ LockHeld'
      BY <2>1 DEF ArrayLives, StoppedIsInactive, QuietOutside, LockHeld, Attached
    <2>3. Listed' /\ OpenBeforeRelease'
      BY <2>1 DEF Listed, OpenBeforeRelease
    <2>4. SleepsForAReason' /\ NoLostWakeup'
      BY <2>1 DEF SleepsForAReason, NoLostWakeup, Empty
    <2>. QED BY <2>2, <2>3, <2>4
  <1>. QED BY <1>1, <1>2, <1>3, <1>4, <1>5 DEF Client

\* Every step of the owner keeps the invariant.
LEMMA LifecycleStep ==
  ASSUME IInv, TypeOK', Lifecycle PROVE IInv'
  <1> USE DEF IInv, TypeOK, Owner
  <1>1. ArrayLives' /\ StoppedIsInactive' /\ LockHeld'
    BY DEF Lifecycle, Drain, init, ProbeAndStart, Terminate, stop, DrainPasses,
           DrainHolds, DrainSleeps, Release, Unload, free,
           ArrayLives, StoppedIsInactive, LockHeld
  <1>2. QuietOutside'
    BY DEF Lifecycle, Drain, init, ProbeAndStart, Terminate, stop, DrainPasses,
           DrainHolds, DrainSleeps, Release, Unload, free, QuietOutside, Attached
  <1>3. Listed'
    BY DEF Lifecycle, Drain, init, ProbeAndStart, Terminate, stop, DrainPasses,
           DrainHolds, DrainSleeps, Release, Unload, free, Listed, QuietOutside,
           Attached
  <1>4. OpenBeforeRelease'
    <2>1. CASE DrainPasses
      BY <2>1 DEF DrainPasses, OpenBeforeRelease, Listed, ArrayLives, Empty
    <2>2. CASE ~DrainPasses
      BY <2>2 DEF Lifecycle, Drain, init, ProbeAndStart, Terminate, stop,
             DrainHolds, DrainSleeps, Release, Unload, free, OpenBeforeRelease
    <2>. QED BY <2>1, <2>2
  <1>5. SleepsForAReason' /\ NoLostWakeup'
    BY DEF Lifecycle, Drain, init, ProbeAndStart, Terminate, stop, DrainPasses,
           DrainHolds, DrainSleeps, Release, Unload, free, SleepsForAReason,
           NoLostWakeup, Empty
  <1>. QED BY <1>1, <1>2, <1>3, <1>4, <1>5

\* Every step of a client or of the owner keeps the invariant.
LEMMA InvStep == IInv /\ [Next]_vars => IInv'
  <1> SUFFICES ASSUME IInv, [Next]_vars PROVE IInv'
    OBVIOUS
  <1>1. TypeOK'
    BY TypeStep DEF IInv
  <1>2. ASSUME NEW c \in Clients, Client(c) PROVE IInv'
    BY <1>1, <1>2, ClientStep
  <1>3. CASE Lifecycle
    BY <1>1, <1>3, LifecycleStep
  <1>4. CASE UNCHANGED vars
    BY <1>4 DEF vars, IInv, TypeOK, ArrayLives, StoppedIsInactive, QuietOutside,
                Listed, OpenBeforeRelease, LockHeld, SleepsForAReason, NoLostWakeup,
                Empty, Attached
  <1>. QED BY <1>2, <1>3, <1>4 DEF Next

\* The invariant the theorems below are read off from.
THEOREM Invariance == Spec => []IInv
  BY InitInv, InvStep, PTL DEF Spec

\* open, close and stop keep every variable within its type, for any number of
\* clients and any bound on their entries.
THEOREM TypeCorrect == Spec => []TypeOK
  <1>1. IInv => TypeOK
    BY DEF IInv
  <1>. QED BY <1>1, Invariance, PTL

\* The loop in stop never sleeps beside an empty array without a close on its
\* way to wake it.
THEOREM NoWakeupIsLost == Spec => []NoLostWakeup
  <1>1. IInv => NoLostWakeup
    BY DEF IInv
  <1>. QED BY <1>1, Invariance, PTL

\* A client that has the device open is in the array, which exists: its close
\* finds both.
THEOREM CloseFindsItsEntry == Spec => []OpenedIsListed
  <1>1. IInv => OpenedIsListed
    BY DEF IInv, TypeOK, OpenedIsListed, Listed, OpenBeforeRelease, QuietOutside,
           Attached, ArrayLives
  <1>. QED BY <1>1, Invariance, PTL

-----------------------------------------------------------------------------
(* Refinement                                                              *)

\* The clients that hold the device, and the phase, as the barrier sees them.
holding == {c \in Clients : pc[c] = "opened"}

phaseOf == IF owner \in PastDrain \cup {"unloading", "freed"} THEN "passed"
           ELSE IF inactive THEN "shut" ELSE "up"

\* A step of a client joins, leaves, or is invisible to the barrier.
LEMMA ClientRefines ==
  ASSUME IInv, NEW c \in Clients, Client(c)
  PROVE  \/ phaseOf = "up" /\ holding' = holding \cup {c} /\ phaseOf' = phaseOf
         \/ c \in holding /\ holding' = holding \ {c} /\ phaseOf' = phaseOf
         \/ holding' = holding /\ phaseOf' = phaseOf
  <1> USE DEF IInv, TypeOK, holding, phaseOf
  <1>1. CASE open(c)
    BY <1>1 DEF open, Crash, Goto
  <1>2. CASE SuperOpen(c)
    <2>1. CASE pc' = [pc EXCEPT ![c] = "opened"] /\ ~inactive
      <3>1. phaseOf = "up" /\ phaseOf' = phaseOf
        BY <1>2, <2>1 DEF SuperOpen, StoppedIsInactive, QuietOutside, Attached
      <3>2. holding' = holding \cup {c}
        BY <1>2, <2>1
      <3>. QED BY <3>1, <3>2
    <2>2. CASE pc' = [pc EXCEPT ![c] = "idle"]
      BY <1>2, <2>2 DEF SuperOpen
    <2>. QED BY <1>2, <2>1, <2>2 DEF SuperOpen, Goto
  <1>3. CASE close(c)
    BY <1>3 DEF close, Crash, Goto
  <1>4. CASE CloseWakesUp(c)
    BY <1>4 DEF CloseWakesUp, Woken, Goto
  <1>5. CASE SuperClose(c)
    BY <1>5 DEF SuperClose, Goto
  <1>. QED BY <1>1, <1>2, <1>3, <1>4, <1>5 DEF Client

\* A step of the owner shuts the device, passes with nobody holding it, or is
\* invisible to the barrier.
LEMMA LifecycleRefines ==
  ASSUME IInv, Lifecycle
  PROVE  /\ holding' = holding
         /\ \/ phaseOf = "up" /\ phaseOf' = "shut"
            \/ phaseOf \in {"up", "shut"} /\ phaseOf' = "passed" /\ holding = {}
            \/ phaseOf' = phaseOf
  <1> USE DEF IInv, TypeOK, Owner
  <1>1. holding' = holding
    BY DEF Lifecycle, Drain, init, ProbeAndStart, Terminate, stop, DrainPasses,
           DrainHolds, DrainSleeps, Release, Unload, free, holding
  <1>2. CASE DrainPasses
    BY <1>1, <1>2 DEF DrainPasses, phaseOf, holding, Listed, ArrayLives, Empty
  <1>3. CASE init \/ ProbeAndStart
    BY <1>1, <1>3 DEF init, ProbeAndStart, phaseOf, holding, QuietOutside, Attached
  <1>4. CASE Terminate \/ stop
    BY <1>1, <1>4 DEF Terminate, stop, phaseOf
  <1>5. CASE DrainHolds \/ DrainSleeps \/ Release \/ Unload \/ free
    BY <1>1, <1>5 DEF DrainHolds, DrainSleeps, Release, Unload, free, phaseOf
  <1>. QED BY <1>2, <1>3, <1>4, <1>5 DEF Lifecycle, Drain

\* A fresh object is a barrier that nobody holds.
LEMMA RefinesInit == Init => Barrier!BarrierInit
  BY DEF Init, Barrier!BarrierInit

\* Every step is a step of the barrier or leaves it as it is.
LEMMA RefinesStep == IInv /\ [Next]_vars => [Barrier!BarrierNext]_(Barrier!barrier_vars)
  <1> SUFFICES ASSUME IInv, [Next]_vars
               PROVE  Barrier!BarrierNext \/ (holding' = holding /\ phaseOf' = phaseOf)
    BY DEF Barrier!barrier_vars, holding, phaseOf
  <1>1. ASSUME NEW c \in Clients, Client(c)
        PROVE  Barrier!Join(c) \/ Barrier!Leave(c)
               \/ (holding' = holding /\ phaseOf' = phaseOf)
    BY <1>1, ClientRefines DEF Barrier!Join, Barrier!Leave, holding, phaseOf
  <1>2. CASE Lifecycle
    BY <1>2, LifecycleRefines
       DEF Barrier!BarrierNext, Barrier!Shut, Barrier!Pass, holding, phaseOf
  <1>3. CASE UNCHANGED vars
    BY <1>3 DEF vars, holding, phaseOf
  <1>. QED BY <1>1, <1>2, <1>3 DEF Next, Barrier!BarrierNext

\* open, close and stop implement the barrier: no client holds the device while
\* its resources are released, and none gets hold of it afterwards.
THEOREM ImplementsBarrier == Spec => BarrierHolds
  <1>. QED BY RefinesInit, RefinesStep, Invariance, PTL
       DEF Spec, BarrierHolds, Barrier!BarrierSpec
=============================================================================
