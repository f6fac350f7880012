---------------------- MODULE VoodooI2CHIDDeviceClients ----------------------
(***************************************************************************)
(* The clients of a VoodooI2CHIDDevice from init to free: open and close,  *)
(* each called by the clients' own threads, the array of clients that they *)
(* keep under client_lock, and the loop with which stop waits for the      *)
(* array to empty before it releases the resources of the device.          *)
(*                                                                         *)
(* External: IOService::open (super), which refuses an inactive device and *)
(* may refuse a client while another one has seized it, and termination.   *)
(***************************************************************************)
EXTENDS Naturals

CONSTANTS
    Clients,       \* the services that open the device
    MaxEntries,    \* bound: entries of one client in the array
    Refusals       \* whether super::open may refuse an active device

ASSUME ClientsAssumption == MaxEntries \in Nat /\ Refusals \in BOOLEAN

VARIABLES
    clients,       \* "null", or "array": the pointer
    entries,       \* client -> how often the array holds it
    client_lock,   \* "free", or "owner" while stop holds it
    inactive,      \* IOService: termination has begun
    owner,         \* where the thread of init, probe, start, stop and free is
    pc,            \* client -> where its thread is
    panic          \* a NULL pointer was dereferenced

vars == <<clients, entries, client_lock, inactive, owner, pc, panic>>

OwnerLabels == {"init", "probe", "active", "drain:check", "drain:sleep",
                "asleep", "release", "stopped", "unloading", "freed"}
ClientLabels == {"idle", "open:super", "opened", "close:wakeup", "close:super"}

\* stop is past its loop.
PastDrain == {"release", "stopped"}

Init ==
    /\ clients = "null" /\ entries = [c \in Clients |-> 0]
    /\ client_lock = "free" /\ inactive = FALSE
    /\ owner = "init" /\ pc = [c \in Clients |-> "idle"]
    /\ panic = FALSE

-----------------------------------------------------------------------------
(* The clients                                                             *)

Goto(c, label) == pc' = [pc EXCEPT ![c] = label]

\* clients is used without a check, also after stop has released it.
Crash == panic' = TRUE /\ UNCHANGED <<clients, entries, client_lock, inactive,
                                      owner, pc>>

\* Services are attached between start and free, and may call open until then.
Attached == owner \notin {"init", "probe", "unloading", "freed"}

\* The first half of open, under the lock.
open(c) ==
    /\ pc[c] = "idle" /\ Attached /\ client_lock = "free"
    /\ \/ clients = "null" /\ Crash
       \/ /\ clients # "null" /\ entries[c] < MaxEntries
          /\ entries' = [entries EXCEPT ![c] = @ + 1]
          /\ Goto(c, "open:super")
          /\ UNCHANGED <<clients, client_lock, inactive, owner, panic>>

\* super::open; the entry stays when it refuses.
SuperOpen(c) ==
    /\ pc[c] = "open:super"
    /\ \/ ~inactive /\ Goto(c, "opened")
       \/ (inactive \/ Refusals) /\ Goto(c, "idle")
    /\ UNCHANGED <<clients, entries, client_lock, inactive, owner, panic>>

\* Mutant: the entry is removed again once stop is woken.
close_RemovesTwice(c) ==
    /\ pc[c] = "opened" /\ client_lock = "free" /\ clients # "null"
    /\ entries' = [entries EXCEPT ![c] = @ - 2]
    /\ Goto(c, "close:wakeup")
    /\ UNCHANGED <<clients, client_lock, inactive, owner, panic>>

\* The first half of close: one entry goes, under the lock.
close(c) ==
    /\ pc[c] = "opened" /\ client_lock = "free"
    /\ \/ clients = "null" /\ Crash
       \/ /\ clients # "null"
          /\ entries' = [entries EXCEPT ![c] = IF @ > 0 THEN @ - 1 ELSE 0]
          /\ Goto(c, "close:wakeup")
          /\ UNCHANGED <<clients, client_lock, inactive, owner, panic>>

\* Mutant: the sleeper is not woken.
Woken_Never == owner

\* Mutant: the loop in stop is an if, the array is not looked at again.
Woken_NoRecheck == IF owner = "asleep" THEN "release" ELSE owner

Woken == IF owner = "asleep" THEN "drain:check" ELSE owner

\* IOLockWakeup, after the lock was left.
CloseWakesUp(c) ==
    /\ pc[c] = "close:wakeup"
    /\ owner' = Woken /\ Goto(c, "close:super")
    /\ UNCHANGED <<clients, entries, client_lock, inactive, panic>>

SuperClose(c) ==
    /\ pc[c] = "close:super"
    /\ Goto(c, "idle")
    /\ UNCHANGED <<clients, entries, client_lock, inactive, owner, panic>>

-----------------------------------------------------------------------------
(* The owner                                                               *)

Owner(from, to) == owner = from /\ owner' = to /\ UNCHANGED <<pc, panic>>

\* The allocations succeed, or what there is of the array is released.
init ==
    \/ /\ Owner("init", "probe") /\ clients' = "array"
       /\ UNCHANGED <<entries, client_lock, inactive>>
    \/ /\ Owner("init", "unloading")
       /\ UNCHANGED <<clients, entries, client_lock, inactive>>

\* probe and start succeed, or one of them fails and the object is let go.
ProbeAndStart ==
    /\ Owner("probe", "active") \/ Owner("probe", "unloading")
    /\ UNCHANGED <<clients, entries, client_lock, inactive>>

Terminate ==
    /\ owner = "active" /\ ~inactive /\ inactive' = TRUE
    /\ UNCHANGED <<clients, entries, client_lock, owner, pc, panic>>

stop ==
    /\ inactive /\ Owner("active", "drain:check")
    /\ UNCHANGED <<clients, entries, client_lock, inactive>>

\* Mutant: stop waits only while there is more than one client.
Empty_ButOne == \A c, d \in Clients : c # d => entries[c] = 0 \/ entries[d] = 0

Empty == \A c \in Clients : entries[c] = 0

\* The array is empty: the lock is left and stop goes on.
DrainPasses ==
    /\ client_lock = "free" /\ Empty
    /\ Owner("drain:check", "release")
    /\ UNCHANGED <<clients, entries, client_lock, inactive>>

\* Mutant: the lock is left before the thread sleeps.
DrainHolds_Unlocked ==
    /\ client_lock = "free" /\ ~Empty
    /\ Owner("drain:check", "drain:sleep")
    /\ UNCHANGED <<client_lock, clients, entries, inactive>>

\* Somebody is in the array: stop goes to sleep with the lock held.
DrainHolds ==
    /\ client_lock = "free" /\ ~Empty
    /\ Owner("drain:check", "drain:sleep")
    /\ client_lock' = "owner"
    /\ UNCHANGED <<clients, entries, inactive>>

\* IOLockSleep leaves the lock and sleeps in one step; when it returns it has
\* the lock again, which the next step of the loop takes here.
DrainSleeps ==
    /\ Owner("drain:sleep", "asleep") /\ client_lock' = "free"
    /\ UNCHANGED <<clients, entries, inactive>>

\* releaseResources, the release of the array, PMstop and super::stop.
Release ==
    /\ Owner("release", "stopped") /\ clients' = "null"
    /\ entries' = [c \in Clients |-> 0]
    /\ UNCHANGED <<client_lock, inactive>>

Unload ==
    /\ Owner("stopped", "unloading") /\ \A c \in Clients : pc[c] = "idle"
    /\ UNCHANGED <<clients, entries, client_lock, inactive>>

\* free returns the lock, and not the array.
free ==
    /\ Owner("unloading", "freed")
    /\ UNCHANGED <<clients, entries, client_lock, inactive>>

-----------------------------------------------------------------------------

Client(c) ==
    open(c) \/ SuperOpen(c) \/ close(c) \/ CloseWakesUp(c) \/ SuperClose(c)

Drain == DrainPasses \/ DrainHolds \/ DrainSleeps

Lifecycle == init \/ ProbeAndStart \/ Terminate \/ stop \/ Drain \/ Release
             \/ Unload \/ free

Next == ~panic /\ (Lifecycle \/ \E c \in Clients : Client(c))

Spec == Init /\ [][Next]_vars

\* A call that has begun goes on, and a client that is told of the termination
\* closes the device.  No client has to open it, and nothing has to be stopped.
Fairness ==
    /\ \A c \in Clients :
        /\ WF_vars(~panic /\ (SuperOpen(c) \/ CloseWakesUp(c) \/ SuperClose(c)))
        /\ SF_vars(~panic /\ inactive /\ close(c))
    /\ SF_vars(~panic /\ Drain)
    /\ WF_vars(~panic /\ (stop \/ Release))

LiveSpec == Spec /\ Fairness

-----------------------------------------------------------------------------
(* Properties                                                              *)

\* Every variable keeps to its type.
TypeOK ==
    /\ clients \in {"null", "array"}
    /\ entries \in [Clients -> Nat]
    /\ client_lock \in {"free", "owner"}
    /\ inactive \in BOOLEAN
    /\ owner \in OwnerLabels
    /\ pc \in [Clients -> ClientLabels]
    /\ panic \in BOOLEAN

\* stop does not sleep beside an empty array unless a close is about to wake it.
NoLostWakeup ==
    owner \in {"drain:sleep", "asleep"} /\ Empty
        => \E c \in Clients : pc[c] = "close:wakeup"

\* What opened the device is in the array until its close takes it out, so the
\* close of a client never meets the array stop has released.
OpenedIsListed ==
    \A c \in Clients :
        pc[c] = "opened" => clients = "array" /\ entries[c] > 0

\* open, close and stop implement the barrier.
Barrier == INSTANCE ClientBarrier WITH
    holders <- {c \in Clients : pc[c] = "opened"},
    phase   <- IF owner \in PastDrain \cup {"unloading", "freed"} THEN "passed"
               ELSE IF inactive THEN "shut" ELSE "up"

BarrierHolds == Barrier!BarrierSpec

\* An entry that no open or close under way accounts for: super::open refused.
Stale(c) ==
    entries[c] > IF pc[c] \in {"open:super", "opened"} THEN 1 ELSE 0

\* Once stop has begun it passes its loop, unless a refused open has left its
\* entry in the array.
StopDrains ==
    (owner = "drain:check")
        ~> (owner \in PastDrain \/ panic \/ \E c \in Clients : Stale(c))

-----------------------------------------------------------------------------
(* What the documentation of the code says and the code does not keep      *)

\* stop "is called before <free> and is responsible for deallocating the
\* resources that were allocated in <start>" (VoodooI2CHIDDevice.hpp:179):
\* when every client that has the device open closes it, stop gets that far.
StopReachesRelease == (owner = "drain:check") ~> (owner \in PastDrain)
=============================================================================
