---------------------------- MODULE ClientBarrier ----------------------------
(***************************************************************************)
(* What VoodooI2CHIDDevice::open, close and the loop in stop promise       *)
(* together: a client holds the device from a successful open to its       *)
(* close, nobody gets hold of it once the device is shut, and stop passes  *)
(* to the release of the device's resources only when nobody holds it.     *)
(***************************************************************************)
CONSTANT Clients

VARIABLES holders, phase

barrier_vars == <<holders, phase>>

BarrierInit == holders = {} /\ phase = "up"

Join(c) == phase = "up" /\ holders' = holders \cup {c} /\ UNCHANGED phase

Leave(c) == c \in holders /\ holders' = holders \ {c} /\ UNCHANGED phase

Shut == phase = "up" /\ phase' = "shut" /\ UNCHANGED holders

Pass ==
    /\ phase \in {"up", "shut"} /\ holders = {}
    /\ phase' = "passed" /\ UNCHANGED holders

BarrierNext == Shut \/ Pass \/ \E c \in Clients : Join(c) \/ Leave(c)

BarrierSpec == BarrierInit /\ [][BarrierNext]_barrier_vars
=============================================================================
