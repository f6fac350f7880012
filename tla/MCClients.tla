------------------------------ MODULE MCClients ------------------------------
(* Two or three clients of one device, for TLC.                            *)
EXTENDS VoodooI2CHIDDeviceClients

CONSTANTS c1, c2, c3

MCClients2 == {c1, c2}
MCClients3 == {c1, c2, c3}
=============================================================================
