----------------------------- MODULE MCPointers -----------------------------
(* Devices for VoodooI2CMultitouchPointers.                                *)
EXTENDS VoodooI2CMultitouchPointers

MCUsb       == {"mouse", "touchscreen"}
MCBluetooth == {"magic"}
MCCounted   == {"mouse", "magic"}
MCListens   == {"usb", "bluetooth"}
=============================================================================
