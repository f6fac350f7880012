---------------------------- MODULE MCPrecision ----------------------------
(* Touchpads for VoodooI2CPrecisionTouchpadHIDEventDriver.                 *)
EXTENDS VoodooI2CPrecisionTouchpadHIDEventDriver

\* A touchpad that needs two reports for two contacts.
MCDescriptors ==
    {[collections |-> 1, contact_count_maximum |-> 2, stylus |-> FALSE, buttons |-> {}]}

\* No id, the smallest, the value of the mode itself, the edge of the short form.
MCInputModeReports == {0, 1, 3, 14, 15, 255}
=============================================================================
