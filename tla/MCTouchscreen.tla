---------------------------- MODULE MCTouchscreen ----------------------------
(* Places on a screen for VoodooI2CTouchscreenHIDEventDriver.              *)
EXTENDS VoodooI2CTouchscreenHIDEventDriver

\* The second is just within fat finger distance of the first, the third at
\* exactly that distance, and the last two are close to each other.
MCPlaces == {[x |-> 0, y |-> 0], [x |-> 1060, y |-> 1060], [x |-> 0, y |-> 1500]}

\* And two far from the first, of which the square of the distance overflows: to a
\* negative number, and past 2^32 to a small one.
MCFarPlaces == MCPlaces \cup {[x |-> 40000, y |-> 40000], [x |-> 65535, y |-> 363]}
=============================================================================
