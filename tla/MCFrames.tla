------------------------------ MODULE MCFrames ------------------------------
(* Digitisers for VoodooI2CMultitouchFrames.                               *)
EXTENDS VoodooI2CMultitouchFrames

Digitiser(n, max, stylus, buttons) ==
    [collections |-> n, contact_count_maximum |-> max, stylus |-> stylus,
     buttons |-> buttons]

\* One contact to a report, all in one, more collections than contacts, and two
\* contacts to a report with two reports to a frame.
MCDescriptors ==
    {Digitiser(1, 3, FALSE, {}), Digitiser(2, 2, TRUE, {2}),
     Digitiser(3, 2, FALSE, {2, 3}), Digitiser(2, 4, FALSE, {})}
=============================================================================
