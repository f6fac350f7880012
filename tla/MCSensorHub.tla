---------------------------- MODULE MCSensorHub ----------------------------
(* Accelerometers for VoodooI2CSensorHubEventDriver.                       *)
EXTENDS VoodooI2CSensorHubEventDriver

Power == <<"array", "Undefined", "D0", "D4">>
Reporting == <<"array", "NoEvents", "All", "Threshold">>
Both == {"power", "reporting"}

Accelerometer(power, reporting, states, sensitivity, axes) ==
    [power |-> power, reporting |-> reporting, states |-> states,
     change_sensitivity |-> sensitivity, axes |-> axes]

\* The usual one; without sensitivity or axes; with one state or none; with a state
\* that lists nothing; and with its D0 first, second or nowhere.
MCLayouts ==
    {Accelerometer(Power, Reporting, Both, TRUE, TRUE),
     Accelerometer(Power, Reporting, Both, FALSE, TRUE),
     Accelerometer(Power, Reporting, Both, TRUE, FALSE),
     Accelerometer(Power, <<>>, {"power"}, TRUE, TRUE),
     Accelerometer(<<>>, Reporting, {"reporting"}, TRUE, TRUE),
     Accelerometer(<<>>, <<>>, {}, TRUE, TRUE),
     Accelerometer(<<>>, Reporting, Both, TRUE, TRUE),
     Accelerometer(Power, <<>>, Both, TRUE, TRUE),
     Accelerometer(<<"D0", "D4">>, Reporting, Both, TRUE, TRUE),
     Accelerometer(<<"array", "D0", "D4">>, Reporting, Both, TRUE, TRUE),
     Accelerometer(<<"array", "D4">>, Reporting, Both, TRUE, TRUE)}

\* Upright, on a side, flat, on the thresholds, the ends of 16 bits, and nothing.
MCReadings == [x : {-32768, -200, 0, 200}, y : {-134, -133, 0, 133, 134, 32767}, z : {0, 800, 801}]
=============================================================================
