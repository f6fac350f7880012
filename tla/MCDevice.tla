------------------------------ MODULE MCDevice ------------------------------
(* Model values and instances of VoodooI2CHIDDevice for TLC.               *)
EXTENDS VoodooI2CHIDDevice

\* One device of each kind the quirk table tells apart.
MCDeviceIds == {[vendor |-> "HANTICK", product |-> "5288"],
                [vendor |-> "ALPS_JP", product |-> "120B"],
                [vendor |-> "ELAN",    product |-> "0732"]}

\* As many failing writes as the retries bear and one more, and reads that fail.
MCBuses == [write_faults : {5, 6}, read_faults : BOOLEAN]

\* An ordinary device, without quirks, on a bus that does not fail.
MCOrdinary == {[vendor |-> "ELAN", product |-> "0732"]}
MCSoundBus == {[write_faults |-> 0, read_faults |-> FALSE]}
=============================================================================
