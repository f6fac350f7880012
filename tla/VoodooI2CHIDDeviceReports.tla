---------------------- MODULE VoodooI2CHIDDeviceReports ----------------------
(***************************************************************************)
(* How VoodooI2CHIDDevice frames the reports it sends with set report, in  *)
(* the widths the code computes them in.  A command is its report id (in   *)
(* four bits), a third byte when the id needs one, the size and the data;  *)
(* "length" is how much of it is written to the bus.                       *)
(* External: IOHIDDevice, which puts the id of a numbered report into the  *)
(* first byte; the device, which takes the size of the data from the       *)
(* command and its bytes from the bus.                                     *)
(***************************************************************************)
EXTENDS Integers, Sequences

Byte == 0..255

\* What IOHIDDevice hands over for a value (external).
ReportOf(report_id, value) == IF report_id = 0 THEN value ELSE <<report_id>> \o value

-----------------------------------------------------------------------------

\* Four bits of the command hold the id; larger ids follow in a third byte.
ShortId(report_id)   == IF report_id >= 15 THEN 15 ELSE report_id
ThirdByte(report_id) == IF report_id >= 15 THEN <<report_id>> ELSE <<>>

\* Mutant: the id stays in the body.
Body_Whole(report, report_id) == report

\* The id is taken off the report; so is a first byte that happens to equal it.
Body(report, report_id) == IF report_id = Head(report) THEN Tail(report) ELSE report

\* The body, with the id in front again if there is one: in its short form.
Data(report, report_id) ==
    (IF report_id = 0 THEN <<>> ELSE <<ShortId(report_id)>>) \o Body(report, report_id)

\* What is written to the bus: nothing for a report of another type
\* (kIOReturnBadArgument), else one command.
setReport(report, report_type, report_id) ==
    LET data == Data(report, report_id)
        size == (2 + Len(data)) % 65536
        arguments_length == (Len(ThirdByte(report_id)) + 2 + size) % 65536
    IN IF report_type \notin {"feature", "output"} THEN <<>>
       ELSE <<[report_type |-> report_type, report_id |-> ShortId(report_id),
               third |-> ThirdByte(report_id), size |-> size, data |-> data,
               length |-> (4 + arguments_length) % 256]>>

\* A device has all of a command (external) unless it was cut short: the command,
\* the id, the register and the size come before the data.
Whole(command) == command.length - 4 - Len(command.third) - 4 = command.size - 2

\* What it makes of what was written to it (external).
Received(commands) ==
    IF commands # <<>> /\ Whole(Head(commands)) THEN Head(commands).data ELSE <<>>
=============================================================================
