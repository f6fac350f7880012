---------------------- MODULE VoodooI2CMultitouchFrames ----------------------
(***************************************************************************)
(* How VoodooI2CMultitouchHIDEventDriver puts the frames of a digitiser    *)
(* together.  The device reports a frame in as many reports as its finger  *)
(* collections need: the first carries the number of contacts, the others  *)
(* carry 0.  The driver counts them, copies each into the transducers of a *)
(* wrapper, and forwards the frame with the last.  A report may be         *)
(* dropped: the driver is not ready, the trackpad is ignored, somebody has *)
(* just typed.                                                             *)
(*                                                                         *)
(* A contact is its identifier and whether its tip touches; the rest of    *)
(* what handleDigitizerTransducerReport copies goes the same way.          *)
(* External: the device, which orders the contacts of a frame by           *)
(* identifier; the element values, which IOHIDDevice sets before it calls  *)
(* the driver, ignored or not; the keyboard; the multitouch interface.     *)
(***************************************************************************)
EXTENDS Integers, FiniteSets, FiniteSetsExt

CONSTANTS
    Descriptors,     \* bound: the digitisers report descriptors declare
    MaxTouching      \* bound: how many contacts touch at once

ASSUME DescriptorsAssumption ==
    Descriptors \subseteq
        [collections : 1..255, contact_count_maximum : 1..255, stylus : BOOLEAN,
         buttons : SUBSET {2, 3}]

ASSUME MaxTouchingAssumption == MaxTouching \in Nat

VARIABLES
    descriptor,
    \* the driver
    readyForReports,
    ignoring,        \* ignore_all, or the quiet time after a key
    digitiser,       \* its counters: one frame's contacts and reports
    transducers,     \* of the fingers, by wrapper
    external_buttons,
    event,           \* what the last step forwarded
    \* the device
    frame,           \* the last frame, and how much of it has been sent
    surface,         \* who touches
    \* history
    disturbed,       \* something else than this frame came between
    forwards,        \* of this frame, counted up to 2
    missed           \* whose lift the driver was never told

driver_vars == <<digitiser, transducers, external_buttons>>
ignore_vars == <<readyForReports, ignoring>>
device_vars == <<frame, surface>>
history_vars == <<disturbed, forwards, missed>>
frame_vars == <<descriptor, ignore_vars, driver_vars, event, device_vars,
                history_vars>>

Ids   == 0..(descriptor.contact_count_maximum - 1)
Blank == [id |-> 0, tip |-> FALSE]
None  == [contact_count |-> 0, external_buttons |-> {}]

CeilDiv(a, b) == (a + b - 1) \div b

-----------------------------------------------------------------------------
(* parseElements                                                           *)

\* Finger collections beyond the contacts are removed until they divide them.
fingers ==
    LET n == descriptor.collections
        max == descriptor.contact_count_maximum
    IN IF max < n THEN Max({k \in 1..n : max % k = 0}) ELSE n

wrapper_count == descriptor.contact_count_maximum \div fingers

\* Each wrapper has a transducer for each finger; the stylus has the last one.
Wrappers      == 0..(wrapper_count - 1)
HasWrapper(i) == i < wrapper_count + IF descriptor.stylus THEN 1 ELSE 0

-----------------------------------------------------------------------------
(* The device's frames (external)                                          *)

Rank(c, contacts) == Cardinality({d \in contacts : d.id < c.id})

\* What the finger collections hold in the i-th report of a frame.
Slots(contacts, i) ==
    [s \in 1..descriptor.collections |->
        LET rank == (i - 1) * descriptor.collections + s - 1
            here == {c \in contacts : Rank(c, contacts) = rank}
        IN IF here = {} THEN Blank ELSE CHOOSE c \in here : TRUE]

\* The element values after the last report that was sent.
Elements(f) ==
    [contact_count |-> IF f.sent = 1 THEN Cardinality(f.contacts) ELSE 0,
     slots |-> Slots(f.contacts, f.sent), buttons |-> f.buttons]

NewFrame(touching, buttons) ==
    LET contacts == {[id |-> i, tip |-> i \in touching] : i \in surface \cup touching}
    IN [contacts |-> contacts, buttons |-> buttons, sent |-> 1,
        total |-> Max({1, CeilDiv(Cardinality(contacts), descriptor.collections)})]

Complete(f) == f.sent = f.total

-----------------------------------------------------------------------------
(* handleInterruptReport                                                   *)

\* Mutant: a partly filled report is not counted.
FrameStarts_RoundsDown(count) ==
    IF count = 0 THEN digitiser
    ELSE [current_contact_count |-> count, current_report |-> 1,
          report_count |-> Max({1, count \div fingers})]

\* Mutant: a new frame goes on where the last one stopped.
FrameStarts_GoesOn(count) ==
    IF count = 0 THEN digitiser
    ELSE [digitiser EXCEPT !.current_contact_count = count,
                           !.report_count = CeilDiv(count, fingers) % 256]

\* A report with a contact count is the first of its frame.
FrameStarts(count) ==
    IF count = 0 THEN digitiser
    ELSE [current_contact_count |-> count, current_report |-> 1,
          report_count |-> CeilDiv(count, fingers) % 256]

\* Mutant: reports go to the wrappers in the order they come.
WrapperOf_InOrder(current_report, first_identifier) == {current_report - 1} \cap Wrappers

\* The wrapper a report is for: none when there is none at current_report - 1 or
\* it has no identifier (the stylus), else the first contact's, if it exists.
WrapperOf(current_report, first_identifier) ==
    LET actual_index == ((first_identifier + fingers) \div fingers - 1) % 256 IN
    IF current_report - 1 \notin Wrappers THEN {}
    ELSE IF HasWrapper(actual_index) THEN {actual_index} ELSE {current_report - 1}

handleDigitizerTransducerReport(slots) == [s \in 1..fingers |-> slots[s]]

handleDigitizerReport(current_report, report) ==
    LET wrapper == WrapperOf(current_report, report.slots[1].id) IN
    /\ transducers' = [w \in Wrappers |->
            IF w \in wrapper THEN handleDigitizerTransducerReport(report.slots)
            ELSE transducers[w]]
    /\ external_buttons' = IF wrapper = {} THEN external_buttons ELSE report.buttons

\* The counters once a frame has been forwarded.
AfterFrame(d) == [d EXCEPT !.report_count = 1, !.current_report = 1]

\* The tail of handleInterruptReport for a report that is not dropped.
handleInterruptReport(report) ==
    LET started == FrameStarts(report.contact_count) IN
    /\ handleDigitizerReport(started.current_report, report)
    /\ IF started.current_report = started.report_count
       THEN /\ event' = [contact_count |-> started.current_contact_count,
                         external_buttons |-> external_buttons']
            /\ digitiser' = AfterFrame(started)
       ELSE /\ event' = None
            /\ digitiser' = [started EXCEPT !.current_report = (@ + 1) % 256]

\* A report that gets past the early returns of handleInterruptReport.
Taken == readyForReports /\ ~ignoring

Deliver(report, taken) ==
    \/ taken /\ handleInterruptReport(report)
    \/ ~taken /\ event' = None /\ UNCHANGED driver_vars

-----------------------------------------------------------------------------
(* Reports                                                                 *)

Forwards(n) == forwards' = Min({2, n + IF event' = None THEN 0 ELSE 1})

\* Whose lift the driver has not been told once this report is over.
Missed(f, taken) ==
    LET told == {c \in f.contacts :
                    \E s \in DOMAIN Slots(f.contacts, f.sent) :
                        Slots(f.contacts, f.sent)[s] = c}
    IN missed' = IF taken
                 THEN IF wrapper_count = 1 THEN {} ELSE missed \ {c.id : c \in told}
                 ELSE missed \cup {c.id : c \in {d \in told : ~d.tip}}

\* A frame begins: its first report arrives.
Frame(touching, buttons, taken) ==
    LET f == NewFrame(touching, buttons) IN
    /\ Complete(frame) /\ Cardinality(touching) <= MaxTouching
    /\ frame' = f /\ surface' = touching
    /\ Deliver(Elements(f), taken)
    /\ disturbed' = (~taken \/ (disturbed /\ f.contacts = {}))
    /\ Forwards(0) /\ Missed(f, taken)
    /\ UNCHANGED <<descriptor, ignore_vars>>

NextReport(taken) ==
    LET f == [frame EXCEPT !.sent = @ + 1] IN
    /\ ~Complete(frame)
    /\ frame' = f /\ UNCHANGED surface
    /\ Deliver(Elements(f), taken)
    /\ disturbed' = (disturbed \/ ~taken)
    /\ Forwards(forwards) /\ Missed(f, taken)
    /\ UNCHANGED <<descriptor, ignore_vars>>

\* A report of another collection (a stylus, a mouse): the elements of the
\* fingers are what they were, and the driver reads them again.
ForeignReport(taken) ==
    /\ Deliver(Elements(frame), taken)
    /\ disturbed' = (disturbed \/ taken) /\ Forwards(forwards)
    /\ UNCHANGED <<descriptor, ignore_vars, device_vars, missed>>

\* The device is reset: the rest of the frame never comes, nor does a report
\* of who lifts meanwhile.
DeviceReset ==
    LET unsent == {c \in frame.contacts :
                      Rank(c, frame.contacts) >= frame.sent * descriptor.collections}
    IN
    /\ frame' = [frame EXCEPT !.total = frame.sent]
    /\ surface' = {} /\ missed' = missed \cup surface \cup {c.id : c \in unsent}
    /\ disturbed' = TRUE /\ event' = None
    /\ UNCHANGED <<descriptor, ignore_vars, driver_vars, forwards>>

-----------------------------------------------------------------------------
(* What drops reports                                                      *)

Dropping ==
    /\ event' = None
    /\ UNCHANGED <<descriptor, driver_vars, device_vars, history_vars>>

\* handleStart has returned (external: IOHIDEventService).
Started == ~readyForReports /\ readyForReports' = TRUE /\ UNCHANGED ignoring /\ Dropping

\* ignore_all is written (kKeyboardSetTouchStatus, setProperties, a notification),
\* a key is pressed (kKeyboardKeyPressTime), or max_after_typing is over.
Ignore == ignoring' = ~ignoring /\ UNCHANGED readyForReports /\ Dropping

-----------------------------------------------------------------------------

Init ==
    /\ descriptor \in Descriptors
    /\ readyForReports = FALSE
    /\ ignoring \in BOOLEAN    \* uptime and key_time are both near 0 at first
    /\ digitiser = [current_contact_count |-> 1, report_count |-> 1,
                    current_report |-> 1]
    /\ transducers = [w \in Wrappers |-> [s \in 1..fingers |-> Blank]]
    /\ external_buttons = {} /\ event = None
    /\ frame = [contacts |-> {}, buttons |-> {}, sent |-> 1, total |-> 1]
    /\ surface = {}
    /\ disturbed = TRUE /\ forwards = 0 /\ missed = {}

Report(taken) ==
    \/ \E touching \in SUBSET Ids, buttons \in SUBSET descriptor.buttons :
            Frame(touching, buttons, taken)
    \/ NextReport(taken)
    \/ ForeignReport(taken)

Next == Report(Taken) \/ DeviceReset \/ Started \/ Ignore

Spec == Init /\ [][Next]_frame_vars

-----------------------------------------------------------------------------
(* Properties                                                              *)

\* Every variable keeps to its type, and the counters of the frame to their
\* bounds: the current report is one of those the frame has.
TypeOK ==
    /\ descriptor \in Descriptors
    /\ <<readyForReports, ignoring>> \in BOOLEAN \X BOOLEAN
    /\ digitiser.report_count \in 0..255
    /\ digitiser.current_report \in 1..digitiser.report_count
    /\ digitiser.current_contact_count \in 1..255
    /\ transducers \in [Wrappers -> [1..fingers -> [id : Ids, tip : BOOLEAN]]]
    /\ external_buttons \subseteq descriptor.buttons
    /\ event = None \/ event.contact_count \in 1..255
    /\ frame.contacts \subseteq [id : Ids, tip : BOOLEAN]
    /\ frame.sent \in 1..frame.total
    /\ surface \subseteq Ids /\ missed \subseteq Ids
    /\ disturbed \in BOOLEAN /\ forwards \in 0..2

\* A frame of which no report was dropped, with nothing between its reports, is
\* forwarded with its last report and only then, however many reports it takes
\* and wherever an earlier frame was cut off (handleInterruptReport).
OncePerFrame == ~disturbed => forwards = IF Complete(frame) THEN 1 ELSE 0

\* What is forwarded then is the whole frame: every contact is in a transducer
\* as it was reported, with the number of contacts and the buttons of the frame.
WholeFrame ==
    event # None /\ ~disturbed =>
        /\ \A c \in frame.contacts : \E w \in Wrappers, s \in 1..fingers :
               transducers[w][s] = c
        /\ frame.contacts # {} => event.contact_count = Cardinality(frame.contacts)
        /\ event.external_buttons = frame.buttons

\* A transducer that touches, in a frame that is over, is somebody who touches,
\* or whose lift was in a report that was dropped or never sent: on a digitiser
\* with one contact to a report, or all of them in one.
NoPhantom ==
    event # None /\ Complete(frame) /\ (fingers = 1 \/ wrapper_count = 1) =>
        \A w \in Wrappers, s \in 1..fingers :
            transducers[w][s].tip => transducers[w][s].id \in surface \cup missed
=============================================================================
