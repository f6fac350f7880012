----------- MODULE VoodooI2CPrecisionTouchpadHIDEventDriver_proofs -----------
(***************************************************************************)
(* Proofs about the framing of set report, for every report, about the     *)
(* input mode of a precision touchpad, and that its frames implement those *)
(* of the multitouch driver.                                               *)
(***************************************************************************)
EXTENDS VoodooI2CPrecisionTouchpadHIDEventDriver, TLAPS

\* A device of which one power state is not "on" has a driver that sleeps.
AsleepTogether == pm # "on" => ~awake

IInv == /\ input_mode_id \in Byte
        /\ AsleepTogether /\ TouchpadMode

-----------------------------------------------------------------------------

\* A report is sent as it is as long as its id has a short form, its first byte is
\* not taken for an id, and it fits the 8 bits of the length.
LEMMA DataIsReport ==
    ASSUME NEW report_id \in 0..14, NEW value \in Seq(Byte), Len(value) \in 1..246,
           report_id = 0 => Head(value) # 0
    PROVE  Data(ReportOf(report_id, value), report_id) = ReportOf(report_id, value)
  <1>1. CASE report_id = 0
    <2>1. ReportOf(report_id, value) = value /\ Body(value, report_id) = value
      BY <1>1 DEF ReportOf, Body
    <2>2. <<>> \o value = value
      BY SMTT(30)
    <2>. QED BY <1>1, <2>1, <2>2 DEF Data
  <1>2. CASE report_id # 0
    <2>1. ReportOf(report_id, value) = <<report_id>> \o value
      BY <1>2 DEF ReportOf
    <2>2. /\ Head(<<report_id>> \o value) = report_id
          /\ Tail(<<report_id>> \o value) = value
      OBVIOUS
    <2>3. ShortId(report_id) = report_id
      BY DEF ShortId
    <2>. QED BY <1>2, <2>1, <2>2, <2>3 DEF Data, Body
  <1>. QED BY <1>1, <1>2

\* Nothing of a short enough report is cut off by the widths of set report.
LEMMA LengthFits ==
    ASSUME NEW report_id \in 0..14, NEW report \in Seq(Byte),
           NEW report_type \in {"feature", "output"},
           Len(Data(report, report_id)) \in 0..247
    PROVE  Received(setReport(report, report_type, report_id))
             = Data(report, report_id)
  <1>. DEFINE n == Len(Data(report, report_id))
              size == (2 + n) % 65536
              arguments_length == (0 + 2 + size) % 65536
              length == (4 + arguments_length) % 256
              command == [report_type |-> report_type,
                          report_id |-> ShortId(report_id), third |-> <<>>,
                          size |-> size, data |-> Data(report, report_id),
                          length |-> length]
  <1>1. ThirdByte(report_id) = <<>> /\ Len(<<>>) = 0
    BY DEF ThirdByte
  <1>2. setReport(report, report_type, report_id) = <<command>>
    BY <1>1 DEF setReport
  <1>3. size = n + 2 /\ length = n + 8
    <2>1. n \in 0..247
      OBVIOUS
    <2> HIDE DEF n
    <2>2. size = n + 2
      BY <2>1
    <2>3. arguments_length = n + 4
      <3> HIDE DEF size
      <3>. QED BY <2>1, <2>2
    <2>4. length = n + 8
      <3> HIDE DEF arguments_length
      <3>. QED BY <2>1, <2>3
    <2>. QED BY <2>2, <2>4
  <1>4. length - 4 - 0 - 4 = size - 2
    <2> HIDE DEF length, size
    <2>. QED BY <1>3
  <1>5. Whole(command)
    <2> HIDE DEF length, size
    <2>. QED BY <1>1, <1>4 DEF Whole
  <1>6. command.data = Data(report, report_id)
    OBVIOUS
  <1> HIDE DEF command
  <1>7. <<command>> # <<>> /\ Head(<<command>>) = command
    BY SMTT(30)
  <1>. QED BY <1>2, <1>5, <1>6, <1>7 DEF Received

\* Set report delivers every feature or output report of at most 246 bytes of value
\* under an id of four bits as the host meant it: the id is sent once, neither
\* dropped nor doubled, and the length does not wrap (setReport).
THEOREM ReportArrives ==
    ASSUME NEW report_id \in 0..14, NEW value \in Seq(Byte), Len(value) \in 1..246,
           report_id = 0 => Head(value) # 0,
           NEW report_type \in {"feature", "output"}
    PROVE  Received(setReport(ReportOf(report_id, value), report_type, report_id))
             = ReportOf(report_id, value)
  <1>1. <<report_id>> \in Seq(Byte) /\ Len(<<report_id>>) = 1
    BY DEF Byte
  <1>2. /\ <<report_id>> \o value \in Seq(Byte)
        /\ Len(<<report_id>> \o value) = 1 + Len(value)
    <2> HIDE DEF Byte
    <2>. QED BY <1>1
  <1>3. ReportOf(report_id, value) \in Seq(Byte)
    BY <1>2 DEF ReportOf
  <1>4. Len(ReportOf(report_id, value)) \in 0..247
    <2> DEFINE Values == 1..246
               Lengths == 0..247
    <2> SUFFICES Len(ReportOf(report_id, value)) \in Lengths
      OBVIOUS
    <2>0. Len(value) \in Values
      OBVIOUS
    <2>1. \A n \in Values : n \in Lengths /\ 1 + n \in Lengths
      OBVIOUS
    <2> HIDE DEF Values, Lengths
    <2>2. CASE report_id = 0
      BY <2>0, <2>1, <2>2 DEF ReportOf
    <2>3. CASE report_id # 0
      <3>1. Len(ReportOf(report_id, value)) = 1 + Len(value)
        BY <1>2, <2>3 DEF ReportOf
      <3>. QED BY <2>0, <2>1, <3>1
    <2>. QED BY <2>2, <2>3
  <1>. QED BY <1>3, <1>4, DataIsReport, LengthFits

\* So a write of the mode that is not lost is taken.
LEMMA ModeIsTaken ==
    ASSUME input_mode_id \in 0..14, WriteMode
    PROVE  lost' \/ mode' = INPUT_MODE_TOUCHPAD
  <1>. DEFINE value == <<INPUT_MODE_TOUCHPAD>>
              report == ReportOf(input_mode_id, value)
  <1>1. value \in Seq(Byte) /\ Len(value) \in 1..246 /\ Head(value) # 0
    BY DEF Byte, INPUT_MODE_TOUCHPAD
  <1>2. Received(setReport(report, "feature", input_mode_id)) = report
    BY <1>1, ReportArrives
  <1>3. Takes(Received(setReport(report, "feature", input_mode_id))) = {TRUE}
    BY <1>2 DEF Takes
  <1>. QED BY <1>3 DEF WriteMode, Writes

-----------------------------------------------------------------------------

\* The invariant holds of a driver that starts.
LEMMA InitInv == PrecisionInit => IInv
  BY InputModeReportsAssumption
  DEF PrecisionInit, IInv, AsleepTogether, TouchpadMode

\* Every step keeps it: the mode is written by the start and by each wake, and
\* forgotten only between the wake of the device and that of the driver.
LEMMA Step == IInv /\ [PrecisionNext]_vars => IInv'
  <1> SUFFICES ASSUME IInv, [PrecisionNext]_vars PROVE IInv'
    OBVIOUS
  <1> USE DEF IInv, AsleepTogether, TouchpadMode, mode_vars, pm_vars, descriptor_vars
  <1>1. CASE handleStart
    BY <1>1 DEF handleStart
  <1>2. CASE StartsMode
    <2>1. CASE ~has_input_mode
      BY <1>2, <2>1 DEF StartsMode
    <2>2. CASE has_input_mode
      <3>1. enterPrecisionTouchpadMode
        BY <1>2, <2>2 DEF StartsMode
      <3>2. input_mode_id < 15 => lost' \/ mode' = INPUT_MODE_TOUCHPAD
        BY <3>1, ModeIsTaken DEF enterPrecisionTouchpadMode, Byte
      <3>. QED BY <1>2, <2>2, <3>2 DEF StartsMode
    <2>. QED BY <2>1, <2>2
  <1>3. CASE ReadyForReports
    BY <1>3 DEF ReadyForReports
  <1>4. CASE Sleep
    BY <1>4 DEF Sleep
  <1>5. CASE SleepDevice
    BY <1>5 DEF SleepDevice
  <1>6. CASE WakeDevice
    BY <1>6 DEF WakeDevice
  <1>7. CASE Wake
    <2>1. CASE ~has_input_mode
      BY <1>7, <2>1 DEF Wake
    <2>2. CASE has_input_mode
      <3>1. enterPrecisionTouchpadMode
        BY <1>7, <2>2 DEF Wake
      <3>2. input_mode_id < 15 => lost' \/ mode' = INPUT_MODE_TOUCHPAD
        BY <3>1, ModeIsTaken DEF enterPrecisionTouchpadMode, Byte
      <3>. QED BY <1>7, <2>2, <3>2 DEF Wake
    <2>. QED BY <2>1, <2>2
  <1>8. CASE handlePrecisionReport
    BY <1>8 DEF handlePrecisionReport
  <1>9. CASE Ignored
    BY <1>9 DEF Ignored
  <1>10. CASE UNCHANGED vars
    BY <1>10 DEF vars
  <1>. QED BY <1>1, <1>2, <1>3, <1>4, <1>5, <1>6, <1>7, <1>8, <1>9, <1>10
         DEF PrecisionNext

\* Whatever digitiser, report id and number of lost writes: between power changes a
\* started touchpad whose last write arrived is in touchpad mode
\* (enterPrecisionTouchpadMode, setPowerState).
THEOREM StaysTouchpad == PrecisionSpec => []TouchpadMode
  <1>1. IInv => TouchpadMode
    BY DEF IInv
  <1>. QED BY InitInv, Step, <1>1, PTL DEF PrecisionSpec

-----------------------------------------------------------------------------
(* The frames                                                              *)

\* A touchpad that is not ready has forwarded nothing.
QuietUntilReady ==
    /\ ready \in BOOLEAN /\ ignoring \in BOOLEAN /\ readyForReports \in BOOLEAN
    /\ ~ready => event = None

LEMMA QuietStep == QuietUntilReady /\ [PrecisionNext]_vars => QuietUntilReady'
  <1> SUFFICES ASSUME QuietUntilReady, [PrecisionNext]_vars PROVE QuietUntilReady'
    OBVIOUS
  <1> USE DEF QuietUntilReady, frame_vars, ignore_vars, mode_vars, None
  <1>1. CASE UNCHANGED <<frame_vars, mode_vars>>
    BY <1>1
  <1>2. CASE enterPrecisionTouchpadMode
    BY <1>2 DEF enterPrecisionTouchpadMode
  <1>3. CASE ReadyForReports \/ Ignored
    BY <1>3 DEF ReadyForReports, Started, Ignored, Ignore, Dropping
  <1>4. CASE WakeDevice
    BY <1>4 DEF WakeDevice, DeviceReset
  <1>5. CASE handlePrecisionReport
    <2>1. UNCHANGED <<ignore_vars, ready>>
      BY <1>5 DEF handlePrecisionReport, Report, Frame, NextReport, ForeignReport
    <2>2. ~(Taken /\ ready) => event' = None
      BY <1>5 DEF handlePrecisionReport, Report, Frame, NextReport, ForeignReport, Deliver
    <2>. QED BY <2>1, <2>2
  <1>. QED BY <1>1, <1>2, <1>3, <1>4, <1>5
         DEF PrecisionNext, handleStart, StartsMode, Sleep, SleepDevice, Wake, vars

\* The operators of the refinement's driver are the touchpad's.
LEMMA SameOperators ==
    /\ Frames!fingers = fingers /\ Frames!wrapper_count = wrapper_count
    /\ Frames!Wrappers = Wrappers /\ Frames!None = None /\ Frames!Ids = Ids
    /\ \A f : Frames!Elements(f) = Elements(f) /\ Frames!Complete(f) = Complete(f)
    /\ \A touching, buttons : Frames!NewFrame(touching, buttons) = NewFrame(touching, buttons)
    /\ \A contacts, i : Frames!Slots(contacts, i) = Slots(contacts, i)
    /\ \A count : Frames!FrameStarts(count) = FrameStarts(count)
    /\ \A i, id : Frames!WrapperOf(i, id) = WrapperOf(i, id)
    /\ \A slots : Frames!handleDigitizerTransducerReport(slots)
                    = handleDigitizerTransducerReport(slots)
    /\ \A d : Frames!AfterFrame(d) = AfterFrame(d)
    /\ \A c, contacts : Frames!Rank(c, contacts) = Rank(c, contacts)
    /\ \A S : /\ Frames!Cardinality(S) = Cardinality(S)
              /\ Frames!Max(S) = Max(S) /\ Frames!Min(S) = Min(S)
  <1>0. \A S : /\ Frames!Cardinality(S) = Cardinality(S)
               /\ Frames!Max(S) = Max(S) /\ Frames!Min(S) = Min(S)
    BY DEF Frames!Cardinality, Cardinality, Frames!Max, Max, Frames!Min, Min
  <1>1. Frames!fingers = fingers
    BY <1>0 DEF Frames!fingers, fingers
  <1>2. Frames!wrapper_count = wrapper_count
    BY <1>1 DEF Frames!wrapper_count, wrapper_count
  <1>3. Frames!Wrappers = Wrappers /\ Frames!None = None /\ Frames!Ids = Ids
    BY <1>2 DEF Frames!Wrappers, Wrappers, Frames!None, None, Frames!Ids, Ids
  <1>4. \A c, contacts : Frames!Rank(c, contacts) = Rank(c, contacts)
    BY <1>0 DEF Frames!Rank, Rank
  <1>5. \A contacts, i : Frames!Slots(contacts, i) = Slots(contacts, i)
    <2> TAKE contacts, i
    <2>. DEFINE theirs(r) == {c \in contacts : Frames!Rank(c, contacts) = r}
                ours(r)   == {c \in contacts : Rank(c, contacts) = r}
                rank(s)   == (i - 1) * descriptor.collections + s - 1
    <2>1. \A r : theirs(r) = ours(r)
      BY <1>4
    <2>2. /\ Frames!Slots(contacts, i) = [s \in 1..descriptor.collections |->
                 IF theirs(rank(s)) = {} THEN Blank ELSE CHOOSE c \in theirs(rank(s)) : TRUE]
          /\ Slots(contacts, i) = [s \in 1..descriptor.collections |->
                 IF ours(rank(s)) = {} THEN Blank ELSE CHOOSE c \in ours(rank(s)) : TRUE]
      BY DEF Frames!Slots, Slots, Frames!Blank, Blank
    <2> HIDE DEF theirs, ours, rank
    <2>. QED BY <2>1, <2>2
  <1>6. \A f : Frames!Elements(f) = Elements(f) /\ Frames!Complete(f) = Complete(f)
    BY <1>0, <1>5 DEF Frames!Elements, Elements, Frames!Complete, Complete
  <1>7. \A touching, buttons : Frames!NewFrame(touching, buttons) = NewFrame(touching, buttons)
    BY <1>0 DEF Frames!NewFrame, NewFrame, Frames!CeilDiv, CeilDiv
  <1>8. \A count : Frames!FrameStarts(count) = FrameStarts(count)
    BY <1>1 DEF Frames!FrameStarts, FrameStarts, Frames!CeilDiv, CeilDiv
  <1>9. \A i, id : Frames!WrapperOf(i, id) = WrapperOf(i, id)
    BY <1>1, <1>2, <1>3 DEF Frames!WrapperOf, WrapperOf, Frames!HasWrapper, HasWrapper
  <1>10. /\ \A slots : Frames!handleDigitizerTransducerReport(slots)
                        = handleDigitizerTransducerReport(slots)
         /\ \A d : Frames!AfterFrame(d) = AfterFrame(d)
    BY <1>1 DEF Frames!handleDigitizerTransducerReport, handleDigitizerTransducerReport,
                Frames!AfterFrame, AfterFrame
  <1>. QED BY <1>0, <1>1, <1>2, <1>3, <1>4, <1>5, <1>6, <1>7, <1>8, <1>9, <1>10

\* The multitouch driver of the refinement treats a report that is taken, or is not,
\* in the same way.
LEMMA SameReports ==
    ASSUME UNCHANGED <<ignoring, ready>>, NEW taken, Report(taken)
    PROVE  Frames!Report(taken)
  <1> USE SameOperators
      DEF Frames!driver_vars, driver_vars, Frames!ignore_vars, ignore_vars,
          Frames!device_vars, device_vars
  <1>1. \A report : handleInterruptReport(report) => Frames!handleInterruptReport(report)
    BY DEF handleInterruptReport, Frames!handleInterruptReport,
           handleDigitizerReport, Frames!handleDigitizerReport
  <1>2. \A report : Deliver(report, taken) => Frames!Deliver(report, taken)
    BY <1>1 DEF Deliver, Frames!Deliver
  <1>3. \A n : Forwards(n) => Frames!Forwards(n)
    BY DEF Forwards, Frames!Forwards
  <1>4. \A f : Missed(f, taken) => Frames!Missed(f, taken)
    BY DEF Missed, Frames!Missed
  <1>5. \A touching, buttons : Frame(touching, buttons, taken)
                                 => Frames!Frame(touching, buttons, taken)
    BY <1>2, <1>3, <1>4 DEF Frame, Frames!Frame
  <1>6. NextReport(taken) => Frames!NextReport(taken)
    BY <1>2, <1>3, <1>4 DEF NextReport, Frames!NextReport
  <1>7. ForeignReport(taken) => Frames!ForeignReport(taken)
    BY <1>2, <1>3 DEF ForeignReport, Frames!ForeignReport
  <1>. QED BY <1>5, <1>6, <1>7 DEF Report, Frames!Report

\* A touchpad that starts has a multitouch driver that starts.
LEMMA FramesInit == PrecisionInit => Frames!Init
  BY SameOperators DEF PrecisionInit, Init, Frames!Init, Frames!Blank, Blank

\* Every step is a step of the multitouch driver or leaves it as it is.
LEMMA FramesStep ==
    QuietUntilReady /\ [PrecisionNext]_vars => [Frames!Next]_(Frames!frame_vars)
  <1> SUFFICES ASSUME QuietUntilReady, [PrecisionNext]_vars
               PROVE  Frames!Next \/ UNCHANGED Frames!frame_vars
    OBVIOUS
  <1> USE DEF QuietUntilReady, frame_vars, ignore_vars, driver_vars, device_vars, history_vars,
              Frames!frame_vars, Frames!ignore_vars, Frames!driver_vars,
              Frames!device_vars, Frames!history_vars
  <1>1. CASE UNCHANGED <<frame_vars, mode_vars>>
    BY <1>1 DEF mode_vars
  <1>2. CASE enterPrecisionTouchpadMode
    <2>1. UNCHANGED frame_vars /\ ready' = TRUE
      BY <1>2 DEF enterPrecisionTouchpadMode
    <2>2. CASE ready \/ ignoring
      BY <2>1, <2>2
    <2>3. CASE ~ready /\ ~ignoring
      <3>1. event' = None
        BY <2>1, <2>3
      <3>. QED BY <2>1, <2>3, <3>1, SameOperators DEF Frames!Next, Frames!Ignore, Frames!Dropping
    <2>. QED BY <2>2, <2>3
  <1>3. CASE ReadyForReports
    BY <1>3, SameOperators
    DEF ReadyForReports, Started, Dropping, mode_vars,
        Frames!Next, Frames!Started, Frames!Dropping
  <1>4. CASE Ignored
    BY <1>4, SameOperators
    DEF Ignored, Ignore, Dropping, mode_vars, Frames!Next, Frames!Ignore, Frames!Dropping
  <1>5. CASE WakeDevice
    BY <1>5, SameOperators
    DEF WakeDevice, DeviceReset, Frames!Next, Frames!DeviceReset
  <1>6. CASE handlePrecisionReport
    <2>1. UNCHANGED <<ignoring, ready>>
      BY <1>6 DEF handlePrecisionReport, mode_vars, Report, Frame, NextReport, ForeignReport
    <2>2. Report(Taken /\ ready)
      BY <1>6 DEF handlePrecisionReport, Report
    <2>3. (Taken /\ ready) = Frames!Taken
      BY DEF Taken, Frames!Taken
    <2>. QED BY <2>1, <2>2, <2>3, SameReports DEF Frames!Next
  <1>. QED BY <1>1, <1>2, <1>3, <1>4, <1>5, <1>6
         DEF PrecisionNext, handleStart, StartsMode, Sleep, SleepDevice, Wake, vars

\* What a touchpad adds to the multitouch driver, being ready, its mode, sleep and
\* reset, only drops reports: its frames are the multitouch driver's
\* (enterPrecisionTouchpadMode, handleInterruptReport).
THEOREM FramesAreMultitouch == PrecisionSpec => ImplementsFrames
  <1>1. PrecisionInit => QuietUntilReady
    BY DEF PrecisionInit, Init, QuietUntilReady
  <1>. QED BY <1>1, QuietStep, FramesInit, FramesStep, PTL
         DEF PrecisionSpec, ImplementsFrames, Frames!Spec
=============================================================================
