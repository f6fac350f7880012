------------------ MODULE VoodooI2CMultitouchFrames_proofs ------------------
(***************************************************************************)
(* Proofs about the frames of the multitouch driver, for every digitiser   *)
(* and any number of contacts.  The first sections are about the operators *)
(* of the model: how many reports a frame has, where its contacts are in   *)
(* them, and which wrapper they go to.                                     *)
(***************************************************************************)
EXTENDS VoodooI2CMultitouchFrames, FiniteSetTheorems, TLAPS

N == descriptor.collections
M == descriptor.contact_count_maximum

-----------------------------------------------------------------------------
(* Numbers                                                                 *)

LEMMA CeilFacts ==
    ASSUME NEW a \in Nat, NEW b \in Nat \ {0}
    PROVE  /\ CeilDiv(a, b) \in Nat
           /\ a <= CeilDiv(a, b) * b
           /\ a > 0 => CeilDiv(a, b) > 0 /\ (CeilDiv(a, b) - 1) * b < a
           /\ a > 0 /\ a <= b => CeilDiv(a, b) = 1
           /\ a = 0 => CeilDiv(a, b) = 0
  BY DEF CeilDiv

LEMMA MaxOfTwo ==
    ASSUME NEW a \in Int, NEW b \in Int
    PROVE  Max({a, b}) = IF a <= b THEN b ELSE a
  <1>. DEFINE m == IF a <= b THEN b ELSE a
  <1>1. m \in {a, b} /\ \A y \in {a, b} : m >= y
    OBVIOUS
  <1>2. \A x \in {a, b} : (\A y \in {a, b} : x >= y) => x = m
    OBVIOUS
  <1>. QED BY <1>1, <1>2 DEF Max

LEMMA MinOfTwo ==
    ASSUME NEW a \in Int, NEW b \in Int
    PROVE  Min({a, b}) = IF a <= b THEN a ELSE b
  <1>. DEFINE m == IF a <= b THEN a ELSE b
  <1>1. m \in {a, b} /\ \A y \in {a, b} : m <= y
    OBVIOUS
  <1>2. \A x \in {a, b} : (\A y \in {a, b} : x <= y) => x = m
    BY SMTT(30)
  <1>. QED BY <1>1, <1>2 DEF Min

\* parseElements leaves as many fingers as there are collections, or contacts if
\* these are fewer, and at least one wrapper for them.
LEMMA Geometry ==
    ASSUME descriptor \in Descriptors
    PROVE  /\ N \in 1..255 /\ M \in 1..255
           /\ fingers = IF M < N THEN M ELSE N
           /\ wrapper_count \in 1..255
           /\ wrapper_count * fingers <= M
  <1>1. N \in 1..255 /\ M \in 1..255
    BY DescriptorsAssumption DEF N, M
  <1>2. fingers = IF M < N THEN M ELSE N
    <2>1. CASE ~(M < N)
      BY <2>1 DEF fingers, N, M
    <2>2. CASE M < N
      <3>. DEFINE S == {k \in 1..N : M % k = 0}
      <3>1. fingers = Max(S)
        BY <2>2 DEF fingers, N, M
      <3>2. M \in S
        BY <1>1, <2>2
      <3>3. \A k \in S : k <= M
        BY <1>1
      <3>4. M \in S /\ \A y \in S : M >= y
        BY <1>1, <3>2, <3>3
      <3>5. \A x \in S : (\A y \in S : x >= y) => x = M
        BY <1>1, <3>4
      <3>. QED BY <2>2, <3>1, <3>4, <3>5 DEF Max
    <2>. QED BY <2>1, <2>2
  <1>3. wrapper_count = M \div fingers
    BY DEF wrapper_count, M
  <1>4. \A m, f \in 1..255 : f <= m => m \div f \in 1..255 /\ (m \div f) * f <= m
    OBVIOUS
  <1>. QED BY <1>1, <1>2, <1>3, <1>4

-----------------------------------------------------------------------------
(* Ranks                                                                   *)

\* The contacts of one frame: each of them once, on a surface for max of them.
OneEach(contacts, max) ==
    /\ contacts \subseteq [id : 0..(max - 1), tip : BOOLEAN]
    /\ \A c, d \in contacts : c.id = d.id => c = d

LEMMA BelowOf ==
    ASSUME NEW a \in Int, NEW b \in Int, a <= b
    PROVE  IsFiniteSet(a..(b - 1)) /\ Cardinality(a..(b - 1)) = b - a
  <1>. DEFINE e == b - 1
  <1>1. e \in Int
    OBVIOUS
  <1> HIDE DEF e
  <1>2. IsFiniteSet(a..e) /\ Cardinality(a..e) = IF a > e THEN 0 ELSE e - a + 1
    BY <1>1, FS_Interval
  <1>3. (IF a > e THEN 0 ELSE e - a + 1) = b - a
    BY DEF e
  <1>. QED BY <1>2, <1>3 DEF e

\* There are no more contacts than identifiers, and no more with identifiers from a
\* to b than there are numbers.
LEMMA ContactsAreFinite ==
    ASSUME NEW max \in Nat, NEW contacts, OneEach(contacts, max)
    PROVE  /\ IsFiniteSet(contacts)
           /\ Cardinality(contacts) \in 0..max
           /\ \A a, b \in Int :
                 LET between == {c \in contacts : a <= c.id /\ c.id < b}
                 IN a <= b => Cardinality(between) <= b - a
  <1>1. ASSUME NEW S \in SUBSET contacts, NEW T, \A c \in S : c.id \in T, IsFiniteSet(T)
        PROVE  IsFiniteSet(S) /\ Cardinality(S) <= Cardinality(T)
    <2>. DEFINE f == [c \in S |-> c.id]
    <2>1. f \in Injection(S, T)
      BY <1>1 DEF Injection, IsInjective, OneEach
    <2>. QED BY <1>1, <2>1, FS_Injection
  <1>2. IsFiniteSet(0..(max - 1)) /\ Cardinality(0..(max - 1)) = max
    BY BelowOf
  <1>3. IsFiniteSet(contacts) /\ Cardinality(contacts) <= max
    BY <1>1, <1>2 DEF OneEach
  <1>4. Cardinality(contacts) \in Nat
    BY <1>3, FS_CardinalityType
  <1>5. ASSUME NEW a \in Int, NEW b \in Int, a <= b
        PROVE  Cardinality({c \in contacts : a <= c.id /\ c.id < b}) <= b - a
    <2>1. IsFiniteSet(a..(b - 1)) /\ Cardinality(a..(b - 1)) = b - a
      BY <1>5, BelowOf
    <2>2. \A c \in {d \in contacts : a <= d.id /\ d.id < b} : c.id \in a..(b - 1)
      BY DEF OneEach
    <2>. QED BY <1>1, <2>1, <2>2
  <1>. QED BY <1>3, <1>4, <1>5

\* Contacts are in their order: the ranks are the numbers below the number of
\* contacts, they grow with the identifier, and no faster than it.
LEMMA RankFacts ==
    ASSUME NEW max \in Nat, NEW contacts, OneEach(contacts, max)
    PROVE  /\ \A c \in contacts : Rank(c, contacts) \in 0..(Cardinality(contacts) - 1)
           /\ \A c, d \in contacts : c.id < d.id =>
                 /\ Rank(c, contacts) < Rank(d, contacts)
                 /\ Rank(d, contacts) - Rank(c, contacts) <= d.id - c.id
           /\ \A c, d \in contacts : Rank(c, contacts) = Rank(d, contacts) => c = d
           /\ \A k \in 0..(Cardinality(contacts) - 1) :
                 \E c \in contacts : Rank(c, contacts) = k
  <1>. DEFINE Below(c) == {d \in contacts : d.id < c.id}
              n == Cardinality(contacts)
  <1>0. \A c : Rank(c, contacts) = Cardinality(Below(c))
    BY DEF Rank
  <1>1. IsFiniteSet(contacts) /\ n \in Nat
    BY ContactsAreFinite
  <1>2. \A c \in contacts : c.id \in Int
    BY DEF OneEach
  <1>3. \A c \in contacts : IsFiniteSet(Below(c)) /\ Cardinality(Below(c)) \in Nat
    BY <1>1, FS_Subset, FS_CardinalityType
  <1>4. \A c \in contacts : Cardinality(Below(c)) \in 0..(n - 1)
    <2> TAKE c \in contacts
    <2>1. Below(c) \in SUBSET contacts /\ c \notin Below(c)
      BY <1>2
    <2>2. Cardinality(Below(c)) <= n /\ Cardinality(Below(c)) # n
      BY <1>1, <2>1, FS_Subset
    <2>. QED BY <1>1, <1>3, <2>2
  <1>5. ASSUME NEW c \in contacts, NEW d \in contacts, c.id < d.id
        PROVE  /\ Cardinality(Below(c)) < Cardinality(Below(d))
               /\ Cardinality(Below(d)) - Cardinality(Below(c)) <= d.id - c.id
    <2>. DEFINE between == {e \in contacts : c.id <= e.id /\ e.id < d.id}
    <2>1. Below(d) \ Below(c) = between /\ Below(d) \cap Below(c) = Below(c)
      BY <1>2, <1>5
    <2>2. Cardinality(between) = Cardinality(Below(d)) - Cardinality(Below(c))
      BY <1>3, <2>1, FS_Difference
    <2>3. Cardinality(between) <= d.id - c.id
      BY <1>2, <1>5, ContactsAreFinite
    <2>4. c \in between /\ IsFiniteSet(between)
      BY <1>1, <1>2, <1>5, FS_Subset
    <2>5. Cardinality(between) \in Nat /\ Cardinality(between) # 0
      <3> HIDE DEF between
      <3>. QED BY <2>4, FS_CardinalityType, FS_EmptySet
    <2>. QED BY <1>2, <1>3, <2>2, <2>3, <2>5
  <1>6. \A c, d \in contacts : Cardinality(Below(c)) = Cardinality(Below(d)) => c = d
    <2> TAKE c, d \in contacts
    <2>1. c.id = d.id \/ c.id < d.id \/ d.id < c.id
      BY <1>2
    <2>2. c.id = d.id => c = d
      BY DEF OneEach
    <2> HIDE DEF Below
    <2>3. c.id < d.id => Cardinality(Below(c)) # Cardinality(Below(d))
      BY <1>3, <1>5
    <2>4. d.id < c.id => Cardinality(Below(c)) # Cardinality(Below(d))
      BY <1>3, <1>5
    <2>. QED BY <2>1, <2>2, <2>3, <2>4
  <1>7. \A k \in 0..(n - 1) : \E c \in contacts : Cardinality(Below(c)) = k
    <2>. DEFINE f == [c \in contacts |-> Cardinality(Below(c))]
                T == 0..(n - 1)
    <2>1. f \in Injection(contacts, T)
      <3> HIDE DEF Below, n
      <3>. QED BY <1>4, <1>6 DEF Injection, IsInjective
    <2>2. IsFiniteSet(T) /\ Cardinality(T) = n
      BY <1>1, BelowOf
    <2>3. f \in Surjection(contacts, T)
      <3> HIDE DEF f, T
      <3>. QED BY <2>1, <2>2, FS_Injection
    <2> HIDE DEF n, Below
    <2>. QED BY <2>3 DEF Surjection
  <1> HIDE DEF Below, n
  <1>8. \A c \in contacts : Rank(c, contacts) \in 0..(n - 1)
    BY <1>0, <1>4
  <1>. QED BY <1>0, <1>5, <1>6, <1>7, <1>8 DEF n

-----------------------------------------------------------------------------
(* The invariant                                                           *)

\* How many reports the device needs for its contacts.
Total(contacts) == Max({1, CeilDiv(Cardinality(contacts), N)})

DriverTyped ==
    /\ readyForReports \in BOOLEAN /\ ignoring \in BOOLEAN
    /\ digitiser \in [current_contact_count : 1..255, report_count : 1..255,
                      current_report : 1..255]
    /\ digitiser.current_report <= digitiser.report_count
    /\ transducers \in [Wrappers -> [1..fingers -> [id : Ids, tip : BOOLEAN]]]
    /\ external_buttons \subseteq descriptor.buttons
    /\ event = None \/ event.contact_count \in 1..255

\* A frame, and how much of it has been sent.
IsFrame(f) ==
    /\ f \in [contacts : SUBSET [id : Ids, tip : BOOLEAN], sent : 1..255, total : 1..255,
              buttons : SUBSET descriptor.buttons]
    /\ OneEach(f.contacts, M)
    /\ f.sent <= f.total

DeviceTyped ==
    /\ IsFrame(frame)
    /\ surface \subseteq Ids /\ missed \subseteq Ids
    /\ disturbed \in BOOLEAN /\ forwards \in 0..2

Typed == descriptor \in Descriptors /\ DriverTyped /\ DeviceTyped

\* The device is in the middle of a frame only if it has not been reset since.
WholeUnlessReset ==
    ~Complete(frame) =>
        /\ frame.total = Total(frame.contacts)
        /\ \A c \in frame.contacts : c.tip => c.id \in surface

\* The driver counts an undisturbed frame as the device does.
InStep ==
    ~disturbed =>
        /\ frame.total = Total(frame.contacts)
        /\ IF Complete(frame)
           THEN forwards = 1 /\ digitiser.report_count = 1 /\ digitiser.current_report = 1
           ELSE forwards = 0 /\ digitiser.report_count = frame.total
                             /\ digitiser.current_report = frame.sent + 1
        /\ frame.contacts # {} =>
               digitiser.current_contact_count = Cardinality(frame.contacts)

IInv == Typed /\ WholeUnlessReset /\ InStep

\* The finger collections fill the wrappers of every digitiser.
Divides ==
    \A d \in Descriptors :
        d.collections <= d.contact_count_maximum =>
            d.contact_count_maximum % d.collections = 0

\* So do they of this one, and then it has a wrapper for every report.
Divided ==
    /\ N <= M => M % N = 0
    /\ digitiser.report_count <= wrapper_count

\* The contacts of the i-th report are in the wrapper of the first of them.
Stored(i) ==
    \E first \in frame.contacts :
        /\ Rank(first, frame.contacts) = (i - 1) * N
        /\ \A c \in frame.contacts, s \in 1..fingers :
               Rank(c, frame.contacts) = (i - 1) * N + s - 1 =>
                   transducers[first.id \div fingers][s] = c

StoredSoFar == ~disturbed /\ frame.contacts # {} => \A i \in 1..frame.sent : Stored(i)

\* The tip of a contact is one on the surface, or one whose lift was missed.
TipsAreTold == \A c \in frame.contacts : c.tip => c.id \in surface \cup missed

\* Who has not been sent yet.
Unsent == IF Complete(frame) THEN {}
          ELSE {c.id : c \in {d \in frame.contacts : Rank(d, frame.contacts) >= frame.sent}}

\* All contacts in one wrapper.
OneWrapper ==
    wrapper_count = 1 =>
        \A s \in 1..fingers : transducers[0][s].tip =>
            transducers[0][s].id \in surface \cup missed

\* Each contact in a wrapper of its own.
WrapperEach ==
    N = 1 =>
        \A w \in Wrappers : transducers[w][1].tip =>
            transducers[w][1].id = w /\ w \in surface \cup missed \cup Unsent

\* What is forwarded for an undisturbed frame is the end of it.
EventIsLast ==
    event # None /\ ~disturbed =>
        /\ Complete(frame)
        /\ frame.contacts # {} => event.contact_count = Cardinality(frame.contacts)
        /\ event.external_buttons = frame.buttons

WInv == IInv /\ Divided /\ StoredSoFar /\ EventIsLast
PInv == WInv /\ TipsAreTold /\ OneWrapper /\ WrapperEach

-----------------------------------------------------------------------------
(* Reports                                                                 *)

\* The number of reports of a frame, as the driver counts them too, and as many as
\* there are wrappers at most if the collections divide the contacts.
LEMMA TotalFacts ==
    ASSUME descriptor \in Descriptors, NEW contacts, OneEach(contacts, M)
    PROVE  /\ Total(contacts) \in 1..255
           /\ contacts = {} => Cardinality(contacts) = 0 /\ Total(contacts) = 1
           /\ contacts # {} =>
                 /\ Cardinality(contacts) \in 1..M
                 /\ Total(contacts) = CeilDiv(Cardinality(contacts), fingers)
                 /\ (Total(contacts) - 1) * N < Cardinality(contacts)
                 /\ Cardinality(contacts) <= Total(contacts) * N
  <1>. DEFINE n == Cardinality(contacts)
  <1>1. /\ N \in 1..255 /\ M \in 1..255
        /\ fingers = IF M < N THEN M ELSE N
    BY Geometry
  <1>2. IsFiniteSet(contacts) /\ n \in 0..M
    BY <1>1, ContactsAreFinite
  <1>3. n = 0 <=> contacts = {}
    BY <1>2, FS_EmptySet
  <1> HIDE DEF n
  <1>4. /\ CeilDiv(n, N) \in Nat
        /\ n <= CeilDiv(n, N) * N
        /\ n > 0 => CeilDiv(n, N) > 0 /\ (CeilDiv(n, N) - 1) * N < n
        /\ n = 0 => CeilDiv(n, N) = 0
    <2>1. N \in Nat \ {0} /\ n \in Nat
      BY <1>1, <1>2
    <2>. QED BY <2>1, CeilFacts
  <1>5. Total(contacts) = IF n = 0 THEN 1 ELSE CeilDiv(n, N)
    BY <1>2, <1>4, MaxOfTwo DEF Total, n
  <1>6. n > 0 => CeilDiv(n, fingers) = CeilDiv(n, N)
    <2>1. CASE M < N
      BY <1>1, <1>2, <2>1, CeilFacts
    <2>2. CASE ~(M < N)
      BY <1>1, <2>2
    <2>. QED BY <2>1, <2>2
  <1>7. n > 0 => CeilDiv(n, N) <= n
    <2>1. \A q \in Nat, m \in 1..255 : q > n /\ n > 0 => (q - 1) * m >= n
      BY <1>1, <1>2
    <2>. QED BY <1>1, <1>2, <1>4, <2>1
  <1>8. Total(contacts) \in 1..255
    BY <1>1, <1>2, <1>4, <1>5, <1>7
  <1>. QED BY <1>1, <1>2, <1>3, <1>4, <1>5, <1>6, <1>8 DEF n

\* A slot holds the contact of its rank; there are blanks behind the last.
LEMMA SlotFacts ==
    ASSUME descriptor \in Descriptors, NEW contacts, OneEach(contacts, M), NEW i \in 1..255
    PROVE  /\ Slots(contacts, i) \in [1..N -> [id : Ids, tip : BOOLEAN]]
           /\ \A s \in 1..N :
                 \/ Slots(contacts, i)[s] = Blank
                 \/ /\ Slots(contacts, i)[s] \in contacts
                    /\ Rank(Slots(contacts, i)[s], contacts) = (i - 1) * N + s - 1
           /\ \A c \in contacts, s \in 1..N :
                 Rank(c, contacts) = (i - 1) * N + s - 1 => Slots(contacts, i)[s] = c
  <1>. DEFINE rank(s) == (i - 1) * N + s - 1
              at(s)   == {c \in contacts : Rank(c, contacts) = rank(s)}
  <1>1. N \in 1..255 /\ M \in 1..255
    BY Geometry
  <1>2. Slots(contacts, i) =
            [s \in 1..N |-> IF at(s) = {} THEN Blank ELSE CHOOSE c \in at(s) : TRUE]
    BY DEF Slots, N
  <1>3. contacts \subseteq [id : Ids, tip : BOOLEAN]
    BY DEF OneEach, Ids, M
  <1>4. Blank \in [id : Ids, tip : BOOLEAN]
    BY <1>1 DEF Blank, Ids, M
  <1>5. \A s : at(s) # {} => (CHOOSE c \in at(s) : TRUE) \in at(s)
    OBVIOUS
  <1>6. \A s : at(s) \subseteq contacts /\ \A c \in at(s) : Rank(c, contacts) = rank(s)
    OBVIOUS
  <1>7. \A c, d \in contacts : Rank(c, contacts) = Rank(d, contacts) => c = d
    BY <1>1, RankFacts
  <1>8. \A s, c : c \in contacts /\ Rank(c, contacts) = rank(s) => c \in at(s)
    OBVIOUS
  <1> HIDE DEF at, rank
  <1>9. Slots(contacts, i) \in [1..N -> [id : Ids, tip : BOOLEAN]]
    BY <1>2, <1>3, <1>4, <1>5, <1>6
  <1>10. \A s \in 1..N :
             \/ Slots(contacts, i)[s] = Blank
             \/ /\ Slots(contacts, i)[s] \in contacts
                /\ Rank(Slots(contacts, i)[s], contacts) = rank(s)
    BY <1>2, <1>5, <1>6
  <1>11. \A c \in contacts, s \in 1..N :
             Rank(c, contacts) = rank(s) => Slots(contacts, i)[s] = c
    BY <1>2, <1>5, <1>6, <1>7, <1>8
  <1>. QED BY <1>9, <1>10, <1>11 DEF rank

\* What a report with a count starts: the 8 bits of the counters are enough.
LEMMA StartFacts ==
    ASSUME descriptor \in Descriptors, DriverTyped, NEW count \in 0..M
    PROVE  /\ FrameStarts(count) \in [current_contact_count : 1..255, report_count : 1..255,
                                      current_report : 1..255]
           /\ FrameStarts(count).current_report <= FrameStarts(count).report_count
           /\ count = 0 => FrameStarts(count) = digitiser
           /\ count # 0 =>
                 FrameStarts(count) = [current_contact_count |-> count, current_report |-> 1,
                                       report_count |-> CeilDiv(count, fingers)]
  <1>1. M \in 1..255 /\ fingers \in Nat \ {0}
    BY Geometry
  <1>2. CASE count = 0
    BY <1>2 DEF FrameStarts, DriverTyped
  <1>3. CASE count # 0
    <2>. DEFINE q == CeilDiv(count, fingers)
    <2>1. q \in Nat /\ q > 0 /\ (q - 1) * fingers < count
      BY <1>1, <1>3, CeilFacts
    <2> HIDE DEF q
    <2>2. q <= count
      <3>1. \A p \in Nat, f \in Nat \ {0} : p > count => (p - 1) * f >= count
        BY <1>1
      <3>. QED BY <1>1, <2>1, <3>1
    <2>3. q \in 1..255 /\ q % 256 = q
      BY <1>1, <2>1, <2>2
    <2>4. FrameStarts(count) = [current_contact_count |-> count, current_report |-> 1,
                                report_count |-> q % 256]
      BY <1>3 DEF FrameStarts, q
    <2>. QED BY <1>1, <1>3, <2>3, <2>4 DEF q
  <1>. QED BY <1>2, <1>3

\* If the collections divide the contacts, a report is for the wrapper its first
\* contact has by its identifier.
LEMMA WrapperFacts ==
    ASSUME descriptor \in Descriptors, N <= M => M % N = 0,
           NEW i \in 1..wrapper_count, NEW id \in Ids
    PROVE  /\ id \div fingers \in Wrappers
           /\ WrapperOf(i, id) = {id \div fingers}
           /\ wrapper_count * fingers = M
  <1>1. /\ N \in 1..255 /\ M \in 1..255 /\ wrapper_count \in 1..255
        /\ fingers = IF M < N THEN M ELSE N
    BY Geometry
  <1>2. wrapper_count = M \div fingers /\ id \in 0..(M - 1)
    BY DEF wrapper_count, M, Ids
  <1>3. M % fingers = 0 /\ fingers \in 1..255 /\ id \in 0..254 /\ id < M
    <2>1. M % M = 0
      BY <1>1
    <2>. QED BY <1>1, <1>2, <2>1
  <1>4. \A m, f \in 1..255 : m % f = 0 => (m \div f) * f = m
    OBVIOUS
  <1>5. \A m, f \in 1..255, x \in 0..254 : x < m /\ m % f = 0 => x \div f < m \div f
    OBVIOUS
  <1>6. \A f \in 1..255, x \in 0..254 :
            x \div f \in 0..254 /\ (x + f) \div f - 1 = x \div f
    OBVIOUS
  <1>7. wrapper_count * fingers = M /\ id \div fingers \in 0..(wrapper_count - 1)
    <2>1. wrapper_count * fingers = M
      BY <1>1, <1>2, <1>3, <1>4
    <2>2. id \div fingers < M \div fingers
      <3>1. id \in 0..254 /\ fingers \in 1..255 /\ M \in 1..255 /\ id < M /\ M % fingers = 0
        BY <1>1, <1>3, SMTT(30)
      <3>. QED BY ONLY <3>1, <1>5
    <2>3. id \div fingers \in 0..254
      BY <1>3, <1>6, ZenonT(30)
    <2>. QED BY <1>1, <1>2, <2>1, <2>2, <2>3
  <1>8. ((id + fingers) \div fingers - 1) % 256 = id \div fingers
    <2>1. (id + fingers) \div fingers - 1 = id \div fingers /\ id \div fingers \in 0..254
      BY <1>3, <1>6, ZenonT(30)
    <2>2. \A x \in 0..254 : x % 256 = x
      OBVIOUS
    <2>. QED BY <2>1, <2>2
  <1>9. i - 1 \in Wrappers /\ HasWrapper(id \div fingers)
    BY <1>1, <1>7 DEF Wrappers, HasWrapper
  <1>. QED BY <1>7, <1>8, <1>9 DEF Wrappers, WrapperOf

\* Contacts a report apart have different wrappers.
LEMMA WrappersDiffer ==
    ASSUME NEW f \in Nat \ {0}, NEW a \in Nat, NEW b \in Nat, b - a >= f
    PROVE  a \div f # b \div f
  OBVIOUS

\* Reports as the device sends them.
Reports == [contact_count : 0..M, slots : [1..N -> [id : Ids, tip : BOOLEAN]],
            buttons : SUBSET descriptor.buttons]

\* Nothing that depends on the descriptor changes.
LEMMA SameDescriptor ==
    ASSUME UNCHANGED descriptor
    PROVE  /\ N' = N /\ M' = M /\ Ids' = Ids /\ Wrappers' = Wrappers
           /\ fingers' = fingers /\ wrapper_count' = wrapper_count
           /\ Total(frame.contacts)' = Total(frame'.contacts)
  <1>1. N' = N /\ M' = M
    BY DEF N, M
  <1>2. fingers' = fingers
    BY DEF fingers
  <1>3. wrapper_count' = wrapper_count
    BY <1>2 DEF wrapper_count
  <1>. QED BY <1>1, <1>2, <1>3 DEF Ids, Wrappers, Total

\* The counters after a report: one that is the last of its frame forwards it.
LEMMA HandleCounts ==
    ASSUME descriptor \in Descriptors, DriverTyped, NEW report \in Reports,
           handleInterruptReport(report)
    PROVE  LET started == FrameStarts(report.contact_count) IN
           /\ digitiser' \in [current_contact_count : 1..255, report_count : 1..255,
                              current_report : 1..255]
           /\ digitiser'.current_report <= digitiser'.report_count
           /\ digitiser'.current_contact_count = started.current_contact_count
           /\ started.current_report = started.report_count =>
                 /\ event' # None /\ event'.contact_count = started.current_contact_count
                 /\ event'.external_buttons = external_buttons'
                 /\ digitiser'.report_count = 1 /\ digitiser'.current_report = 1
           /\ started.current_report # started.report_count =>
                 /\ event' = None
                 /\ digitiser'.report_count = started.report_count
                 /\ digitiser'.current_report = started.current_report + 1
  <1>. DEFINE started == FrameStarts(report.contact_count)
              Counters == [current_contact_count : 1..255, report_count : 1..255,
                           current_report : 1..255]
              Counts ==
                  /\ digitiser' \in Counters
                  /\ digitiser'.current_report <= digitiser'.report_count
                  /\ digitiser'.current_contact_count = started.current_contact_count
              Ends ==
                  /\ event' # None /\ event'.contact_count = started.current_contact_count
                  /\ event'.external_buttons = external_buttons'
                  /\ digitiser'.report_count = 1 /\ digitiser'.current_report = 1
              GoesOn ==
                  /\ event' = None
                  /\ digitiser'.report_count = started.report_count
                  /\ digitiser'.current_report = started.current_report + 1
  <1>1. started \in Counters /\ started.current_report <= started.report_count
    BY StartFacts DEF Reports
  <1>2. ASSUME started.current_report = started.report_count PROVE Counts /\ Ends
    <2>. DEFINE middle == [started EXCEPT !.report_count = 1]
    <2>1. digitiser' = [middle EXCEPT !.current_report = 1]
      BY <1>2 DEF handleInterruptReport, AfterFrame
    <2>2. event' = [contact_count |-> started.current_contact_count,
                    external_buttons |-> external_buttons']
      BY <1>2 DEF handleInterruptReport
    <2> HIDE DEF started
    <2>3. /\ middle \in Counters /\ middle.report_count = 1
          /\ middle.current_contact_count = started.current_contact_count
      BY <1>1
    <2> HIDE DEF middle
    <2>4. /\ digitiser' \in Counters
          /\ digitiser'.report_count = 1 /\ digitiser'.current_report = 1
          /\ digitiser'.current_contact_count = started.current_contact_count
      BY <2>1, <2>3
    <2>5. event'.contact_count # None.contact_count
      BY <1>1, <2>2 DEF None
    <2>6. /\ event'.contact_count = started.current_contact_count
          /\ event'.external_buttons = external_buttons'
      BY <2>2
    <2>. QED BY <2>4, <2>5, <2>6
  <1>3. ASSUME started.current_report # started.report_count PROVE Counts /\ GoesOn
    <2>1. digitiser' = [started EXCEPT !.current_report = (@ + 1) % 256] /\ event' = None
      BY <1>3 DEF handleInterruptReport
    <2>2. (started.current_report + 1) % 256 = started.current_report + 1
      BY <1>1, <1>3
    <2> HIDE DEF started
    <2>3. /\ digitiser' \in Counters
          /\ digitiser'.report_count = started.report_count
          /\ digitiser'.current_report = started.current_report + 1
          /\ digitiser'.current_contact_count = started.current_contact_count
      BY <1>1, <1>3, <2>1, <2>2
    <2>a. /\ started.current_report \in Int /\ started.report_count \in Int
          /\ started.current_report <= started.report_count
          /\ started.current_report # started.report_count
      BY <1>1, <1>3
    <2>b. \A n, t \in Int : n <= t /\ n # t => n + 1 <= t
      OBVIOUS
    <2>4. digitiser'.current_report <= digitiser'.report_count
      BY <2>3, <2>a, <2>b
    <2>. QED BY <2>1, <2>3, <2>4
  <1>. QED BY <1>2, <1>3

\* The driver keeps to its types whatever a report has in it.
LEMMA DeliverTyped ==
    ASSUME descriptor \in Descriptors, UNCHANGED <<descriptor, ignore_vars>>, DriverTyped,
           NEW report \in Reports, NEW taken, Deliver(report, taken)
    PROVE  DriverTyped'
  <1>. DEFINE started == FrameStarts(report.contact_count)
              wrapper == WrapperOf(started.current_report, report.slots[1].id)
              copied  == handleDigitizerTransducerReport(report.slots)
  <1> USE DEF ignore_vars
  <1>1. /\ N' = N /\ M' = M /\ Ids' = Ids /\ Wrappers' = Wrappers
        /\ fingers' = fingers /\ wrapper_count' = wrapper_count
    BY SameDescriptor
  <1>2. CASE ~taken
    <2>1. event' = None /\ UNCHANGED driver_vars
      BY <1>2 DEF Deliver
    <2>. QED BY <1>1, <2>1 DEF DriverTyped, driver_vars, None
  <1>3. CASE handleInterruptReport(report)
    <2>1. started.current_contact_count \in 1..255
      BY StartFacts DEF Reports
    <2>2. copied \in [1..fingers -> [id : Ids, tip : BOOLEAN]]
      <3>1. \A k \in 1..fingers : k \in 1..N
        BY Geometry, SMTT(30)
      <3>. QED BY <3>1 DEF handleDigitizerTransducerReport, Reports
    <2>3. transducers' = [w \in Wrappers |-> IF w \in wrapper THEN copied ELSE transducers[w]]
      BY <1>3 DEF handleInterruptReport, handleDigitizerReport
    <2>4. transducers' \in [Wrappers -> [1..fingers -> [id : Ids, tip : BOOLEAN]]]
      <3> HIDE DEF wrapper, copied
      <3>. QED BY <2>2, <2>3 DEF DriverTyped
    <2>5. external_buttons' \subseteq descriptor.buttons
      BY <1>3 DEF handleInterruptReport, handleDigitizerReport, DriverTyped, Reports
    <2>6. /\ event' = None \/ event'.contact_count \in 1..255
          /\ digitiser' \in [current_contact_count : 1..255, report_count : 1..255,
                             current_report : 1..255]
          /\ digitiser'.current_report <= digitiser'.report_count
      <3> HIDE DEF started
      <3>. QED BY <1>3, <2>1, HandleCounts DEF started
    <2>7. external_buttons' \subseteq descriptor'.buttons
      BY <2>5
    <2>8. readyForReports' \in BOOLEAN /\ ignoring' \in BOOLEAN
      BY DEF DriverTyped
    <2>9. None' = None
      BY DEF None
    <2>. QED BY <1>1, <2>4, <2>6, <2>7, <2>8, <2>9 DEF DriverTyped
  <1>. QED BY <1>2, <1>3 DEF Deliver

\* A new frame has everybody who touches, and everybody who did.
LEMMA NewFrameFacts ==
    ASSUME descriptor \in Descriptors, surface \subseteq Ids,
           NEW touching \in SUBSET Ids, NEW buttons \in SUBSET descriptor.buttons
    PROVE  LET f == NewFrame(touching, buttons) IN
           /\ IsFrame(f)
           /\ f.sent = 1 /\ f.total = Total(f.contacts) /\ f.buttons = buttons
           /\ \A c \in f.contacts : c.id \in surface \cup touching
           /\ \A c \in f.contacts : c.tip <=> c.id \in touching
           /\ \A i \in surface \cup touching : \E c \in f.contacts : c.id = i
  <1>. DEFINE contacts == {[id |-> i, tip |-> i \in touching] : i \in surface \cup touching}
              f == NewFrame(touching, buttons)
  <1>1. /\ f = [contacts |-> contacts, buttons |-> buttons, sent |-> 1,
                total |-> Total(contacts)]
    BY DEF NewFrame, Total, N
  <1>. DEFINE contact(i) == [id |-> i, tip |-> i \in touching]
  <1>2. /\ \A i : contact(i).id = i /\ contact(i).tip = (i \in touching)
        /\ \A i \in Ids : contact(i) \in [id : Ids, tip : BOOLEAN]
    OBVIOUS
  <1>3. contacts = {contact(i) : i \in surface \cup touching}
    OBVIOUS
  <1> HIDE DEF contact, contacts
  <1>4. /\ \A c \in contacts : c.id \in surface \cup touching
        /\ \A c \in contacts : c.tip <=> c.id \in touching
        /\ \A i \in surface \cup touching : \E c \in contacts : c.id = i
        /\ \A c, d \in contacts : c.id = d.id => c = d
        /\ contacts \subseteq [id : Ids, tip : BOOLEAN]
    BY <1>2, <1>3
  <1>5. OneEach(contacts, M)
    BY <1>4 DEF OneEach, Ids, M
  <1>6. Total(contacts) \in 1..255
    BY <1>5, TotalFacts
  <1> HIDE DEF f
  <1>7. IsFrame(f)
    BY <1>1, <1>4, <1>5, <1>6 DEF IsFrame
  <1>. QED BY <1>1, <1>4, <1>7 DEF f

\* The element values are a report.
LEMMA ElementsFacts ==
    ASSUME descriptor \in Descriptors, NEW f, IsFrame(f)
    PROVE  /\ Elements(f) \in Reports
           /\ Elements(f).slots = Slots(f.contacts, f.sent)
           /\ Elements(f).contact_count = IF f.sent = 1 THEN Cardinality(f.contacts) ELSE 0
           /\ Elements(f).buttons = f.buttons
  <1>1. Elements(f) = [contact_count |-> IF f.sent = 1 THEN Cardinality(f.contacts) ELSE 0,
                       slots |-> Slots(f.contacts, f.sent), buttons |-> f.buttons]
    BY DEF Elements
  <1>2. M \in 1..255
    BY Geometry
  <1>3. Cardinality(f.contacts) \in 0..M
    <2>1. M \in Nat /\ OneEach(f.contacts, M)
      BY <1>2 DEF IsFrame
    <2>. QED BY <2>1, ContactsAreFinite
  <1>4. Slots(f.contacts, f.sent) \in [1..N -> [id : Ids, tip : BOOLEAN]]
    BY SlotFacts DEF IsFrame
  <1>. QED BY <1>1, <1>2, <1>3, <1>4 DEF Reports, IsFrame

\* The next report of a frame that is not over is one of it.
LEMMA NextReportFacts ==
    ASSUME descriptor \in Descriptors, IsFrame(frame), ~Complete(frame)
    PROVE  LET f == [frame EXCEPT !.sent = @ + 1] IN
           /\ IsFrame(f) /\ f.sent = frame.sent + 1 /\ f.sent > 1
           /\ f.contacts = frame.contacts /\ f.total = frame.total /\ f.buttons = frame.buttons
  <1>a. frame.sent \in 1..255 /\ frame.total \in 1..255 /\ frame.sent <= frame.total
    BY DEF IsFrame
  <1>b. frame.sent # frame.total
    BY DEF Complete
  <1>c. \A n, t \in 1..255 : n <= t /\ n # t => n + 1 \in 1..255 /\ n + 1 <= t
    BY SMTT(30)
  <1>1. frame.sent + 1 \in 1..255 /\ frame.sent + 1 <= frame.total
    BY <1>a, <1>b, <1>c
  <1>. QED BY <1>1 DEF IsFrame

\* Who is told is on the surface, or was.
LEMMA MissedFacts ==
    ASSUME NEW f, IsFrame(f), missed \subseteq Ids, NEW taken, Missed(f, taken)
    PROVE  missed' \subseteq Ids
  <1>1. \A c \in f.contacts : c.id \in Ids
    BY DEF IsFrame
  <1>. QED BY <1>1 DEF Missed

LEMMA ForwardsFacts ==
    ASSUME NEW n \in 0..2, Forwards(n)
    PROVE  /\ forwards' \in 0..2
           /\ event' = None => forwards' = n
           /\ event' # None /\ n = 0 => forwards' = 1
  BY MinOfTwo DEF Forwards

\* Every step keeps the types.
LEMMA TypedStep == Typed /\ [Next]_frame_vars => Typed'
  <1> SUFFICES ASSUME Typed, [Next]_frame_vars PROVE Typed'
    OBVIOUS
  <1>0. descriptor \in Descriptors /\ DriverTyped /\ DeviceTyped
    BY DEF Typed
  <1>1. ASSUME UNCHANGED descriptor, NEW f, IsFrame(f), frame' = f, surface' \subseteq Ids,
               missed' \subseteq Ids, disturbed' \in BOOLEAN, forwards' \in 0..2
        PROVE  DeviceTyped'
    <2>1. IsFrame(f)' = IsFrame(f')
      BY <1>1, SameDescriptor DEF IsFrame
    <2>. QED BY <1>1, SameDescriptor DEF DeviceTyped, IsFrame
  <1>2. ASSUME NEW taken \in BOOLEAN, Report(taken)
        PROVE  Typed'
    <2>1. ASSUME NEW touching \in SUBSET Ids, NEW buttons \in SUBSET descriptor.buttons,
                 Frame(touching, buttons, taken)
          PROVE  Typed'
      <3>. DEFINE f == NewFrame(touching, buttons)
      <3>1. IsFrame(f)
        BY <1>0, NewFrameFacts DEF DeviceTyped
      <3>2. Elements(f) \in Reports
        BY <1>0, <3>1, ElementsFacts
      <3>3. Deliver(Elements(f), taken) /\ UNCHANGED <<descriptor, ignore_vars>>
        BY <2>1 DEF Frame
      <3>4. DriverTyped'
        BY <1>0, <3>2, <3>3, DeliverTyped
      <3>5. missed' \subseteq Ids /\ forwards' \in 0..2 /\ disturbed' \in BOOLEAN
        BY <1>0, <2>1, <3>1, MissedFacts, ForwardsFacts DEF Frame, DeviceTyped
      <3>6. DeviceTyped'
        BY <1>1, <2>1, <3>1, <3>5 DEF Frame
      <3>. QED BY <1>0, <3>3, <3>4, <3>6 DEF Typed
    <2>2. CASE NextReport(taken)
      <3>. DEFINE f == [frame EXCEPT !.sent = @ + 1]
      <3>1. IsFrame(f)
        BY <1>0, <2>2, NextReportFacts DEF DeviceTyped, NextReport
      <3>2. Elements(f) \in Reports
        BY <1>0, <3>1, ElementsFacts
      <3>3. Deliver(Elements(f), taken) /\ UNCHANGED <<descriptor, ignore_vars, surface>>
        BY <2>2 DEF NextReport
      <3>4. DriverTyped'
        BY <1>0, <3>2, <3>3, DeliverTyped
      <3>5. missed' \subseteq Ids /\ forwards' \in 0..2 /\ disturbed' \in BOOLEAN
        BY <1>0, <2>2, <3>1, MissedFacts, ForwardsFacts DEF NextReport, DeviceTyped
      <3>6. DeviceTyped'
        BY <1>0, <1>1, <2>2, <3>1, <3>3, <3>5 DEF NextReport, DeviceTyped
      <3>. QED BY <1>0, <3>3, <3>4, <3>6 DEF Typed
    <2>3. CASE ForeignReport(taken)
      <3>1. IsFrame(frame) /\ Elements(frame) \in Reports
        BY <1>0, ElementsFacts DEF DeviceTyped
      <3>2. Deliver(Elements(frame), taken)
            /\ UNCHANGED <<descriptor, ignore_vars, device_vars, missed>>
        BY <2>3 DEF ForeignReport
      <3>3. DriverTyped'
        BY <1>0, <3>1, <3>2, DeliverTyped
      <3>4. forwards' \in 0..2 /\ disturbed' \in BOOLEAN
        BY <1>0, <2>3, ForwardsFacts DEF ForeignReport, DeviceTyped
      <3>5. DeviceTyped'
        BY <1>0, <1>1, <3>1, <3>2, <3>4 DEF DeviceTyped, device_vars
      <3>. QED BY <1>0, <3>2, <3>3, <3>5 DEF Typed
    <2>. QED BY <1>2, <2>1, <2>2, <2>3 DEF Report
  <1>3. CASE DeviceReset
    <2>1. UNCHANGED <<descriptor, ignore_vars, driver_vars, forwards>> /\ event' = None
      BY <1>3 DEF DeviceReset
    <2>2. DriverTyped'
      BY <1>0, <2>1, SameDescriptor DEF DriverTyped, driver_vars, ignore_vars, None
    <2>3. IsFrame([frame EXCEPT !.total = frame.sent])
      BY <1>0 DEF DeviceTyped, IsFrame
    <2>4. missed' \subseteq Ids
      <3>1. \A c \in frame.contacts : c.id \in Ids
        BY <1>0 DEF DeviceTyped, IsFrame
      <3>. QED BY <1>0, <1>3, <3>1 DEF DeviceReset, DeviceTyped
    <2>5. DeviceTyped'
      BY <1>0, <1>1, <1>3, <2>1, <2>3, <2>4 DEF DeviceReset, DeviceTyped
    <2>. QED BY <1>0, <2>1, <2>2, <2>5 DEF Typed
  <1>4. CASE Started \/ Ignore \/ UNCHANGED frame_vars
    <2>1. UNCHANGED <<descriptor, driver_vars, device_vars, history_vars>>
          /\ (event' = None \/ event' = event)
          /\ readyForReports' \in BOOLEAN /\ ignoring' \in BOOLEAN
      BY <1>0, <1>4 DEF Started, Ignore, Dropping, frame_vars, ignore_vars, DriverTyped
    <2>2. DriverTyped'
      BY <1>0, <2>1, SameDescriptor DEF DriverTyped, driver_vars, None
    <2>3. DeviceTyped'
      BY <1>0, <1>1, <2>1 DEF DeviceTyped, device_vars, history_vars
    <2>. QED BY <1>0, <2>1, <2>2, <2>3 DEF Typed
  <1>5. Taken \in BOOLEAN
    BY <1>0 DEF Taken, DriverTyped
  <1>. QED BY <1>2, <1>3, <1>4, <1>5 DEF Next

-----------------------------------------------------------------------------
(* Counting                                                                *)

\* A report the driver takes leaves it in step with the device.
LEMMA InStepReport ==
    ASSUME Typed, WholeUnlessReset, InStep, NEW taken \in BOOLEAN, Report(taken)
    PROVE  WholeUnlessReset' /\ InStep'
  <1>0. descriptor \in Descriptors /\ DriverTyped /\ IsFrame(frame) /\ surface \subseteq Ids
    BY DEF Typed, DeviceTyped
  <1>1. UNCHANGED descriptor
    BY DEF Report, Frame, NextReport, ForeignReport
  <1>2. Total(frame.contacts)' = Total(frame'.contacts)
    BY <1>1, SameDescriptor
  <1>3. ASSUME NEW touching \in SUBSET Ids, NEW buttons \in SUBSET descriptor.buttons,
               Frame(touching, buttons, taken)
        PROVE  WholeUnlessReset' /\ InStep'
    <2>. DEFINE f == NewFrame(touching, buttons)
                n == Cardinality(f.contacts)
                started == FrameStarts(Elements(f).contact_count)
    <2>1. /\ IsFrame(f) /\ f.sent = 1 /\ f.total = Total(f.contacts)
          /\ \A c \in f.contacts : c.tip <=> c.id \in touching
      BY <1>0, NewFrameFacts
    <2>2. frame' = f /\ surface' = touching /\ Complete(frame)
      BY <1>3 DEF Frame
    <2>3. Elements(f) \in Reports /\ Elements(f).contact_count = n
      BY <1>0, <2>1, ElementsFacts
    <2>4. /\ f.contacts = {} => n = 0 /\ Total(f.contacts) = 1
          /\ f.contacts # {} => n \in 1..M /\ Total(f.contacts) = CeilDiv(n, fingers)
      BY <1>0, <2>1, TotalFacts DEF IsFrame
    <2> HIDE DEF f
    <2>5. WholeUnlessReset'
      BY <1>2, <2>1, <2>2 DEF WholeUnlessReset, Complete
    <2>6. CASE disturbed'
      BY <2>5, <2>6 DEF InStep
    <2>7. CASE ~disturbed'
      <3>1. taken /\ (f.contacts = {} => ~disturbed)
        BY <1>3, <2>7 DEF Frame, f
      <3>2. handleInterruptReport(Elements(f)) /\ Forwards(0)
        BY <1>3, <3>1 DEF Frame, Deliver, f
      <3>3. /\ started.current_report = 1 /\ started.report_count = Total(f.contacts)
            /\ f.contacts # {} => started.current_contact_count = n
        <4>1. CASE f.contacts = {}
          <5>1. started = digitiser
            BY <1>0, <2>3, <2>4, <4>1, StartFacts DEF Reports
          <5>. QED BY <2>2, <2>4, <3>1, <4>1, <5>1 DEF InStep
        <4>2. CASE f.contacts # {}
          <5>1. started = [current_contact_count |-> n, current_report |-> 1,
                           report_count |-> CeilDiv(n, fingers)]
            <6>1. n \in 0..M /\ n # 0
              BY <2>3, <2>4, <4>2 DEF Reports
            <6>. QED BY <1>0, <2>3, <6>1, StartFacts
          <5>. QED BY <2>4, <4>2, <5>1
        <4>. QED BY <4>1, <4>2
      <3>4. /\ f.contacts # {} => digitiser'.current_contact_count = n
            /\ 1 = Total(f.contacts) => /\ event' # None
                                        /\ digitiser'.report_count = 1
                                        /\ digitiser'.current_report = 1
            /\ 1 # Total(f.contacts) => /\ event' = None
                                        /\ digitiser'.report_count = Total(f.contacts)
                                        /\ digitiser'.current_report = 1 + 1
        <4> HIDE DEF started, n
        <4>. QED BY <1>0, <2>3, <3>2, <3>3, HandleCounts DEF started
      <3>5. forwards' = IF Total(f.contacts) = 1 THEN 1 ELSE 0
        BY <3>2, <3>4, ForwardsFacts
      <3>6. Complete(frame)' <=> Total(f.contacts) = 1
        BY <2>1, <2>2 DEF Complete
      <3> HIDE DEF n
      <3>. QED BY <1>2, <2>1, <2>2, <2>5, <3>4, <3>5, <3>6 DEF InStep, n
    <2>. QED BY <2>6, <2>7
  <1>4. CASE NextReport(taken)
    <2>. DEFINE f == [frame EXCEPT !.sent = @ + 1]
                started == FrameStarts(Elements(f).contact_count)
    <2>1. /\ IsFrame(f) /\ f.sent = frame.sent + 1 /\ f.sent > 1
          /\ f.contacts = frame.contacts /\ f.total = frame.total
          /\ ~Complete(frame) /\ frame' = f /\ UNCHANGED surface
      BY <1>0, <1>4, NextReportFacts DEF NextReport
    <2> HIDE DEF f
    <2>2. WholeUnlessReset'
      BY <1>2, <2>1 DEF WholeUnlessReset, Complete
    <2>3. CASE disturbed'
      BY <2>2, <2>3 DEF InStep
    <2>4. CASE ~disturbed'
      <3>1. taken /\ ~disturbed
        BY <1>4, <2>4 DEF NextReport
      <3>2. handleInterruptReport(Elements(f)) /\ Forwards(0)
        BY <1>4, <2>1, <3>1 DEF NextReport, Deliver, f, InStep
      <3>3. Elements(f) \in Reports /\ Elements(f).contact_count = 0
        BY <1>0, <2>1, ElementsFacts
      <3>4. started = digitiser
        BY <1>0, <3>3, StartFacts DEF Reports
      <3>5. /\ digitiser.report_count = frame.total
            /\ digitiser.current_report = f.sent
            /\ frame.total = Total(frame.contacts)
            /\ frame.contacts # {} =>
                   digitiser.current_contact_count = Cardinality(frame.contacts)
        BY <2>1, <3>1 DEF InStep
      <3>6. /\ digitiser'.current_contact_count = digitiser.current_contact_count
            /\ f.sent = f.total => /\ event' # None
                                   /\ digitiser'.report_count = 1
                                   /\ digitiser'.current_report = 1
            /\ f.sent # f.total => /\ event' = None
                                   /\ digitiser'.report_count = f.total
                                   /\ digitiser'.current_report = f.sent + 1
        BY <1>0, <2>1, <3>2, <3>3, <3>4, <3>5, HandleCounts
      <3>7. forwards' = IF f.sent = f.total THEN 1 ELSE 0
        BY <3>2, <3>6, ForwardsFacts
      <3>. QED BY <1>2, <2>1, <2>2, <3>5, <3>6, <3>7 DEF InStep, Complete
    <2>. QED BY <2>3, <2>4
  <1>5. CASE ForeignReport(taken)
    <2>1. UNCHANGED <<frame, surface>> /\ Forwards(forwards) /\ forwards \in 0..2
      BY <1>5 DEF ForeignReport, device_vars, Typed, DeviceTyped
    <2>2. WholeUnlessReset'
      BY <1>2, <2>1 DEF WholeUnlessReset, Complete
    <2>3. CASE disturbed'
      BY <2>2, <2>3 DEF InStep
    <2>4. CASE ~disturbed'
      <3>1. ~disturbed /\ event' = None /\ UNCHANGED digitiser
        BY <1>5, <2>4 DEF ForeignReport, Deliver, driver_vars
      <3>2. forwards' = forwards
        BY <2>1, <3>1, ForwardsFacts
      <3>. QED BY <1>2, <2>1, <2>2, <3>1, <3>2 DEF InStep, Complete
    <2>. QED BY <2>3, <2>4
  <1>. QED BY <1>3, <1>4, <1>5 DEF Report

LEMMA InvStep == IInv /\ [Next]_frame_vars => IInv'
  <1> SUFFICES ASSUME IInv, [Next]_frame_vars PROVE IInv'
    OBVIOUS
  <1>0. Typed /\ WholeUnlessReset /\ InStep /\ Typed'
    BY TypedStep DEF IInv
  <1>1. ASSUME Report(Taken) PROVE WholeUnlessReset' /\ InStep'
    <2>1. Taken \in BOOLEAN
      BY <1>0 DEF Taken, Typed, DriverTyped
    <2>. QED BY <1>0, <1>1, <2>1, InStepReport
  <1>2. ASSUME DeviceReset PROVE WholeUnlessReset' /\ InStep'
    <2>1. disturbed' = TRUE /\ Complete(frame)'
      BY <1>0, <1>2 DEF DeviceReset, Complete, Typed, DeviceTyped, IsFrame
    <2>. QED BY <2>1 DEF WholeUnlessReset, InStep
  <1>3. ASSUME Started \/ Ignore \/ UNCHANGED frame_vars
        PROVE  WholeUnlessReset' /\ InStep'
    <2>1. UNCHANGED <<descriptor, digitiser, frame, surface, disturbed, forwards>>
      BY <1>3 DEF Started, Ignore, Dropping, frame_vars, driver_vars, device_vars, history_vars
    <2>2. Total(frame.contacts)' = Total(frame.contacts)
      BY <2>1, SameDescriptor
    <2>. QED BY <1>0, <2>1, <2>2 DEF WholeUnlessReset, InStep, Complete
  <1>. QED BY <1>0, <1>1, <1>2, <1>3 DEF Next, IInv

LEMMA InitInv == Init => IInv
  <1> SUFFICES ASSUME Init PROVE IInv
    OBVIOUS
  <1>1. descriptor \in Descriptors /\ M \in 1..255
    BY Geometry DEF Init
  <1>2. OneEach({}, M) /\ IsFrame(frame) /\ Complete(frame)
    BY <1>1 DEF Init, OneEach, IsFrame, Complete
  <1>3. Blank \in [id : Ids, tip : BOOLEAN]
    BY <1>1 DEF Blank, Ids, M
  <1>4. DriverTyped
    <2>1. transducers \in [Wrappers -> [1..fingers -> [id : Ids, tip : BOOLEAN]]]
      BY <1>3 DEF Init
    <2>2. readyForReports \in BOOLEAN /\ ignoring \in BOOLEAN
      BY DEF Init
    <2>3. /\ digitiser \in [current_contact_count : 1..255, report_count : 1..255,
                            current_report : 1..255]
          /\ digitiser.current_report <= digitiser.report_count
      BY DEF Init
    <2>4. external_buttons \subseteq descriptor.buttons /\ event = None
      BY DEF Init
    <2>. QED BY <2>1, <2>2, <2>3, <2>4 DEF DriverTyped
  <1>5. DeviceTyped
    BY <1>2 DEF Init, DeviceTyped
  <1>. QED BY <1>1, <1>2, <1>4, <1>5 DEF Init, IInv, Typed, WholeUnlessReset, InStep

\* The counters of the driver and of the device run in step for any digitiser, and
\* nothing leaves its type (handleInterruptReport, AfterFrame).
THEOREM Invariance == Spec => []IInv
  BY InitInv, InvStep, PTL DEF Spec

\* Every variable keeps to its type; the current report is one the frame has.
THEOREM TypeCorrect == Spec => []TypeOK
  <1>1. IInv => TypeOK
    <2> SUFFICES ASSUME Typed PROVE TypeOK
      BY DEF IInv
    <2>1. /\ digitiser.report_count \in 0..255
          /\ digitiser.current_report \in 1..digitiser.report_count
          /\ digitiser.current_contact_count \in 1..255
      <3>1. /\ digitiser.report_count \in 1..255
            /\ digitiser.current_report \in 1..255
            /\ digitiser.current_contact_count \in 1..255
            /\ digitiser.current_report <= digitiser.report_count
        BY DEF Typed, DriverTyped
      <3>. QED BY <3>1
    <2>2. /\ frame.sent \in 1..frame.total
          /\ frame.contacts \subseteq [id : Ids, tip : BOOLEAN]
      BY DEF Typed, DeviceTyped, IsFrame
    <2>. QED BY <2>1, <2>2 DEF Typed, DriverTyped, DeviceTyped, TypeOK
  <1>. QED BY <1>1, Invariance, PTL

\* For any number of collections, contacts and reports, an undisturbed frame is
\* forwarded once, with its last report (handleInterruptReport).
THEOREM FrameOnce == Spec => []OncePerFrame
  <1>1. IInv => OncePerFrame
    BY DEF IInv, InStep, OncePerFrame
  <1>. QED BY <1>1, Invariance, PTL

-----------------------------------------------------------------------------
(* Whole frames                                                            *)

\* No frame has more reports than there are wrappers.
LEMMA TotalFits ==
    ASSUME descriptor \in Descriptors, N <= M => M % N = 0, NEW count \in 1..M
    PROVE  CeilDiv(count, fingers) \in 1..wrapper_count
  <1>. DEFINE q == CeilDiv(count, fingers)
  <1>1. M \in 1..255 /\ fingers \in Nat \ {0} /\ wrapper_count \in 1..255
    BY Geometry
  <1>2. q \in Nat /\ q > 0 /\ (q - 1) * fingers < count
    <2>1. count \in Nat /\ count > 0
      BY <1>1
    <2>. QED BY <1>1, <2>1, CeilFacts
  <1>3. wrapper_count * fingers = M
    <2>1. 0 \in Ids /\ 1 \in 1..wrapper_count
      BY <1>1 DEF Ids, M
    <2>. QED BY <2>1, WrapperFacts
  <1> HIDE DEF q
  <1>4. (q - 1) * fingers < wrapper_count * fingers
    BY <1>1, <1>2, <1>3
  <1>5. \A a, b \in Int, f \in Nat \ {0} : a * f < b * f => a < b
    OBVIOUS
  <1>6. q - 1 < wrapper_count
    <2>1. q - 1 \in Int /\ wrapper_count \in Int
      BY <1>1, <1>2
    <2>. QED BY <1>1, <1>4, <1>5, <2>1
  <1>. QED BY <1>1, <1>2, <1>6 DEF q

\* Every report is written to the wrapper of its first contact.
LEMMA HandleWrites ==
    ASSUME Typed, Divided, UNCHANGED descriptor, NEW report \in Reports,
           handleInterruptReport(report)
    PROVE  LET w0 == report.slots[1].id \div fingers IN
           /\ w0 \in Wrappers
           /\ \A s \in 1..fingers : transducers'[w0][s] = report.slots[s]
           /\ \A w \in Wrappers \ {w0} : transducers'[w] = transducers[w]
           /\ external_buttons' = report.buttons
           /\ Divided'
  <1>. DEFINE started == FrameStarts(report.contact_count)
              w0 == report.slots[1].id \div fingers
  <1>0. descriptor \in Descriptors /\ DriverTyped /\ M \in 1..255
    BY Geometry DEF Typed
  <1>1. report.slots[1].id \in Ids /\ report.contact_count \in 0..M
    <2>1. 1 \in 1..N
      BY <1>0, Geometry
    <2>. QED BY <2>1 DEF Reports
  <1>2. started.current_report \in 1..wrapper_count /\ started.report_count <= wrapper_count
    <2>1. /\ started.current_report \in 1..255 /\ started.report_count \in 1..255
          /\ started.current_report <= started.report_count /\ wrapper_count \in 1..255
      BY <1>0, <1>1, StartFacts, Geometry
    <2>2. started.report_count <= wrapper_count
      <3>1. CASE report.contact_count = 0
        BY <1>0, <1>1, <3>1, StartFacts DEF Divided
      <3>2. CASE report.contact_count # 0
        <4>1. started.report_count = CeilDiv(report.contact_count, fingers)
          BY <1>0, <1>1, <3>2, StartFacts
        <4>2. report.contact_count \in 1..M
          BY <1>0, <1>1, <3>2
        <4>. QED BY <1>0, <2>1, <4>1, <4>2, TotalFits DEF Divided
      <3>. QED BY <3>1, <3>2
    <2>. DEFINE a == started.current_report
                b == started.report_count
    <2> HIDE DEF a, b
    <2>3. a \in 1..255 /\ b \in 1..255 /\ a <= b /\ b <= wrapper_count /\ wrapper_count \in 1..255
      BY <2>1, <2>2 DEF a, b
    <2>4. a \in 1..wrapper_count
      BY <2>3
    <2>. QED BY <2>2, <2>4 DEF a
  <1>3. WrapperOf(started.current_report, report.slots[1].id) = {w0} /\ w0 \in Wrappers
    BY <1>0, <1>1, <1>2, WrapperFacts DEF Divided
  <1>4. /\ transducers' = [w \in Wrappers |->
               IF w \in {w0} THEN handleDigitizerTransducerReport(report.slots)
               ELSE transducers[w]]
        /\ external_buttons' = report.buttons
    BY <1>3 DEF handleInterruptReport, handleDigitizerReport
  <1>5. Divided'
    <2>1. digitiser'.report_count = started.report_count \/ digitiser'.report_count = 1
      BY <1>0, HandleCounts
    <2>. QED BY <1>0, <1>2, <2>1, SameDescriptor, Geometry DEF Divided
  <1> HIDE DEF w0
  <1>6. /\ \A s \in 1..fingers : transducers'[w0][s] = report.slots[s]
        /\ \A w \in Wrappers \ {w0} : transducers'[w] = transducers[w]
    BY <1>3, <1>4 DEF handleDigitizerTransducerReport
  <1>. QED BY <1>3, <1>4, <1>5, <1>6 DEF w0

\* The contacts of a report that is handled are in the wrapper of the first of them.
LEMMA StoredNow ==
    ASSUME Typed, Divided, UNCHANGED descriptor, NEW f, IsFrame(f), frame' = f,
           handleInterruptReport(Elements(f)),
           NEW i, i = f.sent,
           NEW first \in f.contacts, Rank(first, f.contacts) = (i - 1) * N
    PROVE  /\ Stored(i)'
           /\ first.id \div fingers \in Wrappers
           /\ \A w \in Wrappers \ {first.id \div fingers} : transducers'[w] = transducers[w]
           /\ external_buttons' = f.buttons /\ Divided'
  <1>1. /\ N \in 1..255 /\ M \in 1..255 /\ f.sent \in 1..255
        /\ \A s \in 1..fingers : s \in 1..N
    BY Geometry, SMTT(30) DEF Typed, IsFrame
  <1>2. /\ Elements(f) \in Reports /\ Elements(f).slots = Slots(f.contacts, f.sent)
        /\ Elements(f).buttons = f.buttons
    BY ElementsFacts DEF Typed
  <1>3. \A c \in f.contacts, s \in 1..N :
            Rank(c, f.contacts) = (f.sent - 1) * N + s - 1 => Slots(f.contacts, f.sent)[s] = c
    BY <1>1, SlotFacts, ZenonT(30) DEF Typed, IsFrame
  <1>4. Elements(f).slots[1] = first
    <2>1. 1 \in 1..N /\ (f.sent - 1) * N + 1 - 1 = (f.sent - 1) * N
      BY <1>1
    <2>. QED BY <1>2, <1>3, <2>1
  <1>5. /\ first.id \div fingers \in Wrappers
        /\ \A s \in 1..fingers : transducers'[first.id \div fingers][s] = Elements(f).slots[s]
        /\ \A w \in Wrappers \ {first.id \div fingers} : transducers'[w] = transducers[w]
        /\ external_buttons' = f.buttons /\ Divided'
    BY <1>2, <1>4, HandleWrites
  <1>6. \A c \in f.contacts, s \in 1..fingers :
            Rank(c, f.contacts) = (f.sent - 1) * N + s - 1 =>
                transducers'[first.id \div fingers][s] = c
    BY <1>1, <1>2, <1>3, <1>5
  <1>7. Stored(i)'
    <2>1. N' = N /\ fingers' = fingers
      BY SameDescriptor
    <2>. QED BY <1>6, <2>1 DEF Stored
  <1>. QED BY <1>5, <1>7

\* What an earlier report of the frame stored stays: a later one has another wrapper.
LEMMA StoredStays ==
    ASSUME Typed, UNCHANGED descriptor, frame'.contacts = frame.contacts,
           NEW i \in 1..255, NEW j \in 1..255, i < j, Stored(i),
           NEW next \in frame.contacts, Rank(next, frame.contacts) = (j - 1) * N,
           \A w \in Wrappers \ {next.id \div fingers} : transducers'[w] = transducers[w],
           N <= M => M % N = 0
    PROVE  Stored(i)'
  <1>a. OneEach(frame.contacts, M) /\ descriptor \in Descriptors
    BY DEF Typed, DeviceTyped, IsFrame
  <1>b. /\ N \in 1..255 /\ M \in 1..255 /\ wrapper_count \in 1..255
        /\ fingers = IF M < N THEN M ELSE N
    BY <1>a, Geometry
  <1>c. fingers \in Nat \ {0} /\ fingers <= N /\ 1 \in 1..wrapper_count
    BY <1>b
  <1>0. /\ N \in 1..255 /\ M \in 1..255 /\ fingers \in Nat \ {0} /\ fingers <= N
        /\ 1 \in 1..wrapper_count /\ OneEach(frame.contacts, M)
    BY <1>a, <1>b, <1>c
  <1>1. PICK first \in frame.contacts :
            /\ Rank(first, frame.contacts) = (i - 1) * N
            /\ \A c \in frame.contacts, s \in 1..fingers :
                   Rank(c, frame.contacts) = (i - 1) * N + s - 1 =>
                       transducers[first.id \div fingers][s] = c
    BY DEF Stored
  <1>2. first.id \in Ids /\ next.id \in Ids /\ first.id \in Nat /\ next.id \in Nat
    BY DEF Typed, DeviceTyped, IsFrame, Ids
  <1>3. (j - 1) * N - (i - 1) * N >= N
    BY <1>0
  <1>4. next.id - first.id >= fingers
    <2>1. Rank(next, frame.contacts) - Rank(first, frame.contacts) >= N
      BY <1>1, <1>3
    <2>2. /\ Rank(first, frame.contacts) \in Int /\ Rank(next, frame.contacts) \in Int
          /\ next.id < first.id => Rank(next, frame.contacts) < Rank(first, frame.contacts)
          /\ next.id = first.id => next = first
          /\ first.id < next.id =>
                Rank(next, frame.contacts) - Rank(first, frame.contacts) <= next.id - first.id
      <3>1. M \in Nat /\ \A c, d \in frame.contacts : c.id = d.id => c = d
        BY <1>0 DEF OneEach
      <3>2. /\ \A c \in frame.contacts :
                   Rank(c, frame.contacts) \in 0..(Cardinality(frame.contacts) - 1)
            /\ \A c, d \in frame.contacts : c.id < d.id =>
                   /\ Rank(c, frame.contacts) < Rank(d, frame.contacts)
                   /\ Rank(d, frame.contacts) - Rank(c, frame.contacts) <= d.id - c.id
        BY <1>0, <3>1, RankFacts
      <3>. QED BY <3>1, <3>2
    <2>3. first.id < next.id
      BY <1>0, <1>2, <2>1, <2>2
    <2>. QED BY <1>0, <1>2, <2>1, <2>2, <2>3
  <1>5. first.id \div fingers # next.id \div fingers
    BY <1>0, <1>2, <1>4, WrappersDiffer
  <1>6. first.id \div fingers \in Wrappers
    BY <1>0, <1>2, WrapperFacts DEF Typed
  <1>7. transducers'[first.id \div fingers] = transducers[first.id \div fingers]
    BY <1>5, <1>6
  <1>8. N' = N /\ fingers' = fingers
    BY SameDescriptor
  <1>. QED BY <1>1, <1>7, <1>8 DEF Stored

\* Every report of a frame has a first contact.
LEMMA HasFirst ==
    ASSUME descriptor \in Descriptors, NEW contacts, OneEach(contacts, M), contacts # {},
           NEW i \in 1..255, i <= Total(contacts)
    PROVE  \E first \in contacts : Rank(first, contacts) = (i - 1) * N
  <1>1. N \in 1..255 /\ M \in Nat
    BY Geometry
  <1>2. /\ Total(contacts) \in 1..255 /\ Cardinality(contacts) \in 1..M
        /\ (Total(contacts) - 1) * N < Cardinality(contacts)
    BY TotalFacts
  <1>3. (i - 1) * N \in Nat /\ (i - 1) * N <= (Total(contacts) - 1) * N
    BY <1>1, <1>2
  <1>a. \A k, l, c \in Int : 0 <= k /\ k <= l /\ l < c => k \in 0..(c - 1)
    OBVIOUS
  <1>b. (Total(contacts) - 1) * N \in Int /\ Cardinality(contacts) \in Int
    BY <1>1, <1>2
  <1>4. (i - 1) * N \in 0..(Cardinality(contacts) - 1)
    BY <1>2, <1>3, <1>a, <1>b
  <1>5. \A k \in 0..(Cardinality(contacts) - 1) : \E c \in contacts : Rank(c, contacts) = k
    BY <1>1, RankFacts
  <1>. QED BY <1>4, <1>5

\* A report that is handled is written to a wrapper of its own, with its buttons.
LEMMA HandledFrame ==
    ASSUME Typed, Divided, UNCHANGED descriptor, NEW f, IsFrame(f), frame' = f,
           handleInterruptReport(Elements(f))
    PROVE  /\ Divided' /\ external_buttons' = f.buttons
           /\ digitiser'.current_contact_count
                = FrameStarts(Elements(f).contact_count).current_contact_count
           /\ event' # None =>
                 /\ event'.contact_count = digitiser'.current_contact_count
                 /\ event'.external_buttons = f.buttons
  <1>1. Elements(f) \in Reports /\ Elements(f).buttons = f.buttons
    BY ElementsFacts DEF Typed
  <1>2. Divided' /\ external_buttons' = f.buttons
    BY <1>1, HandleWrites
  <1>. QED BY <1>1, <1>2, HandleCounts DEF Typed

\* A report keeps what is stored of an undisturbed frame, and stores what it brings.
LEMMA StoredStep ==
    ASSUME WInv, IInv', NEW taken \in BOOLEAN, Report(taken)
    PROVE  Divided' /\ StoredSoFar' /\ EventIsLast'
  <1>0. /\ Typed /\ Divided /\ StoredSoFar /\ EventIsLast /\ InStep /\ InStep'
        /\ descriptor \in Descriptors /\ IsFrame(frame) /\ surface \subseteq Ids
    BY DEF WInv, IInv, Typed, DeviceTyped
  <1>1. UNCHANGED descriptor
    BY DEF Report, Frame, NextReport, ForeignReport
  <1>2. ASSUME UNCHANGED digitiser PROVE Divided'
    BY <1>0, <1>1, <1>2, SameDescriptor DEF Divided
  <1>3. ASSUME NEW touching \in SUBSET Ids, NEW buttons \in SUBSET descriptor.buttons,
               Frame(touching, buttons, taken)
        PROVE  Divided' /\ StoredSoFar' /\ EventIsLast'
    <2>. DEFINE f == NewFrame(touching, buttons)
    <2>1. IsFrame(f) /\ f.sent = 1 /\ f.total = Total(f.contacts) /\ f.total \in 1..255
      <3>1. IsFrame(f) /\ f.sent = 1 /\ f.total = Total(f.contacts)
        BY <1>0, NewFrameFacts
      <3> HIDE DEF f
      <3>. QED BY <3>1 DEF IsFrame
    <2>2. frame' = f /\ Deliver(Elements(f), taken) /\ Forwards(0) /\ (~taken => disturbed')
      BY <1>3 DEF Frame
    <2> HIDE DEF f
    <2>3. CASE ~taken
      BY <1>2, <2>2, <2>3 DEF Deliver, driver_vars, StoredSoFar, EventIsLast
    <2>4. CASE taken
      <3>1. handleInterruptReport(Elements(f))
        BY <2>2, <2>4 DEF Deliver
      <3>2. /\ Divided' /\ external_buttons' = f.buttons
            /\ event' # None =>
                  /\ event'.contact_count = digitiser'.current_contact_count
                  /\ event'.external_buttons = f.buttons
        BY <1>0, <1>1, <2>1, <2>2, <3>1, HandledFrame
      <3>3. StoredSoFar'
        <4>1. ASSUME f.contacts # {} PROVE Stored(1)'
          <5>1. PICK first \in f.contacts : Rank(first, f.contacts) = (1 - 1) * N
            BY <1>0, <2>1, <4>1, HasFirst DEF IsFrame
          <5>. QED BY <1>0, <1>1, <2>1, <2>2, <3>1, <5>1, StoredNow
        <4>2. \A i \in 1..1 : i = 1
          OBVIOUS
        <4>. QED BY <2>1, <2>2, <4>1, <4>2 DEF StoredSoFar
      <3>4. EventIsLast'
        <4> SUFFICES ASSUME event' # None, ~disturbed' PROVE EventIsLast'
          BY DEF EventIsLast, None
        <4>1. forwards' = 1
          BY <2>2, ForwardsFacts
        <4>2. Complete(frame)'
          BY <1>0, <4>1 DEF InStep
        <4>3. frame'.contacts # {} =>
                  digitiser'.current_contact_count = Cardinality(frame'.contacts)
          BY <1>0 DEF InStep
        <4>. QED BY <2>2, <3>2, <4>2, <4>3 DEF EventIsLast, None
      <3>. QED BY <3>2, <3>3, <3>4
    <2>. QED BY <2>3, <2>4
  <1>4. CASE NextReport(taken)
    <2>. DEFINE f == [frame EXCEPT !.sent = @ + 1]
    <2>1. /\ IsFrame(f) /\ f.sent = frame.sent + 1 /\ f.sent > 1
          /\ f.contacts = frame.contacts /\ f.total = frame.total /\ f.buttons = frame.buttons
          /\ ~Complete(frame)
      BY <1>0, <1>4, NextReportFacts DEF NextReport
    <2>2. /\ frame' = f /\ Deliver(Elements(f), taken) /\ Forwards(forwards)
          /\ disturbed' = (disturbed \/ ~taken)
      BY <1>4 DEF NextReport
    <2>3. f.sent \in 1..255 /\ frame.sent \in 1..255 /\ f.sent <= f.total /\ f.total \in 1..255
      BY <1>0, <2>1 DEF IsFrame
    <2> HIDE DEF f
    <2>4. CASE ~taken
      BY <1>2, <2>2, <2>4 DEF Deliver, driver_vars, StoredSoFar, EventIsLast
    <2>5. CASE taken
      <3>1. handleInterruptReport(Elements(f))
        BY <2>2, <2>5 DEF Deliver
      <3>2. /\ Divided' /\ external_buttons' = f.buttons
            /\ event' # None =>
                  /\ event'.contact_count = digitiser'.current_contact_count
                  /\ event'.external_buttons = f.buttons
        BY <1>0, <1>1, <2>1, <2>2, <3>1, HandledFrame
      <3>3. StoredSoFar'
        <4> SUFFICES ASSUME ~disturbed', f.contacts # {}
                     PROVE  \A i \in 1..f.sent : Stored(i)'
          BY <2>2 DEF StoredSoFar
        <4>1. ~disturbed /\ f.total = Total(f.contacts) /\ \A i \in 1..frame.sent : Stored(i)
          BY <1>0, <2>1, <2>2 DEF StoredSoFar, InStep
        <4>2. PICK first \in f.contacts : Rank(first, f.contacts) = (f.sent - 1) * N
          BY <1>0, <2>1, <2>3, <4>1, HasFirst, SMTT(30) DEF IsFrame
        <4>3. ASSUME NEW i, i = f.sent
              PROVE  /\ Stored(i)'
                     /\ \A w \in Wrappers \ {first.id \div fingers} :
                            transducers'[w] = transducers[w]
          BY <1>0, <1>1, <2>1, <2>2, <3>1, <4>2, <4>3, StoredNow
        <4>4. ASSUME NEW i \in 1..frame.sent PROVE Stored(i)'
          <5>1. i \in 1..255 /\ i < f.sent
            BY <2>1, <2>3
          <5>2. Stored(i) /\ (N <= M => M % N = 0) /\ frame'.contacts = frame.contacts
            BY <1>0, <2>1, <2>2, <4>1 DEF Divided
          <5>3. first \in frame.contacts /\ Rank(first, frame.contacts) = (f.sent - 1) * N
            BY <2>1, <4>2
          <5>. QED BY <1>0, <1>1, <2>3, <4>3, <5>1, <5>2, <5>3, StoredStays
        <4>5. \A i \in 1..f.sent : i = f.sent \/ i \in 1..frame.sent
          BY <2>1, <2>3
        <4>. QED BY <4>3, <4>4, <4>5
      <3>4. EventIsLast'
        <4> SUFFICES ASSUME event' # None, ~disturbed' PROVE EventIsLast'
          BY DEF EventIsLast, None
        <4>1. forwards' = 1
          <5>1. forwards = 0
            BY <1>0, <2>1, <2>2 DEF InStep
          <5>. QED BY <2>2, <5>1, ForwardsFacts
        <4>2. Complete(frame)'
          BY <1>0, <4>1 DEF InStep
        <4>3. frame'.contacts # {} =>
                  digitiser'.current_contact_count = Cardinality(frame'.contacts)
          BY <1>0 DEF InStep
        <4>. QED BY <2>2, <3>2, <4>2, <4>3 DEF EventIsLast, None
      <3>. QED BY <3>2, <3>3, <3>4
    <2>. QED BY <2>4, <2>5
  <1>5. CASE ForeignReport(taken)
    <2>1. /\ Deliver(Elements(frame), taken) /\ frame' = frame
          /\ disturbed' = (disturbed \/ taken)
      BY <1>5 DEF ForeignReport, device_vars
    <2>2. CASE taken
      <3>1. handleInterruptReport(Elements(frame))
        BY <2>1, <2>2 DEF Deliver
      <3>2. Divided'
        BY <1>0, <1>1, <2>1, <3>1, HandledFrame
      <3>. QED BY <2>1, <2>2, <3>2 DEF StoredSoFar, EventIsLast
    <2>3. CASE ~taken
      <3>1. event' = None /\ UNCHANGED driver_vars
        BY <2>1, <2>3 DEF Deliver
      <3>2. ASSUME NEW i, Stored(i) PROVE Stored(i)'
        BY <1>1, <2>1, <3>1, <3>2, SameDescriptor DEF Stored, driver_vars
      <3>3. StoredSoFar'
        BY <1>0, <2>1, <2>3, <3>2 DEF StoredSoFar
      <3>. QED BY <1>2, <3>1, <3>3 DEF driver_vars, EventIsLast, None
    <2>. QED BY <2>2, <2>3
  <1>. QED BY <1>3, <1>4, <1>5 DEF Report

LEMMA WholeStep == WInv /\ [Next]_frame_vars => WInv'
  <1> SUFFICES ASSUME WInv, [Next]_frame_vars PROVE WInv'
    OBVIOUS
  <1>0. IInv' /\ Divided /\ StoredSoFar /\ EventIsLast
    BY InvStep DEF WInv
  <1>1. ASSUME Report(Taken) PROVE Divided' /\ StoredSoFar' /\ EventIsLast'
    <2>1. Taken \in BOOLEAN
      BY DEF Taken, WInv, IInv, Typed, DriverTyped
    <2>. QED BY <1>0, <1>1, <2>1, StoredStep
  <1>2. ASSUME DeviceReset PROVE Divided' /\ StoredSoFar' /\ EventIsLast'
    BY <1>0, <1>2, SameDescriptor DEF DeviceReset, Divided, StoredSoFar, EventIsLast, driver_vars
  <1>3. ASSUME Started \/ Ignore \/ UNCHANGED frame_vars
        PROVE  Divided' /\ StoredSoFar' /\ EventIsLast'
    <2>1. /\ UNCHANGED <<descriptor, digitiser, transducers, frame, disturbed>>
          /\ event' = None \/ event' = event
      BY <1>3 DEF Started, Ignore, Dropping, frame_vars, driver_vars, device_vars, history_vars
    <2>2. ASSUME NEW i, Stored(i) PROVE Stored(i)'
      BY <2>1, <2>2, SameDescriptor DEF Stored
    <2>. QED BY <1>0, <2>1, <2>2, SameDescriptor
             DEF Divided, StoredSoFar, EventIsLast, Complete, None
  <1>. QED BY <1>0, <1>1, <1>2, <1>3 DEF Next, WInv

\* Everything of a frame that is over is stored, one report after the other.
LEMMA StoredIsWhole ==
    ASSUME WInv PROVE WholeFrame
  <1> SUFFICES ASSUME event # None, ~disturbed PROVE WholeFrame
    BY DEF WholeFrame
  <1>0. /\ descriptor \in Descriptors /\ OneEach(frame.contacts, M) /\ frame.sent \in 1..255
        /\ N <= M => M % N = 0
    BY DEF WInv, IInv, Typed, DeviceTyped, IsFrame, Divided
  <1>1. /\ Complete(frame)
        /\ frame.contacts # {} => event.contact_count = Cardinality(frame.contacts)
        /\ event.external_buttons = frame.buttons
    BY DEF WInv, EventIsLast
  <1>2. ASSUME NEW c \in frame.contacts
        PROVE  \E w \in Wrappers, s \in 1..fingers : transducers[w][s] = c
    <2>. DEFINE r == Rank(c, frame.contacts)
                i == r \div N + 1
                s == (r % N) + 1
    <2>1. /\ N \in 1..255 /\ M \in 1..255 /\ 1 \in 1..wrapper_count
          /\ fingers = IF M < N THEN M ELSE N
      BY <1>0, Geometry
    <2>2. /\ Cardinality(frame.contacts) \in 1..M
          /\ Cardinality(frame.contacts) <= frame.sent * N
      <3>1. frame.sent = Total(frame.contacts)
        BY <1>1 DEF WInv, IInv, InStep, Complete
      <3>. QED BY <1>0, <1>2, <3>1, TotalFacts
    <2>3. r \in 0..(Cardinality(frame.contacts) - 1)
      BY <1>0, <2>1, RankFacts
    <2> HIDE DEF r
    <2>4. /\ i \in Nat /\ i >= 1 /\ s \in 1..N /\ r = (i - 1) * N + s - 1
          /\ (i - 1) * N <= r
      <3>1. \A x \in Nat, n \in 1..255 :
                x \div n \in Nat /\ x % n \in 0..(n - 1) /\ x = (x \div n) * n + (x % n)
        OBVIOUS
      <3>2. r \in Nat
        BY <2>2, <2>3
      <3>. DEFINE q == r \div N
                  m == r % N
      <3>3. q \in Nat /\ m \in 0..(N - 1) /\ r = q * N + m
        BY <2>1, <3>1, <3>2
      <3>4. i = q + 1 /\ s = m + 1
        OBVIOUS
      <3> HIDE DEF q, m, i, s
      <3>5. i - 1 = q /\ q * N \in Nat
        BY <2>1, <3>3, <3>4
      <3>. QED BY <2>1, <3>3, <3>4, <3>5
    <2>5. i \in 1..frame.sent
      <3>1. (i - 1) * N < frame.sent * N
        BY <1>0, <2>1, <2>2, <2>3, <2>4, SMTT(30)
      <3>2. \A a, b \in Int, n \in Nat \ {0} : a * n < b * n => a < b
        OBVIOUS
      <3> HIDE DEF i
      <3>3. i - 1 < frame.sent
        BY <1>0, <2>1, <2>4, <3>1, <3>2
      <3>. QED BY <1>0, <2>4, <3>3
    <2>6. s \in 1..fingers
      <3>1. CASE M < N
        <4>1. r < N /\ r < M
          BY <2>1, <2>2, <2>3, <3>1
        <4>2. r % N = r
          BY <2>1, <2>3, <4>1
        <4>. QED BY <2>1, <2>3, <3>1, <4>1, <4>2
      <3>2. CASE ~(M < N)
        BY <2>1, <2>4, <3>2
      <3>. QED BY <3>1, <3>2
    <2> HIDE DEF i, s
    <2>7. PICK first \in frame.contacts :
              \A d \in frame.contacts, t \in 1..fingers :
                  Rank(d, frame.contacts) = (i - 1) * N + t - 1 =>
                      transducers[first.id \div fingers][t] = d
      BY <2>5 DEF WInv, StoredSoFar, Stored
    <2>8. transducers[first.id \div fingers][s] = c
      BY <2>4, <2>6, <2>7 DEF r
    <2>9. first.id \div fingers \in Wrappers
      <3>1. first.id \in Ids
        BY <1>0 DEF OneEach, Ids, M
      <3>. QED BY <1>0, <2>1, <3>1, WrapperFacts
    <2>. QED BY <2>6, <2>8, <2>9
  <1>. QED BY <1>1, <1>2 DEF WholeFrame

LEMMA DividedInit == Divides /\ Init => Divided
  <1> SUFFICES ASSUME Divides, Init PROVE Divided
    OBVIOUS
  <1>1. descriptor \in Descriptors /\ wrapper_count \in 1..255
    BY Geometry DEF Init
  <1>2. digitiser.report_count = 1
    BY DEF Init
  <1>. QED BY <1>1, <1>2 DEF Divides, Divided, N, M

\* On every digitiser whose collections divide its contacts, what is forwarded for
\* an undisturbed frame is all of it: reports of the same frame go to different
\* wrappers, whoever is in them (handleDigitizerReport, WrapperOf).
THEOREM FrameIsWhole == Divides => (Spec => []WholeFrame)
  <1>1. Divides /\ Init => WInv
    BY InitInv, DividedInit DEF WInv, StoredSoFar, EventIsLast, Init
  <1>2. WInv => WholeFrame
    BY StoredIsWhole
  <1>. QED BY <1>1, <1>2, WholeStep, PTL DEF Spec

-----------------------------------------------------------------------------
(* Phantoms                                                                *)

\* A report of a new frame, or the next of one that is not over.
Advances(taken) ==
    \/ \E touching \in SUBSET Ids, buttons \in SUBSET descriptor.buttons :
            Frame(touching, buttons, taken)
    \/ NextReport(taken)

\* What the two have in common: the contacts are those of a frame that is not cut
\* off, with the tips that are on the surface; whoever was on the surface, or not
\* sent yet, is one of them.
LEMMA AdvanceFacts ==
    ASSUME IInv, NEW taken, Advances(taken)
    PROVE  \E f :
           /\ frame' = f /\ IsFrame(f) /\ UNCHANGED descriptor /\ f.total = Total(f.contacts)
           /\ \A c \in f.contacts : c.tip => c.id \in surface'
           /\ Deliver(Elements(f), taken) /\ Missed(f, taken)
           /\ \A i \in surface : i \in surface' \/ (f.sent = 1 /\ \E c \in f.contacts : c.id = i)
           /\ \A i \in Unsent : \E c \in f.contacts :
                 c.id = i /\ Rank(c, f.contacts) >= f.sent - 1
  <1>0. descriptor \in Descriptors /\ IsFrame(frame) /\ surface \subseteq Ids
    BY DEF IInv, Typed, DeviceTyped
  <1>1. ASSUME NEW touching \in SUBSET Ids, NEW buttons \in SUBSET descriptor.buttons,
               Frame(touching, buttons, taken)
        PROVE  \E f :
               /\ frame' = f /\ IsFrame(f) /\ UNCHANGED descriptor
               /\ f.total = Total(f.contacts)
               /\ \A c \in f.contacts : c.tip => c.id \in surface'
               /\ Deliver(Elements(f), taken) /\ Missed(f, taken)
               /\ \A i \in surface :
                      i \in surface' \/ (f.sent = 1 /\ \E c \in f.contacts : c.id = i)
               /\ \A i \in Unsent : \E c \in f.contacts :
                      c.id = i /\ Rank(c, f.contacts) >= f.sent - 1
    <2>. DEFINE f == NewFrame(touching, buttons)
    <2>1. /\ IsFrame(f) /\ f.total = Total(f.contacts) /\ f.sent = 1
          /\ \A c \in f.contacts : c.tip <=> c.id \in touching
          /\ \A i \in surface \cup touching : \E c \in f.contacts : c.id = i
      BY <1>0, NewFrameFacts
    <2>2. /\ frame' = f /\ surface' = touching /\ UNCHANGED descriptor
          /\ Deliver(Elements(f), taken) /\ Missed(f, taken) /\ Complete(frame)
      BY <1>1 DEF Frame
    <2>3. Unsent = {}
      BY <2>2 DEF Unsent
    <2> HIDE DEF f
    <2>. QED BY <2>1, <2>2, <2>3
  <1>2. ASSUME NextReport(taken)
        PROVE  \E f :
               /\ frame' = f /\ IsFrame(f) /\ UNCHANGED descriptor
               /\ f.total = Total(f.contacts)
               /\ \A c \in f.contacts : c.tip => c.id \in surface'
               /\ Deliver(Elements(f), taken) /\ Missed(f, taken)
               /\ \A i \in surface :
                      i \in surface' \/ (f.sent = 1 /\ \E c \in f.contacts : c.id = i)
               /\ \A i \in Unsent : \E c \in f.contacts :
                      c.id = i /\ Rank(c, f.contacts) >= f.sent - 1
    <2>. DEFINE f == [frame EXCEPT !.sent = @ + 1]
    <2>1. /\ IsFrame(f) /\ f.sent = frame.sent + 1 /\ f.contacts = frame.contacts
          /\ f.total = frame.total /\ ~Complete(frame)
      BY <1>0, <1>2, NextReportFacts DEF NextReport
    <2>2. /\ frame' = f /\ surface' = surface /\ UNCHANGED descriptor
          /\ Deliver(Elements(f), taken) /\ Missed(f, taken)
      BY <1>2 DEF NextReport
    <2>3. /\ frame.total = Total(frame.contacts)
          /\ \A c \in frame.contacts : c.tip => c.id \in surface
      BY <2>1 DEF IInv, WholeUnlessReset
    <2>4. f.sent - 1 = frame.sent
      BY <1>0, <2>1 DEF IsFrame
    <2>5. \A i \in Unsent : \E c \in frame.contacts :
              c.id = i /\ Rank(c, frame.contacts) >= frame.sent
      BY <2>1 DEF Unsent
    <2>6. \A i \in Unsent : \E c \in f.contacts :
              c.id = i /\ Rank(c, f.contacts) >= f.sent - 1
      <3> HIDE DEF f
      <3>. QED BY <2>1, <2>4, <2>5
    <2>7. /\ f.total = Total(f.contacts)
          /\ \A c \in f.contacts : c.tip => c.id \in surface'
      BY <2>1, <2>2, <2>3
    <2> HIDE DEF f
    <2>8. \A i \in surface :
              i \in surface' \/ (f.sent = 1 /\ \E c \in f.contacts : c.id = i)
      BY <2>2
    <2>9. frame' = f /\ IsFrame(f) /\ UNCHANGED descriptor
          /\ Deliver(Elements(f), taken) /\ Missed(f, taken)
      BY <2>1, <2>2
    <2>. QED BY <2>6, <2>7, <2>8, <2>9
  <1>. QED BY <1>1, <1>2 DEF Advances

\* The tips a handled report brings are those of its contacts.
LEMMA SlotTips ==
    ASSUME descriptor \in Descriptors, NEW f, IsFrame(f), NEW s \in 1..N,
           Elements(f).slots[s].tip
    PROVE  Elements(f).slots[s] \in f.contacts
  <1>1. f.sent \in 1..255 /\ OneEach(f.contacts, M)
    BY DEF IsFrame
  <1>2. \/ Slots(f.contacts, f.sent)[s] = Blank
        \/ Slots(f.contacts, f.sent)[s] \in f.contacts
    BY <1>1, SlotFacts
  <1>3. Elements(f).slots = Slots(f.contacts, f.sent)
    BY ElementsFacts
  <1>. QED BY <1>2, <1>3 DEF Blank

\* A contact whose rank is one of a report's is in it.
LEMMA SlotOf ==
    ASSUME descriptor \in Descriptors, NEW f, IsFrame(f), NEW c \in f.contacts,
           NEW s \in 1..N, Rank(c, f.contacts) = (f.sent - 1) * N + s - 1
    PROVE  /\ Elements(f).slots[s] = c
           /\ \A taken : Missed(f, taken) /\ ~taken /\ ~c.tip => c.id \in missed'
  <1>1. f.sent \in 1..255 /\ OneEach(f.contacts, M)
    BY DEF IsFrame
  <1>2. /\ Slots(f.contacts, f.sent)[s] = c
        /\ DOMAIN Slots(f.contacts, f.sent) = 1..N
    BY <1>1, SlotFacts
  <1>3. Elements(f).slots = Slots(f.contacts, f.sent)
    BY ElementsFacts
  <1>. QED BY <1>2, <1>3 DEF Missed

\* A report of a new frame tells a digitiser with one wrapper everything.
LEMMA OneWrapperStep ==
    ASSUME PInv, Divided', NEW taken \in BOOLEAN, Report(taken), wrapper_count = 1
    PROVE  \A s \in 1..fingers : transducers'[0][s].tip =>
               transducers'[0][s].id \in surface' \cup missed'
  <1>0. /\ descriptor \in Descriptors /\ IsFrame(frame) /\ Typed /\ Divided /\ IInv
        /\ OneWrapper /\ TipsAreTold
    BY DEF PInv, WInv, IInv, Typed, DeviceTyped
  <1>1. /\ N \in 1..255 /\ M \in 1..255 /\ fingers \in 1..N /\ fingers = M
        /\ Wrappers = {0} /\ \A s \in 1..fingers : s \in 1..N
    <2>1. N \in 1..255 /\ M \in 1..255 /\ fingers = IF M < N THEN M ELSE N
      BY <1>0, Geometry
    <2>2. wrapper_count * fingers = M
      <3>1. 0 \in Ids /\ 1 \in 1..wrapper_count
        BY <2>1 DEF Ids, M
      <3>. QED BY <1>0, <3>1, WrapperFacts DEF Divided
    <2>. QED BY <2>1, <2>2 DEF Wrappers
  <1>2. ASSUME NEW f, IsFrame(f), handleInterruptReport(Elements(f)), UNCHANGED descriptor
        PROVE  \A s \in 1..fingers : /\ transducers'[0][s] = Elements(f).slots[s]
                                     /\ transducers'[0][s].tip =>
                                            transducers'[0][s] \in f.contacts
    <2>1. Elements(f) \in Reports
      BY <1>0, <1>2, ElementsFacts
    <2>2. \A s \in 1..fingers : transducers'[0][s] = Elements(f).slots[s]
      <3>. DEFINE w0 == Elements(f).slots[1].id \div fingers
      <3>1. w0 \in Wrappers /\ \A s \in 1..fingers : transducers'[w0][s] = Elements(f).slots[s]
        BY <1>0, <1>2, <2>1, HandleWrites
      <3> HIDE DEF w0
      <3>. QED BY <1>1, <3>1
    <2>. QED BY <1>0, <1>1, <1>2, <2>2, SlotTips
  <1>3. CASE Advances(taken)
    <2>1. PICK f :
           /\ frame' = f /\ IsFrame(f) /\ UNCHANGED descriptor /\ f.total = Total(f.contacts)
           /\ \A c \in f.contacts : c.tip => c.id \in surface'
           /\ Deliver(Elements(f), taken) /\ Missed(f, taken)
           /\ \A i \in surface : i \in surface' \/ (f.sent = 1 /\ \E c \in f.contacts : c.id = i)
      BY <1>0, <1>3, AdvanceFacts
    <2>2. CASE taken
      <3>1. handleInterruptReport(Elements(f))
        BY <2>1, <2>2 DEF Deliver
      <3>. QED BY <1>2, <2>1, <3>1
    <2>3. CASE ~taken
      <3>1. transducers' = transducers /\ missed \subseteq missed'
        BY <2>1, <2>3 DEF Deliver, driver_vars, Missed
      <3>2. \A i \in surface : i \in surface' \cup missed'
        <4> TAKE i \in surface
        <4>1. CASE i \notin surface'
          <5>1. PICK c \in f.contacts : c.id = i /\ f.sent = 1
            BY <2>1, <4>1
          <5>2. ~c.tip
            BY <2>1, <4>1, <5>1
          <5>. DEFINE s == Rank(c, f.contacts) + 1
          <5>3. s \in 1..N /\ Rank(c, f.contacts) = (f.sent - 1) * N + s - 1
            <6>1. OneEach(f.contacts, M) /\ M \in Nat
              BY <1>1, <2>1 DEF IsFrame
            <6>2. Cardinality(f.contacts) \in 0..M
              BY <6>1, ContactsAreFinite
            <6>3. Rank(c, f.contacts) \in 0..(Cardinality(f.contacts) - 1)
              BY <6>1, RankFacts
            <6>. QED BY <1>1, <5>1, <6>2, <6>3
          <5> HIDE DEF s
          <5>. QED BY <1>0, <2>1, <2>3, <5>1, <5>2, <5>3, SlotOf
        <4>. QED BY <4>1
      <3>. QED BY <1>0, <3>1, <3>2 DEF OneWrapper
    <2>. QED BY <2>2, <2>3
  <1>4. CASE ForeignReport(taken)
    <2>1. Deliver(Elements(frame), taken) /\ UNCHANGED <<descriptor, surface, missed>>
      BY <1>4 DEF ForeignReport, device_vars
    <2>2. CASE taken
      <3>1. handleInterruptReport(Elements(frame))
        BY <2>1, <2>2 DEF Deliver
      <3>. QED BY <1>0, <1>2, <2>1, <3>1 DEF TipsAreTold
    <2>3. CASE ~taken
      BY <1>0, <2>1, <2>3 DEF Deliver, driver_vars, OneWrapper
    <2>. QED BY <2>2, <2>3
  <1>. QED BY <1>3, <1>4 DEF Report, Advances

\* With a wrapper for each contact, a report tells one, and the others wait.
LEMMA WrapperEachStep ==
    ASSUME PInv, NEW taken \in BOOLEAN, Report(taken), N = 1
    PROVE  \A w \in Wrappers : transducers'[w][1].tip =>
               transducers'[w][1].id = w /\ w \in surface' \cup missed' \cup Unsent'
  <1>0. /\ descriptor \in Descriptors /\ IsFrame(frame) /\ Typed /\ Divided /\ IInv
        /\ WrapperEach /\ TipsAreTold
    BY DEF PInv, WInv, IInv, Typed, DeviceTyped
  <1>1. /\ M \in 1..255 /\ fingers = 1 /\ 1 \in 1..N /\ 1 \in 1..fingers
        /\ \A id \in Ids : id \div fingers = id
        /\ wrapper_count \in 1..255
    <2>1. M \in 1..255 /\ fingers = 1 /\ wrapper_count \in 1..255
      BY <1>0, Geometry
    <2>2. \A id \in Nat : id \div 1 = id
      OBVIOUS
    <2>3. Ids \subseteq Nat
      BY DEF Ids
    <2>. QED BY <2>1, <2>2, <2>3
  <1>2. ASSUME NEW f, IsFrame(f), handleInterruptReport(Elements(f)), UNCHANGED descriptor
        PROVE  LET S == Elements(f).slots[1] IN
               /\ transducers'[S.id][1] = S /\ S.id \in Wrappers
               /\ \A w \in Wrappers \ {S.id} : transducers'[w] = transducers[w]
               /\ S.tip => S \in f.contacts
    <2>1. Elements(f) \in Reports
      BY <1>0, <1>2, ElementsFacts
    <2>2. Elements(f).slots[1].id \in Ids
      BY <1>1, <2>1 DEF Reports
    <2>3. Elements(f).slots[1].id \div fingers = Elements(f).slots[1].id
      BY <1>1, <2>2
    <2>4. Elements(f).slots[1].tip => Elements(f).slots[1] \in f.contacts
      BY <1>0, <1>1, <1>2, SlotTips
    <2>. QED BY <1>0, <1>1, <1>2, <2>1, <2>3, <2>4, HandleWrites
  <1>3. CASE Advances(taken)
    <2>1. PICK f :
           /\ frame' = f /\ IsFrame(f) /\ UNCHANGED descriptor /\ f.total = Total(f.contacts)
           /\ \A c \in f.contacts : c.tip => c.id \in surface'
           /\ Deliver(Elements(f), taken) /\ Missed(f, taken)
           /\ \A i \in surface : i \in surface' \/ (f.sent = 1 /\ \E c \in f.contacts : c.id = i)
           /\ \A i \in Unsent : \E c \in f.contacts :
                 c.id = i /\ Rank(c, f.contacts) >= f.sent - 1
      BY <1>0, <1>3, AdvanceFacts
    <2>. DEFINE S == Elements(f).slots[1]
    <2>2. \A c \in f.contacts : Rank(c, f.contacts) \in Nat
      <3>1. OneEach(f.contacts, M) /\ M \in Nat
        BY <1>1, <2>1 DEF IsFrame
      <3>. QED BY <3>1, RankFacts
    <2>3. f.sent \in 1..255 /\ f.total \in 1..255 /\ f.sent <= f.total
      BY <2>1 DEF IsFrame
    <2>4. ASSUME NEW c \in f.contacts, Rank(c, f.contacts) = f.sent - 1
          PROVE  S = c /\ (~taken /\ ~c.tip => c.id \in missed')
      <3>1. Rank(c, f.contacts) = (f.sent - 1) * N + 1 - 1
        BY <2>3, <2>4
      <3>. QED BY <1>0, <1>1, <2>1, <3>1, SlotOf
    <2>5. ASSUME NEW c \in f.contacts, Rank(c, f.contacts) > f.sent - 1
          PROVE  c.id \in Unsent'
      <3>1. Rank(c, f.contacts) >= f.sent
        BY <2>2, <2>3, <2>5
      <3>2. ~Complete(f)
        <4> SUFFICES ASSUME f.sent = f.total PROVE FALSE
          BY DEF Complete
        <4>1. OneEach(f.contacts, M) /\ M \in Nat
          BY <1>1, <2>1 DEF IsFrame
        <4>2. Cardinality(f.contacts) <= Total(f.contacts) * N /\ Cardinality(f.contacts) \in 1..M
          BY <1>0, <2>5, <4>1, TotalFacts
        <4>3. Rank(c, f.contacts) \in 0..(Cardinality(f.contacts) - 1)
          BY <4>1, RankFacts
        <4>. QED BY <1>1, <2>1, <2>3, <3>1, <4>2, <4>3
      <3>. QED BY <2>1, <3>1, <3>2 DEF Unsent, Complete
    \* Whose lift was missed, who was on the surface, or who was not sent.
    <2>6. ASSUME NEW w \in Wrappers, w \in surface \cup missed \cup Unsent,
                 ~(taken /\ w = S.id)
          PROVE  w \in surface' \cup missed' \cup Unsent'
      <3>1. CASE w \in missed
        <4>1. CASE ~taken
          BY <2>1, <3>1, <4>1 DEF Missed
        <4>2. CASE taken
          <5>1. \A c \in f.contacts :
                   (\E s \in DOMAIN Slots(f.contacts, f.sent) :
                        Slots(f.contacts, f.sent)[s] = c) => c = S
            <6>1. DOMAIN Slots(f.contacts, f.sent) = {1}
              <7>1. 1..N = {1} /\ DOMAIN Slots(f.contacts, f.sent) = 1..N
                BY DEF Slots, N
              <7>. QED BY <7>1
            <6>2. Elements(f).slots = Slots(f.contacts, f.sent)
              BY <1>0, <2>1, ElementsFacts
            <6>. QED BY <6>1, <6>2
          <5>2. CASE wrapper_count # 1
            <6> HIDE DEF S
            <6>. QED BY <2>1, <2>6, <3>1, <4>2, <5>1, <5>2 DEF Missed
          <5>3. CASE wrapper_count = 1
            <6>1. Wrappers = {0}
              BY <5>3 DEF Wrappers
            <6>2. handleInterruptReport(Elements(f))
              BY <2>1, <4>2 DEF Deliver
            <6>3. S.id \in Wrappers
              BY <1>2, <2>1, <6>2
            <6> HIDE DEF S
            <6>. QED BY <2>6, <4>2, <6>1, <6>3
          <5>. QED BY <5>2, <5>3
        <4>. QED BY <4>1, <4>2
      <3>2. ASSUME NEW c \in f.contacts, c.id = w, Rank(c, f.contacts) >= f.sent - 1
            PROVE  w \in surface' \cup missed' \cup Unsent'
        <4>1. CASE Rank(c, f.contacts) = f.sent - 1
          <5>1. S = c /\ (~taken /\ ~c.tip => c.id \in missed')
            BY <2>4, <4>1
          <5> HIDE DEF S
          <5>. QED BY <2>1, <2>6, <3>2, <5>1
        <4>2. CASE Rank(c, f.contacts) > f.sent - 1
          BY <2>5, <3>2, <4>2
        <4>. QED BY <2>2, <2>3, <3>2, <4>1, <4>2
      <3>3. CASE w \in surface
        <4>1. CASE w \notin surface'
          <5>1. PICK c \in f.contacts : c.id = w /\ f.sent = 1
            BY <2>1, <3>3, <4>1
          <5>. QED BY <2>2, <3>2, <5>1
        <4>. QED BY <4>1
      <3>4. CASE w \in Unsent
        BY <2>1, <3>2, <3>4
      <3>. QED BY <2>6, <3>1, <3>3, <3>4
    <2>7. CASE taken
      <3>1. handleInterruptReport(Elements(f))
        BY <2>1, <2>7 DEF Deliver
      <3>2. /\ transducers'[S.id][1] = S /\ S.id \in Wrappers
            /\ \A w \in Wrappers \ {S.id} : transducers'[w] = transducers[w]
            /\ S.tip => S \in f.contacts
        BY <1>2, <2>1, <3>1
      <3> HIDE DEF S
      <3>. QED BY <1>0, <2>1, <2>6, <3>2 DEF WrapperEach
    <2>8. CASE ~taken
      <3>1. transducers' = transducers
        BY <2>1, <2>8 DEF Deliver, driver_vars
      <3>. QED BY <1>0, <2>6, <2>8, <3>1 DEF WrapperEach
    <2>. QED BY <2>7, <2>8
  <1>4. CASE ForeignReport(taken)
    <2>1. Deliver(Elements(frame), taken) /\ UNCHANGED <<descriptor, frame, surface, missed>>
      BY <1>4 DEF ForeignReport, device_vars
    <2>2. Unsent' = Unsent
      BY <2>1 DEF Unsent, Complete
    <2>3. CASE taken
      <3>. DEFINE S == Elements(frame).slots[1]
      <3>1. handleInterruptReport(Elements(frame))
        BY <2>1, <2>3 DEF Deliver
      <3>2. /\ transducers'[S.id][1] = S /\ S.id \in Wrappers
            /\ \A w \in Wrappers \ {S.id} : transducers'[w] = transducers[w]
            /\ S.tip => S \in frame.contacts
        BY <1>0, <1>2, <2>1, <3>1
      <3> HIDE DEF S
      <3>. QED BY <1>0, <2>1, <2>2, <3>2 DEF WrapperEach, TipsAreTold
    <2>4. CASE ~taken
      BY <1>0, <2>1, <2>2, <2>4 DEF Deliver, driver_vars, WrapperEach
    <2>. QED BY <2>3, <2>4
  <1>. QED BY <1>3, <1>4 DEF Report, Advances

LEMMA PhantomStep == PInv /\ [Next]_frame_vars => PInv'
  <1> SUFFICES ASSUME PInv, [Next]_frame_vars PROVE PInv'
    OBVIOUS
  <1>0. /\ WInv' /\ IInv /\ Typed /\ Divided' /\ descriptor \in Descriptors /\ IsFrame(frame)
        /\ TipsAreTold /\ OneWrapper /\ WrapperEach
    BY WholeStep DEF PInv, WInv, IInv, Typed, DeviceTyped
  <1>1. UNCHANGED descriptor
    BY DEF Next, Report, Frame, NextReport, ForeignReport, DeviceReset, Started, Ignore,
           Dropping, frame_vars
  <1>2. /\ N' = N /\ fingers' = fingers /\ wrapper_count' = wrapper_count
        /\ Wrappers' = Wrappers
    BY <1>1, SameDescriptor
  <1>3. ASSUME Report(Taken) PROVE TipsAreTold' /\ OneWrapper' /\ WrapperEach'
    <2>0. Taken \in BOOLEAN
      BY <1>0 DEF Taken, Typed, DriverTyped
    <2>1. TipsAreTold'
      <3>1. CASE Advances(Taken)
        BY <1>0, <3>1, AdvanceFacts DEF TipsAreTold
      <3>2. CASE ForeignReport(Taken)
        BY <1>0, <3>2 DEF ForeignReport, device_vars, TipsAreTold
      <3>. QED BY <1>3, <3>1, <3>2 DEF Report, Advances
    <2>2. OneWrapper'
      BY <1>0, <1>2, <1>3, <2>0, OneWrapperStep DEF OneWrapper
    <2>3. WrapperEach'
      BY <1>0, <1>2, <1>3, <2>0, WrapperEachStep DEF WrapperEach
    <2>. QED BY <2>1, <2>2, <2>3
  <1>4. ASSUME DeviceReset PROVE TipsAreTold' /\ OneWrapper' /\ WrapperEach'
    <2>1. /\ UNCHANGED transducers /\ Complete(frame)' /\ frame'.contacts = frame.contacts
          /\ surface \cup missed \subseteq missed'
      BY <1>0, <1>4 DEF DeviceReset, driver_vars, Complete, IsFrame
    <2>2. N = 1 => Unsent \subseteq missed'
      <3> SUFFICES ASSUME N = 1 PROVE Unsent \subseteq missed'
        OBVIOUS
      <3>1. frame.sent * descriptor.collections = frame.sent
        BY <1>0 DEF N, IsFrame
      <3>. QED BY <1>4, <3>1 DEF DeviceReset, Unsent
    <2>3. TipsAreTold'
      BY <1>0, <2>1 DEF TipsAreTold
    <2>4. OneWrapper'
      BY <1>0, <1>2, <2>1 DEF OneWrapper
    <2>5. WrapperEach'
      BY <1>0, <1>2, <2>1, <2>2 DEF WrapperEach
    <2>. QED BY <2>3, <2>4, <2>5
  <1>5. ASSUME Started \/ Ignore \/ UNCHANGED frame_vars
        PROVE  TipsAreTold' /\ OneWrapper' /\ WrapperEach'
    <2>1. UNCHANGED <<transducers, frame, surface, missed>>
      BY <1>5 DEF Started, Ignore, Dropping, frame_vars, driver_vars, device_vars, history_vars
    <2>. QED BY <1>0, <1>2, <2>1 DEF TipsAreTold, OneWrapper, WrapperEach, Unsent, Complete
  <1>. QED BY <1>0, <1>3, <1>4, <1>5 DEF Next, PInv

\* A tip that the driver shows once a frame is over is on the surface, or its lift
\* was in a report that was dropped or never sent: on every digitiser whose
\* collections divide its contacts and that has one contact, or all of them, in a
\* report (handleDigitizerReport, DeviceReset).
THEOREM NoTipStays == Divides => (Spec => []NoPhantom)
  <1>1. Divides /\ Init => PInv
    <2> SUFFICES ASSUME Divides, Init PROVE PInv
      OBVIOUS
    <2>1. WInv
      BY InitInv, DividedInit DEF WInv, StoredSoFar, EventIsLast, Init
    <2>2. \A w \in Wrappers, s \in 1..fingers : ~transducers[w][s].tip
      BY DEF Init, Blank
    <2>3. 1 \in 1..fingers /\ (wrapper_count = 1 => 0 \in Wrappers)
      <3>1. descriptor \in Descriptors
        BY DEF Init
      <3>. QED BY <3>1, Geometry DEF Wrappers
    <2>4. TipsAreTold /\ OneWrapper /\ WrapperEach
      BY <2>2, <2>3 DEF Init, TipsAreTold, OneWrapper, WrapperEach
    <2>. QED BY <2>1, <2>4 DEF PInv
  <1>2. PInv => NoPhantom
    <2> SUFFICES ASSUME PInv, Complete(frame), fingers = 1 \/ wrapper_count = 1,
                        NEW w \in Wrappers, NEW s \in 1..fingers, transducers[w][s].tip
                 PROVE  transducers[w][s].id \in surface \cup missed
      BY DEF NoPhantom
    <2>1. descriptor \in Descriptors
      BY DEF PInv, WInv, IInv, Typed
    <2>2. /\ N \in 1..255 /\ M \in 1..255 /\ fingers = IF M < N THEN M ELSE N
          /\ wrapper_count = M \div fingers
      BY <2>1, Geometry DEF wrapper_count, M
    <2>3. CASE wrapper_count = 1
      <3>1. w = 0
        BY <2>3 DEF Wrappers
      <3>. QED BY <2>3, <3>1 DEF PInv, OneWrapper
    <2>4. CASE N = 1
      <3>1. fingers = 1 /\ s = 1
        BY <2>2, <2>4
      <3>2. transducers[w][1].id = w /\ w \in surface \cup missed \cup Unsent
        BY <2>4, <3>1 DEF PInv, WrapperEach
      <3>. QED BY <3>1, <3>2 DEF Unsent
    <2>5. wrapper_count = 1 \/ N = 1
      <3>1. CASE M < N /\ fingers = 1
        <4>1. M = 1
          BY <2>2, <3>1
        <4>. QED BY <2>2, <3>1, <4>1
      <3>2. CASE ~(M < N) /\ fingers = 1
        BY <2>2, <3>2
      <3>. QED BY <3>1, <3>2
    <2>. QED BY <2>3, <2>4, <2>5
  <1>. QED BY <1>1, <1>2, PhantomStep, PTL DEF Spec
=============================================================================
