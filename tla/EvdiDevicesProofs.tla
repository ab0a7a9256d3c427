-------------------------- MODULE EvdiDevicesProofs --------------------------
(***************************************************************************)
(* The safety properties of EvdiDevices, for any number of sessions, cards *)
(* and devices.                                                            *)
(*                                                                         *)
(* Numbers says that a search never passes a device nobody has opened, and *)
(* that such a device has its node; Counting that there is one device for  *)
(* every session that had one added, and at most one was opened per        *)
(* session that has opened any.  Together they make a search succeed: a    *)
(* session that searches is not among those that have opened a device.     *)
(* Exclusive holds as long as no two sessions connect at once: the devices *)
(* in use are numbered up to lastNumber, and searches go beyond it.        *)
(*                                                                         *)
(* The second part is about EvdiFrames, for any modes and any number of    *)
(* events that wait: an event that names another state than that the       *)
(* desktop is in has one behind it that names the right one (EventsSettle).*)
(***************************************************************************)
EXTENDS EvdiDevices, EvdiFrames, FiniteSetTheorems, TLAPS

Started == {s \in Sessions : st[s] # "add"}

Openers == {s \in Sessions : st[s] \in {"record", "serving", "remove", "done"}}

Bounds ==
    /\ lastNumber < Foreign + added
    /\ refused => added = Limit
    /\ ~refused =>
         \A s \in Sessions : Connecting(s) => dev[s] < Foreign + added

Numbers ==
    /\ \A d \in Devices : d <= lastNumber => d \in opened
    /\ \A s \in Sessions : Connecting(s) =>
         \A d \in Devices : d < dev[s] => d \in opened
    /\ \A s \in Sessions : st[s] \in {"open", "record", "serving", "remove"} =>
         dev[s] \in Devices
    /\ \A s \in Sessions : st[s] \in {"record", "serving", "remove"} =>
         dev[s] \in opened
    /\ \A d \in Devices : d \in opened \/ d \in nodes

Counting ==
    /\ ~refused => Cardinality(Started) <= added
    /\ Cardinality(opened) <= Cardinality(Openers)

Exclusive ==
    ~overlapped =>
        /\ \A s, t \in Sessions : Connecting(s) /\ Connecting(t) => s = t
        /\ \A s \in Sessions : Connecting(s) => lastNumber < dev[s]
        /\ \A s \in Sessions : st[s] \in {"serving", "remove"} =>
             dev[s] <= lastNumber
        /\ \A s \in Sessions : st[s] \in {"record", "serving"} =>
             shows[dev[s]] = {s}
        /\ \A s \in Sessions : st[s] = "open" => dev[s] \in nodes

IInv ==
    /\ TypeOK
    /\ Bounds
    /\ Numbers
    /\ Counting
    /\ Exclusive
    /\ OpenedIsThere
    /\ ExceptionNeedsRefusal

Step(s) ==
    \/ Add(s) \/ ReadLast(s) \/ Skip(s) \/ Found(s) \/ SearchFails(s)
    \/ Open(s) \/ OpenFails(s) \/ Record(s) \/ Close(s) \/ Remove(s)

LEMMA InitIInv == Init => IInv
<1> SUFFICES ASSUME Init PROVE IInv
  OBVIOUS
<1> USE ConstantsAssumption DEF Init
<1>1. Devices = {}
  BY DEF Devices
<1>2. TypeOK
  <2>1. lastNumber \in -1 .. Threshold - 1 /\ added \in 0 .. Limit
    OBVIOUS
  <2>2. nodes \subseteq Devices /\ opened \subseteq Devices
    OBVIOUS
  <2>3. shows \in [0 .. Threshold -> SUBSET Sessions]
    OBVIOUS
  <2>4. dev \in [Sessions -> 0 .. Threshold]
    OBVIOUS
  <2>5. refused \in BOOLEAN /\ overlapped \in BOOLEAN
    OBVIOUS
  <2> QED
    BY <2>1, <2>2, <2>3, <2>4, <2>5 DEF TypeOK
<1>3. Bounds /\ Numbers /\ Exclusive
  BY <1>1 DEF Bounds, Numbers, Exclusive, Connecting
<1>4. Started = {} /\ Openers = {}
  BY DEF Started, Openers
<1>5. Counting
  BY <1>4, FS_EmptySet DEF Counting
<1> QED
  BY <1>2, <1>3, <1>5 DEF IInv, OpenedIsThere, ExceptionNeedsRefusal

LEMMA CountDevices ==
    ASSUME added \in Nat
    PROVE  IsFiniteSet(Devices) /\ Cardinality(Devices) = added
<1>1. Foreign \in Int /\ Foreign + added - 1 \in Int
  BY ConstantsAssumption
<1>2. /\ IsFiniteSet(Foreign .. Foreign + added - 1)
      /\ Cardinality(Foreign .. Foreign + added - 1) =
           IF Foreign > Foreign + added - 1 THEN 0
           ELSE Foreign + added - 1 - Foreign + 1
  BY <1>1, FS_Interval
<1> QED
  BY <1>2, ConstantsAssumption DEF Devices

LEMMA AddsOne ==
    ASSUME added \in Nat, added' = added + 1
    PROVE  Devices' = Devices \cup {Foreign + added}
  BY ConstantsAssumption DEF Devices

\* A session that has had a device added and has not opened one finds one.
LEMMA DeviceIsLeft ==
    ASSUME IInv, ~refused, NEW s \in Sessions, st[s] \in {"read", "search"}
    PROVE  \E d \in Devices : d \notin opened
<1> USE ConstantsAssumption DEF IInv, TypeOK
<1>1. IsFiniteSet(Started) /\ Openers \in SUBSET Started /\ Openers # Started
  <2>1. IsFiniteSet(Started)
    BY FS_Subset DEF Started
  <2>2. s \in Started /\ s \notin Openers
    BY DEF Started, Openers
  <2> QED
    BY <2>1, <2>2 DEF Started, Openers
<1>2. /\ Cardinality(Openers) \in Nat
      /\ Cardinality(Started) \in Nat
      /\ Cardinality(Openers) < Cardinality(Started)
  <2>1. IsFiniteSet(Openers) /\ Cardinality(Openers) <= Cardinality(Started)
                             /\ Cardinality(Openers) # Cardinality(Started)
    BY <1>1, FS_Subset
  <2>2. Cardinality(Openers) \in Nat /\ Cardinality(Started) \in Nat
    BY <1>1, <2>1, FS_CardinalityType
  <2> QED
    BY <2>1, <2>2
<1>3. IsFiniteSet(Devices) /\ Cardinality(Devices) = added
  BY CountDevices
<1>4. opened # Devices
  BY <1>2, <1>3 DEF Counting
<1> QED
  BY <1>4

LEMMA BoundsKept ==
    ASSUME IInv, NEW s \in Sessions, Step(s)
    PROVE  Bounds'
<1> USE ConstantsAssumption DEF IInv, TypeOK, Bounds, Numbers, Connecting, Goto,
            Devices
<1>1. CASE Add(s)
  BY <1>1 DEF Add
<1>2. CASE ReadLast(s)
  <2>1. CASE refused
    BY <1>2, <2>1 DEF ReadLast
  <2>2. CASE ~refused
    <3>1. PICK d \in Devices : d \notin opened
      BY <1>2, <2>2, DeviceIsLeft DEF ReadLast
    <3>2. lastNumber < d
      BY <3>1
    <3> QED
      BY <1>2, <2>2, <3>1, <3>2 DEF ReadLast
  <2> QED
    BY <2>1, <2>2
<1>3. CASE Skip(s)
  <2>1. CASE refused
    BY <1>3, <2>1 DEF Skip
  <2>2. CASE ~refused
    <3>1. PICK d \in Devices : d \notin opened
      BY <1>3, <2>2, DeviceIsLeft DEF Skip
    <3>2. dev[s] < d
      BY <1>3, <3>1 DEF Skip
    <3> QED
      BY <1>3, <2>2, <3>1, <3>2 DEF Skip
  <2> QED
    BY <2>1, <2>2
<1>4. CASE Found(s)
  BY <1>4 DEF Found
<1>5. CASE SearchFails(s)
  BY <1>5 DEF SearchFails
<1>6. CASE Open(s)
  BY <1>6 DEF Open
<1>7. CASE OpenFails(s)
  BY <1>7 DEF OpenFails
<1>8. CASE Record(s)
  BY <1>8 DEF Record
<1>9. CASE Close(s)
  BY <1>9 DEF Close
<1>10. CASE Remove(s)
  BY <1>10 DEF Remove
<1> QED
  BY <1>1, <1>2, <1>3, <1>4, <1>5, <1>6, <1>7, <1>8, <1>9, <1>10 DEF Step

LEMMA TypeKept ==
    ASSUME IInv, NEW s \in Sessions, Step(s)
    PROVE  TypeOK'
<1> USE ConstantsAssumption DEF IInv, TypeOK, Numbers, Goto, Devices
<1>1. CASE Add(s)
  <2>1. CASE added < Limit
    <3>1. Devices' = Devices \cup {Foreign + added}
      BY <1>1, <2>1, AddsOne DEF Add
    <3> HIDE DEF Devices
    <3> QED
      BY <1>1, <2>1, <3>1 DEF Add
  <2>2. CASE ~(added < Limit)
    <3>1. refused' \in BOOLEAN
      BY <1>1, <2>2, Zenon DEF Add
    <3>2. UNCHANGED <<added, nodes>>
      BY <1>1, <2>2 DEF Add
    <3> QED
      BY <1>1, <3>1, <3>2 DEF Add
  <2> QED
    BY <2>1, <2>2
<1>2. CASE ReadLast(s)
  <2>1. overlapped' \in BOOLEAN
    BY <1>2 DEF ReadLast
  <2> QED
    BY <1>2, <2>1 DEF ReadLast
<1>3. CASE Skip(s)
  BY <1>3 DEF Skip
<1>4. CASE Found(s)
  BY <1>4 DEF Found
<1>5. CASE SearchFails(s)
  BY <1>5 DEF SearchFails
<1>6. CASE Open(s)
  BY <1>6 DEF Open
<1>7. CASE OpenFails(s)
  BY <1>7 DEF OpenFails
<1>8. CASE Record(s)
  BY <1>8 DEF Record
<1>9. CASE Close(s)
  BY <1>9 DEF Close
<1>10. CASE Remove(s)
  BY <1>10 DEF Remove
<1> QED
  BY <1>1, <1>2, <1>3, <1>4, <1>5, <1>6, <1>7, <1>8, <1>9, <1>10 DEF Step

LEMMA NumbersKept ==
    ASSUME IInv, NEW s \in Sessions, Step(s)
    PROVE  Numbers'
<1> USE ConstantsAssumption DEF IInv, TypeOK, Bounds, Numbers, Connecting, Goto,
            Devices
<1>1. CASE Add(s)
  <2>1. CASE added < Limit
    <3>1. Devices' = Devices \cup {Foreign + added}
      BY <1>1, <2>1, AddsOne DEF Add
    <3> HIDE DEF Devices
    <3> QED
      BY <1>1, <2>1, <3>1 DEF Add
  <2>2. CASE added >= Limit
    BY <1>1, <2>2 DEF Add
  <2> QED
    BY <2>1, <2>2
<1>2. CASE ReadLast(s)
  BY <1>2 DEF ReadLast
<1>3. CASE Skip(s)
  BY <1>3 DEF Skip
<1>4. CASE Found(s)
  BY <1>4 DEF Found
<1>5. CASE SearchFails(s)
  BY <1>5 DEF SearchFails
<1>6. CASE Open(s)
  BY <1>6 DEF Open
<1>7. CASE OpenFails(s)
  BY <1>7 DEF OpenFails
<1>8. CASE Record(s)
  BY <1>8 DEF Record
<1>9. CASE Close(s)
  BY <1>9 DEF Close
<1>10. CASE Remove(s)
  BY <1>10 DEF Remove
<1> QED
  BY <1>1, <1>2, <1>3, <1>4, <1>5, <1>6, <1>7, <1>8, <1>9, <1>10 DEF Step

LEMMA ExclusiveKept ==
    ASSUME IInv, NEW s \in Sessions, Step(s)
    PROVE  Exclusive'
<1> USE ConstantsAssumption DEF IInv, TypeOK, Bounds, Numbers, Exclusive,
            Connecting, Goto, Devices
<1>1. CASE Add(s)
  BY <1>1 DEF Add
<1>2. CASE ReadLast(s)
  <2> SUFFICES ASSUME ~overlapped' PROVE Exclusive'
    OBVIOUS
  <2>1. ~overlapped /\ \A t \in Sessions : ~Connecting(t)
    BY <1>2 DEF ReadLast
  <2> QED
    BY <1>2, <2>1 DEF ReadLast
<1>3. CASE Skip(s)
  BY <1>3 DEF Skip
<1>4. CASE Found(s)
  BY <1>4 DEF Found
<1>5. CASE SearchFails(s)
  BY <1>5 DEF SearchFails
<1>6. CASE Open(s)
  BY <1>6 DEF Open
<1>7. CASE OpenFails(s)
  BY <1>7 DEF OpenFails
<1>8. CASE Record(s)
  BY <1>8 DEF Record
<1>9. CASE Close(s)
  BY <1>9 DEF Close
<1>10. CASE Remove(s)
  BY <1>10 DEF Remove
<1> QED
  BY <1>1, <1>2, <1>3, <1>4, <1>5, <1>6, <1>7, <1>8, <1>9, <1>10 DEF Step

LEMMA CountingKept ==
    ASSUME IInv, NEW s \in Sessions, Step(s)
    PROVE  Counting'
<1> USE DEF IInv, TypeOK, Goto
<1>1. /\ IsFiniteSet(Started) /\ Cardinality(Started) \in Nat
      /\ IsFiniteSet(Openers) /\ Cardinality(Openers) \in Nat
  <2>1. IsFiniteSet(Started) /\ IsFiniteSet(Openers)
    BY ConstantsAssumption, FS_Subset DEF Started, Openers
  <2> QED
    BY <2>1, FS_CardinalityType
<1>2. CASE Add(s)
  <2>1. Started' = Started \cup {s} /\ s \notin Started
    BY <1>2 DEF Add, Started
  <2>2. Cardinality(Started') = Cardinality(Started) + 1
    BY <1>1, <2>1, FS_AddElement
  <2>3. Openers' = Openers /\ opened' = opened
    BY <1>2 DEF Add, Openers
  <2>4. ~refused' => ~refused /\ added' = added + 1 /\ added \in Nat
    BY <1>2, ConstantsAssumption DEF Add
  <2> QED
    BY <1>1, <2>2, <2>3, <2>4 DEF Counting
<1>3. CASE Open(s)
  <2>1. Openers' = Openers \cup {s} /\ s \notin Openers
    BY <1>3 DEF Open, Openers
  <2>2. Cardinality(Openers') = Cardinality(Openers) + 1
    BY <1>1, <2>1, FS_AddElement
  <2>3. IsFiniteSet(opened)
    BY ConstantsAssumption, CountDevices, FS_Subset
  <2>4. /\ Cardinality(opened) \in Nat
        /\ Cardinality(opened') = Cardinality(opened)
             \/ Cardinality(opened') = Cardinality(opened) + 1
    BY <1>3, <2>3, FS_AddElement, FS_CardinalityType DEF Open
  <2>5. Started' = Started /\ added' = added /\ refused' = refused
    BY <1>3 DEF Open, Started
  <2> QED
    BY <1>1, <2>2, <2>4, <2>5 DEF Counting
<1>4. CASE ReadLast(s) \/ Skip(s) \/ Found(s) \/ SearchFails(s) \/ OpenFails(s)
           \/ Record(s) \/ Close(s) \/ Remove(s)
  <2>1. Started' = Started /\ Openers' = Openers
    BY <1>4
    DEF ReadLast, Skip, Found, SearchFails, OpenFails, Record, Close, Remove,
        Started, Openers
  <2>2. UNCHANGED <<added, refused, opened>>
    BY <1>4
    DEF ReadLast, Skip, Found, SearchFails, OpenFails, Record, Close, Remove
  <2> QED
    BY <2>1, <2>2 DEF Counting
<1> QED
  BY <1>2, <1>3, <1>4 DEF Step

LEMMA NextIInv == IInv /\ [Next]_vars => IInv'
<1> SUFFICES ASSUME IInv, [Next]_vars PROVE IInv'
  OBVIOUS
<1>1. CASE UNCHANGED vars
  BY <1>1
  DEF vars, IInv, TypeOK, Bounds, Numbers, Counting, Exclusive, OpenedIsThere,
      ExceptionNeedsRefusal, Devices, Connecting, Started, Openers
<1>2. ASSUME NEW s \in Sessions, Step(s) PROVE IInv'
  <2> USE <1>2 DEF IInv, TypeOK, Goto, Step
  <2>1. OpenedIsThere'
    BY ConstantsAssumption
    DEF OpenedIsThere, Exclusive, Add, ReadLast, Skip, Found, SearchFails, Open,
        OpenFails, Record, Close, Remove
  <2>2. ExceptionNeedsRefusal'
    BY ConstantsAssumption
    DEF ExceptionNeedsRefusal, Bounds, Connecting, Add, ReadLast, Skip, Found,
        SearchFails, Open, OpenFails, Record, Close, Remove
  <2> QED
    BY <2>1, <2>2, BoundsKept, TypeKept, NumbersKept, ExclusiveKept,
       CountingKept
<1>3. CASE Restart
  <2>1. Started' = Started /\ Openers' = Openers
    BY <1>3 DEF Restart, Started, Openers
  <2> QED
    BY <1>3, <2>1, ConstantsAssumption
    DEF Restart, IInv, TypeOK, Bounds, Numbers, Counting, Exclusive,
        OpenedIsThere, ExceptionNeedsRefusal, Devices, Connecting
<1> QED
  BY <1>1, <1>2, <1>3 DEF Next, Step

THEOREM Invariance == Spec => []IInv
  BY InitIInv, NextIInv, PTL DEF Spec

-----------------------------------------------------------------------------
(* The results *)

\* The variables keep their types.
THEOREM TypeCorrect == Spec => []TypeOK
<1>1. IInv => TypeOK
  BY DEF IInv
<1> QED
  BY <1>1, Invariance, PTL

\* Sessions that connect one after the other do not share displays.
THEOREM Own == Spec => []DisplayIsOwn
<1>1. IInv => DisplayIsOwn
  BY DEF IInv, Exclusive, DisplayIsOwn
<1> QED
  BY <1>1, Invariance, PTL

\* Sessions that connect one after the other open devices that are there.
THEOREM Opened == Spec => []OpenedIsThere
<1>1. IInv => OpenedIsThere
  BY DEF IInv
<1> QED
  BY <1>1, Invariance, PTL

\* Searches end with a device as long as the kernel adds devices, even when
\* sessions connect at the same time.
THEOREM Searches == Spec => []ExceptionNeedsRefusal
<1>1. IInv => ExceptionNeedsRefusal
  BY DEF IInv
<1> QED
  BY <1>1, Invariance, PTL

-----------------------------------------------------------------------------
(* EvdiFrames: the queue of events *)

Event == [kind : {"mode"}, mode : Modes] \cup [kind : {"on", "off", "update"}]

\* Of the events of some kinds, what is not like e has an e behind it.
Settled(q, kinds, e) ==
    \A i \in DOMAIN q : q[i].kind \in kinds => q[i] = e \/ Follows(q, i, e)

LEMMA Appended ==
    ASSUME NEW S, NEW q \in Seq(S), NEW e \in S, NEW r, r = Append(q, e)
    PROVE  /\ r \in Seq(S) /\ Len(r) = Len(q) + 1
           /\ \A i, x : Follows(q, i, x) => Follows(r, i, x)
           /\ \A i \in 0 .. Len(q) : Follows(r, i, e)
<1>1. /\ r \in Seq(S) /\ Len(r) = Len(q) + 1 /\ Len(q) \in Nat
      /\ \A i \in 1 .. Len(q) : r[i] = q[i]
      /\ r[Len(q) + 1] = e
      /\ DOMAIN q = 1 .. Len(q) /\ DOMAIN r = 1 .. Len(q) + 1
  OBVIOUS
<1>2. ASSUME NEW i, NEW x, Follows(q, i, x) PROVE Follows(r, i, x)
  <2>1. PICK j \in DOMAIN q : i < j /\ q[j] = x
    BY <1>2 DEF Follows
  <2>2. j \in DOMAIN r /\ r[j] = x
    BY <1>1, <2>1
  <2> QED
    BY <2>1, <2>2 DEF Follows
<1>3. ASSUME NEW i \in 0 .. Len(q) PROVE Follows(r, i, e)
  <2>1. Len(q) + 1 \in DOMAIN r /\ i < Len(q) + 1
    BY <1>1
  <2> QED
    BY <1>1, <2>1 DEF Follows
<1> QED
  BY <1>1, <1>2, <1>3

LEMMA SettledAppended ==
    ASSUME NEW S, NEW q \in Seq(S), NEW e \in S, NEW r, r = Append(q, e),
           NEW kinds, NEW x, e = x \/ (e.kind \notin kinds /\ Settled(q, kinds, x))
    PROVE  Settled(r, kinds, x)
<1> SUFFICES ASSUME NEW i \in DOMAIN r, r[i].kind \in kinds
             PROVE  r[i] = x \/ Follows(r, i, x)
  BY DEF Settled
<1>1. /\ Len(q) \in Nat /\ DOMAIN q = 1 .. Len(q) /\ DOMAIN r = 1 .. Len(q) + 1
      /\ \A j \in 1 .. Len(q) : r[j] = q[j]
      /\ r[Len(q) + 1] = e
  OBVIOUS
<1>2. CASE i = Len(q) + 1
  BY <1>1, <1>2
<1>3. CASE i \in DOMAIN q
  <2>1. CASE e = x
    <3>1. i \in 0 .. Len(q)
      BY <1>1, <1>3
    <3> QED
      BY <2>1, <3>1, Appended
  <2>2. CASE e.kind \notin kinds /\ Settled(q, kinds, x)
    BY <1>1, <1>3, <2>2, Appended DEF Settled
  <2> QED
    BY <2>1, <2>2
<1> QED
  BY <1>1, <1>2, <1>3

LEMMA Shifted ==
    ASSUME NEW S, NEW q \in Seq(S), q # <<>>
    PROVE  /\ Tail(q) \in Seq(S) /\ Len(Tail(q)) = Len(q) - 1
           /\ Head(q) \in S
           /\ \A i \in Nat : \A x : Follows(q, i + 1, x) => Follows(Tail(q), i, x)
           /\ \A x : Follows(q, 0, x) => Head(q) = x \/ Follows(Tail(q), 0, x)
<1>1. /\ Tail(q) \in Seq(S) /\ Len(Tail(q)) = Len(q) - 1 /\ Len(q) \in Nat \ {0}
      /\ Head(q) \in S /\ Head(q) = q[1]
      /\ \A i \in 1 .. Len(q) - 1 : Tail(q)[i] = q[i + 1]
      /\ DOMAIN q = 1 .. Len(q) /\ DOMAIN Tail(q) = 1 .. Len(q) - 1
  OBVIOUS
<1>2. ASSUME NEW i \in Nat, NEW x, Follows(q, i + 1, x) PROVE Follows(Tail(q), i, x)
  <2>1. PICK j \in DOMAIN q : i + 1 < j /\ q[j] = x
    BY <1>2 DEF Follows
  <2>2. j - 1 \in DOMAIN Tail(q) /\ i < j - 1 /\ Tail(q)[j - 1] = x
    BY <1>1, <2>1
  <2> QED
    BY <2>2 DEF Follows
<1>3. ASSUME NEW x, Follows(q, 0, x) PROVE Head(q) = x \/ Follows(Tail(q), 0, x)
  <2>1. PICK j \in DOMAIN q : 0 < j /\ q[j] = x
    BY <1>3 DEF Follows
  <2>2. CASE j = 1
    BY <1>1, <2>1, <2>2
  <2>3. CASE j # 1
    <3>1. j - 1 \in DOMAIN Tail(q) /\ 0 < j - 1 /\ Tail(q)[j - 1] = x
      BY <1>1, <2>1, <2>3
    <3> QED
      BY <3>1 DEF Follows
  <2> QED
    BY <2>2, <2>3
<1> QED
  BY <1>1, <1>2, <1>3

LEMMA SettledShifted ==
    ASSUME NEW S, NEW q \in Seq(S), q # <<>>, NEW kinds, NEW x, Settled(q, kinds, x)
    PROVE  /\ Settled(Tail(q), kinds, x)
           /\ Head(q).kind \in kinds => Head(q) = x \/ Follows(Tail(q), 0, x)
<1>1. /\ Len(q) \in Nat \ {0} /\ Head(q) = q[1]
      /\ \A i \in 1 .. Len(q) - 1 : Tail(q)[i] = q[i + 1]
      /\ DOMAIN q = 1 .. Len(q) /\ DOMAIN Tail(q) = 1 .. Len(q) - 1
  OBVIOUS
<1>2. ASSUME NEW i \in DOMAIN Tail(q), Tail(q)[i].kind \in kinds
      PROVE  Tail(q)[i] = x \/ Follows(Tail(q), i, x)
  <2>1. i + 1 \in DOMAIN q /\ Tail(q)[i] = q[i + 1] /\ i \in Nat
    BY <1>1
  <2>2. q[i + 1] = x \/ Follows(q, i + 1, x)
    BY <1>2, <2>1 DEF Settled
  <2> QED
    BY <2>1, <2>2, Shifted
<1>3. ASSUME Head(q).kind \in kinds PROVE Head(q) = x \/ Follows(Tail(q), 0, x)
  <2>1. 1 \in DOMAIN q /\ 0 \in Nat /\ 0 + 1 = 1
    BY <1>1
  <2>2. q[1] = x \/ Follows(q, 0 + 1, x)
    BY <1>1, <1>3, <2>1 DEF Settled
  <2> QED
    BY <1>1, <2>1, <2>2, Shifted
<1> QED
  BY <1>2, <1>3 DEF Settled

-----------------------------------------------------------------------------
(* EvdiFrames: the invariant *)

Update == [kind |-> "update"]

\* The last event of the power, and of the mode, says what the desktop is in.
EventsSettle ==
    /\ Settled(events, {"on", "off"}, PowerEvent)
    /\ Settled(events, {"mode"}, ModeEvent)

OffIsAhead == ~pixelsWhenOff /\ ~on /\ ctx.enabled => Follows(events, 0, PowerEvent)

\* The kernel owes an update, or has sent it, for a request that waits.
Waking ==
    /\ ~(dirt /\ asked)
    /\ pc = "poll" => asked \/ Follows(events, 0, Update)

FramesInv ==
    /\ FramesTypeOK
    /\ pc # "ended" => mapFails < MapLimit
    /\ EventsSettle
    /\ OffIsAhead
    /\ PictureFits
    /\ Waking

LEMMA FramesInitInv == FramesInit => FramesInv
<1> SUFFICES ASSUME FramesInit PROVE FramesInv
  OBVIOUS
<1>1. FramesTypeOK /\ mapFails < MapLimit
  <2>1. /\ ctx \in [enabled : BOOLEAN, mode : Modes, picture : Modes \cup {None},
                    rects : {0, 1}]
        /\ mapFails \in 0 .. MapLimit /\ mapFails < MapLimit
    BY FramesAssumption DEF FramesInit
  <2>2. events = <<>> /\ batch \in 0 .. Len(events)
    BY DEF FramesInit
  <2>3. told = "nothing" /\ pc = "request" /\ desk \in Modes
        /\ {on, dirt, asked, pixelsWhenOff, changed} \subseteq BOOLEAN
    BY DEF FramesInit
  <2> QED
    BY <2>1, <2>2, <2>3 DEF FramesTypeOK
<1>2. EventsSettle
  BY DEF FramesInit, EventsSettle, Settled
<1> QED
  BY <1>1, <1>2 DEF FramesInit, FramesInv, OffIsAhead, PictureFits, Waking

LEMMA PaintKeeps == ASSUME FramesInv, Paint PROVE FramesInv'
<1> USE DEF FramesInv
<1>1. /\ events \in Seq(Event) /\ Update \in Event
      /\ PowerEvent' = PowerEvent /\ ModeEvent' = ModeEvent
      /\ Update.kind = "update" /\ batch \in 0 .. Len(events)
  BY DEF FramesTypeOK, Event, Update, Paint, desktop, PowerEvent, ModeEvent
<1>2. events' = events \/ events' = Append(events, Update)
  BY DEF Paint, Emits, Update
<1>3. /\ events' \in Seq(Event) /\ batch \in 0 .. Len(events')
      /\ \A i, x : Follows(events, i, x) => Follows(events', i, x)
  BY <1>1, <1>2, Appended
<1>4. FramesTypeOK' /\ (pc # "ended" => mapFails < MapLimit)'
  BY <1>3 DEF FramesTypeOK, Event, Paint, desktop, program
<1>5. EventsSettle'
  BY <1>1, <1>2, SettledAppended DEF EventsSettle
<1>6. OffIsAhead' /\ PictureFits'
  BY <1>1, <1>3 DEF OffIsAhead, PictureFits, Paint, desktop, program
<1>7. Waking'
  <2>1. asked => Follows(events', 0, Update)
    BY <1>1, Appended DEF Paint, Emits, Update
  <2> QED
    BY <1>3, <2>1 DEF Waking, Paint, program
<1> QED
  BY <1>4, <1>5, <1>6, <1>7

LEMMA SetModeKeeps == ASSUME FramesInv, SetMode PROVE FramesInv'
<1> USE DEF FramesInv
<1>1. /\ events \in Seq(Event) /\ ModeEvent' \in Event /\ PowerEvent' = PowerEvent
      /\ (ModeEvent').kind = "mode" /\ batch \in 0 .. Len(events)
      /\ events' = Append(events, ModeEvent')
  BY DEF FramesTypeOK, Event, SetMode, Emits, PowerEvent, ModeEvent
<1>2. /\ events' \in Seq(Event) /\ batch \in 0 .. Len(events')
      /\ \A i, x : Follows(events, i, x) => Follows(events', i, x)
  <2>1. PICK e \in Event : events' = Append(events, e)
    BY <1>1
  <2>2. events' \in Seq(Event) /\ Len(events') = Len(events) + 1
    BY <1>1, <2>1
  <2>3. \A i, x : Follows(events, i, x) => Follows(events', i, x)
    BY <1>1, <2>1, Appended
  <2> QED
    BY <1>1, <2>2, <2>3
<1>3. FramesTypeOK' /\ (pc # "ended" => mapFails < MapLimit)'
  BY <1>2 DEF FramesTypeOK, Event, SetMode, program
<1>4. EventsSettle'
  BY <1>1, SettledAppended DEF EventsSettle
<1>5. OffIsAhead' /\ PictureFits' /\ Waking'
  BY <1>1, <1>2 DEF OffIsAhead, PictureFits, Waking, SetMode, program
<1> QED
  BY <1>3, <1>4, <1>5

LEMMA SwitchPowerKeeps == ASSUME FramesInv, SwitchPower PROVE FramesInv'
<1> USE DEF FramesInv
<1>1. /\ events \in Seq(Event) /\ PowerEvent' \in Event /\ ModeEvent' = ModeEvent
      /\ (PowerEvent').kind \in {"on", "off"} /\ batch \in 0 .. Len(events)
      /\ events' = Append(events, PowerEvent')
  BY DEF FramesTypeOK, Event, SwitchPower, Emits, PowerEvent, ModeEvent
<1>2. /\ events' \in Seq(Event) /\ batch \in 0 .. Len(events')
      /\ \A i, x : Follows(events, i, x) => Follows(events', i, x)
      /\ Follows(events', 0, PowerEvent')
  <2>1. PICK e \in Event : e = PowerEvent' /\ events' = Append(events, e)
    BY <1>1
  <2>2. events' \in Seq(Event) /\ Len(events') = Len(events) + 1
    BY <1>1, <2>1
  <2>3. /\ \A i, x : Follows(events, i, x) => Follows(events', i, x)
        /\ Follows(events', 0, e)
    <3>1. 0 \in 0 .. Len(events)
      BY <1>1
    <3> QED
      BY <1>1, <2>1, <3>1, Appended
  <2> QED
    BY <1>1, <2>1, <2>2, <2>3
<1>3. FramesTypeOK' /\ (pc # "ended" => mapFails < MapLimit)'
  BY <1>2 DEF FramesTypeOK, Event, SwitchPower, program
<1>4. EventsSettle'
  BY <1>1, SettledAppended DEF EventsSettle
<1>5. OffIsAhead' /\ PictureFits' /\ Waking'
  BY <1>1, <1>2 DEF OffIsAhead, PictureFits, Waking, SwitchPower, program
<1> QED
  BY <1>3, <1>4, <1>5

\* What a grab does to the context.
LEMMA Grabs ==
    ASSUME FramesTypeOK, NEW c, c = ctx
    PROVE  /\ Grab(c) \in [enabled : BOOLEAN, mode : Modes, picture : Modes \cup {None},
                           rects : {0, 1}]
           /\ Grab(c).enabled = c.enabled /\ Grab(c).mode = c.mode
           /\ Grab(c).picture \in {c.picture, c.mode}
           /\ Grab(c).rects # 0 => on \/ pixelsWhenOff
  BY DEF FramesTypeOK, Grab

\* The loop goes on, and leaves the events to be handled where they are.
LEMMA LoopKeeps ==
    ASSUME FramesInv, FramesTypeOK', UNCHANGED <<events, desktop>>, PictureFits',
           ctx'.enabled => ctx.enabled \/ on \/ pixelsWhenOff,
           pc' # "ended" => mapFails' < MapLimit, Waking'
    PROVE  FramesInv'
  BY DEF FramesInv, desktop, EventsSettle, OffIsAhead, PowerEvent, ModeEvent

LEMMA RequestsKeep == ASSUME FramesInv, RequestReady \/ RequestWaits PROVE FramesInv'
<1> USE DEF FramesInv
<1>1. CASE RequestReady
  <2>1. /\ UNCHANGED <<events, desktop, mapFails>> /\ pc = "request" /\ pc' = "map"
        /\ dirt' = FALSE /\ ctx' = [Grab(ctx) EXCEPT !.enabled = @ \/ Grab(ctx).rects # 0]
    BY <1>1 DEF RequestReady, FrameStep
  <2>2. FramesTypeOK' /\ PictureFits'
        /\ (ctx'.enabled => ctx.enabled \/ on \/ pixelsWhenOff)
    BY <1>1, <2>1, Grabs DEF FramesTypeOK, PictureFits, RequestReady, desktop
  <2> QED
    BY <2>1, <2>2, LoopKeeps DEF Waking
<1>2. CASE RequestWaits
  <2>1. FramesTypeOK' /\ Waking' /\ pc = "request" /\ PictureFits'
        /\ UNCHANGED <<events, desktop, ctx, mapFails>>
    BY <1>2 DEF RequestWaits, FrameStep, FramesTypeOK, Waking, desktop, PictureFits
  <2> QED
    BY <2>1, LoopKeeps
<1> QED
  BY <1>1, <1>2

LEMMA LoopStepsKeep ==
    ASSUME FramesInv,
           PollTimesOut \/ PollFails \/ ReadEvents \/ EventsHandled \/ Map \/ MapFails
           \/ CompressFails
    PROVE  FramesInv'
<1> USE DEF FramesInv
<1>1. UNCHANGED <<events, desktop, ctx, dirt, asked>> /\ pc # "ended" /\ pc' # "poll"
  BY DEF PollTimesOut, PollFails, ReadEvents, EventsHandled, Map, MapFails, CompressFails,
         FrameStep
<1>2. PictureFits' /\ Waking'
  BY <1>1 DEF PictureFits, Waking
<1>3. /\ mapFails' \in 0 .. MapLimit
      /\ pc' # "ended" => mapFails' < MapLimit
      /\ pc' \in {"request", "poll", "handle", "map", "ended"}
  BY <1>1, FramesAssumption
     DEF PollTimesOut, PollFails, ReadEvents, EventsHandled, Map, MapFails, CompressFails,
         FrameStep, FramesTypeOK
<1>4. batch' \in 0 .. Len(events')
  <2>1. Len(events) \in Nat /\ batch' \in {batch, Len(events)}
    BY DEF PollTimesOut, PollFails, ReadEvents, EventsHandled, Map, MapFails, CompressFails,
           FramesTypeOK
  <2> QED
    BY <1>1, <2>1 DEF FramesTypeOK
<1>5. told' \in {"nothing", "off", None} \cup Modes /\ changed' \in BOOLEAN
  <2>1. told' \in {told, "off", ctx.picture} /\ ctx.picture \in Modes \cup {None}
    BY DEF PollTimesOut, PollFails, ReadEvents, EventsHandled, Map, MapFails, CompressFails,
           FramesTypeOK
  <2>2. changed' \in BOOLEAN
    BY DEF PollTimesOut, PollFails, ReadEvents, EventsHandled, Map, MapFails, CompressFails,
           FramesTypeOK
  <2> QED
    BY <2>1, <2>2 DEF FramesTypeOK
<1>6. FramesTypeOK'
  BY <1>1, <1>3, <1>4, <1>5 DEF FramesTypeOK, desktop
<1> QED
  BY <1>1, <1>2, <1>3, <1>6, LoopKeeps

LEMMA HandleEventKeeps == ASSUME FramesInv, HandleEvent PROVE FramesInv'
<1> USE DEF FramesInv
<1> DEFINE e == Head(events)
<1>1. /\ pc = "handle" /\ pc' = "handle" /\ batch \in 1 .. Len(events)
      /\ events \in Seq(Event) /\ events # <<>>
      /\ events' = Tail(events) /\ batch' = batch - 1 /\ ctx' = Handle(ctx, e)
      /\ UNCHANGED <<desktop, changed, asked, mapFails, told>>
      /\ dirt' \in BOOLEAN /\ (dirt' => dirt)
  BY DEF HandleEvent, FrameStep, FramesTypeOK, Event
<1>2. /\ events' \in Seq(Event) /\ Len(events') = Len(events) - 1 /\ e \in Event
      /\ \A x : Follows(events, 0, x) => e = x \/ Follows(events', 0, x)
  BY <1>1, Shifted
<1>3. /\ ctx' \in [enabled : BOOLEAN, mode : Modes, picture : Modes \cup {None},
                   rects : {0, 1}]
      /\ ctx'.picture \in {None, ctx'.mode}
      /\ ctx'.enabled = IF e.kind \in {"on", "off"} THEN e.kind = "on" ELSE ctx.enabled
  <2>1. CASE e.kind = "mode"
    BY <1>1, <1>2, <2>1 DEF Handle, ModeHandler, FramesTypeOK, Event
  <2>2. CASE e.kind = "update"
    BY <1>1, <1>2, <2>2, Grabs DEF Handle, UpdateHandler, FramesTypeOK, PictureFits
  <2>3. CASE e.kind \in {"on", "off"}
    BY <1>1, <1>2, <2>3 DEF Handle, DpmsHandler, FramesTypeOK, PictureFits
  <2> QED
    BY <1>2, <2>1, <2>2, <2>3 DEF Event
<1>4. FramesTypeOK' /\ PictureFits' /\ (pc # "ended" => mapFails < MapLimit)' /\ Waking'
  BY <1>1, <1>2, <1>3 DEF FramesTypeOK, Event, PictureFits, Waking, desktop
<1>5. PowerEvent' = PowerEvent /\ ModeEvent' = ModeEvent
  BY <1>1 DEF PowerEvent, ModeEvent, desktop
<1>6. EventsSettle'
  BY <1>1, <1>5, SettledShifted DEF EventsSettle
<1>7. OffIsAhead'
  <2> SUFFICES ASSUME ~pixelsWhenOff, ~on, ctx'.enabled
               PROVE  Follows(events', 0, PowerEvent)
    BY <1>1, <1>5 DEF OffIsAhead, desktop
  <2>1. PowerEvent.kind = "off"
    BY DEF PowerEvent
  <2>2. CASE e.kind \in {"on", "off"}
    BY <1>1, <1>3, <2>1, <2>2, SettledShifted DEF EventsSettle
  <2>3. CASE e.kind \notin {"on", "off"}
    BY <1>2, <1>3, <2>1, <2>3 DEF OffIsAhead
  <2> QED
    BY <2>2, <2>3
<1> QED
  BY <1>4, <1>6, <1>7

LEMMA FramesNextInv == FramesInv /\ [FramesNext]_frameVars => FramesInv'
<1> SUFFICES ASSUME FramesInv, [FramesNext]_frameVars PROVE FramesInv'
  OBVIOUS
<1>1. CASE UNCHANGED frameVars
  BY <1>1 DEF frameVars, FramesInv, FramesTypeOK, EventsSettle, OffIsAhead, PictureFits,
     Waking, PowerEvent, ModeEvent
<1>2. CASE Desktop
  BY <1>2, PaintKeeps, SetModeKeeps, SwitchPowerKeeps DEF Desktop
<1>3. CASE Loop \/ PollFails \/ CompressFails
  BY <1>3, RequestsKeep, LoopStepsKeep, HandleEventKeeps DEF Loop
<1> QED
  BY <1>1, <1>2, <1>3 DEF FramesNext

LEMMA FramesInvariance == FramesSpec => []FramesInv
  BY FramesInitInv, FramesNextInv, PTL DEF FramesSpec

\* Every variable of the frame loop, the desktop and the kernel keeps its type.
THEOREM FramesTypes == FramesSpec => []FramesTypeOK
<1>1. FramesInv => FramesTypeOK
  BY DEF FramesInv
<1> QED
  BY <1>1, FramesInvariance, PTL

\* A session that takes a display for enabled which is off has the event that says
\* so before it, whatever else was queued.
THEOREM Offs == FramesSpec => []OffIsKnown
<1>1. ASSUME FramesInv PROVE OffIsKnown
  <2> SUFFICES ASSUME ~pixelsWhenOff, ~on, ctx.enabled
               PROVE  /\ Follows(events, 0, PowerEvent)
                      /\ \A i \in DOMAIN events :
                            events[i].kind = "on" => Follows(events, i, PowerEvent)
    BY DEF OffIsKnown
  <2>1. PowerEvent.kind = "off"
    BY DEF PowerEvent
  <2> QED
    BY <1>1, <2>1 DEF FramesInv, OffIsAhead, EventsSettle, Settled
<1> QED
  BY <1>1, FramesInvariance, PTL

\* The frame buffer holds nothing, or a picture of its own geometry.
THEOREM Fits == FramesSpec => []PictureFits
<1>1. FramesInv => PictureFits
  BY DEF FramesInv
<1> QED
  BY <1>1, FramesInvariance, PTL

\* A request that waits while something is painted has its update event.
THEOREM Wakes == FramesSpec => []PaintWakes
<1>1. FramesInv => PaintWakes
  BY DEF FramesInv, Waking, PaintWakes, Update
<1> QED
  BY <1>1, FramesInvariance, PTL

\* No change of mode is lost, however changes of mode and power and updates mix.
THEOREM ModesStay == FramesSpec => ModeStaysKnown
<1>1. ASSUME FramesInv, [FramesNext]_frameVars, ModeIsKnown PROVE ModeIsKnown'
  <2>1. events \in Seq(Event) /\ Update \in Event /\ ctx.mode \in Modes
    BY <1>1 DEF FramesInv, FramesTypeOK, Event, Update
  <2>2. CASE UNCHANGED <<desk, events>> /\ ctx'.mode = ctx.mode
    BY <1>1, <2>2 DEF ModeIsKnown, ModeEvent
  <2>3. CASE Paint
    <3>1. UNCHANGED <<desk, ctx>> /\ events' \in {events, Append(events, Update)}
      BY <2>3 DEF Paint, Emits, Update, desktop, program
    <3> QED
      BY <1>1, <2>1, <3>1, Appended DEF ModeIsKnown, ModeEvent
  <2>4. CASE SetMode
    <3>1. events' = Append(events, ModeEvent') /\ ModeEvent' \in Event
      BY <2>4 DEF SetMode, Emits, ModeEvent, Event
    <3>2. PICK e \in Event : e = ModeEvent' /\ events' = Append(events, e)
      BY <3>1
    <3>3. 0 \in 0 .. Len(events)
      BY <2>1
    <3> QED
      BY <2>1, <3>2, <3>3, Appended DEF ModeIsKnown
  <2>5. CASE SwitchPower
    <3>1. UNCHANGED <<desk, ctx>> /\ PowerEvent' \in Event
          /\ events' = Append(events, PowerEvent')
      BY <2>5 DEF SwitchPower, Emits, PowerEvent, Event, program
    <3>2. PICK e \in Event : events' = Append(events, e)
      BY <3>1
    <3>3. \A i, x : Follows(events, i, x) => Follows(events', i, x)
      BY <2>1, <3>2, Appended
    <3> QED
      BY <1>1, <3>1, <3>3 DEF ModeIsKnown, ModeEvent
  <2>6. CASE RequestReady
    <3>1. /\ UNCHANGED <<desk, events>>
          /\ ctx' = [Grab(ctx) EXCEPT !.enabled = @ \/ Grab(ctx).rects # 0]
      BY <2>6 DEF RequestReady, FrameStep, desktop
    <3>2. ctx'.mode = ctx.mode
      BY <1>1, <3>1, Grabs DEF FramesInv
    <3> QED
      BY <2>2, <3>1, <3>2
  <2>7. CASE HandleEvent
    <3> DEFINE e == Head(events)
    <3>1. /\ events # <<>> /\ events' = Tail(events) /\ desk' = desk
          /\ ctx' = Handle(ctx, e)
      BY <1>1, <2>7 DEF HandleEvent, FrameStep, desktop, FramesInv, FramesTypeOK
    <3>2. /\ e \in Event
          /\ Follows(events, 0, ModeEvent) =>
                e = ModeEvent \/ Follows(events', 0, ModeEvent)
          /\ e.kind = "mode" => e = ModeEvent \/ Follows(events', 0, ModeEvent)
      BY <1>1, <2>1, <3>1, Shifted, SettledShifted DEF FramesInv, EventsSettle
    <3>3. CASE e.kind = "mode"
      BY <1>1, <2>1, <3>1, <3>2, <3>3
         DEF Handle, ModeHandler, ModeIsKnown, ModeEvent, FramesInv, FramesTypeOK
    <3>4. CASE e.kind # "mode"
      <4>1. ctx'.mode = ctx.mode
        BY <1>1, <3>1, <3>2, <3>4, Grabs
           DEF Handle, UpdateHandler, DpmsHandler, FramesInv, FramesTypeOK, Event
      <4>2. e # ModeEvent
        BY <3>4 DEF ModeEvent
      <4> QED
        BY <1>1, <3>1, <3>2, <4>1, <4>2 DEF ModeIsKnown, ModeEvent
    <3> QED
      BY <3>3, <3>4
  <2> QED
    BY <1>1, <2>2, <2>3, <2>4, <2>5, <2>6, <2>7
       DEF FramesNext, Desktop, Loop, frameVars, RequestWaits, PollTimesOut, PollFails,
           ReadEvents, EventsHandled, Map, MapFails, CompressFails, FrameStep,
           desktop
<1> QED
  BY <1>1, FramesInvariance, PTL DEF FramesSpec, ModeStaysKnown
=============================================================================
