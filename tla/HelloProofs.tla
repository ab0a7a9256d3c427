---------------------------- MODULE HelloProofs ----------------------------
(***************************************************************************)
(* The safety properties of Hello, for every set of name lengths and every *)
(* amount of input behind the hello.                                       *)
(*                                                                         *)
(* The invariant that carries the proofs says how far m_netBuffer can run  *)
(* ahead of the field being read.  A read hands over at most bytesNeeded   *)
(* bytes and is made only while bytes are missing or none was tried yet,   *)
(* so a field leaves at most the larger of what it found in the buffer and *)
(* bytesNeeded - 1.                                                        *)
(***************************************************************************)
EXTENDS Hello, TLAPS

\* Where the loop stands in the stream, and what it has buffered, per field.
Placed ==
    /\ wstate = "Welcome" =>
         /\ erased = 0
         /\ need = HeaderLen
         /\ nameAt = -1
         /\ recvd < HeaderLen \/ (word = "other" /\ result = "false")
         /\ result # "true"
    /\ wstate = "Model" =>
         /\ erased = HeaderLen
         /\ need = nameLen
         /\ nameAt = -1
         /\ recvd - erased < HeaderLen \/ recvd - erased < nameLen
         /\ result = "true" <=> nameLen <= 0
    /\ wstate = "Modes" =>
         /\ nameLen > 0
         /\ nameAt = HeaderLen
         /\ \/ result = "true"
            \/ /\ erased = HeaderLen + nameLen
               /\ need = ModesLen
         /\ \/ recvd < HelloLen
            \/ recvd - HelloLen + ModesLen < nameLen
            \/ result = "true" /\ recvd - HelloLen < ModesLen
            \/ result = "true" /\ recvd - HelloLen < nameLen

\* The settings are read by the step that ends the loop.
ReadAtEnd ==
    /\ modesAt = -1 => mstate = "New"
    /\ modesAt # -1 =>
         /\ modesAt = HeaderLen + nameLen
         /\ mstate = "Identified"
         /\ wstate = "Modes"
    /\ wstate = "Modes" /\ result = "true" => modesAt # -1

IInv == TypeOK /\ Placed /\ ReadAtEnd

\* The constants of the code as numbers, for the leaves that do arithmetic.
LEMMA Lengths ==
    ASSUME TypeOK
    PROVE  /\ nameLen \in Int
           /\ nameLen > 0 => HelloLen = nameLen + 21
           /\ nameLen <= 0 => HelloLen = 21
           /\ StreamLen = HelloLen + InputLen
           /\ InputLen \in Nat
  BY HelloAssumption
  DEF TypeOK, HelloLen, NameBytes, StreamLen, HeaderLen, ModesLen

LEMMA InitIInv == Init => IInv
<1> SUFFICES ASSUME Init PROVE IInv
  OBVIOUS
<1>1. nameLen \in Int /\ InputLen \in Nat
  BY HelloAssumption DEF Init
<1>2. TypeOK
  <2>1. StreamLen \in Nat
    BY <1>1 DEF StreamLen, HelloLen, NameBytes, HeaderLen, ModesLen
  <2>2. /\ sent \in 0 .. StreamLen /\ recvd \in 0 .. sent
        /\ erased \in 0 .. recvd /\ need \in {HeaderLen, nameLen, ModesLen, 0}
        /\ nameAt \in -1 .. StreamLen /\ modesAt \in -1 .. StreamLen
    BY <2>1 DEF Init
  <2>3. usb \in BOOLEAN
    BY DEF Init
  <2> QED
    BY <2>2, <2>3 DEF Init, TypeOK
<1>3. Placed /\ ReadAtEnd
  BY <1>1 DEF Init, Placed, ReadAtEnd, HeaderLen
<1> QED
  BY <1>2, <1>3 DEF IInv

\* A read raises recvd by at least one byte, at most to what was sent, and by
\* no more than bytesNeeded.
LEMMA ReceivesBounds ==
    ASSUME TypeOK, Placed, NEW r \in Int, Receives(r)
    PROVE  /\ r > recvd
           /\ r <= sent
           /\ r <= recvd + need
           /\ need > 0
<1>1. /\ nameLen \in Int
      /\ sent \in Int /\ recvd \in Int
      /\ recvd < sent /\ result = "running"
      /\ wstate \in {"Welcome", "Model", "Modes"}
  BY Lengths DEF TypeOK, Receives
<1>2. need \in Int /\ need > 0
  BY <1>1 DEF Placed, HeaderLen, ModesLen
<1> QED
  BY <1>1, <1>2 DEF Receives, Chunk, RecvLen

LEMMA NextIInv == IInv /\ [Next]_vars => IInv'
<1> SUFFICES ASSUME IInv, [Next]_vars PROVE IInv'
  OBVIOUS
<1> USE DEF IInv
<1>1. /\ nameLen \in Int
      /\ nameLen > 0 => HelloLen = nameLen + 21
      /\ nameLen <= 0 => HelloLen = 21
      /\ StreamLen = HelloLen + InputLen
      /\ InputLen \in Nat
  BY Lengths
<1>2. ASSUME nameLen' = nameLen
      PROVE  HelloLen' = HelloLen /\ StreamLen' = StreamLen
  BY <1>2 DEF HelloLen, NameBytes, StreamLen
<1>3. CASE DeviceSends
  <2>1. TypeOK'
    BY <1>1, <1>2, <1>3 DEF DeviceSends, TypeOK
  <2>2. Placed' /\ ReadAtEnd'
    BY <1>2, <1>3 DEF DeviceSends, Placed, ReadAtEnd
  <2> QED
    BY <2>1, <2>2
<1>4. CASE DeviceCloses
  <2>1. TypeOK'
    BY <1>1, <1>2, <1>4 DEF DeviceCloses, TypeOK
  <2>2. Placed' /\ ReadAtEnd'
    BY <1>2, <1>4 DEF DeviceCloses, Placed, ReadAtEnd
  <2> QED
    BY <2>1, <2>2
<1>5. CASE ReadPart
  <2>1. PICK r \in 1 .. StreamLen :
             /\ Receives(r)
             /\ r - erased < need
    BY <1>5 DEF ReadPart
  <2>2. UNCHANGED <<nameLen, word, sent, peer, erased, need, wstate, mstate,
                    usb, nameAt, modesAt, result>>
    BY <1>5 DEF ReadPart, Receives
  <2>3. recvd' = r /\ result = "running"
    BY <2>1 DEF Receives
  <2>4. r \in Int /\ r > recvd /\ r <= sent
    BY <2>1, <1>1, ReceivesBounds
  <2>5. TypeOK'
    BY <1>1, <1>2, <2>2, <2>3, <2>4 DEF TypeOK
  <2>6. Placed'
    BY <1>1, <1>2, <2>1, <2>2, <2>3, <2>4
    DEF Placed, TypeOK, HeaderLen, ModesLen
  <2>7. ReadAtEnd'
    BY <1>2, <2>2 DEF ReadAtEnd
  <2> QED
    BY <2>5, <2>6, <2>7
<1>6. CASE ReadWelcome
  <2>1. PICK r \in 1 .. StreamLen :
             /\ Receives(r)
             /\ r - erased >= need
    BY <1>6 DEF ReadWelcome
  <2>2. recvd' = r /\ result = "running"
    BY <2>1 DEF Receives
  <2>3. r \in Int /\ r > recvd /\ r <= sent /\ r <= recvd + need
    BY <2>1, <1>1, ReceivesBounds
  <2>4. /\ UNCHANGED <<nameLen, word, sent, peer, mstate, nameAt, modesAt>>
        /\ wstate = "Welcome"
    BY <1>6 DEF ReadWelcome, Receives
  <2>5. recvd < HeaderLen /\ erased = 0 /\ need = HeaderLen /\ nameAt = -1
    BY <2>2, <2>4 DEF Placed
  <2>6. CASE word = "other"
    <3>1. result' = "false" /\ UNCHANGED <<erased, need, wstate, usb>>
      BY <1>6, <2>6 DEF ReadWelcome
    <3> QED
      BY <1>1, <1>2, <2>2, <2>3, <2>4, <2>5, <2>6, <3>1
      DEF TypeOK, Placed, ReadAtEnd, HeaderLen
  <2>7. CASE word # "other"
    <3>1. /\ usb' = (word = "CUSBW")
          /\ erased' = erased + need
          /\ need' = nameLen
          /\ wstate' = "Model"
          /\ result' = LoopEnds(nameLen)
      BY <1>6, <2>7 DEF ReadWelcome
    <3>2. /\ result' \in {"running", "true"}
          /\ result' = "true" <=> nameLen <= 0
      BY <3>1, <1>1 DEF LoopEnds
    <3>3. TypeOK'
      BY <1>1, <1>2, <2>1, <2>2, <2>3, <2>4, <2>5, <3>1, <3>2
      DEF TypeOK, HeaderLen
    <3>4. Placed'
      BY <1>1, <2>1, <2>2, <2>3, <2>4, <2>5, <3>1, <3>2
      DEF Placed, TypeOK, HeaderLen
    <3>5. ReadAtEnd'
      BY <2>4, <3>1 DEF ReadAtEnd
    <3> QED
      BY <3>3, <3>4, <3>5
  <2> QED
    BY <2>6, <2>7
<1>7. CASE ReadModel
  <2>1. PICK r \in 1 .. StreamLen :
             /\ Receives(r)
             /\ r - erased >= need
    BY <1>7 DEF ReadModel
  <2>2. recvd' = r /\ result = "running"
    BY <2>1 DEF Receives
  <2>3. r \in Int /\ r > recvd /\ r <= sent /\ r <= recvd + need /\ need > 0
    BY <2>1, <1>1, ReceivesBounds
  <2>4. /\ UNCHANGED <<nameLen, word, sent, peer, mstate, usb, modesAt,
                       result>>
        /\ wstate = "Model"
        /\ nameAt' = erased
        /\ erased' = erased + need
        /\ need' = ModesLen
        /\ wstate' = "Modes"
    BY <1>7 DEF ReadModel, Receives
  <2>5. /\ erased = HeaderLen
        /\ need = nameLen
        /\ recvd - erased < HeaderLen \/ recvd - erased < nameLen
    BY <2>4 DEF Placed
  <2>6. TypeOK'
    BY <1>1, <1>2, <2>1, <2>2, <2>3, <2>4, <2>5
    DEF TypeOK, HeaderLen, ModesLen
  <2>7. Placed'
    <3>1. recvd \in Int /\ nameLen > 0 /\ HelloLen' = nameLen + 21
      BY <1>1, <1>2, <2>3, <2>4, <2>5 DEF TypeOK
    <3>2. r < HelloLen' \/ r - HelloLen' + ModesLen < nameLen
      BY <1>1, <2>3, <2>5, <3>1 DEF HeaderLen, ModesLen
    <3>3. nameLen' > 0
      BY <2>4, <3>1
    <3> QED
      BY <1>1, <2>2, <2>4, <2>5, <3>2, <3>3 DEF Placed, HeaderLen
  <2>8. ReadAtEnd'
    BY <2>2, <2>4 DEF ReadAtEnd
  <2> QED
    BY <2>6, <2>7, <2>8
<1>8. CASE ReadModes
  <2>1. PICK r \in 1 .. StreamLen :
             /\ Receives(r)
             /\ r - erased >= need
    BY <1>8 DEF ReadModes
  <2>2. recvd' = r /\ result = "running"
    BY <2>1 DEF Receives
  <2>3. r \in Int /\ r > recvd /\ r <= sent /\ r <= recvd + need
    BY <2>1, <1>1, ReceivesBounds
  <2>4. /\ UNCHANGED <<nameLen, word, sent, peer, wstate, usb, nameAt>>
        /\ wstate = "Modes"
        /\ modesAt' = erased
        /\ mstate' = "Identified"
        /\ erased' = erased + need
        /\ need' = 0
        /\ result' = "true"
    BY <1>8 DEF ReadModes, Receives, LoopEnds
  <2>5. /\ erased = HeaderLen + nameLen
        /\ need = ModesLen
        /\ nameLen > 0
        /\ nameAt = HeaderLen
        /\ recvd < HelloLen \/ recvd - HelloLen + ModesLen < nameLen
    BY <2>2, <2>4 DEF Placed
  <2>6. TypeOK'
    BY <1>1, <1>2, <2>1, <2>2, <2>3, <2>4, <2>5
    DEF TypeOK, HeaderLen, ModesLen
  <2>7. Placed'
    <3>1. recvd \in Int /\ HelloLen' = nameLen + 21
      BY <1>1, <1>2, <2>4, <2>5 DEF TypeOK
    <3>2. r - HelloLen' < ModesLen \/ r - HelloLen' < nameLen
      BY <1>1, <2>3, <2>5, <3>1 DEF ModesLen
    <3> QED
      BY <2>2, <2>4, <2>5, <3>2 DEF Placed
  <2>8. ReadAtEnd'
    BY <1>1, <2>4, <2>5 DEF ReadAtEnd, HeaderLen
  <2> QED
    BY <2>6, <2>7, <2>8
<1>9. CASE ReadFails
  <2>1. TypeOK'
    BY <1>1, <1>2, <1>9 DEF ReadFails, TypeOK
  <2>2. Placed' /\ ReadAtEnd'
    BY <1>2, <1>9 DEF ReadFails, Placed, ReadAtEnd
  <2> QED
    BY <2>1, <2>2
<1>10. CASE UNCHANGED vars
  BY <1>2, <1>10 DEF vars, TypeOK, Placed, ReadAtEnd
<1> QED
  BY <1>3, <1>4, <1>5, <1>6, <1>7, <1>8, <1>9, <1>10 DEF Next, Read

THEOREM Invariance == Spec => []IInv
  BY InitIInv, NextIInv, PTL DEF Spec

-----------------------------------------------------------------------------
(* The results *)

\* identifyClient keeps its buffer inside the stream of the device.
THEOREM TypeCorrect == Spec => []TypeOK
<1>1. IInv => TypeOK
  BY DEF IInv
<1> QED
  BY <1>1, Invariance, PTL

\* Whatever the sizes of the pieces the hello arrives in, the name and the
\* settings are read from where the device wrote them, and before the result is
\* true.
THEOREM Aligned == Spec => []FieldsAligned
<1>1. IInv => FieldsAligned
  BY Lengths DEF IInv, TypeOK, Placed, ReadAtEnd, FieldsAligned
<1> QED
  BY <1>1, Invariance, PTL

\* identifyClient can wait with the whole hello in its buffer only for a name
\* longer than the settings.
THEOREM StallsOnlyOnLongNames == Spec => []StallNeedsLongName
<1>1. IInv => StallNeedsLongName
  BY Lengths DEF IInv, TypeOK, Placed, StallNeedsLongName, HeaderLen, ModesLen
<1> QED
  BY <1>1, Invariance, PTL

\* The input that is lost in m_netBuffer is less than the longer of the name and
\* the settings.
THEOREM SwallowedInput == Spec => []SwallowedInputBounded
<1>1. IInv => SwallowedInputBounded
  BY Lengths
  DEF IInv, TypeOK, Placed, SwallowedInputBounded, HeaderLen, ModesLen
<1> QED
  BY <1>1, Invariance, PTL
=============================================================================
