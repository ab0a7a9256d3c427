------------------------------- MODULE Hello -------------------------------
(***************************************************************************)
(* How the server reads the hello of a device (Client::identifyClient).    *)
(*                                                                         *)
(* A device opens its connection with 9 bytes (a 5 byte word and the       *)
(* length of its model name), the name itself and 12 bytes of display      *)
(* settings; input messages may follow.  TCP hands these bytes over in     *)
(* pieces of any size.  The loop keeps what it has received and not yet    *)
(* used in m_netBuffer, and asks the socket for bytesNeeded bytes on every *)
(* turn, also when part of the field is already there.                     *)
(*                                                                         *)
(* Bytes are represented by their position in the stream: m_netBuffer is   *)
(* the interval from erased to recvd.                                      *)
(***************************************************************************)
EXTENDS Integers

CONSTANTS
    NameLens,  \* the lengths devices announce for their model names
    InputLen   \* bytes of input messages the device may send behind its hello

HeaderLen == 9     \* PROTOCOL_WORD_LEN + sizeof(int)
ModesLen  == 12    \* width, height, refresh rate

RecvLen   == 256   \* the size of recvBuf

\* The length is a signed int of the wire, which the loop takes as it comes.
ASSUME HelloAssumption ==
    /\ NameLens \subseteq Int
    /\ InputLen \in Nat

Words == {"CWLCM", "CUSBW", "other"}

VARIABLES
    nameLen,   \* the length of the model name, announced by the device
    word,      \* the word the device sends first
    sent,      \* bytes the device has sent
    peer,      \* whether the device still holds its end open
    recvd,     \* bytes taken from the socket by read_some
    erased,    \* bytes erased from the front of m_netBuffer
    need,      \* bytesNeeded
    wstate,    \* the local variable state
    mstate,    \* m_state
    usb,       \* m_isUsb
    nameAt,    \* stream position m_modelName was copied from, -1 before
    modesAt,   \* stream position m_preffered was read from, -1 before
    result     \* what identifyClient has returned

vars == <<nameLen, word, sent, peer, recvd, erased, need, wstate, mstate, usb,
          nameAt, modesAt, result>>

\* Behind a length that is not positive no byte of a name follows.
NameBytes == IF nameLen > 0 THEN nameLen ELSE 0
HelloLen  == HeaderLen + NameBytes + ModesLen
StreamLen == HelloLen + InputLen

Init ==
    /\ nameLen \in NameLens
    /\ word \in Words
    /\ sent = 0
    /\ peer = "open"
    /\ recvd = 0
    /\ erased = 0
    /\ need = HeaderLen
    /\ wstate = "Welcome"
    /\ mstate = "New"
    /\ usb = FALSE
    /\ nameAt = -1
    /\ modesAt = -1
    /\ result = "running"

-----------------------------------------------------------------------------
(* The device *)

DeviceSends ==
    /\ peer = "open"
    /\ \E k \in 1 .. (StreamLen - sent) : sent' = sent + k
    /\ UNCHANGED <<nameLen, word, peer, recvd, erased, need, wstate, mstate, usb,
                   nameAt, modesAt, result>>

DeviceCloses ==
    /\ peer = "open"
    /\ peer' = "closed"
    /\ UNCHANGED <<nameLen, word, sent, recvd, erased, need, wstate, mstate, usb,
                   nameAt, modesAt, result>>

-----------------------------------------------------------------------------
(* The loop of identifyClient *)

\* Wrong: asking for the whole receive buffer instead of bytesNeeded.
ChunkUnlimited == IF sent - recvd < RecvLen THEN sent - recvd ELSE RecvLen

\* What one read_some hands over: all that has arrived, up to bytesNeeded and to
\* the size of the array asio::buffer is given.
Chunk ==
    LET asked == IF need < RecvLen THEN need ELSE RecvLen
    IN  IF sent - recvd < asked THEN sent - recvd ELSE asked

\* read_some has just raised the number of received bytes to r.
Receives(r) ==
    /\ result = "running"
    /\ recvd < sent
    /\ r = recvd + Chunk
    /\ recvd' = r
    /\ UNCHANGED <<nameLen, word, sent, peer>>

\* The field is not complete yet: the loop reads again.
ReadPart ==
    \E r \in 1 .. StreamLen :
        /\ Receives(r)
        /\ r - erased < need
        /\ UNCHANGED <<erased, need, wstate, mstate, usb, nameAt, modesAt,
                       result>>

\* The loop ends, and identifyClient returns true, when nothing is needed.
LoopEnds(n) == IF n > 0 THEN "running" ELSE "true"

ReadWelcome ==
    \E r \in 1 .. StreamLen :
        /\ Receives(r)
        /\ r - erased >= need
        /\ wstate = "Welcome"
        /\ IF word = "other"
           THEN /\ result' = "false"
                /\ UNCHANGED <<erased, need, wstate, usb>>
           ELSE /\ usb' = (word = "CUSBW")
                /\ erased' = erased + need
                /\ need' = nameLen
                /\ wstate' = "Model"
                /\ result' = LoopEnds(nameLen)
        /\ UNCHANGED <<mstate, nameAt, modesAt>>

\* Wrong: erasing the whole buffer with the name.
ReadModelClearing ==
    \E r \in 1 .. StreamLen :
        /\ Receives(r)
        /\ r - erased >= need
        /\ wstate = "Model"
        /\ nameAt' = erased
        /\ erased' = r
        /\ need' = ModesLen
        /\ wstate' = "Modes"
        /\ UNCHANGED <<mstate, usb, modesAt, result>>

ReadModel ==
    \E r \in 1 .. StreamLen :
        /\ Receives(r)
        /\ r - erased >= need
        /\ wstate = "Model"
        /\ nameAt' = erased
        /\ erased' = erased + need
        /\ need' = ModesLen
        /\ wstate' = "Modes"
        /\ UNCHANGED <<mstate, usb, modesAt, result>>

ReadModes ==
    \E r \in 1 .. StreamLen :
        /\ Receives(r)
        /\ r - erased >= need
        /\ wstate = "Modes"
        /\ modesAt' = erased
        /\ mstate' = "Identified"
        /\ erased' = erased + need
        /\ need' = 0
        /\ result' = LoopEnds(0)
        /\ UNCHANGED <<wstate, usb, nameAt>>

\* read_some reports the end of the stream.
ReadFails ==
    /\ result = "running"
    /\ peer = "closed"
    /\ recvd = sent
    /\ result' = "false"
    /\ UNCHANGED <<nameLen, word, sent, peer, recvd, erased, need, wstate, mstate, usb,
                   nameAt, modesAt>>

Read == ReadPart \/ ReadWelcome \/ ReadModel \/ ReadModes \/ ReadFails

Next == DeviceSends \/ DeviceCloses \/ Read

Spec == Init /\ [][Next]_vars

\* The thread of the connection is scheduled, and the device sends its hello
\* unless it closes.  Nothing makes it send input behind the hello.
FairSpec ==
    /\ Spec
    /\ WF_vars(Read)
    /\ WF_vars(sent < HelloLen /\ DeviceSends)

-----------------------------------------------------------------------------
(* Properties *)

\* Every variable keeps its type, and the buffer its place in the stream.
TypeOK ==
    /\ nameLen \in NameLens
    /\ word \in Words
    /\ sent \in 0 .. StreamLen
    /\ peer \in {"open", "closed"}
    /\ recvd \in 0 .. sent
    /\ erased \in 0 .. recvd
    /\ need \in {HeaderLen, nameLen, ModesLen, 0}
    /\ wstate \in {"Welcome", "Model", "Modes"}
    /\ mstate \in {"New", "Identified"}
    /\ usb \in BOOLEAN
    /\ nameAt \in -1 .. StreamLen
    /\ modesAt \in -1 .. StreamLen
    /\ result \in {"running", "true", "false"}

\* However the stream is cut into pieces, the model name and the display
\* settings are read from the bytes the device put them in (the erase calls of
\* identifyClient keep the bytes that belong to the next field), and the result
\* is true only after both.  A length that is not positive is the exception the
\* code makes: the loop condition bytesNeeded > 0 then ends the loop before the
\* settings, with the result true.
FieldsAligned ==
    /\ nameAt # -1 => nameAt = HeaderLen
    /\ modesAt # -1 => modesAt = HeaderLen + nameLen
    /\ result = "true" /\ nameLen > 0 => mstate = "Identified" /\ modesAt # -1

\* The loop asks for bytesNeeded bytes even when a part of the field is in
\* m_netBuffer already, so it can take bytes of the next field.  It waits for
\* bytes that never come, the whole hello being in m_netBuffer, only for a name
\* of more than 12 bytes: a shorter one leaves bytes of the settings unread.
StallNeedsLongName ==
    result = "running" /\ recvd >= HelloLen => nameLen > ModesLen

\* The input bytes that identifyClient takes from the socket and leaves in
\* m_netBuffer, where receiveMain never looks for them, are fewer than the bytes
\* of the settings or fewer than those of the name.
SwallowedInputBounded ==
    result = "true" /\ nameLen > 0 =>
        \/ recvd - HelloLen < ModesLen
        \/ recvd - HelloLen < nameLen

\* The loop of identifyClient ends for a device with a name of up to 12 bytes
\* that sends its hello or closes its connection, also when no byte of input ever
\* follows: the reads of more than the field still needs do not leave it waiting.
ShortNameEnds ==
    nameLen <= ModesLen => <>(result # "running")
=============================================================================
