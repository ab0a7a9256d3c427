--------------------------- MODULE SessionProofs ---------------------------
(***************************************************************************)
(* The safety properties of Session, for every limit on the failures, and  *)
(* the proof that Session implements ClientLife.                           *)
(*                                                                         *)
(* The invariant ties the display and the input thread to the place of the *)
(* session thread (Shape), the events to it (Told), and says which writer  *)
(* of m_state can have stopped the loop and what it has done to the socket *)
(* before (Stopped).  The socket is never opened again and a connection    *)
(* that has failed stays so, which makes these facts stable.               *)
(***************************************************************************)
EXTENDS Session, TLAPS

Before    == {"identify", "announce", "connect", "refuseWrite", "refuseShut",
              "left"}
Connected == {"setStreaming", "startInput"}
Caught    == {"catchWrite", "catchShut"}
Closing   == {"setDisconnected", "shutdown"}
Leaving   == {"erase", "depart", "done"}

\* The display and the input thread, by the place of the session thread.
Shape ==
    /\ pc \in Before => display = "none" /\ inp = "none"
    /\ pc \in Connected => display = "attached" /\ inp = "none"
    /\ pc \in InLoop => display = "attached" /\ inp # "none"
    /\ pc = "disconnect" => display = "attached" /\ inp = "exited"
    /\ pc \in Closing => display = "released" /\ inp = "exited"
    /\ pc \in Caught => display \in {"none", "abandoned"} /\ inp = "none"
    /\ pc \in Leaving => display # "attached" /\ inp \in {"none", "exited"}

\* The events the panel was sent, by the place of the session thread.
Told ==
    /\ pc \in {"identify", "announce"} => seen = "unseen"
    /\ pc = "left" => seen \in {"unseen", "connected"}
    /\ pc = "done" => seen = "gone"
    /\ pc \notin {"identify", "announce", "left", "done"} => seen = "connected"

\* The failure counts stay below their limits while the loop goes on.
Counted ==
    /\ pc \in {"identify", "announce", "connect", "setStreaming", "startInput",
               "request", "writeHead", "writeTail"} =>
         frameFails < MaxFrameFails /\ mapFails < MaxMapFails
    /\ pc = "check" /\ mstate = "Streaming" =>
         frameFails < MaxFrameFails /\ mapFails < MaxMapFails

\* Whoever stops the loop shuts the socket down first, or has met a connection
\* that has failed.
Stopped ==
    /\ ctl \in {"errorState", "stopState", "stopped"} => sock = "shut"
    /\ pc = "failState" => sock = "shut"
    /\ pc \in InLoop \cup {"startInput"} /\ mstate # "Streaming" =>
         sock = "shut" \/ peer = "reset"
    /\ pc = "join" => mstate # "Streaming"

\* Nothing is torn before the loop.  A frame is left unfinished only on a
\* connection that takes no more bytes, so only another thread can write into it.
Wired ==
    /\ pc \in Before \cup Connected \cup Caught => wire = "aligned"
    /\ wire = "midFrame" => pc = "writeTail" \/ sock = "shut" \/ peer = "reset"
    /\ wire = "torn" =>
         \/ ctl = "errorShut"
         \/ sock = "shut" /\ (ctl = "errorState" \/ mstate # "Streaming")

IInv == TypeOK /\ Shape /\ Told /\ Counted /\ Stopped /\ Wired

LEMMA InitIInv == Init => IInv
  BY SessionAssumption
  DEF Init, IInv, TypeOK, SessionSteps, ClientState, Shape, Told, Counted,
      Stopped, Wired, Before, Connected, Caught, Closing, Leaving, InLoop

\* Every step of the session thread keeps the invariant.
LEMMA SessionIInv ==
    ASSUME IInv, SessionRuns \/ IdentifyOk \/ UnknownWord
    PROVE  IInv'
<1> USE SessionAssumption
    DEF IInv, TypeOK, SessionSteps, ClientState, Shape, Told, Counted,
        Stopped, Wired, Before, Connected, Caught, Closing, Leaving,
        InLoop, Goto, fails
<1>1. CASE IdentifyOk
  BY <1>1 DEF IdentifyOk
<1>2. CASE UnknownWord
  BY <1>2 DEF UnknownWord
<1>3. CASE IdentifyReadError
  BY <1>3 DEF IdentifyReadError
<1>4. CASE Announce
  BY <1>4 DEF Announce
<1>5. CASE ConnectMonitorOk
  BY <1>5 DEF ConnectMonitorOk
<1>6. CASE ConnectMonitorFails
  BY <1>6 DEF ConnectMonitorFails
<1>7. CASE RefuseWrite
  BY <1>7 DEF RefuseWrite, WritesError, WriteReturns, Delivered, PeerAfterWrite
<1>8. CASE RefuseShut
  BY <1>8 DEF RefuseShut, ShutsDown
<1>9. CASE ConnectMonitorThrows
  BY <1>9 DEF ConnectMonitorThrows
<1>10. CASE CatchWrite
  BY <1>10 DEF CatchWrite, WritesError, WriteReturns, Delivered, PeerAfterWrite
<1>11. CASE CatchShut
  BY <1>11 DEF CatchShut, ShutsDown
<1>12. CASE SetStreaming
  BY <1>12 DEF SetStreaming
<1>13. CASE StartInput
  BY <1>13 DEF StartInput
<1>14. CASE StartInputFails
  BY <1>14 DEF StartInputFails
<1>15. CASE LoopGoesOn
  BY <1>15 DEF LoopGoesOn
<1>16. CASE LoopEnds
  BY <1>16 DEF LoopEnds
<1>17. CASE RequestFrame
  BY <1>17 DEF RequestFrame
<1>18. CASE RequestUncompressed
  BY <1>18 DEF RequestUncompressed
<1>19. CASE RequestUnmapped
  BY <1>19 DEF RequestUnmapped
<1>20. CASE RequestNoUpdates
  BY <1>20 DEF RequestNoUpdates
<1>21. CASE RequestMonitorOff
  BY <1>21 DEF RequestMonitorOff
<1>22. CASE RequestError
  BY <1>22 DEF RequestError
<1>23. CASE WriteHead
  BY <1>23 DEF WriteHead, WriteReturns, Delivered, PeerAfterWrite
<1>24. CASE WriteTail
  BY <1>24 DEF WriteTail, WriteReturns, Delivered, PeerAfterWrite
<1>25. CASE WriteFails
  BY <1>25 DEF WriteFails, WriteReturns, Delivered
<1>26. CASE FailWrite
  BY <1>26 DEF FailWrite, WritesError, WriteReturns, Delivered, PeerAfterWrite
<1>27. CASE FailShut
  BY <1>27 DEF FailShut, ShutsDown
<1>28. CASE FailState
  BY <1>28 DEF FailState
<1>29. CASE JoinInput
  BY <1>29 DEF JoinInput
<1>30. CASE Disconnect
  BY <1>30 DEF Disconnect
<1>31. CASE SetDisconnected
  BY <1>31 DEF SetDisconnected
<1>32. CASE Shutdown
  BY <1>32 DEF Shutdown, ShutsDown
<1>33. CASE Erase
  BY <1>33 DEF Erase, ControlHoldsLock
<1>34. CASE Depart
  BY <1>34 DEF Depart
<1> QED
  BY <1>1, <1>2, <1>3, <1>4, <1>5, <1>6, <1>7, <1>8, <1>9, <1>10, <1>11,
     <1>12, <1>13, <1>14, <1>15, <1>16, <1>17, <1>18, <1>19, <1>20, <1>21,
     <1>22, <1>23, <1>24, <1>25, <1>26, <1>27, <1>28, <1>29, <1>30, <1>31,
     <1>32, <1>33, <1>34
  DEF SessionRuns, Request

\* Every step of the input thread keeps the invariant.
LEMMA InputIInv ==
    ASSUME IInv, InputRuns \/ DeviceInput
    PROVE  IInv'
<1> USE SessionAssumption
    DEF IInv, TypeOK, SessionSteps, ClientState, Shape, Told, Counted,
        Stopped, Wired, Before, Connected, Caught, Closing, Leaving,
        InLoop, InpGoto, fails
<1>1. CASE InputCheck
  BY <1>1 DEF InputCheck
<1>2. CASE InputReadFails
  BY <1>2 DEF InputReadFails
<1>3. CASE InjectInput
  BY <1>3 DEF InjectInput
<1>4. CASE InputArrives
  BY <1>4 DEF InputArrives
<1>5. CASE UnknownInputWord
  BY <1>5 DEF UnknownInputWord
<1>6. CASE UnknownInputType
  <2>1. alive' \in BOOLEAN
    BY <1>6 DEF UnknownInputType
  <2>2. InpGoto("read", "exited")
    BY <1>6 DEF UnknownInputType
  <2> QED
    BY <2>1, <2>2
<1> QED
  BY <1>1, <1>2, <1>3, <1>4, <1>5, <1>6 DEF InputRuns, DeviceInput

\* Every step of a forceDisconnect call keeps the invariant.
LEMMA CtlIInv ==
    ASSUME IInv, CtlRuns \/ ControlDisconnects \/ ServerStops
    PROVE  IInv'
<1> USE SessionAssumption
    DEF IInv, TypeOK, SessionSteps, ClientState, Shape, Told, Counted,
        Stopped, Wired, Before, Connected, Caught, Closing, Leaving,
        InLoop, CtlGoto, fails
<1>1. CASE ControlDisconnects
  BY <1>1 DEF ControlDisconnects
<1>2. CASE ControlErrorWrite
  BY <1>2
  DEF ControlErrorWrite, WritesError, WriteReturns, Delivered, PeerAfterWrite
<1>3. CASE ControlErrorShut
  BY <1>3 DEF ControlErrorShut, ShutsDown
<1>4. CASE ControlSetsState
  BY <1>4 DEF ControlSetsState
<1>5. CASE ServerStops
  BY <1>5 DEF ServerStops
<1>6. CASE StopShut
  BY <1>6 DEF StopShut, ShutsDown
<1>7. CASE StopSetsState
  BY <1>7 DEF StopSetsState
<1> QED
  BY <1>1, <1>2, <1>3, <1>4, <1>5, <1>6, <1>7 DEF CtlRuns

\* Whatever the device does keeps the invariant.
LEMMA PeerIInv ==
    ASSUME IInv, Peer
    PROVE  IInv'
<1> USE SessionAssumption
    DEF IInv, TypeOK, SessionSteps, ClientState, Shape, Told, Counted,
        Stopped, Wired, Before, Connected, Caught, Closing, Leaving,
        InLoop, fails
<1>1. peer' \in {"reading", "stalled", "finished", "reset"}
  BY DEF Peer, PeerStalls, PeerResumes, PeerFinishes, PeerVanishes
<1>2. peer = "reset" => peer' = "reset"
  BY DEF Peer, PeerStalls, PeerResumes, PeerFinishes, PeerVanishes
<1> QED
  BY <1>1, <1>2 DEF Peer

LEMMA NextIInv == IInv /\ [Next]_vars => IInv'
<1> SUFFICES ASSUME IInv, [Next]_vars PROVE IInv'
  OBVIOUS
<1>1. CASE UNCHANGED vars
  BY <1>1
  DEF vars, IInv, TypeOK, Shape, Told, Counted, Stopped, Wired
<1>2. CASE Next
  BY <1>2, SessionIInv, InputIInv, CtlIInv, PeerIInv DEF Next
<1> QED
  BY <1>1, <1>2

THEOREM Invariance == Spec => []IInv
  BY InitIInv, NextIInv, PTL DEF Spec

-----------------------------------------------------------------------------
(* The results *)

\* The variables keep their types; no count passes its limit.
THEOREM TypeCorrect == Spec => []TypeOK
<1>1. IInv => TypeOK
  BY DEF IInv
<1> QED
  BY <1>1, Invariance, PTL

\* disconnectMonitor never joins an input thread whose read nothing has ended.
THEOREM JoinIsSafe == Spec => []JoinNeverStuck
<1>1. IInv => JoinNeverStuck
  BY DEF IInv, Stopped, JoinNeverStuck, InLoop
<1> QED
  BY <1>1, Invariance, PTL

\* The input thread never uses a monitor that was disconnected.
THEOREM InputIsSafe == Spec => []InputUsesLiveMonitor
<1>1. IInv => InputUsesLiveMonitor
  BY DEF IInv, TypeOK, SessionSteps, Shape, InputUsesLiveMonitor, Before,
         Connected, Caught, Closing, Leaving, InLoop
<1> QED
  BY <1>1, Invariance, PTL

\* No session ends with its display attached, unless its input thread could not
\* be created.
THEOREM DisplayIsReleased == Spec => []NoDisplayLeft
<1>1. IInv => NoDisplayLeft
  BY DEF IInv, Shape, NoDisplayLeft, Ended, Before, Leaving
<1> QED
  BY <1>1, Invariance, PTL

\* A stream with an error message inside a frame is shut down by the call that
\* wrote the message, its next step, and the loop that wrote the frame is stopped.
THEOREM TornIsCut == Spec => []TornStreamIsCut
<1>1. IInv => TornStreamIsCut
  BY DEF IInv, Wired, TornStreamIsCut
<1> QED
  BY <1>1, Invariance, PTL

-----------------------------------------------------------------------------
(* Session implements ClientLife *)

LEMMA InitLife == Init => Life!Init
  BY DEF Init, Life!Init

\* Of the steps of a session, five are steps of the contract; the others leave
\* the events and the display alone.
LEMMA NextLife == IInv /\ [Next]_vars => [Life!Next]_<<seen, display>>
<1> SUFFICES ASSUME IInv, [Next]_vars
             PROVE  [Life!Next]_<<seen, display>>
  OBVIOUS
<1>1. CASE Announce
  BY <1>1 DEF Announce, Goto, IInv, Told, Life!Next, Life!Announce
<1>2. CASE ConnectMonitorOk
  BY <1>2
  DEF ConnectMonitorOk, Goto, IInv, Told, Shape, Before, Life!Next,
      Life!Attach
<1>3. CASE StartInputFails
  BY <1>3
  DEF StartInputFails, Goto, IInv, Shape, Connected, Life!Next, Life!Abandon
<1>4. CASE Disconnect
  BY <1>4 DEF Disconnect, Goto, IInv, Shape, Life!Next, Life!Release
<1>5. CASE Depart
  BY <1>5
  DEF Depart, Goto, IInv, Told, Shape, Leaving, Life!Next, Life!Depart
<1>6. CASE UNCHANGED <<seen, display>>
  BY <1>6
<1>7. ASSUME SessionRuns \/ IdentifyOk \/ UnknownWord,
             ~Announce, ~ConnectMonitorOk, ~StartInputFails, ~Disconnect,
             ~Depart
      PROVE  UNCHANGED <<seen, display>>
  BY <1>7
  DEF SessionRuns, IdentifyOk, UnknownWord, IdentifyReadError,
      ConnectMonitorFails, ConnectMonitorThrows, RefuseWrite, RefuseShut,
      CatchWrite, CatchShut, SetStreaming, StartInput, LoopGoesOn, LoopEnds,
      Request, RequestFrame, RequestUncompressed, RequestUnmapped,
      RequestNoUpdates, RequestMonitorOff, RequestError, WriteHead, WriteTail,
      WriteFails, FailWrite, FailShut, FailState, JoinInput, SetDisconnected,
      Shutdown, Erase
<1>8. ASSUME InputRuns \/ DeviceInput
      PROVE  UNCHANGED <<seen, display>>
  BY <1>8
  DEF InputRuns, DeviceInput, InputCheck, InputReadFails, InjectInput,
      InputArrives, UnknownInputWord, UnknownInputType, InpGoto
<1>9. ASSUME CtlRuns \/ ControlDisconnects \/ ServerStops
      PROVE  UNCHANGED <<seen, display>>
  BY <1>9
  DEF CtlRuns, ControlDisconnects, ControlErrorWrite, ControlErrorShut,
      ControlSetsState, ServerStops, StopShut, StopSetsState, CtlGoto
<1>10. ASSUME Peer
       PROVE  UNCHANGED <<seen, display>>
  BY <1>10 DEF Peer
<1>11. ASSUME UNCHANGED vars
       PROVE  UNCHANGED <<seen, display>>
  BY <1>11 DEF vars
<1> QED
  BY <1>1, <1>2, <1>3, <1>4, <1>5, <1>6, <1>7, <1>8, <1>9, <1>10, <1>11
  DEF Next

\* The events and the display of every session follow the contract.
THEOREM ImplementsLife == Spec => LifeSpec
  BY InitLife, NextLife, Invariance, PTL DEF Spec, LifeSpec, Life!Spec
=============================================================================
