------------------------------ MODULE Session ------------------------------
(***************************************************************************)
(* One device served by the server: the thread that Server starts for its  *)
(* connection (Server::communicationMain and the Client methods it calls), *)
(* the input thread of the client (receiveMain), and the calls of          *)
(* forceDisconnect that other threads make: the control thread for a       *)
(* "disconnect" of the panel, holding Server::lock, and ~Server.           *)
(*                                                                         *)
(* These threads share m_state, a plain enum without lock, the socket and  *)
(* the monitor.  The device is the environment: it may stop reading,       *)
(* finish, or vanish at any time.                                          *)
(***************************************************************************)
EXTENDS Naturals

CONSTANTS
    MaxFrameFails,  \* failed frame requests in a row that end a session (15)
    MaxMapFails     \* failed map calls that end a session (10)

ASSUME SessionAssumption ==
    /\ MaxFrameFails \in Nat \ {0}
    /\ MaxMapFails \in Nat \ {0}

VARIABLES
    pc,          \* the next step of the session thread
    inp,         \* the next step of the input thread
    ctl,         \* the forceDisconnect call in progress, if any
    mstate,      \* m_state
    sock,        \* whether shutdown was called on m_socket
    peer,        \* the device: "reading", "stalled" (its window is full),
                 \* "finished" (it has closed), "reset" (writes to it fail)
    display,     \* m_monitor
    seen,        \* events the panel was sent about this client
    wire,        \* what the device was sent last: whole messages ("aligned"),
                 \* a part of a frame, or an error message inside a frame
    frameFails,  \* local variables of sendFrames
    mapFails,
    alive        \* FALSE when std::terminate has ended the server

vars == <<pc, inp, ctl, mstate, sock, peer, display, seen, wire, frameFails,
          mapFails, alive>>

fails == <<frameFails, mapFails>>

ClientState == {"New", "Identified", "Connected", "Streaming",
                "ConnectionClosed", "Disconnected", "Error"}

Init ==
    /\ pc = "identify"
    /\ inp = "none"
    /\ ctl = "idle"
    /\ mstate = "New"
    /\ sock = "open"
    /\ peer = "reading"
    /\ display = "none"
    /\ seen = "unseen"
    /\ wire = "aligned"
    /\ frameFails = 0
    /\ mapFails = 0
    /\ alive = TRUE

Goto(from, to) ==
    /\ alive
    /\ pc = from
    /\ pc' = to

-----------------------------------------------------------------------------
(* Writing to the socket.  asio::write returns when the device takes the    *)
(* bytes, or with an error when the socket is shut down or the device gone. *)

WriteReturns == sock = "shut" \/ peer # "stalled"

Delivered == sock = "open" /\ peer \in {"reading", "finished"}

\* A device that has closed answers the first bytes it gets with a reset.
PeerAfterWrite ==
    peer' = IF Delivered /\ peer = "finished" THEN "reset" ELSE peer

\* sendError(code) writes one message ...
WritesError ==
    /\ WriteReturns
    /\ wire' = IF Delivered /\ wire = "midFrame" THEN "torn" ELSE wire
    /\ PeerAfterWrite

\* ... and shuts the socket down.
ShutsDown == sock' = "shut"

-----------------------------------------------------------------------------
(* The device *)

PeerStalls ==
    /\ peer = "reading"
    /\ peer' = "stalled"

PeerResumes ==
    /\ peer = "stalled"
    /\ peer' = "reading"

PeerFinishes ==
    /\ peer \in {"reading", "stalled"}
    /\ peer' = "finished"

PeerVanishes ==
    /\ peer # "reset"
    /\ peer' = "reset"

Peer ==
    /\ alive
    /\ PeerStalls \/ PeerResumes \/ PeerFinishes \/ PeerVanishes
    /\ UNCHANGED <<pc, inp, ctl, mstate, sock, display, seen, wire, fails,
                   alive>>

-----------------------------------------------------------------------------
(* The session thread: communicationMain *)

\* Wrong: the panel is not told of the device before its display appears.
IdentifyUnannounced ==
    /\ Goto("identify", "connect")
    /\ mstate' \in {"Identified", mstate}
    /\ UNCHANGED <<inp, ctl, sock, peer, display, seen, wire, fails, alive>>

\* identifyClient returns true.  With an empty model name it does so without
\* having set m_state.
IdentifyOk ==
    /\ Goto("identify", "announce")
    /\ mstate' \in {"Identified", mstate}
    /\ UNCHANGED <<inp, ctl, sock, peer, display, seen, wire, fails, alive>>

\* The device starts with an unknown word: communicationMain returns, and
\* skips everything below.
UnknownWord ==
    /\ Goto("identify", "left")
    /\ UNCHANGED <<inp, ctl, mstate, sock, peer, display, seen, wire, fails,
                   alive>>

\* read_some fails, with the same effect.
IdentifyReadError ==
    /\ sock = "shut" \/ peer \in {"finished", "reset"}
    /\ Goto("identify", "left")
    /\ UNCHANGED <<inp, ctl, mstate, sock, peer, display, seen, wire, fails,
                   alive>>

\* onClientConnected
Announce ==
    /\ Goto("announce", "connect")
    /\ seen' = "connected"
    /\ UNCHANGED <<inp, ctl, mstate, sock, peer, display, wire, fails, alive>>

ConnectMonitorOk ==
    /\ Goto("connect", "setStreaming")
    /\ display' = "attached"
    /\ mstate' = "Connected"
    /\ UNCHANGED <<inp, ctl, sock, peer, seen, wire, fails, alive>>

\* adapterConnectMonitor returns no monitor: the device is told so, and
\* communicationMain returns.
ConnectMonitorFails ==
    /\ Goto("connect", "refuseWrite")
    /\ mstate' = "Error"
    /\ UNCHANGED <<inp, ctl, sock, peer, display, seen, wire, fails, alive>>

RefuseWrite ==
    /\ Goto("refuseWrite", "refuseShut")
    /\ WritesError
    /\ UNCHANGED <<inp, ctl, mstate, sock, display, seen, fails, alive>>

RefuseShut ==
    /\ Goto("refuseShut", "left")
    /\ ShutsDown
    /\ UNCHANGED <<inp, ctl, mstate, peer, display, seen, wire, fails, alive>>

\* adapterConnectMonitor throws: the catch block of communicationMain.
ConnectMonitorThrows ==
    /\ Goto("connect", "catchWrite")
    /\ UNCHANGED <<inp, ctl, mstate, sock, peer, display, seen, wire, fails,
                   alive>>

CatchWrite ==
    /\ Goto("catchWrite", "catchShut")
    /\ WritesError
    /\ UNCHANGED <<inp, ctl, mstate, sock, display, seen, fails, alive>>

CatchShut ==
    /\ Goto("catchShut", "erase")
    /\ ShutsDown
    /\ UNCHANGED <<inp, ctl, mstate, peer, display, seen, wire, fails, alive>>

-----------------------------------------------------------------------------
(* The session thread: sendFrames and disconnectMonitor *)

\* sendFrames writes m_state whatever another thread has written before.
SetStreaming ==
    /\ Goto("setStreaming", "startInput")
    /\ mstate' = "Streaming"
    /\ UNCHANGED <<inp, ctl, sock, peer, display, seen, wire, fails, alive>>

StartInput ==
    /\ Goto("startInput", "check")
    /\ inp' = "check"
    /\ UNCHANGED <<ctl, mstate, sock, peer, display, seen, wire, fails, alive>>

\* The input thread cannot be created: the exception passes disconnectMonitor
\* by, and nobody will release the display.
StartInputFails ==
    /\ Goto("startInput", "catchWrite")
    /\ display' = "abandoned"
    /\ UNCHANGED <<inp, ctl, mstate, sock, peer, seen, wire, fails, alive>>

LoopGoesOn ==
    /\ mstate = "Streaming"
    /\ Goto("check", "request")
    /\ UNCHANGED <<inp, ctl, mstate, sock, peer, display, seen, wire, fails,
                   alive>>

LoopEnds ==
    /\ mstate # "Streaming"
    /\ Goto("check", "join")
    /\ UNCHANGED <<inp, ctl, mstate, sock, peer, display, seen, wire, fails,
                   alive>>

\* A frame (FrameReady, ModeChanged) that can be mapped and compressed.
RequestFrame ==
    /\ Goto("request", "writeHead")
    /\ frameFails' = 0
    /\ mapFails' = 0
    /\ UNCHANGED <<inp, ctl, mstate, sock, peer, display, seen, wire, alive>>

\* The same, but tj3Compress8 fails: sendFullFrame returns without writing.
RequestUncompressed ==
    /\ Goto("request", "check")
    /\ frameFails' = 0
    /\ mapFails' = 0
    /\ UNCHANGED <<inp, ctl, mstate, sock, peer, display, seen, wire, alive>>

\* A frame that cannot be mapped.
RequestUnmapped ==
    /\ frameFails' = 0
    /\ mapFails' = mapFails + 1
    /\ \/ mapFails' < MaxMapFails /\ Goto("request", "check")
       \/ mapFails' >= MaxMapFails /\ Goto("request", "failWrite")
    /\ UNCHANGED <<inp, ctl, mstate, sock, peer, display, seen, wire, alive>>

\* Nothing has changed on the display, so nothing is written.
RequestNoUpdates ==
    /\ Goto("request", "check")
    /\ frameFails' = 0
    /\ UNCHANGED <<inp, ctl, mstate, sock, peer, display, seen, wire, mapFails,
                   alive>>

\* The display is switched off: sendMonitorOff writes a frame of size 0.
RequestMonitorOff ==
    /\ Goto("request", "writeHead")
    /\ frameFails' = 0
    /\ UNCHANGED <<inp, ctl, mstate, sock, peer, display, seen, wire, mapFails,
                   alive>>

RequestError ==
    /\ frameFails' = frameFails + 1
    /\ \/ frameFails' < MaxFrameFails /\ Goto("request", "check")
       \/ frameFails' >= MaxFrameFails /\ Goto("request", "failWrite")
    /\ UNCHANGED <<inp, ctl, mstate, sock, peer, display, seen, wire, mapFails,
                   alive>>

Request ==
    \/ RequestFrame \/ RequestUncompressed \/ RequestUnmapped
    \/ RequestNoUpdates \/ RequestMonitorOff \/ RequestError

\* asio::write of a frame sends it in pieces: the first ones ...
WriteHead ==
    /\ WriteReturns
    /\ Delivered
    /\ Goto("writeHead", "writeTail")
    /\ wire' = IF wire = "torn" THEN "torn" ELSE "midFrame"
    /\ PeerAfterWrite
    /\ UNCHANGED <<inp, ctl, mstate, sock, display, seen, fails, alive>>

\* ... and the rest.
WriteTail ==
    /\ WriteReturns
    /\ Delivered
    /\ Goto("writeTail", "check")
    /\ wire' = IF wire = "torn" THEN "torn" ELSE "aligned"
    /\ PeerAfterWrite
    /\ UNCHANGED <<inp, ctl, mstate, sock, display, seen, fails, alive>>

\* Wrong: the error code of asio::write is only logged.
WriteFailsUnnoticed ==
    /\ WriteReturns
    /\ ~Delivered
    /\ Goto("writeHead", "check") \/ Goto("writeTail", "check")
    /\ UNCHANGED <<inp, ctl, mstate, sock, peer, display, seen, wire, fails,
                   alive>>

WriteFails ==
    /\ WriteReturns
    /\ ~Delivered
    /\ Goto("writeHead", "check") \/ Goto("writeTail", "check")
    /\ mstate' = "ConnectionClosed"
    /\ UNCHANGED <<inp, ctl, sock, peer, display, seen, wire, fails, alive>>

\* Too many failures: sendError, then m_state.
FailWrite ==
    /\ Goto("failWrite", "failShut")
    /\ WritesError
    /\ UNCHANGED <<inp, ctl, mstate, sock, display, seen, fails, alive>>

\* Wrong: sendError leaves the socket open.
FailShutForgotten ==
    /\ Goto("failShut", "failState")
    /\ UNCHANGED <<inp, ctl, mstate, sock, peer, display, seen, wire, fails,
                   alive>>

FailShut ==
    /\ Goto("failShut", "failState")
    /\ ShutsDown
    /\ UNCHANGED <<inp, ctl, mstate, peer, display, seen, wire, fails, alive>>

FailState ==
    /\ Goto("failState", "check")
    /\ mstate' = "Error"
    /\ UNCHANGED <<inp, ctl, sock, peer, display, seen, wire, fails, alive>>

\* Wrong: the input thread is not joined.
JoinInputForgotten ==
    /\ Goto("join", "disconnect")
    /\ UNCHANGED <<inp, ctl, mstate, sock, peer, display, seen, wire, fails,
                   alive>>

JoinInput ==
    /\ inp = "exited"
    /\ Goto("join", "disconnect")
    /\ UNCHANGED <<inp, ctl, mstate, sock, peer, display, seen, wire, fails,
                   alive>>

\* monitorDisconnect.  A backend that fails to remove the display only logs it.
Disconnect ==
    /\ Goto("disconnect", "setDisconnected")
    /\ display' = "released"
    /\ UNCHANGED <<inp, ctl, mstate, sock, peer, seen, wire, fails, alive>>

SetDisconnected ==
    /\ Goto("setDisconnected", "shutdown")
    /\ mstate' = "Disconnected"
    /\ UNCHANGED <<inp, ctl, sock, peer, display, seen, wire, fails, alive>>

Shutdown ==
    /\ Goto("shutdown", "erase")
    /\ ShutsDown
    /\ UNCHANGED <<inp, ctl, mstate, peer, display, seen, wire, fails, alive>>

\* A call of the control thread that holds Server::lock.
ControlHoldsLock == ctl \in {"errorWrite", "errorShut", "errorState"}

\* The context is erased from m_clients, under Server::lock.
Erase ==
    /\ ~ControlHoldsLock
    /\ Goto("erase", "depart")
    /\ UNCHANGED <<inp, ctl, mstate, sock, peer, display, seen, wire, fails,
                   alive>>

\* onClientDisconnected
Depart ==
    /\ Goto("depart", "done")
    /\ seen' = "gone"
    /\ UNCHANGED <<inp, ctl, mstate, sock, peer, display, wire, fails, alive>>

-----------------------------------------------------------------------------
(* The input thread: receiveMain and handleInput *)

InpGoto(from, to) ==
    /\ alive
    /\ inp = from
    /\ inp' = to
    /\ UNCHANGED <<pc, ctl, mstate, sock, peer, display, seen, wire, fails>>

InputCheck ==
    /\ IF mstate = "Streaming"
       THEN InpGoto("check", "read")
       ELSE InpGoto("check", "exited")
    /\ UNCHANGED alive

\* A message of a kind the server knows has been read.
InputArrives ==
    /\ InpGoto("read", "inject")
    /\ UNCHANGED alive

\* A word other than CINPT is ignored.
UnknownInputWord ==
    /\ InpGoto("read", "check")
    /\ UNCHANGED alive

\* Any other kind of input: handleInput throws a pointer, which receiveMain
\* does not catch.
UnknownInputType ==
    /\ InpGoto("read", "exited")
    /\ alive' = FALSE

\* Wrong: shutting down the sending side only, which leaves the read waiting.
InputReadFailsLate ==
    /\ peer \in {"finished", "reset"}
    /\ InpGoto("read", "exited")
    /\ UNCHANGED alive

\* asio::read throws: the stream has ended.
InputReadFails ==
    /\ sock = "shut" \/ peer \in {"finished", "reset"}
    /\ InpGoto("read", "exited")
    /\ UNCHANGED alive

\* monitorSendInput
InjectInput ==
    /\ InpGoto("inject", "check")
    /\ UNCHANGED alive

-----------------------------------------------------------------------------
(* forceDisconnect, called while the client is in m_clients *)

CtlGoto(from, to) ==
    /\ alive
    /\ ctl = from
    /\ ctl' = to
    /\ UNCHANGED <<pc, inp, display, seen, fails, alive>>

\* Server::forceDisconnect has found the client and holds the lock.
ControlDisconnects ==
    /\ pc \notin {"depart", "done"}
    /\ CtlGoto("idle", "errorWrite")
    /\ UNCHANGED <<mstate, sock, peer, wire>>

ControlErrorWrite ==
    /\ CtlGoto("errorWrite", "errorShut")
    /\ WritesError
    /\ UNCHANGED <<mstate, sock>>

\* Wrong: sendError leaves the socket open.
ControlErrorShutForgotten ==
    /\ CtlGoto("errorShut", "errorState")
    /\ UNCHANGED <<mstate, sock, peer, wire>>

ControlErrorShut ==
    /\ CtlGoto("errorShut", "errorState")
    /\ ShutsDown
    /\ UNCHANGED <<mstate, peer, wire>>

\* Wrong: waiting for the session to get out while holding the lock it needs.
ControlSetsStateLate ==
    /\ pc \in {"depart", "done", "left"}
    /\ CtlGoto("errorState", "idle")
    /\ mstate' = "ConnectionClosed"
    /\ UNCHANGED <<sock, peer, wire>>

ControlSetsState ==
    /\ CtlGoto("errorState", "idle")
    /\ mstate' = "ConnectionClosed"
    /\ UNCHANGED <<sock, peer, wire>>

\* ~Server has taken the client out of m_clients, and no other call follows.
ServerStops ==
    /\ pc \notin {"depart", "done"}
    /\ CtlGoto("idle", "stopShut")
    /\ UNCHANGED <<mstate, sock, peer, wire>>

StopShut ==
    /\ CtlGoto("stopShut", "stopState")
    /\ ShutsDown
    /\ UNCHANGED <<mstate, peer, wire>>

StopSetsState ==
    /\ CtlGoto("stopState", "stopped")
    /\ mstate' = "ConnectionClosed"
    /\ UNCHANGED <<sock, peer, wire>>

-----------------------------------------------------------------------------

\* Steps of the session thread that do not wait for the hello of the device.
SessionRuns ==
    \/ IdentifyReadError
    \/ Announce
    \/ ConnectMonitorOk \/ ConnectMonitorFails \/ ConnectMonitorThrows
    \/ RefuseWrite \/ RefuseShut \/ CatchWrite \/ CatchShut
    \/ SetStreaming \/ StartInput \/ StartInputFails
    \/ LoopGoesOn \/ LoopEnds
    \/ Request
    \/ WriteHead \/ WriteTail \/ WriteFails
    \/ FailWrite \/ FailShut \/ FailState
    \/ JoinInput \/ Disconnect \/ SetDisconnected \/ Shutdown
    \/ Erase \/ Depart

\* Steps of the input thread that do not wait for input of the device.
InputRuns == InputCheck \/ InputReadFails \/ InjectInput

\* Steps of a forceDisconnect call once it was made.
CtlRuns ==
    \/ ControlErrorWrite \/ ControlErrorShut \/ ControlSetsState
    \/ StopShut \/ StopSetsState

DeviceInput == InputArrives \/ UnknownInputWord \/ UnknownInputType

Next ==
    \/ SessionRuns \/ IdentifyOk \/ UnknownWord
    \/ InputRuns \/ DeviceInput
    \/ CtlRuns \/ ControlDisconnects \/ ServerStops
    \/ Peer

Spec == Init /\ [][Next]_vars

\* The operating system runs every thread that can go on.  What the device
\* does, and what the display delivers, is not assumed.  A session that waits
\* for Server::lock gets it: the panel does not ask for the same disconnect
\* without end.
FairSpec ==
    /\ Spec
    /\ WF_vars(SessionRuns)
    /\ SF_vars(Erase)
    /\ WF_vars(InputRuns)
    /\ WF_vars(CtlRuns)

\* The desktop goes on changing: there are frames again and again.
LiveDesktop == SF_vars(RequestFrame)

-----------------------------------------------------------------------------
(* Properties *)

SessionSteps ==
    {"identify", "announce", "connect", "refuseWrite", "refuseShut",
     "catchWrite", "catchShut", "setStreaming", "startInput", "check",
     "request", "writeHead", "writeTail", "failWrite", "failShut",
     "failState", "join", "disconnect", "setDisconnected", "shutdown",
     "erase", "depart", "done", "left"}

\* Every variable keeps its type, and the failure counts their limits.
TypeOK ==
    /\ pc \in SessionSteps
    /\ inp \in {"none", "check", "read", "inject", "exited"}
    /\ ctl \in {"idle", "errorWrite", "errorShut", "errorState",
                "stopShut", "stopState", "stopped"}
    /\ mstate \in ClientState
    /\ sock \in {"open", "shut"}
    /\ peer \in {"reading", "stalled", "finished", "reset"}
    /\ display \in {"none", "attached", "released", "abandoned"}
    /\ seen \in {"unseen", "connected", "gone"}
    /\ wire \in {"aligned", "midFrame", "torn"}
    /\ frameFails \in 0 .. MaxFrameFails
    /\ mapFails \in 0 .. MaxMapFails
    /\ alive \in BOOLEAN

\* The steps of the session thread between the start of its input thread and
\* the join of it.
InLoop == {"check", "request", "writeHead", "writeTail", "failWrite",
           "failShut", "failState", "join"}

Ended == {"done", "left"}

\* disconnectMonitor joins an input thread that may sit in a blocking read.  It
\* never gets there before something has ended that read: the socket was shut
\* down or the connection has failed, and m_state has left Streaming.
JoinNeverStuck ==
    pc = "join" =>
        /\ mstate # "Streaming"
        /\ sock = "shut" \/ peer = "reset"

\* monitorSendInput is called through m_monitor, which the session thread
\* resets: the input thread runs only while the display is attached.
InputUsesLiveMonitor ==
    inp \in {"check", "read", "inject"} => display = "attached"

\* A session that has ended, on whatever path, has released its display, or has
\* lost the input thread it needed to come by disconnectMonitor.
NoDisplayLeft ==
    pc \in Ended => display # "attached"

\* The error message of forceDisconnect is written by another thread, and can
\* come to lie inside a frame the session thread is writing.  Until that call
\* shuts the socket down, its next step, the session thread may still write: the
\* rest of the frame, and further ones.  Nothing is written after it, whoever
\* calls next, and the loop of sendFrames is told to stop by the same call.
TornStreamIsCut ==
    wire = "torn" =>
        \/ ctl = "errorShut"
        \/ sock = "shut" /\ (ctl = "errorState" \/ mstate # "Streaming")

\* The events and the display of a device follow the contract of ClientLife.
Life == INSTANCE ClientLife
LifeSpec == Life!Spec

\* Once the loop of sendFrames has been told to stop, by a failed write, by too
\* many failures or by forceDisconnect, the session comes to its end.
StoppedLoopEnds ==
    pc \in InLoop /\ mstate # "Streaming" ~> pc \in Ended \/ ~alive

\* On a desktop that goes on changing, a session whose device has vanished
\* ends: the next writes find out.
DeadPeerEnds ==
    LiveDesktop =>
        (pc \in InLoop /\ peer = "reset" ~> pc \in Ended \/ ~alive)

\* A disconnect asked for by the panel keeps the control thread, and with it
\* Server::lock, for no other reason than a device that does not read.
ControlCallReturns ==
    []<>(~ControlHoldsLock \/ peer = "stalled" \/ ~alive)

\* What "forcing disconnect" (the log message of ~Server, which joins the
\* session thread right after it) says: the session comes to its end.
ForcedSessionEnds ==
    ctl = "stopped" ~> pc \in Ended \/ ~alive
=============================================================================
