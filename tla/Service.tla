------------------------------ MODULE Service ------------------------------
(***************************************************************************)
(* The Windows service, which runs the server in the session at the        *)
(* console and has another program, the terminator, interrupt it.          *)
(*                                                                         *)
(* Two threads report to the service manager: "main" runs SvcMain and      *)
(* "handler" the control handler.  They share g_svcStatus, which           *)
(* ReportSvcStatus fills in one field at a time before it sends it, without*)
(* a lock.                                                                 *)
(*                                                                         *)
(* The service manager sends a stop to a service it was told is running    *)
(* and accepts it; after it was told that the service has stopped it takes *)
(* no more reports of that process, and may start another.                 *)
(*                                                                         *)
(* Its names differ from those of module Lifecycle, which is about the     *)
(* server that it runs: LifecycleProofs extends both.                      *)
(***************************************************************************)
EXTENDS Naturals

CONSTANT MaxStarts   \* bound: processes of the service, one after the other

ASSUME StartsAssumption == MaxStarts \in Nat

VARIABLES
    starts,     \* number of the process of the service
    told,       \* what the service manager was told last
    status,     \* g_svcStatus
    report,     \* report[t]: how far thread t is in ReportSvcStatus
    main,       \* next step of SvcMain
    hand,       \* next step of the control handler
    stopEvent,  \* g_stopEvent: "none", "clear" or "set"
    code,       \* the code SvcMain is going to report
    session,    \* somebody is at the console
    server,     \* server[n]: the server the n-th process has launched; it runs on when
                \* it was "interrupted", and when the interrupt was lost ("deaf")
    exit,       \* exit[n]: its exit code
    raced       \* history: the handler has reported during the last report

process == <<starts, main, hand, stopEvent, code>>
reports == <<told, status, report>>
servers == <<server, exit>>
serviceVars == <<process, reports, servers, session, raced>>

ServiceThreads == {"main", "handler"}
Processes == 1 .. MaxStarts
Codes == {"ok", "event", "launch", "terminator", "server"}
ServerStates == {"none", "running", "interrupted", "deaf", "gone"}
States == {"START_PENDING", "RUNNING", "STOP_PENDING", "STOPPED"}
Status == [state : States, code : Codes, accepts : BOOLEAN]
NoReport == [at |-> "none", state |-> "STOPPED", code |-> "ok"]

ServiceInit ==
    /\ starts = 0
    /\ told = [state |-> "STOPPED", code |-> "ok", accepts |-> FALSE]
    /\ status = told
    /\ report = [t \in ServiceThreads |-> NoReport]
    /\ main = "off"
    /\ hand = "idle"
    /\ stopEvent = "none"
    /\ code = "ok"
    /\ session = FALSE
    /\ server = [n \in Processes |-> "none"]
    /\ exit = [n \in Processes |-> "ok"]
    /\ raced = FALSE

-----------------------------------------------------------------------------
(* ReportSvcStatus *)

Reporting(t) == report[t].at # "none"

\* Thread t begins to report.
Reports(t, state, c) ==
    report' = [report EXCEPT ![t] = [at |-> "state", state |-> state, code |-> c]]

\* The report of thread t goes on.
GoesOn(t, from, to) ==
    /\ report[t].at = from
    /\ report' = [report EXCEPT ![t].at = to]
    /\ raced' = (raced \/ (main = "over" /\ \A u \in ServiceThreads : Reporting(u)))
    /\ UNCHANGED <<process, servers, session>>

WriteState(t) ==
    /\ GoesOn(t, "state", "code")
    /\ status' = [status EXCEPT !.state = report[t].state]
    /\ UNCHANGED told

\* Wrong: the code of an earlier report stays.
WriteRestStale(t) ==
    /\ GoesOn(t, "code", "send")
    /\ status' = [status EXCEPT !.accepts = report[t].state # "START_PENDING"]
    /\ UNCHANGED told

WriteRest(t) ==
    /\ GoesOn(t, "code", "send")
    /\ status' = [status EXCEPT
                     !.code = report[t].code,
                     !.accepts = report[t].state # "START_PENDING"]
    /\ UNCHANGED told

\* SetServiceStatus.
Tell(t) ==
    /\ GoesOn(t, "send", "none")
    /\ told' = IF told.state = "STOPPED" THEN told ELSE status
    /\ UNCHANGED status

-----------------------------------------------------------------------------
(* SvcMain *)

\* The service manager starts a process; its SvcMain reports START_PENDING.
StartProcess ==
    /\ told.state = "STOPPED"
    /\ starts < MaxStarts
    /\ starts' = starts + 1
    /\ told' = [told EXCEPT !.state = "START_PENDING", !.accepts = FALSE]
    /\ status' = [state |-> "STOPPED", code |-> "ok", accepts |-> FALSE]
    /\ report' = [t \in ServiceThreads |->
                     IF t = "main"
                       THEN [at |-> "state", state |-> "START_PENDING", code |-> "ok"]
                       ELSE NoReport]
    /\ main' = "create"
    /\ hand' = "idle"
    /\ stopEvent' = "none"
    /\ code' = "ok"
    /\ raced' = FALSE
    /\ UNCHANGED <<session, servers>>

\* A step of SvcMain, which is not reporting.
MainAt(step) ==
    /\ main = step
    /\ ~Reporting("main")
    /\ UNCHANGED <<starts, hand, told, status, session, raced>>

\* SvcMain reports STOPPED and returns.
Over(c) ==
    /\ main' = "over"
    /\ code' = c
    /\ Reports("main", "STOPPED", c)

\* CreateEvent.
Create ==
    /\ MainAt("create")
    /\ UNCHANGED servers
    /\ \/ /\ stopEvent' = "clear"
          /\ main' = "wait"
          /\ Reports("main", "RUNNING", "ok")
          /\ UNCHANGED code
       \/ Over("event") /\ UNCHANGED stopEvent

\* WaitForSingleObject: stopped before there was a session, or a session is
\* found when the time is up.
Wait ==
    /\ MainAt("wait")
    /\ UNCHANGED <<stopEvent, servers>>
    /\ \/ stopEvent = "set" /\ Over("ok")
       \/ /\ stopEvent = "clear" /\ session
          /\ main' = "launch"
          /\ UNCHANGED <<code, report>>

\* LaunchServerInSession.
Launch ==
    /\ MainAt("launch")
    /\ UNCHANGED <<stopEvent, exit>>
    /\ \/ /\ server' = [server EXCEPT ![starts] = "running"]
          /\ main' = "watch"
          /\ UNCHANGED <<code, report>>
       \/ Over("launch") /\ UNCHANGED server

\* Wrong: only the event is waited for.
WatchEventOnly ==
    /\ MainAt("watch")
    /\ UNCHANGED <<stopEvent, servers>>
    /\ stopEvent = "set"
    /\ main' = "stop"
    /\ UNCHANGED <<code, report>>

\* WaitForMultipleObjects: of two that are signalled the first counts.  When the
\* wait fails, whatever the event, the server is stopped too.
Watch ==
    /\ MainAt("watch")
    /\ UNCHANGED <<stopEvent, servers>>
    /\ \/ /\ main' = "stop"
          /\ UNCHANGED <<code, report>>
       \/ /\ stopEvent = "clear"
          /\ server[starts] = "gone"
          /\ Over(exit[starts])

\* Wrong: the server is left alone when the terminator fails.
StopOrLeave ==
    /\ MainAt("stop")
    /\ UNCHANGED <<stopEvent, exit>>
    /\ \/ /\ server[starts] = "running"
          /\ server' = [server EXCEPT ![starts] = "interrupted"]
          /\ Over("ok")
       \/ /\ UNCHANGED server
          /\ Over("terminator")

\* TryStopServer: the terminator attaches to the console of the server and sends
\* it Ctrl-C, after which nobody waits for the server; whether the Ctrl-C could be
\* sent the terminator does not look at.  When it cannot attach or be started, as
\* when the server is gone, the server is terminated.
Stop ==
    /\ MainAt("stop")
    /\ UNCHANGED <<stopEvent, exit>>
    /\ \/ /\ server[starts] = "running"
          /\ \E sent \in {"interrupted", "deaf"} :
                server' = [server EXCEPT ![starts] = sent]
          /\ Over("ok")
       \/ /\ server' = [server EXCEPT ![starts] = "gone"]
          /\ Over("terminator")

Main == Create \/ Wait \/ Launch \/ Watch \/ Stop

-----------------------------------------------------------------------------
(* SvcCtrlHandler, on the thread of the dispatcher *)

\* The service manager sends a stop, and the handler reports STOP_PENDING.
SendStop ==
    /\ told.state = "RUNNING" /\ told.accepts
    /\ hand = "idle"
    /\ hand' = "signal"
    /\ Reports("handler", "STOP_PENDING", "ok")
    /\ UNCHANGED <<starts, main, stopEvent, code, told, status, servers, session,
                   raced>>

\* SetEvent.
SetStopEvent ==
    /\ hand = "signal"
    /\ ~Reporting("handler")
    /\ stopEvent' = IF stopEvent = "none" THEN "none" ELSE "set"
    /\ hand' = "again"
    /\ UNCHANGED <<starts, main, code, reports, servers, session, raced>>

\* The state that g_svcStatus has by now is reported once more, without a code.
Again ==
    /\ hand = "again"
    /\ hand' = "idle"
    /\ Reports("handler", status.state, "ok")
    /\ UNCHANGED <<starts, main, stopEvent, code, told, status, servers, session,
                   raced>>

Handler == SetStopEvent \/ Again

-----------------------------------------------------------------------------
(* The session and the servers *)

\* Somebody comes to the console or leaves it.
SessionChange ==
    /\ session' = ~session
    /\ UNCHANGED <<process, reports, servers, raced>>

\* A server ends, by itself or because it was interrupted.
ServerEnds(n) ==
    /\ server[n] \in {"running", "interrupted", "deaf"}
    /\ server' = [server EXCEPT ![n] = "gone"]
    /\ \E c \in {"ok", "server"} : exit' = [exit EXCEPT ![n] = c]
    /\ UNCHANGED <<process, reports, session, raced>>

-----------------------------------------------------------------------------
Reporter(t) == WriteState(t) \/ WriteRest(t) \/ Tell(t)

ServiceNext ==
    \/ StartProcess
    \/ Main
    \/ SendStop \/ Handler
    \/ \E t \in ServiceThreads : Reporter(t)
    \/ SessionChange
    \/ \E n \in Processes : ServerEnds(n)

\* The threads of the service go on.  Nobody has to come to the console, and no
\* server has to end.
ServiceFairness ==
    /\ WF_serviceVars(Main)
    /\ WF_serviceVars(Handler)
    /\ \A t \in ServiceThreads : WF_serviceVars(Reporter(t))

ServiceSpec == ServiceInit /\ [][ServiceNext]_serviceVars /\ ServiceFairness

-----------------------------------------------------------------------------
(* Properties *)

\* Every variable keeps its type.
ServiceTypeOK ==
    /\ starts \in 0 .. MaxStarts
    /\ told \in Status
    /\ status \in Status
    /\ report \in [ServiceThreads -> [at : {"none", "state", "code", "send"},
                               state : States, code : Codes]]
    /\ main \in {"off", "create", "wait", "launch", "watch", "stop", "over"}
    /\ hand \in {"idle", "signal", "again"}
    /\ stopEvent \in {"none", "clear", "set"}
    /\ code \in Codes
    /\ session \in BOOLEAN
    /\ server \in [Processes -> ServerStates]
    /\ exit \in [Processes -> {"ok", "server"}]
    /\ raced \in BOOLEAN

\* A server that runs is watched by the process that has launched it, until the
\* terminator was sent for it.  What the service reports as anything but a success
\* leaves no server behind.  The other way round it is not so: the terminator tells
\* of success when it has not got the interrupt through, and that server runs on,
\* and perhaps beside the next, with nobody to end it.
ServersAreWatched ==
    /\ \A n \in Processes :
          server[n] = "running" => n = starts /\ main \in {"watch", "stop"}
    /\ main = "over" /\ code # "ok" => server[starts] \in {"none", "gone"}

\* What the service manager is told in the end is that the service has stopped,
\* and why.  If the handler was reporting at the same time, it may be told that the
\* service is about to stop, or has stopped with another code, but never again that
\* it runs or starts.
LastWord ==
    main = "over" /\ ~Reporting("main") =>
        /\ told.state \in {"STOPPED", "STOP_PENDING"}
        /\ ~raced => told.state = "STOPPED" /\ told.code = code

\* A service that says it is stopping has been woken, or is about to be: the stop
\* event is there, and it stays set.
StopIsHeard ==
    /\ hand = "again" => stopEvent = "set"
    /\ told.state = "STOP_PENDING" => hand = "signal" \/ stopEvent = "set"

\* A stop that was sent, and the end of the server, make the service stop, and
\* the service manager is told so; with the same exception.
EndsAreTold ==
    (hand # "idle" \/ (main = "watch" /\ server[starts] = "gone"))
        ~> (told.state = "STOPPED" \/ raced)
=============================================================================
