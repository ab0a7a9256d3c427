------------------------------- MODULE Panel -------------------------------
(***************************************************************************)
(* The control panel: its backend (ControlClient), which keeps a web       *)
(* socket to the server and a map of the devices it was told of; its       *)
(* window, which keeps a list of its own; and the part of the server that  *)
(* talks to it (MDApp).  The server publishes an event when a device comes *)
(* or goes; there is no replay, so what happens while nobody is subscribed *)
(* or while the window does not listen is never told again.                *)
(*                                                                         *)
(* A client is a connection of a device to one process of the server: the  *)
(* identifiers start again with every process (Server::g_currentId).       *)
(* What passes between backend and window is delivered at once: both keep  *)
(* the order, and neither side is lost without the other.                  *)
(***************************************************************************)
EXTENDS Naturals, Sequences, FiniteSets

CONSTANTS
    Ids,       \* identifiers of clients
    MaxRun,    \* bound: processes of the server, one after the other
    MaxClients,\* bound: clients of all these processes
    MaxReq,    \* bound: requests of the panel
    MaxQueue,  \* bound: messages of the panel under way when it disconnects
    NoClient   \* no client

Runs == 1 .. MaxRun
Reqs == 1 .. MaxReq
Client == [id : Ids, run : Runs]

ASSUME PanelAssumption ==
    MaxRun \in Nat /\ MaxReq \in Nat /\ MaxQueue \in Nat
    /\ NoClient \notin Client

VARIABLES
    up,         \* the process of the server is running
    run,        \* number of that process
    issued,     \* clients that were given an identifier
    clients,    \* clients it has announced and keeps in its list
    ghosts,     \* clients whose session has returned without another word
    forced,     \* those of them it is disconnecting by force
    enabled,    \* g_server is running
    deferred,   \* events handed to Loop::defer
    loop,       \* what the loop thread is in: "idle", a stop ("off", "shutdown"),
                \* a forced "disconnect", or main, which it has "thrown" out of
    answering,  \* the request it is in
    link,       \* the web socket: "down", "open", "broken", "quit"
    wire,       \* messages under way to the panel
    upWire,     \* messages under way to the server
    sendq,      \* messages ReconnectingWebSocket keeps until it is connected
    pending,    \* pendingRequests
    lastReq,    \* number of the last request
    devices,    \* the map of the backend
    view,       \* what the window shows
    list,       \* rows of the window
    page,       \* the client of the device page
    forceOk,    \* the button of the device page is active
    toggleOk,   \* the switch of the home page is active
    shown,      \* its position
    awaited,    \* the request the window waits for, 0 if none
    missed      \* history: identifiers with an event the window did not get

server == <<up, run, issued, clients, ghosts, forced, enabled, deferred, loop,
            answering>>
socket == <<link, wire, upWire, sendq>>
backend == <<pending, lastReq, devices>>
window == <<view, list, page, forceOk, toggleOk, shown, awaited>>
vars == <<server, socket, backend, window, missed>>

\* Messages to the panel.
Event == [kind : {"connected", "gone"}, client : Client]
Reply == [kind : {"reply"}, req : Reqs, enabled : BOOLEAN]

\* Messages to the server.
Request == [kind : {"info", "on", "off"}, req : Reqs]
Command == [kind : {"disconnect"}, client : Client] \cup [kind : {"shutdown"}]

EventsIn(q) == {q[i] : i \in DOMAIN q} \cap Event
IdsOf(S) == {c.id : c \in S}
IdsIn(q) == IdsOf({m.client : m \in EventsIn(q)})

Init ==
    /\ up = FALSE
    /\ run = 0
    /\ issued = {}
    /\ clients = {}
    /\ ghosts = {}
    /\ forced = {}
    /\ enabled = FALSE
    /\ deferred = <<>>
    /\ loop = "idle"
    /\ answering = 0
    /\ link = "down"
    /\ wire = <<>>
    /\ upWire = <<>>
    /\ sendq = <<>>
    /\ pending = {}
    /\ lastReq = 0
    /\ devices = {}
    /\ view = "closed"
    /\ list = {}
    /\ page = NoClient
    /\ forceOk = TRUE
    /\ toggleOk = TRUE
    /\ shown = FALSE
    /\ awaited = 0
    /\ missed = {}

-----------------------------------------------------------------------------
(* The server *)

\* The process starts, with its servers running.
ServerStarts ==
    /\ ~up
    /\ link \in {"down", "broken"}
    /\ run < MaxRun
    /\ up' = TRUE
    /\ run' = run + 1
    /\ enabled' = TRUE
    /\ UNCHANGED <<issued, clients, ghosts, forced, deferred, loop, answering,
                   socket, backend, window, missed>>

\* The process ends, at any point: its clients are gone without a word.
Ends(lost) ==
    /\ up' = FALSE
    /\ clients' = {}
    /\ ghosts' = {}
    /\ forced' = {}
    /\ deferred' = <<>>
    /\ enabled' = FALSE
    /\ loop' = "idle"
    /\ answering' = 0
    /\ link' = CASE link = "open" -> "broken"
                 [] link = "quit" -> "down"
                 [] OTHER -> link
    /\ upWire' = <<>>
    /\ missed' = missed \cup lost
    /\ UNCHANGED <<run, issued, wire, sendq, backend, window>>

ServerDies ==
    /\ up
    /\ Ends(IdsOf(clients \cup ghosts) \cup IdsIn(deferred))

\* MDApp::emit.
Emit(kind, c) ==
    deferred' = Append(deferred, [kind |-> kind, client |-> c])

\* A device has connected and was identified; that may still happen while the
\* server is being destroyed.
Arrives(id) ==
    LET c == [id |-> id, run |-> run]
    IN  /\ up
        /\ enabled \/ loop \in {"off", "shutdown"}
        /\ c \notin issued
        /\ Cardinality(issued) < MaxClients
        /\ issued' = issued \cup {c}
        /\ clients' = clients \cup {c}
        /\ Emit("connected", c)
        /\ UNCHANGED <<up, run, ghosts, forced, enabled, loop, answering, socket,
                       backend, window, missed>>

\* Its monitor cannot be connected: its session returns, and it stays in the list
\* of the server with nothing said of it any more.
ReturnsEarly(c) ==
    /\ c \in clients \ ghosts
    /\ ghosts' = ghosts \cup {c}
    /\ UNCHANGED <<up, run, issued, clients, forced, enabled, deferred, loop,
                   answering, socket, backend, window, missed>>

\* Its session has ended.
Leaves(c) ==
    /\ c \in clients \ ghosts
    /\ clients' = clients \ {c}
    /\ forced' = forced \ {c}
    /\ Emit("gone", c)
    /\ UNCHANGED <<up, run, issued, ghosts, enabled, loop, answering, socket,
                   backend, window, missed>>

\* ~Server has joined the sessions of its clients.
AllReturned == clients \subseteq ghosts

\* The loop thread publishes a deferred event to who is subscribed now.  At a
\* shutdown the deferred events come before the close, which was deferred last.
Publish ==
    /\ deferred # <<>>
    /\ loop = "idle" \/ (loop = "shutdown" /\ AllReturned)
    /\ deferred' = Tail(deferred)
    /\ IF link = "open"
         THEN wire' = Append(wire, Head(deferred)) /\ UNCHANGED missed
         ELSE missed' = missed \cup {Head(deferred).client.id} /\ UNCHANGED wire
    /\ UNCHANGED <<up, run, issued, clients, ghosts, forced, enabled, loop,
                   answering, link, upWire, sendq, backend, window>>

\* The answer to a request goes to the socket it came from.
Answer(req, state) ==
    wire' = IF link = "open"
              THEN Append(wire, [kind |-> "reply", req |-> req, enabled |-> state])
              ELSE wire

\* The loop thread takes the next message.
Takes(kinds) ==
    /\ up
    /\ loop = "idle"
    /\ link \in {"open", "quit"}
    /\ upWire # <<>>
    /\ Head(upWire).kind \in kinds
    /\ upWire' = Tail(upWire)
    /\ UNCHANGED <<up, run, issued, clients, ghosts, deferred, link, sendq,
                   backend, window, missed>>

\* GET_CONFIG, and SET_STATE with enable.
HandleRequest ==
    LET m == Head(upWire)
    IN  /\ Takes({"info", "on"})
        /\ enabled' = (enabled \/ m.kind = "on")
        /\ Answer(m.req, enabled')
        /\ UNCHANGED <<forced, loop, answering>>

\* ... unless the host cannot be resolved or one of the servers cannot be started:
\* the exception leaves the loop, and main waits for the asio thread.  The process
\* lives on, its socket stays open, and nobody reads it or answers any more.
HandleThrows ==
    LET m == Head(upWire)
    IN  /\ Takes({"info", "on"})
        /\ enabled' \in {enabled, enabled \/ m.kind = "on"}
        /\ loop' = "thrown"
        /\ answering' = m.req
        /\ UNCHANGED <<forced, wire>>

\* SET_STATE without enable, and SHUTDOWN: the loop thread destroys the server,
\* and so waits until the sessions of its clients have ended.
HandleStop ==
    LET m == Head(upWire)
    IN  /\ Takes({"off", "shutdown"})
        /\ enabled' = FALSE
        /\ loop' = m.kind
        /\ answering' = IF m.kind = "off" THEN m.req ELSE 0
        /\ UNCHANGED <<forced, wire>>

\* Of a session that had returned early nothing is said when the list goes.
StopReturns ==
    /\ loop = "off"
    /\ AllReturned
    /\ clients' = {}
    /\ forced' = {}
    /\ Answer(answering, FALSE)
    /\ loop' = "idle"
    /\ answering' = 0
    /\ UNCHANGED <<up, run, issued, ghosts, enabled, deferred, link, upWire, sendq,
                   backend, window, missed>>

ShutdownReturns ==
    /\ loop = "shutdown"
    /\ AllReturned
    /\ deferred = <<>>
    /\ Ends(IdsOf(ghosts))

\* Wrong: it is not the identifier that decides.
HandleDisconnectFirst ==
    /\ Takes({"disconnect"})
    /\ \E c \in clients : forced' = forced \cup {c}
    /\ loop' = "disconnect"
    /\ UNCHANGED <<enabled, answering, wire>>

\* DISCONNECT_CLIENT: the client with that identifier is disconnected.  The loop
\* thread writes it the reason, and is held until the device has taken it.
HandleDisconnect ==
    LET m == Head(upWire)
        matching == {c \in clients : c.id = m.client.id}
    IN  /\ Takes({"disconnect"})
        /\ forced' = forced \cup matching
        /\ loop' = IF matching = {} THEN "idle" ELSE "disconnect"
        /\ UNCHANGED <<enabled, answering, wire>>

DisconnectReturns ==
    /\ loop = "disconnect"
    /\ loop' = "idle"
    /\ forced' = {}
    /\ UNCHANGED <<up, run, issued, clients, ghosts, enabled, deferred, answering,
                   socket, backend, window, missed>>

-----------------------------------------------------------------------------
(* The backend and its socket *)

\* The socket opens: the loop thread subscribes it, and what was kept is sent.
Opens ==
    /\ up
    /\ loop = "idle"
    /\ link = "down"
    /\ link' = "open"
    /\ upWire' = sendq
    /\ sendq' = <<>>
    /\ UNCHANGED <<server, wire, backend, window, missed>>

\* The socket of a panel that has quit is closed when it was read to its end.
CloseQuit ==
    /\ link = "quit"
    /\ upWire = <<>>
    /\ link' = "down"
    /\ UNCHANGED <<server, wire, upWire, sendq, backend, window, missed>>


\* Wrong: the map of the backend is emptied too.
RejectAndForget ==
    /\ pending' = {}
    /\ devices' = {}
    /\ awaited' = 0
    /\ view' = IF awaited # 0 /\ view \in {"starting", "loading"} THEN "home" ELSE view
    /\ UNCHANGED <<lastReq, list, page, forceOk, toggleOk, shown>>

\* rws.onclose: every pending request is rejected.  The loader of the home page
\* shows it without data; the switch stays as it is, inactive.
RejectAll ==
    /\ pending' = {}
    /\ awaited' = 0
    /\ view' = IF awaited # 0 /\ view \in {"starting", "loading"} THEN "home" ELSE view
    /\ UNCHANGED <<lastReq, devices, list, page, forceOk, toggleOk, shown>>

\* The connection is lost, with all that is under way.
Loses ==
    /\ link \in {"open", "broken"}
    /\ link' = "down"
    /\ wire' = <<>>
    /\ upWire' = <<>>
    /\ missed' = missed \cup IdsIn(wire)
    /\ RejectAll
    /\ UNCHANGED <<server, sendq>>

\* An attempt to connect fails, or is given up because the loop thread does not
\* take it up; that closes the socket too.
FailsToConnect ==
    /\ ~up \/ loop # "idle"
    /\ link = "down"
    /\ RejectAll
    /\ UNCHANGED <<server, socket, missed>>

\* A message is taken from the socket.
Receives(kind) ==
    /\ link \in {"open", "broken"}
    /\ wire # <<>>
    /\ Head(wire).kind = kind
    /\ wire' = Tail(wire)
    /\ UNCHANGED <<server, link, upWire, sendq, lastReq, page, forceOk>>

Present(id) == \E d \in devices : d.id = id

\* The window is there, and App has registered its handlers: it is mounted when
\* the first loader is done.
Mounted == view \notin {"closed", "starting"}

ReceiveConnected ==
    LET c == Head(wire).client
    IN  /\ Receives("connected")
        /\ devices' = {d \in devices : d.id # c.id} \cup {c}
        /\ list' = IF Mounted /\ ~Present(c.id) THEN list \cup {c} ELSE list
        /\ missed' = IF Mounted THEN missed ELSE missed \cup {c.id}
        /\ UNCHANGED <<pending, view, toggleOk, shown, awaited>>

\* Wrong: the device stays in the map of the backend.
ReceiveGoneKept ==
    LET id == Head(wire).client.id
    IN  /\ Receives("gone")
        /\ list' = IF Present(id) THEN {r \in list : r.id # id} ELSE list
        /\ UNCHANGED <<pending, devices, view, toggleOk, shown, awaited, missed>>

ReceiveGone ==
    LET id == Head(wire).client.id
    IN  /\ Receives("gone")
        /\ devices' = {d \in devices : d.id # id}
        /\ list' = IF Present(id) THEN {r \in list : r.id # id} ELSE list
        /\ UNCHANGED <<pending, view, toggleOk, shown, awaited, missed>>

\* An answer resolves its request, if that is still pending.
ReceiveReply ==
    LET m == Head(wire)
        mine == m.req \in pending /\ m.req = awaited
    IN  /\ Receives("reply")
        /\ pending' = pending \ {m.req}
        /\ view' = IF mine THEN "home" ELSE view
        /\ shown' = IF mine THEN m.enabled ELSE shown
        /\ toggleOk' = (toggleOk \/ mine)
        /\ awaited' = IF mine THEN 0 ELSE awaited
        /\ UNCHANGED <<devices, list, missed>>

\* rws.send.
Send(m) ==
    /\ upWire' = IF link = "open" THEN Append(upWire, m) ELSE upWire
    /\ sendq' = IF link \in {"down", "quit"} THEN Append(sendq, m) ELSE sendq
    /\ UNCHANGED <<link, wire>>

\* ControlClient.request.
Asks(kind) ==
    /\ lastReq < MaxReq
    /\ lastReq' = lastReq + 1
    /\ pending' = pending \cup {lastReq + 1}
    /\ awaited' = lastReq + 1
    /\ Send([kind |-> kind, req |-> lastReq + 1])
    /\ UNCHANGED devices

-----------------------------------------------------------------------------
(* The user.  While the connection is lost a banner covers the page, but does    *)
(* not disable it.                                                            *)

\* A page that is left forgets the state of its button or switch.
LeavesPage ==
    /\ page' = NoClient
    /\ forceOk' = TRUE
    /\ toggleOk' = TRUE
    /\ shown' = FALSE

\* The panel is opened at its home page, whose loader asks the server first, or
\* at the settings, whose loader does not.
OpenPanel ==
    /\ view = "closed"
    /\ view' = "starting"
    /\ Asks("info")
    /\ UNCHANGED <<server, list, page, forceOk, toggleOk, shown, missed>>

OpenSettings ==
    /\ view = "closed"
    /\ view' = "settings"
    /\ UNCHANGED <<server, socket, backend, list, page, forceOk, toggleOk, shown,
                   awaited, missed>>

\* The window and its list go away; the backend stays in the tray.
CloseWindow ==
    /\ view # "closed"
    /\ view' = "closed"
    /\ list' = {}
    /\ awaited' = 0
    /\ missed' = missed \cup IdsOf(list)
    /\ LeavesPage
    /\ UNCHANGED <<server, socket, backend>>

GoHome ==
    /\ view \in {"settings", "device"}
    /\ view' = "loading"
    /\ LeavesPage
    /\ Asks("info")
    /\ UNCHANGED <<server, list, missed>>

GoSettings ==
    /\ view \in {"loading", "home", "device"}
    /\ view' = "settings"
    /\ awaited' = 0
    /\ LeavesPage
    /\ UNCHANGED <<server, socket, backend, list, missed>>

\* A row opens what the backend knows by its identifier.  From one device to the
\* next the page, and with it the state of its button, is the same.
GoDevice(r) ==
    /\ r \in list
    /\ \E d \in devices : d.id = r.id /\ page' = d
    /\ view' = "device"
    /\ toggleOk' = TRUE
    /\ shown' = FALSE
    /\ awaited' = 0
    /\ UNCHANGED <<server, socket, backend, list, forceOk, missed>>

\* "Force disconnect".
ForceDisconnect ==
    /\ view = "device"
    /\ forceOk
    /\ Len(upWire) + Len(sendq) < MaxQueue
    /\ forceOk' = FALSE
    /\ Send([kind |-> "disconnect", client |-> page])
    /\ UNCHANGED <<server, backend, view, list, page, toggleOk, shown, awaited,
                   missed>>

\* The switch of the home page.
Toggle ==
    /\ view = "home"
    /\ toggleOk
    /\ toggleOk' = FALSE
    /\ Asks(IF shown THEN "off" ELSE "on")
    /\ UNCHANGED <<server, view, list, page, forceOk, shown, missed>>

\* The panel quits, after sending the server a shutdown or not, and is started
\* again.  What it has not sent is lost; what it has sent is read.
Quit(shutdown) ==
    /\ link # "quit"
    /\ upWire' = IF shutdown /\ link = "open"
                   THEN Append(upWire, [kind |-> "shutdown"]) ELSE upWire
    /\ link' = IF link = "open" THEN "quit" ELSE "down"
    /\ wire' = <<>>
    /\ sendq' = <<>>
    /\ pending' = {}
    /\ devices' = {}
    /\ view' = "closed"
    /\ list' = {}
    /\ awaited' = 0
    /\ LeavesPage
    /\ missed' = missed \cup IdsOf(devices) \cup IdsIn(wire)
    /\ UNCHANGED <<server, lastReq>>

-----------------------------------------------------------------------------
Serving ==
    \/ HandleRequest \/ HandleStop \/ StopReturns \/ ShutdownReturns
    \/ HandleDisconnect

Staying == HandleThrows \/ DisconnectReturns

Receiving == ReceiveConnected \/ ReceiveGone \/ ReceiveReply

Next ==
    \/ ServerStarts \/ ServerDies
    \/ \E id \in Ids : Arrives(id)
    \/ \E c \in clients : ReturnsEarly(c) \/ Leaves(c)
    \/ Publish
    \/ Serving \/ Staying
    \/ Opens \/ CloseQuit \/ Loses \/ FailsToConnect
    \/ Receiving
    \/ OpenPanel \/ OpenSettings \/ CloseWindow
    \/ GoHome \/ GoSettings \/ \E r \in list : GoDevice(r)
    \/ ForceDisconnect \/ Toggle
    \/ \E shutdown \in BOOLEAN : Quit(shutdown)

Spec == Init /\ [][Next]_vars

\* What goes on without the user and without a device: as long as something is
\* left to be sent, read, answered or tried again, some of it is done.  That a
\* session ends, and that a device takes what is written to it, is not assumed.
Machinery ==
    \/ Publish \/ Serving \/ Receiving \/ Opens \/ CloseQuit \/ FailsToConnect
    \/ link = "broken" /\ Loses

FairSpec == Spec /\ WF_vars(Machinery)

-----------------------------------------------------------------------------
(* Properties *)

\* Every variable keeps its type.
TypeOK ==
    /\ up \in BOOLEAN
    /\ run \in 0 .. MaxRun
    /\ issued \subseteq Client
    /\ clients \subseteq Client
    /\ ghosts \subseteq Client
    /\ forced \subseteq clients
    /\ enabled \in BOOLEAN
    /\ deferred \in Seq(Event)
    /\ loop \in {"idle", "off", "shutdown", "disconnect", "thrown"}
    /\ answering \in 0 .. MaxReq
    /\ link \in {"down", "open", "broken", "quit"}
    /\ wire \in Seq(Event \cup Reply)
    /\ upWire \in Seq(Request \cup Command)
    /\ sendq \in Seq(Request \cup Command)
    /\ pending \subseteq Reqs
    /\ lastReq \in 0 .. MaxReq
    /\ devices \subseteq Client
    /\ view \in {"closed", "starting", "loading", "home", "settings", "device"}
    /\ list \subseteq Client
    /\ page \in Client \cup {NoClient}
    /\ forceOk \in BOOLEAN
    /\ toggleOk \in BOOLEAN
    /\ shown \in BOOLEAN
    /\ awaited \in 0 .. MaxReq
    /\ missed \subseteq Ids

\* The clients the list is going to hold when what is under way has arrived.
Expected ==
    LET Told(kind) == {m.client : m \in {m \in EventsIn(wire) \cup EventsIn(deferred) :
                                           m.kind = kind}}
    IN  (list \cup Told("connected")) \ Told("gone")

\* Of whom the server has not said that they are gone.
Standing == clients \cup ghosts

\* As long as every event about an identifier gets to the window, the list of
\* the panel and what is under way to it add up to the clients of the server, and
\* to those whose session returned before it served them: these have a row for as
\* long as the process runs, also after the server has been stopped.
ListFollowsServer ==
    \A id \in Ids \ missed :
        {c \in Expected : c.id = id} = {c \in Standing : c.id = id}

\* A row opens the page of its own device, or of one that a later process of the
\* server gave the same identifier; and no two rows share an identifier, by
\* which React tells them apart.
RowsAreKnown ==
    \A r \in list :
        /\ \E d \in devices : d.id = r.id /\ d.run >= r.run
        /\ \A s \in list : s.id = r.id => s = r

\* A forced disconnect reaches the client that was chosen, or a client of a later
\* process of the server which has its identifier: the message was kept while
\* there was no connection, or the page was stale.
DisconnectHitsItsDevice ==
    [][\A c \in forced' \ forced :
          LET chosen == Head(upWire).client
          IN  c = chosen \/ (c.id = chosen.id /\ c.run > chosen.run)]_vars

RequestsIn(q) == {m.req : m \in {q[i] : i \in DOMAIN q} \cap Request}
RepliesIn(q) == {m.req : m \in {q[i] : i \in DOMAIN q} \cap Reply}

\* What the window waits for is pending, and nothing that is pending has been
\* dropped: unless the connection is about to be closed, which rejects it, the
\* request, the server at work on it, or the answer is still there.  The server that
\* has thrown is at work on its last request for good: that one is lost, and those
\* behind it are not read.
PendingIsUnderWay ==
    /\ awaited # 0 => awaited \in pending
    /\ link = "open" =>
         pending \subseteq RequestsIn(upWire) \cup {answering} \cup RepliesIn(wire)
    /\ link \in {"down", "quit"} => pending \subseteq RequestsIn(sendq)

\* The loop thread is held: by a device that does not take what it is told, by
\* sessions that do not end, or because it has left the loop.
Held ==
    \/ loop \in {"disconnect", "thrown"}
    \/ loop \in {"off", "shutdown"} /\ ~AllReturned

=============================================================================
