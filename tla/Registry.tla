------------------------------ MODULE Registry ------------------------------
(***************************************************************************)
(* The server and its clients (class Server): the accept handler on the    *)
(* asio thread, one thread per connection, and the control thread, which   *)
(* asks for disconnects and destroys the server.                           *)
(*                                                                         *)
(* A connection is represented by its ClientContext: whether m_clients     *)
(* holds it, what ctx->thread is, where its thread stands in               *)
(* communicationMain, and what the panel was told.  What the thread does   *)
(* while it serves the device is the business of module Session.           *)
(*                                                                         *)
(* The module covers the life of one Server object.  Its threads keep the  *)
(* pointer to it, so the model goes on after the object was freed and      *)
(* records who still uses it.                                              *)
(***************************************************************************)
CONSTANTS
    Clients,   \* the connections
    NoClient   \* none of them

ASSUME RegistryAssumption == NoClient \notin Clients

VARIABLES
    clients,   \* m_clients
    cp,        \* next step of the thread of a connection
    thr,       \* ctx->thread
    acc,       \* the pending async_accept and its handler
    conn,      \* the connection the handler deals with
    main,      \* next step of the control thread
    target,    \* the client the control thread deals with
    copy,      \* what is left of the local copy in ~Server
    forced,    \* clients whose m_state forceDisconnect has set, and that have
               \* not written over it since
    seen,      \* events the panel was sent
    display,   \* the display of a device
    missed,    \* connections under way that ~Server has not got hold of
    stale,     \* who has used the Server object after it was freed
    victim     \* the connection by whose fault std::terminate was called

vars == <<clients, cp, thr, acc, conn, main, target, copy, forced, seen,
          display, missed, stale, victim>>

\* The asio thread and the control thread as users of the Server object.
AcceptHandler == "acceptor"

Init ==
    /\ clients = {}
    /\ cp = [c \in Clients |-> "absent"]
    /\ thr = [c \in Clients |-> "unset"]
    /\ acc = "armed"
    /\ conn = NoClient
    /\ main = "idle"
    /\ target = NoClient
    /\ copy = {}
    /\ forced = {}
    /\ seen = [c \in Clients |-> "unseen"]
    /\ display = [c \in Clients |-> "none"]
    /\ missed = {}
    /\ stale = {}
    /\ victim = NoClient

alive == victim = NoClient

Destroying == main \in {"closed", "loop", "join", "freed"}

\* ~Server has taken the contexts over.
Taken == main \in {"loop", "join", "freed"}

\* Wrong: ~Server keeps the lock while it joins.
LockFreeLater == main \notin {"disconnect", "loop", "join"}

\* Server::lock, which only Server::forceDisconnect holds for long.
LockFree == main # "disconnect"

\* x uses a member of the Server object.
Uses(x) == stale' = IF main = "freed" THEN stale \cup {x} ELSE stale

-----------------------------------------------------------------------------
(* The accept handler (serverMainAsync) *)

\* A device connects.
AcceptCompletes(c) ==
    /\ alive
    /\ acc = "armed"
    /\ ~Destroying
    /\ cp[c] = "absent"
    /\ acc' = "completed"
    /\ conn' = c
    /\ cp' = [cp EXCEPT ![c] = "accepted"]
    /\ UNCHANGED <<clients, thr, main, target, copy, forced, seen, display,
                   missed, stale, victim>>

\* The handler creates the context and starts its thread ...
HandlerSpawns ==
    /\ alive
    /\ acc = "completed"
    /\ acc' = "spawned"
    /\ cp' = [cp EXCEPT ![conn] = "insert"]
    /\ UNCHANGED <<clients, thr, conn, main, target, copy, forced, seen,
                   display, missed, stale, victim>>

\* ... only then assigns ctx->thread, and waits for the next connection.
HandlerAssigns ==
    /\ alive
    /\ acc = "spawned"
    /\ thr' = [thr EXCEPT ![conn] = "joinable"]
    /\ acc' = "armed"
    /\ conn' = NoClient
    /\ Uses(AcceptHandler)
    /\ UNCHANGED <<clients, cp, main, target, copy, forced, seen, display,
                   missed, victim>>

\* Accepting fails, or ~Server has closed the acceptor: m_running is reset.
AcceptEnds ==
    /\ alive
    /\ acc = "armed"
    /\ acc' = "off"
    /\ Uses(AcceptHandler)
    /\ UNCHANGED <<clients, cp, thr, conn, main, target, copy, forced, seen,
                   display, missed, victim>>

-----------------------------------------------------------------------------
(* The thread of a connection (communicationMain) *)

Goto(c, from, to) ==
    /\ alive
    /\ cp[c] = from
    /\ cp' = [cp EXCEPT ![c] = to]
    /\ UNCHANGED <<acc, conn, main, target, copy, missed>>

Insert(c) ==
    /\ LockFree
    /\ Goto(c, "insert", "identify")
    /\ clients' = clients \cup {c}
    /\ Uses(c)
    /\ UNCHANGED <<thr, forced, seen, display, victim>>

Identified(c) ==
    /\ Goto(c, "identify", "announce")
    /\ UNCHANGED <<clients, thr, forced, seen, display, stale, victim>>

\* identifyClient fails: the thread returns and leaves the context where it is.
NotIdentified(c) ==
    /\ Goto(c, "identify", "left")
    /\ UNCHANGED <<clients, thr, forced, seen, display, stale, victim>>

\* Wrong: the display is connected without telling the panel.
AnnounceForgotten(c) ==
    /\ Goto(c, "announce", "connect")
    /\ Uses(c)
    /\ UNCHANGED <<clients, thr, forced, seen, display, victim>>

\* m_notifier.onClientConnected
Announce(c) ==
    /\ Goto(c, "announce", "connect")
    /\ seen' = [seen EXCEPT ![c] = "connected"]
    /\ Uses(c)
    /\ UNCHANGED <<clients, thr, forced, display, victim>>

\* connectMonitor(m_adapter)
Connect(c) ==
    /\ Goto(c, "connect", "stream")
    /\ display' = [display EXCEPT ![c] = "attached"]
    /\ Uses(c)
    /\ UNCHANGED <<clients, thr, forced, seen, victim>>

\* No monitor: the thread returns here, too.
NotConnected(c) ==
    /\ Goto(c, "connect", "left")
    /\ Uses(c)
    /\ UNCHANGED <<clients, thr, forced, seen, display, victim>>

\* adapterConnectMonitor throws: the thread goes on behind the catch block.
ConnectThrows(c) ==
    /\ Goto(c, "connect", "erase")
    /\ Uses(c)
    /\ UNCHANGED <<clients, thr, forced, seen, display, victim>>

\* sendFrames starts by setting m_state, and takes back what forceDisconnect has
\* told the client before.
SetStreaming(c) ==
    /\ Goto(c, "stream", "serve")
    /\ forced' = forced \ {c}
    /\ UNCHANGED <<clients, thr, seen, display, stale, victim>>

\* Its loop and disconnectMonitor, or the catch block instead of the latter.
Serve(c) ==
    /\ Goto(c, "serve", "erase")
    /\ \E d \in {"released", "abandoned"} :
          display' = [display EXCEPT ![c] = d]
    /\ UNCHANGED <<clients, thr, forced, seen, stale, victim>>

\* Wrong: the context is not erased.
EraseForgotten(c) ==
    /\ LockFree
    /\ Goto(c, "erase", "notify")
    /\ Uses(c)
    /\ UNCHANGED <<clients, thr, forced, seen, display, victim>>

\* The thread removes its context and detaches itself, unless ~Server has taken
\* the context.  Detaching a thread that was not assigned yet throws.
Erase(c) ==
    /\ LockFree
    /\ Goto(c, "erase", "notify")
    /\ clients' = clients \ {c}
    /\ IF c \notin clients
       THEN UNCHANGED <<thr, victim>>
       ELSE IF thr[c] = "unset"
            THEN victim' = c /\ UNCHANGED thr
            ELSE thr' = [thr EXCEPT ![c] = "detached"] /\ UNCHANGED victim
    /\ Uses(c)
    /\ UNCHANGED <<forced, seen, display>>

\* m_notifier.onClientDisconnected
Notify(c) ==
    /\ Goto(c, "notify", "done")
    /\ seen' = [seen EXCEPT ![c] = "gone"]
    /\ Uses(c)
    /\ UNCHANGED <<clients, thr, forced, display, victim>>

Ended == {"done", "left"}

\* The last reference to a context goes, and with it a thread nobody has joined
\* or detached: its destructor calls std::terminate.
ContextDestroyed(c) ==
    /\ alive
    /\ cp[c] \in Ended
    /\ thr[c] = "joinable"
    /\ c \notin copy
    /\ c \notin clients \/ main = "freed"
    /\ victim' = c
    /\ UNCHANGED <<clients, cp, thr, acc, conn, main, target, copy, forced,
                   seen, display, missed, stale>>

-----------------------------------------------------------------------------
(* The control thread *)

MainGoto(from, to) ==
    /\ alive
    /\ main = from
    /\ main' = to
    /\ UNCHANGED <<cp, acc, conn, seen, display, stale, victim>>

\* Server::forceDisconnect finds the client of the panel, and keeps the lock
\* while the client is told.
FindClient(c) ==
    /\ MainGoto("idle", "disconnect")
    /\ c \in clients
    /\ target' = c
    /\ UNCHANGED <<clients, thr, copy, forced, missed>>

DisconnectClient ==
    /\ MainGoto("disconnect", "idle")
    /\ forced' = forced \cup {target}
    /\ target' = NoClient
    /\ UNCHANGED <<clients, thr, copy, missed>>

\* ~Server closes the acceptor ...
CloseAcceptor ==
    /\ MainGoto("idle", "closed")
    /\ UNCHANGED <<clients, thr, target, copy, forced, missed>>

\* ... takes all contexts over ...
TakeClients ==
    /\ MainGoto("closed", "loop")
    /\ copy' = clients
    /\ clients' = {}
    /\ missed' = {c \in Clients : /\ cp[c] # "absent"
                                  /\ \/ thr[c] = "unset"
                                     \/ c \notin clients /\ cp[c] \notin Ended}
    /\ UNCHANGED <<thr, target, forced>>

\* ... and tells each to end.  A thread it can get hold of is joined.
ForceNext(c) ==
    /\ c \in copy
    /\ thr[c] = "joinable"
    /\ MainGoto("loop", "join")
    /\ forced' = forced \cup {c}
    /\ thr' = [thr EXCEPT ![c] = "moved"]
    /\ target' = c
    /\ UNCHANGED <<clients, copy, missed>>

ForceUnassigned(c) ==
    /\ c \in copy
    /\ thr[c] # "joinable"
    /\ MainGoto("loop", "loop")
    /\ forced' = forced \cup {c}
    /\ copy' = copy \ {c}
    /\ UNCHANGED <<clients, thr, target, missed>>

\* Wrong: going on without waiting for the thread.
JoinClientUnwaited ==
    /\ MainGoto("join", "loop")
    /\ copy' = copy \ {target}
    /\ target' = NoClient
    /\ UNCHANGED <<clients, thr, forced, missed>>

JoinClient ==
    /\ MainGoto("join", "loop")
    /\ cp[target] \in Ended
    /\ copy' = copy \ {target}
    /\ target' = NoClient
    /\ UNCHANGED <<clients, thr, forced, missed>>

FreeServer ==
    /\ copy = {}
    /\ MainGoto("loop", "freed")
    /\ UNCHANGED <<clients, thr, target, copy, forced, missed>>

-----------------------------------------------------------------------------

Accepting ==
    \/ \E c \in Clients : AcceptCompletes(c)
    \/ HandlerSpawns \/ HandlerAssigns \/ AcceptEnds

\* Steps of a thread that wait for nothing but the lock.
ThreadRuns(c) ==
    \/ Insert(c) \/ Announce(c)
    \/ Connect(c) \/ NotConnected(c) \/ ConnectThrows(c)
    \/ SetStreaming(c)
    \/ Erase(c) \/ Notify(c)

\* Steps that wait for the device, or for a forced disconnect.
DeviceDecides(c) == Identified(c) \/ NotIdentified(c) \/ Serve(c)

Forcing == \E c \in Clients : ForceNext(c) \/ ForceUnassigned(c)

Destructor == TakeClients \/ Forcing \/ JoinClient \/ FreeServer

Next ==
    \/ Accepting
    \/ \E c \in Clients : ThreadRuns(c) \/ DeviceDecides(c)
                          \/ ContextDestroyed(c)
    \/ \E c \in Clients : FindClient(c)
    \/ DisconnectClient \/ CloseAcceptor
    \/ Destructor

Spec == Init /\ [][Next]_vars

\* A thread that waits for its device goes on after a forced disconnect, which
\* shuts its socket down and sets m_state: identifyClient reads the end of the
\* stream, and the loop of sendFrames ends (StoppedLoopEnds of module Session).  A
\* loop that has set m_state after that is not assumed to end, and the control
\* thread not to come out of DisconnectClient, which waits for the device.
FairSpec ==
    /\ Spec
    /\ WF_vars(Destructor)
    /\ \A c \in Clients :
          /\ WF_vars(ThreadRuns(c))
          /\ WF_vars(c \in forced /\ DeviceDecides(c))

-----------------------------------------------------------------------------
(* Properties *)

ThreadSteps == {"absent", "accepted", "insert", "identify", "announce",
                "connect", "stream", "serve", "erase", "notify", "done", "left"}

\* Every variable keeps its type.
TypeOK ==
    /\ clients \subseteq Clients
    /\ cp \in [Clients -> ThreadSteps]
    /\ thr \in [Clients -> {"unset", "joinable", "detached", "moved"}]
    /\ acc \in {"armed", "completed", "spawned", "off"}
    /\ conn \in Clients \cup {NoClient}
    /\ main \in {"idle", "disconnect", "closed", "loop", "join", "freed"}
    /\ target \in Clients \cup {NoClient}
    /\ copy \subseteq Clients
    /\ forced \subseteq Clients
    /\ seen \in [Clients -> {"unseen", "connected", "gone"}]
    /\ display \in [Clients -> {"none", "attached", "released", "abandoned"}]
    /\ missed \subseteq Clients
    /\ stale \subseteq Clients \cup {AcceptHandler}
    /\ victim \in Clients \cup {NoClient}

\* The list (clients/all, and where forceDisconnect looks) and the events agree:
\* no client is listed that the panel was told is gone, because a context is
\* erased before its departure is announced; and until ~Server takes the list, a
\* client the panel was told of is in it until its departure is about to be told.
ListMatchesEvents ==
    /\ \A c \in clients : seen[c] # "gone"
    /\ \A c \in Clients :
          seen[c] = "connected" /\ cp[c] # "notify" /\ ~Taken => c \in clients

\* Every thread of a context is let go in one way only: detached by itself, with
\* its context erased, or joined by ~Server, which took the context.
DetachedIsErased ==
    \A c \in Clients : thr[c] = "detached" =>
        c \notin clients \cup copy /\ cp[c] \in {"notify", "done"}

\* When ~Server is done, every thread it has got hold of has ended, and the only
\* users of the freed object are the accept handler and the connections that
\* were not registered, not assigned, or already detached when it looked.
FreedUsersWereMissed ==
    main = "freed" =>
        /\ \A c \in Clients : thr[c] = "moved" => cp[c] \in Ended
        /\ stale \subseteq missed \cup {AcceptHandler}

\* std::terminate is called only when a thread was as fast as the accept handler
\* that still had to assign it, or was missed by ~Server.
TerminateNeedsRace ==
    victim # NoClient => thr[victim] = "unset" \/ victim \in missed

\* What is undefined or fatal about the destruction of a server comes only from
\* threads that ~Server could not get hold of, or that were faster than the accept
\* handler.
DestructionNeedsRace == FreedUsersWereMissed /\ TerminateNeedsRace

\* For the panel and the desktop every connection follows ClientLife.
Life(c) == INSTANCE ClientLife WITH seen <- seen[c], display <- display[c]
LifeSpecs ==
    /\ \A c \in Clients : Life(c)!Init
    /\ [][\A c \in Clients :
             [Life(c)!Next]_<<seen[c], display[c]>>]_<<seen, display>>

\* ~Server waits only for a thread that was told to end, unless it has begun to
\* stream since, that has got past the lock it takes first, and that finds the lock
\* free when it leaves.
JoinedCanEnd ==
    main = "join" =>
        /\ target \in forced \/ cp[target] \in {"serve", "erase", "notify", "done"}
        /\ cp[target] \notin {"absent", "accepted", "insert"}
        /\ LockFree

\* ~Server waits for a client that began to stream after it was told to end.
WaitsForUntold == main = "join" /\ target \notin forced /\ cp[target] = "serve"

\* ~Server comes to its end: it joins without the lock that the threads it waits
\* for need to get out ("Make copy to prevent deadlocks").  The one thing that can
\* keep it for ever is a client told to end before the start of sendFrames, which
\* takes that back.
DestructorEnds ==
    main = "closed" ~> main = "freed" \/ ~alive \/ []WaitsForUntold
=============================================================================
