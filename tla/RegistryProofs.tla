--------------------------- MODULE RegistryProofs ---------------------------
(***************************************************************************)
(* The safety properties of Registry, for every set of connections, and    *)
(* the proof that each connection follows ClientLife.                      *)
(*                                                                         *)
(* The invariant says for every connection who owns it (Owned): while its  *)
(* thread runs it is in m_clients, or ~Server has it in its copy or has    *)
(* joined it, or it is among the connections ~Server has missed.  The rest *)
(* ties ctx->thread, the events and the display to the place of the thread *)
(* of the connection, and the handler to the one it deals with.            *)
(***************************************************************************)
EXTENDS Registry, TLAPS

Unregistered == {"absent", "accepted", "insert"}

\* The accept handler and the connection it deals with.
Handling ==
    /\ acc = "completed" => conn \in Clients /\ cp[conn] = "accepted"
    /\ acc = "spawned" =>
         /\ conn \in Clients
         /\ cp[conn] \notin {"absent", "accepted"}
         /\ thr[conn] = "unset"
    /\ \A c \in Clients :
         cp[c] \in {"absent", "accepted"} => thr[c] = "unset"

\* What ~Server has taken, joined and missed so far.
Destruction ==
    /\ ~Taken =>
         /\ copy = {} /\ missed = {}
         /\ \A c \in Clients : thr[c] # "moved"
         /\ victim # NoClient => cp[victim] = "notify"
    /\ main # "freed" => stale = {}
    /\ main = "freed" => copy = {}
    /\ main = "join" =>
         /\ target \in copy /\ thr[target] = "moved"
         /\ target \in forced \/ cp[target] \in {"serve", "erase", "notify", "done"}
    /\ main = "disconnect" => target \in Clients
    /\ stale \subseteq missed \cup {AcceptHandler}

\* The thread of a context, by the place it has come to.
Threaded ==
    \A c \in Clients :
        /\ cp[c] \in Unregistered => c \notin clients \cup copy
        /\ cp[c] \in {"notify", "done"} => c \notin clients
        /\ c \in clients => c \notin copy /\ thr[c] \in {"unset", "joinable"}
        /\ c \in copy => \/ thr[c] \in {"unset", "joinable"}
                         \/ thr[c] = "moved" /\ main = "join" /\ target = c
        /\ thr[c] = "detached" =>
             cp[c] \in {"notify", "done"} /\ c \notin copy
        /\ thr[c] = "moved" => \/ cp[c] \in Ended
                               \/ main = "join" /\ target = c

\* Who is answerable for a connection.
Owned ==
    \A c \in Clients :
        /\ cp[c] \notin Unregistered =>
             \/ c \in clients \cup copy \cup missed
             \/ thr[c] \in {"detached", "moved"}
             \/ victim = c
        /\ Taken /\ cp[c] # "absent" /\ thr[c] = "unset" => c \in missed
        /\ Taken /\ cp[c] \notin Ended \cup {"absent"} => c \in missed \cup copy
        /\ Taken /\ c \in clients => c \in missed

\* The events and the display of a connection, by the place of its thread.
Told ==
    \A c \in Clients :
        /\ cp[c] \in Unregistered \cup {"identify", "announce"} =>
             seen[c] = "unseen" /\ display[c] = "none"
        /\ cp[c] = "connect" => seen[c] = "connected" /\ display[c] = "none"
        /\ cp[c] \in {"stream", "serve"} =>
             seen[c] = "connected" /\ display[c] = "attached"
        /\ cp[c] \in {"erase", "notify"} =>
             seen[c] = "connected" /\ display[c] # "attached"
        /\ cp[c] = "done" => seen[c] = "gone"
        /\ cp[c] = "left" => seen[c] # "gone" /\ display[c] = "none"

IInv ==
    TypeOK /\ Handling /\ Destruction /\ Threaded /\ Owned /\ Told
    /\ TerminateNeedsRace

LEMMA InitIInv == Init => IInv
  BY RegistryAssumption
  DEF Init, IInv, TypeOK, Handling, Destruction, Threaded, Owned, Told,
      TerminateNeedsRace, Taken, Unregistered, ThreadSteps, Ended

\* Every step of the accept handler keeps the invariant.
LEMMA AcceptingIInv ==
    ASSUME IInv, Accepting
    PROVE  IInv'
<1> USE RegistryAssumption
    DEF IInv, TypeOK, Handling, Destruction, Threaded, Owned, Told,
        TerminateNeedsRace, Taken, Unregistered, ThreadSteps, Ended, alive,
        Destroying
<1>1. ASSUME NEW c \in Clients, AcceptCompletes(c)
      PROVE  IInv'
  BY <1>1 DEF AcceptCompletes
<1>2. CASE HandlerSpawns
  BY <1>2 DEF HandlerSpawns
<1>3. CASE HandlerAssigns
  BY <1>3 DEF HandlerAssigns, Uses
<1>4. CASE AcceptEnds
  BY <1>4 DEF AcceptEnds, Uses
<1> QED
  BY <1>1, <1>2, <1>3, <1>4 DEF Accepting

\* Every step of the thread of a connection keeps the invariant.
LEMMA ThreadIInv ==
    ASSUME IInv, NEW c \in Clients, ThreadRuns(c) \/ DeviceDecides(c)
    PROVE  IInv'
<1> USE RegistryAssumption
    DEF IInv, TypeOK, Handling, Destruction, Threaded, Owned, Told,
        TerminateNeedsRace, Taken, Unregistered, ThreadSteps, Ended, alive,
        Goto
<1>1. CASE Insert(c)
  BY <1>1 DEF Insert, Uses, LockFree
<1>2. CASE Announce(c)
  BY <1>2 DEF Announce, Uses
<1>3. CASE Connect(c)
  BY <1>3 DEF Connect, Uses
<1>4. CASE NotConnected(c)
  BY <1>4 DEF NotConnected, Uses
<1>5. CASE ConnectThrows(c)
  BY <1>5 DEF ConnectThrows, Uses
<1>6. CASE Erase(c)
  BY <1>6 DEF Erase, Uses, LockFree
<1>7. CASE Notify(c)
  BY <1>7 DEF Notify, Uses
<1>8. CASE Identified(c)
  BY <1>8 DEF Identified
<1>9. CASE NotIdentified(c)
  BY <1>9 DEF NotIdentified
<1>10. CASE Serve(c)
  BY <1>10 DEF Serve
<1>11. CASE SetStreaming(c)
  BY <1>11 DEF SetStreaming
<1> QED
  BY <1>1, <1>2, <1>3, <1>4, <1>5, <1>6, <1>7, <1>8, <1>9, <1>10, <1>11
  DEF ThreadRuns, DeviceDecides

\* So does the end of a context that nobody has joined or detached.
LEMMA ContextIInv ==
    ASSUME IInv, NEW c \in Clients, ContextDestroyed(c)
    PROVE  IInv'
  BY RegistryAssumption
  DEF IInv, TypeOK, Handling, Destruction, Threaded, Owned, Told,
      TerminateNeedsRace, Taken, Unregistered, ThreadSteps, Ended, alive,
      ContextDestroyed

\* Every step of the control thread keeps the invariant.
LEMMA MainIInv ==
    ASSUME IInv,
           \/ \E c \in Clients : FindClient(c)
           \/ DisconnectClient \/ CloseAcceptor \/ Destructor
    PROVE  IInv'
<1> USE RegistryAssumption
    DEF IInv, TypeOK, Handling, Destruction, Threaded, Owned, Told,
        TerminateNeedsRace, Taken, Unregistered, ThreadSteps, Ended, alive,
        MainGoto
<1>1. ASSUME NEW c \in Clients, FindClient(c)
      PROVE  IInv'
  BY <1>1 DEF FindClient
<1>2. CASE DisconnectClient
  BY <1>2 DEF DisconnectClient
<1>3. CASE CloseAcceptor
  BY <1>3 DEF CloseAcceptor
<1>4. CASE TakeClients
  BY <1>4 DEF TakeClients
<1>5. CASE JoinClient
  BY <1>5 DEF JoinClient
<1>6. CASE FreeServer
  BY <1>6 DEF FreeServer
<1>7. ASSUME NEW c \in Clients, ForceNext(c)
      PROVE  IInv'
  BY <1>7 DEF ForceNext
<1>8. ASSUME NEW c \in Clients, ForceUnassigned(c)
      PROVE  IInv'
  BY <1>8 DEF ForceUnassigned
<1> QED
  BY <1>1, <1>2, <1>3, <1>4, <1>5, <1>6, <1>7, <1>8 DEF Destructor, Forcing

LEMMA NextIInv == IInv /\ [Next]_vars => IInv'
<1> SUFFICES ASSUME IInv, [Next]_vars PROVE IInv'
  OBVIOUS
<1>1. CASE UNCHANGED vars
  BY <1>1
  DEF vars, IInv, TypeOK, Handling, Destruction, Threaded, Owned, Told,
      TerminateNeedsRace, Taken
<1>2. CASE Next
  BY <1>2, AcceptingIInv, ThreadIInv, ContextIInv, MainIInv DEF Next
<1> QED
  BY <1>1, <1>2

THEOREM Invariance == Spec => []IInv
  BY InitIInv, NextIInv, PTL DEF Spec

-----------------------------------------------------------------------------
(* The results *)

\* The variables keep their types.
THEOREM TypeCorrect == Spec => []TypeOK
<1>1. IInv => TypeOK
  BY DEF IInv
<1> QED
  BY <1>1, Invariance, PTL

\* The list holds nobody whose departure was announced, and, until ~Server takes
\* it, everybody who was announced and whose departure is not about to be.
THEOREM Listed == Spec => []ListMatchesEvents
<1>1. ASSUME IInv, NEW c \in Clients, c \in clients
      PROVE  seen[c] # "gone"
  BY <1>1 DEF IInv, TypeOK, Threaded, Told, ThreadSteps, Unregistered
<1>2. ASSUME IInv, NEW c \in Clients, seen[c] = "connected", cp[c] # "notify",
             ~Taken
      PROVE  c \in clients
  <2>1. cp[c] \notin Unregistered \cup {"done"}
    BY <1>2 DEF IInv, Told
  <2>2. c \in clients \/ thr[c] = "detached" \/ victim = c
    BY <1>2, <2>1 DEF IInv, Owned, Destruction
  <2>3. thr[c] # "detached"
    BY <1>2, <2>1 DEF IInv, Threaded
  <2>4. victim # c
    BY <1>2, RegistryAssumption DEF IInv, Destruction
  <2> QED
    BY <2>2, <2>3, <2>4
<1>3. IInv => ListMatchesEvents
  BY <1>1, <1>2 DEF IInv, TypeOK, ListMatchesEvents
<1> QED
  BY <1>3, Invariance, PTL

\* A detached thread has erased its context, and ~Server does not have it.
THEOREM Detached == Spec => []DetachedIsErased
<1>1. IInv => DetachedIsErased
  BY DEF IInv, TypeOK, Threaded, DetachedIsErased
<1> QED
  BY <1>1, Invariance, PTL

\* After ~Server, the freed object is used by no thread that ~Server has seen.
THEOREM FreedUsers == Spec => []FreedUsersWereMissed
<1>1. IInv => FreedUsersWereMissed
  BY DEF IInv, Threaded, Destruction, FreedUsersWereMissed
<1> QED
  BY <1>1, Invariance, PTL

\* Only the two races end the server.
THEOREM Terminates == Spec => []TerminateNeedsRace
<1>1. IInv => TerminateNeedsRace
  BY DEF IInv
<1> QED
  BY <1>1, Invariance, PTL

\* ~Server waits for no thread that waits for it, and for no device that was not
\* told to go, unless its session began to stream after that.
THEOREM Joins == Spec => []JoinedCanEnd
<1>1. IInv => JoinedCanEnd
  BY DEF IInv, TypeOK, Destruction, Threaded, JoinedCanEnd, Unregistered, LockFree
<1> QED
  BY <1>1, Invariance, PTL

\* So what is undefined or fatal about the destruction of a server needs one of
\* these races.
THEOREM Destructions == Spec => []DestructionNeedsRace
  BY FreedUsers, Terminates, PTL DEF DestructionNeedsRace

-----------------------------------------------------------------------------
(* Every connection follows ClientLife *)

LEMMA InitLife == Init => \A c \in Clients : Life(c)!Init
  BY DEF Init, Life!Init

\* A step changes the events and the display of one connection at most, and so
\* as the contract says.
LEMMA NextLife ==
    ASSUME IInv, [Next]_vars, NEW d \in Clients
    PROVE  [Life(d)!Next]_<<seen[d], display[d]>>
<1> USE DEF IInv, TypeOK, Told, Unregistered
<1>1. ASSUME NEW c \in Clients, Announce(c)
      PROVE  [Life(d)!Next]_<<seen[d], display[d]>>
  BY <1>1 DEF Announce, Goto, Life!Next, Life!Announce
<1>2. ASSUME NEW c \in Clients, Connect(c)
      PROVE  [Life(d)!Next]_<<seen[d], display[d]>>
  BY <1>2 DEF Connect, Goto, Life!Next, Life!Attach
<1>3. ASSUME NEW c \in Clients, Serve(c)
      PROVE  [Life(d)!Next]_<<seen[d], display[d]>>
  BY <1>3 DEF Serve, Goto, Life!Next, Life!Release, Life!Abandon
<1>4. ASSUME NEW c \in Clients, Notify(c)
      PROVE  [Life(d)!Next]_<<seen[d], display[d]>>
  BY <1>4 DEF Notify, Goto, Life!Next, Life!Depart
<1>5. ASSUME NEW c \in Clients,
             \/ Insert(c) \/ NotConnected(c) \/ ConnectThrows(c) \/ Erase(c)
             \/ Identified(c) \/ NotIdentified(c) \/ SetStreaming(c)
             \/ ContextDestroyed(c) \/ FindClient(c)
      PROVE  UNCHANGED <<seen, display>>
  BY <1>5
  DEF Insert, NotConnected, ConnectThrows, Erase, Identified, NotIdentified,
      SetStreaming, ContextDestroyed, FindClient, MainGoto
<1>6. CASE Accepting
  <2>1. UNCHANGED <<seen, display>>
    BY <1>6
    DEF Accepting, AcceptCompletes, HandlerSpawns, HandlerAssigns, AcceptEnds
  <2> QED
    BY <2>1
<1>7. CASE DisconnectClient \/ CloseAcceptor \/ Destructor
  <2>1. UNCHANGED <<seen, display>>
    BY <1>7
    DEF DisconnectClient, CloseAcceptor, Destructor, TakeClients, Forcing,
        ForceNext, ForceUnassigned, JoinClient, FreeServer, MainGoto
  <2> QED
    BY <2>1
<1>8. CASE UNCHANGED vars
  BY <1>8 DEF vars
<1> QED
  BY <1>1, <1>2, <1>3, <1>4, <1>5, <1>6, <1>7, <1>8
  DEF Next, ThreadRuns, DeviceDecides

\* What the panel and the desktop see of every connection is a behaviour of the
\* contract.
THEOREM ImplementsLife == Spec => LifeSpecs
<1>1. IInv /\ [Next]_vars =>
        [\A c \in Clients : [Life(c)!Next]_<<seen[c], display[c]>>]_<<seen, display>>
  BY NextLife
<1> QED
  BY <1>1, InitLife, Invariance, PTL DEF Spec, LifeSpecs
=============================================================================
