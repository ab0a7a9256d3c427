---------------------------- MODULE PanelProofs ----------------------------
(***************************************************************************)
(* Proofs about module Panel: what the window shows and what is under way  *)
(* to it are the clients of the server, for every number of identifiers,   *)
(* processes and requests.                                                 *)
(*                                                                         *)
(* The invariant follows an event from Loop::defer through the socket to   *)
(* the window.  The events on the socket belong to one process of the      *)
(* server, and those of one client come in order, so that an event never   *)
(* meets a row of an earlier process unless that identifier has missed one.*)
(***************************************************************************)
EXTENDS Panel, TLAPS

\* An event of a client is never overtaken: connected comes first, gone last.
InOrder(e, f) ==
    e.client = f.client => e.kind = "connected" /\ f.kind = "gone"

Ordered(q) ==
    \A i, j \in DOMAIN q :
        i < j /\ q[i] \in Event /\ q[j] \in Event => InOrder(q[i], q[j])

\* The number of the process, and the queues that are empty.
Sides ==
    /\ up => run \in Runs
    /\ loop \in {"off", "thrown"} => answering \in Reqs
    /\ ~up => Standing = {} /\ deferred = <<>>
    /\ link \in {"down", "quit"} => wire = <<>>
    /\ link \in {"open", "quit"} => up

\* Whom the clients, the rows and the events belong to.
Known ==
    /\ \A c \in issued : c.run <= run
    /\ list \cup devices \subseteq issued
    /\ \A c \in Standing : c \in issued /\ c.run = run
    /\ \A e \in EventsIn(deferred) : e.client \in issued /\ e.client.run = run
    /\ \A e \in EventsIn(wire) :
          /\ e.client \in issued
          /\ link = "open" => e.client.run = run
          /\ \A f \in EventsIn(wire) : f.client.run = e.client.run
          /\ \A d \in devices : d.run <= e.client.run

\* The events of a client come in order, the first before it is listed and the
\* last after it has gone.
Sequence ==
    /\ Ordered(wire) /\ Ordered(deferred)
    /\ \A e \in EventsIn(wire), f \in EventsIn(deferred) : InOrder(e, f)
    /\ \A e \in EventsIn(wire) \cup EventsIn(deferred) :
          /\ e.kind = "connected" => e.client \notin list \cup devices
          /\ e.kind = "gone" => e.client \notin Standing

\* Of an identifier that has missed nothing, rows and map agree, and the events
\* on the socket are about the client that is listed.
Agreed ==
    \A c \in Client : c.id \notin missed =>
        /\ c \in Expected <=> c \in Standing
        /\ c \in list <=> c \in devices
        /\ c \in list =>
             \A e \in EventsIn(wire) : e.client.id = c.id => e.client = c

\* The clients a disconnect may be asked for are not of a later process.
Within(q, n) ==
    \A i \in DOMAIN q : q[i].kind = "disconnect" => q[i].client.run <= n

Meant ==
    /\ page # NoClient => page.run <= run
    /\ Within(upWire, run) /\ Within(sendq, run)
    /\ view # "device" \/ page # NoClient

IInv ==
    /\ TypeOK /\ Sides /\ Known /\ Sequence /\ Agreed /\ RowsAreKnown /\ Meant

-----------------------------------------------------------------------------
(* Queues of messages *)

Elements(q) == {q[i] : i \in DOMAIN q}

\* A message at the end of a queue joins those of the queue.
LEMMA AppendElements ==
    ASSUME NEW S, NEW q \in Seq(S), NEW m \in S
    PROVE  Elements(Append(q, m)) = Elements(q) \cup {m}
<1>1. DOMAIN q = 1 .. Len(q) /\ DOMAIN Append(q, m) = 1 .. Len(q) + 1
  OBVIOUS
<1>2. \A i \in 1 .. Len(q) : Append(q, m)[i] = q[i]
  OBVIOUS
<1>3. Append(q, m)[Len(q) + 1] = m
  OBVIOUS
<1>4. Len(q) \in Nat
  OBVIOUS
<1> QED
  BY <1>1, <1>2, <1>3, <1>4 DEF Elements

\* The first message of a queue and the rest of it.
LEMMA HeadElements ==
    ASSUME NEW S, NEW q \in Seq(S), q # <<>>
    PROVE  /\ Head(q) \in S
           /\ Tail(q) \in Seq(S)
           /\ Elements(q) = Elements(Tail(q)) \cup {Head(q)}
<1>1. Len(q) \in Nat \ {0} /\ Head(q) = q[1] /\ Head(q) \in S /\ Tail(q) \in Seq(S)
  OBVIOUS
<1>2. DOMAIN q = 1 .. Len(q) /\ DOMAIN Tail(q) = 1 .. Len(q) - 1
  OBVIOUS
<1>3. \A i \in 1 .. Len(q) - 1 : Tail(q)[i] = q[i + 1]
  OBVIOUS
<1>4. Elements(q) = Elements(Tail(q)) \cup {Head(q)}
  <2>1. ASSUME NEW i \in DOMAIN q
        PROVE  q[i] \in {Tail(q)[j] : j \in DOMAIN Tail(q)} \cup {Head(q)}
    <3>1. CASE i = 1
      BY <3>1, <1>1
    <3>2. CASE i # 1
      <4>1. i - 1 \in DOMAIN Tail(q) /\ Tail(q)[i - 1] = q[i]
        BY <3>2, <1>1, <1>2, <1>3
      <4> QED
        BY <4>1
    <3> QED
      BY <3>1, <3>2
  <2>2. ASSUME NEW i \in DOMAIN Tail(q)
        PROVE  Tail(q)[i] \in {q[j] : j \in DOMAIN q}
    <3>1. i + 1 \in DOMAIN q /\ Tail(q)[i] = q[i + 1]
      BY <1>1, <1>2, <1>3
    <3> QED
      BY <3>1
  <2>3. Head(q) \in {q[j] : j \in DOMAIN q}
    <3>1. 1 \in DOMAIN q
      BY <1>1, <1>2
    <3> QED
      BY <3>1, <1>1
  <2> QED
    BY <2>1, <2>2, <2>3 DEF Elements
<1> QED
  BY <1>1, <1>4

\* The same of what the queues hold of each kind.
LEMMA AppendEvents ==
    ASSUME NEW S, NEW q \in Seq(S), NEW m \in S
    PROVE  /\ EventsIn(Append(q, m)) = EventsIn(q) \cup ({m} \cap Event)
           /\ RequestsIn(q) \subseteq RequestsIn(Append(q, m))
           /\ RepliesIn(q) \subseteq RepliesIn(Append(q, m))
           /\ m \in Request => m.req \in RequestsIn(Append(q, m))
           /\ m \in Reply => m.req \in RepliesIn(Append(q, m))
  BY AppendElements DEF Elements, EventsIn, RequestsIn, RepliesIn

LEMMA HeadEvents ==
    ASSUME NEW S, NEW q \in Seq(S), q # <<>>
    PROVE  /\ Head(q) \in S
           /\ Tail(q) \in Seq(S)
           /\ EventsIn(q) = EventsIn(Tail(q)) \cup ({Head(q)} \cap Event)
           /\ \A r \in RequestsIn(q) :
                 r \in RequestsIn(Tail(q)) \/ (Head(q) \in Request /\ r = Head(q).req)
           /\ \A r \in RepliesIn(q) :
                 r \in RepliesIn(Tail(q)) \/ (Head(q) \in Reply /\ r = Head(q).req)
  BY HeadElements DEF Elements, EventsIn, RequestsIn, RepliesIn

LEMMA EmptyQueue == \A S : <<>> \in Seq(S)
  OBVIOUS

\* The empty queue holds no event.
LEMMA NoEvents == EventsIn(<<>>) = {}
  BY DEF EventsIn

\* A queue in order stays so when an event comes last that none precedes.
LEMMA AppendOrdered ==
    ASSUME NEW S, NEW q \in Seq(S), NEW m \in S, Ordered(q),
           m \in Event => \A e \in EventsIn(q) : InOrder(e, m)
    PROVE  Ordered(Append(q, m))
<1>1. DOMAIN q = 1 .. Len(q) /\ DOMAIN Append(q, m) = 1 .. Len(q) + 1
  OBVIOUS
<1>2. /\ \A i \in 1 .. Len(q) : Append(q, m)[i] = q[i]
      /\ Append(q, m)[Len(q) + 1] = m
      /\ Len(q) \in Nat
  OBVIOUS
<1>3. SUFFICES ASSUME NEW i \in 1 .. Len(q) + 1, NEW j \in 1 .. Len(q) + 1, i < j,
                      Append(q, m)[i] \in Event, Append(q, m)[j] \in Event
               PROVE  InOrder(Append(q, m)[i], Append(q, m)[j])
  BY <1>1 DEF Ordered
<1>4. i \in 1 .. Len(q) /\ Append(q, m)[i] = q[i]
  BY <1>2, <1>3
<1>5. CASE j = Len(q) + 1
  <2>1. q[i] \in EventsIn(q)
    BY <1>1, <1>3, <1>4 DEF EventsIn
  <2>2. Append(q, m)[j] = m
    BY <1>2, <1>5
  <2> QED
    BY <1>3, <1>4, <2>1, <2>2
<1>6. CASE j # Len(q) + 1
  <2>1. j \in 1 .. Len(q) /\ Append(q, m)[j] = q[j]
    BY <1>2, <1>6
  <2> QED
    BY <1>1, <1>3, <1>4, <2>1 DEF Ordered
<1> QED
  BY <1>5, <1>6

\* What follows the first event of a queue in order.
LEMMA HeadOrdered ==
    ASSUME NEW S, NEW q \in Seq(S), q # <<>>, Ordered(q)
    PROVE  /\ Ordered(Tail(q))
           /\ Head(q) \in Event =>
                \A e \in EventsIn(Tail(q)) : InOrder(Head(q), e)
<1>1. Len(q) \in Nat \ {0} /\ Head(q) = q[1]
  OBVIOUS
<1>2. DOMAIN q = 1 .. Len(q) /\ DOMAIN Tail(q) = 1 .. Len(q) - 1
  OBVIOUS
<1>3. \A i \in 1 .. Len(q) - 1 : Tail(q)[i] = q[i + 1]
  OBVIOUS
<1>4. ASSUME NEW i \in DOMAIN Tail(q), NEW j \in DOMAIN Tail(q), i < j,
             Tail(q)[i] \in Event, Tail(q)[j] \in Event
      PROVE  InOrder(Tail(q)[i], Tail(q)[j])
  <2>1. i + 1 \in DOMAIN q /\ j + 1 \in DOMAIN q /\ i + 1 < j + 1
    BY <1>1, <1>2, <1>4
  <2>2. Tail(q)[i] = q[i + 1] /\ Tail(q)[j] = q[j + 1]
    BY <1>2, <1>3
  <2> QED
    BY <2>1, <2>2, <1>4 DEF Ordered
<1>5. ASSUME Head(q) \in Event, NEW e \in EventsIn(Tail(q))
      PROVE  InOrder(Head(q), e)
  <2>1. PICK i \in DOMAIN Tail(q) : e = Tail(q)[i]
    BY DEF EventsIn
  <2>2. i + 1 \in DOMAIN q /\ 1 \in DOMAIN q /\ 1 < i + 1 /\ e = q[i + 1]
    BY <2>1, <1>1, <1>2, <1>3
  <2>3. e \in Event
    BY DEF EventsIn
  <2> QED
    BY <2>2, <2>3, <1>1, <1>5 DEF Ordered
<1> QED
  BY <1>4, <1>5 DEF Ordered

-----------------------------------------------------------------------------
(* The invariant *)

LEMMA InitIInv == Init => IInv
<1> SUFFICES ASSUME Init PROVE IInv
  OBVIOUS
<1>1. EventsIn(wire) = {} /\ EventsIn(deferred) = {}
  BY NoEvents DEF Init
<1>2. Ordered(wire) /\ Ordered(deferred)
  BY DEF Init, Ordered
<1>3. TypeOK
  <2>1. /\ deferred \in Seq(Event)
        /\ wire \in Seq(Event \cup Reply)
        /\ upWire \in Seq(Request \cup Command)
        /\ sendq \in Seq(Request \cup Command)
    BY EmptyQueue DEF Init
  <2>2. run \in 0 .. MaxRun /\ answering \in 0 .. MaxReq
        /\ lastReq \in 0 .. MaxReq /\ awaited \in 0 .. MaxReq
    BY PanelAssumption DEF Init
  <2>3. /\ issued \subseteq Client /\ clients \subseteq Client
        /\ ghosts \subseteq Client /\ forced \subseteq clients /\ pending \subseteq Reqs
        /\ devices \subseteq Client /\ list \subseteq Client
        /\ missed \subseteq Ids
    BY DEF Init
  <2> QED
    BY <2>1, <2>2, <2>3 DEF Init, TypeOK
<1> QED
  BY <1>1, <1>2, <1>3
  DEF Init, IInv, Sides, Known, Sequence, Agreed, Expected, Standing, RowsAreKnown,
      Meant, Within

\* A step that leaves the clients, the queues of events and the lists alone
\* disturbs nothing but the types, the sides and the disconnects.
Quiet ==
    /\ UNCHANGED <<run, issued, Standing, deferred, list, devices>>
    /\ missed \subseteq missed'
    /\ EventsIn(wire') = EventsIn(wire) /\ Ordered(wire')
    /\ link' = "open" => link = "open" \/ wire' = <<>>

LEMMA QuietKeeps ==
    ASSUME IInv, Quiet, TypeOK'
    PROVE  Known' /\ Sequence' /\ Agreed' /\ RowsAreKnown'
<1>1. EventsIn(deferred') = EventsIn(deferred) /\ Ordered(deferred')
  BY DEF IInv, Sequence, Quiet
<1>2. wire' = <<>> => EventsIn(wire') = {}
  BY NoEvents
<1>3. Known'
  BY <1>1, <1>2 DEF IInv, Known, Quiet
<1>4. Sequence'
  BY <1>1 DEF IInv, Sequence, Quiet
<1>5. Expected' = Expected
  BY <1>1 DEF Quiet, Expected
<1>6. Agreed'
  BY <1>1, <1>5 DEF IInv, Agreed, Quiet
<1>7. RowsAreKnown'
  BY DEF IInv, RowsAreKnown, Quiet
<1> QED
  BY <1>3, <1>4, <1>6, <1>7

-----------------------------------------------------------------------------
(* Types *)

\* The messages a queue keeps when one is put at its end or taken from its head.
LEMMA QueueTypes ==
    ASSUME TypeOK
    PROVE  /\ \A e \in Event : Append(deferred, e) \in Seq(Event)
           /\ \A m \in Event \cup Reply : Append(wire, m) \in Seq(Event \cup Reply)
           /\ \A m \in Request \cup Command :
                 /\ Append(upWire, m) \in Seq(Request \cup Command)
                 /\ Append(sendq, m) \in Seq(Request \cup Command)
           /\ deferred # <<>> => Tail(deferred) \in Seq(Event) /\ Head(deferred) \in Event
           /\ wire # <<>> => Tail(wire) \in Seq(Event \cup Reply)
                             /\ Head(wire) \in Event \cup Reply
           /\ upWire # <<>> => Tail(upWire) \in Seq(Request \cup Command)
                               /\ Head(upWire) \in Request \cup Command
<1>1. /\ deferred \in Seq(Event) /\ wire \in Seq(Event \cup Reply)
      /\ upWire \in Seq(Request \cup Command) /\ sendq \in Seq(Request \cup Command)
  BY DEF TypeOK
<1>2. \A e \in Event : Append(deferred, e) \in Seq(Event)
  BY <1>1
<1>3. \A m \in Event \cup Reply : Append(wire, m) \in Seq(Event \cup Reply)
  BY <1>1
<1>4. \A m \in Request \cup Command :
         /\ Append(upWire, m) \in Seq(Request \cup Command)
         /\ Append(sendq, m) \in Seq(Request \cup Command)
  BY <1>1
<1> HIDE DEF Event, Reply, Request, Command
<1>5. deferred # <<>> => Tail(deferred) \in Seq(Event) /\ Head(deferred) \in Event
  BY <1>1, HeadEvents
<1>6. wire # <<>> => Tail(wire) \in Seq(Event \cup Reply) /\ Head(wire) \in Event \cup Reply
  BY <1>1, HeadEvents
<1>7. upWire # <<>> => Tail(upWire) \in Seq(Request \cup Command)
                       /\ Head(upWire) \in Request \cup Command
  BY <1>1, HeadEvents
<1> QED
  BY <1>2, <1>3, <1>4, <1>5, <1>6, <1>7

\* What the messages carry, by their kind.
LEMMA MessageTypes ==
    /\ \A m \in Event \cup Reply :
          /\ m.kind \in {"connected", "gone"} => m \in Event /\ m.client \in Client
          /\ m.kind = "reply" => m \in Reply /\ m \notin Event /\ m.req \in Reqs
          /\ m \in Event => m.kind \in {"connected", "gone"} /\ m.client \in Client
    /\ \A m \in Request \cup Command :
          /\ m.kind \in {"info", "on", "off"} => m.req \in Reqs
          /\ m.kind = "disconnect" => m.client \in Client
    /\ \A c \in Client : c.id \in Ids /\ c.run \in Runs
    /\ \A c \in Client, k \in {"connected", "gone"} : [kind |-> k, client |-> c] \in Event
  BY DEF Event, Reply, Request, Command, Client

\* The steps of the server keep the types.
LEMMA ServerTypes ==
    ASSUME TypeOK, Sides,
           \/ ServerStarts \/ ServerDies \/ \E id \in Ids : Arrives(id)
           \/ \E c \in clients : ReturnsEarly(c) \/ Leaves(c)
           \/ Publish \/ Serving \/ Staying
    PROVE  TypeOK'
<1>1. /\ deferred \in Seq(Event) /\ wire \in Seq(Event \cup Reply)
      /\ upWire \in Seq(Request \cup Command)
      /\ clients \subseteq Client /\ ghosts \subseteq Client /\ missed \subseteq Ids
      /\ run \in Nat /\ MaxRun \in Nat /\ run \in 0 .. MaxRun
      /\ answering \in 0 .. MaxReq /\ MaxReq \in Nat
  BY PanelAssumption DEF TypeOK
<1>2. CASE ServerStarts
  <2>1. run' \in 0 .. MaxRun
    BY <1>1, <1>2 DEF ServerStarts
  <2> QED
    BY <1>2, <2>1 DEF ServerStarts, TypeOK, socket, backend, window
<1>3. ASSUME NEW S \in SUBSET Ids, Ends(S)
      PROVE  TypeOK'
  <2>1. deferred' \in Seq(Event) /\ upWire' \in Seq(Request \cup Command)
    BY <1>3, EmptyQueue DEF Ends
  <2>2. link' \in {"down", "open", "broken", "quit"} /\ answering' \in 0 .. MaxReq
    BY <1>1, <1>3 DEF Ends, TypeOK
  <2> QED
    BY <1>3, <2>1, <2>2 DEF Ends, TypeOK, backend, window
<1>4. CASE ServerDies
  <2>1. IdsOf(clients \cup ghosts) \cup IdsIn(deferred) \in SUBSET Ids
    BY <1>1, MessageTypes DEF IdsOf, IdsIn, EventsIn
  <2> QED
    BY <1>3, <1>4, <2>1 DEF ServerDies
<1>5. ASSUME NEW id \in Ids, Arrives(id)
      PROVE  TypeOK'
  <2> DEFINE c == [id |-> id, run |-> run]
  <2>1. c \in Client
    BY <1>5 DEF Arrives, Client, Sides
  <2>2. deferred' \in Seq(Event)
    BY <1>5, <2>1, QueueTypes, MessageTypes DEF Arrives, Emit
  <2> QED
    BY <1>5, <2>1, <2>2 DEF Arrives, TypeOK, socket, backend, window
<1>6. ASSUME NEW c \in clients, Leaves(c)
      PROVE  TypeOK'
  <2>1. deferred' \in Seq(Event)
    BY <1>6, <1>1, QueueTypes, MessageTypes DEF Leaves, Emit
  <2> QED
    BY <1>6, <2>1 DEF Leaves, TypeOK, socket, backend, window
<1>15. ASSUME NEW c \in clients, ReturnsEarly(c)
       PROVE  TypeOK'
  BY <1>1, <1>15 DEF ReturnsEarly, TypeOK, socket, backend, window
<1>7. CASE Publish
  <2>1. Head(deferred) \in Event /\ deferred' \in Seq(Event)
    BY <1>7, QueueTypes DEF Publish
  <2>2. wire' \in Seq(Event \cup Reply)
    BY <1>1, <1>7, <2>1, QueueTypes DEF Publish
  <2>3. missed' \subseteq Ids
    BY <1>1, <1>7, <2>1, MessageTypes DEF Publish
  <2> QED
    BY <1>7, <2>1, <2>2, <2>3 DEF Publish, TypeOK, backend, window
<1>8. ASSUME NEW kinds, Takes(kinds)
      PROVE  /\ Head(upWire) \in Request \cup Command
             /\ upWire' \in Seq(Request \cup Command)
  BY <1>8, QueueTypes DEF Takes
<1>9. ASSUME NEW req \in Reqs, NEW state \in BOOLEAN, Answer(req, state)
      PROVE  wire' \in Seq(Event \cup Reply)
  <2>1. [kind |-> "reply", req |-> req, enabled |-> state] \in Reply
    BY <1>9 DEF Reply
  <2> QED
    BY <1>1, <1>9, <2>1, QueueTypes DEF Answer
<1>10. CASE HandleRequest
  <2> DEFINE m == Head(upWire)
  <2>1. m \in Request \cup Command /\ upWire' \in Seq(Request \cup Command)
    BY <1>8, <1>10 DEF HandleRequest
  <2>2. m.req \in Reqs
    BY <1>10, <2>1, MessageTypes DEF HandleRequest, Takes
  <2>3. enabled' \in BOOLEAN
    BY <1>10 DEF HandleRequest, TypeOK
  <2>4. wire' \in Seq(Event \cup Reply)
    BY <1>9, <1>10, <2>2, <2>3 DEF HandleRequest
  <2> QED
    BY <1>10, <2>1, <2>3, <2>4 DEF HandleRequest, Takes, TypeOK, backend, window
<1>11. CASE HandleStop
  <2> DEFINE m == Head(upWire)
  <2>1. m \in Request \cup Command /\ upWire' \in Seq(Request \cup Command)
    BY <1>8, <1>11 DEF HandleStop
  <2>2. m.kind \in {"off", "shutdown"} /\ (m.kind = "off" => m.req \in Reqs)
    BY <1>11, <2>1, MessageTypes DEF HandleStop, Takes
  <2>3. answering' \in 0 .. MaxReq
    BY <1>1, <1>11, <2>2 DEF HandleStop, Reqs
  <2> QED
    BY <1>11, <2>1, <2>2, <2>3 DEF HandleStop, Takes, TypeOK, backend, window
<1>12. CASE StopReturns
  <2>1. answering \in Reqs
    BY <1>12 DEF StopReturns, Sides
  <2>2. wire' \in Seq(Event \cup Reply)
    BY <1>9, <1>12, <2>1 DEF StopReturns
  <2>3. answering' \in 0 .. MaxReq
    BY <1>1, <1>12 DEF StopReturns
  <2> QED
    BY <1>12, <2>2, <2>3 DEF StopReturns, TypeOK, backend, window
<1>13. CASE ShutdownReturns
  <2>1. IdsOf(ghosts) \in SUBSET Ids
    BY <1>1, MessageTypes DEF IdsOf
  <2> QED
    BY <1>3, <1>13, <2>1 DEF ShutdownReturns
<1>14. CASE HandleDisconnect
  <2>1. upWire' \in Seq(Request \cup Command)
    BY <1>8, <1>14 DEF HandleDisconnect
  <2> QED
    BY <1>14, <2>1 DEF HandleDisconnect, Takes, TypeOK, backend, window
<1>16. CASE HandleThrows
  <2> DEFINE m == Head(upWire)
  <2>1. m \in Request \cup Command /\ upWire' \in Seq(Request \cup Command)
    BY <1>8, <1>16 DEF HandleThrows
  <2>2. m.req \in Reqs
    BY <1>16, <2>1, MessageTypes DEF HandleThrows, Takes
  <2>3. answering' \in 0 .. MaxReq
    BY <1>1, <1>16, <2>2 DEF HandleThrows, Reqs
  <2>4. enabled' \in BOOLEAN
    <3>1. enabled \in BOOLEAN
      BY DEF TypeOK
    <3> QED
      BY <1>16, <3>1 DEF HandleThrows
  <2> QED
    BY <1>16, <2>1, <2>3, <2>4 DEF HandleThrows, Takes, TypeOK, backend, window
<1>17. CASE DisconnectReturns
  BY <1>17 DEF DisconnectReturns, TypeOK, socket, backend, window
<1> QED
  BY <1>2, <1>4, <1>5, <1>6, <1>7, <1>10, <1>11, <1>12, <1>13, <1>14, <1>15, <1>16,
     <1>17
  DEF Serving, Staying

\* So do those of the backend.
LEMMA BackendTypes ==
    ASSUME TypeOK, Opens \/ CloseQuit \/ Loses \/ FailsToConnect \/ Receiving
    PROVE  TypeOK'
<1>1. /\ wire \in Seq(Event \cup Reply) /\ sendq \in Seq(Request \cup Command)
      /\ upWire \in Seq(Request \cup Command)
      /\ missed \subseteq Ids /\ MaxReq \in Nat /\ devices \subseteq Client
  BY PanelAssumption DEF TypeOK
<1>2. /\ <<>> \in Seq(Event \cup Reply) /\ <<>> \in Seq(Request \cup Command)
      /\ 0 \in 0 .. MaxReq
  BY EmptyQueue, <1>1
<1>3. CASE Opens
  <2>1. upWire' \in Seq(Request \cup Command) /\ sendq' \in Seq(Request \cup Command)
    BY <1>1, <1>2, <1>3 DEF Opens
  <2> QED
    BY <1>3, <2>1 DEF Opens, TypeOK, server, backend, window
<1>4. CASE CloseQuit
  BY <1>4 DEF CloseQuit, TypeOK, server, backend, window
<1>5. CASE Loses
  <2>1. missed' \subseteq Ids
    BY <1>1, <1>5, MessageTypes DEF Loses, IdsIn, IdsOf, EventsIn
  <2>2. wire' \in Seq(Event \cup Reply) /\ upWire' \in Seq(Request \cup Command)
    BY <1>2, <1>5 DEF Loses
  <2>3. pending' \subseteq Reqs /\ awaited' \in 0 .. MaxReq /\ link' = "down"
        /\ view' \in {"closed", "starting", "loading", "home", "settings", "device"}
    BY <1>2, <1>5 DEF Loses, RejectAll, TypeOK
  <2> QED
    BY <1>5, <2>1, <2>2, <2>3 DEF Loses, RejectAll, TypeOK, server
<1>6. CASE FailsToConnect
  <2>1. pending' \subseteq Reqs /\ awaited' \in 0 .. MaxReq
        /\ view' \in {"closed", "starting", "loading", "home", "settings", "device"}
    BY <1>2, <1>6 DEF FailsToConnect, RejectAll, TypeOK
  <2> QED
    BY <1>6, <2>1 DEF FailsToConnect, RejectAll, TypeOK, server, socket
<1>7. ASSUME NEW kind, Receives(kind)
      PROVE  Head(wire) \in Event \cup Reply /\ wire' \in Seq(Event \cup Reply)
  BY <1>7, QueueTypes DEF Receives
<1>8. CASE ReceiveConnected
  <2>1. wire' \in Seq(Event \cup Reply)
    BY <1>7, <1>8 DEF ReceiveConnected
  <2>2. Head(wire).client \in Client /\ Head(wire).client.id \in Ids
    BY <1>7, <1>8, MessageTypes DEF ReceiveConnected, Receives
  <2>3. devices' \subseteq Client /\ list' \subseteq Client /\ missed' \subseteq Ids
    BY <1>1, <1>8, <2>2 DEF ReceiveConnected, TypeOK
  <2> QED
    BY <1>8, <2>1, <2>3 DEF ReceiveConnected, Receives, TypeOK, server
<1>9. CASE ReceiveGone
  <2>1. wire' \in Seq(Event \cup Reply)
    BY <1>7, <1>9 DEF ReceiveGone
  <2>2. devices' \subseteq Client /\ list' \subseteq Client
    BY <1>1, <1>9 DEF ReceiveGone, TypeOK
  <2> QED
    BY <1>9, <2>1, <2>2 DEF ReceiveGone, Receives, TypeOK, server
<1>10. CASE ReceiveReply
  <2>1. wire' \in Seq(Event \cup Reply)
    BY <1>7, <1>10 DEF ReceiveReply
  <2>2. Head(wire) \in Reply
    BY <1>7, <1>10, MessageTypes DEF ReceiveReply, Receives
  <2>3. shown' \in BOOLEAN /\ toggleOk' \in BOOLEAN
    BY <1>10, <2>2 DEF ReceiveReply, TypeOK, Reply
  <2>4. pending' \subseteq Reqs /\ awaited' \in 0 .. MaxReq
        /\ view' \in {"closed", "starting", "loading", "home", "settings", "device"}
    BY <1>2, <1>10 DEF ReceiveReply, TypeOK
  <2> QED
    BY <1>10, <2>1, <2>3, <2>4 DEF ReceiveReply, Receives, TypeOK, server
<1> QED
  BY <1>3, <1>4, <1>5, <1>6, <1>8, <1>9, <1>10 DEF Receiving

\* What the user does.
Using ==
    \/ OpenPanel \/ OpenSettings \/ CloseWindow
    \/ GoHome \/ GoSettings \/ \E r \in list : GoDevice(r)
    \/ ForceDisconnect \/ Toggle
    \/ \E shutdown \in BOOLEAN : Quit(shutdown)

\* And those of the user.
LEMMA UserTypes ==
    ASSUME TypeOK, Meant, Using
    PROVE  TypeOK'
<1>1. /\ missed \subseteq Ids /\ MaxReq \in Nat /\ lastReq \in 0 .. MaxReq
      /\ devices \subseteq Client /\ list \subseteq Client
  BY PanelAssumption DEF TypeOK
<1>2. /\ <<>> \in Seq(Event \cup Reply) /\ <<>> \in Seq(Request \cup Command)
      /\ 0 \in 0 .. MaxReq
  BY EmptyQueue, <1>1
<1>3. ASSUME NEW m \in Request \cup Command, Send(m)
      PROVE  /\ upWire' \in Seq(Request \cup Command)
             /\ sendq' \in Seq(Request \cup Command)
             /\ wire' = wire /\ link' = link
  BY <1>3, QueueTypes DEF Send, TypeOK
<1>4. ASSUME NEW kind \in {"info", "on", "off"}, Asks(kind)
      PROVE  /\ upWire' \in Seq(Request \cup Command)
             /\ sendq' \in Seq(Request \cup Command)
             /\ wire' = wire /\ link' = link /\ devices' = devices
             /\ pending' \subseteq Reqs /\ lastReq' \in 0 .. MaxReq
             /\ awaited' \in 0 .. MaxReq
  <2>1. lastReq + 1 \in Reqs /\ lastReq + 1 \in 0 .. MaxReq
    BY <1>1, <1>4 DEF Asks, Reqs
  <2>2. [kind |-> kind, req |-> lastReq + 1] \in Request
    BY <2>1 DEF Request
  <2>3. pending' \subseteq Reqs
    BY <1>4, <2>1 DEF Asks, TypeOK
  <2> QED
    BY <1>3, <1>4, <2>1, <2>2, <2>3 DEF Asks
<1>5. ASSUME LeavesPage
      PROVE  /\ page' \in Client \cup {NoClient}
             /\ forceOk' \in BOOLEAN /\ toggleOk' \in BOOLEAN /\ shown' \in BOOLEAN
  BY <1>5 DEF LeavesPage
<1>6. CASE OpenPanel
  BY <1>4, <1>6 DEF OpenPanel, TypeOK, server
<1>7. CASE OpenSettings
  BY <1>7 DEF OpenSettings, TypeOK, server, socket, backend
<1>8. CASE CloseWindow
  <2>1. missed' \subseteq Ids
    BY <1>1, <1>8, MessageTypes DEF CloseWindow, IdsOf
  <2> QED
    BY <1>2, <1>5, <1>8, <2>1 DEF CloseWindow, TypeOK, server, socket, backend
<1>9. CASE GoHome
  BY <1>4, <1>5, <1>9 DEF GoHome, TypeOK, server
<1>10. CASE GoSettings
  BY <1>2, <1>5, <1>10 DEF GoSettings, TypeOK, server, socket, backend
<1>11. ASSUME NEW r \in list, GoDevice(r)
       PROVE  TypeOK'
  <2>1. page' \in Client
    BY <1>1, <1>11 DEF GoDevice
  <2> QED
    BY <1>2, <1>11, <2>1 DEF GoDevice, TypeOK, server, socket, backend
<1>12. CASE ForceDisconnect
  <2>1. page \in Client
    BY <1>12 DEF ForceDisconnect, Meant, TypeOK
  <2>2. [kind |-> "disconnect", client |-> page] \in Command
    BY <2>1 DEF Command
  <2> QED
    BY <1>3, <1>12, <2>2 DEF ForceDisconnect, TypeOK, server, backend
<1>13. CASE Toggle
  BY <1>4, <1>13 DEF Toggle, TypeOK, server
<1>14. ASSUME NEW shutdown \in BOOLEAN, Quit(shutdown)
       PROVE  TypeOK'
  <2>1. [kind |-> "shutdown"] \in Command
    BY DEF Command
  <2>2. upWire' \in Seq(Request \cup Command)
    BY <1>14, <2>1, QueueTypes DEF Quit, TypeOK
  <2>3. missed' \subseteq Ids
    BY <1>1, <1>14, MessageTypes DEF Quit, IdsOf, IdsIn, EventsIn
  <2> QED
    BY <1>2, <1>5, <1>14, <2>2, <2>3 DEF Quit, TypeOK, server
<1> QED
  BY <1>6, <1>7, <1>8, <1>9, <1>10, <1>11, <1>12, <1>13, <1>14 DEF Using

-----------------------------------------------------------------------------
(* The empty queues, and whom a disconnect is meant for *)

LEMMA SidesStep ==
    ASSUME IInv, Next
    PROVE  Sides'
<1>1. /\ MaxRun \in Nat /\ MaxReq \in Nat /\ run \in 0 .. MaxRun
      /\ Sides /\ TypeOK
  BY PanelAssumption DEF IInv, TypeOK
<1>2. CASE ServerStarts
  BY <1>1, <1>2 DEF ServerStarts, Sides, Standing, Runs, socket
<1>3. ASSUME NEW S, Ends(S)
      PROVE  Sides'
  BY <1>1, <1>3 DEF Ends, Sides, Standing, TypeOK
<1>4. ServerDies \/ ShutdownReturns => Sides'
  BY <1>3 DEF ServerDies, ShutdownReturns
<1>5. ASSUME NEW id \in Ids, Arrives(id)
      PROVE  Sides'
  BY <1>1, <1>5 DEF Arrives, Sides, socket
<1>6. ASSUME NEW c \in clients, Leaves(c)
      PROVE  Sides'
  <2>1. Standing' \subseteq Standing /\ up
    BY <1>1, <1>6 DEF Leaves, Sides, Standing
  <2> QED
    BY <1>1, <1>6, <2>1 DEF Leaves, Sides, socket
<1>15. ASSUME NEW c \in clients, ReturnsEarly(c)
       PROVE  Sides'
  <2>1. up
    BY <1>1, <1>15 DEF Sides, Standing
  <2> QED
    BY <1>1, <1>15, <2>1 DEF ReturnsEarly, Sides, socket
<1>7. CASE Publish
  BY <1>1, <1>7 DEF Publish, Sides, Standing
<1>8. CASE \/ HandleRequest \/ HandleThrows \/ StopReturns \/ HandleDisconnect
           \/ DisconnectReturns
  <2>1. Standing' \subseteq Standing
    BY <1>8 DEF HandleRequest, HandleThrows, StopReturns, HandleDisconnect,
                DisconnectReturns, Takes, Standing
  <2>2. HandleThrows => Head(upWire).req \in Reqs
    BY <1>1, QueueTypes, MessageTypes DEF HandleThrows, Takes
  <2> QED
    BY <1>1, <1>8, <2>1, <2>2
    DEF HandleRequest, HandleThrows, StopReturns, HandleDisconnect, DisconnectReturns,
        Takes, Answer, Sides, socket
<1>9. CASE HandleStop
  <2>1. Head(upWire).kind = "off" => Head(upWire).req \in Reqs
    BY <1>1, <1>9, QueueTypes, MessageTypes DEF HandleStop, Takes
  <2> QED
    BY <1>1, <1>9, <2>1 DEF HandleStop, Takes, Sides, Standing
<1>10. CASE Opens \/ CloseQuit \/ Loses \/ FailsToConnect
  BY <1>1, <1>10
  DEF Opens, CloseQuit, Loses, FailsToConnect, Sides, Standing, server, socket
<1>11. CASE Receiving
  BY <1>1, <1>11
  DEF Receiving, ReceiveConnected, ReceiveGone, ReceiveReply, Receives, Sides, Standing,
      server
<1>12. CASE OpenPanel \/ GoHome \/ ForceDisconnect \/ Toggle
  BY <1>1, <1>12
  DEF OpenPanel, GoHome, ForceDisconnect, Toggle, Asks, Send, Sides, Standing, server
<1>13. CASE OpenSettings \/ CloseWindow \/ GoSettings \/ \E r \in list : GoDevice(r)
  BY <1>1, <1>13
  DEF OpenSettings, CloseWindow, GoSettings, GoDevice, Sides, Standing, server, socket
<1>14. ASSUME NEW shutdown \in BOOLEAN, Quit(shutdown)
       PROVE  Sides'
  BY <1>1, <1>14 DEF Quit, Sides, Standing, server
<1> QED
  BY <1>2, <1>4, <1>5, <1>6, <1>7, <1>8, <1>9, <1>10, <1>11, <1>12, <1>13, <1>14, <1>15
  DEF Next, Serving, Staying

\* A bound on the clients of a queue: a message more, one less, a higher bound.
LEMMA WithinQueues ==
    ASSUME NEW S, NEW q \in Seq(S), NEW n, Within(q, n)
    PROVE  /\ \A m \in S : (m.kind = "disconnect" => m.client.run <= n)
                             => Within(Append(q, m), n)
           /\ q # <<>> => Within(Tail(q), n)
           /\ Within(<<>>, n)
<1>1. /\ DOMAIN q = 1 .. Len(q) /\ Len(q) \in Nat
      /\ \A m \in S : DOMAIN Append(q, m) = 1 .. Len(q) + 1
      /\ \A m \in S : \A i \in 1 .. Len(q) : Append(q, m)[i] = q[i]
      /\ \A m \in S : Append(q, m)[Len(q) + 1] = m
  OBVIOUS
<1>2. q # <<>> => /\ DOMAIN Tail(q) = 1 .. Len(q) - 1
                  /\ \A i \in 1 .. Len(q) - 1 : Tail(q)[i] = q[i + 1]
  OBVIOUS
<1>3. ASSUME NEW m \in S, m.kind = "disconnect" => m.client.run <= n
      PROVE  Within(Append(q, m), n)
  <2>1. SUFFICES ASSUME NEW i \in 1 .. Len(q) + 1,
                        Append(q, m)[i].kind = "disconnect"
                 PROVE  Append(q, m)[i].client.run <= n
    BY <1>1 DEF Within
  <2>2. CASE i = Len(q) + 1
    BY <1>1, <1>3, <2>1, <2>2
  <2>3. CASE i # Len(q) + 1
    <3>1. i \in 1 .. Len(q) /\ Append(q, m)[i] = q[i]
      BY <1>1, <2>3
    <3> QED
      BY <1>1, <2>1, <3>1 DEF Within
  <2> QED
    BY <2>2, <2>3
<1>4. ASSUME q # <<>>
      PROVE  Within(Tail(q), n)
  <2>1. \A i \in DOMAIN Tail(q) : i + 1 \in DOMAIN q /\ Tail(q)[i] = q[i + 1]
    BY <1>1, <1>2, <1>4
  <2> QED
    BY <2>1 DEF Within
<1>5. Within(<<>>, n)
  BY DEF Within
<1> QED
  BY <1>3, <1>4, <1>5

LEMMA MeantStep ==
    ASSUME IInv, Next
    PROVE  Meant'
<1>1. /\ MaxRun \in Nat /\ run \in Nat /\ Meant /\ TypeOK
      /\ upWire \in Seq(Request \cup Command) /\ sendq \in Seq(Request \cup Command)
      /\ devices \subseteq Client /\ \A d \in devices : d.run <= run
  BY PanelAssumption DEF IInv, TypeOK, Known
<1>2. CASE ServerStarts
  <2>1. ASSUME NEW q \in Seq(Request \cup Command), Within(q, run)
        PROVE  Within(q, run')
    <3>1. \A m \in Request \cup Command :
              m.kind = "disconnect" => m.client.run \in Nat
      BY MessageTypes DEF Runs
    <3>2. \A i \in DOMAIN q : q[i] \in Request \cup Command
      BY <2>1
    <3>3. run' = run + 1
      BY <1>2 DEF ServerStarts
    <3> QED
      BY <1>1, <2>1, <3>1, <3>2, <3>3 DEF Within
  <2>2. Within(upWire, run') /\ Within(sendq, run')
    BY <1>1, <2>1 DEF Meant
  <2>3. page # NoClient => page.run <= run'
    BY <1>1, <1>2, MessageTypes DEF ServerStarts, Meant, TypeOK, Runs
  <2> QED
    BY <1>1, <1>2, <2>2, <2>3 DEF ServerStarts, Meant, socket, window
<1>3. \A n : Within(<<>>, n)
  BY DEF Within
<1>4. ASSUME NEW S, Ends(S)
      PROVE  Meant'
  BY <1>1, <1>3, <1>4 DEF Ends, Meant, window
<1>5. ServerDies \/ ShutdownReturns => Meant'
  BY <1>4 DEF ServerDies, ShutdownReturns
<1>6. ASSUME NEW id \in Ids, Arrives(id)
      PROVE  Meant'
  BY <1>1, <1>6 DEF Arrives, Meant, socket, window
<1>7. ASSUME NEW c \in clients, Leaves(c)
      PROVE  Meant'
  BY <1>1, <1>7 DEF Leaves, Meant, socket, window
<1>21. ASSUME NEW c \in clients, ReturnsEarly(c)
       PROVE  Meant'
  BY <1>1, <1>21 DEF ReturnsEarly, Meant, socket, window
<1>8. CASE Publish \/ StopReturns \/ DisconnectReturns
  BY <1>1, <1>8 DEF Publish, StopReturns, DisconnectReturns, Meant, socket, window
<1>9. CASE HandleRequest \/ HandleThrows \/ HandleStop \/ HandleDisconnect
  <2>1. \E kinds : Takes(kinds)
    BY <1>9 DEF HandleRequest, HandleThrows, HandleStop, HandleDisconnect
  <2>2. Within(upWire', run)
    BY <1>1, <2>1, WithinQueues DEF Takes, Meant
  <2> QED
    BY <1>1, <2>1, <2>2 DEF Takes, Meant, window
<1>10. CASE Opens \/ CloseQuit \/ Loses \/ FailsToConnect
  BY <1>1, <1>3, <1>10
  DEF Opens, CloseQuit, Loses, FailsToConnect, RejectAll, Meant, server, socket, window
<1>11. CASE Receiving
  <2>1. run' = run /\ page' = page /\ upWire' = upWire /\ sendq' = sendq
    BY <1>11
    DEF Receiving, ReceiveConnected, ReceiveGone, ReceiveReply, Receives, server
  <2>2. view' = view \/ view' = "home"
    BY <1>11 DEF Receiving, ReceiveConnected, ReceiveGone, ReceiveReply
  <2> QED
    BY <1>1, <2>1, <2>2 DEF Meant
<1>12. ASSUME NEW m \in Request \cup Command, Send(m),
              m.kind = "disconnect" => m.client.run <= run, run' = run
       PROVE  Within(upWire', run') /\ Within(sendq', run')
  BY <1>1, <1>12, WithinQueues DEF Send, Meant
<1>13. ASSUME NEW kind \in {"info", "on", "off"}, Asks(kind), run' = run
       PROVE  Within(upWire', run') /\ Within(sendq', run')
  <2>1. lastReq + 1 \in Reqs
    BY <1>1, <1>13, PanelAssumption DEF Asks, Reqs, TypeOK
  <2>2. [kind |-> kind, req |-> lastReq + 1] \in Request
    BY <2>1 DEF Request
  <2> QED
    BY <1>12, <1>13, <2>2 DEF Asks
<1>14. CASE OpenPanel
  BY <1>1, <1>13, <1>14 DEF OpenPanel, Meant, server
<1>15. CASE GoHome
  BY <1>1, <1>13, <1>15 DEF GoHome, LeavesPage, Meant, server
<1>16. CASE Toggle
  BY <1>1, <1>13, <1>16 DEF Toggle, Meant, server
<1>17. CASE OpenSettings \/ CloseWindow \/ GoSettings
  BY <1>1, <1>17
  DEF OpenSettings, CloseWindow, GoSettings, LeavesPage, Meant, server, socket
<1>18. ASSUME NEW r \in list, GoDevice(r)
       PROVE  Meant'
  <2>1. page' \in devices /\ page' # NoClient
    BY <1>1, <1>18, PanelAssumption DEF GoDevice
  <2> QED
    BY <1>1, <1>18, <2>1 DEF GoDevice, Meant, server, socket
<1>19. CASE ForceDisconnect
  <2>1. page \in Client /\ page.run <= run
    BY <1>1, <1>19 DEF ForceDisconnect, Meant, TypeOK
  <2>2. [kind |-> "disconnect", client |-> page] \in Command
    BY <2>1 DEF Command
  <2>3. run' = run
    BY <1>19 DEF ForceDisconnect, server
  <2>4. Within(upWire', run') /\ Within(sendq', run')
    BY <1>12, <1>19, <2>1, <2>2, <2>3 DEF ForceDisconnect
  <2> QED
    BY <1>1, <1>19, <2>3, <2>4 DEF ForceDisconnect, Meant
<1>20. ASSUME NEW shutdown \in BOOLEAN, Quit(shutdown)
       PROVE  Meant'
  <2>1. [kind |-> "shutdown"] \in Request \cup Command
    BY DEF Command
  <2>2. Within(upWire', run)
    BY <1>1, <1>20, <2>1, WithinQueues DEF Quit, Meant
  <2> QED
    BY <1>1, <1>3, <1>20, <2>2 DEF Quit, LeavesPage, Meant, server
<1> QED
  BY <1>2, <1>5, <1>6, <1>7, <1>8, <1>9, <1>10, <1>11, <1>14, <1>15, <1>16, <1>17,
     <1>18, <1>19, <1>20, <1>21
  DEF Next, Serving, Staying

-----------------------------------------------------------------------------
(* The rows, the map and the events *)

\* The part of the invariant that speaks of them.
Following == Known /\ Sequence /\ Agreed /\ RowsAreKnown

\* Events that are told twice, or of which one is lost, are told by a set.
LEMMA ExpectedIs ==
    \A c : c \in Expected <=>
        /\ \/ c \in list
           \/ \E e \in EventsIn(wire) \cup EventsIn(deferred) :
                 e.kind = "connected" /\ e.client = c
        /\ ~ \E e \in EventsIn(wire) \cup EventsIn(deferred) :
                 e.kind = "gone" /\ e.client = c
  BY DEF Expected

\* An answer of the server is no event.
LEMMA AnswerIsQuiet ==
    ASSUME IInv, NEW req \in Reqs, NEW state \in BOOLEAN, Answer(req, state)
    PROVE  EventsIn(wire') = EventsIn(wire) /\ Ordered(wire')
<1> DEFINE m == [kind |-> "reply", req |-> req, enabled |-> state]
<1>1. m \in Event \cup Reply /\ m \notin Event
  BY DEF Event, Reply
<1>2. wire \in Seq(Event \cup Reply) /\ Ordered(wire)
  BY DEF IInv, TypeOK, Sequence
<1>3. EventsIn(Append(wire, m)) = EventsIn(wire) /\ Ordered(Append(wire, m))
  <2> HIDE DEF m
  <2>1. EventsIn(Append(wire, m)) = EventsIn(wire) \cup ({m} \cap Event)
    BY <1>1, <1>2, AppendEvents
  <2>2. Ordered(Append(wire, m))
    BY <1>1, <1>2, AppendOrdered
  <2> QED
    BY <1>1, <2>1, <2>2
<1> QED
  BY <1>2, <1>3 DEF Answer

\* The steps that deal with requests, pages and the socket alone.
LEMMA QuietSteps ==
    ASSUME IInv,
           \/ HandleRequest \/ HandleStop \/ StopReturns \/ HandleDisconnect
           \/ Staying \/ (\E c \in clients : ReturnsEarly(c))
           \/ Opens \/ CloseQuit \/ FailsToConnect \/ ReceiveReply
           \/ OpenPanel \/ OpenSettings \/ GoHome \/ GoSettings
           \/ (\E r \in list : GoDevice(r)) \/ ForceDisconnect \/ Toggle
    PROVE  Quiet
<1>1. EventsIn(wire) = EventsIn(wire) /\ Ordered(wire)
  BY DEF IInv, Sequence
<1>2. CASE HandleRequest
  <2>1. Head(upWire).req \in Reqs
    BY <1>2, QueueTypes, MessageTypes DEF HandleRequest, Takes, IInv
  <2>2. enabled' \in BOOLEAN
    BY <1>2 DEF HandleRequest, IInv, TypeOK
  <2>3. EventsIn(wire') = EventsIn(wire) /\ Ordered(wire')
    BY <1>2, <2>1, <2>2, AnswerIsQuiet DEF HandleRequest
  <2> QED
    BY <1>2, <2>3 DEF HandleRequest, Takes, Quiet, Standing, backend, window
<1>3. CASE StopReturns
  <2>1. answering \in Reqs
    BY <1>3 DEF StopReturns, IInv, Sides
  <2>2. EventsIn(wire') = EventsIn(wire) /\ Ordered(wire')
    BY <1>3, <2>1, AnswerIsQuiet DEF StopReturns
  <2> QED
    BY <1>3, <2>2 DEF StopReturns, AllReturned, Quiet, Standing, backend, window
<1>4. CASE HandleStop \/ HandleDisconnect \/ HandleThrows
  BY <1>1, <1>4
  DEF HandleStop, HandleDisconnect, HandleThrows, Takes, Quiet, Standing, backend, window
<1>9. CASE DisconnectReturns \/ \E c \in clients : ReturnsEarly(c)
  BY <1>1, <1>9
  DEF DisconnectReturns, ReturnsEarly, Quiet, Standing, socket, backend, window
<1>5. CASE Opens \/ CloseQuit \/ FailsToConnect
  BY <1>1, <1>5
  DEF Opens, CloseQuit, FailsToConnect, RejectAll, Quiet, Standing, IInv, Sides, server,
      socket, backend, window
<1>6. CASE ReceiveReply
  <2>1. wire \in Seq(Event \cup Reply) /\ wire # <<>> /\ Head(wire) \notin Event
    BY <1>6, QueueTypes, MessageTypes DEF ReceiveReply, Receives, IInv, TypeOK
  <2>2. EventsIn(wire) = EventsIn(Tail(wire)) \cup ({Head(wire)} \cap Event)
    BY <2>1, HeadEvents
  <2>3. Ordered(Tail(wire))
    BY <1>1, <2>1, HeadOrdered
  <2> QED
    BY <1>6, <2>1, <2>2, <2>3 DEF ReceiveReply, Receives, Quiet, Standing, server
<1>7. CASE OpenPanel \/ GoHome \/ ForceDisconnect \/ Toggle
  BY <1>1, <1>7
  DEF OpenPanel, GoHome, ForceDisconnect, Toggle, Asks, Send, Quiet, Standing, server,
      backend
<1>8. CASE OpenSettings \/ GoSettings \/ \E r \in list : GoDevice(r)
  BY <1>1, <1>8
  DEF OpenSettings, GoSettings, GoDevice, Quiet, Standing, server, socket, backend
<1> QED
  BY <1>2, <1>3, <1>4, <1>5, <1>6, <1>7, <1>8, <1>9 DEF Staying

\* A device comes: the identifier is new to this process.
LEMMA ArrivesFollowing ==
    ASSUME IInv, NEW id \in Ids, Arrives(id), TypeOK'
    PROVE  Following'
<1> DEFINE c == [id |-> id, run |-> run]
           m == [kind |-> "connected", client |-> c]
<1>1. c \in Client /\ m \in Event /\ c.run = run /\ m.client = c
      /\ m.kind = "connected"
  BY MessageTypes DEF Arrives, IInv, Sides, Client
<1>2. deferred \in Seq(Event) /\ deferred' = Append(deferred, m)
  BY DEF IInv, TypeOK, Arrives, Emit
<1>3. EventsIn(deferred') = EventsIn(deferred) \cup {m}
  BY <1>1, <1>2, AppendEvents
<1>4. /\ c \notin issued /\ issued' = issued \cup {c} /\ Standing' = Standing \cup {c}
      /\ UNCHANGED <<run, wire, link, list, devices, missed>>
  BY DEF Arrives, Standing, socket, backend, window
<1>5. /\ c \notin list \cup devices /\ c \notin Standing
      /\ \A e \in EventsIn(wire) \cup EventsIn(deferred) : e.client # c
  BY <1>4 DEF IInv, Known
<1>6. Known'
  BY <1>1, <1>3, <1>4 DEF IInv, Known, TypeOK
<1>7. Ordered(deferred')
  <2>1. Ordered(deferred) /\ \A e \in EventsIn(deferred) : InOrder(e, m)
    BY <1>1, <1>5 DEF IInv, Sequence, InOrder
  <2> QED
    BY <1>1, <1>2, <2>1, AppendOrdered
<1>8. Sequence'
  BY <1>1, <1>3, <1>4, <1>5, <1>7 DEF IInv, Sequence, InOrder
<1>9. \A x : x \in Expected' <=> x \in Expected \cup {c}
  <2>1. \A x : x \in Expected' <=>
           /\ \/ x \in list
              \/ \E e \in EventsIn(wire) \cup EventsIn(deferred) \cup {m} :
                   e.kind = "connected" /\ e.client = x
           /\ ~ \E e \in EventsIn(wire) \cup EventsIn(deferred) \cup {m} :
                   e.kind = "gone" /\ e.client = x
    BY <1>3, <1>4 DEF Expected
  <2> HIDE DEF m, c
  <2> QED
    BY <1>1, <1>5, <2>1, ExpectedIs
<1>10. Agreed'
  BY <1>4, <1>9 DEF IInv, Agreed
<1>11. RowsAreKnown'
  BY <1>4 DEF IInv, RowsAreKnown
<1> QED
  BY <1>6, <1>8, <1>10, <1>11 DEF Following

\* A device goes: what is said of it after that is its end.
LEMMA LeavesFollowing ==
    ASSUME IInv, NEW c \in clients, Leaves(c), TypeOK'
    PROVE  Following'
<1> DEFINE m == [kind |-> "gone", client |-> c]
<1>1. c \in Client /\ m \in Event /\ m.client = c /\ m.kind = "gone"
      /\ c \in issued /\ c.run = run
  BY MessageTypes DEF IInv, TypeOK, Known, Standing
<1>2. deferred \in Seq(Event) /\ deferred' = Append(deferred, m)
  BY DEF IInv, TypeOK, Leaves, Emit
<1>3. EventsIn(deferred') = EventsIn(deferred) \cup {m}
  BY <1>1, <1>2, AppendEvents
<1>4. /\ c \in Standing /\ Standing' = Standing \ {c}
      /\ UNCHANGED <<run, issued, wire, link, list, devices, missed>>
  <2>1. c \in clients /\ c \notin ghosts /\ clients' = clients \ {c} /\ ghosts' = ghosts
    BY DEF Leaves
  <2>2. c \in Standing /\ Standing' = Standing \ {c}
    BY <2>1 DEF Standing
  <2> QED
    BY <2>2 DEF Leaves, socket, backend, window
<1>5. \A e \in EventsIn(wire) \cup EventsIn(deferred) : InOrder(e, m)
  BY <1>1, <1>4, MessageTypes DEF IInv, Sequence, InOrder, EventsIn
<1>6. Known'
  BY <1>1, <1>3, <1>4 DEF IInv, Known
<1>7. Ordered(deferred')
  BY <1>1, <1>2, <1>5, AppendOrdered DEF IInv, Sequence
<1>8. Sequence'
  BY <1>1, <1>3, <1>4, <1>5, <1>7 DEF IInv, Sequence
<1>9. \A x : x \in Expected' <=> x \in Expected \ {c}
  <2>1. \A x : x \in Expected' <=>
           /\ \/ x \in list
              \/ \E e \in EventsIn(wire) \cup EventsIn(deferred) \cup {m} :
                   e.kind = "connected" /\ e.client = x
           /\ ~ \E e \in EventsIn(wire) \cup EventsIn(deferred) \cup {m} :
                   e.kind = "gone" /\ e.client = x
    BY <1>3, <1>4 DEF Expected
  <2> HIDE DEF m
  <2> QED
    BY <1>1, <2>1, ExpectedIs
<1>10. Agreed'
  BY <1>4, <1>9 DEF IInv, Agreed
<1>11. RowsAreKnown'
  BY <1>4 DEF IInv, RowsAreKnown
<1> QED
  BY <1>6, <1>8, <1>10, <1>11 DEF Following

\* A new process, a process that ends, a connection lost, a window closed and a
\* panel that quits: what is dropped are events and rows of identifiers that
\* have missed one from then on.
Dropping ==
    /\ run' >= run
    /\ issued' = issued
    /\ Standing' \subseteq Standing /\ (Standing' # {} => run' = run)
    /\ list' \subseteq list /\ devices' \subseteq devices
    /\ wire' = wire \/ wire' = <<>>
    /\ deferred' = deferred \/ deferred' = <<>>
    /\ deferred' # <<>> => run' = run
    /\ link' = "open" => link = "open" /\ run' = run
    /\ missed \subseteq missed'
    /\ \A c \in Client : c.id \notin missed' =>
          /\ c \in Standing <=> c \in Standing'
          /\ c \in list <=> c \in list'
          /\ c \in devices <=> c \in devices'
          /\ \A e \in EventsIn(wire) : e.client = c => e \in EventsIn(wire')
          /\ \A e \in EventsIn(deferred) : e.client = c => e \in EventsIn(deferred')
    /\ \A r \in list', d \in devices : d.id = r.id => d \in devices'

LEMMA DroppingFollowing ==
    ASSUME IInv, Dropping, TypeOK'
    PROVE  Following'
<1>1. /\ EventsIn(wire') \subseteq EventsIn(wire) /\ Ordered(wire')
      /\ EventsIn(deferred') \subseteq EventsIn(deferred) /\ Ordered(deferred')
      /\ deferred' = <<>> => EventsIn(deferred') = {}
  BY NoEvents DEF Dropping, IInv, Sequence, Ordered
<1>2. /\ run \in Nat /\ run' \in Nat /\ run' >= run
      /\ \A c \in issued : c.run \in Nat
      /\ list \subseteq Client /\ devices \subseteq Client
  <2>1. run \in 0 .. MaxRun /\ run' \in 0 .. MaxRun /\ MaxRun \in Nat
    BY PanelAssumption DEF IInv, TypeOK
  <2>2. run' >= run
    BY DEF Dropping
  <2>3. /\ issued \subseteq Client
        /\ list \subseteq Client /\ devices \subseteq Client
    BY DEF IInv, TypeOK
  <2>4. \A c \in Client : c.run \in Nat
    BY <2>1, MessageTypes DEF Runs
  <2> QED
    BY <2>1, <2>2, <2>3, <2>4
<1>3. \A c \in issued' : c.run <= run'
  BY <1>2 DEF IInv, Known, Dropping
<1>4. \A e \in EventsIn(deferred') : e.client \in issued' /\ e.client.run = run'
  BY <1>1 DEF IInv, Known, Dropping
<1>5. \A e \in EventsIn(wire') :
         /\ e.client \in issued'
         /\ link' = "open" => e.client.run = run'
         /\ \A f \in EventsIn(wire') : f.client.run = e.client.run
         /\ \A d \in devices' : d.run <= e.client.run
  BY <1>1 DEF IInv, Known, Dropping
<1>6. Known'
  BY <1>3, <1>4, <1>5 DEF IInv, Known, Dropping
<1>7. Sequence'
  BY <1>1 DEF IInv, Sequence, Dropping
<1>8. ASSUME NEW c \in Client, c.id \notin missed'
      PROVE  c \in Expected' <=> c \in Expected
  <2>1. c \in Expected' <=>
           /\ \/ c \in list'
              \/ \E e \in EventsIn(wire') \cup EventsIn(deferred') :
                   e.kind = "connected" /\ e.client = c
           /\ ~ \E e \in EventsIn(wire') \cup EventsIn(deferred') :
                   e.kind = "gone" /\ e.client = c
    BY DEF Expected
  <2>2. \A e : e.client = c =>
           (e \in EventsIn(wire') \cup EventsIn(deferred')
              <=> e \in EventsIn(wire) \cup EventsIn(deferred))
    BY <1>1, <1>8 DEF Dropping
  <2>3. c \in list' <=> c \in list
    BY <1>8 DEF Dropping
  <2> QED
    BY <2>1, <2>2, <2>3, ExpectedIs
<1>9. Agreed'
  BY <1>1, <1>8 DEF IInv, Agreed, Dropping
<1>10. RowsAreKnown'
  BY DEF IInv, RowsAreKnown, Dropping
<1> QED
  BY <1>6, <1>7, <1>9, <1>10 DEF Following

LEMMA DroppingSteps ==
    ASSUME IInv,
           \/ ServerStarts \/ ServerDies \/ ShutdownReturns
           \/ Loses \/ CloseWindow \/ \E shutdown \in BOOLEAN : Quit(shutdown)
    PROVE  Dropping
<1>1. /\ run \in Nat /\ missed \subseteq Ids /\ list \subseteq Client
      /\ devices \subseteq Client /\ Standing \subseteq Client
  BY PanelAssumption DEF IInv, TypeOK, Standing
<1>2. \A e \in EventsIn(wire) : e.client.id \in IdsIn(wire)
  BY DEF IdsIn, IdsOf
<1>3. \A e \in EventsIn(deferred) : e.client.id \in IdsIn(deferred)
  BY DEF IdsIn, IdsOf
<1>4. \A S : \A c \in S : c.id \in IdsOf(S)
  BY DEF IdsOf
<1>5. \A c \in Client : c.id \notin missed => (c \in list <=> c \in devices)
  BY DEF IInv, Agreed
<1>6. CASE ServerStarts
  <2>1. Standing = {} /\ deferred = <<>>
    BY <1>6 DEF ServerStarts, IInv, Sides
  <2>2. Standing' = Standing
    BY <1>6 DEF ServerStarts, Standing
  <2> QED
    BY <1>1, <1>6, <2>1, <2>2 DEF ServerStarts, Dropping, socket, backend, window
<1>7. CASE ServerDies
  <2>1. Ends(IdsOf(Standing) \cup IdsIn(deferred)) /\ Standing' = {}
    BY <1>7 DEF ServerDies, Ends, Standing
  <2> QED
    BY <1>1, <1>3, <1>4, <2>1 DEF Ends, Dropping, backend, window
<1>8. CASE ShutdownReturns
  <2>1. Ends(IdsOf(Standing)) /\ Standing' = {} /\ deferred = <<>>
    <3>1. Standing = ghosts
      BY <1>8 DEF ShutdownReturns, AllReturned, Standing
    <3> QED
      BY <1>8, <3>1 DEF ShutdownReturns, Ends, Standing
  <2> QED
    BY <1>1, <1>4, <2>1 DEF Ends, Dropping, backend, window
<1>9. CASE Loses
  BY <1>1, <1>2, <1>9 DEF Loses, RejectAll, Dropping, Standing, server
<1>10. CASE CloseWindow
  BY <1>1, <1>4, <1>10 DEF CloseWindow, Dropping, Standing, server, socket, backend
<1>11. ASSUME NEW shutdown \in BOOLEAN, Quit(shutdown)
       PROVE  Dropping
  BY <1>1, <1>2, <1>4, <1>5, <1>11 DEF Quit, Dropping, Standing, server
<1> QED
  BY <1>6, <1>7, <1>8, <1>9, <1>10, <1>11

\* A row of an identifier that has missed nothing belongs to the process that
\* runs, while the socket is open.
LEMMA RowsOfThisRun ==
    ASSUME IInv, link = "open", NEW c \in list, c.id \notin missed
    PROVE  c.run = run
<1>1. c \in Client
  BY DEF IInv, TypeOK
<1>2. CASE \E e \in EventsIn(wire) \cup EventsIn(deferred) : e.kind = "gone" /\ e.client = c
  BY <1>2 DEF IInv, Known
<1>3. CASE ~ \E e \in EventsIn(wire) \cup EventsIn(deferred) :
               e.kind = "gone" /\ e.client = c
  <2>1. c \in Expected
    BY <1>3, ExpectedIs
  <2>2. c \in Standing
    BY <1>1, <2>1 DEF IInv, Agreed
  <2> QED
    BY <2>2 DEF IInv, Known
<1> QED
  BY <1>2, <1>3

\* An event is published, or nobody is subscribed.
LEMMA PublishFollowing ==
    ASSUME IInv, Publish, TypeOK'
    PROVE  Following'
<1> DEFINE m == Head(deferred)
<1>1. /\ deferred \in Seq(Event) /\ deferred # <<>> /\ deferred' = Tail(deferred)
      /\ wire \in Seq(Event \cup Reply) /\ Ordered(wire) /\ Ordered(deferred)
      /\ UNCHANGED <<run, issued, Standing, list, devices, link>>
  BY DEF IInv, TypeOK, Sequence, Publish, Standing, backend, window
<1>2. m \in Event /\ m.client \in Client /\ m.kind \in {"connected", "gone"}
  BY <1>1, QueueTypes, MessageTypes DEF IInv
<1>3. EventsIn(deferred) = EventsIn(deferred') \cup {m}
  <2>1. EventsIn(deferred) = EventsIn(Tail(deferred)) \cup ({m} \cap Event)
    BY <1>1, HeadEvents
  <2> QED
    BY <1>1, <1>2, <2>1
<1>4. Ordered(deferred') /\ \A e \in EventsIn(deferred') : InOrder(m, e)
  BY <1>1, <1>2, HeadOrdered
<1>5. m.client \in issued /\ m.client.run = run
  BY <1>3 DEF IInv, Known
<1>6. CASE link = "open"
  <2>1. wire' = Append(wire, m) /\ missed' = missed
    BY <1>6 DEF Publish
  <2>2. EventsIn(wire') = EventsIn(wire) \cup {m}
    <3>1. EventsIn(Append(wire, m)) = EventsIn(wire) \cup ({m} \cap Event)
      BY <1>1, <1>2, AppendEvents
    <3> QED
      BY <1>2, <2>1, <3>1
  <2>3. \A e \in EventsIn(wire) : InOrder(e, m)
    BY <1>3 DEF IInv, Sequence
  <2>4. Ordered(wire')
    BY <1>1, <1>2, <2>1, <2>3, AppendOrdered
  <2> HIDE DEF m
  <2>5. \A e \in EventsIn(wire') : e.client \in issued /\ e.client.run = run
    BY <1>5, <1>6, <2>2 DEF IInv, Known
  <2>6. \A d \in devices : d.run <= run
    BY DEF IInv, Known
  <2>7. Known'
    BY <1>1, <1>3, <2>5, <2>6 DEF IInv, Known
  <2>8. Sequence'
    BY <1>1, <1>3, <1>4, <2>2, <2>4 DEF IInv, Sequence
  <2>9. \A x : x \in Expected' <=> x \in Expected
    BY <1>1, <1>3, <2>2 DEF Expected
  <2>10. ASSUME NEW c \in list, c.id \notin missed, m.client.id = c.id
         PROVE  m.client = c
    <3>1. c.run = run /\ c \in Client
      BY <1>6, <2>10, RowsOfThisRun DEF IInv, TypeOK
    <3> QED
      BY <1>2, <1>5, <2>10, <3>1 DEF Client
  <2>11. Agreed'
    BY <1>1, <2>1, <2>2, <2>9, <2>10 DEF IInv, Agreed
  <2>12. RowsAreKnown'
    BY <1>1 DEF IInv, RowsAreKnown
  <2> QED
    BY <2>7, <2>8, <2>11, <2>12 DEF Following
<1>7. CASE link # "open"
  <2>1. wire' = wire /\ missed' = missed \cup {m.client.id}
    BY <1>7 DEF Publish
  <2> HIDE DEF m
  <2>2. Known'
    BY <1>1, <1>3, <2>1 DEF IInv, Known
  <2>3. Sequence'
    BY <1>1, <1>3, <1>4, <2>1 DEF IInv, Sequence
  <2>4. ASSUME NEW x \in Client, x.id \notin missed'
        PROVE  x \in Expected' <=> x \in Expected
    <3>1. m.client # x
      BY <2>1, <2>4
    <3>2. x \in Expected' <=>
             /\ \/ x \in list
                \/ \E e \in EventsIn(wire) \cup EventsIn(deferred') :
                     e.kind = "connected" /\ e.client = x
             /\ ~ \E e \in EventsIn(wire) \cup EventsIn(deferred') :
                     e.kind = "gone" /\ e.client = x
      BY <1>1, <2>1 DEF Expected
    <3> QED
      BY <1>3, <3>1, <3>2, ExpectedIs
  <2>5. Agreed'
    BY <1>1, <2>1, <2>4 DEF IInv, Agreed
  <2>6. RowsAreKnown'
    BY <1>1 DEF IInv, RowsAreKnown
  <2> QED
    BY <2>2, <2>3, <2>5, <2>6 DEF Following
<1> QED
  BY <1>6, <1>7

\* The event at the head of the socket and those behind it.
LEMMA FirstEvent ==
    ASSUME IInv, NEW kind \in {"connected", "gone"}, Receives(kind)
    PROVE  LET m == Head(wire)
           IN  /\ m \in Event /\ m.client \in Client /\ m.kind = kind
               /\ EventsIn(wire) = EventsIn(wire') \cup {m}
               /\ Ordered(wire') /\ \A e \in EventsIn(wire') : InOrder(m, e)
               /\ \A e \in EventsIn(deferred) : InOrder(m, e)
               /\ UNCHANGED <<run, issued, Standing, deferred, link>>
<1> DEFINE m == Head(wire)
<1>1. /\ wire \in Seq(Event \cup Reply) /\ wire # <<>> /\ wire' = Tail(wire)
      /\ Ordered(wire) /\ m.kind = kind
      /\ UNCHANGED <<run, issued, Standing, deferred, link>>
  BY DEF IInv, TypeOK, Sequence, Receives, Standing, server
<1>2. m \in Event /\ m.client \in Client
  BY <1>1, QueueTypes, MessageTypes DEF IInv
<1>3. EventsIn(wire) = EventsIn(Tail(wire)) \cup ({m} \cap Event)
  BY <1>1, HeadEvents
<1>4. Ordered(Tail(wire)) /\ \A e \in EventsIn(Tail(wire)) : InOrder(m, e)
  BY <1>1, <1>2, HeadOrdered
<1>5. m \in EventsIn(wire)
  BY <1>2, <1>3
<1>6. \A e \in EventsIn(deferred) : InOrder(m, e)
  BY <1>5 DEF IInv, Sequence
<1> QED
  BY <1>1, <1>2, <1>3, <1>4, <1>6

\* A device is told of: the row it gets is its own, or there is a gap.
LEMMA ConnectedFollowing ==
    ASSUME IInv, ReceiveConnected, TypeOK'
    PROVE  Following'
<1> DEFINE m == Head(wire)
           c == m.client
<1>1. /\ m \in Event /\ c \in Client /\ m.kind = "connected"
      /\ EventsIn(wire) = EventsIn(wire') \cup {m}
      /\ Ordered(wire') /\ \A e \in EventsIn(wire') : InOrder(m, e)
      /\ \A e \in EventsIn(deferred) : InOrder(m, e)
      /\ UNCHANGED <<run, issued, Standing, deferred, link>>
  BY FirstEvent DEF ReceiveConnected
<1>2. /\ devices' = {d \in devices : d.id # c.id} \cup {c}
      /\ list' = IF Mounted /\ ~Present(c.id) THEN list \cup {c} ELSE list
      /\ missed' = IF Mounted THEN missed ELSE missed \cup {c.id}
  BY DEF ReceiveConnected
<1> HIDE DEF m
<1>3. /\ c \in issued /\ c \notin list \cup devices /\ c.run \in Nat
      /\ \A e \in EventsIn(wire) : e.client.run = c.run
      /\ \A d \in devices : d.run <= c.run /\ d \in Client /\ d.run \in Nat
      /\ \A r \in list : r \in Client /\ r.run \in Nat
  <2>1. /\ m \in EventsIn(wire)
        /\ issued \subseteq Client /\ list \subseteq Client /\ devices \subseteq Client
    BY <1>1 DEF IInv, TypeOK
  <2>2. /\ c \in issued
        /\ \A e \in EventsIn(wire) : e.client.run = c.run
        /\ \A d \in devices : d.run <= c.run
    BY <2>1 DEF IInv, Known
  <2>3. c \notin list \cup devices
    BY <1>1, <2>1 DEF IInv, Sequence
  <2>4. \A x \in Client : x.run \in Nat
    BY MessageTypes DEF Runs
  <2> QED
    BY <2>1, <2>2, <2>3, <2>4
<1>4. \A e \in EventsIn(wire') : e.client = c => e.kind = "gone"
  BY <1>1 DEF InOrder
<1>5. \A e \in EventsIn(deferred) : e.client = c => e.kind = "gone"
  BY <1>1 DEF InOrder
<1>6. Known'
  BY <1>1, <1>2, <1>3 DEF IInv, Known
<1>7. Sequence'
  <2>1. Ordered(wire') /\ Ordered(deferred')
    BY <1>1 DEF IInv, Sequence
  <2>2. \A e \in EventsIn(wire'), f \in EventsIn(deferred') : InOrder(e, f)
    BY <1>1 DEF IInv, Sequence
  <2>3. ASSUME NEW e \in EventsIn(wire') \cup EventsIn(deferred')
        PROVE  /\ e.kind = "connected" => e.client \notin list' \cup devices'
               /\ e.kind = "gone" => e.client \notin Standing'
    <3>1. e \in EventsIn(wire) \cup EventsIn(deferred)
      BY <1>1, <2>3
    <3>2. e.kind = "connected" => e.client \notin list \cup devices /\ e.client # c
      BY <1>1, <1>4, <1>5, <3>1 DEF IInv, Sequence
    <3> QED
      BY <1>1, <1>2, <3>1, <3>2 DEF IInv, Sequence
  <2> QED
    BY <2>1, <2>2, <2>3 DEF Sequence
<1>8. ASSUME NEW x \in Client, x.id = c.id, x.id \notin missed'
      PROVE  /\ Mounted /\ x.id \notin missed
             /\ x \notin devices /\ x \notin list /\ ~Present(c.id)
  <2>1. Mounted /\ x.id \notin missed
    BY <1>2, <1>8
  <2>2. ASSUME NEW d \in devices, d.id = c.id
        PROVE  FALSE
    <3>1. d \in list /\ m \in EventsIn(wire)
      BY <1>1, <1>3, <1>8, <2>1, <2>2 DEF IInv, Agreed
    <3>2. m.client = d
      BY <1>3, <1>8, <2>1, <2>2, <3>1 DEF IInv, Agreed
    <3> QED
      BY <1>3, <2>2, <3>2
  <2>3. x \notin devices /\ ~Present(c.id)
    BY <1>8, <2>2 DEF Present
  <2>4. x \notin list
    BY <2>1, <2>3 DEF IInv, Agreed
  <2> QED
    BY <2>1, <2>3, <2>4
<1>9. ASSUME NEW x \in Client, x.id \notin missed'
      PROVE  /\ x \in list' <=> x \in list \cup {c}
             /\ x \in list' <=> x \in devices'
  <2>1. CASE x.id = c.id
    BY <1>2, <1>8, <1>9, <2>1
  <2>2. CASE x.id # c.id
    <3>1. x.id \notin missed
      BY <1>2, <1>9
    <3> QED
      BY <1>2, <2>2, <3>1 DEF IInv, Agreed
  <2> QED
    BY <2>1, <2>2
<1>10. ASSUME NEW x \in Client, x.id \notin missed'
       PROVE  x \in Expected' <=> x \in Expected
  <2>1. x \in Expected' <=>
           /\ \/ x \in list'
              \/ \E e \in EventsIn(wire') \cup EventsIn(deferred) :
                   e.kind = "connected" /\ e.client = x
           /\ ~ \E e \in EventsIn(wire') \cup EventsIn(deferred) :
                   e.kind = "gone" /\ e.client = x
    BY <1>1 DEF Expected
  <2>2. CASE x = c
    BY <1>1, <1>9, <1>10, <2>1, <2>2, ExpectedIs
  <2>3. CASE x # c
    BY <1>1, <1>9, <1>10, <2>1, <2>3, ExpectedIs
  <2> QED
    BY <2>2, <2>3
<1>11. ASSUME NEW x \in Client, x.id \notin missed', x \in list',
              NEW e \in EventsIn(wire'), e.client.id = x.id
       PROVE  e.client = x
  <2>1. x.id \notin missed /\ e \in EventsIn(wire) /\ e.client \in Client
    BY <1>1, <1>2, <1>11, MessageTypes DEF EventsIn
  <2>2. CASE x = c
    BY <1>3, <1>11, <2>1, <2>2 DEF Client
  <2>3. CASE x # c
    BY <1>9, <1>11, <2>1, <2>3 DEF IInv, Agreed
  <2> QED
    BY <2>2, <2>3
<1>12. Agreed'
  <2>1. \A x \in Client : x.id \notin missed' => x.id \notin missed
    BY <1>2
  <2> QED
    BY <1>1, <1>9, <1>10, <1>11, <2>1 DEF IInv, Agreed
<1>13. RowsAreKnown'
  <2>1. ASSUME NEW r \in list', NEW s \in list', s.id = r.id
        PROVE  s = r
    <3>1. CASE r \in list /\ s \in list
      BY <2>1, <3>1 DEF IInv, RowsAreKnown
    <3>2. CASE r \notin list \/ s \notin list
      BY <1>2, <2>1, <3>2 DEF IInv, RowsAreKnown, Present
    <3> QED
      BY <3>1, <3>2
  <2>2. ASSUME NEW r \in list'
        PROVE  \E d \in devices' : d.id = r.id /\ d.run >= r.run
    <3>1. CASE r \in list
      <4>1. PICK d \in devices : d.id = r.id /\ d.run >= r.run
        BY <3>1 DEF IInv, RowsAreKnown
      <4>2. d.id = c.id => c.run >= r.run
        BY <1>3, <3>1, <4>1
      <4> QED
        BY <1>2, <4>1, <4>2
    <3>2. CASE r \notin list
      BY <1>2, <1>3, <2>2, <3>2
    <3> QED
      BY <3>1, <3>2
  <2> QED
    BY <2>1, <2>2 DEF RowsAreKnown
<1> QED
  BY <1>6, <1>7, <1>12, <1>13 DEF Following

\* A device is said to be gone: its row goes, and no other.
LEMMA GoneFollowing ==
    ASSUME IInv, ReceiveGone, TypeOK'
    PROVE  Following'
<1> DEFINE m == Head(wire)
           c == m.client
<1>1. /\ m \in Event /\ c \in Client /\ m.kind = "gone"
      /\ EventsIn(wire) = EventsIn(wire') \cup {m}
      /\ Ordered(wire') /\ \A e \in EventsIn(wire') : InOrder(m, e)
      /\ \A e \in EventsIn(deferred) : InOrder(m, e)
      /\ UNCHANGED <<run, issued, Standing, deferred, link>>
  BY FirstEvent DEF ReceiveGone
<1>2. /\ devices' = {d \in devices : d.id # c.id}
      /\ list' = IF Present(c.id) THEN {r \in list : r.id # c.id} ELSE list
      /\ missed' = missed
  BY DEF ReceiveGone
<1> HIDE DEF m
<1>3. \A e \in EventsIn(wire') \cup EventsIn(deferred) : e.client # c
  BY <1>1 DEF InOrder
<1>4. Known'
  BY <1>1, <1>2 DEF IInv, Known
<1>5. Sequence'
  BY <1>1, <1>2 DEF IInv, Sequence
<1>6. \A r \in list : r.id # c.id \/ Present(c.id)
  BY DEF IInv, RowsAreKnown, Present
<1>7. list' = {r \in list : r.id # c.id}
  BY <1>2, <1>6
<1>8. ASSUME NEW x \in Client, x.id \notin missed
      PROVE  x \in Expected' <=> x \in Expected
  <2>1. x \in Expected' <=>
           /\ \/ x \in list'
              \/ \E e \in EventsIn(wire') \cup EventsIn(deferred) :
                   e.kind = "connected" /\ e.client = x
           /\ ~ \E e \in EventsIn(wire') \cup EventsIn(deferred) :
                   e.kind = "gone" /\ e.client = x
    BY <1>1 DEF Expected
  <2>2. CASE x = c
    <3>1. x \notin list' /\ x \notin Expected'
      BY <1>3, <1>7, <2>1, <2>2
    <3>2. x \notin Expected
      BY <1>1, <2>2, ExpectedIs
    <3> QED
      BY <3>1, <3>2
  <2>3. CASE x # c
    <3>1. x \in list' <=> x \in list
      <4>1. x \in list /\ x.id = c.id => x = c
        BY <1>1, <1>8 DEF IInv, Agreed
      <4> QED
        BY <1>7, <2>3, <4>1
    <3> QED
      BY <1>1, <2>1, <2>3, <3>1, ExpectedIs
  <2> QED
    BY <2>2, <2>3
<1>9. Agreed'
  BY <1>1, <1>2, <1>7, <1>8 DEF IInv, Agreed
<1>10. RowsAreKnown'
  BY <1>2, <1>7 DEF IInv, RowsAreKnown
<1> QED
  BY <1>4, <1>5, <1>9, <1>10 DEF Following

-----------------------------------------------------------------------------
(* Every step *)

LEMMA NextIInv == IInv /\ [Next]_vars => IInv'
<1>1. ASSUME IInv, Next
      PROVE  IInv'
  <2>1. TypeOK'
    BY <1>1, ServerTypes, BackendTypes, UserTypes DEF IInv, Next, Using
  <2>2. Sides' /\ Meant'
    BY <1>1, SidesStep, MeantStep
  <2>3. Following'
    <3>1. CASE \/ HandleRequest \/ HandleStop \/ StopReturns \/ HandleDisconnect
               \/ Staying \/ (\E c \in clients : ReturnsEarly(c))
               \/ Opens \/ CloseQuit \/ FailsToConnect \/ ReceiveReply
               \/ OpenPanel \/ OpenSettings \/ GoHome \/ GoSettings
               \/ (\E r \in list : GoDevice(r)) \/ ForceDisconnect \/ Toggle
      BY <1>1, <2>1, <3>1, QuietSteps, QuietKeeps DEF Following
    <3>2. CASE \/ ServerStarts \/ ServerDies \/ ShutdownReturns
               \/ Loses \/ CloseWindow \/ \E shutdown \in BOOLEAN : Quit(shutdown)
      BY <1>1, <2>1, <3>2, DroppingSteps, DroppingFollowing
    <3>3. CASE \E id \in Ids : Arrives(id)
      BY <1>1, <2>1, <3>3, ArrivesFollowing
    <3>4. CASE \E c \in clients : Leaves(c)
      BY <1>1, <2>1, <3>4, LeavesFollowing
    <3>5. CASE Publish
      BY <1>1, <2>1, <3>5, PublishFollowing
    <3>6. CASE ReceiveConnected
      BY <1>1, <2>1, <3>6, ConnectedFollowing
    <3>7. CASE ReceiveGone
      BY <1>1, <2>1, <3>7, GoneFollowing
    <3> QED
      BY <1>1, <3>1, <3>2, <3>3, <3>4, <3>5, <3>6, <3>7 DEF Next, Serving, Receiving
  <2> QED
    BY <2>1, <2>2, <2>3 DEF IInv, Following
<1>2. ASSUME IInv, UNCHANGED vars
      PROVE  IInv'
  <2>1. TypeOK'
    BY <1>2 DEF IInv, TypeOK, vars, server, socket, backend, window
  <2>2. Sides' /\ Meant'
    BY <1>2 DEF IInv, Sides, Standing, Meant, vars, server, socket, backend, window
  <2>3. Quiet
    BY <1>2 DEF IInv, Sequence, Quiet, Standing, vars, server, socket, backend, window
  <2> QED
    BY <1>2, <2>1, <2>2, <2>3, QuietKeeps DEF IInv
<1> QED
  BY <1>1, <1>2

-----------------------------------------------------------------------------
(* Requests *)

\* The loop thread answers one request at a time.
Asking ==
    /\ loop \notin {"off", "thrown"} => answering = 0
    /\ PendingIsUnderWay

\* A request that is put at the end of a queue.
LEMMA AskKeeps ==
    ASSUME IInv, Asking, NEW kind \in {"info", "on", "off"}, Asks(kind),
           UNCHANGED <<loop, answering>>
    PROVE  Asking'
<1> DEFINE m == [kind |-> kind, req |-> lastReq + 1]
<1>1. lastReq + 1 \in Reqs
  BY PanelAssumption DEF Asks, IInv, TypeOK, Reqs
<1>2. m \in Request /\ m.req = lastReq + 1
  BY <1>1 DEF Request
<1>3. /\ upWire \in Seq(Request \cup Command) /\ sendq \in Seq(Request \cup Command)
      /\ m \in Request \cup Command
  BY <1>2 DEF IInv, TypeOK
<1>4. /\ pending' = pending \cup {m.req} /\ awaited' = m.req
      /\ upWire' = IF link = "open" THEN Append(upWire, m) ELSE upWire
      /\ sendq' = IF link \in {"down", "quit"} THEN Append(sendq, m) ELSE sendq
      /\ link' = link /\ wire' = wire
  BY DEF Asks, Send
<1> HIDE DEF m
<1>5. link = "open" => RequestsIn(upWire) \cup {m.req} \subseteq RequestsIn(upWire')
  BY <1>2, <1>3, <1>4, AppendEvents
<1>6. link \in {"down", "quit"} =>
        RequestsIn(sendq) \cup {m.req} \subseteq RequestsIn(sendq')
  BY <1>2, <1>3, <1>4, AppendEvents
<1> QED
  BY <1>4, <1>5, <1>6 DEF Asking, PendingIsUnderWay

\* Every step keeps a pending request in the queue, on a socket or being answered.
LEMMA AskingStep == ASSUME IInv, Asking, [Next]_vars PROVE Asking'
<1>1. /\ deferred \in Seq(Event) /\ wire \in Seq(Event \cup Reply)
      /\ upWire \in Seq(Request \cup Command) /\ sendq \in Seq(Request \cup Command)
  BY DEF IInv, TypeOK
<1>2. CASE \/ ServerStarts
           \/ \E id \in Ids : Arrives(id)
           \/ \E c \in clients : ReturnsEarly(c) \/ Leaves(c)
           \/ OpenSettings \/ CloseWindow \/ GoSettings \/ (\E r \in list : GoDevice(r))
           \/ UNCHANGED vars
  <2>1. /\ UNCHANGED <<loop, answering, link, wire, upWire, sendq, pending>>
        /\ awaited' \in {awaited, 0}
    BY <1>2
    DEF ServerStarts, Arrives, ReturnsEarly, Leaves, Emit, OpenSettings, CloseWindow,
        GoSettings, GoDevice, LeavesPage, vars, server, socket, backend, window
  <2> QED
    BY <2>1 DEF Asking, PendingIsUnderWay
<1>3. CASE ServerDies \/ ShutdownReturns
  <2>1. /\ loop' = "idle" /\ answering' = 0 /\ UNCHANGED <<sendq, pending, awaited>>
        /\ link' = CASE link = "open" -> "broken"
                     [] link = "quit" -> "down"
                     [] OTHER -> link
    BY <1>3 DEF ServerDies, ShutdownReturns, Ends, backend, window
  <2> QED
    BY <2>1 DEF Asking, PendingIsUnderWay
<1>4. CASE Loses \/ FailsToConnect \/ (\E shutdown \in BOOLEAN : Quit(shutdown))
  <2>1. pending' = {} /\ awaited' = 0 /\ UNCHANGED <<loop, answering>>
    BY <1>4 DEF Loses, FailsToConnect, RejectAll, Quit, server
  <2> QED
    BY <2>1 DEF Asking, PendingIsUnderWay
<1>5. CASE Publish
  <2>1. /\ deferred # <<>> /\ wire' \in {wire, Append(wire, Head(deferred))}
        /\ UNCHANGED <<loop, answering, link, upWire, sendq, pending, awaited>>
    BY <1>5 DEF Publish, backend, window
  <2>2. Head(deferred) \in Event \cup Reply
    BY <1>1, <2>1, HeadEvents
  <2>3. RepliesIn(wire) \subseteq RepliesIn(Append(wire, Head(deferred)))
    BY <1>1, <2>2, AppendEvents
  <2> QED
    BY <2>1, <2>3 DEF Asking, PendingIsUnderWay
<1>6. CASE HandleRequest \/ HandleThrows \/ HandleStop \/ HandleDisconnect
  <2> DEFINE m == Head(upWire)
  <2>1. /\ loop = "idle" /\ upWire # <<>> /\ upWire' = Tail(upWire)
        /\ UNCHANGED <<link, sendq, pending, awaited>>
    BY <1>6
    DEF HandleRequest, HandleThrows, HandleStop, HandleDisconnect, Takes, backend, window
  <2>2. /\ m \in Request \cup Command
        /\ \A r \in RequestsIn(upWire) :
              r \in RequestsIn(upWire') \/ (m \in Request /\ r = m.req)
    BY <1>1, <2>1, HeadEvents
  <2>3. /\ m.kind \in {"info", "on", "off"} => m \in Request /\ m.req \in Reqs
        /\ m.kind \in {"disconnect", "shutdown"} => m \notin Request
    BY <2>2 DEF Request, Command
  <2>4. CASE HandleRequest
    <3> DEFINE r == [kind |-> "reply", req |-> m.req, enabled |-> enabled']
    <3>1. /\ UNCHANGED <<loop, answering>> /\ m.kind \in {"info", "on"}
          /\ link = "open" => wire' = Append(wire, r)
          /\ enabled' \in BOOLEAN
      BY <2>4 DEF HandleRequest, Takes, Answer, IInv, TypeOK
    <3>2. r \in Reply /\ r \in Event \cup Reply /\ r.req = m.req
      BY <2>3, <3>1 DEF Reply
    <3> HIDE DEF m, r
    <3>3. RepliesIn(wire) \cup {m.req} \subseteq RepliesIn(Append(wire, r))
      BY <1>1, <3>2, AppendEvents
    <3> QED
      BY <2>1, <2>2, <3>1, <3>3 DEF Asking, PendingIsUnderWay
  <2>5. CASE HandleStop
    <3>1. /\ m.kind \in {"off", "shutdown"} /\ loop' = m.kind /\ wire' = wire
          /\ answering' = IF m.kind = "off" THEN m.req ELSE 0
      BY <2>5 DEF HandleStop, Takes
    <3>2. \A r \in RequestsIn(upWire) : r \in RequestsIn(upWire') \/ r = answering'
      BY <2>2, <2>3, <3>1
    <3>3. answering = 0 /\ 0 \notin pending
      BY <2>1, PanelAssumption DEF Asking, IInv, TypeOK, Reqs
    <3> QED
      BY <2>1, <3>1, <3>2, <3>3 DEF Asking, PendingIsUnderWay
  <2>6. CASE HandleDisconnect
    <3>1. /\ m.kind = "disconnect" /\ UNCHANGED <<answering, wire>>
          /\ loop' \in {"idle", "disconnect"}
      BY <2>6 DEF HandleDisconnect, Takes
    <3> QED
      BY <2>1, <2>2, <2>3, <3>1 DEF Asking, PendingIsUnderWay
  <2>7. CASE HandleThrows
    <3>1. /\ m.kind \in {"info", "on"} /\ loop' = "thrown" /\ wire' = wire
          /\ answering' = m.req
      BY <2>7 DEF HandleThrows, Takes
    <3>2. \A r \in RequestsIn(upWire) : r \in RequestsIn(upWire') \/ r = answering'
      BY <2>2, <3>1
    <3>3. answering = 0 /\ 0 \notin pending
      BY <2>1, PanelAssumption DEF Asking, IInv, TypeOK, Reqs
    <3> QED
      BY <2>1, <3>1, <3>2, <3>3 DEF Asking, PendingIsUnderWay
  <2> QED
    BY <1>6, <2>4, <2>5, <2>6, <2>7
<1>7. CASE StopReturns
  <2> DEFINE m == [kind |-> "reply", req |-> answering, enabled |-> FALSE]
  <2>1. /\ loop = "off" /\ loop' = "idle" /\ answering' = 0
        /\ link = "open" => wire' = Append(wire, m)
        /\ UNCHANGED <<link, upWire, sendq, pending, awaited>>
    BY <1>7 DEF StopReturns, Answer, backend, window
  <2>2. m \in Reply
    BY <2>1 DEF Reply, IInv, Sides
  <2>3. link = "open" => RepliesIn(wire) \cup {answering} \subseteq RepliesIn(wire')
    <3>1. m.req = answering /\ m \in Event \cup Reply
      BY <2>2
    <3> HIDE DEF m
    <3>2. RepliesIn(wire) \cup {m.req} \subseteq RepliesIn(Append(wire, m))
      BY <1>1, <2>2, <3>1, AppendEvents
    <3> QED
      BY <2>1, <3>1, <3>2
  <2> QED
    BY <2>1, <2>3 DEF Asking, PendingIsUnderWay
<1>8. CASE Opens \/ CloseQuit
  <2>1. /\ UNCHANGED <<loop, answering, wire, pending, awaited>>
        /\ \/ link = "down" /\ link' = "open" /\ upWire' = sendq
           \/ link = "quit" /\ link' = "down" /\ sendq' = sendq
    BY <1>8 DEF Opens, CloseQuit, server, backend, window
  <2> QED
    BY <2>1 DEF Asking, PendingIsUnderWay
<1>9. CASE ReceiveConnected \/ ReceiveGone \/ ReceiveReply
  <2> DEFINE m == Head(wire)
  <2>1. /\ wire # <<>> /\ wire' = Tail(wire)
        /\ UNCHANGED <<loop, answering, link, upWire, sendq>>
    BY <1>9 DEF ReceiveConnected, ReceiveGone, ReceiveReply, Receives, server
  <2>2. /\ m \in Event \cup Reply
        /\ \A r \in RepliesIn(wire) : r \in RepliesIn(wire') \/ (m \in Reply /\ r = m.req)
    BY <1>1, <2>1, HeadEvents
  <2>3. CASE ReceiveConnected \/ ReceiveGone
    <3>1. m.kind \in {"connected", "gone"} /\ UNCHANGED <<pending, awaited>>
      BY <2>3 DEF ReceiveConnected, ReceiveGone, Receives
    <3>2. m \notin Reply
      BY <3>1 DEF Reply
    <3> QED
      BY <2>1, <2>2, <3>1, <3>2 DEF Asking, PendingIsUnderWay
  <2>4. CASE ReceiveReply
    <3>1. /\ pending' = pending \ {m.req}
          /\ awaited' = IF m.req \in pending /\ m.req = awaited THEN 0 ELSE awaited
      BY <2>4 DEF ReceiveReply
    <3> HIDE DEF m
    <3> QED
      BY <2>1, <2>2, <3>1 DEF Asking, PendingIsUnderWay
  <2> QED
    BY <1>9, <2>3, <2>4
<1>10. CASE OpenPanel \/ GoHome \/ Toggle
  <2>1. /\ Asks("info") \/ Asks("on") \/ Asks("off")
        /\ UNCHANGED <<loop, answering>>
    BY <1>10 DEF OpenPanel, GoHome, Toggle, server
  <2> QED
    BY <2>1, AskKeeps
<1>11. CASE ForceDisconnect
  <2> DEFINE m == [kind |-> "disconnect", client |-> page]
  <2>1. /\ UNCHANGED <<loop, answering, link, wire, pending, awaited>>
        /\ upWire' \in {upWire, Append(upWire, m)} /\ sendq' \in {sendq, Append(sendq, m)}
    BY <1>11 DEF ForceDisconnect, Send, server, backend
  <2>2. m \in Request \cup Command
    BY <1>11 DEF ForceDisconnect, Command, IInv, TypeOK, Meant
  <2> HIDE DEF m
  <2>3. RequestsIn(upWire) \subseteq RequestsIn(upWire')
    <3>1. RequestsIn(upWire) \subseteq RequestsIn(Append(upWire, m))
      BY <1>1, <2>2, AppendEvents
    <3> QED
      BY <2>1, <3>1
  <2>4. RequestsIn(sendq) \subseteq RequestsIn(sendq')
    <3>1. RequestsIn(sendq) \subseteq RequestsIn(Append(sendq, m))
      BY <1>1, <2>2, AppendEvents
    <3> QED
      BY <2>1, <3>1
  <2> QED
    BY <2>1, <2>3, <2>4 DEF Asking, PendingIsUnderWay
<1>12. CASE DisconnectReturns
  <2>1. /\ loop = "disconnect" /\ loop' = "idle"
        /\ UNCHANGED <<answering, link, wire, upWire, sendq, pending, awaited>>
    BY <1>12 DEF DisconnectReturns, socket, backend, window
  <2> QED
    BY <2>1 DEF Asking, PendingIsUnderWay
<1> QED
  BY <1>2, <1>3, <1>4, <1>5, <1>6, <1>7, <1>8, <1>9, <1>10, <1>11, <1>12
  DEF Next, Serving, Staying, Receiving

-----------------------------------------------------------------------------
(* The theorems *)

\* The invariant holds in every state.
THEOREM Invariance == Spec => []IInv
<1>1. Init => IInv
  BY InitIInv
<1>2. IInv /\ [Next]_vars => IInv'
  BY NextIInv
<1> QED
  BY <1>1, <1>2, PTL DEF Spec

\* Type correctness of the backend, the window and the server they talk to.
THEOREM TypeCorrect == Spec => []TypeOK
<1>1. IInv => TypeOK
  BY DEF IInv
<1> QED
  BY <1>1, Invariance, PTL

\* The list adds up to the clients of the server and those that returned early, as
\* long as no event is lost.
THEOREM ListFollows == Spec => []ListFollowsServer
<1>1. IInv => ListFollowsServer
  <2> SUFFICES ASSUME IInv, NEW id \in Ids \ missed
               PROVE  \A c : c \in Expected /\ c.id = id <=> c \in Standing /\ c.id = id
    BY DEF ListFollowsServer
  <2>1. Standing \subseteq Client
    BY DEF IInv, TypeOK, Standing
  <2>2. Expected \subseteq Client
    <3>1. \A e \in EventsIn(wire) \cup EventsIn(deferred) : e.client \in Client
      BY MessageTypes DEF EventsIn
    <3> QED
      BY <3>1, ExpectedIs DEF IInv, TypeOK
  <2> QED
    BY <2>1, <2>2 DEF IInv, Agreed
<1> QED
  BY <1>1, Invariance, PTL

\* Every row has its page, and the rows have different identifiers.
THEOREM Rows == Spec => []RowsAreKnown
<1>1. IInv => RowsAreKnown
  BY DEF IInv
<1> QED
  BY <1>1, Invariance, PTL

\* A forced disconnect never reaches a client but the chosen one or a client of a
\* later process of the server.
THEOREM Disconnects == Spec => DisconnectHitsItsDevice
<1> DEFINE Hit == \A c \in forced' \ forced :
                     LET chosen == Head(upWire).client
                     IN  c = chosen \/ (c.id = chosen.id /\ c.run > chosen.run)
<1>1. IInv /\ [Next]_vars => [Hit]_vars
  <2> SUFFICES ASSUME IInv, Next, NEW c \in forced' \ forced
               PROVE  LET chosen == Head(upWire).client
                      IN  c = chosen \/ (c.id = chosen.id /\ c.run > chosen.run)
    BY DEF vars, server
  <2>1. HandleDisconnect
    BY DEF Next, Serving, Staying, Receiving, ServerStarts, ServerDies, Ends, Arrives,
           ReturnsEarly, Leaves, Publish, HandleThrows, DisconnectReturns,
           HandleRequest, HandleStop, StopReturns, ShutdownReturns, Takes,
           Opens, CloseQuit, Loses, FailsToConnect, ReceiveConnected, ReceiveGone,
           ReceiveReply, Receives, OpenPanel, OpenSettings, CloseWindow, GoHome,
           GoSettings, GoDevice, ForceDisconnect, Toggle, Quit, server
  <2> DEFINE chosen == Head(upWire).client
  <2>2. Head(upWire) \in Request \cup Command /\ Head(upWire).kind = "disconnect"
    BY <2>1, QueueTypes DEF HandleDisconnect, Takes, IInv
  <2>3. chosen \in Client /\ chosen.run \in Nat
    BY <2>2, MessageTypes DEF Runs
  <2>4. c \in clients /\ c.id = chosen.id
    BY <2>1 DEF HandleDisconnect
  <2>5. c \in Client /\ c.run = run /\ run \in Nat
    BY <2>4, PanelAssumption DEF IInv, TypeOK, Known, Standing
  <2>6. chosen.run <= run
    <3>1. upWire # <<>> /\ upWire \in Seq(Request \cup Command)
      BY <2>1 DEF HandleDisconnect, Takes, IInv, TypeOK
    <3>2. 1 \in DOMAIN upWire /\ upWire[1] = Head(upWire)
      BY <3>1
    <3> QED
      BY <2>2, <3>2 DEF IInv, Meant, Within
  <2> QED
    BY <2>3, <2>4, <2>5, <2>6 DEF Client
<1> QED
  BY <1>1, Invariance, PTL DEF Spec, DisconnectHitsItsDevice

\* No request of the panel is lost in silence: what a page waits for is pending, and
\* the request, the server that works on it, or its answer is still there.
THEOREM Requests == Spec => []PendingIsUnderWay
<1>1. Init => Asking
  BY DEF Init, Asking, PendingIsUnderWay
<1>2. IInv /\ Asking /\ [Next]_vars => Asking'
  BY AskingStep
<1>3. Asking => PendingIsUnderWay
  BY DEF Asking
<1> QED
  BY <1>1, <1>2, <1>3, Invariance, PTL DEF Spec
=============================================================================
